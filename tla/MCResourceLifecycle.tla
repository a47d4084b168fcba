------------------------- MODULE MCResourceLifecycle -------------------------
(* The instance TLC checks: two worker processes, of which one also serves *)
(* tool calls.                                                             *)
EXTENDS ResourceLifecycle

CONSTANTS v1, v2

MCWorkers == {v1, v2}
MCToolHosts == {v1}
=============================================================================
