\* Tool lists, kind lists, caps and inheritance, on a tree of
\* three runs; two requests of two tenants; two overlapping deliveries of the
\* steps of a run whose history is long once it holds an answer.
SPECIFICATION MCSpec
SYMMETRY Symmetry
CONSTANTS
  Runs = {r1, r2, r3}
  Roots = {r1}
  NoRun = NoRun
  Tools = {"spawn_agent", "provision_resource", "wait_for_agents"}
  Kinds = {k1}
  Star = Star
  DefaultCap = 2
  Requests <- AllRequests
  Reqs = {q1, q2}
  MaxChanges = 2
  Deliveries = {1, 2}
  MaxStep = 1
  MaxPieces = 2
  MaxBytes = 2
  LongAt = 1
  Fallbacks = TRUE
  MaxTrouble = 1
\* A tree may be complete, and the bounds run out.
CHECK_DEADLOCK FALSE
INVARIANTS PolicyHolds TenantsApart StreamTold DeliveriesApart
