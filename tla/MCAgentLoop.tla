---------------------------- MODULE MCAgentLoop ----------------------------
(***************************************************************************)
(* Model values and symmetry for the TLC runs of AgentLoop.                *)
(***************************************************************************)
EXTENDS AgentLoop, TLC

\* Workers, the ids of spawned children and tool-call ids are interchangeable.
Symmetry == Permutations(Workers) \cup Permutations(Children) \cup Permutations(Calls)
=============================================================================
