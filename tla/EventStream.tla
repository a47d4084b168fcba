----------------------------- MODULE EventStream -----------------------------
(***************************************************************************)
(* What a session's event log promises its subscribers (event.go,          *)
(* EventBus): events are numbered 1, 2, 3, ... without gaps, and each      *)
(* subscriber is handed exactly the events after the one it names, in      *)
(* order, each once.  EventLog is shown to implement it.                   *)
(***************************************************************************)
EXTENDS Naturals, Sequences

CONSTANT Subs

VARIABLES
  log,   \* how many events have been published
  from,  \* the seq each subscriber starts after
  got    \* the seqs each subscriber has been handed, in order

Init ==
  /\ log = 0
  /\ from \in [Subs -> Nat]
  /\ got = [s \in Subs |-> <<>>]

\* A transaction publishes one or more events.
Publish ==
  /\ log' \in Nat
  /\ log' > log
  /\ UNCHANGED <<from, got>>

NextFor(s) == from[s] + Len(got[s]) + 1

Deliver(s) ==
  /\ NextFor(s) <= log
  /\ got' = [got EXCEPT ![s] = Append(@, NextFor(s))]
  /\ UNCHANGED <<log, from>>

Next == Publish \/ \E s \in Subs : Deliver(s)

Spec == Init /\ [][Next]_<<log, from, got>>
=============================================================================
