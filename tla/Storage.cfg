\* Three transactions over one key and the cost key, with room for one of
\* them; two jobs, two worker processes, two attempts and two faults.
SPECIFICATION MCSpec
\* Transactions and jobs end, and faults run out.
CHECK_DEADLOCK FALSE
CONSTANTS
  Txs = {p1, p2, p3}
  Keys = {"k1"}
  MaxMemoryKeys = 1
  MaxAborts = 1
  Jobs = {1, 2}
  Procs = {q1, q2}
  MaxAttempts = 2
  MaxFaults = 2
INVARIANTS SessionKept ParentIsWoken 
PROPERTIES ImplementsDelivery WorkEnds
