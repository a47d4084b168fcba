\* Nested waits, more than a sweep batch holds, and an answer to one of them.
SPECIFICATION Spec
CONSTANTS
  Roots = {root}
  Children = {c1, c2}
  NoRun = NoRun
  Workers = {v1}
  Calls = {k1}
  NoCall = NoCall
  MaxSteps = 2
  MaxChildren = 2
  Batch = 1
  MaxAnswers = 1
  MaxFaults = 0
  LongHistory = FALSE
  SweepHazards = {}
SYMMETRY Symmetry
\* Every run may have ended.
CHECK_DEADLOCK FALSE
INVARIANTS  ParkedIsResumable
