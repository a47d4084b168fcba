\* A cancelled child and its parked parent.
SPECIFICATION Spec
CONSTANTS
  Roots = {root}
  Children = {c1}
  NoRun = NoRun
  Workers = {v1, v2}
  Calls = {k1}
  NoCall = NoCall
  MaxSteps = 3
  MaxChildren = 1
  Batch = 1
  MaxAnswers = 0
  MaxFaults = 0
  LongHistory = FALSE
  SweepHazards = {}
\* Every run may have ended.
CHECK_DEADLOCK FALSE
INVARIANTS
  OpenWaitHasPendingMember
