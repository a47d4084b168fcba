\* Two workers, a parent and a child, every failure.
SPECIFICATION Spec
CONSTANTS
  Roots = {root}
  Children = {c1}
  NoRun = NoRun
  Workers = {v1, v2}
  Calls = {k1}
  NoCall = NoCall
  MaxSteps = 2
  MaxChildren = 1
  Batch = 1
  MaxAnswers = 1
  MaxFaults = 2
  LongHistory = FALSE
  SweepHazards = {"crash", "error", "skip"}
SYMMETRY Symmetry
\* Every run may have ended.
CHECK_DEADLOCK FALSE
INVARIANTS StepsContiguous NoOrphanRun OpenWaitStillPending
PROPERTIES CancelHolds ConversationKept
