\* Two deliveries of a step that makes one spawn more than the cap.
SPECIFICATION Spec
CONSTANTS
  Roots = {root}
  Children = {c1, c2, c3}
  NoRun = NoRun
  Workers = {v1, v2}
  Calls = {k1, k2, k3}
  NoCall = NoCall
  MaxSteps = 1
  MaxChildren = 2
  Batch = 1
  MaxAnswers = 0
  MaxFaults = 1
  LongHistory = FALSE
  SweepHazards = {}
SYMMETRY Symmetry
\* Every run may have ended.
CHECK_DEADLOCK FALSE
INVARIANTS
  SpawnOnce
  ChildCap
