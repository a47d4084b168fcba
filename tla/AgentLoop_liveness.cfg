\* Waits, cancels and active runs end.
SPECIFICATION FairSpec
CONSTANTS
  Roots = {root}
  Children = {c1}
  NoRun = NoRun
  Workers = {v1}
  Calls = {k1}
  NoCall = NoCall
  MaxSteps = 2
  MaxChildren = 1
  Batch = 1
  MaxAnswers = 1
  MaxFaults = 1
  LongHistory = TRUE
  SweepHazards = {}
\* Every run may have ended.
CHECK_DEADLOCK FALSE
PROPERTIES WaitEnds RunsSettle
