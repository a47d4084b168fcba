SPECIFICATION MCSpec
CHECK_DEADLOCK FALSE
CONSTANTS
  Requests = {r1, r2}
  Keys = {k1}
  NoKey = NoKey
  RateLimit = 1
  MaxConcurrent = 2
  MaxMoves = 2
  MaxFaults = 1
  Ids = {1, 2, 3}
  Vals = {1, 2}
  Limit = 1
  MaxEdits = 2
  Readers = {rd1}
  RelatedLimit = 1
  MaxWorldMoves = 2
INVARIANTS RecordHolds RetryAppliesOnce PagesWhole ReadsWhole
 
