SPECIFICATION FairSpec
CHECK_DEADLOCK FALSE
CONSTANTS
  Writers = {w1, w2}
  Subs = {s1}
  MaxSeq = 3
  MaxFrom = 1
  Limit = 2
  PipeCap = 1
  WireCap = 1
  MaxFaults = 2
  MaxCuts = 2
INVARIANTS Gapless ReceivedInOrder NoLostWakeup RevokedSeesNothingNew
PROPERTIES ImplementsStream StreamsServed
