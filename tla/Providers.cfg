SPECIFICATION MCSpec
CHECK_DEADLOCK FALSE
CONSTANTS
  Kinds = {"docker", "k8s", "nomad", "static", "null", "tunnel"}
  MaxUnits = 5
  MaxTokens = 3
  MaxFaults = 2
  MaxTries = 1
  Conns = {c1, c2, c3}
  Takes = {t1, t2, t3}
  Keepers = {k1}
  NoConn = NoConn
INVARIANTS UnitsFit FreshCredential ConnsAccounted
PROPERTIES  TerminationEnds
