SPECIFICATION Spec
CONSTANTS
  pub = pub  r1 = r1  r2 = r2
  Peer <- MCPeer
  Public = pub
  Conflicting <- MCConflicting
  Window = 2
  Sample <- MCSample
  RatioNum = 5
  RatioDen = 4
  Diff = 3
  DeleteLoss = 50
  NoPeer = NoPeer
CHECK_DEADLOCK FALSE
INVARIANTS BestIsLeast LossIsAMust NoFlap
PROPERTY LongTermBest
