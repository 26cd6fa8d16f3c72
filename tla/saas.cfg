SPECIFICATION LiveSpec
CONSTANTS
  w1 = w1  h1 = h1  c1 = c1  c2 = c2  c3 = c3
  Writers <- OneWriter
  Checks <- MCChecks
  Conn <- MCConn
  NoConn = NoConn
  Cap = 1
  queueLimit = 1
  Environments <- MCEnvironments
INVARIANTS TypeOK InOrder Watched
PROPERTIES Recovers DeadConnectionDropped CallsReturn
CHECK_DEADLOCK FALSE
