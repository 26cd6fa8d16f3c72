SPECIFICATION Spec
CONSTANTS
  w1 = w1  h1 = h1  c1 = c1  c2 = c2  c3 = c3
  Writers <- OneWriter
  Checks <- MCChecks
  Conn <- TwoConn
  NoConn = NoConn
  Cap = 1
  queueLimit = 1
  Environments <- CloseOnly
PROPERTIES CloseIsFinal
CHECK_DEADLOCK FALSE
