SPECIFICATION Spec
CONSTANTS
  g1 = g1  p1 = p1  p2 = p2  p3 = p3  s1 = s1  pub = pub  sdn = sdn
  e1 = e1  eth = eth  k1 = k1  k2 = k2  k3 = k3
  Gid <- MCGid
  Addr <- TwoAddr
  Base <- TwoBase
  Iface <- MCIface
  Ip <- MCIp
  Wan <- MCWan
  Key <- TwoKey
  Peer <- TwoPeer
  CleanupOnExit = TRUE
  MayFail = TRUE
  MaxCount = 2
  MaxRestart = 1
  NoRoute = NoRoute  NoAddr = NoAddr  NoLoop = NoLoop  NoGw = NoGw  OtherDev = OtherDev
INVARIANTS ApplyReturns
