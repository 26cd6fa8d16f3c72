SPECIFICATION Spec
CONSTANTS
  g1 = g1  g2 = g2  h1 = h1  h2 = h2
  p1 = p1  p2 = p2  q1 = q1  s1 = s1
  r1 = r1  r2 = r2  t1 = t1  u1 = u1  u2 = u2
  pub = pub  sdn = sdn  vol = vol
  Gid <- SharedGid
  Addr <- SharedAddr
  Base <- MCBase
  Iface <- SharedIface
  Offer <- SharedOffer
  Removal <- SharedRef
  Volatile = {}
  ForeignDst = {}
  DefaultRoute = {}
  VpnClient = FALSE
  CleanupOnExit = TRUE
  NoRoute = NoRoute  NoAddr = NoAddr  NoLoop = NoLoop  OtherDev = OtherDev
INVARIANT OneOwner
