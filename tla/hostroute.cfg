SPECIFICATION Spec
CONSTANTS
  a = a  b = b  eth = eth  wlan = wlan
  Ip <- MCIp
  Wan <- MCWan
  ForeignDst = {a}
  Volatile = {eth}
  CleanupOnExit = TRUE
  MaxCount = 2
  NoRoute = NoRoute  NoGw = NoGw  OtherDev = OtherDev
INVARIANTS TypeOK RoutesInPlace
PROPERTIES Implements SmartMerge
