SPECIFICATION LiveSpec
CONSTANTS
  a = a  b = b  wg0 = wg0  wg1 = wg1  web = web  x = x  y = y
  Hosts = {a, b}
  Dev = {wg0, wg1}
  Svc = {web}
  Wan = {x, y}  Home = x
  MaxOwed = 2
  Environments <- MCEnvironments
  controlerSendCount = 2
  reconnectErrors = 2
  CountMod = 4
  RxCap = 1
  NoCmd = NoCmd  NoSvc = NoSvc  NoIp = NoIp  Nil = Nil
INVARIANTS TypeOK ReportsAsked LossIsTrue OnlyRealServices InOrder OnlyForAChange
PROPERTIES ReportsFollow PeersReported ServicesReported Executed AddressFollowed
CHECK_DEADLOCK FALSE
