SPECIFICATION LiveSpec
CONSTANTS
  a4 = a4  a6 = a6  watch = watch  auto = auto
  Clients <- OneClient
  Hosts4 = {a4}
  Hosts6 = {a6}
  Lists <- BothFamilies
  SeqMod = 3
  Nobody = Nobody
INVARIANTS TypeOK Truthful
PROPERTIES Implements PingReturns
CHECK_DEADLOCK FALSE
