SPECIFICATION Spec
CONSTANTS
  a4 = a4  a6 = a6  watch = watch  auto = auto
  Clients <- TwoClients
  Hosts4 = {a4}
  Hosts6 = {a6}
  Lists <- OneHost
  SeqMod = 3
  Nobody = Nobody
INVARIANT NothingOutlives
CHECK_DEADLOCK FALSE
