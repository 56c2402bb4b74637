SPECIFICATION BoardSpec
CONSTANTS
  Wifi = Wifi
  Tbd = Tbd
  c1 = c1
  c2 = c2
  NoDaemon = NoDaemon
  Daemons <- MCDaemons
  Callers <- MCCallers
  VrfCnt = 2
INVARIANTS
  StateTellsBoard
  OneUsesDevice
PROPERTIES
  ImplementsDaemon
  TbdSettles
  AnnouncedIsTried
CHECK_DEADLOCK FALSE
