SPECIFICATION WaitersSpec
CONSTANTS
  d1 = d1
  c1 = c1
  c2 = c2
  c3 = c3
  NoDaemon = NoDaemon
  Daemons <- MCDaemons
  Callers <- MCThreeCallers
  w1 = w1
  t1 = t1
  t2 = t2
  t3 = t3
  NoTask = NoTask
  Workers <- MCOneWorker
  Tasks <- MCThreeTasks
INVARIANTS
  HooksExclusive
  StateTellsResources
  PopFindsTask
  WorkersStay
PROPERTIES
  ComesToRest
  PushedRuns
  KillReturns
CHECK_DEADLOCK FALSE
