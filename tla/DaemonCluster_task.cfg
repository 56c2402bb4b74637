SPECIFICATION ClusterSpec
CONSTANTS
  base = base
  over = over
  dead = dead
  task = task
  user = user
  NoDaemon = NoDaemon
  Unlimited = Unlimited
  Daemons <- MCDaemons
  Callers <- MCCallers
  Cluster = task
  Order <- MCOrder
  Deps <- MCDeps
  KeepAlive <- MCKeepAlive
  RstIf <- MCRstIf
  Limit <- MCLimit
  Sound <- MCSound
  Dead <- MCDead
  MaxCalls = 2
INVARIANTS
  DepsFirst
PROPERTIES
  KeptAlive
  Escalates
  PassEnds
CHECK_DEADLOCK FALSE
