CONSTANTS
  d1 = d1
  c1 = c1
  c2 = c2
  w1 = w1
  w2 = w2
  Cli = cli
  None = None
  MaxTyped = 2
  Docks <- MCDocks
  Cmds <- MCCmds
  Workers <- MCWorkers
SPECIFICATION Spec
INVARIANTS UpdatingGuardsDock UnheldIsAlive
PROPERTIES RegisterIsStable StopEndsProgram
