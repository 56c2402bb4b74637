SPECIFICATION PoolSpec
CONSTANTS
  w1 = w1
  w2 = w2
  t1 = t1
  t2 = t2
  NoTask = NoTask
  Workers <- MCTwoWorkers
  Tasks <- MCTwoTasks
INVARIANTS
  PopFindsTask
CHECK_DEADLOCK FALSE
