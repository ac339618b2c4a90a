CONSTANTS
  w1 = w1  w2 = w2  t1 = t1  t2 = t2  t3 = t3  t4 = t4
  Worker = {w1, w2}  Task = {t1, t2, t3, t4}
  lifo_threshold = 1  starvation_guard_interval = 3  MaxNotifies = 2  JThread = TRUE
SPECIFICATION PoolFairSpec
INVARIANT EnoughAwake
PROPERTIES
  NoStarvation
  WaitReturns
  Joined
CHECK_DEADLOCK FALSE
