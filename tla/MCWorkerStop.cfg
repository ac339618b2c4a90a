CONSTANTS
  w1 = w1  w2 = w2  t1 = t1  t2 = t2  t3 = t3  t4 = t4
  Worker = {w1, w2}  Task = {t1}
  lifo_threshold = 0  starvation_guard_interval = 5  MaxNotifies = 1  JThread = FALSE
SPECIFICATION PoolFairSpec
PROPERTY Joined
CHECK_DEADLOCK FALSE
