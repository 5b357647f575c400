CONSTANTS
  Threads = {t1, t2, t3}
  t1 = t1
  t2 = t2
  t3 = t3
  TaskNum = 3
  MaxDeletes = 2
SPECIFICATION Spec
INVARIANTS TypeOK AssertsHold OneTaskLate
PROPERTIES EveryTaskTaken PoolDestroyReturns
CHECK_DEADLOCK FALSE
