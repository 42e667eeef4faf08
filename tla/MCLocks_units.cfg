\* Three tasks on one semaphore; three CPUs with tasks and interrupt handlers
\* on one spinlock, with monitors that are lost.  It stops when the bounded
\* calls are used up.
CONSTANTS
  Tasks = {t1, t2, t3}
  COUNT = 1
  COUNT_MOD = 8
  MAX_UPS = 4
  MAX_DOWNS = 2
  CPUs = {c1, c2, c3}
  MAX_UPDATES = 2
  MAX_CLEARS = 1
SPECIFICATION LocksSpec
CHECK_DEADLOCK FALSE
INVARIANTS UnitsConserved MutualExclusion NoSleepBesideFreeLock HandlerNeverWaitsForItself LostOnlyByLateStore
PROPERTIES SomeCpuGetsLock
