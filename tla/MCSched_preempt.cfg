\* Safety of the scheduler with the timer armed: every interleaving of ticks,
\* wake-ups and waits of three tasks, for the flags f1 and f2 of drivers and
\* the waitflag s1 of a semaphore_waiter, which may begin with any value.
CONSTANTS
  NTASKS = 3
  Flags = {f1, f2, s1}
  StackFlags = {s1}
  NULL = NULL
  PREEMPT_TICKS = 2
  PREEMPTION_BY_TIMER = TRUE
  Delays = {0, 1}
  MAX_TIME = 1
  MAX_SET = 2
  MAX_UNCOUNTED = 1
SPECIFICATION Spec
SYMMETRY DriverFlagSymmetry
INVARIANTS TypeOK ListsMatchState CpuHeldByRunnable CounterCoversSetFlags WaitersHaveFlag
PROPERTIES NoOvertaking
