\* The counter of wake-ups and the waitflag of a semaphore_waiter.
CONSTANTS
  NTASKS = 3
  Flags = {f1, s1}
  StackFlags = {s1}
  NULL = NULL
  PREEMPT_TICKS = 2
  PREEMPTION_BY_TIMER = FALSE
  Delays = {0}
  MAX_TIME = 0
  MAX_SET = 1
  MAX_UNCOUNTED = 1
SPECIFICATION Spec
INVARIANTS CounterNotBelowZero
