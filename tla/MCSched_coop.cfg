\* The scheduler as shipped (cooperative): it implements event flags, its run
\* list is fair, and waits end.
CONSTANTS
  NTASKS = 3
  Flags = {f1, f2}
  StackFlags = {}
  NULL = NULL
  PREEMPT_TICKS = 2
  PREEMPTION_BY_TIMER = FALSE
  Delays = {0, 2}
  MAX_TIME = 2
  MAX_SET = 2
  MAX_UNCOUNTED = 0
SPECIFICATION CooperativeSpec
PROPERTIES ImplementsEventFlag RunnableRuns WaitsEnd
