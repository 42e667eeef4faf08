------------------------------- MODULE Sched -------------------------------
(***************************************************************************)
(* The task scheduler of one CPU (sched.c, include/sched.h): the three     *)
(* lists of a struct scheduler, the waitflags that interrupt handlers and  *)
(* tasks set, and the calls by which a task gives up the CPU.              *)
(*                                                                         *)
(* One action is a stretch of code that no interrupt can split: a section  *)
(* with IRQs disabled, the SVC and IRQ handlers, or one access to a        *)
(* waitflag.  Between two actions of a task an interrupt may set a         *)
(* waitflag (Wakeup) and, when the scheduler's timer is armed, may take    *)
(* the CPU away (Tick).                                                    *)
(***************************************************************************)
EXTENDS Lists, Integers, FiniteSets

CONSTANTS
  NTASKS,               \* tasks that exist: a prefix of the array tasks[40]
  Flags,                \* the waitflags of all drivers, semaphores and pipes
  StackFlags,           \* those in the frames of tasks inside semaphore_down
  NULL,                 \* the null waitflag pointer
  PREEMPT_TICKS,        \* the time quantum, 10 in the code
  PREEMPTION_BY_TIMER,  \* whether the timer calls sched_timer_cb
  Delays,               \* arguments of wait_on_timer_ms, in clock steps
  MAX_TIME,             \* bound on the cpu counter
  MAX_SET,              \* bound on waitflag_is_set
  MAX_UNCOUNTED         \* bound on uncounted

ASSUME NTasksAssumption == NTASKS \in Nat /\ NTASKS >= 2
ASSUME FlagsAssumption == IsFiniteSet(Flags) /\ NULL \notin Flags
ASSUME StackFlagsAssumption == StackFlags \subseteq Flags
ASSUME TicksAssumption == PREEMPT_TICKS \in Nat \ {0}
ASSUME PreemptionAssumption == PREEMPTION_BY_TIMER \in BOOLEAN
ASSUME DelaysAssumption == Delays \subseteq Nat
ASSUME BoundsAssumption ==
  MAX_TIME \in Nat /\ MAX_SET \in Nat /\ MAX_UNCOUNTED \in Nat

Tasks == 0..(NTASKS - 1)
IDLE == 0               \* idle_task, the first one scheduler_init creates
INIT == 1               \* init_task, the second

TaskStates == {"STOPPED", "SCHEDULED", "RUNNING", "TIMEWAITING", "FLAGWAITING"}
Waiting == {"TIMEWAITING", "FLAGWAITING"}

(* What a waitflag holds: clear, set, or any other value, which only the   *)
(* bytes of a stack frame can be: waitflag_init assigns to its own         *)
(* parameter, so the waitflag of a semaphore_waiter is never initialised.  *)
GARBAGE == 2
FlagValues == {0, 1, GARBAGE}

(* Where a task that is not inside schedule() will continue: in its own    *)
(* code; before the second store of the fast path of wait_on_waitflag;     *)
(* before it queues itself as a flag or a timer waiter; before the yield   *)
(* that ends a wait.                                                       *)
Points == {"run", "clear", "flagwait", "timewait", "yield"}

VARIABLES
  running, timer_waiting, flag_waiting, \* the lists of struct scheduler
  waitflag_is_set,      \* its counter of wakeups
  flag,                 \* the value of every waitflag
  uncounted,            \* history: waitflags that began set, counted nowhere
  task_idx,             \* tasks created so far
  task_state, ticks_left, timer_wait_until, waitflag, \* struct task
  current,              \* get_current()
  pc,                   \* the point where each task continues
  clearing,             \* the waitflag a task at "clear" will store to
  now                   \* read_cpu_counter_64()

lists == <<running, timer_waiting, flag_waiting>>
taskVars == <<task_state, ticks_left, timer_wait_until, waitflag>>
vars == <<lists, waitflag_is_set, flag, uncounted, task_idx, taskVars, current,
          pc, clearing, now>>

----------------------------------------------------------------------------
(* scheduler_init: idle and init are created and queued, and init is       *)
(* started from its context without passing through schedule(), so it runs *)
(* in state SCHEDULED and behind idle in the run list.                     *)
Init ==
  /\ running = <<IDLE, INIT>>
  /\ timer_waiting = << >>
  /\ flag_waiting = << >>
  /\ waitflag_is_set = 0
  /\ flag = [f \in Flags |-> 0]
  /\ uncounted = 0
  /\ task_idx = 2
  /\ task_state = [t \in Tasks |-> IF t \in {IDLE, INIT} THEN "SCHEDULED"
                                                         ELSE "STOPPED"]
  /\ ticks_left = [t \in Tasks |-> IF t \in {IDLE, INIT} THEN PREEMPT_TICKS
                                                         ELSE 0]
  /\ timer_wait_until = [t \in Tasks |-> 0]
  /\ waitflag = [t \in Tasks |-> NULL]
  /\ current = INIT
  /\ pc = [t \in Tasks |-> "run"]
  /\ clearing = [t \in Tasks |-> NULL]
  /\ now = 0

----------------------------------------------------------------------------
(* Mutant: the deadline is compared with == and a late poll misses it.     *)
ExpiredExactly == {t \in Members(timer_waiting) : timer_wait_until[t] = now}

(* schedule_handle_timer_waiting: the tasks it moves to the run list.      *)
Expired == {t \in Members(timer_waiting) : timer_wait_until[t] <= now}

(* schedule_handle_flag_waiting: the tasks it moves to the run list.  The  *)
(* loop clears a flag for the first task it meets that waits on it.        *)
Woken ==
  IF waitflag_is_set = 0 THEN {}
  ELSE {t \in Members(flag_waiting) :
          /\ waitflag[t] \in Flags
          /\ flag[waitflag[t]] # 0
          /\ \E i \in 1..Len(flag_waiting) :
               /\ flag_waiting[i] = t
               /\ \A j \in 1..(i - 1) : waitflag[flag_waiting[j]] # waitflag[t]}

(* The flags the loop clears, one for each decrement of waitflag_is_set.   *)
Consumed == {waitflag[t] : t \in Woken}

(* Mutants: the previous task is not linked again, or is linked with       *)
(* list_add instead of list_add_tail.                                      *)
RequeuedNowhere ==
  IF task_state[current] \in Waiting THEN running ELSE Unlink(running, current)
RequeuedAtHead ==
  IF task_state[current] \in Waiting THEN running
  ELSE <<current>> \o Unlink(running, current)

(* The run list once the previous task is requeued, if it is not waiting.  *)
Requeued ==
  IF task_state[current] \in Waiting THEN running
  ELSE Append(Unlink(running, current), current)

(* Mutant: woken tasks are put in front of the run list.                   *)
RunListWokenFirst ==
  Keep(flag_waiting, Woken) \o Requeued \o Keep(timer_waiting, Expired)

(* The run list and the task schedule() picks from it, the idle task if it *)
(* were empty.                                                             *)
RunList ==
  Requeued \o Keep(timer_waiting, Expired) \o Keep(flag_waiting, Woken)
NextTask == IF RunList # << >> THEN Head(RunList) ELSE IDLE

(* scheduler_pick_next_task gives the task it takes from the run list a    *)
(* new quantum.                                                            *)
Quantum(ticks) ==
  IF RunList # << >> THEN [ticks EXCEPT ![NextTask] = PREEMPT_TICKS] ELSE ticks

(* schedule(), entered with IRQs off from the SVC or the timer handler and *)
(* with the tick counts in ticks.  It never returns when the counter is    *)
(* below zero: the BUG of schedule_handle_flag_waiting.                    *)
Schedule(ticks) ==
  /\ waitflag_is_set >= 0
  /\ running' = RunList
  /\ timer_waiting' = Keep(timer_waiting, Members(timer_waiting) \ Expired)
  /\ flag_waiting' = Keep(flag_waiting, Members(flag_waiting) \ Woken)
  /\ flag' = [f \in Flags |-> IF f \in Consumed THEN 0 ELSE flag[f]]
  /\ waitflag' = [t \in Tasks |-> IF t \in Woken THEN NULL ELSE waitflag[t]]
  /\ waitflag_is_set' = waitflag_is_set - Cardinality(Consumed)
  /\ task_state' = [t \in Tasks |->
       IF t = NextTask THEN "RUNNING"
       ELSE IF \/ t \in Expired \cup Woken
               \/ t = current /\ task_state[t] \notin Waiting
            THEN "SCHEDULED"
            ELSE task_state[t]]
  /\ ticks_left' = Quantum(ticks)
  /\ current' = NextTask
  /\ UNCHANGED <<uncounted, task_idx, timer_wait_until, clearing, now>>

----------------------------------------------------------------------------
(* yield: a task gives up the CPU, on its own or at the end of a wait.     *)
(* idle_func does nothing else.                                            *)
Yield ==
  /\ pc[current] \in {"run", "yield"}
  /\ pc' = [pc EXCEPT ![current] = "run"]
  /\ Schedule(ticks_left)

(* wait_on_waitflag, fast path: the flag was set, atomic_cmp_and_swap      *)
(* clears it.                                                              *)
WaitFlagFast(f) ==
  /\ current # IDLE
  /\ pc[current] = "run"
  /\ flag[f] = 1
  /\ flag' = [flag EXCEPT ![f] = 0]
  /\ clearing' = [clearing EXCEPT ![current] = f]
  /\ pc' = [pc EXCEPT ![current] = "clear"]
  /\ UNCHANGED <<lists, waitflag_is_set, uncounted, task_idx, taskVars,
                 current, now>>

(* ... and *waitflag = 0 stores to it once more before returning.          *)
ClearFlag ==
  /\ pc[current] = "clear"
  /\ flag' = [flag EXCEPT ![clearing[current]] = 0]
  /\ clearing' = [clearing EXCEPT ![current] = NULL]
  /\ pc' = [pc EXCEPT ![current] = "run"]
  /\ UNCHANGED <<lists, waitflag_is_set, uncounted, task_idx, taskVars,
                 current, now>>

(* Mutants: the task does not record what it waits for, or blocks without  *)
(* looking at the flag.                                                    *)
WaitFlagUnrecorded(f) ==
  /\ current # IDLE
  /\ pc[current] = "run"
  /\ flag[f] = 0
  /\ pc' = [pc EXCEPT ![current] = "flagwait"]
  /\ UNCHANGED <<lists, waitflag_is_set, flag, uncounted, task_idx, taskVars,
                 current, clearing, now>>
WaitFlagBlindly(f) ==
  /\ current # IDLE
  /\ pc[current] = "run"
  /\ waitflag' = [waitflag EXCEPT ![current] = f]
  /\ pc' = [pc EXCEPT ![current] = "flagwait"]
  /\ UNCHANGED <<lists, waitflag_is_set, flag, uncounted, task_idx,
                 task_state, ticks_left, timer_wait_until, current, clearing,
                 now>>

(* wait_on_waitflag, slow path: atomic_cmp_and_swap did not find a 1.      *)
WaitFlagSlow(f) ==
  /\ current # IDLE
  /\ pc[current] = "run"
  /\ flag[f] # 1
  /\ waitflag' = [waitflag EXCEPT ![current] = f]
  /\ pc' = [pc EXCEPT ![current] = "flagwait"]
  /\ UNCHANGED <<lists, waitflag_is_set, flag, uncounted, task_idx,
                 task_state, ticks_left, timer_wait_until, current, clearing,
                 now>>

(* Mutant: the task is linked without list_del_init.                       *)
QueueFlagWaitLinkedTwice ==
  /\ pc[current] = "flagwait"
  /\ flag_waiting' = Append(flag_waiting, current)
  /\ task_state' = [task_state EXCEPT ![current] = "FLAGWAITING"]
  /\ pc' = [pc EXCEPT ![current] = "yield"]
  /\ UNCHANGED <<running, timer_waiting, waitflag_is_set, flag, uncounted,
                 task_idx, ticks_left, timer_wait_until, waitflag, current,
                 clearing, now>>

(* sched_queue_flagwait_task(get_scheduler(), t).                          *)
QueueFlagWait ==
  /\ pc[current] = "flagwait"
  /\ running' = Unlink(running, current)
  /\ flag_waiting' = Append(flag_waiting, current)
  /\ task_state' = [task_state EXCEPT ![current] = "FLAGWAITING"]
  /\ pc' = [pc EXCEPT ![current] = "yield"]
  /\ UNCHANGED <<timer_waiting, waitflag_is_set, flag, uncounted, task_idx,
                 ticks_left, timer_wait_until, waitflag, current, clearing,
                 now>>

(* wait_on_timer_ms: the deadline is written with IRQs on.                 *)
WaitTimer(d) ==
  /\ current # IDLE
  /\ pc[current] = "run"
  /\ now + d <= MAX_TIME
  /\ timer_wait_until' = [timer_wait_until EXCEPT ![current] = now + d]
  /\ pc' = [pc EXCEPT ![current] = "timewait"]
  /\ UNCHANGED <<lists, waitflag_is_set, flag, uncounted, task_idx,
                 task_state, ticks_left, waitflag, current, clearing, now>>

(* sched_queue_timewait_task(get_scheduler(), get_current()).              *)
QueueTimerWait ==
  /\ pc[current] = "timewait"
  /\ running' = Unlink(running, current)
  /\ timer_waiting' = Append(timer_waiting, current)
  /\ task_state' = [task_state EXCEPT ![current] = "TIMEWAITING"]
  /\ pc' = [pc EXCEPT ![current] = "yield"]
  /\ UNCHANGED <<flag_waiting, waitflag_is_set, flag, uncounted, task_idx,
                 ticks_left, timer_wait_until, waitflag, current, clearing,
                 now>>

(* task_create and sched_queue_runnable_task, as init_func and the drivers *)
(* call them one after the other.                                          *)
Create ==
  /\ current # IDLE
  /\ pc[current] = "run"
  /\ task_idx < NTASKS
  /\ task_idx' = task_idx + 1
  /\ running' = Append(running, task_idx)
  /\ task_state' = [task_state EXCEPT ![task_idx] = "SCHEDULED"]
  /\ ticks_left' = [ticks_left EXCEPT ![task_idx] = PREEMPT_TICKS]
  /\ UNCHANGED <<timer_waiting, flag_waiting, waitflag_is_set, flag,
                 uncounted, timer_wait_until, waitflag, current, pc,
                 clearing, now>>

(* __semaphore_down: the waitflag of a semaphore_waiter comes into being   *)
(* in the frame of the current task, with the bytes that are there.        *)
StackFlag(f, garbage) ==
  /\ current # IDLE
  /\ pc[current] = "run"
  /\ \A t \in Tasks : waitflag[t] # f /\ clearing[t] # f
  /\ flag' = [flag EXCEPT ![f] = garbage]
  /\ uncounted' = IF garbage = 0 THEN uncounted ELSE uncounted + 1
  /\ uncounted' <= MAX_UNCOUNTED
  /\ UNCHANGED <<lists, waitflag_is_set, task_idx, taskVars, current, pc,
                 clearing, now>>

(* Mutants: the wake-up is not counted, or is counted in the flag itself.  *)
WakeupUncounted(f) ==
  /\ flag' = [flag EXCEPT ![f] = 1]
  /\ UNCHANGED <<lists, waitflag_is_set, uncounted, task_idx, taskVars,
                 current, pc, clearing, now>>
WakeupAdds(f) ==
  /\ waitflag_is_set < MAX_SET
  /\ flag' = [flag EXCEPT ![f] = @ + 1]
  /\ waitflag_is_set' = waitflag_is_set + 1
  /\ UNCHANGED <<lists, uncounted, task_idx, taskVars, current, pc, clearing,
                 now>>

(* wakeup_waitflag, from an interrupt handler or from the current task.    *)
Wakeup(f) ==
  /\ waitflag_is_set < MAX_SET
  /\ flag' = [flag EXCEPT ![f] = 1]
  /\ waitflag_is_set' = waitflag_is_set + 1
  /\ UNCHANGED <<lists, uncounted, task_idx, taskVars, current, pc, clearing,
                 now>>

(* needs_resched, for the tick counts in ticks.                            *)
NeedsResched(ticks) == waitflag_is_set # 0 \/ ticks[current] = 0

(* sched_timer_cb: the IRQ handler of the scheduler's timer rearms it and  *)
(* calls schedule_from_irq.                                                *)
Tick ==
  /\ PREEMPTION_BY_TIMER
  /\ LET ticks == [ticks_left EXCEPT ![current] = @ - 1]
     IN  \/ /\ NeedsResched(ticks)
            /\ Schedule(ticks)
            /\ UNCHANGED pc
         \/ /\ ~ NeedsResched(ticks)
            /\ ticks_left' = ticks
            /\ UNCHANGED <<lists, waitflag_is_set, flag, uncounted, task_idx,
                           task_state, timer_wait_until, waitflag, current,
                           pc, clearing, now>>

(* The cpu counter advances.                                               *)
Clock ==
  /\ now < MAX_TIME
  /\ now' = now + 1
  /\ UNCHANGED <<lists, waitflag_is_set, flag, uncounted, task_idx, taskVars,
                 current, pc, clearing>>

Next ==
  \/ Yield
  \/ \E f \in Flags : WaitFlagFast(f) \/ WaitFlagSlow(f) \/ Wakeup(f)
  \/ \E f \in StackFlags, garbage \in FlagValues : StackFlag(f, garbage)
  \/ ClearFlag
  \/ QueueFlagWait
  \/ \E d \in Delays : WaitTimer(d)
  \/ QueueTimerWait
  \/ Create
  \/ Tick
  \/ Clock

Spec == Init /\ [][Next]_vars

(* Fairness of the build as shipped: tasks are cooperative.  A task that   *)
(* has entered wait_on_waitflag or wait_on_timer_ms gets through it, and   *)
(* every task keeps coming back to a call that yields.  Time passes.       *)
CooperativeSpec ==
  /\ Spec
  /\ WF_vars(ClearFlag \/ QueueFlagWait \/ QueueTimerWait)
  /\ SF_vars(Yield)
  /\ WF_vars(Clock)

----------------------------------------------------------------------------
TypeOK ==
  /\ running \in Seq(Tasks)
  /\ timer_waiting \in Seq(Tasks)
  /\ flag_waiting \in Seq(Tasks)
  /\ waitflag_is_set \in Int
  /\ flag \in [Flags -> FlagValues]
  /\ uncounted \in Nat
  /\ task_idx \in 2..NTASKS
  /\ task_state \in [Tasks -> TaskStates]
  /\ ticks_left \in [Tasks -> Int]
  /\ timer_wait_until \in [Tasks -> Nat]
  /\ waitflag \in [Tasks -> Flags \cup {NULL}]
  /\ current \in Tasks
  /\ pc \in [Tasks -> Points]
  /\ clearing \in [Tasks -> Flags \cup {NULL}]
  /\ now \in Nat

(* Every created task is linked in exactly one list of the scheduler,      *)
(* exactly once, and in the list its task_state says: whatever list_del_init *)
(* and list_add_tail sequence the interrupts and waits produce.            *)
ListsMatchState ==
  /\ IsLinkedOnce(running) /\ IsLinkedOnce(timer_waiting)
  /\ IsLinkedOnce(flag_waiting)
  /\ \A t \in Tasks :
       /\ t \in Members(running) <=> task_state[t] \in {"SCHEDULED", "RUNNING"}
       /\ t \in Members(timer_waiting) <=> task_state[t] = "TIMEWAITING"
       /\ t \in Members(flag_waiting) <=> task_state[t] = "FLAGWAITING"
       /\ task_state[t] = "STOPPED" <=> t >= task_idx

(* Only the task on the CPU is in state RUNNING, the task on the CPU is    *)
(* runnable unless it is about to yield from a wait, and the idle task is  *)
(* always in the run list, so that schedule() never falls back on it       *)
(* outside the list (where its time quantum would not be renewed).         *)
CpuHeldByRunnable ==
  /\ \A t \in Tasks : task_state[t] = "RUNNING" => t = current
  /\ task_state[current] \in Waiting => pc[current] = "yield"
  /\ IDLE \in Members(running)

SetFlags == {f \in Flags : flag[f] # 0}

(* waitflag_is_set is at least the number of flags that are set, less the  *)
(* waitflags of semaphores that began set: while no such waitflag came     *)
(* into being it never wraps below zero, which the wake-up loop asserts,   *)
(* and it is never zero while a flag is set, so no set flag is overlooked. *)
CounterCoversSetFlags == Cardinality(SetFlags) <= waitflag_is_set + uncounted

(* The BUG of schedule_handle_flag_waiting: the counter is never below     *)
(* zero.  A waitflag that began set is taken off it without having been    *)
(* counted.                                                                *)
CounterNotBelowZero == waitflag_is_set >= 0

(* "flagwait queue contains task with no waitflag" is never reported: the  *)
(* pointer that the wake-up loop dereferences is a waitflag.               *)
WaitersHaveFlag ==
  \A t \in Members(flag_waiting) : waitflag[t] \in Flags

(* A task is on the CPU for at most its quantum: it never takes a tick     *)
(* with its ticks used up.                                                 *)
QuantumBounded == ticks_left[current] \in 1..PREEMPT_TICKS

(* The position of t in the run list.                                      *)
Place(t) == CHOOSE i \in 1..Len(running) : running[i] = t

(* Round robin: a task that waits in the run list for the CPU stays there  *)
(* and is never overtaken, whatever is woken, created or preempted.        *)
NoOvertaking ==
  [][\A t \in Members(running) \ {current} :
       t \in Members(running)' /\ Place(t)' <= Place(t)]_vars

(* Every runnable task gets the CPU.                                       *)
RunnableRuns ==
  \A t \in Tasks : (t \in Members(running)) ~> (current = t)

(* A flag that is set while a task is queued for it is consumed: the wake- *)
(* up is not lost, however the interrupt, the wait and the scheduler       *)
(* interleave.                                                             *)
SetFlagIsConsumed ==
  \A f \in Flags :
    (/\ flag[f] = 1
     /\ \E t \in Members(flag_waiting) : waitflag[t] = f) ~> (flag[f] = 0)

(* A task that waits on the timer gets the CPU back.                       *)
TimerWaitEnds ==
  \A t \in Tasks : (t \in Members(timer_waiting)) ~> (current = t)

(* No wait lasts for ever: a flag that is set is consumed, and a wait on   *)
(* the timer ends in the CPU (schedule_handle_flag_waiting,                *)
(* schedule_handle_timer_waiting).                                         *)
WaitsEnd == SetFlagIsConsumed /\ TimerWaitEnds

----------------------------------------------------------------------------
(* The waitflags of the scheduler as event flags.  A signal is taken by    *)
(* the fast path when its second store returns, not at the compare-and-    *)
(* swap: an interrupt that sets the flag between the two is merged with    *)
(* the signal being taken.                                                 *)
Signalled == SetFlags \cup {clearing[t] : t \in {u \in Tasks : pc[u] = "clear"}}
Blocked ==
  [t \in Tasks |-> IF pc[t] = "flagwait" \/ t \in Members(flag_waiting)
                    THEN waitflag[t] ELSE NULL]

EF == INSTANCE EventFlag WITH signalled <- Signalled, blocked <- Blocked

(* With cooperative tasks the scheduler implements event flags: no wake-up *)
(* is dropped between interrupt handler, fast path and wait queue, and no  *)
(* task runs on without a signal of its own.                               *)
ImplementsEventFlag == EF!Spec
=============================================================================
