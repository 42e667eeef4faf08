---------------------------- MODULE SchedProofs ----------------------------
(***************************************************************************)
(* The safety invariants of the scheduler, for any number of tasks and     *)
(* flags, any time quantum, with and without timer preemption.             *)
(***************************************************************************)
EXTENDS Sched, ListTheorems, FiniteSetTheorems

(* Where tasks can be between two scheduler calls: only a runnable task    *)
(* other than idle is inside a wait call, with the flag it needs at hand.  *)
PointsOK ==
  /\ task_state[current] # "STOPPED"
  /\ pc[IDLE] = "run"
  /\ \A t \in Tasks :
       /\ pc[t] \in {"clear", "flagwait", "timewait"}
            => task_state[t] \in {"SCHEDULED", "RUNNING"}
       /\ pc[t] = "flagwait" => waitflag[t] \in Flags
       /\ pc[t] = "clear" => clearing[t] \in Flags

(* Where no task waits in semaphore_down, every waitflag is clear or set   *)
(* by wakeup_waitflag.                                                     *)
DriverFlagsOK ==
  StackFlags = {} => uncounted = 0 /\ flag \in [Flags -> {0, 1}]

(* The inductive invariant.                                                *)
IInv ==
  /\ TypeOK
  /\ ListsMatchState
  /\ CpuHeldByRunnable
  /\ CounterCoversSetFlags
  /\ WaitersHaveFlag
  /\ QuantumBounded
  /\ PointsOK
  /\ DriverFlagsOK

USE NTasksAssumption, FlagsAssumption, StackFlagsAssumption, TicksAssumption

(* idle and init are two tasks.                                            *)
LEMMA TwoTasks == IDLE \in Tasks /\ INIT \in Tasks /\ IDLE # INIT
BY DEF Tasks, IDLE, INIT

----------------------------------------------------------------------------
(* The lists of the scheduler hold tasks, and no task is in two of them.   *)
LEMMA ListsDisjoint ==
  ASSUME TypeOK, ListsMatchState
  PROVE  /\ Members(running) \subseteq Tasks
         /\ Members(timer_waiting) \subseteq Tasks
         /\ Members(flag_waiting) \subseteq Tasks
         /\ Members(running) \cap Members(timer_waiting) = {}
         /\ Members(running) \cap Members(flag_waiting) = {}
         /\ Members(timer_waiting) \cap Members(flag_waiting) = {}
<1>1. /\ Members(running) \subseteq Tasks
      /\ Members(timer_waiting) \subseteq Tasks
      /\ Members(flag_waiting) \subseteq Tasks
  BY MembersType DEF TypeOK
<1> QED
  BY <1>1 DEF ListsMatchState

(* What schedule() makes of the run list: the waiters whose time has come  *)
(* or whose flag is set join the runnable tasks, nobody is lost, and there *)
(* is a task to run.                                                       *)
LEMMA RunListFacts ==
  ASSUME IInv
  PROVE  /\ Expired \subseteq Members(timer_waiting)
         /\ Woken \subseteq Members(flag_waiting)
         /\ RunList \in Seq(Tasks)
         /\ Members(RunList) = Members(running) \cup Expired \cup Woken
         /\ IsLinkedOnce(RunList)
         /\ RunList # << >>
         /\ NextTask \in Members(RunList)
         /\ NextTask \in Tasks
<1> USE DEF IInv
<1>1. Expired \subseteq Members(timer_waiting)
  BY DEF Expired
<1>2. Woken \subseteq Members(flag_waiting)
  BY DEF Woken
<1>3. /\ Requeued \in Seq(Tasks)
      /\ Members(Requeued) = Members(running)
      /\ IsLinkedOnce(Requeued)
  <2>1. CASE task_state[current] \in Waiting
    BY <2>1 DEF Requeued, TypeOK, ListsMatchState
  <2>2. CASE task_state[current] \notin Waiting
    <3>1. /\ running \in Seq(Tasks)
          /\ current \in Tasks
          /\ current \in Members(running)
          /\ IsLinkedOnce(running)
      BY <2>2 DEF TypeOK, ListsMatchState, PointsOK, Waiting, TaskStates
    <3>2. /\ Unlink(running, current) \in Seq(Tasks)
          /\ Members(Unlink(running, current)) = Members(running) \ {current}
          /\ IsLinkedOnce(Unlink(running, current))
      BY <3>1, UnlinkProperties
    <3>3. Requeued = Append(Unlink(running, current), current)
      BY <2>2 DEF Requeued
    <3>4. /\ Requeued \in Seq(Tasks)
          /\ Members(Requeued) = (Members(running) \ {current}) \cup {current}
          /\ IsLinkedOnce(Requeued)
      BY <3>1, <3>2, <3>3, AppendMembers
    <3> QED
      BY <3>1, <3>4
  <2> QED
    BY <2>1, <2>2
<1>4. /\ Keep(timer_waiting, Expired) \in Seq(Tasks)
      /\ Members(Keep(timer_waiting, Expired)) = Expired
      /\ IsLinkedOnce(Keep(timer_waiting, Expired))
  <2>1. /\ Keep(timer_waiting, Expired) \in Seq(Tasks)
        /\ Members(Keep(timer_waiting, Expired))
              = Members(timer_waiting) \cap Expired
        /\ IsLinkedOnce(timer_waiting)
              => IsLinkedOnce(Keep(timer_waiting, Expired))
    BY KeepProperties DEF TypeOK
  <2> QED
    BY <1>1, <2>1 DEF ListsMatchState
<1>5. /\ Keep(flag_waiting, Woken) \in Seq(Tasks)
      /\ Members(Keep(flag_waiting, Woken)) = Woken
      /\ IsLinkedOnce(Keep(flag_waiting, Woken))
  <2>1. /\ Keep(flag_waiting, Woken) \in Seq(Tasks)
        /\ Members(Keep(flag_waiting, Woken)) = Members(flag_waiting) \cap Woken
        /\ IsLinkedOnce(flag_waiting) => IsLinkedOnce(Keep(flag_waiting, Woken))
    BY KeepProperties DEF TypeOK
  <2> QED
    BY <1>2, <2>1 DEF ListsMatchState
<1> DEFINE R2 == Requeued \o Keep(timer_waiting, Expired)
<1>6. /\ R2 \in Seq(Tasks)
      /\ Members(R2) = Members(running) \cup Expired
      /\ IsLinkedOnce(R2)
  <2>1. Members(Requeued) \cap Members(Keep(timer_waiting, Expired)) = {}
    BY <1>1, <1>3, <1>4, ListsDisjoint
  <2> QED
    BY <1>3, <1>4, <2>1, ConcatMembers
<1>7. RunList = R2 \o Keep(flag_waiting, Woken)
  BY DEF RunList
<1> HIDE DEF R2
<1>8. /\ RunList \in Seq(Tasks)
      /\ Members(RunList) = Members(running) \cup Expired \cup Woken
      /\ IsLinkedOnce(RunList)
  <2>1. Members(R2) \cap Members(Keep(flag_waiting, Woken)) = {}
    BY <1>1, <1>2, <1>5, <1>6, ListsDisjoint
  <2> QED
    BY <1>5, <1>6, <1>7, <2>1, ConcatMembers
<1>9. IDLE \in Members(RunList)
  BY <1>8 DEF CpuHeldByRunnable
<1>10. /\ RunList # << >>
       /\ Head(RunList) \in Members(RunList)
       /\ Head(RunList) \in Tasks
  BY <1>8, <1>9, HeadMember
<1> QED
  BY <1>1, <1>2, <1>8, <1>10 DEF NextTask

(* The flags that schedule() consumes were set, and it takes exactly them  *)
(* off the counter.                                                        *)
LEMMA ScheduleCounter ==
  ASSUME IInv, NEW ticks, Schedule(ticks)
  PROVE  /\ waitflag_is_set' \in Int
         /\ flag' \in [Flags -> FlagValues]
         /\ CounterCoversSetFlags'
         /\ DriverFlagsOK'
<1> USE DEF IInv
<1>1. Consumed \subseteq SetFlags
  <2>1. Members(flag_waiting) \subseteq Tasks
    BY ListsDisjoint
  <2>2. \A t \in Woken : waitflag[t] \in Flags /\ flag[waitflag[t]] # 0
    BY <2>1 DEF Woken
  <2> QED
    BY <2>2 DEF Consumed, SetFlags
<1>2. flag' = [f \in Flags |-> IF f \in Consumed THEN 0 ELSE flag[f]]
  BY DEF Schedule
<1>3. SetFlags' = SetFlags \ Consumed
  BY <1>2 DEF SetFlags
<1>4. IsFiniteSet(SetFlags) /\ Cardinality(SetFlags) \in Nat
  <2>1. SetFlags \subseteq Flags
    BY DEF SetFlags
  <2> QED
    BY <2>1, FS_Subset, FS_CardinalityType
<1>5. IsFiniteSet(Consumed) /\ Cardinality(Consumed) \in Nat
  BY <1>1, <1>4, FS_Subset, FS_CardinalityType
<1>6. Cardinality(SetFlags \ Consumed)
        = Cardinality(SetFlags) - Cardinality(Consumed)
  <2>1. SetFlags \cap Consumed = Consumed
    BY <1>1
  <2>2. Cardinality(SetFlags \ Consumed)
          = Cardinality(SetFlags) - Cardinality(SetFlags \cap Consumed)
    BY <1>4, FS_Difference
  <2> QED
    BY <2>1, <2>2
<1>7. waitflag_is_set' = waitflag_is_set - Cardinality(Consumed)
  BY DEF Schedule
<1>8. waitflag_is_set \in Int /\ uncounted \in Nat /\ uncounted' = uncounted
  BY DEF TypeOK, Schedule
<1>9. CounterCoversSetFlags'
  BY <1>3, <1>4, <1>5, <1>6, <1>7, <1>8 DEF CounterCoversSetFlags
<1>10. flag' \in [Flags -> FlagValues]
  BY <1>2 DEF TypeOK, FlagValues
<1>11. DriverFlagsOK'
  BY <1>2, <1>8 DEF DriverFlagsOK
<1> QED
  BY <1>5, <1>7, <1>8, <1>9, <1>10, <1>11

(* The wait lists after schedule().                                        *)
LEMMA ScheduleWaitLists ==
  ASSUME IInv, NEW ticks, Schedule(ticks)
  PROVE  /\ timer_waiting' \in Seq(Tasks)
         /\ Members(timer_waiting)' = Members(timer_waiting) \ Expired
         /\ IsLinkedOnce(timer_waiting)'
         /\ flag_waiting' \in Seq(Tasks)
         /\ Members(flag_waiting)' = Members(flag_waiting) \ Woken
         /\ IsLinkedOnce(flag_waiting)'
<1> USE DEF IInv
<1> DEFINE TW == Keep(timer_waiting, Members(timer_waiting) \ Expired)
           FW == Keep(flag_waiting, Members(flag_waiting) \ Woken)
<1>1. /\ timer_waiting \in Seq(Tasks) /\ IsLinkedOnce(timer_waiting)
      /\ flag_waiting \in Seq(Tasks) /\ IsLinkedOnce(flag_waiting)
  BY DEF TypeOK, ListsMatchState
<1>2. timer_waiting' = TW /\ flag_waiting' = FW
  BY DEF Schedule
<1>3. /\ TW \in Seq(Tasks)
      /\ Members(TW) = Members(timer_waiting) \cap (Members(timer_waiting) \ Expired)
      /\ IsLinkedOnce(TW)
  BY <1>1, KeepProperties
<1>4. /\ FW \in Seq(Tasks)
      /\ Members(FW) = Members(flag_waiting) \cap (Members(flag_waiting) \ Woken)
      /\ IsLinkedOnce(FW)
  BY <1>1, KeepProperties
<1> HIDE DEF TW, FW
<1>5. Members(timer_waiting)' = Members(TW) /\ IsLinkedOnce(timer_waiting)' = IsLinkedOnce(TW)
  BY <1>2 DEF Members, IsLinkedOnce
<1>6. Members(flag_waiting)' = Members(FW) /\ IsLinkedOnce(flag_waiting)' = IsLinkedOnce(FW)
  BY <1>2 DEF Members, IsLinkedOnce
<1> QED
  BY <1>2, <1>3, <1>4, <1>5, <1>6

(* schedule() preserves the invariant, whether a task yields (and goes on  *)
(* in its own code) or is preempted anywhere.                              *)
LEMMA ScheduleInv ==
  ASSUME IInv, NEW ticks \in [Tasks -> Int], Schedule(ticks),
         \/ pc' = [pc EXCEPT ![current] = "run"]
         \/ pc' = pc
  PROVE  IInv'
<1> USE DEF IInv
<1>1. /\ Expired \subseteq Members(timer_waiting)
      /\ Woken \subseteq Members(flag_waiting)
      /\ RunList \in Seq(Tasks)
      /\ Members(RunList) = Members(running) \cup Expired \cup Woken
      /\ IsLinkedOnce(RunList)
      /\ RunList # << >>
      /\ NextTask \in Members(RunList)
      /\ NextTask \in Tasks
  BY RunListFacts
<1>2. /\ running' = RunList
      /\ current' = NextTask
      /\ UNCHANGED <<uncounted, task_idx, timer_wait_until, clearing, now>>
      /\ waitflag' = [t \in Tasks |-> IF t \in Woken THEN NULL ELSE waitflag[t]]
      /\ task_state' = [t \in Tasks |->
            IF t = NextTask THEN "RUNNING"
            ELSE IF \/ t \in Expired \cup Woken
                    \/ t = current /\ task_state[t] \notin Waiting
                 THEN "SCHEDULED"
                 ELSE task_state[t]]
  BY DEF Schedule
<1>3. Members(running)' = Members(RunList) /\ IsLinkedOnce(running)' = IsLinkedOnce(RunList)
  BY <1>2 DEF Members, IsLinkedOnce
<1>4. ticks_left' = [ticks EXCEPT ![NextTask] = PREEMPT_TICKS]
  BY <1>1 DEF Schedule, Quantum
<1>5. /\ timer_waiting' \in Seq(Tasks)
      /\ Members(timer_waiting)' = Members(timer_waiting) \ Expired
      /\ IsLinkedOnce(timer_waiting)'
      /\ flag_waiting' \in Seq(Tasks)
      /\ Members(flag_waiting)' = Members(flag_waiting) \ Woken
      /\ IsLinkedOnce(flag_waiting)'
  BY ScheduleWaitLists
<1>6. /\ waitflag_is_set' \in Int
      /\ flag' \in [Flags -> FlagValues]
      /\ CounterCoversSetFlags'
      /\ DriverFlagsOK'
  BY ScheduleCounter
<1>7. TypeOK'
  <2>1. task_state' \in [Tasks -> TaskStates]
    BY <1>2 DEF TypeOK, TaskStates
  <2>2. waitflag' \in [Tasks -> Flags \cup {NULL}]
    BY <1>2 DEF TypeOK
  <2>3. ticks_left' \in [Tasks -> Int]
    <3>1. PREEMPT_TICKS \in Int
      OBVIOUS
    <3> QED
      BY <1>1, <1>4, <3>1
  <2>4. pc' \in [Tasks -> Points]
    BY DEF TypeOK, Points
  <2> QED
    BY <1>1, <1>2, <1>5, <1>6, <2>1, <2>2, <2>3, <2>4 DEF TypeOK
<1>8. ListsMatchState'
  <2>1. ASSUME NEW t \in Tasks
        PROVE  /\ t \in Members(running)'
                     <=> task_state'[t] \in {"SCHEDULED", "RUNNING"}
               /\ t \in Members(timer_waiting)' <=> task_state'[t] = "TIMEWAITING"
               /\ t \in Members(flag_waiting)' <=> task_state'[t] = "FLAGWAITING"
               /\ task_state'[t] = "STOPPED" <=> t >= task_idx'
    <3>1. /\ t \in Members(running) <=> task_state[t] \in {"SCHEDULED", "RUNNING"}
          /\ t \in Members(timer_waiting) <=> task_state[t] = "TIMEWAITING"
          /\ t \in Members(flag_waiting) <=> task_state[t] = "FLAGWAITING"
          /\ task_state[t] = "STOPPED" <=> t >= task_idx
          /\ task_state[t] \in TaskStates
      BY DEF ListsMatchState, TypeOK
    <3>2. t = NextTask => t \in Members(running) \cup Expired \cup Woken
      BY <1>1
    <3>3. t = current => task_state[t] # "STOPPED"
      BY DEF PointsOK
    <3> QED
      BY <1>1, <1>2, <1>3, <1>5, <3>1, <3>2, <3>3 DEF TaskStates, Waiting
  <2> QED
    BY <1>1, <1>3, <1>5, <2>1 DEF ListsMatchState
<1>9. CpuHeldByRunnable'
  <2>1. \A t \in Tasks : task_state'[t] = "RUNNING" => t = current'
    BY <1>2 DEF CpuHeldByRunnable, Waiting
  <2>2. task_state'[current'] = "RUNNING"
    BY <1>1, <1>2
  <2>3. IDLE \in Members(running)'
    BY <1>1, <1>3 DEF CpuHeldByRunnable
  <2> QED
    BY <2>1, <2>2, <2>3 DEF CpuHeldByRunnable, Waiting
<1>10. WaitersHaveFlag'
  <2>1. Members(flag_waiting) \subseteq Tasks
    BY ListsDisjoint
  <2> QED
    BY <1>2, <1>5, <2>1 DEF WaitersHaveFlag
<1>11. QuantumBounded'
  BY <1>1, <1>2, <1>4 DEF QuantumBounded
<1>12. PointsOK'
  <2>1. task_state'[current'] # "STOPPED"
    BY <1>1, <1>2
  <2>2. pc'[IDLE] = "run"
    BY TwoTasks DEF PointsOK, TypeOK
  <2>3. ASSUME NEW t \in Tasks
        PROVE  /\ pc'[t] \in {"clear", "flagwait", "timewait"}
                     => task_state'[t] \in {"SCHEDULED", "RUNNING"}
               /\ pc'[t] = "flagwait" => waitflag'[t] \in Flags
               /\ pc'[t] = "clear" => clearing'[t] \in Flags
    <3>1. pc'[t] = pc[t] \/ pc'[t] = "run"
      BY DEF TypeOK
    <3>2. t \in Woken => task_state[t] = "FLAGWAITING"
      BY <1>1 DEF ListsMatchState
    <3>3. pc[t] = "flagwait" => waitflag'[t] = waitflag[t]
      BY <1>2, <3>2 DEF PointsOK
    <3>4. task_state[t] \in {"SCHEDULED", "RUNNING"}
            => task_state'[t] \in {"SCHEDULED", "RUNNING"}
      BY <1>2
    <3> QED
      BY <1>2, <3>1, <3>3, <3>4 DEF PointsOK
  <2> QED
    BY <2>1, <2>2, <2>3 DEF PointsOK
<1> QED
  BY <1>6, <1>7, <1>8, <1>9, <1>10, <1>11, <1>12

----------------------------------------------------------------------------
(* An action that leaves the lists and the states of tasks alone leaves    *)
(* their agreement alone.                                                  *)
LEMMA ListsUnchanged ==
  ASSUME UNCHANGED <<lists, task_state, task_idx>>
  PROVE  /\ ListsMatchState => ListsMatchState'
         /\ Members(running)' = Members(running)
         /\ Members(flag_waiting)' = Members(flag_waiting)
BY DEF lists, ListsMatchState, Members, IsLinkedOnce

(* The counter after a flag is cleared without being counted.              *)
LEMMA ClearKeepsCover ==
  ASSUME IInv, NEW f \in Flags, flag' = [flag EXCEPT ![f] = 0],
         waitflag_is_set' = waitflag_is_set, uncounted' = uncounted
  PROVE  CounterCoversSetFlags' /\ DriverFlagsOK'
<1>1. SetFlags' = SetFlags \ {f}
  BY DEF SetFlags, IInv, TypeOK
<1>2. IsFiniteSet(SetFlags) /\ Cardinality(SetFlags) \in Nat
  <2>1. SetFlags \subseteq Flags
    BY DEF SetFlags
  <2> QED
    BY <2>1, FS_Subset, FS_CardinalityType
<1>3. /\ Cardinality(SetFlags \ {f}) \in Nat
      /\ Cardinality(SetFlags \ {f}) <= Cardinality(SetFlags)
  <2>1. SetFlags \ {f} \subseteq SetFlags
    OBVIOUS
  <2> QED
    BY <1>2, <2>1, FS_Subset, FS_CardinalityType
<1>4. CounterCoversSetFlags'
  BY <1>1, <1>2, <1>3 DEF CounterCoversSetFlags, IInv, TypeOK
<1>5. DriverFlagsOK'
  BY DEF DriverFlagsOK, IInv
<1> QED
  BY <1>4, <1>5

(* The fast path's compare-and-swap preserves the invariant.               *)
LEMMA WaitFlagFastInv ==
  ASSUME IInv, NEW f \in Flags, WaitFlagFast(f)
  PROVE  IInv'
<1> USE DEF IInv
<1>1. TypeOK'
  BY DEF WaitFlagFast, TypeOK, lists, taskVars, Points, FlagValues
<1>2. /\ ListsMatchState'
      /\ Members(running)' = Members(running)
      /\ Members(flag_waiting)' = Members(flag_waiting)
  BY ListsUnchanged DEF WaitFlagFast, taskVars
<1>3. CounterCoversSetFlags' /\ DriverFlagsOK'
  BY ClearKeepsCover DEF WaitFlagFast
<1>4. CpuHeldByRunnable' /\ PointsOK'
  BY <1>2 DEF WaitFlagFast, CpuHeldByRunnable, PointsOK, TypeOK, taskVars,
              Waiting, TaskStates
<1>5. WaitersHaveFlag' /\ QuantumBounded'
  BY <1>2 DEF WaitFlagFast, WaitersHaveFlag, QuantumBounded, taskVars
<1> QED
  BY <1>1, <1>2, <1>3, <1>4, <1>5

(* So does its second store, which may wipe out a newer wake-up.           *)
LEMMA ClearFlagInv ==
  ASSUME IInv, ClearFlag
  PROVE  IInv'
<1> USE DEF IInv
<1>0. clearing[current] \in Flags
  BY DEF ClearFlag, PointsOK, TypeOK
<1>1. TypeOK'
  BY <1>0 DEF ClearFlag, TypeOK, lists, taskVars, Points, FlagValues
<1>2. /\ ListsMatchState'
      /\ Members(running)' = Members(running)
      /\ Members(flag_waiting)' = Members(flag_waiting)
  BY ListsUnchanged DEF ClearFlag, taskVars
<1>3. CounterCoversSetFlags' /\ DriverFlagsOK'
  BY <1>0, ClearKeepsCover DEF ClearFlag
<1>4. CpuHeldByRunnable' /\ PointsOK'
  BY <1>2 DEF ClearFlag, CpuHeldByRunnable, PointsOK, TypeOK, taskVars, Waiting,
              TaskStates
<1>5. WaitersHaveFlag' /\ QuantumBounded'
  BY <1>2 DEF ClearFlag, WaitersHaveFlag, QuantumBounded, taskVars
<1> QED
  BY <1>1, <1>2, <1>3, <1>4, <1>5

(* Deciding to block preserves the invariant.                              *)
LEMMA WaitFlagSlowInv ==
  ASSUME IInv, NEW f \in Flags, WaitFlagSlow(f)
  PROVE  IInv'
<1> USE DEF IInv
<1>1. TypeOK'
  BY DEF WaitFlagSlow, TypeOK, lists, Points
<1>2. /\ ListsMatchState'
      /\ Members(running)' = Members(running)
      /\ Members(flag_waiting)' = Members(flag_waiting)
  BY ListsUnchanged DEF WaitFlagSlow
<1>3. CounterCoversSetFlags' /\ DriverFlagsOK'
  BY DEF WaitFlagSlow, CounterCoversSetFlags, SetFlags,
         DriverFlagsOK
<1>4. CpuHeldByRunnable' /\ PointsOK'
  BY <1>2 DEF WaitFlagSlow, CpuHeldByRunnable, PointsOK, TypeOK, Waiting, TaskStates
<1>5. WaitersHaveFlag' /\ QuantumBounded'
  BY <1>2 DEF WaitFlagSlow, WaitersHaveFlag, QuantumBounded, TypeOK
<1> QED
  BY <1>1, <1>2, <1>3, <1>4, <1>5

(* Moving the current task from the run list to the end of a wait list.    *)
LEMMA MoveCurrent ==
  ASSUME IInv, NEW w \in Seq(Tasks), IsLinkedOnce(w),
         current \in Members(running), current \notin Members(w),
         running' = Unlink(running, current)
  PROVE  /\ running' \in Seq(Tasks)
         /\ Members(running)' = Members(running) \ {current}
         /\ IsLinkedOnce(running)'
         /\ Append(w, current) \in Seq(Tasks)
         /\ Members(Append(w, current)) = Members(w) \cup {current}
         /\ IsLinkedOnce(Append(w, current))
<1> USE DEF IInv
<1>1. /\ running \in Seq(Tasks) /\ IsLinkedOnce(running)
      /\ current \in Tasks
  BY DEF TypeOK, ListsMatchState
<1>2. /\ Unlink(running, current) \in Seq(Tasks)
      /\ Members(Unlink(running, current)) = Members(running) \ {current}
      /\ IsLinkedOnce(Unlink(running, current))
  BY <1>1, UnlinkProperties
<1>3. /\ Members(running)' = Members(Unlink(running, current))
      /\ IsLinkedOnce(running)' = IsLinkedOnce(Unlink(running, current))
  BY DEF Members, IsLinkedOnce
<1>4. /\ Append(w, current) \in Seq(Tasks)
      /\ Members(Append(w, current)) = Members(w) \cup {current}
      /\ IsLinkedOnce(Append(w, current))
  BY <1>1, AppendMembers
<1> QED
  BY <1>2, <1>3, <1>4

(* Queueing for a flag preserves the invariant.                            *)
LEMMA QueueFlagWaitInv ==
  ASSUME IInv, QueueFlagWait
  PROVE  IInv'
<1> USE DEF IInv
<1>0. /\ current \in Tasks /\ current # IDLE
      /\ task_state[current] \in {"SCHEDULED", "RUNNING"}
      /\ waitflag[current] \in Flags
      /\ current \in Members(running) /\ current \notin Members(flag_waiting)
      /\ flag_waiting \in Seq(Tasks) /\ IsLinkedOnce(flag_waiting)
  BY DEF QueueFlagWait, PointsOK, TypeOK, ListsMatchState
<1>1. /\ running' \in Seq(Tasks)
      /\ Members(running)' = Members(running) \ {current}
      /\ IsLinkedOnce(running)'
      /\ Append(flag_waiting, current) \in Seq(Tasks)
      /\ Members(Append(flag_waiting, current)) = Members(flag_waiting) \cup {current}
      /\ IsLinkedOnce(Append(flag_waiting, current))
  BY <1>0, MoveCurrent DEF QueueFlagWait
<1>2. /\ Members(flag_waiting)' = Members(flag_waiting) \cup {current}
      /\ IsLinkedOnce(flag_waiting)'
      /\ flag_waiting' \in Seq(Tasks)
  <2>1. flag_waiting' = Append(flag_waiting, current)
    BY DEF QueueFlagWait
  <2>2. /\ Members(flag_waiting)' = Members(Append(flag_waiting, current))
        /\ IsLinkedOnce(flag_waiting)' = IsLinkedOnce(Append(flag_waiting, current))
    BY <2>1 DEF Members, IsLinkedOnce
  <2> QED
    BY <1>1, <2>1, <2>2
<1>3. /\ Members(timer_waiting)' = Members(timer_waiting)
      /\ IsLinkedOnce(timer_waiting)' = IsLinkedOnce(timer_waiting)
  BY DEF QueueFlagWait, Members, IsLinkedOnce
<1>4. TypeOK'
  BY <1>0, <1>1, <1>2 DEF QueueFlagWait, TypeOK, Points, TaskStates
<1>5. ListsMatchState'
  <2>1. task_state' = [task_state EXCEPT ![current] = "FLAGWAITING"]
        /\ task_idx' = task_idx
    BY DEF QueueFlagWait
  <2>2. task_state \in [Tasks -> TaskStates]
    BY DEF TypeOK
  <2> QED
    BY <1>0, <1>1, <1>2, <1>3, <2>1, <2>2 DEF ListsMatchState
<1>6. CpuHeldByRunnable' /\ PointsOK'
  BY <1>0, <1>1, TwoTasks DEF QueueFlagWait, CpuHeldByRunnable, PointsOK, TypeOK,
                    Waiting, TaskStates
<1>7. WaitersHaveFlag' /\ QuantumBounded'
  BY <1>0, <1>2 DEF QueueFlagWait, WaitersHaveFlag, QuantumBounded
<1>8. CounterCoversSetFlags' /\ DriverFlagsOK'
  BY DEF QueueFlagWait, CounterCoversSetFlags, SetFlags,
         DriverFlagsOK
<1> QED
  BY <1>4, <1>5, <1>6, <1>7, <1>8

(* Writing the deadline of a timer wait preserves the invariant.           *)
LEMMA WaitTimerInv ==
  ASSUME IInv, NEW d \in Delays, WaitTimer(d)
  PROVE  IInv'
<1> USE DEF IInv
<1>1. TypeOK'
  BY DelaysAssumption DEF WaitTimer, TypeOK, lists, Points
<1>2. /\ ListsMatchState'
      /\ Members(running)' = Members(running)
      /\ Members(flag_waiting)' = Members(flag_waiting)
  BY ListsUnchanged DEF WaitTimer
<1>3. CounterCoversSetFlags' /\ DriverFlagsOK'
  BY DEF WaitTimer, CounterCoversSetFlags, SetFlags,
         DriverFlagsOK
<1>4. CpuHeldByRunnable' /\ PointsOK'
  BY <1>2 DEF WaitTimer, CpuHeldByRunnable, PointsOK, TypeOK, Waiting, TaskStates
<1>5. WaitersHaveFlag' /\ QuantumBounded'
  BY <1>2 DEF WaitTimer, WaitersHaveFlag, QuantumBounded
<1> QED
  BY <1>1, <1>2, <1>3, <1>4, <1>5

(* Queueing for the timer preserves the invariant.                         *)
LEMMA QueueTimerWaitInv ==
  ASSUME IInv, QueueTimerWait
  PROVE  IInv'
<1> USE DEF IInv
<1>0. /\ current \in Tasks /\ current # IDLE
      /\ task_state[current] \in {"SCHEDULED", "RUNNING"}
      /\ current \in Members(running) /\ current \notin Members(timer_waiting)
      /\ timer_waiting \in Seq(Tasks) /\ IsLinkedOnce(timer_waiting)
  BY DEF QueueTimerWait, PointsOK, TypeOK, ListsMatchState
<1>1. /\ running' \in Seq(Tasks)
      /\ Members(running)' = Members(running) \ {current}
      /\ IsLinkedOnce(running)'
      /\ Append(timer_waiting, current) \in Seq(Tasks)
      /\ Members(Append(timer_waiting, current)) = Members(timer_waiting) \cup {current}
      /\ IsLinkedOnce(Append(timer_waiting, current))
  BY <1>0, MoveCurrent DEF QueueTimerWait
<1>2. /\ Members(timer_waiting)' = Members(timer_waiting) \cup {current}
      /\ IsLinkedOnce(timer_waiting)'
      /\ timer_waiting' \in Seq(Tasks)
  <2>1. timer_waiting' = Append(timer_waiting, current)
    BY DEF QueueTimerWait
  <2>2. /\ Members(timer_waiting)' = Members(Append(timer_waiting, current))
        /\ IsLinkedOnce(timer_waiting)' = IsLinkedOnce(Append(timer_waiting, current))
    BY <2>1 DEF Members, IsLinkedOnce
  <2> QED
    BY <1>1, <2>1, <2>2
<1>3. /\ Members(flag_waiting)' = Members(flag_waiting)
      /\ IsLinkedOnce(flag_waiting)' = IsLinkedOnce(flag_waiting)
  BY DEF QueueTimerWait, Members, IsLinkedOnce
<1>4. TypeOK'
  BY <1>0, <1>1, <1>2 DEF QueueTimerWait, TypeOK, Points, TaskStates
<1>5. ListsMatchState'
  <2>1. task_state' = [task_state EXCEPT ![current] = "TIMEWAITING"]
        /\ task_idx' = task_idx
    BY DEF QueueTimerWait
  <2>2. task_state \in [Tasks -> TaskStates]
    BY DEF TypeOK
  <2> QED
    BY <1>0, <1>1, <1>2, <1>3, <2>1, <2>2 DEF ListsMatchState
<1>6. CpuHeldByRunnable' /\ PointsOK'
  BY <1>0, <1>1, TwoTasks DEF QueueTimerWait, CpuHeldByRunnable, PointsOK, TypeOK,
                    Waiting, TaskStates
<1>7. WaitersHaveFlag' /\ QuantumBounded'
  BY <1>0, <1>3 DEF QueueTimerWait, WaitersHaveFlag, QuantumBounded
<1>8. CounterCoversSetFlags' /\ DriverFlagsOK'
  BY DEF QueueTimerWait, CounterCoversSetFlags, SetFlags,
         DriverFlagsOK
<1> QED
  BY <1>4, <1>5, <1>6, <1>7, <1>8

(* Creating and queueing a task preserves the invariant.                   *)
LEMMA CreateInv ==
  ASSUME IInv, Create
  PROVE  IInv'
<1> USE DEF IInv
<1>0. /\ task_idx \in Tasks /\ task_idx # IDLE
      /\ task_state[task_idx] = "STOPPED"
      /\ task_idx \notin Members(running)
      /\ running \in Seq(Tasks) /\ IsLinkedOnce(running)
      /\ current # task_idx
  BY DEF Create, TypeOK, ListsMatchState, Tasks, IDLE, PointsOK
<1>1. /\ Append(running, task_idx) \in Seq(Tasks)
      /\ Members(Append(running, task_idx)) = Members(running) \cup {task_idx}
      /\ IsLinkedOnce(Append(running, task_idx))
  BY <1>0, AppendMembers
<1>2. /\ Members(running)' = Members(running) \cup {task_idx}
      /\ IsLinkedOnce(running)'
      /\ running' \in Seq(Tasks)
  <2>1. running' = Append(running, task_idx)
    BY DEF Create
  <2>2. /\ Members(running)' = Members(Append(running, task_idx))
        /\ IsLinkedOnce(running)' = IsLinkedOnce(Append(running, task_idx))
    BY <2>1 DEF Members, IsLinkedOnce
  <2> QED
    BY <1>1, <2>1, <2>2
<1>3. /\ Members(timer_waiting)' = Members(timer_waiting)
      /\ IsLinkedOnce(timer_waiting)' = IsLinkedOnce(timer_waiting)
      /\ Members(flag_waiting)' = Members(flag_waiting)
      /\ IsLinkedOnce(flag_waiting)' = IsLinkedOnce(flag_waiting)
  BY DEF Create, Members, IsLinkedOnce
<1>4. TypeOK'
  BY <1>0, <1>2 DEF Create, TypeOK, TaskStates
<1>5. ListsMatchState'
  <2>1. /\ task_state' = [task_state EXCEPT ![task_idx] = "SCHEDULED"]
        /\ task_idx' = task_idx + 1
    BY DEF Create
  <2>2. task_state \in [Tasks -> TaskStates] /\ task_idx \in Nat
    BY DEF TypeOK
  <2>3. ASSUME NEW t \in Tasks
        PROVE  /\ t \in Members(running)'
                     <=> task_state'[t] \in {"SCHEDULED", "RUNNING"}
               /\ t \in Members(timer_waiting)' <=> task_state'[t] = "TIMEWAITING"
               /\ t \in Members(flag_waiting)' <=> task_state'[t] = "FLAGWAITING"
               /\ task_state'[t] = "STOPPED" <=> t >= task_idx'
    <3>1. /\ t \in Members(running) <=> task_state[t] \in {"SCHEDULED", "RUNNING"}
          /\ t \in Members(timer_waiting) <=> task_state[t] = "TIMEWAITING"
          /\ t \in Members(flag_waiting) <=> task_state[t] = "FLAGWAITING"
          /\ task_state[t] = "STOPPED" <=> t >= task_idx
      BY DEF ListsMatchState
    <3>2. t \in Nat
      BY DEF Tasks
    <3>3. CASE t = task_idx
      BY <1>0, <1>2, <1>3, <2>1, <2>2, <3>1, <3>2, <3>3
    <3>4. CASE t # task_idx
      <4>1. task_state'[t] = task_state[t]
        BY <2>1, <2>2, <3>4
      <4>2. t >= task_idx' <=> t >= task_idx
        BY <2>1, <2>2, <3>2, <3>4
      <4> QED
        BY <1>2, <1>3, <3>1, <3>4, <4>1, <4>2
    <3> QED
      BY <3>3, <3>4
  <2> QED
    BY <1>2, <1>3, <2>3 DEF ListsMatchState
<1>6. CpuHeldByRunnable' /\ PointsOK'
  BY <1>0, <1>2, TwoTasks DEF Create, CpuHeldByRunnable, PointsOK, TypeOK,
                    Waiting, TaskStates
<1>7. WaitersHaveFlag' /\ QuantumBounded'
  BY <1>0, <1>3 DEF Create, WaitersHaveFlag, QuantumBounded, TypeOK
<1>8. CounterCoversSetFlags' /\ DriverFlagsOK'
  BY DEF Create, CounterCoversSetFlags, SetFlags,
         DriverFlagsOK
<1> QED
  BY <1>4, <1>5, <1>6, <1>7, <1>8

(* A wake-up preserves the invariant.                                      *)
LEMMA WakeupInv ==
  ASSUME IInv, NEW f \in Flags, Wakeup(f)
  PROVE  IInv'
<1> USE DEF IInv
<1>1. TypeOK'
  BY DEF Wakeup, TypeOK, lists, taskVars, FlagValues
<1>2. /\ ListsMatchState'
      /\ Members(running)' = Members(running)
      /\ Members(flag_waiting)' = Members(flag_waiting)
  BY ListsUnchanged DEF Wakeup, taskVars
<1>3. CounterCoversSetFlags'
  <2>1. SetFlags' = SetFlags \cup {f}
    BY DEF Wakeup, SetFlags, TypeOK
  <2>2. IsFiniteSet(SetFlags) /\ Cardinality(SetFlags) \in Nat
    <3>1. SetFlags \subseteq Flags
      BY DEF SetFlags
    <3> QED
      BY <3>1, FS_Subset, FS_CardinalityType
  <2>3. Cardinality(SetFlags \cup {f}) =
          IF f \in SetFlags THEN Cardinality(SetFlags) ELSE Cardinality(SetFlags) + 1
    BY <2>2, FS_AddElement
  <2> QED
    BY <2>1, <2>2, <2>3 DEF Wakeup, CounterCoversSetFlags, TypeOK
<1>4. CpuHeldByRunnable' /\ PointsOK'
  BY <1>2 DEF Wakeup, CpuHeldByRunnable, PointsOK, taskVars
<1>5. WaitersHaveFlag' /\ QuantumBounded'
  BY <1>2 DEF Wakeup, WaitersHaveFlag, QuantumBounded, taskVars
<1>6. DriverFlagsOK'
  BY DEF Wakeup, DriverFlagsOK
<1> QED
  BY <1>1, <1>2, <1>3, <1>4, <1>5, <1>6

(* The waitflag of a semaphore_waiter, whatever its frame holds, preserves *)
(* the invariant: a value that counts as set is one more in uncounted.     *)
LEMMA StackFlagInv ==
  ASSUME IInv, NEW f \in StackFlags, NEW garbage \in FlagValues,
         StackFlag(f, garbage)
  PROVE  IInv'
<1> USE DEF IInv
<1>0. f \in Flags
  OBVIOUS
<1>1. TypeOK'
  BY <1>0 DEF StackFlag, TypeOK, lists, taskVars
<1>2. /\ ListsMatchState'
      /\ Members(running)' = Members(running)
      /\ Members(flag_waiting)' = Members(flag_waiting)
  BY ListsUnchanged DEF StackFlag, taskVars
<1>3. CounterCoversSetFlags'
  <2>1. IsFiniteSet(SetFlags) /\ Cardinality(SetFlags) \in Nat
    <3>1. SetFlags \subseteq Flags
      BY DEF SetFlags
    <3> QED
      BY <3>1, FS_Subset, FS_CardinalityType
  <2>2. CASE garbage = 0
    <3>1. flag' = [flag EXCEPT ![f] = 0] /\ UNCHANGED <<waitflag_is_set, uncounted>>
      BY <2>2 DEF StackFlag
    <3> QED
      BY <1>0, <3>1, ClearKeepsCover
  <2>3. CASE garbage # 0
    <3>1. SetFlags' = SetFlags \cup {f}
      BY <1>0, <2>3 DEF StackFlag, SetFlags, TypeOK
    <3>2. Cardinality(SetFlags \cup {f}) =
            IF f \in SetFlags THEN Cardinality(SetFlags)
            ELSE Cardinality(SetFlags) + 1
      BY <2>1, FS_AddElement
    <3>3. uncounted' = uncounted + 1 /\ waitflag_is_set' = waitflag_is_set
      BY <2>3 DEF StackFlag
    <3> QED
      BY <2>1, <3>1, <3>2, <3>3 DEF CounterCoversSetFlags, TypeOK
  <2> QED
    BY <2>2, <2>3
<1>4. CpuHeldByRunnable' /\ PointsOK'
  BY <1>2 DEF StackFlag, CpuHeldByRunnable, PointsOK, taskVars
<1>5. WaitersHaveFlag' /\ QuantumBounded'
  BY <1>2 DEF StackFlag, WaitersHaveFlag, QuantumBounded, taskVars
<1>6. DriverFlagsOK'
  BY DEF StackFlag, DriverFlagsOK
<1> QED
  BY <1>1, <1>2, <1>3, <1>4, <1>5, <1>6

(* A timer interrupt preserves the invariant, with or without preemption.  *)
LEMMA TickInv ==
  ASSUME IInv, Tick
  PROVE  IInv'
<1> USE DEF IInv
<1> DEFINE ticks == [ticks_left EXCEPT ![current] = @ - 1]
<1>0. ticks \in [Tasks -> Int] /\ current \in Tasks
      /\ ticks[current] = ticks_left[current] - 1
  BY DEF TypeOK
<1>1. CASE NeedsResched(ticks) /\ Schedule(ticks) /\ UNCHANGED pc
  <2> HIDE DEF ticks
  <2> QED
    BY <1>0, <1>1, ScheduleInv
<1>2. CASE /\ ~ NeedsResched(ticks)
           /\ ticks_left' = ticks
           /\ UNCHANGED <<lists, waitflag_is_set, flag, uncounted, task_idx,
                          task_state, timer_wait_until, waitflag, current, pc,
                          clearing, now>>
  <2>1. /\ ListsMatchState'
        /\ Members(running)' = Members(running)
        /\ Members(flag_waiting)' = Members(flag_waiting)
    BY <1>2, ListsUnchanged
  <2>2. TypeOK'
    <3> HIDE DEF ticks
    <3> QED
      BY <1>0, <1>2 DEF TypeOK, lists
  <2>3. CounterCoversSetFlags' /\ DriverFlagsOK'
    BY <1>2 DEF CounterCoversSetFlags, SetFlags,
           DriverFlagsOK
  <2>4. CpuHeldByRunnable' /\ PointsOK' /\ WaitersHaveFlag'
    BY <1>2, <2>1 DEF CpuHeldByRunnable, PointsOK, WaitersHaveFlag
  <2>5. QuantumBounded'
    BY <1>0, <1>2 DEF NeedsResched, QuantumBounded
  <2> QED
    BY <2>1, <2>2, <2>3, <2>4, <2>5
<1> QED
  BY <1>1, <1>2 DEF Tick

(* The passing of time preserves the invariant.                            *)
LEMMA ClockInv ==
  ASSUME IInv, Clock
  PROVE  IInv'
<1> USE DEF IInv
<1>1. /\ ListsMatchState'
      /\ Members(running)' = Members(running)
      /\ Members(flag_waiting)' = Members(flag_waiting)
  BY ListsUnchanged DEF Clock, taskVars
<1>2. TypeOK'
  BY DEF Clock, TypeOK, lists, taskVars
<1>3. CounterCoversSetFlags' /\ DriverFlagsOK'
  BY DEF Clock, CounterCoversSetFlags, SetFlags,
         DriverFlagsOK
<1> QED
  BY <1>1, <1>2, <1>3 DEF Clock, taskVars, CpuHeldByRunnable, PointsOK,
       WaitersHaveFlag, QuantumBounded

----------------------------------------------------------------------------
(* scheduler_init establishes the invariant.                               *)
LEMMA InitInv == Init => IInv
<1> SUFFICES ASSUME Init PROVE IInv
  OBVIOUS
<1> USE DEF Init
<1>0. IDLE \in Tasks /\ INIT \in Tasks /\ IDLE = 0 /\ INIT = 1
  BY TwoTasks DEF IDLE, INIT
<1>1. /\ running \in Seq(Tasks) /\ Len(running) = 2
      /\ running[1] = IDLE /\ running[2] = INIT
  BY <1>0
<1>2. Members(running) = {IDLE, INIT} /\ IsLinkedOnce(running)
  <2>1. 1..2 = {1, 2}
    OBVIOUS
  <2> QED
    BY <1>0, <1>1, <2>1 DEF Members, IsLinkedOnce
<1>3. /\ << >> \in Seq(Tasks)
      /\ Members(<< >>) = {} /\ IsLinkedOnce(<< >>)
  BY EmptySeq DEF Members, IsLinkedOnce
<1>4. TypeOK /\ DriverFlagsOK
  BY <1>0, <1>1, <1>3 DEF TypeOK, TaskStates, Points, FlagValues, DriverFlagsOK
<1>5. ListsMatchState
  <2>1. \A t \in Tasks : t >= 2 <=> t \notin {IDLE, INIT}
    BY <1>0 DEF Tasks
  <2> QED
    BY <1>2, <1>3, <2>1 DEF ListsMatchState
<1>6. CpuHeldByRunnable
  BY <1>0, <1>2 DEF CpuHeldByRunnable, Waiting
<1>7. CounterCoversSetFlags
  <2>1. SetFlags = {}
    BY DEF SetFlags
  <2> QED
    BY <2>1, FS_EmptySet DEF CounterCoversSetFlags
<1>8. WaitersHaveFlag /\ QuantumBounded
  BY <1>0, <1>3 DEF WaitersHaveFlag, QuantumBounded
<1>9. PointsOK
  BY <1>0 DEF PointsOK
<1> QED
  BY <1>4, <1>5, <1>6, <1>7, <1>8, <1>9 DEF IInv

(* Every step preserves the invariant.                                     *)
LEMMA NextInv == IInv /\ [Next]_vars => IInv'
<1> SUFFICES ASSUME IInv, [Next]_vars PROVE IInv'
  OBVIOUS
<1>1. CASE Yield
  <2>1. ticks_left \in [Tasks -> Int]
    BY DEF IInv, TypeOK
  <2> QED
    BY <1>1, <2>1, ScheduleInv DEF Yield
<1>2. CASE \E f \in Flags : WaitFlagFast(f) \/ WaitFlagSlow(f) \/ Wakeup(f)
  BY <1>2, WaitFlagFastInv, WaitFlagSlowInv, WakeupInv
<1>3. CASE \/ ClearFlag
           \/ \E f \in StackFlags, garbage \in FlagValues : StackFlag(f, garbage)
  BY <1>3, ClearFlagInv, StackFlagInv
<1>4. CASE QueueFlagWait
  BY <1>4, QueueFlagWaitInv
<1>5. CASE \E d \in Delays : WaitTimer(d)
  BY <1>5, WaitTimerInv
<1>6. CASE QueueTimerWait
  BY <1>6, QueueTimerWaitInv
<1>7. CASE Create
  BY <1>7, CreateInv
<1>8. CASE Tick
  BY <1>8, TickInv
<1>9. CASE Clock
  BY <1>9, ClockInv
<1>10. CASE UNCHANGED vars
  <2>1. /\ ListsMatchState'
        /\ Members(running)' = Members(running)
        /\ Members(flag_waiting)' = Members(flag_waiting)
    BY <1>10, ListsUnchanged DEF vars, taskVars, IInv
  <2>2. TypeOK'
    BY <1>10 DEF vars, lists, taskVars, IInv, TypeOK
  <2>3. CounterCoversSetFlags' /\ DriverFlagsOK'
    BY <1>10 DEF vars, IInv, CounterCoversSetFlags, SetFlags,
           DriverFlagsOK
  <2>4. CpuHeldByRunnable' /\ PointsOK' /\ WaitersHaveFlag' /\ QuantumBounded'
    BY <1>10, <2>1 DEF vars, taskVars, IInv, CpuHeldByRunnable, PointsOK,
         WaitersHaveFlag, QuantumBounded
  <2> QED
    BY <2>1, <2>2, <2>3, <2>4 DEF IInv
<1> QED
  BY <1>1, <1>2, <1>3, <1>4, <1>5, <1>6, <1>7, <1>8, <1>9, <1>10 DEF Next

(* The inductive invariant holds in every reachable state.                 *)
THEOREM Invariance == Spec => []IInv
BY InitInv, NextInv, PTL DEF Spec

(* The scheduler's state is well typed for any number of tasks and flags.  *)
THEOREM TypeCorrect == Spec => []TypeOK
<1>1. IInv => TypeOK
  BY DEF IInv
<1> QED
  BY <1>1, Invariance, PTL

(* Whatever waits, wake-ups, preemptions and creations interleave, every   *)
(* created task is linked once, in the list that its task_state names.     *)
THEOREM ListsAlwaysMatch == Spec => []ListsMatchState
<1>1. IInv => ListsMatchState
  BY DEF IInv
<1> QED
  BY <1>1, Invariance, PTL

(* waitflag_is_set falls below the number of set flags by no more than the *)
(* waitflags of semaphores that began set, whatever interleaves: neither   *)
(* the wake-up loop nor the fast path takes off more than was counted.     *)
THEOREM CounterAlwaysCovers == Spec => []CounterCoversSetFlags
<1>1. IInv => CounterCoversSetFlags
  BY DEF IInv
<1> QED
  BY <1>1, Invariance, PTL

(* In a kernel where no task waits in semaphore_down, as in the one that   *)
(* is built, the BUG "waitflag_is_set value below 0" of sched.c cannot     *)
(* fire.                                                                   *)
THEOREM NoUnderflowWithoutSemaphores ==
  ASSUME StackFlags = {}
  PROVE  Spec => []CounterNotBelowZero
<1>1. IInv => CounterNotBelowZero
  <2> SUFFICES ASSUME IInv PROVE CounterNotBelowZero
    OBVIOUS
  <2>1. SetFlags \subseteq Flags
    BY DEF SetFlags
  <2>2. Cardinality(SetFlags) \in Nat
    BY <2>1, FS_Subset, FS_CardinalityType
  <2>3. uncounted = 0 /\ waitflag_is_set \in Int
    BY DEF IInv, DriverFlagsOK, TypeOK
  <2> QED
    BY <2>2, <2>3 DEF IInv, CounterCoversSetFlags, CounterNotBelowZero
<1> QED
  BY <1>1, Invariance, PTL

(* The task on the CPU is runnable and there is always a task to pick, so  *)
(* the fallback of schedule() on the idle task is never taken.             *)
THEOREM CpuAlwaysHeld == Spec => []CpuHeldByRunnable
<1>1. IInv => CpuHeldByRunnable
  BY DEF IInv
<1> QED
  BY <1>1, Invariance, PTL

(* The wake-up loop never meets a waiter without a waitflag.               *)
THEOREM WaitersAlwaysHaveFlag == Spec => []WaitersHaveFlag
<1>1. IInv => WaitersHaveFlag
  BY DEF IInv
<1> QED
  BY <1>1, Invariance, PTL

(* No task is charged more ticks than its quantum.                         *)
THEOREM QuantumAlwaysBounded == Spec => []QuantumBounded
<1>1. IInv => QuantumBounded
  BY DEF IInv
<1> QED
  BY <1>1, Invariance, PTL

----------------------------------------------------------------------------
(* Round robin.                                                            *)

(* A task that is found no further back than before was not overtaken.     *)
LEMMA PlaceMoves ==
  ASSUME IsLinkedOnce(running), IsLinkedOnce(running)', NEW t,
         NEW i \in 1..Len(running), running[i] = t,
         NEW j \in 1..Len(running'), running'[j] = t, j <= i
  PROVE  t \in Members(running)' /\ Place(t)' <= Place(t)
<1>1. Place(t) = i
  <2>1. \A k \in 1..Len(running) : running[k] = t => k = i
    BY DEF IsLinkedOnce
  <2> QED
    BY <2>1 DEF Place
<1>2. Place(t)' = j
  <2>1. \A k \in 1..Len(running') : running'[k] = t => k = j
    BY DEF IsLinkedOnce
  <2> QED
    BY <2>1 DEF Place
<1> QED
  BY <1>1, <1>2 DEF Members

(* Unlinking the task on the CPU overtakes nobody else.                    *)
LEMMA UnlinkPlaces ==
  ASSUME IInv, NEW t \in Members(running) \ {current}, NEW i \in 1..Len(running),
         running[i] = t
  PROVE  \E j \in 1..Len(Unlink(running, current)) :
            j <= i /\ Unlink(running, current)[j] = t
<1>1. running \in Seq(Tasks)
  BY DEF IInv, TypeOK
<1>2. t \in Members(running) \ {current}
  OBVIOUS
<1> DEFINE S == Members(running) \ {current}
<1> HIDE DEF S
<1>3. \E j \in 1..Len(Keep(running, S)) : j <= i /\ Keep(running, S)[j] = running[i]
  BY <1>1, <1>2, KeepPlaces DEF S
<1> QED
  BY <1>3 DEF Unlink, S

(* schedule() overtakes no task that waits for the CPU: the task it takes  *)
(* off the CPU and those it wakes go behind it.                            *)
LEMMA RunListPlaces ==
  ASSUME IInv, NEW t \in Members(running) \ {current}, NEW i \in 1..Len(running),
         running[i] = t
  PROVE  \E j \in 1..Len(RunList) : j <= i /\ RunList[j] = t
<1> DEFINE U == Unlink(running, current)
           TK == Keep(timer_waiting, Expired)
           FK == Keep(flag_waiting, Woken)
<1>0. /\ running \in Seq(Tasks) /\ timer_waiting \in Seq(Tasks)
      /\ flag_waiting \in Seq(Tasks) /\ current \in Tasks
  BY DEF IInv, TypeOK
<1>1. U \in Seq(Tasks) /\ TK \in Seq(Tasks) /\ FK \in Seq(Tasks)
  BY <1>0, UnlinkProperties, KeepProperties
<1>2. \E j \in 1..Len(U) : j <= i /\ U[j] = t
  BY UnlinkPlaces
<1>3. RunList = (Requeued \o TK) \o FK
  BY DEF RunList
<1>4. Requeued = running \/ Requeued = Append(U, current)
  BY DEF Requeued
<1> HIDE DEF U, TK, FK
<1>5. Requeued \in Seq(Tasks) /\ \E j \in 1..Len(Requeued) : j <= i /\ Requeued[j] = t
  <2>1. CASE Requeued = running
    BY <1>0, <2>1
  <2>2. CASE Requeued = Append(U, current)
    <3>1. PICK j \in 1..Len(U) : j <= i /\ U[j] = t
      BY <1>2
    <3>2. /\ Append(U, current) \in Seq(Tasks) /\ Len(Append(U, current)) = Len(U) + 1
          /\ Append(U, current)[j] = U[j] /\ Len(U) \in Nat
      BY <1>0, <1>1, AppendProperties, LenProperties
    <3>3. j \in 1..(Len(U) + 1)
      BY <3>2
    <3> QED
      BY <2>2, <3>1, <3>2, <3>3
  <2> QED
    BY <1>4, <2>1, <2>2
<1>6. PICK j \in 1..Len(Requeued) : j <= i /\ Requeued[j] = t
  BY <1>5
<1> DEFINE R2 == Requeued \o TK
<1>7. /\ R2 \in Seq(Tasks) /\ j \in 1..Len(R2) /\ R2[j] = t
  <2>1. /\ R2 \in Seq(Tasks) /\ Len(R2) = Len(Requeued) + Len(TK)
        /\ \A k \in 1..(Len(Requeued) + Len(TK)) :
              R2[k] = IF k <= Len(Requeued) THEN Requeued[k] ELSE TK[k - Len(Requeued)]
    BY <1>1, <1>5, ConcatProperties
  <2>2. Len(Requeued) \in Nat /\ Len(TK) \in Nat
    BY <1>1, <1>5, LenProperties
  <2>3. j \in 1..(Len(Requeued) + Len(TK)) /\ j <= Len(Requeued)
    BY <2>2
  <2> HIDE DEF R2
  <2> QED
    BY <1>6, <2>1, <2>3
<1>8. RunList = R2 \o FK
  BY <1>3
<1> HIDE DEF R2
<1>9. /\ Len(RunList) = Len(R2) + Len(FK)
      /\ \A k \in 1..(Len(R2) + Len(FK)) :
              RunList[k] = IF k <= Len(R2) THEN R2[k] ELSE FK[k - Len(R2)]
  BY <1>1, <1>7, <1>8, ConcatProperties
<1>10. Len(R2) \in Nat /\ Len(FK) \in Nat
  BY <1>1, <1>7, LenProperties
<1>11. j \in 1..(Len(R2) + Len(FK)) /\ j <= Len(R2)
  BY <1>7, <1>10
<1> QED
  BY <1>6, <1>7, <1>9, <1>11

(* Steps of the current task and of interrupts that do not schedule change *)
(* the run list at its end or at the current task only.                    *)
LEMMA RunListSteps ==
  ASSUME IInv, Next
  PROVE  \/ running' = running \/ running' = RunList
         \/ running' = Unlink(running, current)
         \/ running' = Append(running, task_idx) /\ task_idx \in Tasks
<1>1. Create => task_idx \in Tasks
  BY DEF IInv, TypeOK, Create, Tasks
<1> QED
  BY <1>1 DEF Next, Yield, Schedule, WaitFlagFast, WaitFlagSlow, Wakeup, ClearFlag,
     QueueFlagWait, WaitTimer, QueueTimerWait, Create, StackFlag, Tick, Clock, lists

(* Round robin for any number of tasks: a runnable task that waits for the *)
(* CPU is never overtaken in the run list, whatever sched_queue_*, the     *)
(* wake-up loops, task_create and preemption do to it.                     *)
THEOREM NeverOvertaken == Spec => NoOvertaking
<1> DEFINE A == \A t \in Members(running) \ {current} :
                  t \in Members(running)' /\ Place(t)' <= Place(t)
<1>1. ASSUME IInv, IInv', Next PROVE A
  <2> SUFFICES ASSUME NEW t \in Members(running) \ {current}
               PROVE  t \in Members(running)' /\ Place(t)' <= Place(t)
    OBVIOUS
  <2>1. PICK i \in 1..Len(running) : running[i] = t
    BY DEF Members
  <2>2. \E j \in 1..Len(running') : j <= i /\ running'[j] = t
    <3>0. running \in Seq(Tasks) /\ Len(running) \in Nat
      BY <1>1, LenProperties DEF IInv, TypeOK
    <3>1. CASE running' = running
      BY <2>1, <3>0, <3>1
    <3>2. CASE running' = RunList
      BY <1>1, <2>1, <3>2, RunListPlaces
    <3>3. CASE running' = Unlink(running, current)
      BY <1>1, <2>1, <3>3, UnlinkPlaces
    <3>4. CASE running' = Append(running, task_idx) /\ task_idx \in Tasks
      <4>1. Len(running') = Len(running) + 1 /\ running'[i] = running[i]
        BY <3>0, <3>4, AppendProperties
      <4> QED
        BY <2>1, <3>0, <4>1
    <3> QED
      BY <1>1, <3>1, <3>2, <3>3, <3>4, RunListSteps
  <2>3. IsLinkedOnce(running) /\ IsLinkedOnce(running)'
    BY <1>1 DEF IInv, ListsMatchState
  <2> QED
    BY <2>1, <2>2, <2>3, PlaceMoves
<1>2. IInv /\ IInv' /\ [Next]_vars => [A]_vars
  BY <1>1
<1> HIDE DEF A
<1>3. IInv /\ [Next]_vars => [A]_vars
  BY <1>2, NextInv
<1>4. Spec => [][A]_vars
  BY <1>3, Invariance, PTL DEF Spec
<1> QED
  BY <1>4 DEF NoOvertaking, A

----------------------------------------------------------------------------
(* The cooperative scheduler implements event flags.  The mapping takes    *)
(* the signal of a fast path at its second store, so the argument needs    *)
(* that no other task is inside a wait call meanwhile.                     *)
OthersAtRun == \A t \in Tasks : t # current => pc[t] = "run"

(* Without preemption only the task on the CPU is inside a wait call.      *)
LEMMA OthersAlwaysAtRun ==
  ASSUME PREEMPTION_BY_TIMER = FALSE
  PROVE  Spec => []OthersAtRun
<1>1. Init => OthersAtRun
  BY DEF Init, OthersAtRun
<1>2. IInv /\ OthersAtRun /\ [Next]_vars => OthersAtRun'
  <2> SUFFICES ASSUME IInv, OthersAtRun, [Next]_vars PROVE OthersAtRun'
    OBVIOUS
  <2>0. pc \in [Tasks -> Points] /\ current \in Tasks
    BY DEF IInv, TypeOK
  <2>1. CASE Yield
    BY <2>0, <2>1 DEF Yield, OthersAtRun
  <2>2. CASE current' = current /\ \E p \in Points : pc' = [pc EXCEPT ![current] = p]
    BY <2>0, <2>2 DEF OthersAtRun
  <2>3. CASE UNCHANGED <<current, pc>>
    BY <2>3 DEF OthersAtRun
  <2>4. \/ Yield
        \/ UNCHANGED <<current, pc>>
        \/ current' = current /\ \E p \in Points : pc' = [pc EXCEPT ![current] = p]
    BY DEF Next, WaitFlagFast, WaitFlagSlow, Wakeup, ClearFlag, QueueFlagWait, WaitTimer,
       QueueTimerWait, Create, StackFlag, Tick, Clock, vars, Points
  <2> QED
    BY <2>1, <2>2, <2>3, <2>4
<1> QED
  BY <1>1, <1>2, Invariance, PTL DEF Spec

(* The mapped state when the task on the CPU is not inside a fast path.    *)
LEMMA SignalledOutside ==
  ASSUME OthersAtRun, pc[current] # "clear"
  PROVE  Signalled = SetFlags
BY DEF OthersAtRun, Signalled

(* ... and when it is.                                                     *)
LEMMA SignalledInside ==
  ASSUME IInv, OthersAtRun, pc[current] = "clear"
  PROVE  Signalled = SetFlags \cup {clearing[current]}
<1>1. {u \in Tasks : pc[u] = "clear"} = {current}
  BY DEF OthersAtRun, IInv, TypeOK
<1> QED
  BY <1>1 DEF Signalled

(* The task on the CPU is not blocked while it runs its own code.          *)
LEMMA CurrentNotBlocked ==
  ASSUME IInv, pc[current] = "run"
  PROVE  current \notin Members(flag_waiting) /\ Blocked[current] = NULL
<1>1. current \in Tasks /\ task_state[current] # "FLAGWAITING"
  BY DEF IInv, TypeOK, CpuHeldByRunnable, Waiting
<1>2. current \notin Members(flag_waiting)
  BY <1>1 DEF IInv, ListsMatchState
<1> QED
  BY <1>1, <1>2 DEF Blocked

(* A step that changes neither flags, nor what tasks wait for and where.   *)
LEMMA Stutters ==
  ASSUME UNCHANGED <<flag, clearing, waitflag>>, Members(flag_waiting)' = Members(flag_waiting),
         \A t \in Tasks : /\ pc'[t] = "clear" <=> pc[t] = "clear"
                          /\ pc'[t] = "flagwait" <=> pc[t] = "flagwait"
  PROVE  UNCHANGED <<Signalled, Blocked>>
<1>1. Signalled' = Signalled
  BY DEF Signalled, SetFlags
<1>2. Blocked' = Blocked
  BY DEF Blocked
<1> QED
  BY <1>1, <1>2

(* wakeup_waitflag signals.                                                *)
LEMMA WakeupSignals ==
  ASSUME IInv, NEW f \in Flags, Wakeup(f)
  PROVE  EF!Signal(f)
<1>1. SetFlags' = SetFlags \cup {f}
  BY DEF Wakeup, SetFlags, IInv, TypeOK
<1>2. Signalled' = Signalled \cup {f}
  BY <1>1 DEF Signalled, Wakeup
<1>3. Blocked' = Blocked
  BY DEF Blocked, Wakeup, Members, lists, taskVars
<1> QED
  BY <1>2, <1>3 DEF EF!Signal

(* The compare-and-swap of the fast path changes nothing yet ...           *)
LEMMA FastStutters ==
  ASSUME IInv, OthersAtRun, OthersAtRun', NEW f \in Flags, WaitFlagFast(f)
  PROVE  UNCHANGED <<Signalled, Blocked>>
<1>0. /\ pc \in [Tasks -> Points] /\ clearing \in [Tasks -> Flags \cup {NULL}]
      /\ current \in Tasks /\ flag \in [Flags -> FlagValues]
  BY DEF IInv, TypeOK
<1>1. /\ pc[current] = "run" /\ pc'[current'] = "clear" /\ current' = current
      /\ clearing'[current'] = f /\ f \in SetFlags /\ SetFlags' = SetFlags \ {f}
  BY <1>0 DEF WaitFlagFast, SetFlags
<1>2. Signalled = SetFlags
  BY <1>1, SignalledOutside
<1>3. Signalled' = SetFlags' \cup {f}
  <2>1. {u \in Tasks : pc'[u] = "clear"} = {current}
    BY <1>0, <1>1 DEF OthersAtRun
  <2> QED
    BY <1>1, <2>1 DEF Signalled
<1>4. Blocked' = Blocked
  <2>1. \A t \in Tasks : pc'[t] = "flagwait" <=> pc[t] = "flagwait"
    BY <1>0 DEF WaitFlagFast
  <2> QED
    BY <2>1 DEF Blocked, WaitFlagFast, Members, lists, taskVars
<1> QED
  BY <1>1, <1>2, <1>3, <1>4

(* ... and its second store takes the signal, one that came in between     *)
(* included.                                                               *)
LEMMA ClearTakes ==
  ASSUME IInv, OthersAtRun, OthersAtRun', ClearFlag
  PROVE  \E f \in Flags : EF!Take(f)
<1>0. /\ pc \in [Tasks -> Points] /\ current \in Tasks /\ flag \in [Flags -> FlagValues]
  BY DEF IInv, TypeOK
<1> DEFINE f == clearing[current]
<1>1. /\ pc[current] = "clear" /\ pc'[current'] = "run" /\ current' = current
      /\ f \in Flags
  BY <1>0 DEF ClearFlag, IInv, PointsOK
<1>2. Signalled = SetFlags \cup {f}
  BY <1>1, SignalledInside
<1>3. SetFlags' = SetFlags \ {f}
  BY <1>0, <1>1 DEF SetFlags, ClearFlag
<1>4. Signalled' = SetFlags'
  <2>1. {u \in Tasks : pc'[u] = "clear"} = {}
    BY <1>1 DEF OthersAtRun
  <2> QED
    BY <2>1 DEF Signalled
<1>5. Blocked' = Blocked
  <2>1. \A t \in Tasks : pc'[t] = "flagwait" <=> pc[t] = "flagwait"
    BY <1>0 DEF ClearFlag
  <2> QED
    BY <2>1 DEF Blocked, ClearFlag, Members, lists, taskVars
<1> HIDE DEF f
<1>6. EF!Take(f)
  BY <1>2, <1>3, <1>4, <1>5 DEF EF!Take
<1> QED
  BY <1>1, <1>6

(* The slow path blocks on a flag that is not signalled.                   *)
LEMMA SlowBlocks ==
  ASSUME IInv, OthersAtRun, OthersAtRun', NEW f \in Flags, WaitFlagSlow(f),
         StackFlags = {}
  PROVE  EF!Block(current, f)
<1>0. /\ pc \in [Tasks -> Points] /\ current \in Tasks
      /\ waitflag \in [Tasks -> Flags \cup {NULL}]
  BY DEF IInv, TypeOK
<1>1. pc[current] = "run" /\ pc'[current] = "flagwait" /\ current' = current
  BY <1>0 DEF WaitFlagSlow
<1>2. f \notin Signalled /\ Signalled' = Signalled
  <2>1. Signalled = SetFlags
    BY <1>1, SignalledOutside
  <2>2. {u \in Tasks : pc'[u] = "clear"} = {}
    BY <1>1 DEF OthersAtRun
  <2>3. Signalled' = SetFlags'
    BY <2>2 DEF Signalled
  <2>4. SetFlags' = SetFlags /\ f \notin SetFlags
    <3>1. flag[f] \in {0, 1} /\ flag[f] # 1 /\ flag' = flag
      BY DEF IInv, DriverFlagsOK, WaitFlagSlow
    <3> QED
      BY <3>1 DEF SetFlags
  <2> QED
    BY <2>1, <2>3, <2>4
<1>3. Members(flag_waiting)' = Members(flag_waiting)
  BY DEF WaitFlagSlow, Members, lists
<1>4. Blocked[current] = NULL
  BY <1>1, CurrentNotBlocked
<1>5. Blocked' = [Blocked EXCEPT ![current] = f]
  <2>1. \A t \in Tasks : t # current => pc'[t] = pc[t] /\ waitflag'[t] = waitflag[t]
    BY <1>0 DEF WaitFlagSlow
  <2>2. waitflag'[current] = f
    BY <1>0 DEF WaitFlagSlow
  <2> QED
    BY <1>0, <1>1, <1>3, <2>1, <2>2 DEF Blocked
<1> QED
  BY <1>2, <1>4, <1>5 DEF EF!Block

(* Queueing for the flag leaves the task blocked.                          *)
LEMMA QueueStutters ==
  ASSUME IInv, QueueFlagWait
  PROVE  UNCHANGED <<Signalled, Blocked>>
<1>0. /\ pc \in [Tasks -> Points] /\ current \in Tasks /\ flag_waiting \in Seq(Tasks)
  BY DEF IInv, TypeOK
<1>1. Members(flag_waiting)' = Members(flag_waiting) \cup {current}
  BY <1>0, AppendMembers DEF QueueFlagWait
<1>2. /\ pc[current] = "flagwait" /\ pc'[current] = "yield"
      /\ \A t \in Tasks : t # current => pc'[t] = pc[t]
      /\ UNCHANGED <<waitflag, flag, clearing>>
  BY <1>0 DEF QueueFlagWait
<1>3. Signalled' = Signalled
  <2>1. \A t \in Tasks : pc'[t] = "clear" <=> pc[t] = "clear"
    BY <1>2
  <2> QED
    BY <1>2, <2>1 DEF Signalled, SetFlags
<1>4. Blocked' = Blocked
  BY <1>1, <1>2 DEF Blocked
<1> QED
  BY <1>3, <1>4

(* schedule() releases one blocked task for each flag it clears.           *)
LEMMA YieldReleases ==
  ASSUME IInv, OthersAtRun, OthersAtRun', Yield
  PROVE  EF!Release(Woken) /\ Woken \in SUBSET Tasks
<1>0. /\ pc \in [Tasks -> Points] /\ current \in Tasks
      /\ waitflag \in [Tasks -> Flags \cup {NULL}]
      /\ Members(flag_waiting) \subseteq Tasks /\ Woken \subseteq Members(flag_waiting)
  BY ListsDisjoint, RunListFacts DEF IInv, TypeOK
<1>1. \A t \in Tasks : pc[t] # "clear" /\ pc'[t] = "run" /\ pc[t] # "flagwait"
  BY <1>0 DEF Yield, OthersAtRun
<1>2. Signalled = SetFlags /\ Signalled' = SetFlags'
  <2>1. {u \in Tasks : pc[u] = "clear"} = {} /\ {u \in Tasks : pc'[u] = "clear"} = {}
    BY <1>1
  <2> QED
    BY <2>1 DEF Signalled
<1>3. Schedule(ticks_left)
  BY DEF Yield
<1>4. Members(flag_waiting)' = Members(flag_waiting) \ Woken
  BY <1>3, ScheduleWaitLists
<1>5. /\ \A t \in Tasks : Blocked[t] = IF t \in Members(flag_waiting) THEN waitflag[t] ELSE NULL
      /\ \A t \in Woken : Blocked[t] = waitflag[t]
  BY <1>0, <1>1 DEF Blocked
<1>6. \A t \in Woken : Blocked[t] \in Signalled
  BY <1>2, <1>5 DEF Woken, SetFlags
<1>7. ASSUME NEW t \in Woken, NEW u \in Woken, waitflag[t] = waitflag[u]
      PROVE  t = u
  <2>1. PICK i \in 1..Len(flag_waiting) :
          /\ flag_waiting[i] = t
          /\ \A k \in 1..(i - 1) : waitflag[flag_waiting[k]] # waitflag[t]
    BY DEF Woken
  <2>2. PICK j \in 1..Len(flag_waiting) :
          /\ flag_waiting[j] = u
          /\ \A k \in 1..(j - 1) : waitflag[flag_waiting[k]] # waitflag[u]
    BY DEF Woken
  <2>3. ~ (i < j)
    <3>1. i < j => i \in 1..(j - 1)
      OBVIOUS
    <3> QED
      BY <1>7, <2>1, <2>2, <3>1
  <2>4. ~ (j < i)
    <3>1. j < i => j \in 1..(i - 1)
      OBVIOUS
    <3> QED
      BY <1>7, <2>1, <2>2, <3>1
  <2>5. i = j
    BY <2>3, <2>4
  <2> QED
    BY <2>1, <2>2, <2>5
<1>8. Signalled' = Signalled \ {Blocked[t] : t \in Woken}
  <2>1. {Blocked[t] : t \in Woken} = Consumed
    BY <1>5 DEF Consumed
  <2>2. flag' = [f \in Flags |-> IF f \in Consumed THEN 0 ELSE flag[f]]
    BY <1>3 DEF Schedule
  <2>3. SetFlags' = SetFlags \ Consumed
    BY <2>2 DEF SetFlags
  <2> QED
    BY <1>2, <2>1, <2>3
<1>9. Blocked' = [t \in Tasks |-> IF t \in Woken THEN NULL ELSE Blocked[t]]
  <2>1. waitflag' = [t \in Tasks |-> IF t \in Woken THEN NULL ELSE waitflag[t]]
    BY <1>3 DEF Schedule
  <2>2. Blocked' = [t \in Tasks |-> IF t \in Members(flag_waiting)' THEN waitflag'[t] ELSE NULL]
    BY <1>1 DEF Blocked
  <2> QED
    BY <1>4, <1>5, <2>1, <2>2
<1>10. \A t, u \in Woken : Blocked[t] = Blocked[u] => t = u
  BY <1>5, <1>7
<1> QED
  BY <1>0, <1>6, <1>8, <1>9, <1>10 DEF EF!Release

(* Every step of the cooperative scheduler is a step of the event flags or *)
(* leaves them alone.                                                      *)
LEMMA StepImplements ==
  ASSUME PREEMPTION_BY_TIMER = FALSE, StackFlags = {}, IInv, OthersAtRun,
         OthersAtRun', [Next]_vars
  PROVE  [EF!Next]_(EF!vars)
<1>0. pc \in [Tasks -> Points] /\ current \in Tasks
  BY DEF IInv, TypeOK
<1>1. CASE Yield
  BY <1>1, YieldReleases DEF EF!Next
<1>2. ASSUME NEW f \in Flags, WaitFlagFast(f) PROVE UNCHANGED EF!vars
  BY <1>2, FastStutters DEF EF!vars
<1>3. ASSUME NEW f \in Flags, WaitFlagSlow(f) PROVE EF!Next
  BY <1>0, <1>3, SlowBlocks DEF EF!Next
<1>4. ASSUME NEW f \in Flags, Wakeup(f) PROVE EF!Next
  BY <1>4, WakeupSignals DEF EF!Next
<1>5. CASE ClearFlag
  BY <1>5, ClearTakes DEF EF!Next
<1>6. CASE QueueFlagWait
  BY <1>6, QueueStutters DEF EF!vars
<1>7. CASE (\E d \in Delays : WaitTimer(d)) \/ QueueTimerWait \/ Create \/ Clock \/ UNCHANGED vars
  <2>1. /\ UNCHANGED <<flag, clearing, waitflag>>
        /\ Members(flag_waiting)' = Members(flag_waiting)
    BY <1>7 DEF WaitTimer, QueueTimerWait, Create, Clock, vars, lists, taskVars, Members
  <2>2. \A t \in Tasks : /\ pc'[t] = "clear" <=> pc[t] = "clear"
                         /\ pc'[t] = "flagwait" <=> pc[t] = "flagwait"
    BY <1>0, <1>7 DEF WaitTimer, QueueTimerWait, Create, Clock, vars
  <2> QED
    BY <2>1, <2>2, Stutters DEF EF!vars
<1>8. ~Tick /\ ~ \E f \in StackFlags, garbage \in FlagValues : StackFlag(f, garbage)
  BY DEF Tick
<1> QED
  BY <1>1, <1>2, <1>3, <1>4, <1>5, <1>6, <1>7, <1>8 DEF Next

(* The scheduler as shipped, without timer preemption and without a task   *)
(* that waits in semaphore_down, implements the                            *)
(* event flags that drivers rely on: wakeup_waitflag is never dropped      *)
(* between the interrupt handler, the two stores of the fast path and the  *)
(* wait queue, and schedule() wakes one task per signal.                   *)
THEOREM CooperativeImplementsEventFlag ==
  ASSUME PREEMPTION_BY_TIMER = FALSE, StackFlags = {}
  PROVE  Spec => ImplementsEventFlag
<1>1. Init => EF!Init
  <2> SUFFICES ASSUME Init PROVE EF!Init
    OBVIOUS
  <2>1. Signalled = {}
    BY DEF Init, Signalled, SetFlags
  <2>2. Members(flag_waiting) = {}
    BY DEF Init, Members
  <2>3. Blocked = [t \in Tasks |-> NULL]
    BY <2>2 DEF Init, Blocked
  <2> QED
    BY <2>1, <2>3 DEF EF!Init
<1>2. IInv /\ OthersAtRun /\ OthersAtRun' /\ [Next]_vars => [EF!Next]_(EF!vars)
  BY StepImplements
<1>3. Spec => EF!Spec
  BY <1>1, <1>2, Invariance, OthersAlwaysAtRun, PTL DEF Spec, EF!Spec
<1> QED
  BY <1>3 DEF ImplementsEventFlag
=============================================================================
