----------------------------- MODULE LockProofs -----------------------------
(***************************************************************************)
(* The two locks of the kernel: what the spinlock guarantees for every     *)
(* number of CPUs, and the semaphore for any number of tasks, calls and    *)
(* units.                                                                  *)
(*                                                                         *)
(* Mutual exclusion rests on the monitor: a CPU between its exclusive load *)
(* and store that still has its monitor has read the lock free and nobody  *)
(* has stored since.  That no CPU is left asleep rests on the same monitor *)
(* and on the event its loss raises.                                       *)
(*                                                                         *)
(* A down of the semaphore that has blocked returns for a flag that was    *)
(* set after its task was woken, and that is the work of a semaphore_up:   *)
(* the unit under way has to be counted.  There is one at most, since      *)
(* semaphore_up always sets the flag of the first waiter.                  *)
(***************************************************************************)
EXTENDS Spinlock, Semaphore, TLAPS

(* The lock word says whether somebody holds the lock, and a monitor       *)
(* watches a lock that is free.                                            *)
LockWord ==
  /\ \A c \in CPUs : pc[c] \in Holding => lock = 1
  /\ \A c \in CPUs : pc[c] = "stxr" /\ monitor[c] => lock = 0
  /\ \A c, d \in CPUs : pc[c] \in Holding /\ pc[d] \in Holding => c = d

(* Interrupts are off while a task is on its way to or from the lock.      *)
IrqsOff ==
  \A c \in CPUs : /\ irqs[c] => pc[c] = "idle"
                  /\ saved[c] # "none" => saved[c] = "idle"

(* A CPU that sleeps, or is about to, has its monitor on a taken lock or   *)
(* an event waiting.                                                       *)
Watched ==
  \A c \in CPUs :
    /\ pc[c] = "wfe" /\ ~event[c] => monitor[c] /\ lock = 1
    /\ pc[c] = "stxr" /\ ~monitor[c] => event[c]

IInv == TypeOK /\ LockWord /\ IrqsOff /\ Watched

USE SpinlockAssumption DEF Steps, Holding, NONE

(* The initial state satisfies the invariant.                              *)
LEMMA InitInv == Init => IInv
<1> SUFFICES ASSUME Init PROVE IInv
  OBVIOUS
<1>1. TypeOK
  <2>1. /\ irqs \in [CPUs -> BOOLEAN] /\ monitor \in [CPUs -> BOOLEAN]
        /\ event \in [CPUs -> BOOLEAN] /\ stale \in BOOLEAN
    BY Zenon DEF Init
  <2>2. /\ pc \in [CPUs -> Steps] /\ saved \in [CPUs -> Steps \cup {"none"}]
        /\ lock \in {0, 1} /\ data \in Nat /\ copy \in [CPUs -> Nat]
        /\ pending \in [CPUs -> Nat \cup {NONE}] /\ updates \in Nat
        /\ clears \in 0..MAX_CLEARS
    BY DEF Init
  <2> QED
    BY <2>1, <2>2 DEF TypeOK
<1>2. LockWord
  BY DEF Init, LockWord
<1>3. IrqsOff
  BY Zenon DEF Init, IrqsOff
<1>4. Watched
  BY DEF Init, Watched
<1> QED
  BY <1>1, <1>2, <1>3, <1>4 DEF IInv

(* Every instruction keeps the types of the variables.                     *)
LEMMA TypeStep == TypeOK /\ [Next]_vars => TypeOK'
<1> SUFFICES ASSUME TypeOK, [Next]_vars PROVE TypeOK'
  OBVIOUS
<1> USE DEF TypeOK, Goto, interrupts, memory, StoreLock
<1>1. ASSUME NEW c \in CPUs, DisableIrq(c) PROVE TypeOK'
  BY <1>1 DEF DisableIrq
<1>2. ASSUME NEW c \in CPUs, Interrupt(c) PROVE TypeOK'
  BY <1>2 DEF Interrupt
<1>3. ASSUME NEW c \in CPUs, ClearMonitor(c) PROVE TypeOK'
  BY <1>3 DEF ClearMonitor
<1>4. ASSUME NEW c \in CPUs, Drain(c) PROVE TypeOK'
  BY <1>4 DEF Drain
<1>5. ASSUME NEW c \in CPUs, Ldxr(c) PROVE TypeOK'
  BY <1>5 DEF Ldxr
<1>6. ASSUME NEW c \in CPUs, Stxr(c) PROVE TypeOK'
  <2>1. CASE monitor[c] /\ StoreLock(c, 1) /\ Goto(c, "load")
    BY <1>6, <2>1 DEF Stxr
  <2>2. CASE UNCHANGED <<lock, monitor, event>> /\ Goto(c, "wfe")
    BY <1>6, <2>2 DEF Stxr
  <2> QED
    BY <1>6, <2>1, <2>2 DEF Stxr
<1>7. ASSUME NEW c \in CPUs, Wfe(c) PROVE TypeOK'
  BY <1>7 DEF Wfe
<1>8. ASSUME NEW c \in CPUs, Load(c) PROVE TypeOK'
  BY <1>8 DEF Load
<1>9. ASSUME NEW c \in CPUs, Store(c) PROVE TypeOK'
  BY <1>9 DEF Store
<1>10. ASSUME NEW c \in CPUs, Str(c) PROVE TypeOK'
  BY <1>10 DEF Str
<1>11. ASSUME NEW c \in CPUs, Sev(c) PROVE TypeOK'
  BY <1>11 DEF Sev
<1>12. ASSUME NEW c \in CPUs, RestoreIrq(c) PROVE TypeOK'
  BY <1>12 DEF RestoreIrq
<1>13. ASSUME NEW c \in CPUs, Eret(c) PROVE TypeOK'
  BY <1>13 DEF Eret
<1>14. CASE UNCHANGED vars
  BY <1>14 DEF vars
<1> QED
  BY <1>1, <1>2, <1>3, <1>4, <1>5, <1>6, <1>7, <1>8, <1>9, <1>10, <1>11, <1>12,
     <1>13, <1>14 DEF Next, Instruction

(* Every instruction keeps the invariant.                                  *)
LEMMA NextInv == IInv /\ [Next]_vars => IInv'
<1> SUFFICES ASSUME IInv, [Next]_vars PROVE IInv'
  OBVIOUS
<1>0. TypeOK'
  BY TypeStep DEF IInv
<1> DEFINE Rest == LockWord /\ IrqsOff /\ Watched
<1> USE <1>0 DEF IInv, TypeOK, LockWord, IrqsOff, Watched, Goto, interrupts, memory
<1>1. ASSUME NEW c \in CPUs, DisableIrq(c) PROVE Rest'
  BY <1>1 DEF DisableIrq
<1>2. ASSUME NEW c \in CPUs, Interrupt(c) PROVE Rest'
  BY <1>2 DEF Interrupt
<1>3. ASSUME NEW c \in CPUs, ClearMonitor(c) PROVE Rest'
  BY <1>3 DEF ClearMonitor
<1>4. ASSUME NEW c \in CPUs, Drain(c) PROVE Rest'
  BY <1>4 DEF Drain
<1>5. ASSUME NEW c \in CPUs, Ldxr(c) PROVE Rest'
  BY <1>5 DEF Ldxr
<1>6. ASSUME NEW c \in CPUs, Stxr(c) PROVE Rest'
  <2>1. CASE monitor[c]
    BY <1>6, <2>1 DEF Stxr, StoreLock
  <2>2. CASE ~monitor[c]
    BY <1>6, <2>2 DEF Stxr
  <2> QED BY <2>1, <2>2
<1>7. ASSUME NEW c \in CPUs, Wfe(c) PROVE Rest'
  BY <1>7 DEF Wfe
<1>8. ASSUME NEW c \in CPUs, Load(c) PROVE Rest'
  BY <1>8 DEF Load
<1>9. ASSUME NEW c \in CPUs, Store(c) PROVE Rest'
  BY <1>9 DEF Store
<1>10. ASSUME NEW c \in CPUs, Str(c) PROVE Rest'
  BY <1>10 DEF Str, StoreLock
<1>11. ASSUME NEW c \in CPUs, Sev(c) PROVE Rest'
  BY <1>11 DEF Sev
<1>12. ASSUME NEW c \in CPUs, RestoreIrq(c) PROVE Rest'
  BY <1>12 DEF RestoreIrq
<1>13. ASSUME NEW c \in CPUs, Eret(c) PROVE Rest'
  BY <1>13 DEF Eret
<1>14. CASE UNCHANGED vars
  BY <1>14 DEF vars
<1> QED
  BY <1>1, <1>2, <1>3, <1>4, <1>5, <1>6, <1>7, <1>8, <1>9, <1>10, <1>11, <1>12,
     <1>13, <1>14 DEF Next, Instruction

(* The invariant holds throughout.                                         *)
THEOREM Invariance == Spec => []IInv
<1>1. Init => IInv
  BY InitInv
<1>2. IInv /\ [Next]_vars => IInv'
  BY NextInv
<1> QED
  BY <1>1, <1>2, PTL DEF Spec

(* Type correctness of the lock, for any number of CPUs.                   *)
THEOREM SpinlockTypeCorrect == Spec => []TypeOK
<1>1. IInv => TypeOK
  BY DEF IInv
<1> QED
  BY <1>1, Invariance, PTL

(* The lock excludes: of all tasks and handlers on all CPUs at most one is *)
(* between lock and unlock.                                                *)
THEOREM SpinlockExcludes == Spec => []MutualExclusion
<1>1. IInv => MutualExclusion
  BY DEF IInv, LockWord, IrqsOff, MutualExclusion
<1> QED
  BY <1>1, Invariance, PTL

(* No CPU is left asleep beside a free lock.                               *)
THEOREM SpinlockWakes == Spec => []NoSleepBesideFreeLock
<1>1. IInv => NoSleepBesideFreeLock
  BY DEF IInv, Watched, NoSleepBesideFreeLock
<1> QED
  BY <1>1, Invariance, PTL

(* A handler never waits for the task it interrupted.                      *)
THEOREM SpinlockNoSelfWait == Spec => []HandlerNeverWaitsForItself
<1>1. IInv => HandlerNeverWaitsForItself
  BY DEF IInv, IrqsOff, HandlerNeverWaitsForItself
<1> QED
  BY <1>1, Invariance, PTL
----------------------------------------------------------------------------
(* The counter.  While no holder has loaded it too early, at most one      *)
(* store is on its way, and a holder about to store has seen them all.     *)
Settled == \A c \in CPUs : pending[c] = NONE
Counter ==
  /\ \A c \in CPUs : pending[c] # NONE => pc[c] \in {"str", "sev"}
  /\ ~stale =>
       /\ \A c \in CPUs : pc[c] = "store" => Settled /\ copy[c] = updates
       /\ \/ Settled /\ data = updates
          \/ \E c \in CPUs : /\ pending[c] = updates
                            /\ \A d \in CPUs : d # c => pending[d] = NONE

(* Every instruction keeps what is known of the counter.                   *)
LEMMA CounterStep == IInv /\ Counter /\ [Next]_vars => Counter'
<1> SUFFICES ASSUME IInv, Counter, [Next]_vars PROVE Counter'
  OBVIOUS
<1> USE DEF IInv, TypeOK, Counter, Settled, Goto, interrupts
<1>1. ASSUME NEW c \in CPUs, DisableIrq(c) \/ Interrupt(c) \/ ClearMonitor(c) PROVE Counter'
  BY <1>1 DEF DisableIrq, Interrupt, ClearMonitor, memory, IrqsOff
<1>2. ASSUME NEW c \in CPUs, Drain(c) PROVE Counter'
  <2>1. CASE stale
    BY <1>2, <2>1 DEF Drain
  <2>2. CASE ~stale
    <3>1. pending[c] = updates /\ \A d \in CPUs : d # c => pending[d] = NONE
      BY <1>2, <2>2 DEF Drain
    <3>2. Settled' /\ data' = updates' /\ \A d \in CPUs : pc[d] # "store"
      BY <1>2, <2>2, <3>1 DEF Drain
    <3> QED
      BY <1>2, <3>2 DEF Drain
  <2> QED BY <2>1, <2>2
<1>3. ASSUME NEW c \in CPUs, Ldxr(c) \/ Stxr(c) \/ Wfe(c) PROVE Counter'
  BY <1>3 DEF Ldxr, Stxr, Wfe, memory
<1>4. ASSUME NEW c \in CPUs, Load(c) PROVE Counter'
  <2>1. CASE Settled
    <3>1. ~stale => copy'[c] = updates'
      BY <1>4, <2>1 DEF Load
    <3>2. \A d \in CPUs : d # c => copy'[d] = copy[d] /\ pc'[d] = pc[d]
      BY <1>4 DEF Load
    <3> QED
      BY <1>4, <2>1, <3>1, <3>2 DEF Load
  <2>2. CASE ~Settled
    <3>1. stale'
      BY <1>4, <2>2 DEF Load
    <3> QED
      BY <1>4, <3>1 DEF Load
  <2> QED BY <2>1, <2>2
<1>5. ASSUME NEW c \in CPUs, Store(c) PROVE Counter'
  <2>1. \A d \in CPUs : d # c => pc[d] # "store"
    BY <1>5 DEF Store, LockWord
  <2>2. CASE stale
    BY <1>5, <2>2 DEF Store
  <2>3. CASE ~stale
    <3>1. Settled /\ copy[c] = updates
      BY <1>5, <2>3 DEF Store
    <3>2. /\ pending'[c] = updates' /\ stale' = stale
          /\ \A d \in CPUs : d # c => pending'[d] = NONE
      BY <1>5, <3>1 DEF Store
    <3>3. \A d \in CPUs : pc'[d] # "store"
      BY <1>5, <2>1 DEF Store
    <3>4. \A d \in CPUs : pending'[d] # NONE => pc'[d] \in {"str", "sev"}
      BY <1>5, <3>2 DEF Store
    <3> QED
      BY <3>2, <3>3, <3>4
  <2> QED BY <2>2, <2>3
<1>6. ASSUME NEW c \in CPUs, Str(c) \/ Sev(c) PROVE Counter'
  BY <1>6 DEF Str, Sev, memory
<1>7. ASSUME NEW c \in CPUs, RestoreIrq(c) \/ Eret(c) PROVE Counter'
  BY <1>7 DEF RestoreIrq, Eret, memory, IrqsOff
<1>8. CASE UNCHANGED vars
  BY <1>8 DEF vars
<1> QED
  BY <1>1, <1>2, <1>3, <1>4, <1>5, <1>6, <1>7, <1>8 DEF Next, Instruction

(* An increment is lost only to a store that became visible after the      *)
(* unlock.                                                                 *)
THEOREM SpinlockLoss == Spec => []LostOnlyByLateStore
<1>1. Init => Counter
  BY DEF Init, Counter, Settled
<1>2. IInv /\ Counter /\ [Next]_vars => Counter'
  BY CounterStep
<1>3. Counter => LostOnlyByLateStore
  BY DEF Counter, Settled, LostOnlyByLateStore
<1> QED
  BY <1>1, <1>2, <1>3, Invariance, PTL DEF Spec

----------------------------------------------------------------------------
(* The semaphore (module Semaphore).                                       *)

(* The down of t is about to return with a unit.                           *)
Served(t) == task_pc[t] = "woken" /\ waitflag[t]

UnderWay == IF \E t \in Tasks : Served(t) THEN 1 ELSE 0

(* Only the first waiter is served.                                        *)
ServedIsFirst == \A t \in Tasks : Served(t) => wait_list # << >> /\ t = Head(wait_list)

UnitsCounted == granted + count + UnderWay <= COUNT + ups

SemIInv == SemaphoreTypeOK /\ NoUnitBesideWaiter /\ ServedIsFirst /\ UnitsCounted

(* Counting up in COUNT_MOD does not add more than one unit.               *)
LEMMA CountUp ==
  ASSUME NEW c \in 0..(COUNT_MOD - 1)
  PROVE  (c + 1) % COUNT_MOD \in 0..(COUNT_MOD - 1) /\ (c + 1) % COUNT_MOD <= c + 1
<1>1. COUNT_MOD \in Nat /\ COUNT_MOD > 0
  BY SemaphoreAssumption
<1>2. CASE c + 1 < COUNT_MOD
  BY <1>1, <1>2
<1>3. CASE c + 1 = COUNT_MOD
  BY <1>1, <1>3
<1> QED
  BY <1>1, <1>2, <1>3

(* semaphore_init.                                                         *)
LEMMA SemInit == SemaphoreInit => SemIInv
<1> SUFFICES ASSUME SemaphoreInit PROVE SemIInv
  OBVIOUS
<1>1. SemaphoreTypeOK
  <2>1. waitflag \in [Tasks -> BOOLEAN]
    BY Zenon DEF SemaphoreInit
  <2> QED
    BY <2>1, SemaphoreAssumption DEF SemaphoreInit, SemaphoreTypeOK
<1>2. \A t \in Tasks : ~Served(t)
  BY DEF SemaphoreInit, Served
<1> QED
  BY <1>1, <1>2, SemaphoreAssumption
  DEF SemaphoreInit, SemIInv, NoUnitBesideWaiter, ServedIsFirst, UnitsCounted, UnderWay

(* Every step keeps the types of the variables.                            *)
LEMMA SemTypes == SemaphoreTypeOK /\ [SemaphoreNext]_semaphoreVars => SemaphoreTypeOK'
<1> SUFFICES ASSUME SemaphoreTypeOK, [SemaphoreNext]_semaphoreVars PROVE SemaphoreTypeOK'
  OBVIOUS
<1> USE SemaphoreAssumption
<1>1. CASE UpCount
  BY <1>1, CountUp DEF UpCount, SemaphoreTypeOK
<1>2. CASE UpWake
  <2>1. Head(wait_list) \in Tasks
    BY <1>2 DEF UpWake, SemaphoreTypeOK
  <2>2. waitflag' \in [Tasks -> BOOLEAN]
    BY <1>2, <2>1, Zenon DEF UpWake, SemaphoreTypeOK
  <2> QED
    BY <1>2, <2>2 DEF UpWake, SemaphoreTypeOK
<1>3. ASSUME NEW t \in Tasks, Down(t) PROVE SemaphoreTypeOK'
  BY <1>3 DEF Down, Call, SemaphoreTypeOK
<1>4. ASSUME NEW t \in Tasks, NEW garbage \in BOOLEAN, DownBlock(t, garbage) PROVE SemaphoreTypeOK'
  <2>1. waitflag' \in [Tasks -> BOOLEAN]
    BY <1>4, Zenon DEF DownBlock, SemaphoreTypeOK
  <2> QED
    BY <1>4, <2>1 DEF DownBlock, Call, SemaphoreTypeOK
<1>5. ASSUME NEW t \in Tasks, Wake(t) PROVE SemaphoreTypeOK'
  <2>1. waitflag' \in [Tasks -> BOOLEAN]
    BY <1>5, Zenon DEF Wake, SemaphoreTypeOK
  <2> QED
    BY <1>5, <2>1 DEF Wake, SemaphoreTypeOK
<1>6. ASSUME NEW t \in Tasks, Recheck(t) PROVE SemaphoreTypeOK'
  <2>1. waitflag' \in [Tasks -> BOOLEAN]
    BY <1>6, Zenon DEF Recheck, SemaphoreTypeOK
  <2>2. \/ task_pc' = [task_pc EXCEPT ![t] = "idle"] /\ granted' = granted + 1
        \/ task_pc' = [task_pc EXCEPT ![t] = "waiting"] /\ granted' = granted
    BY <1>6, Zenon DEF Recheck
  <2>3. UNCHANGED <<count, wait_list, calls, ups>>
    BY <1>6 DEF Recheck
  <2> QED
    BY <2>1, <2>2, <2>3 DEF SemaphoreTypeOK
<1>7. CASE UNCHANGED semaphoreVars
  BY <1>7 DEF semaphoreVars, SemaphoreTypeOK
<1> QED
  BY <1>1, <1>2, <1>3, <1>4, <1>5, <1>6, <1>7 DEF SemaphoreNext

(* No step breaks the count of units.                                      *)
LEMMA SemStep == SemIInv /\ [SemaphoreNext]_semaphoreVars => SemIInv'
<1> SUFFICES ASSUME SemIInv, [SemaphoreNext]_semaphoreVars PROVE SemIInv'
  OBVIOUS
<1> USE DEF SemIInv
<1>0. SemaphoreTypeOK'
  BY SemTypes
<1>a. granted \in Nat /\ count \in Nat /\ ups \in Nat /\ COUNT \in Nat
  BY SemaphoreAssumption DEF SemaphoreTypeOK
<1>1. CASE UpCount
  <2>1. count' \in Nat /\ count' <= count + 1
    BY <1>1, CountUp DEF UpCount, SemaphoreTypeOK
  <2>2. UnderWay' = UnderWay /\ ServedIsFirst'
    BY <1>1 DEF UpCount, UnderWay, Served, ServedIsFirst
  <2>3. UnitsCounted'
    BY <1>1, <1>a, <2>1, <2>2 DEF UpCount, UnitsCounted, UnderWay
  <2> QED
    BY <1>0, <1>1, <2>2, <2>3 DEF UpCount, NoUnitBesideWaiter
<1>2. CASE UpWake
  <2>1. \A t \in Tasks : Served(t)' => Served(t) \/ t = Head(wait_list)
    BY <1>2 DEF UpWake, Served, SemaphoreTypeOK
  <2>2. ServedIsFirst'
    BY <1>2, <2>1 DEF UpWake, ServedIsFirst
  <2>3. UnitsCounted'
    BY <1>2, <1>a DEF UpWake, UnitsCounted, UnderWay
  <2> QED
    BY <1>0, <1>2, <2>2, <2>3 DEF UpWake, NoUnitBesideWaiter
<1>3. ASSUME NEW t \in Tasks, Down(t) PROVE SemIInv'
  <2>1. UnderWay' = UnderWay /\ ServedIsFirst'
    BY <1>3 DEF Down, UnderWay, Served, ServedIsFirst
  <2>2. UnitsCounted'
    BY <1>3, <1>a, <2>1 DEF Down, UnitsCounted, UnderWay
  <2> QED
    BY <1>0, <1>3, <2>1, <2>2 DEF Down, NoUnitBesideWaiter
<1>4. ASSUME NEW t \in Tasks, NEW garbage \in BOOLEAN, DownBlock(t, garbage) PROVE SemIInv'
  <2>1. \A u \in Tasks : Served(u)' <=> Served(u)
    BY <1>4 DEF DownBlock, Call, Served, SemaphoreTypeOK
  <2>2. wait_list # << >> => wait_list' # << >> /\ Head(wait_list') = Head(wait_list)
    BY <1>4 DEF DownBlock, SemaphoreTypeOK
  <2>3. ServedIsFirst'
    BY <2>1, <2>2 DEF ServedIsFirst
  <2>4. UnderWay' = UnderWay
    BY <2>1 DEF UnderWay
  <2>5. UnitsCounted'
    BY <1>4, <2>4 DEF DownBlock, UnitsCounted
  <2> QED
    BY <1>0, <1>4, <2>3, <2>5 DEF DownBlock, NoUnitBesideWaiter
<1>5. ASSUME NEW t \in Tasks, Wake(t) PROVE SemIInv'
  <2>1. \A u \in Tasks : Served(u)' <=> Served(u)
    BY <1>5 DEF Wake, Served, SemaphoreTypeOK
  <2>2. ServedIsFirst'
    BY <1>5, <2>1 DEF Wake, ServedIsFirst
  <2>3. UnderWay' = UnderWay
    BY <2>1 DEF UnderWay
  <2>4. UnitsCounted'
    BY <1>5, <2>3 DEF Wake, UnitsCounted
  <2> QED
    BY <1>0, <1>5, <2>2, <2>4 DEF Wake, NoUnitBesideWaiter
<1>6. ASSUME NEW t \in Tasks, Recheck(t) PROVE SemIInv'
  <2>1. \A u \in Tasks : Served(u)' <=> Served(u) /\ u # t
    BY <1>6 DEF Recheck, Served, SemaphoreTypeOK
  <2>2. ServedIsFirst'
    BY <1>6, <2>1 DEF Recheck, ServedIsFirst
  <2>3. UnitsCounted'
    <3>1. CASE waitflag[t]
      <4>1. Served(t)
        BY <1>6, <3>1 DEF Recheck, Served
      <4>2. \A u \in Tasks : ~Served(u)'
        BY <2>1, <4>1 DEF ServedIsFirst
      <4>3. UnderWay = 1 /\ UnderWay' = 0
        BY <4>1, <4>2 DEF UnderWay
      <4> QED
        BY <1>6, <1>a, <3>1, <4>3 DEF Recheck, UnitsCounted
    <3>2. CASE ~waitflag[t]
      <4>1. UnderWay' = UnderWay
        BY <2>1, <3>2 DEF UnderWay, Served
      <4> QED
        BY <1>6, <3>2, <4>1 DEF Recheck, UnitsCounted
    <3> QED
      BY <3>1, <3>2
  <2> QED
    BY <1>0, <1>6, <2>2, <2>3 DEF Recheck, NoUnitBesideWaiter
<1>7. CASE UNCHANGED semaphoreVars
  BY <1>0, <1>7 DEF semaphoreVars, NoUnitBesideWaiter, ServedIsFirst, Served, UnitsCounted, UnderWay
<1> QED
  BY <1>1, <1>2, <1>3, <1>4, <1>5, <1>6, <1>7 DEF SemaphoreNext

(* The invariant holds throughout.                                         *)
THEOREM SemaphoreInvariance == SemaphoreSpec => []SemIInv
<1> QED
  BY SemInit, SemStep, PTL DEF SemaphoreSpec

(* For any number of tasks no unit is handed out twice and none is kept    *)
(* from a waiter, whatever the waitflags on the stacks start with          *)
(* (semaphore_down, semaphore_up).                                         *)
THEOREM UnitsAlwaysConserved == SemaphoreSpec => []UnitsConserved
<1>1. SemIInv => UnitsConserved
  BY SemaphoreAssumption
  DEF SemIInv, UnitsConserved, NoOverGrant, UnitsCounted, UnderWay, SemaphoreTypeOK
<1> QED
  BY <1>1, SemaphoreInvariance, PTL
=============================================================================
