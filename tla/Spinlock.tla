------------------------------ MODULE Spinlock ------------------------------
(***************************************************************************)
(* The spinlock (armv8_lock.S, spinlock.h) on several CPUs, instruction by *)
(* instruction, with the exclusive monitors and event registers it relies  *)
(* on.  Tasks take the lock with interrupts disabled, interrupt handlers   *)
(* take it as they are.                                                    *)
(*                                                                         *)
(* The lock protects a counter that every holder increments.  A store is   *)
(* visible to the other CPUs some time after its instruction: the dmb of   *)
(* the lock keeps later accesses behind it, the dsb of the unlock comes    *)
(* after the store that unlocks, and nothing keeps that store behind the   *)
(* stores of the critical section.                                         *)
(***************************************************************************)
EXTENDS Integers, FiniteSets

CONSTANTS
  CPUs,
  MAX_UPDATES,          \* bound on the critical sections
  MAX_CLEARS            \* bound on the monitors that are cleared for other reasons

ASSUME SpinlockAssumption ==
  /\ CPUs # {} /\ IsFiniteSet(CPUs)
  /\ MAX_UPDATES \in Nat /\ MAX_CLEARS \in Nat

NONE == -1

VARIABLES
  pc,                   \* [CPUs] the next instruction
  irqs,                 \* [CPUs] whether interrupts are enabled
  saved,                \* [CPUs] where the interrupted task goes on, or "none"
  lock,                 \* the word of the lock
  monitor,              \* [CPUs] whether the exclusive monitor is on the lock
  event,                \* [CPUs] the event register of wfe
  data,                 \* the protected counter, as the other CPUs see it
  copy,                 \* [CPUs] the value the holder has loaded
  pending,              \* [CPUs] the value of a store not yet visible, or NONE
  updates,              \* history: increments done
  stale,                \* history: a holder has loaded before a store was visible
  clears

vars == <<pc, irqs, saved, lock, monitor, event, data, copy, pending, updates, stale, clears>>

Init ==
  /\ pc = [c \in CPUs |-> "idle"]
  /\ irqs = [c \in CPUs |-> TRUE]
  /\ saved = [c \in CPUs |-> "none"]
  /\ lock = 0
  /\ monitor = [c \in CPUs |-> FALSE]
  /\ event = [c \in CPUs |-> FALSE]
  /\ data = 0
  /\ copy = [c \in CPUs |-> 0]
  /\ pending = [c \in CPUs |-> NONE]
  /\ updates = 0
  /\ stale = FALSE
  /\ clears = 0

Goto(c, step) == pc' = [pc EXCEPT ![c] = step]
memory == <<data, copy, pending, updates, stale>>
interrupts == <<irqs, saved>>

(* CPU c stores to the lock: the monitors of the others are cleared, which *)
(* is an event to each of them.                                            *)
StoreLock(c, value) ==
  /\ lock' = value
  /\ monitor' = [d \in CPUs |-> d = c /\ monitor[d] /\ value = 0]
  /\ event' = [d \in CPUs |-> event[d] \/ (d # c /\ monitor[d])]

----------------------------------------------------------------------------
(* Mutant: the lock is taken with interrupts enabled.                      *)
DisableIrqForgotten(c) ==
  /\ pc[c] = "idle" /\ saved[c] = "none" /\ updates < MAX_UPDATES
  /\ Goto(c, "ldxr")
  /\ UNCHANGED <<interrupts, lock, monitor, event, memory, clears>>

(* spinlock_lock_disable_irq of a task.                                    *)
DisableIrq(c) ==
  /\ pc[c] = "idle" /\ saved[c] = "none" /\ updates < MAX_UPDATES
  /\ irqs' = [irqs EXCEPT ![c] = FALSE]
  /\ Goto(c, "ldxr")
  /\ UNCHANGED <<saved, lock, monitor, event, memory, clears>>

(* An interrupt whose handler takes the lock.                              *)
Interrupt(c) ==
  /\ irqs[c] /\ saved[c] = "none" /\ updates < MAX_UPDATES
  /\ irqs' = [irqs EXCEPT ![c] = FALSE]
  /\ saved' = [saved EXCEPT ![c] = pc[c]]
  /\ Goto(c, "ldxr")
  /\ UNCHANGED <<lock, monitor, event, memory, clears>>

----------------------------------------------------------------------------
(* __armv8_spinlock_lock.                                                  *)

(* Mutant: a lock that is taken is looked at with an ordinary load.        *)
LdxrPlain(c) ==
  /\ pc[c] = "ldxr"
  /\ monitor' = [monitor EXCEPT ![c] = (lock = 0)]
  /\ Goto(c, IF lock = 0 THEN "stxr" ELSE "wfe")
  /\ UNCHANGED <<interrupts, lock, event, memory, clears>>

Ldxr(c) ==
  /\ pc[c] = "ldxr"
  /\ monitor' = [monitor EXCEPT ![c] = TRUE]
  /\ Goto(c, IF lock = 0 THEN "stxr" ELSE "wfe")
  /\ UNCHANGED <<interrupts, lock, event, memory, clears>>

(* Mutant: the store is not exclusive.                                     *)
StxrAlways(c) ==
  /\ pc[c] = "stxr"
  /\ StoreLock(c, 1) /\ Goto(c, "load")
  /\ UNCHANGED <<interrupts, memory, clears>>

(* The store succeeds while the monitor is on the lock; if not, the CPU    *)
(* goes to sleep as well.                                                  *)
Stxr(c) ==
  /\ pc[c] = "stxr"
  /\ \/ monitor[c] /\ StoreLock(c, 1) /\ Goto(c, "load")
     \/ ~monitor[c] /\ Goto(c, "wfe") /\ UNCHANGED <<lock, monitor, event>>
  /\ UNCHANGED <<interrupts, memory, clears>>

(* The monitor is cleared for a reason of its own (an eviction).           *)
ClearMonitor(c) ==
  /\ monitor[c] /\ clears < MAX_CLEARS
  /\ clears' = clears + 1
  /\ monitor' = [monitor EXCEPT ![c] = FALSE]
  /\ event' = [event EXCEPT ![c] = TRUE]
  /\ UNCHANGED <<pc, interrupts, lock, memory>>

(* Mutant: wfe is not left for an event that came before it.               *)
WfeMissesEvent(c) ==
  /\ pc[c] = "wfe" /\ event[c] /\ monitor[c]
  /\ event' = [event EXCEPT ![c] = FALSE]
  /\ Goto(c, "ldxr")
  /\ UNCHANGED <<interrupts, lock, monitor, memory, clears>>

Wfe(c) ==
  /\ pc[c] = "wfe" /\ event[c]
  /\ event' = [event EXCEPT ![c] = FALSE]
  /\ Goto(c, "ldxr")
  /\ UNCHANGED <<interrupts, lock, monitor, memory, clears>>

----------------------------------------------------------------------------
(* The critical section: the counter is loaded, and its increment stored.  *)

Load(c) ==
  /\ pc[c] = "load"
  /\ copy' = [copy EXCEPT ![c] = data]
  /\ stale' = (stale \/ \E d \in CPUs : pending[d] # NONE)
  /\ Goto(c, "store")
  /\ UNCHANGED <<interrupts, lock, monitor, event, data, pending, updates, clears>>

Store(c) ==
  /\ pc[c] = "store"
  /\ pending' = [pending EXCEPT ![c] = copy[c] + 1]
  /\ updates' = updates + 1
  /\ Goto(c, "str")
  /\ UNCHANGED <<interrupts, lock, monitor, event, data, copy, stale, clears>>

(* A store becomes visible.                                                *)
Drain(c) ==
  /\ pending[c] # NONE
  /\ data' = pending[c]
  /\ pending' = [pending EXCEPT ![c] = NONE]
  /\ UNCHANGED <<pc, interrupts, lock, monitor, event, copy, updates, stale, clears>>

----------------------------------------------------------------------------
(* __armv8_spinlock_unlock.                                                *)

Str(c) ==
  /\ pc[c] = "str"
  /\ StoreLock(c, 0)
  /\ Goto(c, "sev")
  /\ UNCHANGED <<interrupts, memory, clears>>

(* Mutant: no barrier before the event.                                    *)
SevAtOnce(c) ==
  /\ pc[c] = "sev"
  /\ event' = [d \in CPUs |-> TRUE]
  /\ Goto(c, "restore")
  /\ UNCHANGED <<interrupts, lock, monitor, memory, clears>>

(* dsb st and sev: the stores of the CPU are visible by now.               *)
Sev(c) ==
  /\ pc[c] = "sev"
  /\ pending[c] = NONE
  /\ event' = [d \in CPUs |-> TRUE]
  /\ Goto(c, "restore")
  /\ UNCHANGED <<interrupts, lock, monitor, memory, clears>>

(* spinlock_unlock_restore_irq of a task.                                  *)
RestoreIrq(c) ==
  /\ pc[c] = "restore" /\ saved[c] = "none"
  /\ irqs' = [irqs EXCEPT ![c] = TRUE]
  /\ Goto(c, "idle")
  /\ UNCHANGED <<saved, lock, monitor, event, memory, clears>>

(* The return from an interrupt clears the monitor and is an event.        *)
Eret(c) ==
  /\ pc[c] = "restore" /\ saved[c] # "none"
  /\ irqs' = [irqs EXCEPT ![c] = TRUE]
  /\ saved' = [saved EXCEPT ![c] = "none"]
  /\ Goto(c, saved[c])
  /\ monitor' = [monitor EXCEPT ![c] = FALSE]
  /\ event' = [event EXCEPT ![c] = TRUE]
  /\ UNCHANGED <<lock, memory, clears>>

----------------------------------------------------------------------------
Instruction(c) ==
  \/ Ldxr(c) \/ Stxr(c) \/ Wfe(c)
  \/ Load(c) \/ Store(c) \/ Str(c) \/ Sev(c)
  \/ RestoreIrq(c) \/ Eret(c)

Next ==
  \E c \in CPUs :
    \/ DisableIrq(c) \/ Interrupt(c) \/ ClearMonitor(c) \/ Drain(c)
    \/ Instruction(c)

Spec == Init /\ [][Next]_vars

(* A CPU goes on executing instructions, a store becomes visible.          *)
Fairness == \A c \in CPUs : WF_vars(Instruction(c)) /\ WF_vars(Drain(c))

----------------------------------------------------------------------------
Steps == {"idle", "ldxr", "stxr", "wfe", "load", "store", "str", "sev", "restore"}
Holding == {"load", "store", "str"}
Waiting == {"ldxr", "stxr", "wfe"}

TypeOK ==
  /\ pc \in [CPUs -> Steps]
  /\ irqs \in [CPUs -> BOOLEAN]
  /\ saved \in [CPUs -> Steps \cup {"none"}]
  /\ lock \in {0, 1}
  /\ monitor \in [CPUs -> BOOLEAN]
  /\ event \in [CPUs -> BOOLEAN]
  /\ data \in Nat
  /\ copy \in [CPUs -> Nat]
  /\ pending \in [CPUs -> Nat \cup {NONE}]
  /\ updates \in Nat
  /\ stale \in BOOLEAN
  /\ clears \in 0..MAX_CLEARS

(* At most one CPU, and on a CPU at most one of the task and the handler   *)
(* that interrupted it, is between lock and unlock.                        *)
MutualExclusion ==
  /\ \A c, d \in CPUs : pc[c] \in Holding /\ pc[d] \in Holding => c = d
  /\ \A c, d \in CPUs : saved[c] \in Holding => pc[d] \notin Holding

(* No CPU sleeps in wfe beside a free lock without an event to wake it,    *)
(* however its monitor was lost and whoever was faster.                    *)
NoSleepBesideFreeLock ==
  \A c \in CPUs : pc[c] = "wfe" /\ ~event[c] => lock = 1

(* A handler never waits for a lock that the task below it holds or is     *)
(* about to take: interrupts are off from before the lock is tried.        *)
HandlerNeverWaitsForItself ==
  \A c \in CPUs : saved[c] # "none" => saved[c] = "idle"

(* The unlock does not wait for the stores of the critical section, so an  *)
(* increment may be lost; it is lost only if another CPU got the lock      *)
(* before the store was visible, and the dsb keeps that to the time before *)
(* the sev.                                                                *)
LostOnlyByLateStore ==
  /\ ~stale => \/ updates = data /\ \A c \in CPUs : pending[c] = NONE
               \/ \E c \in CPUs : pending[c] = updates
  /\ \A c \in CPUs : pending[c] # NONE => pc[c] \in {"str", "sev"}

(* As long as CPUs want the lock, some CPU gets it.                        *)
SomeCpuGetsLock ==
  (\E c \in CPUs : pc[c] \in Waiting) ~> (\E c \in CPUs : pc[c] \in Holding)
=============================================================================
