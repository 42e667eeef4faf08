----------------------------- MODULE Semaphore -----------------------------
(***************************************************************************)
(* The counting semaphore of semaphore.c.  Its lock disables interrupts,   *)
(* so each stretch of code under the lock is one step.  The waitflag of a  *)
(* waiter is the event flag of module EventFlag and lives on the stack of  *)
(* the task: waitflag_init assigns to its own parameter, so the flag       *)
(* starts with whatever the stack held, and the waiter is never unlinked   *)
(* from wait_list.                                                         *)
(***************************************************************************)
EXTENDS Integers, Sequences, FiniteSets

CONSTANTS
  Tasks,                \* the tasks that call semaphore_down
  COUNT,                \* the value given to semaphore_init
  COUNT_MOD,            \* count is unsigned: 2^32 in the code
  MAX_UPS,              \* bound on the calls of semaphore_up
  MAX_DOWNS             \* bound on the calls of semaphore_down of one task

ASSUME SemaphoreAssumption ==
  /\ COUNT_MOD \in Nat \ {0} /\ COUNT \in 0..(COUNT_MOD - 1)
  /\ MAX_UPS \in Nat /\ MAX_DOWNS \in Nat

VARIABLES
  count,                \* s->count
  wait_list,            \* s->wait_list: the tasks whose waiter is linked
  waitflag,             \* the waitflag of each task's waiter
  task_pc,              \* "idle", "waiting" for its flag, or "woken"
  calls,                \* calls of semaphore_down of each task
  granted,              \* downs that have returned
  ups                   \* calls of semaphore_up

semaphoreVars == <<count, wait_list, waitflag, task_pc, calls, granted, ups>>

(* semaphore_init.                                                         *)
SemaphoreInit ==
  /\ count = COUNT
  /\ wait_list = << >>
  /\ waitflag = [t \in Tasks |-> FALSE]
  /\ task_pc = [t \in Tasks |-> "idle"]
  /\ calls = [t \in Tasks |-> 0]
  /\ granted = 0
  /\ ups = 0

Linked(t) == \E i \in 1..Len(wait_list) : wait_list[i] = t

Call(t) ==
  /\ task_pc[t] = "idle" /\ calls[t] < MAX_DOWNS
  /\ calls' = [calls EXCEPT ![t] = @ + 1]

(* Mutant: a unit is taken without being counted.                          *)
DownKeepsCount(t) ==
  /\ Call(t) /\ count > 0
  /\ granted' = granted + 1
  /\ UNCHANGED <<count, wait_list, waitflag, task_pc, ups>>

(* semaphore_down with a unit to take.                                     *)
Down(t) ==
  /\ Call(t) /\ count > 0
  /\ count' = count - 1
  /\ granted' = granted + 1
  /\ UNCHANGED <<wait_list, waitflag, task_pc, ups>>

(* semaphore_down with nothing to take: __semaphore_down links a waiter    *)
(* and waits.  A task whose previous waiter is still linked would link the *)
(* same stack address twice; the model stops short of that.                *)
DownBlock(t, garbage) ==
  /\ Call(t) /\ count = 0 /\ ~Linked(t)
  /\ wait_list' = Append(wait_list, t)
  /\ waitflag' = [waitflag EXCEPT ![t] = garbage]
  /\ task_pc' = [task_pc EXCEPT ![t] = "waiting"]
  /\ UNCHANGED <<count, granted, ups>>

(* wait_on_waitflag returns to __semaphore_down and has cleared the flag.  *)
(* The task runs some time later.                                          *)
Wake(t) ==
  /\ task_pc[t] = "waiting" /\ waitflag[t]
  /\ waitflag' = [waitflag EXCEPT ![t] = FALSE]
  /\ task_pc' = [task_pc EXCEPT ![t] = "woken"]
  /\ UNCHANGED <<count, wait_list, calls, granted, ups>>

(* The woken waiter looks at its flag again: it leaves the loop when the   *)
(* flag is set, and waits once more when it is not.                        *)
Recheck(t) ==
  /\ task_pc[t] = "woken"
  /\ IF waitflag[t]
       THEN task_pc' = [task_pc EXCEPT ![t] = "idle"] /\ granted' = granted + 1
       ELSE task_pc' = [task_pc EXCEPT ![t] = "waiting"] /\ UNCHANGED granted
  /\ UNCHANGED <<count, wait_list, waitflag, calls, ups>>

(* semaphore_up with an empty wait_list.                                   *)
UpCount ==
  /\ ups < MAX_UPS /\ wait_list = << >>
  /\ count' = (count + 1) % COUNT_MOD
  /\ ups' = ups + 1
  /\ UNCHANGED <<wait_list, waitflag, task_pc, calls, granted>>

(* semaphore_up with a waiter linked: the first one's flag is set, and it  *)
(* stays linked.                                                           *)
UpWake ==
  /\ ups < MAX_UPS /\ wait_list # << >>
  /\ waitflag' = [waitflag EXCEPT ![Head(wait_list)] = TRUE]
  /\ ups' = ups + 1
  /\ UNCHANGED <<count, wait_list, task_pc, calls, granted>>

SemaphoreNext ==
  \/ UpCount \/ UpWake
  \/ \E t \in Tasks :
       \/ Down(t) \/ Wake(t) \/ Recheck(t)
       \/ \E garbage \in BOOLEAN : DownBlock(t, garbage)

SemaphoreSpec == SemaphoreInit /\ [][SemaphoreNext]_semaphoreVars

SemaphoreTypeOK ==
  /\ count \in 0..(COUNT_MOD - 1)
  /\ wait_list \in Seq(Tasks)
  /\ waitflag \in [Tasks -> BOOLEAN]
  /\ task_pc \in [Tasks -> {"idle", "waiting", "woken"}]
  /\ calls \in [Tasks -> 0..MAX_DOWNS]
  /\ granted \in Nat
  /\ ups \in 0..MAX_UPS

(* No unit is handed out twice: whatever garbage the waitflags start with  *)
(* and however ups fall between a wake-up and its recheck, no more downs   *)
(* return than units were provided.                                        *)
NoOverGrant == granted + count <= COUNT + ups

(* A unit is never left in count while a task waits for one: semaphore_up  *)
(* counts only when nobody is linked, semaphore_down links only at zero.   *)
NoUnitBesideWaiter == wait_list # << >> => count = 0

(* Units are neither handed out twice nor kept from a waiter, whatever the *)
(* waitflags on the stacks start with (semaphore_down, semaphore_up).      *)
UnitsConserved == SemaphoreTypeOK /\ NoOverGrant /\ NoUnitBesideWaiter

(* A task whose flag is set, or that has left the wait, runs on.           *)
SemaphoreFairSpec ==
  SemaphoreSpec /\ \A t \in Tasks : WF_semaphoreVars(Wake(t) \/ Recheck(t))

(* What callers of semaphore_down expect (vchiq_core.c:1588, "Wait for the *)
(* ACK/NAK"): a blocked down returns when there has been a unit or an up   *)
(* for every down.  It does not hold: the flag is read after the wait has  *)
(* cleared it, and later ups go to the first waiter for good.              *)
UpEndsDown ==
  \A t \in Tasks :
    (/\ task_pc[t] # "idle"
     /\ COUNT + ups >= granted + Cardinality({u \in Tasks : task_pc[u] # "idle"}))
      ~> task_pc[t] = "idle"
=============================================================================
