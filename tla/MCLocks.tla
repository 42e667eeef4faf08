------------------------------ MODULE MCLocks ------------------------------
(* The semaphore and the spinlock on small instances.  They share no       *)
(* variable, so one run explores both one at a time: one takes its steps   *)
(* while the other stays as it began.                                      *)
EXTENDS Semaphore, Spinlock

LocksInit == SemaphoreInit /\ Init

LocksNext ==
  \/ Init /\ SemaphoreNext /\ UNCHANGED vars
  \/ SemaphoreInit /\ Next /\ UNCHANGED semaphoreVars

LocksSpec == LocksInit /\ [][LocksNext]_<<semaphoreVars, vars>> /\ Fairness
=============================================================================
