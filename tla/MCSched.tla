------------------------------ MODULE MCSched ------------------------------
(* Sched on small instances: the waitflags of drivers are alike, those of  *)
(* semaphores hold what their stacks held.                                 *)
EXTENDS Sched, TLC

DriverFlagSymmetry == Permutations(Flags \ StackFlags)
=============================================================================
