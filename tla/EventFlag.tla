----------------------------- MODULE EventFlag -----------------------------
(***************************************************************************)
(* What the waitflag calls promise to drivers (wait_on_waitflag and        *)
(* wakeup_waitflag of sched.c), with no lists, counters or time: a flag    *)
(* remembers that it was signalled, a task that waits for a signalled flag *)
(* takes the signal and goes on, a task that waits for another is blocked  *)
(* until a signal arrives, and every signal is taken by exactly one task   *)
(* and is dropped by nobody.                                               *)
(***************************************************************************)
CONSTANTS Tasks, Flags, NULL

VARIABLES
  signalled,   \* the flags whose signal no task has taken yet
  blocked      \* the flag each task is blocked on, or NULL

vars == <<signalled, blocked>>

Init ==
  /\ signalled = {}
  /\ blocked = [t \in Tasks |-> NULL]

(* wakeup_waitflag: signals that nobody has taken yet are merged.          *)
Signal(f) ==
  /\ signalled' = signalled \cup {f}
  /\ UNCHANGED blocked

(* wait_on_waitflag returns at once.                                       *)
Take(f) ==
  /\ f \in signalled
  /\ signalled' = signalled \ {f}
  /\ UNCHANGED blocked

(* wait_on_waitflag blocks, never on a flag that is signalled.             *)
Block(t, f) ==
  /\ blocked[t] = NULL
  /\ f \notin signalled
  /\ blocked' = [blocked EXCEPT ![t] = f]
  /\ UNCHANGED signalled

(* The tasks in S are unblocked, each by a signal of its own.              *)
Release(S) ==
  /\ \A t \in S : blocked[t] \in signalled
  /\ \A t, u \in S : blocked[t] = blocked[u] => t = u
  /\ signalled' = signalled \ {blocked[t] : t \in S}
  /\ blocked' = [t \in Tasks |-> IF t \in S THEN NULL ELSE blocked[t]]

Next ==
  \/ \E f \in Flags : Signal(f) \/ Take(f) \/ \E t \in Tasks : Block(t, f)
  \/ \E S \in SUBSET Tasks : Release(S)

Spec == Init /\ [][Next]_vars
=============================================================================
