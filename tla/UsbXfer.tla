------------------------------ MODULE UsbXfer ------------------------------
(***************************************************************************)
(* USB transfers: tasks submit chains of jobs (hcd_transfer.c), the        *)
(* usb_runqueue thread starts them on the controller's channels and        *)
(* retires them (usb_xfer_queue.c), and the controller's interrupt reports *)
(* what became of the transfer on a channel (dwc2.c).                      *)
(*                                                                         *)
(* Control and bulk jobs always end with ERR_OK: no interrupt sets the     *)
(* status of such a job to NAK, NYET or HALTED, so the branches for these  *)
(* are dead.  Interrupts that only restart the transfer (packets left,     *)
(* AHB error, the ACK of a start split) leave this state as it is.         *)
(* A data toggle error and unexpected interrupt bits stop the kernel in an *)
(* endless loop and are left out.                                          *)
(***************************************************************************)
EXTENDS Integers, Sequences, Lists

CONSTANTS
  Tasks,                \* the tasks that do transfers, one at a time each
  Bulk,                 \* those of them that also do bulk transfers
  Slow,                 \* those whose device is not high speed: split mode
  Chains,               \* usb_xfer_jobchains, 64 in the code
  NUM_CHANNELS,         \* the channels of the controller, 6 in the code
  NONE,
  MAX_XFERS             \* bound on the transfers submitted

ASSUME UsbAssumption ==
  /\ Bulk \subseteq Tasks /\ Slow \subseteq Tasks
  /\ NONE \notin Tasks \cup Chains
  /\ NUM_CHANNELS \in Nat /\ MAX_XFERS \in Nat

Channels == 0..(NUM_CHANNELS - 1)

VARIABLES
  waits,                \* the chain each task waits for in hcd_transfer_*
  bulk,                 \* whether that is a bulk transfer
  completed,            \* the flag on the stack of each task
  late,                 \* history: a transfer given up was still on its way when
                        \* the task submitted the one it waits for
  owner,                \* the task a chain belongs to, NONE when it is free
  jobs,                 \* the directions of a chain's jobs not yet retired
  done,                 \* j->completed of the job a chain has on a channel
  pending,              \* queue_state.jobchains_pending
  running,              \* queue_state.jobs_running, as the jobs' chains
  channel,              \* the chain each channel is allocated to
  xfer,                 \* what the controller did with a channel's transfer
  has_work,             \* the waitflag of the thread
  pc,                   \* where the thread is in usb_xfer_queue_run
  todo,                 \* the jobs its loop over jobs_running is still to visit
  submitted             \* transfers submitted so far

chainVars == <<owner, jobs, done>>
queueVars == <<pending, running, channel>>
taskVars == <<waits, bulk, completed, late>>
xferVars == <<taskVars, chainVars, queueVars, xfer, has_work, pc, todo, submitted>>

Directions == {"in", "out"}

(* The jobs of usb_xfer_jobchain_prep_control: SETUP, DATA if there is     *)
(* any, and a STATUS packet against the data's direction.                  *)
ControlJobs == {<<"out", "in">>, <<"out", "in", "out">>, <<"out", "out", "in">>}
BulkJobs == {<<"out">>, <<"in">>}

(* usb_xfer_queue_init and dwc2_channel_init.                              *)
XferInit ==
  /\ waits = [t \in Tasks |-> NONE]
  /\ bulk = [t \in Tasks |-> FALSE]
  /\ completed = [t \in Tasks |-> FALSE]
  /\ late = [t \in Tasks |-> FALSE]
  /\ owner = [c \in Chains |-> NONE]
  /\ jobs = [c \in Chains |-> << >>]
  /\ done = [c \in Chains |-> FALSE]
  /\ pending = << >>
  /\ running = << >>
  /\ channel = [h \in Channels |-> NONE]
  /\ xfer = [h \in Channels |-> "idle"]
  /\ has_work = FALSE
  /\ pc = "wait"
  /\ todo = << >>
  /\ submitted = 0

Halted == pc \in {"panic", "fault"}

----------------------------------------------------------------------------
(* The tasks.                                                              *)

(* hcd_transfer_control and hcd_transfer_bulk up to their wait: a chain is *)
(* allocated, its jobs are prepared, it is queued and the thread is woken. *)
(* The mass storage task does both: it clears the halt of an endpoint with *)
(* a control transfer after a bulk transfer.                               *)
Submit(t, c, js) ==
  /\ ~Halted /\ waits[t] = NONE /\ owner[c] = NONE /\ submitted < MAX_XFERS
  /\ js \in BulkJobs => t \in Bulk
  /\ owner' = [owner EXCEPT ![c] = t]
  /\ jobs' = [jobs EXCEPT ![c] = js]
  /\ done' = [done EXCEPT ![c] = FALSE]
  /\ pending' = Append(pending, c)
  /\ has_work' = TRUE
  /\ waits' = [waits EXCEPT ![t] = c]
  /\ bulk' = [bulk EXCEPT ![t] = (js \in BulkJobs)]
  /\ completed' = [completed EXCEPT ![t] = FALSE]
  /\ late' = [late EXCEPT ![t] = \E d \in Chains : owner[d] = t]
  /\ submitted' = submitted + 1
  /\ UNCHANGED <<running, channel, xfer, pc, todo>>

(* The wait ends because a callback set the task's flag.                   *)
Return(t) ==
  /\ ~Halted /\ waits[t] # NONE /\ completed[t]
  /\ waits' = [waits EXCEPT ![t] = NONE]
  /\ UNCHANGED <<bulk, completed, late, chainVars, queueVars, xfer, has_work,
                 pc, todo, submitted>>

(* hcd_transfer_bulk gives up and returns success.  The chain stays where  *)
(* it is; its callback still points to the task's stack.                   *)
Timeout(t) ==
  /\ ~Halted /\ waits[t] # NONE /\ bulk[t] /\ ~completed[t]
  /\ waits' = [waits EXCEPT ![t] = NONE]
  /\ UNCHANGED <<bulk, completed, late, chainVars, queueVars, xfer, has_work,
                 pc, todo, submitted>>

----------------------------------------------------------------------------
(* The usb_runqueue thread.                                                *)

TakeWork ==
  /\ pc = "wait" /\ has_work
  /\ has_work' = FALSE
  /\ pc' = "pending"
  /\ UNCHANGED <<taskVars, chainVars, queueVars, xfer, todo, submitted>>

(* usb_xfer_job_set_running of the first job of chain c on channel h: the  *)
(* channel is stopped and programmed anew, and the job goes to the end of  *)
(* jobs_running.                                                           *)
SetRunning(c, h, others) ==
  /\ done' = [done EXCEPT ![c] = FALSE]
  /\ xfer' = [xfer EXCEPT ![h] = "active"]
  /\ running' = Append(others, c)

(* usb_xfer_process_pending with nothing to start.                         *)
NothingPending ==
  /\ pc = "pending" /\ pending = << >>
  /\ pc' = "running" /\ todo' = running
  /\ UNCHANGED <<taskVars, chainVars, queueVars, xfer, has_work, submitted>>

(* Mutant: the channel is not marked in channels_bitmap.                   *)
StartPendingUnmarked(h) ==
  LET c == Head(pending)
  IN  /\ pc = "pending" /\ pending # << >>
      /\ channel' = [channel EXCEPT ![h] = c]
      /\ SetRunning(c, h, running)
      /\ pending' = Tail(pending)
      /\ pc' = "running" /\ todo' = running'
      /\ UNCHANGED <<taskVars, owner, jobs, has_work, submitted>>

(* usb_xfer_process_pending: one chain is taken and its first job started  *)
(* on the first free channel.                                              *)
StartPending(h) ==
  LET c == Head(pending)
  IN  /\ pc = "pending" /\ pending # << >>
      /\ channel[h] = NONE /\ \A k \in 0..(h - 1) : channel[k] # NONE
      /\ channel' = [channel EXCEPT ![h] = c]
      /\ SetRunning(c, h, running)
      /\ pending' = Tail(pending)
      /\ pc' = "running" /\ todo' = running'
      /\ UNCHANGED <<taskVars, owner, jobs, has_work, submitted>>

(* BUG "Failed to create dwc2_channel".                                    *)
NoChannel ==
  /\ pc = "pending" /\ pending # << >>
  /\ \A h \in Channels : channel[h] # NONE
  /\ pc' = "panic"
  /\ UNCHANGED <<taskVars, chainVars, queueVars, xfer, has_work, todo, submitted>>

(* usb_xfer_process_running passes a job that is not completed.            *)
SkipJob ==
  /\ pc = "running" /\ todo # << >> /\ ~done[Head(todo)]
  /\ todo' = Tail(todo)
  /\ UNCHANGED <<taskVars, chainVars, queueVars, xfer, has_work, pc, submitted>>

(* A completed job with another one behind it in its chain: that one is    *)
(* started and goes to the end of jobs_running, where the loop meets it    *)
(* unless it was about to end.                                             *)
NextJob(h) ==
  LET c == Head(todo)
  IN  /\ pc = "running" /\ todo # << >> /\ done[c]
      /\ Len(jobs[c]) > 1 /\ channel[h] = c
      /\ jobs' = [jobs EXCEPT ![c] = Tail(@)]
      /\ SetRunning(c, h, Unlink(running, c))
      /\ todo' = IF Len(todo) = 1 THEN << >> ELSE Append(Tail(todo), c)
      /\ UNCHANGED <<taskVars, owner, pending, channel, has_work, pc, submitted>>

(* Mutant: the chain is retired with its first job.                        *)
RetireEarly(h) ==
  LET c == Head(todo)
  IN  /\ pc = "running" /\ todo # << >> /\ done[c] /\ channel[h] = c
      /\ completed' = [completed EXCEPT ![owner[c]] = TRUE]
      /\ jobs' = [jobs EXCEPT ![c] = Tail(@)]
      /\ owner' = [owner EXCEPT ![c] = NONE]
      /\ channel' = [channel EXCEPT ![h] = NONE]
      /\ running' = Unlink(running, c)
      /\ todo' = Tail(todo)
      /\ UNCHANGED <<waits, bulk, late, done, pending, xfer, has_work, pc, submitted>>

(* The last job of a chain is completed: the callback sets the flag of the *)
(* task, the channel and the chain are released.  The flag of a transfer   *)
(* given up is in a frame the task has left: what is written there may be  *)
(* the flag of the transfer it waits for now, or not.                      *)
RetireChain(h) ==
  LET c == Head(todo)
  IN  /\ pc = "running" /\ todo # << >> /\ done[c]
      /\ Len(jobs[c]) = 1 /\ channel[h] = c
      /\ \/ completed' = [completed EXCEPT ![owner[c]] = TRUE]
         \/ waits[owner[c]] # c /\ UNCHANGED completed
      /\ jobs' = [jobs EXCEPT ![c] = << >>]
      /\ owner' = [owner EXCEPT ![c] = NONE]
      /\ channel' = [channel EXCEPT ![h] = NONE]
      /\ running' = Unlink(running, c)
      /\ todo' = Tail(todo)
      /\ UNCHANGED <<waits, bulk, late, done, pending, xfer, has_work, pc, submitted>>

LoopEnds ==
  /\ pc = "running" /\ todo = << >>
  /\ pc' = "wait"
  /\ UNCHANGED <<taskVars, chainVars, queueVars, xfer, has_work, todo, submitted>>

Thread ==
  \/ TakeWork \/ NothingPending \/ NoChannel \/ SkipJob \/ LoopEnds
  \/ \E h \in Channels : StartPending(h) \/ NextJob(h) \/ RetireChain(h)

----------------------------------------------------------------------------
(* The interrupt of a channel with a transfer on it.                       *)

Allocated(h) == ~Halted /\ xfer[h] = "active" /\ channel[h] # NONE
Split(h) == owner[channel[h]] \in Slow
Direction(h) == Head(jobs[channel[h]])

(* Mutant: the thread is not woken.                                        *)
ReportQuietly(h, outcome) ==
  /\ xfer' = [xfer EXCEPT ![h] = outcome]
  /\ done' = [done EXCEPT ![channel[h]] = TRUE]
  /\ UNCHANGED <<taskVars, owner, jobs, queueVars, has_work, pc, todo, submitted>>

(* usb_xfer_handle_completed.                                              *)
Report(h, outcome) ==
  /\ xfer' = [xfer EXCEPT ![h] = outcome]
  /\ done' = [done EXCEPT ![channel[h]] = TRUE]
  /\ has_work' = TRUE
  /\ UNCHANGED <<taskVars, owner, jobs, queueVars, pc, todo, submitted>>

(* Halted with XFER_COMPLETE and no packet left.                           *)
IrqComplete(h) == Allocated(h) /\ Report(h, "finished")

(* Halted without XFER_COMPLETE and without split mode: the handler        *)
(* returns, and nobody hears of the transfer again.                        *)
IrqHalted(h) ==
  /\ Allocated(h) /\ ~Split(h)
  /\ xfer' = [xfer EXCEPT ![h] = "dead"]
  /\ UNCHANGED <<taskVars, chainVars, queueVars, has_work, pc, todo, submitted>>

(* Halted without XFER_COMPLETE in split mode.  After a NAK or a NYET the  *)
(* transfer is started again, after an error it is not; then               *)
(* dwc2_transfer_recalc_next is asked, which finds packets left only for   *)
(* the direction in.                                                       *)
IrqSplitOut(h, outcome) ==
  Allocated(h) /\ Split(h) /\ Direction(h) = "out" /\ Report(h, outcome)

(* The transfer on a channel that was released: dwc2_channel_get_by_id     *)
(* returns NULL and the handler uses it.                                   *)
IrqReleased(h) ==
  /\ ~Halted /\ xfer[h] = "active" /\ channel[h] = NONE
  /\ pc' = "fault"
  /\ UNCHANGED <<taskVars, chainVars, queueVars, xfer, has_work, todo, submitted>>

Irq(h) ==
  \/ IrqComplete(h) \/ IrqHalted(h) \/ IrqReleased(h)
  \/ \E outcome \in {"active", "dead"} : IrqSplitOut(h, outcome)

----------------------------------------------------------------------------
XferNext ==
  \/ \E t \in Tasks :
       \/ Return(t) \/ Timeout(t)
       \/ \E c \in Chains, js \in ControlJobs \cup BulkJobs : Submit(t, c, js)
  \/ Thread
  \/ \E h \in Channels : Irq(h)

XferSpec == XferInit /\ [][XferNext]_xferVars

----------------------------------------------------------------------------
XferTypeOK ==
  /\ waits \in [Tasks -> Chains \cup {NONE}]
  /\ bulk \in [Tasks -> BOOLEAN]
  /\ completed \in [Tasks -> BOOLEAN]
  /\ late \in [Tasks -> BOOLEAN]
  /\ owner \in [Chains -> Tasks \cup {NONE}]
  /\ jobs \in [Chains -> Seq(Directions)]
  /\ done \in [Chains -> BOOLEAN]
  /\ pending \in Seq(Chains) /\ running \in Seq(Chains) /\ todo \in Seq(Chains)
  /\ channel \in [Channels -> Chains \cup {NONE}]
  /\ xfer \in [Channels -> {"idle", "active", "finished", "dead"}]
  /\ has_work \in BOOLEAN
  /\ pc \in {"wait", "pending", "running", "panic", "fault"}
  /\ submitted \in 0..MAX_XFERS

(* The thread starts one chain per wake-up and the waitflag holds one      *)
(* wake-up, yet no chain is forgotten: while chains are pending and the    *)
(* thread sleeps with nothing to wake it, a job is on a channel that was   *)
(* not reported yet (and only if that transfer dies do they stay behind).  *)
PendingIsNotForgotten ==
  (pending # << >> /\ pc = "wait" /\ ~has_work) =>
    \E c \in Members(running) : ~done[c]

(* A completed job never waits for the completion of another: the thread   *)
(* is to run or its loop has the job ahead of it.                          *)
CompletionIsNotForgotten ==
  \A c \in Members(running) :
    done[c] => \/ has_work \/ Halted \/ pc = "pending"
               \/ pc = "running" /\ c \in Members(todo)

(* A started chain holds exactly one channel, no channel is held by a      *)
(* chain that was released, and a chain is in at most one of the lists.    *)
ChannelsMatchRunning ==
  /\ \A h \in Channels : channel[h] # NONE => channel[h] \in Members(running)
  /\ \A c \in Members(running) : \E h \in Channels : channel[h] = c
  /\ \A h, k \in Channels : (channel[h] = channel[k] /\ channel[h] # NONE) => h = k
  /\ Members(running) \cap Members(pending) = {}
  /\ \A c \in Members(running) \cup Members(pending) : owner[c] # NONE

(* A wait is ended by its own chain, when every job of it is retired,      *)
(* although the task may go on to a control transfer while a bulk transfer *)
(* it gave up is on its way.  The one exception is the callback of such a  *)
(* transfer, and only if it was on its way when the wait began.            *)
EndsRetired ==
  \A t \in Tasks :
    (waits[t] # NONE /\ completed[t] /\ ~late[t]) =>
      /\ ~\E c \in Chains : owner[c] = t
      /\ owner[waits[t]] = NONE => jobs[waits[t]] = << >>

(* On a high-speed device the queue moves on only from a transfer that the *)
(* controller has finished.                                                *)
HighSpeedReportedWhenDone ==
  \A h \in Channels :
    (channel[h] # NONE /\ done[channel[h]] /\ ~Split(h)) => xfer[h] = "finished"

(* The queue thread forgets neither a pending chain nor a completed job,   *)
(* although one waitflag stands for all of them (usb_xfer_queue.c).        *)
NothingForgotten == PendingIsNotForgotten /\ CompletionIsNotForgotten

(* No transfer is over too early, for the task that waits for it or for    *)
(* the queue (usb_xfer_process_running, dwc2_irq_handle_channel_halt).     *)
ReportedWhenDone == EndsRetired /\ HighSpeedReportedWhenDone

(* The lists, the channels and the owners of chains agree, whatever times  *)
(* out or dies (usb_xfer_queue_run, dwc2_xfer_control_destroy).            *)
QueueInv == XferTypeOK /\ ChannelsMatchRunning
=============================================================================
