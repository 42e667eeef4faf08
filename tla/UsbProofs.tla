----------------------------- MODULE UsbProofs -----------------------------
(***************************************************************************)
(* The transfer queue for any number of tasks, chains and channels, and    *)
(* enumeration for any number of slots, ports, levels and faults.          *)
(*                                                                         *)
(* The invariants of UsbXfer are about a waitflag that stands for several  *)
(* things at once.  What makes them inductive: the chain that the thread   *)
(* has started in this pass is not reported without a wake-up, and the     *)
(* loop over jobs_running visits only jobs that run.                       *)
(*                                                                         *)
(* The devices of UsbTree are a forest: a device is one port further down  *)
(* the bus than the hub it hangs from, so the places order it.  The calls  *)
(* of usb_hub_enumerate_port are on a path down from the root hub.  A step *)
(* takes a slot for the device at the innermost call, changes that device, *)
(* adds it to its hub, or gives it back with all that hangs below it.      *)
(* What a step does to the forest and to the ports is proved apart from    *)
(* what is known of each device: its class, its address and its state.     *)
(***************************************************************************)
EXTENDS UsbXfer, UsbTree, ListTheorems, FiniteSetTheorems

-----------------------------------------------------------------------------
(* The transfer queue.                                                     *)

(* No chain is linked twice, and the loop's rest is a part of              *)
(* jobs_running, empty outside the loop.                                   *)
ListsSound ==
  /\ IsLinkedOnce(pending) /\ IsLinkedOnce(running) /\ IsLinkedOnce(todo)
  /\ Members(todo) \subseteq Members(running)
  /\ pc \in {"wait", "pending"} => todo = << >>

(* A free chain has no jobs.                                               *)
FreeIsEmpty == \A c \in Chains : owner[c] = NONE => jobs[c] = << >>

(* A task that waits owns no chain but the one it waits for, unless it had *)
(* given another one up.                                                   *)
WaitOwns ==
  \A c \in Chains, t \in Tasks :
    (owner[c] = t /\ waits[t] # NONE /\ ~late[t]) => waits[t] = c /\ ~completed[t]

(* PendingIsNotForgotten holds throughout the loop over jobs_running.      *)
WorkAhead ==
  (pending # << >> /\ pc \in {"wait", "running"} /\ ~has_work) =>
    \E c \in Members(running) : ~done[c]

XferIInv ==
  /\ XferTypeOK /\ ListsSound /\ ChannelsMatchRunning /\ FreeIsEmpty /\ WaitOwns
  /\ HighSpeedReportedWhenDone /\ CompletionIsNotForgotten /\ WorkAhead

----------------------------------------------------------------------------
(* The lists hold chains in use.                                           *)
LEMMA ListFacts ==
  ASSUME XferIInv
  PROVE  /\ Members(pending) \subseteq Chains /\ Members(running) \subseteq Chains
         /\ Members(todo) \subseteq Members(running)
         /\ \A c \in Members(running) \cup Members(pending) : owner[c] \in Tasks
         /\ \A h \in Channels : channel[h] # NONE => channel[h] \in Chains
<1>1. Members(pending) \subseteq Chains /\ Members(running) \subseteq Chains
  BY MembersType DEF XferIInv, XferTypeOK
<1> QED
  BY <1>1 DEF XferIInv, XferTypeOK, ListsSound, ChannelsMatchRunning

(* Steps that leave the lists alone.                                       *)
LEMMA ListsKept ==
  ASSUME UNCHANGED <<pending, running, todo>>
  PROVE  /\ Members(pending)' = Members(pending)
         /\ Members(running)' = Members(running)
         /\ Members(todo)' = Members(todo)
         /\ IsLinkedOnce(pending)' = IsLinkedOnce(pending)
         /\ IsLinkedOnce(running)' = IsLinkedOnce(running)
         /\ IsLinkedOnce(todo)' = IsLinkedOnce(todo)
BY DEF Members, IsLinkedOnce

(* usb_xfer_jobchain_prep_control and hcd_transfer_bulk prepare jobs.      *)
LEMMA JobsType == ControlJobs \cup BulkJobs \subseteq Seq(Directions)
<1>1. <<"out", "in">> \in Seq(Directions)
  BY DEF Directions
<1>2. <<"out", "in", "out">> \in Seq(Directions)
  BY DEF Directions
<1>3. <<"out", "out", "in">> \in Seq(Directions)
  BY DEF Directions
<1>4. <<"out">> \in Seq(Directions) /\ <<"in">> \in Seq(Directions)
  BY DEF Directions
<1> QED
  BY <1>1, <1>2, <1>3, <1>4 DEF ControlJobs, BulkJobs

(* usb_xfer_queue_init.                                                    *)
LEMMA XferInitInv == XferInit => XferIInv
<1> SUFFICES ASSUME XferInit PROVE XferIInv
  OBVIOUS
<1>1. Members(<< >>) = {} /\ IsLinkedOnce(<< >>)
  BY DEF Members, IsLinkedOnce
<1>2. XferTypeOK
  <2>1. /\ completed \in [Tasks -> BOOLEAN] /\ bulk \in [Tasks -> BOOLEAN]
        /\ late \in [Tasks -> BOOLEAN] /\ done \in [Chains -> BOOLEAN] /\ has_work \in BOOLEAN
    BY Zenon DEF XferInit
  <2> QED
    BY <2>1, UsbAssumption DEF XferInit, XferTypeOK
<1>3. ListsSound /\ ChannelsMatchRunning /\ FreeIsEmpty
  BY <1>1 DEF XferInit, ListsSound, ChannelsMatchRunning, FreeIsEmpty
<1>4. WaitOwns /\ HighSpeedReportedWhenDone /\ CompletionIsNotForgotten /\ WorkAhead
  BY <1>1, UsbAssumption
  DEF XferInit, WaitOwns, HighSpeedReportedWhenDone, CompletionIsNotForgotten, WorkAhead
<1> QED
  BY <1>2, <1>3, <1>4 DEF XferIInv

----------------------------------------------------------------------------
(* The tasks.                                                              *)

(* hcd_transfer_control and hcd_transfer_bulk up to their wait.            *)
LEMMA SubmitInv ==
  ASSUME XferIInv, NEW t \in Tasks, NEW c \in Chains, NEW js \in ControlJobs \cup BulkJobs,
         Submit(t, c, js)
  PROVE  XferIInv'
<1> USE DEF XferIInv
<1>0. js \in Seq(Directions)
  BY JobsType
<1>1. c \notin Members(running) /\ c \notin Members(pending)
  BY DEF Submit, ChannelsMatchRunning
<1>2. /\ pending' \in Seq(Chains)
      /\ Members(pending)' = Members(pending) \cup {c}
      /\ IsLinkedOnce(pending)'
  BY <1>1, AppendMembers DEF Submit, XferTypeOK, ListsSound
<1>3. /\ Members(running)' = Members(running) /\ Members(todo)' = Members(todo)
      /\ IsLinkedOnce(running)' /\ IsLinkedOnce(todo)'
  BY DEF Submit, ListsSound, Members, IsLinkedOnce
<1>4. XferTypeOK'
  <2>1. done' \in [Chains -> BOOLEAN]
    BY DEF Submit, XferTypeOK
  <2>2. /\ bulk' \in [Tasks -> BOOLEAN] /\ late' \in [Tasks -> BOOLEAN]
        /\ completed' \in [Tasks -> BOOLEAN]
    BY DEF Submit, XferTypeOK
  <2>3. /\ waits' \in [Tasks -> Chains \cup {NONE}] /\ owner' \in [Chains -> Tasks \cup {NONE}]
        /\ jobs' \in [Chains -> Seq(Directions)]
    BY <1>0 DEF Submit, XferTypeOK
  <2>4. submitted' \in 0..MAX_XFERS /\ has_work' \in BOOLEAN
    BY UsbAssumption DEF Submit, XferTypeOK
  <2> QED
    BY <1>2, <2>1, <2>2, <2>3, <2>4 DEF Submit, XferTypeOK
<1>5. ListsSound'
  BY <1>2, <1>3 DEF Submit, ListsSound
<1>6. ChannelsMatchRunning'
  <2>1. t # NONE
    BY UsbAssumption
  <2> QED
    BY <1>1, <1>2, <1>3, <2>1, ListFacts DEF Submit, ChannelsMatchRunning, XferTypeOK
<1>7. FreeIsEmpty'
  BY UsbAssumption DEF Submit, FreeIsEmpty, XferTypeOK
<1>8. WaitOwns'
  BY UsbAssumption DEF Submit, WaitOwns, XferTypeOK
<1>9. HighSpeedReportedWhenDone'
  <2>1. \A h \in Channels : channel[h] # c
    BY <1>1, UsbAssumption DEF ChannelsMatchRunning
  <2> QED
    BY <2>1, ListFacts DEF Submit, HighSpeedReportedWhenDone, Split, XferTypeOK
<1>10. CompletionIsNotForgotten' /\ WorkAhead'
  BY DEF Submit, CompletionIsNotForgotten, WorkAhead
<1> QED
  BY <1>4, <1>5, <1>6, <1>7, <1>8, <1>9, <1>10

(* Return and Timeout touch only what the task waits for.                  *)
LEMMA WaitEndsInv ==
  ASSUME XferIInv, NEW t \in Tasks, Return(t) \/ Timeout(t)
  PROVE  XferIInv'
<1> USE DEF XferIInv
<1>0. UNCHANGED <<bulk, completed, late, chainVars, queueVars, xfer, has_work, pc, todo, submitted>>
  BY DEF Return, Timeout
<1>1. /\ Members(pending)' = Members(pending) /\ Members(running)' = Members(running)
      /\ Members(todo)' = Members(todo)
      /\ IsLinkedOnce(pending)' /\ IsLinkedOnce(running)' /\ IsLinkedOnce(todo)'
  BY <1>0, ListsKept DEF queueVars, ListsSound
<1>2. XferTypeOK'
  BY <1>0 DEF Return, Timeout, XferTypeOK, chainVars, queueVars
<1>3. ListsSound' /\ ChannelsMatchRunning' /\ FreeIsEmpty'
  BY <1>0, <1>1 DEF ListsSound, ChannelsMatchRunning, FreeIsEmpty, chainVars, queueVars
<1>4. WaitOwns'
  <2> SUFFICES ASSUME NEW c \in Chains, NEW s \in Tasks,
                      owner'[c] = s, waits'[s] # NONE, ~late'[s]
               PROVE  waits'[s] = c /\ ~completed'[s]
    BY DEF WaitOwns
  <2>1. waits' = [waits EXCEPT ![t] = NONE] /\ waits \in [Tasks -> Chains \cup {NONE}]
    BY DEF Return, Timeout, XferTypeOK
  <2>2. waits'[s] = waits[s]
    BY <2>1
  <2>3. owner[c] = s /\ ~late[s] /\ completed' = completed
    BY <1>0 DEF chainVars
  <2> QED
    BY <2>2, <2>3 DEF WaitOwns
<1>5. HighSpeedReportedWhenDone' /\ CompletionIsNotForgotten' /\ WorkAhead'
  BY <1>0, <1>1 DEF HighSpeedReportedWhenDone, CompletionIsNotForgotten, WorkAhead, Split,
     Halted, chainVars, queueVars
<1> QED
  BY <1>2, <1>3, <1>4, <1>5

----------------------------------------------------------------------------
(* The thread.                                                             *)

(* Steps of the thread that only move pc, has_work or the rest of the      *)
(* loop.                                                                   *)
LEMMA ThreadMovesInv ==
  ASSUME XferIInv, TakeWork \/ NothingPending \/ NoChannel \/ SkipJob \/ LoopEnds
  PROVE  XferIInv'
<1> USE DEF XferIInv
<1>0. UNCHANGED <<waits, bulk, completed, late, chainVars, queueVars, xfer, submitted>>
  BY DEF TakeWork, NothingPending, NoChannel, SkipJob, LoopEnds, taskVars
<1>1. /\ Members(pending)' = Members(pending) /\ Members(running)' = Members(running)
      /\ IsLinkedOnce(pending)' /\ IsLinkedOnce(running)'
  BY <1>0 DEF queueVars, ListsSound, Members, IsLinkedOnce
<1>2. ASSUME SkipJob
      PROVE  /\ todo' \in Seq(Chains) /\ IsLinkedOnce(todo)'
             /\ Members(todo) = {Head(todo)} \cup Members(todo)'
  BY <1>2, TailMembers DEF SkipJob, XferTypeOK, ListsSound
<1>3. ASSUME ~SkipJob
      PROVE  todo' = todo \/ todo' = running
  BY <1>3 DEF TakeWork, NothingPending, NoChannel, LoopEnds
<1>4. todo' \in Seq(Chains) /\ IsLinkedOnce(todo)' /\ Members(todo)' \subseteq Members(running)
  <2>1. CASE SkipJob
    BY <1>2, <2>1 DEF ListsSound
  <2>2. CASE ~SkipJob
    <3>1. \/ todo' = todo /\ Members(todo)' = Members(todo) /\ IsLinkedOnce(todo)'
          \/ todo' = running /\ Members(todo)' = Members(running) /\ IsLinkedOnce(todo)'
      BY <1>3, <2>2 DEF ListsSound, Members, IsLinkedOnce
    <3> QED
      BY <3>1 DEF ListsSound, XferTypeOK
  <2> QED
    BY <2>1, <2>2
<1>5. XferTypeOK'
  <2>1. has_work' \in BOOLEAN /\ pc' \in {"wait", "pending", "running", "panic", "fault"}
    BY DEF TakeWork, NothingPending, NoChannel, SkipJob, LoopEnds, XferTypeOK
  <2>2. /\ bulk' \in [Tasks -> BOOLEAN] /\ late' \in [Tasks -> BOOLEAN]
        /\ completed' \in [Tasks -> BOOLEAN] /\ done' \in [Chains -> BOOLEAN]
    BY <1>0, Zenon DEF XferTypeOK, chainVars
  <2> QED
    BY <1>0, <1>4, <2>1, <2>2 DEF XferTypeOK, chainVars, queueVars
<1>6. ListsSound'
  <2>1. pc' \in {"wait", "pending"} => todo' = << >>
    BY DEF TakeWork, NothingPending, NoChannel, SkipJob, LoopEnds, ListsSound
  <2> QED
    BY <1>1, <1>4, <2>1 DEF ListsSound
<1>7. ChannelsMatchRunning' /\ FreeIsEmpty' /\ WaitOwns' /\ HighSpeedReportedWhenDone'
  BY <1>0, <1>1 DEF ChannelsMatchRunning, FreeIsEmpty, WaitOwns,
     HighSpeedReportedWhenDone, Split, chainVars, queueVars
<1>8. CompletionIsNotForgotten'
  <2> SUFFICES ASSUME NEW c \in Members(running), done[c]
               PROVE  \/ has_work' \/ Halted' \/ pc' = "pending"
                      \/ pc' = "running" /\ c \in Members(todo)'
    BY <1>0, <1>1 DEF CompletionIsNotForgotten, chainVars
  <2>0. \/ has_work \/ Halted \/ pc = "pending"
        \/ pc = "running" /\ c \in Members(todo)
    BY DEF CompletionIsNotForgotten
  <2>1. CASE TakeWork
    BY <2>1 DEF TakeWork
  <2>2. CASE NothingPending
    BY <2>2 DEF NothingPending, Members
  <2>3. CASE NoChannel
    BY <2>3 DEF NoChannel, Halted
  <2>4. CASE SkipJob
    BY <1>2, <2>0, <2>4 DEF SkipJob, Halted
  <2>5. CASE LoopEnds
    <3>1. c \notin Members(todo)
      BY <2>5 DEF LoopEnds, Members
    <3> QED
      BY <2>0, <2>5, <3>1 DEF LoopEnds, Halted
  <2> QED
    BY <2>1, <2>2, <2>3, <2>4, <2>5
<1>9. WorkAhead'
  <2> SUFFICES ASSUME pending # << >>, pc' \in {"wait", "running"}, ~has_work'
               PROVE  \E c \in Members(running) : ~done[c]
    BY <1>0, <1>1 DEF WorkAhead, chainVars, queueVars
  <2>1. pc \in {"wait", "running"} /\ ~has_work
    BY DEF TakeWork, NothingPending, NoChannel, SkipJob, LoopEnds
  <2> QED
    BY <2>1 DEF WorkAhead
<1> QED
  BY <1>5, <1>6, <1>7, <1>8, <1>9

(* usb_xfer_process_pending starts the first chain on a free channel.      *)
LEMMA StartPendingInv ==
  ASSUME XferIInv, NEW h \in Channels, StartPending(h)
  PROVE  XferIInv'
<1> USE DEF XferIInv
<1> DEFINE c == Head(pending)
<1>0. /\ c \in Chains /\ pending' \in Seq(Chains)
      /\ Members(pending) = {c} \cup Members(pending)'
      /\ IsLinkedOnce(pending)' /\ c \notin Members(pending)'
  BY TailMembers DEF StartPending, XferTypeOK, ListsSound
<1>1. c \notin Members(running)
  BY <1>0 DEF ChannelsMatchRunning
<1>2. /\ running' \in Seq(Chains) /\ Members(running)' = Members(running) \cup {c}
      /\ IsLinkedOnce(running)'
  BY <1>0, <1>1, AppendMembers DEF StartPending, SetRunning, XferTypeOK, ListsSound
<1>3. /\ todo' = running' /\ pc' = "running" /\ done' = [done EXCEPT ![c] = FALSE]
      /\ channel' = [channel EXCEPT ![h] = c] /\ channel[h] = NONE
      /\ xfer' = [xfer EXCEPT ![h] = "active"]
      /\ UNCHANGED <<waits, bulk, completed, late, owner, jobs, has_work, submitted>>
  BY DEF StartPending, SetRunning, taskVars
<1> HIDE DEF c
<1>4. XferTypeOK'
  <2>1. done' \in [Chains -> BOOLEAN]
    BY <1>0, <1>3 DEF XferTypeOK
  <2>2. /\ bulk' \in [Tasks -> BOOLEAN] /\ late' \in [Tasks -> BOOLEAN]
        /\ completed' \in [Tasks -> BOOLEAN] /\ has_work' \in BOOLEAN
    BY <1>3, Zenon DEF XferTypeOK
  <2>3. /\ channel' \in [Channels -> Chains \cup {NONE}]
        /\ xfer' \in [Channels -> {"idle", "active", "finished", "dead"}]
    BY <1>0, <1>3 DEF XferTypeOK
  <2>4. todo' \in Seq(Chains)
    BY <1>2, <1>3
  <2> QED
    BY <1>0, <1>2, <1>3, <2>1, <2>2, <2>3, <2>4 DEF XferTypeOK
<1>5. ListsSound'
  BY <1>0, <1>2, <1>3 DEF ListsSound, Members, IsLinkedOnce
<1>6. ChannelsMatchRunning'
  <2>1. channel'[h] = c /\ \A k \in Channels : k # h => channel'[k] = channel[k]
    BY <1>3 DEF XferTypeOK
  <2>2. /\ \A k \in Channels : channel'[k] # NONE => channel'[k] \in Members(running)'
        /\ \A d \in Members(running)' : \E k \in Channels : channel'[k] = d
    <3>1. ASSUME NEW k \in Channels, channel'[k] # NONE PROVE channel'[k] \in Members(running)'
      BY <1>2, <2>1, <3>1 DEF ChannelsMatchRunning
    <3>2. ASSUME NEW d \in Members(running)' PROVE \E k \in Channels : channel'[k] = d
      <4>1. CASE d = c
        BY <2>1, <4>1
      <4>2. CASE d # c
        <5>1. PICK k \in Channels : channel[k] = d
          BY <1>2, <4>2 DEF ChannelsMatchRunning
        <5>2. k # h
          BY <1>0, <1>2, <1>3, <4>2, <5>1, UsbAssumption, ListFacts
        <5> QED
          BY <2>1, <5>1, <5>2
      <4> QED
        BY <4>1, <4>2
    <3> QED
      BY <3>1, <3>2
  <2>3. \A k, m \in Channels : (channel'[k] = channel'[m] /\ channel'[k] # NONE) => k = m
    BY <1>1, <2>1 DEF ChannelsMatchRunning
  <2>4. /\ Members(running)' \cap Members(pending)' = {}
        /\ \A d \in Members(running)' \cup Members(pending)' : owner'[d] # NONE
    BY <1>0, <1>1, <1>2, <1>3 DEF ChannelsMatchRunning
  <2> QED
    BY <2>2, <2>3, <2>4 DEF ChannelsMatchRunning
<1>7. FreeIsEmpty' /\ WaitOwns'
  BY <1>3 DEF FreeIsEmpty, WaitOwns
<1>8. HighSpeedReportedWhenDone'
  <2>1. \A k \in Channels : channel[k] # c
    BY <1>0, <1>1, UsbAssumption DEF ChannelsMatchRunning
  <2> QED
    BY <1>0, <1>3, <2>1, ListFacts DEF HighSpeedReportedWhenDone, Split, XferTypeOK
<1>9. CompletionIsNotForgotten'
  BY <1>3 DEF CompletionIsNotForgotten, Members
<1>10. WorkAhead'
  <2>1. c \in Members(running)' /\ ~done'[c]
    BY <1>0, <1>2, <1>3 DEF XferTypeOK
  <2> QED
    BY <2>1 DEF WorkAhead
<1> QED
  BY <1>4, <1>5, <1>6, <1>7, <1>8, <1>9, <1>10

(* A chain that the loop visits has one channel, and the other channels    *)
(* have other chains.                                                      *)
LEMMA VisitedFacts ==
  ASSUME XferIInv, todo # << >>, NEW h \in Channels, channel[h] = Head(todo)
  PROVE  /\ Head(todo) \in Chains /\ Head(todo) \in Members(running)
         /\ Head(todo) \notin Members(pending) /\ Head(todo) # NONE
         /\ owner[Head(todo)] \in Tasks
         /\ \A k \in Channels : channel[k] = Head(todo) => k = h
         /\ Tail(todo) \in Seq(Chains) /\ IsLinkedOnce(Tail(todo))
         /\ Members(todo) = {Head(todo)} \cup Members(Tail(todo))
         /\ Head(todo) \notin Members(Tail(todo))
<1>1. /\ Head(todo) \in Chains /\ Tail(todo) \in Seq(Chains) /\ IsLinkedOnce(Tail(todo))
      /\ Members(todo) = {Head(todo)} \cup Members(Tail(todo))
      /\ Head(todo) \notin Members(Tail(todo))
  BY TailMembers DEF XferIInv, XferTypeOK, ListsSound
<1>2. Head(todo) \in Members(running)
  BY <1>1 DEF XferIInv, ListsSound
<1>3. Head(todo) # NONE /\ owner[Head(todo)] \in Tasks
  BY <1>1, <1>2, UsbAssumption, ListFacts
<1>4. Head(todo) \notin Members(pending) /\ \A k \in Channels : channel[k] = Head(todo) => k = h
  BY <1>2, <1>3 DEF XferIInv, ChannelsMatchRunning
<1> QED
  BY <1>1, <1>2, <1>3, <1>4

(* usb_xfer_process_running starts the next job of a chain.                *)
LEMMA NextJobInv ==
  ASSUME XferIInv, NEW h \in Channels, NextJob(h)
  PROVE  XferIInv'
<1> USE DEF XferIInv
<1> DEFINE c == Head(todo)
<1>0. /\ c \in Chains /\ c \in Members(running) /\ c \notin Members(pending) /\ c # NONE
      /\ \A k \in Channels : channel[k] = c => k = h
      /\ Tail(todo) \in Seq(Chains) /\ IsLinkedOnce(Tail(todo))
      /\ Members(todo) = {c} \cup Members(Tail(todo)) /\ c \notin Members(Tail(todo))
  BY VisitedFacts DEF NextJob
<1>1. /\ Unlink(running, c) \in Seq(Chains) /\ IsLinkedOnce(Unlink(running, c))
      /\ Members(Unlink(running, c)) = Members(running) \ {c}
  BY UnlinkProperties DEF XferTypeOK, ListsSound
<1>r. /\ running' = Append(Unlink(running, c), c)
      /\ todo' = IF Len(todo) = 1 THEN << >> ELSE Append(Tail(todo), c)
      /\ todo # << >> /\ todo \in Seq(Chains)
  BY DEF NextJob, SetRunning, XferTypeOK
<1> HIDE DEF c
<1>2. /\ running' \in Seq(Chains) /\ Members(running)' = Members(running)
      /\ IsLinkedOnce(running)'
  <2>1. /\ Append(Unlink(running, c), c) \in Seq(Chains)
        /\ Members(Append(Unlink(running, c), c)) = Members(Unlink(running, c)) \cup {c}
        /\ IsLinkedOnce(Append(Unlink(running, c), c))
    BY <1>0, <1>1, AppendMembers
  <2>2. (Members(running) \ {c}) \cup {c} = Members(running)
    BY <1>0
  <2> QED
    BY <1>1, <1>r, <2>1, <2>2
<1>3. /\ todo' \in Seq(Chains) /\ IsLinkedOnce(todo)'
      /\ Members(Tail(todo)) \subseteq Members(todo)'
      /\ Members(todo)' \subseteq Members(todo)
  <2>1. CASE Len(todo) = 1
    <3>1. todo' = << >> /\ Len(Tail(todo)) = 0
      BY <1>r, <2>1
    <3>2. Members(Tail(todo)) = {}
      BY <3>1 DEF Members
    <3>3. Members(<< >>) = {} /\ IsLinkedOnce(<< >>) /\ << >> \in Seq(Chains)
      BY DEF Members, IsLinkedOnce
    <3> QED
      BY <3>1, <3>2, <3>3
  <2>2. CASE Len(todo) # 1
    <3>1. todo' = Append(Tail(todo), c)
      BY <1>r, <2>2
    <3>2. /\ Append(Tail(todo), c) \in Seq(Chains) /\ IsLinkedOnce(Append(Tail(todo), c))
          /\ Members(Append(Tail(todo), c)) = Members(Tail(todo)) \cup {c}
      <4> DEFINE rest == Tail(todo)
      <4>1. rest \in Seq(Chains) /\ IsLinkedOnce(rest) /\ c \notin Members(rest)
        BY <1>0
      <4> HIDE DEF rest
      <4>2. /\ Append(rest, c) \in Seq(Chains) /\ IsLinkedOnce(Append(rest, c))
            /\ Members(Append(rest, c)) = Members(rest) \cup {c}
        BY <1>0, <4>1, AppendMembers
      <4> QED
        BY <4>2 DEF rest
    <3> QED
      BY <1>0, <3>1, <3>2
  <2> QED
    BY <2>1, <2>2
<1>4. /\ pc = "running" /\ pc' = "running" /\ done[c] /\ done' = [done EXCEPT ![c] = FALSE]
      /\ channel[h] = c /\ xfer' = [xfer EXCEPT ![h] = "active"]
      /\ Len(jobs[c]) > 1 /\ jobs' = [jobs EXCEPT ![c] = Tail(@)]
      /\ UNCHANGED <<waits, bulk, completed, late, owner, pending, channel, has_work, submitted>>
  BY DEF NextJob, SetRunning, c, taskVars
<1>5. Members(pending)' = Members(pending) /\ IsLinkedOnce(pending)'
  BY <1>4 DEF Members, IsLinkedOnce, ListsSound
<1>6. XferTypeOK'
  <2>1. done' \in [Chains -> BOOLEAN]
    BY <1>0, <1>4 DEF XferTypeOK
  <2>2. /\ bulk' \in [Tasks -> BOOLEAN] /\ late' \in [Tasks -> BOOLEAN]
        /\ completed' \in [Tasks -> BOOLEAN] /\ has_work' \in BOOLEAN
    BY <1>4, Zenon DEF XferTypeOK
  <2>3. Tail(jobs[c]) \in Seq(Directions)
    <3>1. jobs[c] \in Seq(Directions) /\ jobs[c] # << >>
      BY <1>0, <1>4 DEF XferTypeOK
    <3> QED
      BY <3>1
  <2>4. jobs' \in [Chains -> Seq(Directions)]
    BY <1>0, <1>4, <2>3 DEF XferTypeOK
  <2>5. xfer' \in [Channels -> {"idle", "active", "finished", "dead"}]
    BY <1>4 DEF XferTypeOK
  <2> QED
    BY <1>2, <1>3, <1>4, <2>1, <2>2, <2>4, <2>5 DEF XferTypeOK
<1>7. ListsSound'
  BY <1>2, <1>3, <1>4, <1>5 DEF ListsSound
<1>8. ChannelsMatchRunning'
  BY <1>2, <1>4, <1>5 DEF ChannelsMatchRunning
<1>9. FreeIsEmpty' /\ WaitOwns'
  <2>1. owner[c] # NONE
    BY <1>0 DEF ChannelsMatchRunning
  <2> QED
    BY <1>4, <2>1 DEF FreeIsEmpty, WaitOwns, XferTypeOK
<1>10. HighSpeedReportedWhenDone'
  BY <1>0, <1>4, ListFacts DEF HighSpeedReportedWhenDone, Split, XferTypeOK
<1>11. CompletionIsNotForgotten'
  <2> SUFFICES ASSUME NEW d \in Members(running), done'[d], ~has_work
               PROVE  d \in Members(todo)'
    BY <1>2, <1>4 DEF CompletionIsNotForgotten
  <2>1. d \in Chains /\ d # c /\ done[d]
    BY <1>0, <1>4, ListFacts DEF XferTypeOK
  <2>2. d \in Members(todo)
    BY <1>4, <2>1 DEF CompletionIsNotForgotten, Halted
  <2> QED
    BY <1>0, <1>3, <2>1, <2>2
<1>12. WorkAhead'
  <2>1. c \in Members(running)' /\ ~done'[c]
    BY <1>0, <1>2, <1>4 DEF XferTypeOK
  <2> QED
    BY <2>1 DEF WorkAhead
<1> QED
  BY <1>6, <1>7, <1>8, <1>9, <1>10, <1>11, <1>12

(* usb_xfer_process_running retires a chain.                               *)
LEMMA RetireChainInv ==
  ASSUME XferIInv, NEW h \in Channels, RetireChain(h)
  PROVE  XferIInv'
<1> USE DEF XferIInv
<1> DEFINE c == Head(todo)
<1>0. /\ c \in Chains /\ c \in Members(running) /\ c \notin Members(pending) /\ c # NONE
      /\ \A k \in Channels : channel[k] = c => k = h
      /\ owner[c] \in Tasks
      /\ Tail(todo) \in Seq(Chains) /\ IsLinkedOnce(Tail(todo))
      /\ Members(todo) = {c} \cup Members(Tail(todo)) /\ c \notin Members(Tail(todo))
  BY VisitedFacts DEF RetireChain
<1>1. /\ running' \in Seq(Chains) /\ IsLinkedOnce(running)'
      /\ Members(running)' = Members(running) \ {c}
  BY UnlinkProperties DEF RetireChain, XferTypeOK, ListsSound
<1>2. /\ pc = "running" /\ pc' = "running" /\ done[c] /\ channel[h] = c /\ todo' = Tail(todo)
      /\ \/ completed' = [completed EXCEPT ![owner[c]] = TRUE]
         \/ waits[owner[c]] # c /\ completed' = completed
      /\ jobs' = [jobs EXCEPT ![c] = << >>] /\ owner' = [owner EXCEPT ![c] = NONE]
      /\ channel' = [channel EXCEPT ![h] = NONE]
      /\ UNCHANGED <<waits, bulk, late, done, pending, xfer, has_work, submitted>>
  BY DEF RetireChain
<1>3. Members(pending)' = Members(pending) /\ IsLinkedOnce(pending)'
  BY <1>2 DEF Members, IsLinkedOnce, ListsSound
<1>4. Members(todo)' = Members(Tail(todo)) /\ IsLinkedOnce(todo)'
  BY <1>0, <1>2 DEF Members, IsLinkedOnce
<1> HIDE DEF c
<1>6. XferTypeOK'
  <2>1. /\ bulk' \in [Tasks -> BOOLEAN] /\ late' \in [Tasks -> BOOLEAN]
        /\ completed' \in [Tasks -> BOOLEAN]
    BY <1>0, <1>2 DEF XferTypeOK
  <2>2. done' \in [Chains -> BOOLEAN] /\ has_work' \in BOOLEAN
    BY <1>2, Zenon DEF XferTypeOK
  <2>3. jobs' \in [Chains -> Seq(Directions)]
    BY <1>0, <1>2 DEF XferTypeOK
  <2>4. /\ owner' \in [Chains -> Tasks \cup {NONE}]
        /\ channel' \in [Channels -> Chains \cup {NONE}]
    BY <1>0, <1>2 DEF XferTypeOK
  <2> QED
    BY <1>0, <1>1, <1>2, <2>1, <2>2, <2>3, <2>4 DEF XferTypeOK
<1>7. ListsSound'
  BY <1>0, <1>1, <1>2, <1>3, <1>4 DEF ListsSound
<1>8. ChannelsMatchRunning'
  <2>1. /\ \A k \in Channels : k # h => channel'[k] = channel[k] /\ channel[k] # c
        /\ channel'[h] = NONE
    BY <1>0, <1>2 DEF XferTypeOK
  <2>2. \A d \in Chains : d # c => owner'[d] = owner[d]
    BY <1>2 DEF XferTypeOK
  <2>3. \A k \in Channels : channel'[k] # NONE => channel'[k] \in Members(running)'
    BY <1>1, <2>1 DEF ChannelsMatchRunning
  <2>4. \A d \in Members(running)' : \E k \in Channels : channel'[k] = d
    BY <1>1, <1>2, <2>1 DEF ChannelsMatchRunning
  <2>5. \A k, m \in Channels : (channel'[k] = channel'[m] /\ channel'[k] # NONE) => k = m
    BY <2>1 DEF ChannelsMatchRunning
  <2>6. Members(running)' \cap Members(pending)' = {}
    BY <1>1, <1>3 DEF ChannelsMatchRunning
  <2>7. \A d \in Members(running)' \cup Members(pending)' : owner'[d] # NONE
    BY <1>0, <1>1, <1>3, <2>2, ListFacts DEF ChannelsMatchRunning
  <2> QED
    BY <2>3, <2>4, <2>5, <2>6, <2>7 DEF ChannelsMatchRunning
<1>9. FreeIsEmpty'
  BY <1>0, <1>2 DEF FreeIsEmpty, XferTypeOK
<1>10. WaitOwns'
  <2> SUFFICES ASSUME NEW d \in Chains, NEW t \in Tasks, owner'[d] = t,
                      waits[t] # NONE, ~late[t]
               PROVE  waits[t] = d /\ ~completed'[t]
    BY <1>2 DEF WaitOwns
  <2>1. d # c /\ owner[d] = t
    BY <1>0, <1>2, UsbAssumption DEF XferTypeOK
  <2>2. waits[t] = d /\ ~completed[t]
    BY <2>1 DEF WaitOwns
  <2>3. owner[c] # t
    BY <1>0, <2>1, <2>2 DEF WaitOwns
  <2> QED
    BY <1>0, <1>2, <2>2, <2>3 DEF XferTypeOK
<1>11. HighSpeedReportedWhenDone'
  BY <1>0, <1>2, ListFacts DEF HighSpeedReportedWhenDone, Split, XferTypeOK
<1>12. CompletionIsNotForgotten'
  BY <1>0, <1>1, <1>2, <1>4 DEF CompletionIsNotForgotten, Halted
<1>13. WorkAhead'
  BY <1>1, <1>2 DEF WorkAhead
<1> QED
  BY <1>6, <1>7, <1>8, <1>9, <1>10, <1>11, <1>12, <1>13

----------------------------------------------------------------------------
(* The interrupt.  It leaves the lists and the allocation alone.           *)
LEMMA IrqInv ==
  ASSUME XferIInv, NEW h \in Channels, Irq(h)
  PROVE  XferIInv'
<1> USE DEF XferIInv
<1> DEFINE c == channel[h]
           Reports(outcome) == /\ Allocated(h) /\ Report(h, outcome)
                               /\ outcome = "finished" \/ Split(h)
<1>0. /\ UNCHANGED <<waits, bulk, completed, late, owner, jobs, pending, running, channel, todo, submitted>>
      /\ ~Halted /\ xfer[h] = "active"
  BY DEF Irq, IrqComplete, IrqHalted, IrqSplitOut, IrqReleased, Report, Allocated, chainVars,
     queueVars, taskVars
<1>1. /\ Members(pending)' = Members(pending) /\ Members(running)' = Members(running)
      /\ Members(todo)' = Members(todo)
      /\ IsLinkedOnce(pending)' /\ IsLinkedOnce(running)' /\ IsLinkedOnce(todo)'
  BY <1>0, ListsKept DEF ListsSound
<1>2. ChannelsMatchRunning' /\ FreeIsEmpty' /\ WaitOwns'
  BY <1>0, <1>1 DEF ChannelsMatchRunning, FreeIsEmpty, WaitOwns
<1>3. \/ \E outcome \in {"finished", "active", "dead"} : Reports(outcome)
      \/ IrqHalted(h) \/ IrqReleased(h)
  BY DEF Irq, IrqComplete, IrqSplitOut
<1>4. ASSUME NEW outcome \in {"finished", "active", "dead"}, Reports(outcome)
      PROVE  XferIInv'
  <2>1. /\ xfer' = [xfer EXCEPT ![h] = outcome] /\ done' = [done EXCEPT ![c] = TRUE]
        /\ has_work' = TRUE /\ pc' = pc /\ c # NONE
    BY <1>4 DEF Report, Allocated
  <2>2. c \in Chains /\ \A k \in Channels : channel[k] = c => k = h
    BY <2>1, ListFacts DEF ChannelsMatchRunning
  <2>3. XferTypeOK'
    <3>1. /\ bulk' \in [Tasks -> BOOLEAN] /\ late' \in [Tasks -> BOOLEAN]
          /\ completed' \in [Tasks -> BOOLEAN]
      BY <1>0, Zenon DEF XferTypeOK
    <3>2. done' \in [Chains -> BOOLEAN] /\ has_work' \in BOOLEAN
      BY <2>1, <2>2 DEF XferTypeOK
    <3>3. xfer' \in [Channels -> {"idle", "active", "finished", "dead"}]
      BY <2>1 DEF XferTypeOK
    <3> QED
      BY <1>0, <2>1, <3>1, <3>2, <3>3 DEF XferTypeOK
  <2>4. ListsSound'
    BY <1>0, <1>1, <2>1 DEF ListsSound
  <2>5. HighSpeedReportedWhenDone'
    <3> SUFFICES ASSUME NEW k \in Channels, channel[k] # NONE, done'[channel[k]], ~Split(k)
                 PROVE  xfer'[k] = "finished"
      BY <1>0 DEF HighSpeedReportedWhenDone, Split
    <3>1. CASE k = h
      BY <1>4, <2>1, <3>1 DEF XferTypeOK
    <3>2. CASE k # h
      <4>1. channel[k] # c /\ channel[k] \in Chains
        BY <2>2, <3>2, ListFacts
      <4>2. done[channel[k]] /\ xfer'[k] = xfer[k]
        BY <2>1, <3>2, <4>1 DEF XferTypeOK
      <4> QED
        BY <4>2 DEF HighSpeedReportedWhenDone
    <3> QED
      BY <3>1, <3>2
  <2>6. CompletionIsNotForgotten' /\ WorkAhead'
    BY <2>1 DEF CompletionIsNotForgotten, WorkAhead
  <2> QED
    BY <1>2, <2>3, <2>4, <2>5, <2>6
<1>5. CASE IrqHalted(h)
  <2>1. /\ xfer' = [xfer EXCEPT ![h] = "dead"] /\ UNCHANGED <<done, has_work, pc>>
        /\ c # NONE /\ ~Split(h)
    BY <1>5 DEF IrqHalted, Allocated, chainVars
  <2>2. ~done[c]
    BY <1>0, <2>1 DEF HighSpeedReportedWhenDone
  <2>3. XferTypeOK'
    <3>1. /\ bulk' \in [Tasks -> BOOLEAN] /\ late' \in [Tasks -> BOOLEAN]
          /\ completed' \in [Tasks -> BOOLEAN] /\ done' \in [Chains -> BOOLEAN]
          /\ has_work' \in BOOLEAN
      BY <1>0, <2>1, Zenon DEF XferTypeOK
    <3>2. xfer' \in [Channels -> {"idle", "active", "finished", "dead"}]
      BY <2>1 DEF XferTypeOK
    <3> QED
      BY <1>0, <2>1, <3>1, <3>2 DEF XferTypeOK
  <2>4. ListsSound' /\ CompletionIsNotForgotten' /\ WorkAhead'
    BY <1>0, <1>1, <2>1 DEF ListsSound, CompletionIsNotForgotten, WorkAhead, Halted
  <2>5. HighSpeedReportedWhenDone'
    BY <1>0, <2>1, <2>2 DEF HighSpeedReportedWhenDone, Split, XferTypeOK
  <2> QED
    BY <1>2, <2>3, <2>4, <2>5
<1>6. CASE IrqReleased(h)
  <2>1. pc' = "fault" /\ UNCHANGED <<xfer, done, has_work>>
    BY <1>6 DEF IrqReleased, chainVars
  <2>2. XferTypeOK'
    <3>1. /\ bulk' \in [Tasks -> BOOLEAN] /\ late' \in [Tasks -> BOOLEAN]
          /\ completed' \in [Tasks -> BOOLEAN] /\ done' \in [Chains -> BOOLEAN]
          /\ has_work' \in BOOLEAN
      BY <1>0, <2>1, Zenon DEF XferTypeOK
    <3> QED
      BY <1>0, <2>1, <3>1 DEF XferTypeOK
  <2>3. ListsSound' /\ CompletionIsNotForgotten' /\ WorkAhead'
    BY <1>0, <1>1, <2>1 DEF ListsSound, CompletionIsNotForgotten, WorkAhead, Halted
  <2>4. HighSpeedReportedWhenDone'
    BY <1>0, <2>1 DEF HighSpeedReportedWhenDone, Split
  <2> QED
    BY <1>2, <2>2, <2>3, <2>4
<1> QED
  BY <1>3, <1>4, <1>5, <1>6

----------------------------------------------------------------------------
(* Every step keeps the inductive invariant.                               *)
LEMMA XferNextInv == XferIInv /\ [XferNext]_xferVars => XferIInv'
<1> SUFFICES ASSUME XferIInv, [XferNext]_xferVars PROVE XferIInv'
  OBVIOUS
<1>1. CASE UNCHANGED xferVars
  <2>1. /\ Members(pending)' = Members(pending) /\ Members(running)' = Members(running)
        /\ Members(todo)' = Members(todo)
        /\ IsLinkedOnce(pending)' = IsLinkedOnce(pending)
        /\ IsLinkedOnce(running)' = IsLinkedOnce(running)
        /\ IsLinkedOnce(todo)' = IsLinkedOnce(todo)
    BY <1>1, ListsKept DEF xferVars, queueVars
  <2>2. XferTypeOK' /\ FreeIsEmpty' /\ WaitOwns'
    BY <1>1 DEF XferIInv, xferVars, taskVars, chainVars, queueVars, XferTypeOK,
       FreeIsEmpty, WaitOwns
  <2>3. ListsSound' /\ ChannelsMatchRunning'
    BY <1>1, <2>1 DEF XferIInv, xferVars, chainVars, queueVars, ListsSound, ChannelsMatchRunning
  <2>4. HighSpeedReportedWhenDone' /\ CompletionIsNotForgotten' /\ WorkAhead'
    BY <1>1, <2>1 DEF XferIInv, xferVars, chainVars, queueVars, HighSpeedReportedWhenDone,
       CompletionIsNotForgotten, WorkAhead, Split, Halted
  <2> QED
    BY <2>2, <2>3, <2>4 DEF XferIInv
<1>2. CASE XferNext
  <2>1. ASSUME NEW t \in Tasks, Return(t) \/ Timeout(t) PROVE XferIInv'
    BY <2>1, WaitEndsInv
  <2>2. ASSUME NEW t \in Tasks, NEW c \in Chains, NEW js \in ControlJobs \cup BulkJobs,
               Submit(t, c, js)
        PROVE  XferIInv'
    BY <2>2, SubmitInv
  <2>3. CASE Thread
    BY <2>3, ThreadMovesInv, StartPendingInv, NextJobInv, RetireChainInv DEF Thread
  <2>4. ASSUME NEW h \in Channels, Irq(h) PROVE XferIInv'
    BY <2>4, IrqInv
  <2> QED
    BY <1>2, <2>1, <2>2, <2>3, <2>4 DEF XferNext
<1> QED
  BY <1>1, <1>2

(* The inductive invariant is an invariant.                                *)
LEMMA XferAlwaysIInv == XferSpec => []XferIInv
BY XferInitInv, XferNextInv, PTL DEF XferSpec

(* The lists of usb_xfer_queue.c, the channels of dwc2 and the owners of   *)
(* the chains always agree: a started chain holds exactly one channel and  *)
(* no channel is held by a released chain, whatever times out or dies.     *)
THEOREM QueueAlwaysSound == XferSpec => []QueueInv
<1>1. XferIInv => QueueInv
  BY DEF XferIInv, QueueInv
<1> QED
  BY <1>1, XferAlwaysIInv, PTL

(* usb_xfer_queue_run never sleeps on a pending chain that nothing will    *)
(* start nor on a completed job that nothing will retire, although the     *)
(* single waitflag is set for both and cleared once.                       *)
THEOREM NothingEverForgotten == XferSpec => []NothingForgotten
<1>1. XferIInv => NothingForgotten
  BY DEF XferIInv, WorkAhead, NothingForgotten, PendingIsNotForgotten
<1> QED
  BY <1>1, XferAlwaysIInv, PTL

(* A transfer ends by its time limit or with its chain retired, unless a   *)
(* transfer that hcd_transfer_bulk gave up was on its way when it began;   *)
(* and on a high-speed device usb_xfer_process_running moves on only from  *)
(* transfers that the controller finished.                                 *)
THEOREM AlwaysReportedWhenDone == XferSpec => []ReportedWhenDone
<1>1. ASSUME XferIInv PROVE EndsRetired
  <2> SUFFICES ASSUME NEW t \in Tasks, waits[t] # NONE, completed[t], ~late[t]
               PROVE  /\ ~\E c \in Chains : owner[c] = t
                      /\ owner[waits[t]] = NONE => jobs[waits[t]] = << >>
    BY DEF EndsRetired
  <2>1. waits[t] \in Chains
    BY <1>1 DEF XferIInv, XferTypeOK
  <2> QED
    BY <1>1, <2>1 DEF XferIInv, WaitOwns, FreeIsEmpty
<1>2. XferIInv => ReportedWhenDone
  BY <1>1 DEF XferIInv, ReportedWhenDone
<1> QED
  BY <1>2, XferAlwaysIInv, PTL

-----------------------------------------------------------------------------
(* Enumeration.                                                            *)

Kinds == {"none", "hub", "hid", "mass", "other"}
Classes == {"none", "hub", "hid", "mass"}
States == {"ATTACHED", "POWERED", "DEFAULT", "ADDRESSED", "CONFIGURED"}
Steps == {"alloc", "debounce", "reset1", "desc1", "reset2", "address", "desc2", "config",
          "class", "report", "end"}
Frames == [hub : Slots, port : Ports, step : Steps, dev : 0..DEVICE_SLOTS, retries : Nat,
           late : BOOLEAN, err : {"ok", "error", "timeout", "inval"}]
Devices == [state : States, address : Nat, at : Paths \cup {Root}, class : Classes,
            children : Seq(Slots), iface0 : Kinds]

Types ==
  /\ plugged \in [Paths -> Kinds \cup {"?"}] /\ answers \in [Paths -> Int]
  /\ dev \in [Slots -> Devices] /\ free \in Seq(Slots)
  /\ root_hub \in 0..DEVICE_SLOTS /\ next_address \in Nat \ {0}
  /\ calls \in Seq(Frames) /\ failed \subseteq Paths
  /\ status \in {"start", "running", "ready", "off", "fault", "spin"}
  /\ \A i \in 1..Len(calls) : calls[i].retries <= MAX_RESET_RETRIES

(* Whose child a slot is.                                                  *)
Child(h, c) == c \in Members(dev[h].children)

(* The place a call is at.                                                 *)
PlaceOf(i) == Append(dev[calls[i].hub].at, calls[i].port)

(* The root hub is there from the start on; the calls go down from it, hub *)
(* by hub.                                                                 *)
Stack ==
  /\ status = "start" <=> root_hub = 0
  /\ status = "start" => calls = << >> /\ Members(free) = Slots
  /\ status = "running" => calls # << >>
  /\ root_hub # 0 => dev[root_hub].at = Root /\ dev[root_hub].class = "hub"
  /\ calls # << >> => root_hub # 0 /\ calls[1].hub = root_hub
  /\ \A i \in 1..Len(calls) :
       /\ Len(dev[calls[i].hub].at) = i - 1 /\ calls[i].port < PortCount(calls[i].hub)
       /\ dev[calls[i].hub].class = "hub"
       /\ i < Len(calls) => calls[i].step = "class" /\ calls[i + 1].hub = calls[i].dev
       /\ i \in Active => calls[i].dev \in Slots /\ dev[calls[i].dev].at = PlaceOf(i)

(* The devices are a forest, ordered by their places.                      *)
Forest ==
  /\ \A h, c \in Slots : Child(h, c) =>
       /\ \E q \in Ports : q < PortCount(h) /\ dev[c].at = Append(dev[h].at, q)
       /\ dev[h].class = "hub"
  /\ \A g, h, c \in Slots : Child(g, c) /\ Child(h, c) => g = h
  /\ \A h \in Slots : IsLinkedOnce(dev[h].children)
  /\ \A i \in Active, h \in Slots : ~Child(h, calls[i].dev)
  /\ \A h \in Slots : dev[h].class = "hub" /\ h # root_hub =>
       dev[h].at # Root /\ plugged[dev[h].at] = "hub"
  /\ \A p \in Paths : plugged[p] = "hub" => Len(p) < DEPTH

(* A slot is free, or a device of the forest: nothing hangs below a free   *)
(* slot, and every other one is the root hub, is being enumerated or is a  *)
(* child.                                                                  *)
FreeSlots ==
  /\ IsLinkedOnce(free)
  /\ \A s \in Members(free) :
       /\ s # root_hub /\ dev[s].children = << >> /\ dev[s].class = "none"
       /\ \A h \in Slots : ~Child(h, s)
       /\ \A i \in Active : calls[i].dev # s
       /\ \A i \in 1..Len(calls) : calls[i].hub # s
  /\ \A s \in Slots \ Members(free) :
       s = root_hub \/ s \in Enumerating \/ \E h \in Slots : Child(h, s)
  /\ \A s, t \in Slots \ Members(free) : dev[s].at = dev[t].at => s = t

(* How far the ports of a hub are.                                         *)
PortDone(h, q) ==
  LET p == Append(dev[h].at, q)
  IN  p \in failed \/ plugged[p] = "none" \/ \E c \in Slots : Child(h, c) /\ dev[c].at = p

(* The call at hub h has dealt with port q.                                *)
Past(h, q) ==
  \A i \in 1..Len(calls) : calls[i].hub = h =>
    q < calls[i].port \/ (q = calls[i].port /\ calls[i].step = "end")

PortsPast ==
  \A h \in Slots, q \in Ports :
    dev[h].class = "hub" /\ q < PortCount(h) /\ Past(h, q) => PortDone(h, q)

(* The children of a hub are at the ports dealt with, and the device being *)
(* enumerated has none yet.                                                *)
Kids ==
  /\ \A i \in 1..Len(calls), c \in Slots : Child(calls[i].hub, c) =>
       \/ Last(dev[c].at) < calls[i].port
       \/ Last(dev[c].at) = calls[i].port /\ calls[i].step = "end" /\ calls[i].err = "ok"
  /\ calls # << >> /\ Len(calls) \in Active /\ Top.step # "report" =>
       dev[Top.dev].children = << >> /\ dev[Top.dev].class # "hub"

FailureNoted ==
  /\ \A i \in 1..Len(calls) : calls[i].step # "end" => calls[i].err = "ok"
  /\ calls # << >> /\ Top.step = "end" /\ Top.err # "ok" => Path \in failed

(* What a device is taken for.                                             *)
Fits(d) ==
  /\ d.class = "mass" /\ failed = {} => plugged[d.at] = "mass"
  /\ d.class = "hub" <=> plugged[d.at] = "hub"
  /\ d.class = "hid" <=> plugged[d.at] = "hid"

Class ==
  /\ \A h, c \in Slots : Child(h, c) => Fits(dev[c])
  /\ \A i \in Active :
       LET d == dev[calls[i].dev]
           s == calls[i].step
       IN  /\ s = "report" \/ i < Len(calls) => Fits(d)
           /\ s \in {"debounce", "reset1", "desc1", "reset2", "address", "desc2", "config"} =>
                d.class = "none" /\ (failed = {} => d.iface0 = "none")
           /\ s = "class" /\ i = Len(calls) =>
                /\ d.class \in {"none", "hid"} /\ (d.class = "hid" <=> plugged[d.at] = "hid")
                /\ (failed = {} => d.iface0 = plugged[d.at])
           /\ s # "debounce" => plugged[d.at] \in Kinds \ {"none"}
  /\ failed = {} => \A s \in Members(free) : dev[s].iface0 = "none"
  /\ status = "ready" => calls = << >>

(* Where the devices answer.                                               *)
Addresses ==
  /\ \A i \in Active :
       LET d == dev[calls[i].dev]
           s == calls[i].step
       IN  /\ s \in {"debounce", "reset1", "desc1", "reset2", "address"} => d.address = 0
           /\ s \in {"desc2", "config", "class", "report"} => d.address > 0
           /\ s \in {"desc1", "address", "desc2", "config", "class", "report"} =>
                answers[d.at] = d.address
  /\ failed = {} =>
       /\ \A p, q \in Paths : answers[p] = answers[q] /\ answers[p] # -1 => p = q
       /\ \A p \in Paths : answers[p] < next_address
       /\ \A p \in Paths : answers[p] = 0 =>
            /\ calls # << >> /\ Path = p
            /\ Top.step \in {"reset1", "desc1", "reset2", "address"}

(* A device found in the wrong state.                                      *)
Lateness ==
  /\ \A i \in Active :
       /\ calls[i].step \in {"reset1", "desc1"} /\ ~calls[i].late =>
            dev[calls[i].dev].state = "POWERED"
  /\ AssertionFailsOnlyLate

(* The tree, the slots and the calls; how far the ports of the hubs are;   *)
(* what is known of the devices.                                           *)
Structure == Types /\ Stack /\ Forest /\ FreeSlots
Progress == Kids /\ PortsPast /\ FailureNoted
Contents == Class /\ Addresses /\ Lateness

IInv == Structure /\ Progress /\ Contents

USE UsbTreeAssumption

----------------------------------------------------------------------------
(* What follows of FlattenSeq, whatever G says of the sequences put        *)
(* together so far and of their number.                                    *)
LEMMA Flattens ==
  ASSUME NEW T, NEW seqs \in Seq(T), Len(seqs) >= 1, NEW G, <<seqs[1], 1>> \in G,
         \A r : \A i \in 2..Len(seqs) : <<r, i - 1>> \in G => <<r \o seqs[i], i>> \in G
  PROVE  <<FlattenSeq(seqs), Len(seqs)>> \in G
<1> DEFINE N == Len(seqs)
           Step(g, i) == IF i = 1 THEN seqs[i] ELSE g[i - 1] \o seqs[i]
           K(n, g) == g = [i \in 1..n |-> Step(g, i)]
           Q == {n \in 0..N : \E g : K(n, g)}
<1>0. N \in Nat /\ N # 0 /\ N \in 1..N
  OBVIOUS
<1>1. 0 \in Q
  <2> DEFINE g == [i \in 1..0 |-> seqs[1]]
  <2>1. K(0, g)
    OBVIOUS
  <2> HIDE DEF K, N
  <2> QED BY <1>0, <2>1
<1>2. \A n \in 1..N : n - 1 \in Q => n \in Q
  <2> SUFFICES ASSUME NEW n \in 1..N, n - 1 \in Q PROVE n \in Q
    OBVIOUS
  <2>1. PICK g : K(n - 1, g)
    OBVIOUS
  <2> DEFINE h == [i \in 1..n |-> IF i < n THEN g[i] ELSE Step(g, n)]
  <2>2. n \in Nat /\ n # 0 /\ n \in 0..N
    OBVIOUS
  <2>3. \A i \in 1..(n - 1) : h[i] = g[i]
    BY <2>2
  <2>4. h[n] = Step(h, n)
    BY <2>2, <2>3
  <2>5. ASSUME NEW i \in 1..(n - 1) PROVE h[i] = Step(h, i)
    <3>1. g[i] = Step(g, i)
      BY <2>1
    <3>2. i = 1 \/ i - 1 \in 1..(n - 1)
      BY <2>2
    <3> HIDE DEF h
    <3> QED BY <2>3, <3>1, <3>2
  <2>6. \A i \in 1..n : h[i] = Step(h, i)
    <3> HIDE DEF h, Step
    <3> QED BY <2>2, <2>4, <2>5
  <2>7. h = [i \in 1..n |-> h[i]]
    OBVIOUS
  <2> HIDE DEF h, Step
  <2>8. K(n, h)
    BY <2>6, <2>7
  <2> HIDE DEF K, N
  <2> QED BY <2>2, <2>8
<1>3. N \in Q
  <2> HIDE DEF Q, N
  <2>1. 0..N \subseteq Q
    BY <1>0, <1>1, <1>2, SetInduction
  <2>2. N \in 0..N
    BY <1>0
  <2> QED BY <2>1, <2>2
<1> DEFINE all == CHOOSE g : K(N, g)
<1>4. K(N, all)
  <2> HIDE DEF K, N
  <2> QED BY <1>3
<1>5. FlattenSeq(seqs) = all[N]
  BY <1>0 DEF FlattenSeq
<1>6. \A i \in 1..N : all[i] = Step(all, i)
  BY <1>4
<1> HIDE DEF all, K, Q
<1> DEFINE S == {0} \cup {i \in 1..N : <<all[i], i>> \in G}
<1>7. ASSUME NEW i \in 1..N, i - 1 \in S PROVE i \in S
  <2>1. CASE i = 1
    BY <1>6, <2>1
  <2>2. CASE i # 1
    <3>1. i \in 2..N /\ i - 1 # 0
      BY <1>0, <2>2
    <3>2. <<all[i - 1], i - 1>> \in G
      BY <1>7, <3>1
    <3>3. all[i] = all[i - 1] \o seqs[i]
      BY <1>6, <2>2
    <3>4. <<all[i - 1] \o seqs[i], i>> \in G
      BY <3>1, <3>2
    <3> QED BY <3>3, <3>4
  <2> QED BY <2>1, <2>2
<1> HIDE DEF S, Step
<1>8. 0..N \subseteq S
  <2>1. 0 \in S
    BY DEF S
  <2> HIDE DEF N
  <2> QED BY <1>0, <1>7, <2>1, SetInduction
<1> QED BY <1>0, <1>5, <1>8 DEF S

(* The members of the sequences, each once if each is in one of them only. *)
LEMMA FlattenFacts ==
  ASSUME NEW T, NEW seqs \in Seq(Seq(T))
  PROVE  /\ FlattenSeq(seqs) \in Seq(T)
         /\ \A x : x \in Members(FlattenSeq(seqs)) <=> \E i \in 1..Len(seqs) : x \in Members(seqs[i])
         /\ (/\ \A i \in 1..Len(seqs) : IsLinkedOnce(seqs[i])
             /\ \A i, j \in 1..Len(seqs) : i # j => Members(seqs[i]) \cap Members(seqs[j]) = {})
              => IsLinkedOnce(FlattenSeq(seqs))
<1> DEFINE Apart == /\ \A i \in 1..Len(seqs) : IsLinkedOnce(seqs[i])
                    /\ \A i, j \in 1..Len(seqs) : i # j => Members(seqs[i]) \cap Members(seqs[j]) = {}
<1>1. Len(seqs) \in Nat /\ \A i \in 1..Len(seqs) : seqs[i] \in Seq(T)
  BY ElementOfSeq
<1>2. CASE Len(seqs) = 0
  <2>1. seqs = << >> /\ FlattenSeq(seqs) = << >>
    BY <1>2 DEF FlattenSeq
  <2>2. \A x : x \notin Members(<< >>)
    BY DEF Members
  <2>3. IsLinkedOnce(<< >>) /\ << >> \in Seq(T)
    BY DEF IsLinkedOnce
  <2>4. \A x : ~ \E i \in 1..Len(seqs) : x \in Members(seqs[i])
    BY <1>2
  <2> QED BY <2>1, <2>2, <2>3, <2>4
<1>3. CASE Len(seqs) >= 1
  <2> DEFINE G == {x \in Seq(T) \X (1..Len(seqs)) :
                     /\ \A e : e \in Members(x[1]) <=> \E i \in 1..x[2] : e \in Members(seqs[i])
                     /\ Apart => IsLinkedOnce(x[1])}
  <2>1. <<seqs[1], 1>> \in G
    <3>1. 1 \in 1..Len(seqs) /\ \A i \in 1..1 : i = 1
      BY <1>1, <1>3
    <3> QED BY <1>1, <3>1
  <2>2. ASSUME NEW r, NEW i \in 2..Len(seqs), <<r, i - 1>> \in G PROVE <<r \o seqs[i], i>> \in G
    <3>1. /\ r \in Seq(T)
          /\ \A e : e \in Members(r) <=> \E j \in 1..(i - 1) : e \in Members(seqs[j])
          /\ Apart => IsLinkedOnce(r)
      BY <2>2
    <3>2. i \in 1..Len(seqs) /\ i \in Nat /\ seqs[i] \in Seq(T)
      BY <1>1
    <3>3. /\ r \o seqs[i] \in Seq(T)
          /\ Members(r \o seqs[i]) = Members(r) \cup Members(seqs[i])
          /\ IsLinkedOnce(r) /\ IsLinkedOnce(seqs[i]) /\ Members(r) \cap Members(seqs[i]) = {}
               => IsLinkedOnce(r \o seqs[i])
      BY <3>1, <3>2, ConcatMembers
    <3>4. \A e : e \in Members(r \o seqs[i]) <=> \E j \in 1..i : e \in Members(seqs[j])
      <4>1. \A j \in 1..i : j \in 1..(i - 1) \/ j = i
        BY <3>2
      <4>2. \A j \in 1..(i - 1) : j \in 1..i
        BY <3>2
      <4>3. i \in 1..i
        BY <3>2
      <4> QED BY <3>1, <3>3, <4>1, <4>2, <4>3
    <3>5. ASSUME Apart PROVE IsLinkedOnce(r \o seqs[i])
      <4>1. \A j \in 1..(i - 1) : j \in 1..Len(seqs) /\ j # i
        BY <3>2
      <4>2. Members(r) \cap Members(seqs[i]) = {}
        BY <3>1, <3>2, <3>5, <4>1
      <4> QED BY <3>1, <3>2, <3>3, <3>5, <4>2
    <3> HIDE DEF Apart
    <3> QED BY <3>2, <3>3, <3>4, <3>5
  <2> HIDE DEF G
  <2>3. <<FlattenSeq(seqs), Len(seqs)>> \in G
    BY <1>3, <2>1, <2>2, Flattens
  <2> QED BY <2>3 DEF G
<1>4. Len(seqs) = 0 \/ Len(seqs) >= 1
  BY <1>1
<1> QED BY <1>2, <1>3, <1>4

(* The order in which usb_hcd_deallocate_device releases, one level more.  *)
LevelOf(r) ==
  [s \in Slots |-> FlattenSeq([i \in 1..Len(dev[s].children) |-> r[dev[s].children[i]]]) \o <<s>>]

(* What follows of it, whatever G says of the order and of the levels.     *)
LEMMA Orders ==
  ASSUME NEW G, <<[s \in Slots |-> << >>], 0>> \in G,
         \A r : \A n \in 1..(DEPTH + 1) : <<r, n - 1>> \in G => <<LevelOf(r), n>> \in G
  PROVE  \E r : <<r, DEPTH + 1>> \in G /\ \A s : Released(s) = r[s]
<1> DEFINE N == DEPTH + 1
           Lev(g, n) == [s \in Slots |-> IF n = 0 THEN << >>
             ELSE FlattenSeq([i \in 1..Len(dev[s].children) |-> g[n - 1][dev[s].children[i]]])
                  \o <<s>>]
           K(n, g) == g = [i \in 0..n |-> Lev(g, i)]
           Q == {n \in 0..N : \E g : K(n, g)}
<1>0. N \in Nat
  OBVIOUS
<1>1. 0 \in Q
  <2> DEFINE g == [i \in 0..0 |-> [s \in Slots |-> << >>]]
  <2>1. K(0, g)
    <3>1. \A i \in 0..0 : i = 0
      OBVIOUS
    <3>2. Lev(g, 0) = [s \in Slots |-> << >>]
      OBVIOUS
    <3> HIDE DEF Lev
    <3> QED BY <3>1, <3>2
  <2> HIDE DEF K
  <2> QED BY <1>0, <2>1
<1>2. \A n \in 1..N : n - 1 \in Q => n \in Q
  <2> SUFFICES ASSUME NEW n \in 1..N, n - 1 \in Q PROVE n \in Q
    OBVIOUS
  <2>1. PICK g : K(n - 1, g)
    OBVIOUS
  <2> DEFINE h == [i \in 0..n |-> IF i < n THEN g[i] ELSE Lev(g, n)]
  <2>2. n \in Nat /\ n # 0 /\ n \in 0..N
    OBVIOUS
  <2>3. \A i \in 0..(n - 1) : h[i] = g[i]
    <3> HIDE DEF Lev
    <3> QED BY <2>2
  <2>4. h[n] = Lev(g, n)
    <3> HIDE DEF Lev
    <3> QED BY <2>2
  <2> HIDE DEF h
  <2>5. ASSUME NEW i \in 0..n PROVE Lev(h, i) = Lev(g, i)
    <3>1. i = 0 \/ h[i - 1] = g[i - 1]
      BY <2>2, <2>3
    <3> QED BY <3>1
  <2>6. \A i \in 0..n : h[i] = Lev(h, i)
    <3>1. \A i \in 0..(n - 1) : g[i] = Lev(g, i) /\ i \in 0..n
      <4> TAKE i \in 0..(n - 1)
      <4>1. g = [j \in 0..(n - 1) |-> Lev(g, j)]
        BY <2>1
      <4>2. i \in 0..n
        BY <2>2
      <4> HIDE DEF Lev, K, Q
      <4>3. g[i] = Lev(g, i)
        BY <4>1
      <4> QED BY <4>2, <4>3
    <3> HIDE DEF Lev
    <3> QED BY <2>2, <2>3, <2>4, <2>5, <3>1
  <2>7. h = [i \in 0..n |-> h[i]]
    BY DEF h
  <2> HIDE DEF Lev
  <2>8. K(n, h)
    BY <2>6, <2>7
  <2> HIDE DEF K
  <2> QED BY <2>2, <2>8
<1>3. N \in Q
  <2> HIDE DEF Q
  <2> QED BY <1>0, <1>1, <1>2, SetInduction
<1> DEFINE order == CHOOSE g : K(N, g)
<1>4. K(N, order)
  <2> HIDE DEF K
  <2> QED BY <1>3
<1>5. \A s : Released(s) = order[N][s]
  BY DEF Released
<1>6. \A i \in 0..N : order[i] = Lev(order, i)
  <2> HIDE DEF Lev
  <2> QED BY <1>4
<1> HIDE DEF order, K, Q
<1>7. order[0] = [s \in Slots |-> << >>]
  <2>1. Lev(order, 0) = [s \in Slots |-> << >>]
    OBVIOUS
  <2> HIDE DEF Lev
  <2> QED BY <1>0, <1>6, <2>1
<1>8. \A i \in 1..N : order[i] = LevelOf(order[i - 1])
  <2> TAKE i \in 1..N
  <2>1. i \in 0..N /\ i # 0
    OBVIOUS
  <2>2. Lev(order, i) = LevelOf(order[i - 1])
    BY <2>1 DEF LevelOf
  <2> HIDE DEF Lev
  <2> QED BY <1>6, <2>1, <2>2
<1> HIDE DEF Lev
<1> DEFINE S == {i \in 0..N : <<order[i], i>> \in G}
<1>9. 0 \in S
  BY <1>0, <1>7
<1>10. ASSUME NEW i \in 1..N, i - 1 \in S PROVE i \in S
  BY <1>8, <1>10
<1> HIDE DEF S
<1>11. N \in S
  BY <1>0, <1>9, <1>10, SetInduction
<1> QED BY <1>5, <1>11 DEF S

----------------------------------------------------------------------------
(* Places.                                                                 *)

(* A place on the bus.                                                     *)
LEMMA PathFacts ==
  ASSUME NEW p \in Paths
  PROVE  p \in Seq(Ports) /\ Len(p) \in 1..DEPTH /\ p[1] = 0 /\ p # Root
<1>a. PICK n \in 0..(DEPTH - 1) : \E r \in [1..n -> Ports] : p = <<0>> \o r
  BY DEF Paths
<1>1. PICK r \in [1..n -> Ports] : p = <<0>> \o r
  BY <1>a
<1>2. r \in Seq(Ports) /\ Len(r) = n
  <2>1. r \in Seq(Ports)
    BY SeqDef
  <2>2. Len(r) \in Nat /\ DOMAIN r = 1..Len(r) /\ DOMAIN r = 1..n
    BY <2>1, LenProperties
  <2> QED BY <2>1, <2>2
<1>3. <<0>> \in Seq(Ports)
  BY DEF Ports
<1>4. p \in Seq(Ports) /\ Len(p) = 1 + n /\ p[1] = 0
  BY <1>1, <1>2, <1>3
<1> QED BY <1>4 DEF Root

(* One port further.                                                       *)
LEMMA PathNext ==
  ASSUME NEW p \in Paths \cup {Root}, NEW q \in Ports, Len(p) < DEPTH, p = Root => q = 0
  PROVE  Append(p, q) \in Paths
<1>1. CASE p = Root
  <2>1. Append(p, q) = <<0>> \o << >>
    BY <1>1 DEF Root
  <2>2. << >> \in [1..0 -> Ports] /\ 0 \in 0..(DEPTH - 1)
    BY IsASeq
  <2> QED BY <2>1, <2>2 DEF Paths
<1>2. CASE p \in Paths
  <2>a. PICK n \in 0..(DEPTH - 1) : \E r \in [1..n -> Ports] : p = <<0>> \o r
    BY <1>2 DEF Paths
  <2>1. PICK r \in [1..n -> Ports] : p = <<0>> \o r
    BY <2>a
  <2>2. r \in Seq(Ports) /\ Len(r) = n
    <3>1. r \in Seq(Ports)
      BY SeqDef
    <3>2. Len(r) \in Nat /\ DOMAIN r = 1..Len(r) /\ DOMAIN r = 1..n
      BY <3>1, LenProperties
    <3> QED BY <3>1, <3>2
  <2>3. <<0>> \in Seq(Ports)
    BY DEF Ports
  <2>4. Len(p) = 1 + n
    BY <2>1, <2>2, <2>3
  <2>5. n + 1 \in 0..(DEPTH - 1)
    BY <2>4
  <2>6. Append(r, q) \in Seq(Ports) /\ Len(Append(r, q)) = n + 1
    BY <2>2
  <2>7. Append(r, q) \in [1..(n + 1) -> Ports]
    BY <2>6, LenProperties
  <2>8. Append(p, q) = <<0>> \o Append(r, q)
    BY <2>1, <2>2, <2>3, <2>6
  <2> QED BY <2>5, <2>7, <2>8 DEF Paths
<1> QED BY <1>1, <1>2

(* A place tells the hub and the port.                                     *)
LEMMA PlaceParts ==
  ASSUME NEW p \in Paths \cup {Root}, NEW q \in Ports
  PROVE  /\ p \in Seq(Ports) /\ Len(p) \in Nat
         /\ Append(p, q) \in Seq(Ports) /\ Len(Append(p, q)) = Len(p) + 1
         /\ Last(Append(p, q)) = q /\ Front(Append(p, q)) = p /\ Append(p, q) # Root
         /\ \A i \in 1..Len(p) : Append(p, q)[i] = p[i]
<1>1. p \in Seq(Ports)
  <2>1. << >> \in Seq(Ports)
    OBVIOUS
  <2> QED BY <2>1, PathFacts DEF Root
<1>2. /\ Append(p, q) \in Seq(Ports) /\ Len(Append(p, q)) = Len(p) + 1 /\ Len(p) \in Nat
      /\ \A i \in 1..Len(p) : Append(p, q)[i] = p[i]
      /\ Append(p, q)[Len(p) + 1] = q
  BY <1>1
<1>3. Last(Append(p, q)) = q
  BY <1>2 DEF Last
<1>4. Append(p, q) # Root
  BY <1>2 DEF Root
<1>5. Front(Append(p, q)) = p
  <2> DEFINE f == SubSeq(Append(p, q), 1, Len(p))
  <2>1. \A i \in 1..Len(p) : Append(p, q)[i] \in Ports
    BY <1>2
  <2>2. f \in Seq(Ports) /\ Len(f) = Len(p) /\ \A i \in 1..Len(p) : f[i] = Append(p, q)[i]
    BY <1>2, <2>1, SubSeqProperties
  <2> HIDE DEF f
  <2>3. f = p
    BY <1>1, <1>2, <2>2, SeqEqual
  <2>4. Len(Append(p, q)) - 1 = Len(p)
    BY <1>2
  <2> QED BY <2>3, <2>4 DEF Front, f
<1> QED BY <1>1, <1>2, <1>3, <1>4, <1>5

(* Two places that are the same are at the same hub and port.              *)
LEMMA SamePlace ==
  ASSUME NEW p \in Paths \cup {Root}, NEW q \in Ports, NEW r \in Paths \cup {Root}, NEW t \in Ports,
         Append(p, q) = Append(r, t)
  PROVE  p = r /\ q = t
BY PlaceParts

----------------------------------------------------------------------------
(* The slots usb_hcd_deallocate_device releases.                           *)

(* The types of a slot's device.                                           *)
LEMMA DeviceTypes ==
  ASSUME Types, NEW s \in Slots
  PROVE  /\ dev[s] \in Devices /\ dev[s].at \in Paths \cup {Root} /\ dev[s].children \in Seq(Slots)
         /\ dev[s].at \in Seq(Ports) /\ Len(dev[s].at) \in 0..DEPTH
         /\ Members(dev[s].children) \subseteq Slots
<1>1. dev[s] \in Devices /\ dev[s].at \in Paths \cup {Root} /\ dev[s].children \in Seq(Slots)
  BY DEF Types, Devices
<1>2. << >> \in Seq(Ports) /\ Len(<< >>) = 0 /\ 0 \in 0..DEPTH /\ 1..DEPTH \subseteq 0..DEPTH
  OBVIOUS
<1>3. dev[s].at \in Seq(Ports) /\ Len(dev[s].at) \in 0..DEPTH
  BY <1>1, <1>2, PathFacts DEF Root
<1>4. Members(dev[s].children) \subseteq Slots
  BY <1>1, MembersType
<1> QED BY <1>1, <1>3, <1>4

(* The place of t is below that of s.                                      *)
Under(s, t) ==
  /\ Len(dev[s].at) <= Len(dev[t].at)
  /\ \A i \in 1..Len(dev[s].at) : dev[t].at[i] = dev[s].at[i]

(* A child is below its hub, and not free.                                 *)
LEMMA ChildFacts ==
  ASSUME Types, Forest, FreeSlots, NEW h \in Slots, NEW c \in Slots, Child(h, c)
  PROVE  /\ Len(dev[c].at) = Len(dev[h].at) + 1 /\ Under(h, c)
         /\ c \notin Members(free) /\ h \notin Members(free)
<1>1. PICK q \in Ports : dev[c].at = Append(dev[h].at, q)
  BY DEF Forest
<1>2. dev[h].at \in Paths \cup {Root}
  BY DeviceTypes
<1>3. /\ Len(dev[h].at) \in Nat /\ Len(dev[c].at) = Len(dev[h].at) + 1
      /\ \A i \in 1..Len(dev[h].at) : dev[c].at[i] = dev[h].at[i]
  BY <1>1, <1>2, PlaceParts
<1>4. Under(h, c)
  BY <1>3 DEF Under
<1>5. c \notin Members(free)
  BY DEF FreeSlots
<1>6. h \notin Members(free)
  <2>1. dev[h].children # << >>
    BY DEF Child, Members
  <2> QED BY <2>1 DEF FreeSlots
<1> QED BY <1>3, <1>4, <1>5, <1>6

(* What is released with s: everything below it, each slot once.           *)
Releases(s, r, n) ==
  /\ r \in Seq(Slots) /\ IsLinkedOnce(r)
  /\ n >= 1 => s \in Members(r)
  /\ \A t \in Members(r) : Under(s, t) /\ (t = s \/ \E h \in Members(r) : Child(h, t))
  /\ Len(dev[s].at) + n >= DEPTH + 1 =>
       \A t \in Members(r), c \in Slots : Child(t, c) => c \in Members(r)

(* One level more.                                                         *)
LEMMA ReleasesMore ==
  ASSUME Types, Forest, FreeSlots, NEW n \in 1..(DEPTH + 1), NEW r,
         \A s \in Slots : Releases(s, r[s], n - 1)
  PROVE  \A s \in Slots : Releases(s, LevelOf(r)[s], n)
<1> SUFFICES ASSUME NEW s \in Slots PROVE Releases(s, LevelOf(r)[s], n)
  OBVIOUS
<1> DEFINE ch == dev[s].children
           seqs == [i \in 1..Len(ch) |-> r[ch[i]]]
           f == FlattenSeq(seqs)
           u == <<s>>
           m == f \o u
<1>1. LevelOf(r)[s] = m
  BY DEF LevelOf
<1>2. /\ ch \in Seq(Slots) /\ Len(ch) \in Nat /\ IsLinkedOnce(ch)
      /\ \A i \in 1..Len(ch) : ch[i] \in Slots /\ Child(s, ch[i])
  BY DeviceTypes DEF Forest, Child, Members
<1>3. \A c \in Slots : Child(s, c) => \E i \in 1..Len(ch) : c = ch[i]
  BY DEF Child, Members
<1> HIDE DEF ch
<1>4. \A i \in 1..Len(ch) : Releases(ch[i], r[ch[i]], n - 1)
  BY <1>2
<1>5. seqs \in Seq(Seq(Slots)) /\ Len(seqs) = Len(ch) /\ \A i \in 1..Len(ch) : seqs[i] = r[ch[i]]
  <2>1. \A i \in 1..Len(ch) : r[ch[i]] \in Seq(Slots)
    BY <1>4 DEF Releases
  <2>2. seqs \in Seq(Seq(Slots)) /\ Len(seqs) = Len(ch)
    BY <1>2, <2>1, IsASeq
  <2> QED BY <2>2
<1> HIDE DEF seqs
<1>6. /\ \A i \in 1..Len(ch) : /\ dev[ch[i]].at \in Seq(Ports) /\ dev[s].at \in Seq(Ports)
                               /\ Len(dev[ch[i]].at) = Len(dev[s].at) + 1
                               /\ Under(s, ch[i]) /\ ch[i] \notin Members(free)
      /\ Len(dev[s].at) \in Nat
  BY <1>2, ChildFacts, DeviceTypes
<1>7. ASSUME NEW i \in 1..Len(ch), NEW j \in 1..Len(ch), i # j
      PROVE  Members(seqs[i]) \cap Members(seqs[j]) = {}
  <2> SUFFICES ASSUME NEW t, t \in Members(r[ch[i]]), t \in Members(r[ch[j]]) PROVE FALSE
    BY <1>5
  <2>1. Under(ch[i], t) /\ Under(ch[j], t)
    BY <1>4 DEF Releases
  <2>2. Len(dev[ch[i]].at) = Len(dev[ch[j]].at)
    BY <1>6
  <2>3. \A k \in 1..Len(dev[ch[i]].at) : dev[ch[i]].at[k] = dev[ch[j]].at[k]
    BY <2>1, <2>2 DEF Under
  <2>4. dev[ch[i]].at = dev[ch[j]].at
    BY <1>6, <2>2, <2>3, SeqEqual
  <2>5. ch[i] = ch[j]
    BY <1>2, <1>6, <2>4 DEF FreeSlots
  <2> QED BY <1>2, <1>7, <2>5 DEF IsLinkedOnce
<1>8. \A i \in 1..Len(ch) : IsLinkedOnce(seqs[i])
  BY <1>4, <1>5 DEF Releases
<1>9. /\ f \in Seq(Slots) /\ IsLinkedOnce(f)
      /\ \A x : x \in Members(f) <=> \E i \in 1..Len(ch) : x \in Members(r[ch[i]])
  BY <1>5, <1>7, <1>8, FlattenFacts
<1> HIDE DEF f
<1>10. \A t \in Members(f) : t \in Slots
  BY <1>9, MembersType
<1>11. ASSUME NEW t \in Members(f)
       PROVE  /\ Under(s, t) /\ Len(dev[t].at) > Len(dev[s].at)
              /\ \E h \in Members(f) \cup {s} : Child(h, t)
  <2>1. PICK i \in 1..Len(ch) : t \in Members(r[ch[i]])
    BY <1>9
  <2>2. Under(ch[i], t) /\ (t = ch[i] \/ \E h \in Members(r[ch[i]]) : Child(h, t))
    BY <1>4, <2>1 DEF Releases
  <2>3. dev[t].at \in Seq(Ports) /\ Len(dev[t].at) \in Nat
    BY <1>10, DeviceTypes
  <2>4. Len(dev[t].at) > Len(dev[s].at)
    <3>1. Len(dev[ch[i]].at) <= Len(dev[t].at)
      BY <2>2 DEF Under
    <3>2. Len(dev[ch[i]].at) = Len(dev[s].at) + 1 /\ Len(dev[s].at) \in Nat
      BY <1>6
    <3> QED BY <2>3, <3>1, <3>2
  <2>5. Under(s, t)
    <3>1. \A k \in 1..Len(dev[s].at) : k \in 1..Len(dev[ch[i]].at)
      BY <1>6
    <3>2. \A k \in 1..Len(dev[s].at) : dev[t].at[k] = dev[s].at[k]
      BY <1>6, <2>2, <3>1 DEF Under
    <3> QED BY <1>6, <2>3, <2>4, <3>2 DEF Under
  <2>6. \E h \in Members(f) \cup {s} : Child(h, t)
    BY <1>2, <1>9, <2>2
  <2> QED BY <2>4, <2>5, <2>6
<1>12. u \in Seq(Slots) /\ Members(u) = {s} /\ IsLinkedOnce(u)
  BY DEF Members, IsLinkedOnce
<1> HIDE DEF u
<1>13. /\ m \in Seq(Slots) /\ Members(m) = Members(f) \cup {s} /\ IsLinkedOnce(m)
  <2>1. s \notin Members(f)
    BY <1>6, <1>11
  <2>2. Members(f) \cap Members(u) = {}
    BY <1>12, <2>1
  <2>3. /\ m \in Seq(Slots) /\ Members(m) = Members(f) \cup Members(u)
        /\ IsLinkedOnce(f) /\ IsLinkedOnce(u) /\ Members(f) \cap Members(u) = {}
             => IsLinkedOnce(m)
    BY <1>9, <1>12, ConcatMembers
  <2> HIDE DEF m
  <2> QED BY <1>9, <1>12, <2>2, <2>3
<1> HIDE DEF m
<1>14. \A t \in Members(m) : Under(s, t) /\ (t = s \/ \E h \in Members(m) : Child(h, t))
  <2>1. Under(s, s)
    BY <1>6 DEF Under
  <2> QED BY <1>11, <1>13, <2>1
<1>15. ASSUME Len(dev[s].at) + n >= DEPTH + 1, NEW t \in Members(m), NEW c \in Slots, Child(t, c)
       PROVE  c \in Members(m)
  <2>1. CASE t = s
    <3>1. PICK i \in 1..Len(ch) : c = ch[i]
      BY <1>3, <1>15, <2>1
    <3>2. Len(dev[c].at) \in 0..DEPTH /\ Len(dev[c].at) = Len(dev[s].at) + 1
      BY <1>6, <3>1, DeviceTypes
    <3>3. n - 1 >= 1
      BY <1>15, <3>2
    <3>4. c \in Members(r[c])
      BY <1>4, <3>1, <3>3 DEF Releases
    <3> QED BY <1>9, <1>13, <3>1, <3>4
  <2>2. CASE t \in Members(f)
    <3>1. PICK i \in 1..Len(ch) : t \in Members(r[ch[i]])
      BY <1>9, <2>2
    <3>2. Len(dev[ch[i]].at) + (n - 1) >= DEPTH + 1
      <4>1. \A k \in Nat : k + n >= DEPTH + 1 => k + 1 + (n - 1) >= DEPTH + 1
        OBVIOUS
      <4> QED BY <1>6, <1>15, <4>1
    <3>3. c \in Members(r[ch[i]])
      BY <1>4, <1>15, <3>1, <3>2 DEF Releases
    <3> QED BY <1>9, <1>13, <3>3
  <2> QED BY <1>13, <2>1, <2>2
<1>16. s \in Members(m)
  BY <1>13
<1>17. Releases(s, m, n)
  BY <1>13, <1>14, <1>15, <1>16 DEF Releases
<1> QED BY <1>1, <1>17

(* usb_hcd_deallocate_device releases a device and all that is below it.   *)
LEMMA ReleasedFacts ==
  ASSUME Types, Forest, FreeSlots, NEW s \in Slots
  PROVE  /\ Released(s) \in Seq(Slots) /\ IsLinkedOnce(Released(s)) /\ s \in Members(Released(s))
         /\ \A t \in Members(Released(s)) :
              Under(s, t) /\ (t = s \/ \E h \in Members(Released(s)) : Child(h, t))
         /\ \A t \in Members(Released(s)), c \in Slots : Child(t, c) => c \in Members(Released(s))
<1> DEFINE G == {x \in [Slots -> Seq(Slots)] \X (0..(DEPTH + 1)) :
                   \A z \in Slots : Releases(z, x[1][z], x[2])}
<1>1. <<[z \in Slots |-> << >>], 0>> \in G
  <2>1. /\ << >> \in Seq(Slots) /\ IsLinkedOnce(<< >>) /\ Members(<< >>) = {}
    BY DEF IsLinkedOnce, Members
  <2>2. \A z \in Slots : Releases(z, << >>, 0)
    BY <2>1 DEF Releases
  <2>3. [z \in Slots |-> << >>] \in [Slots -> Seq(Slots)] /\ 0 \in 0..(DEPTH + 1)
    BY <2>1
  <2> QED BY <2>2, <2>3
<1>2. ASSUME NEW r, NEW n \in 1..(DEPTH + 1), <<r, n - 1>> \in G PROVE <<LevelOf(r), n>> \in G
  <2>1. \A z \in Slots : Releases(z, r[z], n - 1)
    BY <1>2
  <2>2. \A z \in Slots : Releases(z, LevelOf(r)[z], n)
    BY <2>1, ReleasesMore
  <2>3. LevelOf(r) = [z \in Slots |-> LevelOf(r)[z]]
    BY DEF LevelOf
  <2>4. LevelOf(r) \in [Slots -> Seq(Slots)]
    BY <2>2, <2>3 DEF Releases
  <2>5. n \in 0..(DEPTH + 1)
    OBVIOUS
  <2> QED BY <2>2, <2>4, <2>5
<1> HIDE DEF G
<1>3. PICK r : <<r, DEPTH + 1>> \in G /\ \A z : Released(z) = r[z]
  BY <1>1, <1>2, Orders
<1>4. Releases(s, Released(s), DEPTH + 1)
  BY <1>3 DEF G
<1>5. Len(dev[s].at) \in 0..DEPTH
  BY DeviceTypes
<1>6. Len(dev[s].at) + (DEPTH + 1) >= DEPTH + 1 /\ DEPTH + 1 >= 1
  <2>1. \A k \in 0..DEPTH : k + (DEPTH + 1) >= DEPTH + 1 /\ DEPTH + 1 >= 1
    OBVIOUS
  <2> QED BY <1>5, <2>1
<1> QED BY <1>4, <1>6 DEF Releases

----------------------------------------------------------------------------
(* The calls.                                                              *)

(* The types of a call.                                                    *)
LEMMA FrameTypes ==
  ASSUME Types, NEW i \in 1..Len(calls)
  PROVE  /\ calls[i] \in Frames /\ calls[i].hub \in Slots /\ calls[i].port \in Ports
         /\ calls[i].step \in Steps /\ dev[calls[i].hub].at \in Paths \cup {Root}
         /\ Len(calls) \in Nat
<1>1. calls[i] \in Frames /\ Len(calls) \in Nat
  BY ElementOfSeq DEF Types
<1>2. calls[i].hub \in Slots /\ calls[i].port \in Ports /\ calls[i].step \in Steps
  BY <1>1 DEF Frames
<1> QED BY <1>1, <1>2, DeviceTypes

(* Where a call is.                                                        *)
LEMMA PlaceFacts ==
  ASSUME Structure, NEW i \in 1..Len(calls)
  PROVE  /\ PlaceOf(i) \in Paths /\ Len(PlaceOf(i)) = i
         /\ i \in Active => /\ calls[i].dev \in Slots \ Members(free)
                            /\ dev[calls[i].dev].at = PlaceOf(i) /\ calls[i].dev # root_hub
                            /\ \A j \in 1..Len(calls) : j <= i => calls[i].dev # calls[j].hub
         /\ calls[i].hub \in Slots \ Members(free)
<1> USE DEF Structure
<1> DEFINE h == calls[i].hub
<1>1. /\ h \in Slots /\ calls[i].port \in Ports /\ dev[h].at \in Paths \cup {Root} /\ i \in Nat
      /\ i >= 1
  BY FrameTypes
<1>2. Len(dev[h].at) = i - 1 /\ dev[h].class = "hub" /\ calls[i].port < PortCount(h)
  BY DEF Stack
<1>3. calls # << >>
  BY DEF Types
<1>4. root_hub # 0 /\ dev[root_hub].at = Root
  BY <1>3 DEF Stack
<1>5. Len(dev[h].at) < DEPTH /\ (dev[h].at = Root => calls[i].port = 0)
  <2>1. CASE h = root_hub
    <3>1. PortCount(h) = 1 /\ Len(Root) = 0
      BY <2>1 DEF PortCount, Root
    <3>2. calls[i].port = 0
      BY <1>1, <1>2, <3>1 DEF Ports
    <3> QED BY <1>4, <2>1, <3>1, <3>2
  <2>2. CASE h # root_hub
    <3>1. dev[h].at # Root /\ plugged[dev[h].at] = "hub"
      BY <1>1, <1>2, <2>2 DEF Forest
    <3> QED BY <1>1, <3>1 DEF Forest
  <2> QED BY <2>1, <2>2
<1>6. PlaceOf(i) \in Paths
  BY <1>1, <1>5, PathNext DEF PlaceOf
<1>7. Len(PlaceOf(i)) = i
  <2>1. Len(PlaceOf(i)) = Len(dev[h].at) + 1
    BY <1>1, PlaceParts DEF PlaceOf
  <2> QED BY <1>1, <1>2, <2>1
<1>8. h \in Slots \ Members(free)
  BY <1>1, <1>2 DEF FreeSlots
<1>9. ASSUME i \in Active
      PROVE  /\ calls[i].dev \in Slots \ Members(free)
             /\ dev[calls[i].dev].at = PlaceOf(i) /\ calls[i].dev # root_hub
             /\ \A j \in 1..Len(calls) : j <= i => calls[i].dev # calls[j].hub
  <2>1. calls[i].dev \in Slots /\ dev[calls[i].dev].at = PlaceOf(i)
    BY <1>9 DEF Stack
  <2>2. calls[i].dev \notin Members(free)
    BY <1>9 DEF FreeSlots
  <2>3. calls[i].dev # root_hub
    BY <1>4, <1>6, <2>1, PathFacts
  <2>4. \A j \in 1..Len(calls) : Len(dev[calls[j].hub].at) = j - 1
    BY DEF Stack
  <2>5. \A j \in 1..Len(calls) : j <= i => calls[i].dev # calls[j].hub
    BY <1>1, <1>7, <2>1, <2>4
  <2> QED BY <2>1, <2>2, <2>3, <2>5
<1> QED BY <1>6, <1>7, <1>8, <1>9

(* The innermost call, and the ones around it.                             *)
LEMMA TopFacts ==
  ASSUME Structure, calls # << >>
  PROVE  /\ Len(calls) \in Nat /\ Len(calls) >= 1 /\ Len(calls) \in 1..Len(calls)
         /\ Top \in Frames /\ Top = calls[Len(calls)] /\ Path = PlaceOf(Len(calls))
         /\ Top.hub \in Slots \ Members(free) /\ Top.port \in Ports
         /\ Path \in Paths /\ Len(Path) = Len(calls)
         /\ Len(calls) \in Active <=> Top.step \notin {"alloc", "end"}
         /\ Len(calls) \in Active =>
              /\ Top.dev \in Slots \ Members(free) /\ Top.dev # root_hub /\ dev[Top.dev].at = Path
              /\ \A h \in Slots : ~Child(h, Top.dev)
              /\ \A i \in 1..Len(calls) : calls[i].hub # Top.dev
         /\ \A i \in 1..(Len(calls) - 1) :
              /\ i \in 1..Len(calls) /\ i \in Active /\ calls[i].step = "class"
              /\ calls[i].dev \in Slots \ Members(free) /\ calls[i].dev # root_hub
              /\ calls[i].dev = calls[i + 1].hub
              /\ dev[calls[i].dev].at = PlaceOf(i) /\ PlaceOf(i) \in Paths /\ PlaceOf(i) # Path
              /\ Len(PlaceOf(i)) = i
              /\ Len(calls) \in Active => calls[i].dev # Top.dev
<1> USE DEF Structure
<1> DEFINE n == Len(calls)
<1>1. n \in Nat /\ n >= 1 /\ n \in 1..n
  BY DEF Types
<1> HIDE DEF n
<1>2. Top \in Frames /\ Top = calls[n] /\ Path = PlaceOf(n) /\ Top.port \in Ports
  BY <1>1, FrameTypes DEF Top, Path, PlaceOf, n
<1>3. Top.hub \in Slots \ Members(free) /\ Path \in Paths /\ Len(Path) = n
  BY <1>1, <1>2, PlaceFacts DEF n
<1>4. n \in Active <=> Top.step \notin {"alloc", "end"}
  BY <1>1, <1>2 DEF Active, n
<1>5. ASSUME n \in Active
      PROVE  /\ Top.dev \in Slots \ Members(free) /\ Top.dev # root_hub /\ dev[Top.dev].at = Path
             /\ \A h \in Slots : ~Child(h, Top.dev)
             /\ \A i \in 1..n : calls[i].hub # Top.dev
  <2>1. \A i \in 1..n : i <= n
    BY <1>1
  <2>2. /\ Top.dev \in Slots \ Members(free) /\ Top.dev # root_hub /\ dev[Top.dev].at = Path
        /\ \A i \in 1..n : calls[i].hub # Top.dev
    BY <1>1, <1>2, <1>5, <2>1, PlaceFacts DEF n
  <2>3. \A h \in Slots : ~Child(h, Top.dev)
    BY <1>2, <1>5 DEF Forest
  <2> QED BY <2>2, <2>3
<1>6. ASSUME NEW i \in 1..(n - 1)
      PROVE  /\ i \in 1..n /\ i \in Active /\ calls[i].step = "class"
             /\ calls[i].dev \in Slots \ Members(free) /\ calls[i].dev # root_hub
             /\ calls[i].dev = calls[i + 1].hub
             /\ dev[calls[i].dev].at = PlaceOf(i) /\ PlaceOf(i) \in Paths /\ PlaceOf(i) # Path
             /\ Len(PlaceOf(i)) = i
             /\ n \in Active => calls[i].dev # Top.dev
  <2>1. i \in 1..n /\ i < n
    BY <1>1
  <2>2. calls[i].step = "class" /\ calls[i + 1].hub = calls[i].dev
    BY <2>1 DEF Stack, n
  <2>3. i \in Active
    BY <2>1, <2>2 DEF Active, n
  <2>4. /\ calls[i].dev \in Slots \ Members(free) /\ calls[i].dev # root_hub
        /\ dev[calls[i].dev].at = PlaceOf(i) /\ PlaceOf(i) \in Paths /\ Len(PlaceOf(i)) = i
    BY <2>1, <2>3, PlaceFacts DEF n
  <2>5. PlaceOf(i) # Path
    BY <1>3, <2>1, <2>4
  <2> QED BY <1>5, <2>1, <2>2, <2>3, <2>4, <2>5
<1> QED BY <1>1, <1>2, <1>3, <1>4, <1>5, <1>6 DEF n

(* The innermost call becomes f.                                           *)
LEMMA TopBecomes ==
  ASSUME Structure, calls # << >>, NEW f \in Frames, calls' = [calls EXCEPT ![Len(calls)] = f]
  PROVE  /\ calls' \in Seq(Frames) /\ Len(calls') = Len(calls) /\ calls' # << >>
         /\ calls'[Len(calls)] = f /\ Top' = f
         /\ \A i \in 1..(Len(calls) - 1) : calls'[i] = calls[i]
<1>1. Len(calls) \in Nat /\ Len(calls) \in 1..Len(calls) /\ calls \in Seq(Frames)
  BY TopFacts DEF Structure, Types
<1> DEFINE n == Len(calls)
           w == [calls EXCEPT ![n] = f]
<1>2. /\ w \in Seq(Frames) /\ Len(w) = n
      /\ \A i \in 1..n : w[i] = IF i = n THEN f ELSE calls[i]
  BY <1>1, ExceptSeq
<1>3. calls' = w
  OBVIOUS
<1> HIDE DEF n, w
<1>4. n \in Nat /\ n \in 1..n /\ n # 0
  BY <1>1 DEF n
<1>5. w[n] = f /\ \A i \in 1..(n - 1) : w[i] = calls[i]
  BY <1>2, <1>4
<1>6. w # << >>
  BY <1>2, <1>4
<1>7. Top' = w[n]
  BY <1>2, <1>3 DEF Top
<1> QED BY <1>2, <1>3, <1>5, <1>6, <1>7 DEF n

(* A step at the innermost call that leaves the devices where they are.    *)
SameTree(f) ==
  /\ f \in Frames /\ calls' = [calls EXCEPT ![Len(calls)] = f]
  /\ f.hub = Top.hub /\ f.port < PortCount(Top.hub) /\ f.retries <= MAX_RESET_RETRIES
  /\ f.step \in {"alloc", "end"} <=> Top.step \in {"alloc", "end"}
  /\ f.step \notin {"alloc", "end"} => f.dev = Top.dev /\ f.port = Top.port
  /\ f.step # "end" => f.err = "ok"
  /\ dev' \in [Slots -> Devices]
  /\ \A s \in Slots : /\ dev'[s].at = dev[s].at /\ dev'[s].children = dev[s].children
                      /\ dev'[s].class = "hub" <=> dev[s].class = "hub"
                      /\ s \in Members(free) => dev'[s] = dev[s]
  /\ plugged' \in [Paths -> Kinds \cup {"?"}]
  /\ \A p \in Paths : plugged'[p] # plugged[p] =>
       /\ p = Path /\ Len(calls) \in Active /\ dev[Top.dev].class # "hub"
       /\ plugged'[p] = "hub" => Len(p) < DEPTH
  /\ answers' \in [Paths -> Int] /\ next_address' \in Nat \ {0}
  /\ UNCHANGED <<free, root_hub, failed, status>>

(* Such a step keeps the tree and the calls in order.                      *)
LEMMA SameTreeStep ==
  ASSUME Structure, calls # << >>, NEW f, SameTree(f)
  PROVE  /\ Structure' /\ Active' = Active /\ Len(calls') = Len(calls) /\ Top' = f
         /\ \A i \in 1..(Len(calls) - 1) : calls'[i] = calls[i]
         /\ \A i \in Active : calls'[i].dev = calls[i].dev
         /\ \A i \in 1..Len(calls) : calls'[i].hub = calls[i].hub
         /\ \A h, c \in Slots : Child(h, c)' <=> Child(h, c)
         /\ \A h : PortCount(h)' = PortCount(h)
         /\ Enumerating' = Enumerating
<1> DEFINE n == Len(calls)
<1>1. /\ n \in Nat /\ n >= 1 /\ n \in 1..n /\ Top \in Frames /\ Top = calls[n] /\ Path = PlaceOf(n)
      /\ n \in Active <=> Top.step \notin {"alloc", "end"}
      /\ n \in Active => Top.dev \in Slots \ Members(free) /\ dev[Top.dev].at = Path
      /\ \A i \in 1..(n - 1) : i \in 1..n
  BY TopFacts
<1>2. /\ calls' \in Seq(Frames) /\ Len(calls') = n /\ calls' # << >> /\ calls'[n] = f /\ Top' = f
      /\ \A i \in 1..(n - 1) : calls'[i] = calls[i]
  BY TopBecomes DEF SameTree
<1> HIDE DEF n
<1>3. \A i \in 1..n : i = n \/ i \in 1..(n - 1)
  BY <1>1
<1>4. \A i \in 1..n : /\ calls'[i].hub = calls[i].hub
                      /\ calls'[i].step \in {"alloc", "end"} <=> calls[i].step \in {"alloc", "end"}
                      /\ calls'[i].step \notin {"alloc", "end"} =>
                           calls'[i].dev = calls[i].dev /\ calls'[i].port = calls[i].port
                      /\ calls'[i].port < PortCount(calls[i].hub)
                      /\ calls'[i].retries <= MAX_RESET_RETRIES
  <2>1. \A i \in 1..n : calls[i].port < PortCount(calls[i].hub) /\ calls[i].retries <= MAX_RESET_RETRIES
    BY DEF Structure, Stack, Types, n
  <2>2. ASSUME NEW i \in 1..(n - 1)
        PROVE  /\ calls'[i].hub = calls[i].hub
               /\ calls'[i].step \in {"alloc", "end"} <=> calls[i].step \in {"alloc", "end"}
               /\ calls'[i].step \notin {"alloc", "end"} =>
                    calls'[i].dev = calls[i].dev /\ calls'[i].port = calls[i].port
               /\ calls'[i].port < PortCount(calls[i].hub)
               /\ calls'[i].retries <= MAX_RESET_RETRIES
    BY <1>1, <1>2, <2>1
  <2>3. /\ calls'[n].hub = calls[n].hub
        /\ calls'[n].step \in {"alloc", "end"} <=> calls[n].step \in {"alloc", "end"}
        /\ calls'[n].step \notin {"alloc", "end"} =>
             calls'[n].dev = calls[n].dev /\ calls'[n].port = calls[n].port
        /\ calls'[n].port < PortCount(calls[n].hub)
        /\ calls'[n].retries <= MAX_RESET_RETRIES
    BY <1>1, <1>2 DEF SameTree
  <2> QED BY <1>3, <2>2, <2>3
<1>5. Active' = Active
  BY <1>2, <1>4 DEF Active, n
<1>6. \A h, c \in Slots : Child(h, c)' <=> Child(h, c)
  BY DEF SameTree, Child
<1>7. \A i \in Active : i \in 1..n /\ calls'[i].dev = calls[i].dev /\ calls'[i].port = calls[i].port
  BY <1>4 DEF Active, n
<1>8. \A h : PortCount(h)' = PortCount(h)
  BY DEF SameTree, PortCount
<1>9. Enumerating' = Enumerating
  BY <1>5, <1>7 DEF Enumerating
<1>10. Types'
  BY <1>2, <1>4 DEF Types, Structure, SameTree, n
<1>11. \A i \in 1..n : calls[i].hub \in Slots
  BY FrameTypes DEF Structure, n
<1>12. root_hub # 0 => root_hub \in Slots
  BY DEF Structure, Types, Slots
<1>13. \A i \in Active : PlaceOf(i)' = PlaceOf(i)
  <2> TAKE i \in Active
  <2>1. calls'[i].hub = calls[i].hub /\ calls'[i].port = calls[i].port
    BY <1>4, <1>7
  <2>2. dev'[calls[i].hub].at = dev[calls[i].hub].at
    BY <1>7, <1>11 DEF SameTree
  <2> QED BY <2>1, <2>2 DEF PlaceOf
<1>14. Stack'
  <2>1. ASSUME NEW i \in 1..n
        PROVE  /\ Len(dev'[calls'[i].hub].at) = i - 1 /\ (calls[i].port < PortCount(calls[i].hub))'
               /\ dev'[calls'[i].hub].class = "hub"
               /\ i < n => calls'[i].step = "class" /\ calls'[i + 1].hub = calls'[i].dev
    <3>1. /\ Len(dev[calls[i].hub].at) = i - 1 /\ dev[calls[i].hub].class = "hub"
          /\ i < n => calls[i].step = "class" /\ calls[i + 1].hub = calls[i].dev
      BY DEF Structure, Stack, n
    <3>2. i < n => i \in 1..(n - 1) /\ i + 1 \in 1..n
      BY <1>1
    <3>3. i < n => calls'[i].step = "class" /\ calls'[i + 1].hub = calls'[i].dev
      BY <1>2, <1>4, <3>1, <3>2
    <3>4. dev'[calls'[i].hub].at = dev[calls[i].hub].at /\ dev'[calls'[i].hub].class = "hub"
      BY <1>4, <1>11, <3>1 DEF SameTree
    <3>5. (calls[i].port < PortCount(calls[i].hub))'
      BY <1>4 DEF PortCount, SameTree
    <3> QED BY <3>1, <3>3, <3>4, <3>5
  <2>2. ASSUME NEW i \in Active PROVE calls'[i].dev \in Slots /\ dev'[calls'[i].dev].at = PlaceOf(i)'
    <3>1. calls[i].dev \in Slots /\ dev[calls[i].dev].at = PlaceOf(i)
      BY <1>7 DEF Structure, Stack, n
    <3> QED BY <1>7, <1>13, <3>1 DEF SameTree
  <2>3. 1 \in 1..n
    BY <1>1
  <2>4. root_hub' # 0 /\ calls'[1].hub = root_hub'
    BY <1>4, <2>3 DEF Structure, Stack, SameTree
  <2>5. dev'[root_hub'].at = Root /\ dev'[root_hub'].class = "hub"
    BY <1>12, <2>4 DEF Structure, Stack, SameTree
  <2>6. status' # "start"
    BY DEF Structure, Stack, SameTree
  <2> QED BY <1>2, <1>5, <2>1, <2>2, <2>4, <2>5, <2>6 DEF Stack, n
<1>15. Forest'
  <2>1. \A h \in Slots : dev'[h].class = "hub" /\ h # root_hub =>
          dev'[h].at # Root /\ plugged'[dev'[h].at] = "hub"
    <3> SUFFICES ASSUME NEW h \in Slots, dev[h].class = "hub", h # root_hub
                 PROVE  dev[h].at # Root /\ plugged'[dev[h].at] = "hub"
      BY DEF SameTree
    <3>1. dev[h].at # Root /\ plugged[dev[h].at] = "hub" /\ dev[h].at \in Paths
      BY DeviceTypes DEF Structure, Forest
    <3>2. h \notin Members(free)
      BY DEF Structure, FreeSlots
    <3>3. plugged'[dev[h].at] = plugged[dev[h].at]
      <4> SUFFICES ASSUME plugged'[dev[h].at] # plugged[dev[h].at] PROVE FALSE
        OBVIOUS
      <4>1. dev[h].at = Path /\ n \in Active /\ dev[Top.dev].class # "hub"
        BY <3>1 DEF SameTree, n
      <4>2. h = Top.dev
        BY <1>1, <3>2, <4>1 DEF Structure, FreeSlots
      <4> QED BY <4>1, <4>2
    <3> QED BY <3>1, <3>3
  <2>2. \A p \in Paths : plugged'[p] = "hub" => Len(p) < DEPTH
    BY DEF Structure, Forest, SameTree
  <2>3. \A h, c \in Slots : Child(h, c) =>
          /\ \E q \in Ports : q < PortCount(h)' /\ dev'[c].at = Append(dev'[h].at, q)
          /\ dev'[h].class = "hub"
    <3> SUFFICES ASSUME NEW h \in Slots, NEW c \in Slots, Child(h, c)
                 PROVE  /\ \E q \in Ports : q < PortCount(h)' /\ dev'[c].at = Append(dev'[h].at, q)
                        /\ dev'[h].class = "hub"
      OBVIOUS
    <3>1. PICK q \in Ports : q < PortCount(h) /\ dev[c].at = Append(dev[h].at, q)
      BY DEF Structure, Forest
    <3>2. dev[h].class = "hub"
      BY DEF Structure, Forest
    <3>3. dev'[c].at = dev[c].at /\ dev'[h].at = dev[h].at /\ dev'[h].class = "hub"
      BY <3>2 DEF SameTree
    <3> QED BY <1>8, <3>1, <3>3
  <2>4. \A g, h, c \in Slots : Child(g, c) /\ Child(h, c) => g = h
    BY DEF Structure, Forest
  <2>5. \A h \in Slots : IsLinkedOnce(dev'[h].children)
    BY DEF Structure, Forest, SameTree
  <2>6. \A i \in Active', h \in Slots : ~(Child(h, calls[i].dev))'
    <3> SUFFICES ASSUME NEW i \in Active, NEW h \in Slots PROVE ~(Child(h, calls[i].dev))'
      BY <1>5
    <3>1. ~Child(h, calls[i].dev)
      BY DEF Structure, Forest
    <3> QED BY <1>7, <3>1 DEF SameTree, Child
  <2>7. root_hub' = root_hub
    BY DEF SameTree
  <2> QED BY <1>6, <2>1, <2>2, <2>3, <2>4, <2>5, <2>6, <2>7 DEF Forest
<1>16. FreeSlots'
  <2>0. free' = free /\ root_hub' = root_hub /\ Members(free) \subseteq Slots
    BY MembersType DEF SameTree, Structure, Types
  <2>1. ASSUME NEW s \in Members(free)
        PROVE  /\ s # root_hub /\ dev'[s].children = << >> /\ dev'[s].class = "none"
               /\ \A h \in Slots : ~Child(h, s)
               /\ \A i \in Active : calls[i].dev # s
               /\ \A i \in 1..n : calls[i].hub # s
    <3>1. dev'[s] = dev[s]
      BY <2>0 DEF SameTree
    <3> QED BY <3>1 DEF Structure, FreeSlots, n
  <2>2. \A s \in Slots \ Members(free) :
          s = root_hub \/ s \in Enumerating \/ \E h \in Slots : Child(h, s)
    BY DEF Structure, FreeSlots
  <2>3. \A s, t \in Slots \ Members(free) : dev'[s].at = dev'[t].at => s = t
    BY DEF Structure, FreeSlots, SameTree
  <2>4. IsLinkedOnce(free)
    BY DEF Structure, FreeSlots
  <2>5. \A s \in Members(free) : /\ \A h \in Slots : ~Child(h, s)'
                                 /\ \A i \in Active' : calls'[i].dev # s
                                 /\ \A i \in 1..Len(calls') : calls'[i].hub # s
    BY <1>2, <1>4, <1>5, <1>6, <1>7, <2>0, <2>1
  <2>6. \A s \in Slots \ Members(free) :
          s = root_hub \/ s \in Enumerating' \/ \E h \in Slots : Child(h, s)'
    BY <1>6, <1>9, <2>2
  <2> QED BY <2>0, <2>1, <2>3, <2>4, <2>5, <2>6 DEF FreeSlots
<1> QED BY <1>2, <1>4, <1>5, <1>6, <1>7, <1>8, <1>9, <1>10, <1>14, <1>15, <1>16 DEF Structure, n

(* A hub's port is a place on the bus.                                     *)
LEMMA HubPlace ==
  ASSUME Structure, NEW h \in Slots, dev[h].class = "hub", root_hub # 0,
         NEW q \in Ports, q < PortCount(h)
  PROVE  /\ Append(dev[h].at, q) \in Paths /\ h \notin Members(free)
         /\ \A i \in 1..Len(calls) :
              PlaceOf(i) = Append(dev[h].at, q) => calls[i].hub = h /\ calls[i].port = q
<1>1. dev[h].at \in Paths \cup {Root} /\ h \notin Members(free)
  BY DeviceTypes DEF Structure, FreeSlots
<1>2. Len(dev[h].at) < DEPTH /\ (dev[h].at = Root => q = 0)
  <2>1. CASE h = root_hub
    <3>1. dev[h].at = Root /\ Len(Root) = 0
      BY <2>1 DEF Structure, Stack, Root
    <3>2. q = 0
      BY <2>1 DEF PortCount, Ports
    <3> QED BY <3>1, <3>2
  <2>2. CASE h # root_hub
    <3>1. dev[h].at # Root /\ plugged[dev[h].at] = "hub"
      BY <2>2 DEF Structure, Forest
    <3> QED BY <1>1, <3>1 DEF Structure, Forest
  <2> QED BY <2>1, <2>2
<1>3. ASSUME NEW i \in 1..Len(calls), PlaceOf(i) = Append(dev[h].at, q)
      PROVE  calls[i].hub = h /\ calls[i].port = q
  <2>1. /\ calls[i].hub \in Slots \ Members(free) /\ calls[i].port \in Ports
        /\ dev[calls[i].hub].at \in Paths \cup {Root}
    BY PlaceFacts, FrameTypes DEF Structure
  <2>2. dev[calls[i].hub].at = dev[h].at /\ calls[i].port = q
    <3> DEFINE a == dev[calls[i].hub].at
               b == dev[h].at
               t == calls[i].port
    <3>1. Append(a, t) = Append(b, q)
      BY <1>3 DEF PlaceOf
    <3>2. a \in Paths \cup {Root} /\ b \in Paths \cup {Root} /\ t \in Ports
      BY <1>1, <2>1
    <3> HIDE DEF a, b, t
    <3>3. a = b /\ t = q
      BY <3>1, <3>2, SamePlace
    <3> QED BY <3>3 DEF a, b, t
  <2> QED BY <1>1, <2>1, <2>2 DEF Structure, FreeSlots
<1> QED BY <1>1, <1>2, <1>3, PathNext

(* A step of the device being enumerated leaves the ports of the hubs as   *)
(* they are.                                                               *)
LEMMA MovedStep ==
  ASSUME Structure, Progress, calls # << >>, NEW f, SameTree(f), Len(calls) \in Active,
         Top.step # "report"
  PROVE  Progress'
<1> DEFINE n == Len(calls)
<1>1. /\ n \in Nat /\ n >= 1 /\ n \in 1..n /\ Top \in Frames /\ Top = calls[n] /\ Path = PlaceOf(n)
      /\ Top.step \notin {"alloc", "end"}
      /\ Top.dev \in Slots /\ dev[Top.dev].at = Path
      /\ \A i \in 1..(n - 1) : i \in 1..n
      /\ \A i \in 1..n : i = n \/ i \in 1..(n - 1)
  BY TopFacts
<1>2. /\ Active' = Active /\ Len(calls') = n /\ Top' = f
      /\ \A i \in 1..(n - 1) : calls'[i] = calls[i]
      /\ \A i \in 1..n : calls'[i].hub = calls[i].hub
      /\ \A h, c \in Slots : Child(h, c)' <=> Child(h, c)
      /\ \A h : PortCount(h)' = PortCount(h)
  BY SameTreeStep
<1>3. /\ f.step \notin {"alloc", "end"} /\ f.dev = Top.dev /\ f.port = Top.port
      /\ \A s \in Slots : /\ dev'[s].at = dev[s].at /\ dev'[s].children = dev[s].children
                          /\ dev'[s].class = "hub" <=> dev[s].class = "hub"
      /\ failed' = failed /\ root_hub' = root_hub
      /\ \A p \in Paths : p # Path => plugged'[p] = plugged[p]
  BY <1>1 DEF SameTree
<1>4. calls'[n] = f
  BY <1>2 DEF Top
<1> HIDE DEF n
<1>5. \A i \in 1..n : calls[i].hub \in Slots
  BY FrameTypes DEF Structure, n
<1>6. Kids'
  <2>1. ASSUME NEW i \in 1..n, NEW c \in Slots, (Child(calls[i].hub, c))'
        PROVE  \/ Last(dev'[c].at) < calls'[i].port
               \/ Last(dev'[c].at) = calls'[i].port /\ calls'[i].step = "end" /\ calls'[i].err = "ok"
    <3>1. Child(calls[i].hub, c)
      BY <1>2, <1>3, <1>5, <2>1 DEF Child
    <3>2. \/ Last(dev[c].at) < calls[i].port
          \/ Last(dev[c].at) = calls[i].port /\ calls[i].step = "end" /\ calls[i].err = "ok"
      BY <3>1 DEF Progress, Kids, n
    <3>3. CASE i = n
      BY <1>1, <1>3, <1>4, <3>2, <3>3
    <3>4. CASE i \in 1..(n - 1)
      BY <1>2, <1>3, <3>2, <3>4
    <3> QED BY <1>1, <3>3, <3>4
  <2>2. dev'[f.dev].children = << >> /\ dev'[f.dev].class # "hub"
    BY <1>1, <1>3 DEF Progress, Kids
  <2> QED BY <1>2, <2>1, <2>2 DEF Kids
<1>7. PortsPast'
  <2> SUFFICES ASSUME NEW h \in Slots, NEW q \in Ports, dev'[h].class = "hub", q < PortCount(h)', Past(h, q)'
               PROVE  PortDone(h, q)'
    BY DEF PortsPast
  <2>1. dev[h].class = "hub" /\ q < PortCount(h)
    BY <1>2, <1>3
  <2>2. Past(h, q)
    <3> SUFFICES ASSUME NEW i \in 1..n, calls[i].hub = h
                 PROVE  q < calls[i].port \/ (q = calls[i].port /\ calls[i].step = "end")
      BY DEF Past, n
    <3>1. q < calls'[i].port \/ (q = calls'[i].port /\ calls'[i].step = "end")
      BY <1>2 DEF Past
    <3>2. CASE i = n
      BY <1>1, <1>3, <1>4, <3>1, <3>2
    <3>3. CASE i \in 1..(n - 1)
      BY <1>2, <3>1, <3>3
    <3> QED BY <1>1, <3>2, <3>3
  <2>3. PortDone(h, q)
    BY <2>1, <2>2 DEF Progress, PortsPast
  <2>4. root_hub # 0
    BY DEF Structure, Stack
  <2> DEFINE p == Append(dev[h].at, q)
  <2>5. p \in Paths /\ (PlaceOf(n) = p => calls[n].hub = h /\ calls[n].port = q)
    BY <1>1, <2>1, <2>4, HubPlace DEF n
  <2>6. p # Path
    <3> SUFFICES ASSUME p = Path PROVE FALSE
      OBVIOUS
    <3>1. calls[n].hub = h /\ calls[n].port = q
      BY <1>1, <2>5
    <3> QED BY <1>1, <2>2, <3>1 DEF Past, Ports, n
  <2>7. Append(dev'[h].at, q) = p /\ plugged'[p] = plugged[p] /\ failed' = failed
    BY <1>3, <2>5, <2>6
  <2> HIDE DEF p
  <2>8. p \in failed \/ plugged[p] = "none" \/ \E c \in Slots : Child(h, c) /\ dev[c].at = p
    BY <2>3 DEF PortDone, p
  <2>9. p \in failed' \/ plugged'[p] = "none" \/ \E c \in Slots : Child(h, c)' /\ dev'[c].at = p
    BY <1>2, <1>3, <2>7, <2>8
  <2> QED BY <2>7, <2>9 DEF PortDone
<1>8. FailureNoted'
  <2>1. \A i \in 1..n : calls'[i].step # "end" => calls'[i].err = "ok"
    <3>1. \A i \in 1..(n - 1) : calls[i].step # "end" => calls[i].err = "ok"
      BY <1>1 DEF Progress, FailureNoted, n
    <3>2. calls'[n].step # "end" => calls'[n].err = "ok"
      BY <1>4 DEF SameTree
    <3> QED BY <1>1, <1>2, <3>1, <3>2
  <2> QED BY <1>2, <1>3, <2>1 DEF FailureNoted
<1> QED BY <1>6, <1>7, <1>8 DEF Progress

(* Where the children of a hub are.                                        *)
LEMMA ChildPort ==
  ASSUME Structure, NEW h \in Slots, NEW c \in Slots, Child(h, c)
  PROVE  /\ Last(dev[c].at) \in Ports /\ Last(dev[c].at) < PortCount(h)
         /\ dev[c].at = Append(dev[h].at, Last(dev[c].at))
<1>1. PICK q \in Ports : q < PortCount(h) /\ dev[c].at = Append(dev[h].at, q)
  BY DEF Structure, Forest
<1>2. dev[h].at \in Paths \cup {Root}
  BY DeviceTypes DEF Structure
<1>3. Last(dev[c].at) = q
  BY <1>1, <1>2, PlaceParts
<1> QED BY <1>1, <1>3

(* The loop over the ports goes on.                                        *)
LEMMA NextPortStep ==
  ASSUME Structure, Progress, calls # << >>, NextPort
  PROVE  SameTree(Frame(Top.hub, Top.port + 1)) /\ Structure' /\ Progress'
<1> DEFINE n == Len(calls)
           f == Frame(Top.hub, Top.port + 1)
<1>1. /\ n \in Nat /\ n >= 1 /\ n \in 1..n /\ Top \in Frames /\ Top = calls[n]
      /\ Top.hub \in Slots /\ Top.port \in Ports
      /\ \A i \in 1..(n - 1) : i \in 1..n
      /\ \A i \in 1..n : i = n \/ i \in 1..(n - 1)
  BY TopFacts
<1>2. Top.step = "end" /\ Top.port + 1 < PortCount(Top.hub) /\ PortCount(Top.hub) \in 1..PORTS
  BY <1>1 DEF NextPort, At, LastPort, PortCount, Ports
<1>3. /\ f \in Frames /\ f.hub = Top.hub /\ f.port = Top.port + 1 /\ f.step = "alloc"
      /\ f.retries = 0 /\ f.err = "ok"
  BY <1>1, <1>2 DEF Frame, Frames, Ports, Steps
<1>4. SameTree(f)
  <2>1. calls' = [calls EXCEPT ![Len(calls)] = f]
    BY DEF NextPort
  <2>2. UNCHANGED <<plugged, answers, dev, free, root_hub, next_address, status, failed>>
    BY DEF NextPort
  <2> HIDE DEF f
  <2> QED BY <1>2, <1>3, <2>1, <2>2 DEF SameTree, Structure, Types
<1>5. /\ Structure' /\ Active' = Active /\ Len(calls') = n /\ Top' = f
      /\ \A i \in 1..(n - 1) : calls'[i] = calls[i]
      /\ \A i \in 1..n : calls'[i].hub = calls[i].hub
      /\ \A h, c \in Slots : Child(h, c)' <=> Child(h, c)
      /\ \A h : PortCount(h)' = PortCount(h)
  BY <1>4, SameTreeStep
<1>6. calls'[n] = f
  BY <1>5 DEF Top
<1>7. UNCHANGED <<plugged, dev, root_hub, failed>>
  BY DEF NextPort
<1> HIDE DEF f, n
<1>8. \A i \in 1..n : calls[i].hub \in Slots
  BY FrameTypes DEF Structure, n
<1>9. Kids'
  <2>1. ASSUME NEW i \in 1..n, NEW c \in Slots, (Child(calls[i].hub, c))'
        PROVE  \/ Last(dev'[c].at) < calls'[i].port
               \/ Last(dev'[c].at) = calls'[i].port /\ calls'[i].step = "end" /\ calls'[i].err = "ok"
    <3>1. Child(calls[i].hub, c)
      BY <1>5, <1>7, <2>1 DEF Child
    <3>2. \/ Last(dev[c].at) < calls[i].port
          \/ Last(dev[c].at) = calls[i].port /\ calls[i].step = "end" /\ calls[i].err = "ok"
      BY <3>1 DEF Progress, Kids, n
    <3>3. CASE i = n
      <4>1. Last(dev[c].at) \in Ports
        BY <1>8, <3>1, ChildPort
      <4>2. Last(dev[c].at) < f.port
        BY <1>1, <1>3, <3>2, <3>3, <4>1 DEF Ports
      <4> QED BY <1>6, <1>7, <3>3, <4>2
    <3>4. CASE i \in 1..(n - 1)
      BY <1>5, <1>7, <3>2, <3>4
    <3> QED BY <1>1, <3>3, <3>4
  <2>2. ~ (Len(calls') \in Active')
    BY <1>1, <1>2, <1>5 DEF Active, n
  <2> QED BY <1>5, <2>1, <2>2 DEF Kids
<1>10. PortsPast'
  <2> SUFFICES ASSUME NEW h \in Slots, NEW q \in Ports, dev'[h].class = "hub", q < PortCount(h)', Past(h, q)'
               PROVE  PortDone(h, q)'
    BY DEF PortsPast
  <2>1. dev[h].class = "hub" /\ q < PortCount(h)
    BY <1>5, <1>7
  <2>2. Past(h, q)
    <3> SUFFICES ASSUME NEW i \in 1..n, calls[i].hub = h
                 PROVE  q < calls[i].port \/ (q = calls[i].port /\ calls[i].step = "end")
      BY DEF Past, n
    <3>1. q < calls'[i].port \/ (q = calls'[i].port /\ calls'[i].step = "end")
      BY <1>5 DEF Past
    <3>2. CASE i = n
      BY <1>1, <1>2, <1>3, <1>6, <3>1, <3>2 DEF Ports
    <3>3. CASE i \in 1..(n - 1)
      BY <1>5, <3>1, <3>3
    <3> QED BY <1>1, <3>2, <3>3
  <2>3. PortDone(h, q)
    BY <2>1, <2>2 DEF Progress, PortsPast
  <2> QED BY <1>5, <1>7, <2>3 DEF PortDone
<1>11. FailureNoted'
  <2>1. \A i \in 1..(n - 1) : calls[i].step # "end" => calls[i].err = "ok"
    BY <1>1 DEF Progress, FailureNoted, n
  <2>2. \A i \in 1..n : calls'[i].step # "end" => calls'[i].err = "ok"
    BY <1>1, <1>3, <1>5, <1>6, <2>1
  <2> QED BY <1>3, <1>5, <2>2 DEF FailureNoted
<1> QED BY <1>4, <1>5, <1>9, <1>10, <1>11 DEF Progress, f

(* The task stops where it is.                                             *)
LEMMA StopStep ==
  ASSUME Structure, Progress, status = "running", status' \in {"fault", "spin"},
         UNCHANGED <<plugged, answers, dev, free, root_hub, next_address, calls, failed>>
  PROVE  Structure' /\ Progress'
<1>1. Active' = Active /\ Enumerating' = Enumerating /\ Top' = Top /\ Path' = Path
  BY DEF Active, Enumerating, Top, Path
<1>2. Types'
  BY DEF Structure, Types
<1>3. Stack'
  BY <1>1 DEF Structure, Stack, PlaceOf, PortCount
<1>4. Forest'
  BY <1>1 DEF Structure, Forest, Child, PortCount
<1>5. FreeSlots'
  BY <1>1 DEF Structure, FreeSlots, Child
<1>6. Kids'
  BY <1>1 DEF Progress, Kids, Child
<1>7. PortsPast'
  BY DEF Progress, PortsPast, Past, PortDone, Child, PortCount
<1>8. FailureNoted'
  BY <1>1 DEF Progress, FailureNoted
<1> QED BY <1>2, <1>3, <1>4, <1>5, <1>6, <1>7, <1>8 DEF Structure, Progress

(* The devices D go back, with them the device of call m, which is left    *)
(* with what is said in f: the ways out of usb_hub_enumerate_port.         *)
Drops(m, D, f) ==
  /\ m \in Active /\ D \subseteq Slots /\ D \cap Members(free) = {} /\ root_hub \notin D
  /\ calls[m].dev \in D
  /\ \A s \in D : Len(dev[s].at) >= m
  /\ \A h, c \in Slots : Child(h, c) => (h \in D <=> c \in D /\ c # calls[m].dev)
  /\ \A i \in 1..Len(calls) : i > m => i \notin Active /\ calls[i].hub \in D
  /\ calls' \in Seq(Frames) /\ Len(calls') = m
  /\ \A i \in 1..(m - 1) : calls'[i] = calls[i]
  /\ calls'[m] = f /\ f.hub = calls[m].hub /\ f.port = calls[m].port /\ f.step = "end"
  /\ f.retries <= MAX_RESET_RETRIES
  /\ dev' \in [Slots -> Devices]
  /\ \A s \in Slots \ D : dev'[s] = dev[s]
  /\ \A s \in D : dev'[s].at = Root /\ dev'[s].class = "none" /\ dev'[s].children = << >>
  /\ free' \in Seq(Slots) /\ Members(free') = Members(free) \cup D /\ IsLinkedOnce(free')
  /\ plugged' \in [Paths -> Kinds \cup {"?"}]
  /\ \A p \in Paths : plugged'[p] # plugged[p] => p = PlaceOf(m) /\ plugged'[p] = "none"
  /\ failed \subseteq failed' /\ failed' \subseteq Paths
  /\ PlaceOf(m) \in failed' \/ (plugged'[PlaceOf(m)] = "none" /\ f.err = "ok")
  /\ answers' \in [Paths -> Int] /\ UNCHANGED <<next_address, root_hub, status>>

(* What such a step leaves of the calls and of the children.               *)
LEMMA DropFacts ==
  ASSUME Structure, calls # << >>, NEW m, NEW D, NEW f, Drops(m, D, f)
  PROVE  /\ m \in 1..Len(calls) /\ m \in Nat /\ m \in 1..m /\ Len(calls') = m /\ calls' # << >>
         /\ \A i \in 1..m : /\ i \in 1..Len(calls) /\ calls'[i].hub = calls[i].hub
                            /\ calls'[i].port = calls[i].port /\ PlaceOf(i)' = PlaceOf(i)
                            /\ calls[i].hub \in Slots \ D /\ (i = m \/ i \in 1..(m - 1))
         /\ Active' = 1..(m - 1)
         /\ \A i \in 1..(m - 1) : i \in Active /\ calls[i].dev \in Slots \ D
         /\ \A h, c \in Slots : Child(h, c)' <=> Child(h, c) /\ h \notin D /\ c \notin D
         /\ \A h : PortCount(h)' = PortCount(h)
         /\ Top' = f /\ Path' = PlaceOf(m) /\ PlaceOf(m) \in Paths
         /\ \A s \in D : s \in Slots
<1> USE DEF Drops
<1>1. /\ m \in 1..Len(calls) /\ m \in Nat /\ m \in 1..m /\ Len(calls') = m /\ calls' # << >>
      /\ \A i \in 1..m : i \in 1..Len(calls) /\ (i = m \/ i \in 1..(m - 1))
      /\ \A i \in 1..(m - 1) : i \in 1..m /\ i < Len(calls) /\ i < m
      /\ Len(calls) \in Nat
  <2>1. m \in 1..Len(calls) /\ Len(calls) \in Nat
    BY TopFacts DEF Active
  <2>2. Len(calls') = m /\ m >= 1
    BY <2>1
  <2>3. calls' # << >>
    BY <2>2
  <2> QED BY <2>1, <2>2, <2>3
<1>2. ASSUME NEW i \in 1..m PROVE calls[i].hub \in Slots \ D
  <2>1. calls[i].hub \in Slots /\ i \in 1..Len(calls)
    BY <1>1, FrameTypes DEF Structure
  <2>2. Len(dev[calls[i].hub].at) = i - 1
    BY <2>1 DEF Structure, Stack
  <2>3. calls[i].hub \notin D
    BY <1>1, <2>2
  <2> QED BY <2>1, <2>3
<1>3. ASSUME NEW i \in 1..(m - 1) PROVE i \in Active /\ calls[i].dev \in Slots \ D
  <2>1. i \in 1..Len(calls) /\ i < Len(calls) /\ i < m
    BY <1>1
  <2>2. calls[i].step = "class"
    BY <2>1 DEF Structure, Stack
  <2>3. i \in Active
    BY <2>1, <2>2 DEF Active
  <2>4. calls[i].dev \in Slots /\ dev[calls[i].dev].at = PlaceOf(i) /\ Len(PlaceOf(i)) = i
    BY <2>1, <2>3, PlaceFacts
  <2>5. calls[i].dev \notin D
    BY <2>1, <2>4
  <2> QED BY <2>3, <2>4, <2>5
<1>4. \A i \in 1..m : calls'[i].hub = calls[i].hub /\ calls'[i].port = calls[i].port
  BY <1>1
<1>5. \A i \in 1..m : PlaceOf(i)' = PlaceOf(i)
  <2> TAKE i \in 1..m
  <2>1. dev'[calls[i].hub] = dev[calls[i].hub]
    BY <1>2
  <2> QED BY <1>4, <2>1 DEF PlaceOf
<1>6. Active' = 1..(m - 1)
  <2>1. \A i \in 1..(m - 1) : calls'[i].step \notin {"alloc", "end"} /\ i \in 1..m
    BY <1>1, <1>3 DEF Active
  <2>2. \A i \in 1..m : i = m \/ i \in 1..(m - 1)
    BY <1>1
  <2> QED BY <1>1, <2>1, <2>2 DEF Active
<1>7. ASSUME NEW h \in Slots, NEW c \in Slots
      PROVE  Child(h, c)' <=> Child(h, c) /\ h \notin D /\ c \notin D
  <2>1. CASE h \in D
    <3>1. dev'[h].children = << >>
      BY <2>1
    <3>2. ~Child(h, c)'
      BY <3>1 DEF Child, Members
    <3> QED BY <2>1, <3>2
  <2>2. CASE h \notin D
    <3>1. dev'[h] = dev[h]
      BY <2>2
    <3>2. Child(h, c)' <=> Child(h, c)
      BY <3>1 DEF Child
    <3>3. Child(h, c) => c # calls[m].dev
      BY <1>1 DEF Structure, Forest
    <3>4. Child(h, c) => c \notin D
      BY <2>2, <3>3
    <3> QED BY <2>2, <3>2, <3>4
  <2> QED BY <2>1, <2>2
<1>8. \A h : PortCount(h)' = PortCount(h)
  BY DEF PortCount
<1>9. Top' = f
  BY <1>1 DEF Top
<1>10. Path' = PlaceOf(m)
  <2>1. Path' = PlaceOf(m)'
    BY <1>1, <1>9 DEF Path, PlaceOf
  <2> QED BY <1>1, <1>5, <2>1
<1>11. PlaceOf(m) \in Paths
  BY <1>1, PlaceFacts
<1>12. \A i \in 1..m : i \in 1..Len(calls) /\ (i = m \/ i \in 1..(m - 1))
  BY <1>1
<1>13. \A s \in D : s \in Slots
  OBVIOUS
<1> HIDE DEF Drops
<1> QED BY <1>1, <1>2, <1>3, <1>4, <1>5, <1>6, <1>7, <1>8, <1>9, <1>10, <1>11, <1>12, <1>13

(* It keeps the tree and the calls in order.                               *)
LEMMA DropTree ==
  ASSUME Structure, calls # << >>, NEW m, NEW D, NEW f, Drops(m, D, f)
  PROVE  Structure'
<1>1. /\ m \in 1..Len(calls) /\ m \in Nat /\ m \in 1..m /\ Len(calls') = m /\ calls' # << >>
      /\ \A i \in 1..m : /\ i \in 1..Len(calls) /\ calls'[i].hub = calls[i].hub
                         /\ calls'[i].port = calls[i].port /\ PlaceOf(i)' = PlaceOf(i)
                         /\ calls[i].hub \in Slots \ D /\ (i = m \/ i \in 1..(m - 1))
      /\ Active' = 1..(m - 1)
      /\ \A i \in 1..(m - 1) : i \in Active /\ calls[i].dev \in Slots \ D
  BY DropFacts
<1>2. /\ \A h, c \in Slots : Child(h, c)' <=> Child(h, c) /\ h \notin D /\ c \notin D
      /\ \A h : PortCount(h)' = PortCount(h)
      /\ PlaceOf(m) \in Paths /\ \A s \in D : s \in Slots
  BY DropFacts
<1>3. /\ \A s \in Slots \ D : dev'[s] = dev[s]
      /\ \A s \in D : dev'[s].at = Root /\ dev'[s].class = "none" /\ dev'[s].children = << >>
      /\ \A i \in 1..(m - 1) : calls'[i] = calls[i]
      /\ UNCHANGED <<root_hub, status>> /\ root_hub \notin D
      /\ Members(free') = Members(free) \cup D /\ IsLinkedOnce(free')
      /\ calls[m].dev \in D /\ m \in Active
  BY DEF Drops
<1>4. Types'
  <2>1. \A i \in 1..Len(calls') : calls'[i].retries <= MAX_RESET_RETRIES
    <3>1. \A i \in 1..Len(calls) : calls[i].retries <= MAX_RESET_RETRIES
      BY DEF Structure, Types
    <3>2. calls'[m].retries <= MAX_RESET_RETRIES
      BY DEF Drops
    <3> QED BY <1>1, <1>3, <3>1, <3>2
  <2> QED BY <2>1 DEF Drops, Structure, Types
<1>5. root_hub # 0 => root_hub \in Slots \ D
  BY <1>3 DEF Structure, Types, Slots
<1>6. Stack'
  <2>1. ASSUME NEW i \in 1..m
        PROVE  /\ Len(dev'[calls'[i].hub].at) = i - 1 /\ (calls[i].port < PortCount(calls[i].hub))'
               /\ dev'[calls'[i].hub].class = "hub"
               /\ i < m => calls'[i].step = "class" /\ calls'[i + 1].hub = calls'[i].dev
    <3>1. /\ Len(dev[calls[i].hub].at) = i - 1 /\ dev[calls[i].hub].class = "hub"
          /\ calls[i].port < PortCount(calls[i].hub)
          /\ i < Len(calls) => calls[i].step = "class" /\ calls[i + 1].hub = calls[i].dev
      BY <1>1 DEF Structure, Stack
    <3>2. dev'[calls'[i].hub] = dev[calls[i].hub]
      BY <1>1, <1>3
    <3>3. i < m => i \in 1..(m - 1) /\ i + 1 \in 1..m /\ i < Len(calls)
      BY <1>1
    <3>4. i < m => calls'[i].step = "class" /\ calls'[i + 1].hub = calls'[i].dev
      BY <1>1, <1>3, <3>1, <3>3
    <3>5. (calls[i].port < PortCount(calls[i].hub))'
      BY <1>1, <1>3, <3>1 DEF PortCount
    <3> QED BY <3>1, <3>2, <3>4, <3>5
  <2>2. ASSUME NEW i \in 1..(m - 1) PROVE calls'[i].dev \in Slots /\ dev'[calls'[i].dev].at = PlaceOf(i)'
    <3>1. i \in 1..m /\ dev[calls[i].dev].at = PlaceOf(i)
      BY <1>1, PlaceFacts
    <3> QED BY <1>1, <1>3, <3>1
  <2>3. 1 \in 1..m
    BY <1>1
  <2>4. root_hub' # 0 /\ calls'[1].hub = root_hub'
    BY <1>1, <1>3, <2>3 DEF Structure, Stack
  <2>5. dev'[root_hub'].at = Root /\ dev'[root_hub'].class = "hub"
    BY <1>3, <1>5, <2>4 DEF Structure, Stack
  <2>6. status' # "start"
    BY <1>3 DEF Structure, Stack
  <2> QED BY <1>1, <2>1, <2>2, <2>4, <2>5, <2>6 DEF Stack
<1>7. Forest'
  <2>1. ASSUME NEW h \in Slots, dev'[h].class = "hub", h # root_hub
        PROVE  dev'[h].at # Root /\ plugged'[dev'[h].at] = "hub"
    <3>1. h \notin D /\ dev'[h] = dev[h]
      BY <1>3, <2>1
    <3>2. dev[h].at # Root /\ plugged[dev[h].at] = "hub" /\ dev[h].at \in Paths
      BY <2>1, <3>1, DeviceTypes DEF Structure, Forest
    <3>3. h \notin Members(free)
      BY <2>1, <3>1 DEF Structure, FreeSlots
    <3>4. dev[h].at # PlaceOf(m)
      <4>1. dev[calls[m].dev].at = PlaceOf(m) /\ calls[m].dev \in Slots \ Members(free)
        BY <1>1, <1>3, PlaceFacts
      <4> QED BY <1>3, <3>1, <3>3, <4>1 DEF Structure, FreeSlots
    <3>5. plugged'[dev[h].at] = plugged[dev[h].at]
      BY <3>2, <3>4 DEF Drops
    <3> QED BY <3>1, <3>2, <3>5
  <2>2. \A p \in Paths : plugged'[p] = "hub" => Len(p) < DEPTH
    <3> TAKE p \in Paths
    <3>1. plugged'[p] = "hub" => plugged[p] = "hub"
      BY DEF Drops
    <3> QED BY <3>1 DEF Structure, Forest
  <2>3. ASSUME NEW h \in Slots, NEW c \in Slots, Child(h, c)'
        PROVE  /\ \E q \in Ports : q < PortCount(h)' /\ dev'[c].at = Append(dev'[h].at, q)
               /\ dev'[h].class = "hub"
    <3>1. Child(h, c) /\ dev'[h] = dev[h] /\ dev'[c] = dev[c]
      BY <1>2, <1>3, <2>3
    <3>2. PICK q \in Ports : q < PortCount(h) /\ dev[c].at = Append(dev[h].at, q)
      BY <3>1 DEF Structure, Forest
    <3>3. dev[h].class = "hub"
      BY <3>1 DEF Structure, Forest
    <3> QED BY <1>2, <3>1, <3>2, <3>3
  <2>4. \A g, h, c \in Slots : Child(g, c)' /\ Child(h, c)' => g = h
    BY <1>2 DEF Structure, Forest
  <2>5. \A h \in Slots : IsLinkedOnce(dev'[h].children)
    <3>1. IsLinkedOnce(<< >>)
      BY DEF IsLinkedOnce
    <3> QED BY <1>3, <3>1 DEF Structure, Forest
  <2>6. \A i \in Active', h \in Slots : ~(Child(h, calls[i].dev))'
    <3> SUFFICES ASSUME NEW i \in 1..(m - 1), NEW h \in Slots PROVE ~(Child(h, calls[i].dev))'
      BY <1>1
    <3>1. ~Child(h, calls[i].dev)
      BY <1>1 DEF Structure, Forest
    <3>2. ~Child(h, calls[i].dev) => dev'[h].children = << >> \/ calls[i].dev \notin Members(dev'[h].children)
      BY <1>3 DEF Child
    <3> QED BY <1>3, <3>1, <3>2 DEF Child, Members
  <2> QED BY <1>3, <2>1, <2>2, <2>3, <2>4, <2>5, <2>6 DEF Forest
<1>8. FreeSlots'
  <2>1. Members(free) \subseteq Slots
    BY MembersType DEF Structure, Types
  <2>2. ASSUME NEW s \in Members(free')
        PROVE  /\ s \in Slots /\ s # root_hub /\ dev'[s].children = << >> /\ dev'[s].class = "none"
               /\ \A h \in Slots : ~Child(h, s)'
               /\ \A i \in 1..(m - 1) : calls'[i].dev # s
               /\ \A i \in 1..m : calls'[i].hub # s
    <3>1. CASE s \in D
      <4>1. \A i \in 1..(m - 1) : calls'[i].dev # s
        BY <1>1, <1>3, <3>1
      <4>2. \A i \in 1..m : calls'[i].hub # s
        BY <1>1, <3>1
      <4> QED BY <1>2, <1>3, <3>1, <4>1, <4>2
    <3>2. CASE s \notin D
      <4>1. s \in Members(free) /\ s \in Slots /\ dev'[s] = dev[s]
        BY <1>3, <2>1, <2>2, <3>2
      <4>2. /\ s # root_hub /\ dev[s].children = << >> /\ dev[s].class = "none"
            /\ \A h \in Slots : ~Child(h, s)
            /\ \A i \in Active : calls[i].dev # s
            /\ \A i \in 1..Len(calls) : calls[i].hub # s
        BY <4>1 DEF Structure, FreeSlots
      <4>3. \A i \in 1..(m - 1) : calls'[i].dev # s
        BY <1>1, <1>3, <4>2
      <4>4. \A i \in 1..m : calls'[i].hub # s
        BY <1>1, <4>2
      <4>5. \A h \in Slots : ~Child(h, s)'
        BY <1>2, <4>1, <4>2
      <4> QED BY <4>1, <4>2, <4>3, <4>4, <4>5
    <3> QED BY <3>1, <3>2
  <2>3. ASSUME NEW s \in Slots \ Members(free')
        PROVE  s = root_hub \/ s \in Enumerating' \/ \E h \in Slots : Child(h, s)'
    <3>1. s \notin D /\ s \notin Members(free)
      BY <1>3
    <3>2. s = root_hub \/ s \in Enumerating \/ \E h \in Slots : Child(h, s)
      BY <3>1 DEF Structure, FreeSlots
    <3>3. ASSUME s \in Enumerating PROVE s \in Enumerating'
      <4>1. PICK i \in Active : s = calls[i].dev
        BY <3>3 DEF Enumerating
      <4>2. i # m /\ i \in 1..Len(calls) /\ ~(i > m)
        BY <1>3, <3>1, <4>1 DEF Active, Drops
      <4>3. i \in 1..(m - 1)
        BY <1>1, <4>2
      <4> QED BY <1>1, <1>3, <4>1, <4>3 DEF Enumerating
    <3>4. ASSUME NEW h \in Slots, Child(h, s) PROVE Child(h, s)'
      <4>1. s # calls[m].dev /\ h \notin D
        BY <1>3, <3>1, <3>4 DEF Drops
      <4> QED BY <1>2, <3>1, <3>4, <4>1
    <3> QED BY <3>2, <3>3, <3>4
  <2>4. \A s, t \in Slots \ Members(free') : dev'[s].at = dev'[t].at => s = t
    <3>1. \A s \in Slots \ Members(free') : s \in Slots \ Members(free) /\ dev'[s] = dev[s]
      BY <1>3
    <3> QED BY <3>1 DEF Structure, FreeSlots
  <2> QED BY <1>1, <1>3, <2>2, <2>3, <2>4 DEF FreeSlots
<1> QED BY <1>4, <1>6, <1>7, <1>8 DEF Structure

(* It keeps account of the ports.                                          *)
LEMMA DropProgress ==
  ASSUME Structure, Progress, calls # << >>, NEW m, NEW D, NEW f, Drops(m, D, f)
  PROVE  Progress'
<1>1. /\ m \in 1..Len(calls) /\ m \in Nat /\ m \in 1..m /\ Len(calls') = m /\ calls' # << >>
      /\ \A i \in 1..m : /\ i \in 1..Len(calls) /\ calls'[i].hub = calls[i].hub
                         /\ calls'[i].port = calls[i].port /\ PlaceOf(i)' = PlaceOf(i)
                         /\ calls[i].hub \in Slots \ D /\ (i = m \/ i \in 1..(m - 1))
      /\ Active' = 1..(m - 1)
  BY DropFacts
<1>2. /\ \A h, c \in Slots : Child(h, c)' <=> Child(h, c) /\ h \notin D /\ c \notin D
      /\ \A h : PortCount(h)' = PortCount(h)
      /\ Top' = f /\ Path' = PlaceOf(m) /\ PlaceOf(m) \in Paths
  BY DropFacts
<1>3. /\ \A s \in Slots \ D : dev'[s] = dev[s]
      /\ \A s \in D : dev'[s].class = "none" /\ dev'[s].children = << >>
      /\ \A i \in 1..(m - 1) : calls'[i] = calls[i]
      /\ calls'[m] = f /\ f.step = "end" /\ f.port = calls[m].port /\ f.hub = calls[m].hub
      /\ m \in Active
  BY DEF Drops
<1>4. calls[m].step \notin {"alloc", "end"}
  BY <1>3 DEF Active
<1>5. Kids'
  <2>1. ASSUME NEW i \in 1..m, NEW c \in Slots, (Child(calls[i].hub, c))'
        PROVE  \/ Last(dev'[c].at) < calls'[i].port
               \/ Last(dev'[c].at) = calls'[i].port /\ calls'[i].step = "end" /\ calls'[i].err = "ok"
    <3>2. Child(calls[i].hub, c) /\ c \notin D
      <4> DEFINE h == calls[i].hub
      <4>1. h \in Slots /\ (c \in Members(dev'[h].children))
        BY <1>1, <2>1 DEF Child
      <4> HIDE DEF h
      <4>3. dev'[h] = dev[h]
        BY <1>1, <1>3 DEF h
      <4>4. Child(h, c)
        BY <4>1, <4>3 DEF Child
      <4>5. c # calls[m].dev /\ h \notin D
        BY <1>1, <1>3, <4>1, <4>4 DEF h, Structure, Forest
      <4>6. c \notin D
        BY <4>1, <4>4, <4>5 DEF Drops
      <4> QED BY <4>4, <4>6 DEF h
    <3>3. \/ Last(dev[c].at) < calls[i].port
          \/ Last(dev[c].at) = calls[i].port /\ calls[i].step = "end" /\ calls[i].err = "ok"
      BY <1>1, <3>2 DEF Progress, Kids
    <3>4. dev'[c] = dev[c]
      BY <1>3, <3>2
    <3>5. CASE i = m
      BY <1>1, <1>4, <3>3, <3>4, <3>5
    <3>6. CASE i \in 1..(m - 1)
      BY <1>3, <3>3, <3>4, <3>6
    <3> QED BY <1>1, <3>5, <3>6
  <2>2. ~ (Len(calls') \in Active')
    BY <1>1
  <2> QED BY <1>1, <2>1, <2>2 DEF Kids
<1>6. PortsPast'
  <2> SUFFICES ASSUME NEW h \in Slots, NEW q \in Ports, dev'[h].class = "hub", q < PortCount(h)', Past(h, q)'
               PROVE  PortDone(h, q)'
    BY DEF PortsPast
  <2>1. h \notin D /\ dev'[h] = dev[h] /\ dev[h].class = "hub" /\ q < PortCount(h)
    BY <1>2, <1>3
  <2> DEFINE p == Append(dev[h].at, q)
  <2>2. root_hub # 0
    BY DEF Structure, Stack
  <2>3. p \in Paths /\ Append(dev'[h].at, q) = p
    BY <2>1, <2>2, HubPlace
  <2> HIDE DEF p
  <2>4. failed \subseteq failed' /\ (plugged[p] = "none" => plugged'[p] = "none")
    BY <2>3 DEF Drops
  <2>5. CASE calls[m].hub = h /\ calls[m].port = q
    <3>1. p = PlaceOf(m)
      BY <2>5 DEF p, PlaceOf
    <3>2. p \in failed' \/ plugged'[p] = "none"
      BY <3>1 DEF Drops
    <3> QED BY <2>3, <3>2 DEF PortDone
  <2>6. CASE ~(calls[m].hub = h /\ calls[m].port = q)
    <3>1. Past(h, q)
      <4> SUFFICES ASSUME NEW i \in 1..Len(calls), calls[i].hub = h
                   PROVE  q < calls[i].port \/ (q = calls[i].port /\ calls[i].step = "end")
        BY DEF Past
      <4>1. ~(i > m)
        BY <2>1 DEF Drops
      <4>2. i \in 1..m
        BY <1>1, <4>1
      <4>3. q < calls'[i].port \/ (q = calls'[i].port /\ calls'[i].step = "end")
        BY <1>1, <4>2 DEF Past
      <4>4. CASE i = m
        BY <1>1, <2>6, <4>2, <4>3, <4>4
      <4>5. CASE i \in 1..(m - 1)
        BY <1>3, <4>3, <4>5
      <4> QED BY <1>1, <4>2, <4>4, <4>5
    <3>2. p \in failed \/ plugged[p] = "none" \/ \E c \in Slots : Child(h, c) /\ dev[c].at = p
      BY <2>1, <3>1 DEF Progress, PortsPast, PortDone, p
    <3>3. ASSUME NEW c \in Slots, Child(h, c), dev[c].at = p PROVE Child(h, c)' /\ dev'[c].at = p
      <4>1. c # calls[m].dev
        BY <1>3, <3>3 DEF Structure, Forest
      <4>2. c \notin D
        BY <2>1, <3>3, <4>1 DEF Drops
      <4> QED BY <1>2, <1>3, <2>1, <3>3, <4>2
    <3>4. p \in failed' \/ plugged'[p] = "none" \/ \E c \in Slots : Child(h, c)' /\ dev'[c].at = p
      BY <2>4, <3>2, <3>3
    <3> QED BY <2>3, <3>4 DEF PortDone
  <2> QED BY <2>5, <2>6
<1>7. FailureNoted'
  <2>1. \A i \in 1..(m - 1) : calls[i].step # "end" => calls[i].err = "ok"
    BY <1>1 DEF Progress, FailureNoted
  <2>2. \A i \in 1..m : calls'[i].step # "end" => calls'[i].err = "ok"
    BY <1>1, <1>3, <2>1
  <2>3. f.err # "ok" => Path' \in failed'
    BY <1>2 DEF Drops
  <2> QED BY <1>1, <1>2, <2>2, <2>3 DEF FailureNoted
<1> QED BY <1>5, <1>6, <1>7 DEF Progress

----------------------------------------------------------------------------
(* The ways out.                                                           *)

(* A device with nothing below it is released alone.                       *)
LEMMA ReleasedAlone ==
  ASSUME Structure, NEW s \in Slots, \A c \in Slots : ~Child(s, c)
  PROVE  Released(s) = <<s>>
<1> DEFINE r == Released(s)
<1>1. /\ r \in Seq(Slots) /\ IsLinkedOnce(r) /\ s \in Members(r)
      /\ \A t \in Members(r) : t = s \/ \E h \in Members(r) : Child(h, t)
  BY ReleasedFacts DEF Structure
<1> HIDE DEF r
<1>2. Members(r) \subseteq Slots
  BY <1>1, MembersType
<1>3. Members(r) = {s}
  <2> DEFINE T == Members(r) \ {s}
             L == {Len(dev[t].at) : t \in T}
  <2> SUFFICES ASSUME T # {} PROVE FALSE
    BY <1>1
  <2>1. \A t \in T : t \in Slots /\ Len(dev[t].at) \in Nat
    <3> TAKE t \in T
    <3>1. t \in Slots
      BY <1>2
    <3>2. Len(dev[t].at) \in 0..DEPTH
      BY <3>1, DeviceTypes DEF Structure
    <3> QED BY <3>1, <3>2
  <2>2. L \in SUBSET Nat /\ L # {}
    BY <2>1
  <2>3. PICK k \in L : \A y \in L : k <= y
    BY <2>2, LeastNat
  <2>4. PICK t \in T : Len(dev[t].at) = k
    OBVIOUS
  <2>5. PICK h \in Members(r) : Child(h, t)
    BY <1>1, <2>4
  <2>6. h \in Slots /\ t \in Slots /\ h # s
    BY <1>2, <2>5
  <2>7. Len(dev[t].at) = Len(dev[h].at) + 1
    BY <2>5, <2>6, ChildFacts DEF Structure
  <2>8. h \in T /\ Len(dev[h].at) \in L
    BY <2>6
  <2>9. k <= Len(dev[h].at) /\ Len(dev[h].at) \in Nat
    BY <2>1, <2>3, <2>8
  <2> QED BY <2>4, <2>7, <2>9
<1>4. Len(r) = 1 /\ r[1] = s
  <2>1. Len(r) \in Nat /\ \A i \in 1..Len(r) : r[i] = s
    BY <1>1, <1>3 DEF Members
  <2>2. \E i \in 1..Len(r) : r[i] = s
    BY <1>1 DEF Members
  <2>3. \A i, j \in 1..Len(r) : i = j
    BY <1>1, <2>1 DEF IsLinkedOnce
  <2>4. 1 \in 1..Len(r) /\ ~(2 \in 1..Len(r))
    BY <2>1, <2>2, <2>3
  <2> QED BY <2>1, <2>4
<1> DEFINE u == <<s>>
<1>5. u \in Seq(Slots) /\ Len(u) = 1 /\ u[1] = s
  OBVIOUS
<1> HIDE DEF u
<1>6. \A i \in 1..1 : r[i] = u[i]
  BY <1>4, <1>5
<1>7. r = u
  BY <1>1, <1>4, <1>5, <1>6, SeqEqual
<1> QED BY <1>7 DEF r, u

(* What is deallocated goes back to the free slots.                        *)
LEMMA DeallocateFacts ==
  ASSUME Structure, NEW r \in Seq(Slots), IsLinkedOnce(r), Members(r) \cap Members(free) = {},
         Deallocate(r)
  PROVE  /\ free' \in Seq(Slots) /\ Members(free') = Members(free) \cup Members(r)
         /\ IsLinkedOnce(free')
         /\ dev' \in [Slots -> Devices] /\ Members(r) \subseteq Slots
         /\ \A s \in Slots \ Members(r) : dev'[s] = dev[s]
         /\ \A s \in Members(r) : /\ dev'[s].at = Root /\ dev'[s].class = "none"
                                  /\ dev'[s].children = << >> /\ dev'[s].iface0 = dev[s].iface0
<1>1. Len(r) \in Nat /\ \A i \in 1..Len(r) : r[i] \in Slots
  BY ElementOfSeq
<1> DEFINE v == [i \in 1..Len(r) |-> r[(Len(r) - i) + 1]]
<1>2. \A i \in 1..Len(r) : (Len(r) - i) + 1 \in 1..Len(r)
  BY <1>1
<1>3. v \in Seq(Slots) /\ Len(v) = Len(r) /\ \A i \in 1..Len(r) : v[i] = r[(Len(r) - i) + 1]
  <2>1. \A i \in 1..Len(r) : r[(Len(r) - i) + 1] \in Slots
    BY <1>1, <1>2
  <2> QED BY <1>1, <2>1, IsASeq
<1>4. Reverse(r) = v
  BY DEF Reverse
<1> HIDE DEF v
<1>5. Members(v) = Members(r)
  <2>1. ASSUME NEW x \in Members(v) PROVE x \in Members(r)
    BY <1>2, <1>3 DEF Members
  <2>2. ASSUME NEW x \in Members(r) PROVE x \in Members(v)
    <3>1. PICK i \in 1..Len(r) : x = r[i]
      BY DEF Members
    <3> DEFINE j == (Len(r) - i) + 1
    <3>2. j \in 1..Len(r) /\ (Len(r) - j) + 1 = i
      BY <1>1
    <3> HIDE DEF j
    <3>3. v[j] = x
      BY <1>3, <3>1, <3>2
    <3> QED BY <1>3, <3>2, <3>3 DEF Members
  <2> QED BY <2>1, <2>2
<1>6. IsLinkedOnce(v)
  <2> SUFFICES ASSUME NEW i \in 1..Len(r), NEW j \in 1..Len(r), v[i] = v[j] PROVE i = j
    BY <1>3 DEF IsLinkedOnce
  <2>1. r[(Len(r) - i) + 1] = r[(Len(r) - j) + 1]
    BY <1>3
  <2>2. (Len(r) - i) + 1 = (Len(r) - j) + 1
    BY <1>2, <2>1 DEF IsLinkedOnce
  <2> QED BY <1>1, <2>2
<1>7. free \in Seq(Slots) /\ IsLinkedOnce(free) /\ free' = v \o free
  BY <1>4 DEF Structure, Types, FreeSlots, Deallocate
<1>8. /\ v \o free \in Seq(Slots) /\ Members(v \o free) = Members(v) \cup Members(free)
      /\ IsLinkedOnce(v \o free)
  BY <1>3, <1>5, <1>6, <1>7, ConcatMembers
<1>9. Range(r) = Members(r) /\ Members(r) \subseteq Slots
  <2>1. DOMAIN r = 1..Len(r)
    BY LenProperties
  <2> QED BY <2>1, MembersType DEF Range, Members
<1>10. dev' = [s \in Slots |-> IF s \in Members(r) THEN Device(Root, dev[s].iface0) ELSE dev[s]]
  BY <1>9 DEF Deallocate, Cleared
<1>11. \A s \in Slots : dev[s] \in Devices /\ dev[s].iface0 \in Kinds
  BY DEF Structure, Types, Devices
<1>12. \A k \in Kinds : /\ Device(Root, k) \in Devices /\ Device(Root, k).at = Root
                        /\ Device(Root, k).class = "none" /\ Device(Root, k).children = << >>
                        /\ Device(Root, k).iface0 = k
  BY DEF Device, Devices, States, Classes
<1>13. dev' \in [Slots -> Devices]
  <2>1. \A s \in Slots : (IF s \in Members(r) THEN Device(Root, dev[s].iface0) ELSE dev[s]) \in Devices
    BY <1>11, <1>12
  <2> QED BY <1>10, <2>1
<1>14. \A s \in Slots : dev'[s] = IF s \in Members(r) THEN Device(Root, dev[s].iface0) ELSE dev[s]
  BY <1>10
<1>15. \A s \in Members(r) : /\ dev'[s].at = Root /\ dev'[s].class = "none"
                             /\ dev'[s].children = << >> /\ dev'[s].iface0 = dev[s].iface0
  BY <1>9, <1>11, <1>12, <1>14
<1>16. \A s \in Slots \ Members(r) : dev'[s] = dev[s]
  BY <1>14
<1>17. free' \in Seq(Slots) /\ Members(free') = Members(free) \cup Members(r) /\ IsLinkedOnce(free')
  BY <1>5, <1>7, <1>8
<1> QED BY <1>9, <1>13, <1>15, <1>16, <1>17

(* The device being enumerated goes back as d, and its call ends as f.     *)
Leaves1(f, d) ==
  /\ f \in Frames /\ calls' = [calls EXCEPT ![Len(calls)] = f]
  /\ f.hub = Top.hub /\ f.port = Top.port /\ f.step = "end" /\ f.retries <= MAX_RESET_RETRIES
  /\ d \in Devices /\ d.at = Root /\ d.class = "none" /\ d.children = << >>
  /\ dev' = [dev EXCEPT ![Top.dev] = d]
  /\ free' = <<Top.dev>> \o free
  /\ \/ plugged' = plugged /\ failed' = failed \cup {Path}
     \/ plugged' = [plugged EXCEPT ![Path] = "none"] /\ failed' = failed /\ f.err = "ok"
  /\ answers' \in [Paths -> Int] /\ UNCHANGED <<next_address, root_hub, status>>

(* This is a way out with one device.                                      *)
LEMMA LeaveIsDrop ==
  ASSUME Structure, Progress, calls # << >>, Len(calls) \in Active, Top.step # "report",
         NEW f, NEW d, Leaves1(f, d)
  PROVE  Drops(Len(calls), {Top.dev}, f) /\ Structure' /\ Progress'
<1> DEFINE n == Len(calls)
           D == {Top.dev}
<1>1. /\ n \in Nat /\ n >= 1 /\ n \in 1..n /\ Top = calls[n] /\ Path = PlaceOf(n) /\ Path \in Paths
      /\ Len(Path) = n
      /\ Top.dev \in Slots \ Members(free) /\ Top.dev # root_hub /\ dev[Top.dev].at = Path
      /\ \A h \in Slots : ~Child(h, Top.dev)
  BY TopFacts
<1>2. /\ calls' \in Seq(Frames) /\ Len(calls') = n /\ calls'[n] = f
      /\ \A i \in 1..(n - 1) : calls'[i] = calls[i]
  BY TopBecomes DEF Leaves1
<1>3. dev \in [Slots -> Devices] /\ free \in Seq(Slots) /\ plugged \in [Paths -> Kinds \cup {"?"}]
      /\ failed \subseteq Paths
  BY DEF Structure, Types
<1>4. /\ dev' \in [Slots -> Devices] /\ \A s \in Slots \ D : dev'[s] = dev[s]
      /\ \A s \in D : dev'[s].at = Root /\ dev'[s].class = "none" /\ dev'[s].children = << >>
  BY <1>1, <1>3 DEF Leaves1
<1>5. /\ free' \in Seq(Slots) /\ Members(free') = Members(free) \cup D /\ IsLinkedOnce(free')
  <2> DEFINE u == <<Top.dev>>
  <2>1. u \in Seq(Slots) /\ Members(u) = D /\ IsLinkedOnce(u) /\ D \cap Members(free) = {}
    BY <1>1 DEF Members, IsLinkedOnce
  <2>2. free' = u \o free
    BY DEF Leaves1
  <2> HIDE DEF u, D
  <2>3. IsLinkedOnce(free)
    BY DEF Structure, FreeSlots
  <2>4. /\ u \o free \in Seq(Slots) /\ Members(u \o free) = Members(u) \cup Members(free)
        /\ IsLinkedOnce(u \o free)
    BY <1>3, <2>1, <2>3, ConcatMembers
  <2> QED BY <2>1, <2>2, <2>4
<1>6. ASSUME NEW h \in Slots, NEW c \in Slots, Child(h, c) PROVE h \in D <=> c \in D /\ c # calls[n].dev
  <2>1. dev[Top.dev].children = << >>
    BY DEF Progress, Kids
  <2>2. h # Top.dev
    BY <1>6, <2>1 DEF Child, Members
  <2> QED BY <1>1, <2>2
<1>7. \A i \in 1..n : ~(i > n)
  BY <1>1
<1>8. /\ plugged' \in [Paths -> Kinds \cup {"?"}]
      /\ \A p \in Paths : plugged'[p] # plugged[p] => p = PlaceOf(n) /\ plugged'[p] = "none"
      /\ failed \subseteq failed' /\ failed' \subseteq Paths
      /\ PlaceOf(n) \in failed' \/ (plugged'[PlaceOf(n)] = "none" /\ f.err = "ok")
  <2>1. CASE plugged' = plugged /\ failed' = failed \cup {Path}
    BY <1>1, <1>3, <2>1
  <2>2. CASE plugged' = [plugged EXCEPT ![Path] = "none"] /\ failed' = failed /\ f.err = "ok"
    <3>1. "none" \in Kinds
      BY DEF Kinds
    <3> QED BY <1>1, <1>3, <2>2, <3>1
  <2> QED BY <2>1, <2>2 DEF Leaves1
<1>9. /\ D \subseteq Slots /\ D \cap Members(free) = {} /\ root_hub \notin D /\ calls[n].dev \in D
      /\ \A s \in D : Len(dev[s].at) >= n
  BY <1>1
<1>10. /\ f.hub = calls[n].hub /\ f.port = calls[n].port /\ f.step = "end"
       /\ f.retries <= MAX_RESET_RETRIES
       /\ answers' \in [Paths -> Int] /\ UNCHANGED <<next_address, root_hub, status>>
  BY <1>1 DEF Leaves1
<1> HIDE DEF n, D
<1>11. n \in Active
  BY DEF n
<1>12. \A i \in 1..Len(calls) : i > n => i \notin Active /\ calls[i].hub \in D
  BY <1>7 DEF n
<1>13. Drops(n, D, f)
  BY <1>2, <1>4, <1>5, <1>6, <1>8, <1>9, <1>10, <1>11, <1>12 DEF Drops
<1>14. Structure' /\ Progress'
  BY <1>13, DropTree, DropProgress
<1> QED BY <1>13, <1>14 DEF n, D

(* out_err of usb_hub_enumerate_port, for a device with nothing below it.  *)
LEMMA FailsFacts ==
  ASSUME Structure, Progress, calls # << >>, Len(calls) \in Active, Top.step # "report",
         NEW err \in {"error", "timeout", "inval"}, Fails(err),
         plugged' = plugged, answers' \in [Paths -> Int],
         UNCHANGED <<next_address, root_hub, status>>
  PROVE  Leaves1([Top EXCEPT !.step = "end", !.err = err], Device(Root, dev[Top.dev].iface0))
<1> DEFINE n == Len(calls)
           f == [Top EXCEPT !.step = "end", !.err = err]
           d == Device(Root, dev[Top.dev].iface0)
<1>1. /\ n \in Nat /\ n \in 1..n /\ Top = calls[n] /\ Top \in Frames
      /\ Top.dev \in Slots \ Members(free)
  BY TopFacts
<1>2. calls \in Seq(Frames) /\ DOMAIN calls = 1..n /\ Top.retries <= MAX_RESET_RETRIES
  BY <1>1 DEF Structure, Types
<1>3. calls' = [calls EXCEPT ![n] = f]
  BY <1>1, <1>2 DEF Fails
<1>4. /\ f \in Frames /\ f.hub = Top.hub /\ f.port = Top.port /\ f.step = "end"
      /\ f.retries = Top.retries
  BY <1>1 DEF Frames, Steps
<1>5. \A c \in Slots : ~Child(Top.dev, c)
  BY DEF Progress, Kids, Child, Members
<1>6. Released(Top.dev) = <<Top.dev>>
  BY <1>1, <1>5, ReleasedAlone
<1>7. Reverse(<<Top.dev>>) = <<Top.dev>> /\ Range(<<Top.dev>>) = {Top.dev}
  BY DEF Reverse, Range
<1>8. free' = <<Top.dev>> \o free /\ dev' = Cleared({Top.dev})
  BY <1>6, <1>7 DEF Fails, Deallocate
<1>9. dev' = [dev EXCEPT ![Top.dev] = d]
  BY <1>1, <1>8 DEF Cleared, Structure, Types
<1>10. d \in Devices /\ d.at = Root /\ d.class = "none" /\ d.children = << >>
  <2>1. dev[Top.dev].iface0 \in Kinds
    BY <1>1 DEF Structure, Types, Devices
  <2> QED BY <2>1 DEF Device, Devices, States, Classes
<1>11. failed' = failed \cup {Path}
  BY DEF Fails
<1> HIDE DEF f, d, n
<1>12. Leaves1(f, d)
  BY <1>2, <1>3, <1>4, <1>8, <1>9, <1>10, <1>11 DEF Leaves1, n
<1> QED BY <1>12 DEF f, d

(* The innermost call returns, and the one around it becomes f.            *)
LEMMA PopBecomes ==
  ASSUME Structure, calls # << >>, Len(calls) # 1, NEW f \in Frames,
         calls' = [Front(calls) EXCEPT ![Len(calls) - 1] = f]
  PROVE  /\ Len(calls) - 1 \in 1..(Len(calls) - 1) /\ Len(calls) - 1 \in Nat
         /\ calls' \in Seq(Frames) /\ Len(calls') = Len(calls) - 1 /\ calls' # << >>
         /\ calls'[Len(calls) - 1] = f /\ Top' = f
         /\ \A i \in 1..(Len(calls) - 2) : calls'[i] = calls[i] /\ i \in 1..(Len(calls) - 1)
         /\ \A i \in 1..(Len(calls) - 1) : i = Len(calls) - 1 \/ i \in 1..(Len(calls) - 2)
<1> DEFINE n == Len(calls)
           r == Front(calls)
           w == [r EXCEPT ![n - 1] = f]
<1>1. n \in Nat /\ n >= 2 /\ calls \in Seq(Frames)
  <2>1. n \in Nat /\ n >= 1 /\ n # 1
    BY TopFacts
  <2>2. calls \in Seq(Frames)
    BY DEF Structure, Types
  <2> HIDE DEF n
  <2>3. n >= 2
    BY <2>1
  <2> QED BY <2>1, <2>2, <2>3
<1>2. /\ r \in Seq(Frames) /\ Len(r) = n - 1 /\ \A i \in 1..(n - 1) : r[i] = calls[i]
  <2>1. \A i \in 1..(n - 1) : calls[i] \in Frames
    BY <1>1, ElementOfSeq
  <2> QED BY <1>1, <2>1, SubSeqProperties DEF Front
<1>3. calls' = w
  OBVIOUS
<1> HIDE DEF n, r
<1>4. n - 1 \in 1..(n - 1) /\ n - 1 \in Nat /\ n - 1 # 0
  BY <1>1
<1>5. /\ w \in Seq(Frames) /\ Len(w) = n - 1
      /\ \A i \in 1..(n - 1) : w[i] = IF i = n - 1 THEN f ELSE r[i]
  BY <1>2, <1>4, ExceptSeq
<1> HIDE DEF w
<1>6. \A i \in 1..(n - 2) : i \in 1..(n - 1) /\ i # n - 1
  BY <1>1
<1>7. w[n - 1] = f /\ \A i \in 1..(n - 2) : w[i] = calls[i]
  BY <1>2, <1>4, <1>5, <1>6
<1>8. w # << >>
  BY <1>4, <1>5
<1>9. Top' = w[n - 1]
  BY <1>3, <1>5 DEF Top
<1>10. \A i \in 1..(n - 1) : i = n - 1 \/ i \in 1..(n - 2)
  BY <1>1
<1> QED BY <1>3, <1>4, <1>5, <1>6, <1>7, <1>8, <1>9, <1>10 DEF n

(* A hub whose last port failed goes back with all that is below it.       *)
LEMMA HubFailsDrop ==
  ASSUME Structure, Progress, calls # << >>, HubFails, Len(calls) # 1
  PROVE  /\ Drops(Len(calls) - 1, Members(Released(Top.hub)),
                  [calls[Len(calls) - 1] EXCEPT !.step = "end", !.err = HubError])
         /\ Structure' /\ Progress'
         /\ failed' = failed \cup {PlaceOf(Len(calls) - 1)} /\ Top.hub = calls[Len(calls) - 1].dev
<1> DEFINE n == Len(calls)
           m == Len(calls) - 1
           r == Released(Top.hub)
           D == Members(r)
           f == [calls[m] EXCEPT !.step = "end", !.err = HubError]
<1>1. /\ n \in Nat /\ n >= 1 /\ n \in 1..n /\ Top = calls[n] /\ Top \in Frames
      /\ Top.hub \in Slots \ Members(free) /\ n \notin Active
      /\ \A i \in 1..(n - 1) : /\ i \in 1..n /\ i \in Active /\ calls[i].step = "class"
                               /\ calls[i].dev \in Slots \ Members(free) /\ calls[i].dev # root_hub
                               /\ calls[i].dev = calls[i + 1].hub
                               /\ dev[calls[i].dev].at = PlaceOf(i) /\ PlaceOf(i) \in Paths
                               /\ Len(PlaceOf(i)) = i
  BY TopFacts DEF HubFails, At
<1>2. m \in Nat /\ m >= 1 /\ m \in 1..(n - 1) /\ m + 1 = n /\ m = n - 1
  <2>1. n \in Nat /\ n >= 1 /\ n # 1 /\ m = n - 1
    BY <1>1
  <2> HIDE DEF n, m
  <2> QED BY <2>1
<1>3. /\ m \in Active /\ calls[m].dev = Top.hub /\ Top.hub # root_hub
      /\ dev[Top.hub].at = PlaceOf(m) /\ PlaceOf(m) \in Paths /\ Len(PlaceOf(m)) = m
  <2> HIDE DEF n, m, f, r
  <2>1. /\ m \in Active /\ calls[m].dev \in Slots \ Members(free) /\ calls[m].dev # root_hub
        /\ calls[m].dev = calls[m + 1].hub
        /\ dev[calls[m].dev].at = PlaceOf(m) /\ PlaceOf(m) \in Paths
        /\ Len(PlaceOf(m)) = m
    BY <1>1, <1>2
  <2>2. calls[m + 1].hub = Top.hub
    BY <1>1, <1>2
  <2> QED BY <2>1, <2>2
<1> DEFINE t == Top.hub
<1>4. /\ r \in Seq(Slots) /\ IsLinkedOnce(r) /\ t \in D
      /\ \A s \in D : Under(t, s) /\ (s = t \/ \E h \in D : Child(h, s))
      /\ \A s \in D, c \in Slots : Child(s, c) => c \in D
  BY <1>1, ReleasedFacts DEF Structure
<1>5. /\ Deallocate(r) /\ failed' = failed \cup {dev[t].at}
      /\ calls' = [Front(calls) EXCEPT ![Len(calls) - 1].step = "end", ![Len(calls) - 1].err = HubError]
      /\ UNCHANGED <<plugged, answers, root_hub, next_address, status>>
  BY DEF HubFails
<1>6. calls[m] \in Frames /\ HubError \in {"ok", "error", "timeout", "inval"}
  <2>1. calls[m] \in Frames
    BY <1>1, <1>2, FrameTypes DEF Structure
  <2>2. Top.err \in {"ok", "error", "timeout", "inval"}
    BY <1>1 DEF Frames
  <2> QED BY <2>1, <2>2 DEF HubError
<1>7. /\ f \in Frames /\ f.hub = calls[m].hub /\ f.port = calls[m].port /\ f.step = "end"
      /\ f.retries = calls[m].retries
  BY <1>6 DEF Frames, Steps
<1>8. calls' = [Front(calls) EXCEPT ![Len(calls) - 1] = f]
  <2>1. Front(calls) \in Seq(Frames) /\ Len(Front(calls)) = n - 1 /\ Front(calls)[m] = calls[m]
    <3>1. calls \in Seq(Frames) /\ \A i \in 1..(n - 1) : calls[i] \in Frames
      BY <1>1, FrameTypes DEF Structure, Types
    <3>2. \A i \in 1..(n - 1) : SubSeq(calls, 1, n - 1)[i] = calls[i]
      BY <1>1, <3>1, SubSeqProperties
    <3>3. SubSeq(calls, 1, n - 1) \in Seq(Frames) /\ Len(SubSeq(calls, 1, n - 1)) = n - 1
      BY <1>1, <1>2, <3>1, SubSeqProperties
    <3> QED BY <1>2, <3>2, <3>3 DEF Front
  <2> DEFINE g == Front(calls)
             e == HubError
  <2>2. calls' = [g EXCEPT ![m].step = "end", ![m].err = e]
    BY <1>5
  <2>3. DOMAIN g = 1..(n - 1) /\ g[m] = calls[m]
    BY <2>1, LenProperties
  <2> HIDE DEF g, e, m, n
  <2>4. [g EXCEPT ![m].step = "end", ![m].err = e] = [g EXCEPT ![m] = [calls[m] EXCEPT !.step = "end", !.err = e]]
    BY <1>2, <2>3
  <2> QED BY <2>2, <2>4 DEF g, e, m
<1> HIDE DEF f, D, r, t, m, n
<1>9. /\ calls' \in Seq(Frames) /\ Len(calls') = m /\ calls'[m] = f
      /\ \A i \in 1..(m - 1) : calls'[i] = calls[i]
  <2>1. /\ calls' \in Seq(Frames) /\ Len(calls') = n - 1 /\ calls'[n - 1] = f
        /\ \A i \in 1..(n - 2) : calls'[i] = calls[i]
    BY <1>7, <1>8, PopBecomes DEF n
  <2>2. n - 2 = m - 1
    BY <1>1, <1>2
  <2> QED BY <1>2, <2>1, <2>2
<1>10. D \subseteq Slots
  BY <1>4, MembersType DEF D
<1>11. D \cap Members(free) = {}
  <2>1. t \notin Members(free)
    BY <1>1 DEF t
  <2>2. ASSUME NEW s \in D, NEW h \in D, Child(h, s) PROVE s \notin Members(free)
    BY <1>10, <2>2, ChildFacts DEF Structure
  <2> QED BY <1>4, <2>1, <2>2
<1>12. \A s \in D : Len(dev[s].at) >= m /\ s # root_hub
  <2> TAKE s \in D
  <2>1. Len(dev[t].at) <= Len(dev[s].at) /\ Len(dev[t].at) = m
    BY <1>3, <1>4 DEF Under, t
  <2>2. Len(dev[s].at) \in 0..DEPTH
    BY <1>10, DeviceTypes DEF Structure
  <2>3. Len(dev[s].at) >= m
    BY <1>2, <2>1, <2>2
  <2>4. root_hub # 0 /\ Len(dev[root_hub].at) = 0
    BY DEF Structure, Stack, Root
  <2> QED BY <1>2, <2>3, <2>4
<1>13. ASSUME NEW h \in Slots, NEW c \in Slots, Child(h, c) PROVE h \in D <=> c \in D /\ c # calls[m].dev
  <2>1. c # calls[m].dev
    BY <1>3, <1>13 DEF Structure, Forest
  <2>2. ASSUME c \in D PROVE h \in D
    <3>1. PICK g \in D : Child(g, c)
      BY <1>3, <1>4, <2>1, <2>2 DEF t
    <3>2. g = h
      BY <1>10, <1>13, <3>1 DEF Structure, Forest
    <3> QED BY <3>1, <3>2
  <2> QED BY <1>4, <1>13, <2>1, <2>2
<1>14. \A i \in 1..Len(calls) : i > m => i \notin Active /\ calls[i].hub \in D
  <2> SUFFICES ASSUME NEW i \in 1..n, i > m PROVE i \notin Active /\ calls[i].hub \in D
    BY DEF n
  <2>1. i = n
    BY <1>1, <1>2
  <2> QED BY <1>1, <1>4, <2>1 DEF t
<1>15. /\ free' \in Seq(Slots) /\ Members(free') = Members(free) \cup D /\ IsLinkedOnce(free')
       /\ dev' \in [Slots -> Devices]
       /\ \A s \in Slots \ D : dev'[s] = dev[s]
       /\ \A s \in D : dev'[s].at = Root /\ dev'[s].class = "none" /\ dev'[s].children = << >>
  BY <1>4, <1>5, <1>11, DeallocateFacts DEF D
<1>16. /\ plugged' \in [Paths -> Kinds \cup {"?"}] /\ answers' \in [Paths -> Int]
       /\ \A p \in Paths : plugged'[p] = plugged[p]
       /\ failed' = failed \cup {PlaceOf(m)} /\ failed' \subseteq Paths
  BY <1>3, <1>5 DEF Structure, Types, t
<1>17. f.retries <= MAX_RESET_RETRIES
  <2>1. m \in 1..Len(calls)
    BY <1>1, <1>2 DEF n
  <2> QED BY <1>7, <2>1 DEF Structure, Types
<1>18. calls[m].dev \in D /\ root_hub \notin D
  BY <1>3, <1>4, <1>12 DEF t
<1>19. Drops(m, D, f)
  BY <1>3, <1>5, <1>7, <1>9, <1>10, <1>11, <1>12, <1>13, <1>14, <1>15, <1>16, <1>17, <1>18 DEF Drops
<1>20. Structure' /\ Progress'
  BY <1>19, DropTree, DropProgress
<1> QED BY <1>3, <1>16, <1>19, <1>20 DEF f, m, D, r

(* The last port of the root hub fails: the root hub has no child, and so  *)
(* nothing is released.                                                    *)
LEMMA RootFails ==
  ASSUME Structure, Progress, calls # << >>, HubFails, Len(calls) = 1
  PROVE  UNCHANGED <<dev, free, failed>> /\ calls' = << >> /\ status' = "off"
<1>1. /\ Top = calls[1] /\ 1 \in 1..Len(calls) /\ Top.port \in Ports /\ Top.step = "end"
      /\ Top.err # "ok"
  BY TopFacts DEF HubFails, At, HubError
<1>2. calls[1].hub = root_hub /\ Top.port < PortCount(root_hub) /\ root_hub # 0
  BY <1>1 DEF Structure, Stack
<1>3. root_hub \in Slots
  BY <1>2 DEF Structure, Types, Slots
<1>4. Top.port = 0
  BY <1>1, <1>2 DEF PortCount, Ports
<1>5. \A c \in Slots : ~Child(root_hub, c)
  <2> SUFFICES ASSUME NEW c \in Slots, Child(root_hub, c) PROVE FALSE
    OBVIOUS
  <2>1. \/ Last(dev[c].at) < Top.port
        \/ Last(dev[c].at) = Top.port /\ Top.step = "end" /\ Top.err = "ok"
    BY <1>1, <1>2 DEF Progress, Kids
  <2>2. Last(dev[c].at) \in Ports
    BY <1>3, ChildPort
  <2> QED BY <1>1, <1>4, <2>1, <2>2 DEF Ports
<1> DEFINE r == Front(<<root_hub>>)
<1>6. Released(root_hub) = <<root_hub>>
  BY <1>3, <1>5, ReleasedAlone
<1>7. Deallocate(r) /\ calls' = << >> /\ status' = "off" /\ failed' = failed
  BY <1>6 DEF HubFails
<1>8. r = << >>
  <2>1. Len(<<root_hub>>) - 1 = 0
    OBVIOUS
  <2>2. SubSeq(<<root_hub>>, 1, 0) = << >>
    OBVIOUS
  <2> QED BY <2>1, <2>2 DEF Front
<1>9. free \in Seq(Slots) /\ dev \in [Slots -> Devices]
  BY DEF Structure, Types
<1>10. Reverse(<< >>) = << >> /\ Range(<< >>) = {} /\ << >> \o free = free
  BY <1>9 DEF Reverse, Range
<1>11. free' = free
  BY <1>7, <1>8, <1>10 DEF Deallocate
<1>12. dev' = [s \in Slots |-> dev[s]]
  BY <1>7, <1>8, <1>10 DEF Deallocate, Cleared
<1> QED BY <1>7, <1>9, <1>11, <1>12

(* The enumeration of the root hub returns.                                *)
LEMMA RootReturns ==
  ASSUME Structure, Progress, calls # << >>, Len(calls) = 1, Top.step = "end", LastPort,
         calls' = << >>, status' \in {"ready", "off"},
         UNCHANGED <<plugged, answers, dev, free, root_hub, next_address, failed>>
  PROVE  Structure' /\ Progress'
<1>1. /\ Top = calls[1] /\ 1 \in 1..Len(calls) /\ Top.port \in Ports /\ \A i \in 1..Len(calls) : i = 1
      /\ Len(calls) \notin Active
  BY TopFacts
<1>2. calls[1].hub = root_hub /\ root_hub # 0
  BY <1>1 DEF Structure, Stack
<1>3. Len(<< >>) = 0 /\ 1..Len(<< >>) = {}
  OBVIOUS
<1>4. Active' = {} /\ Enumerating' = {}
  BY <1>3 DEF Active, Enumerating
<1>5. Enumerating = {}
  BY <1>1 DEF Enumerating, Active
<1>6. Types'
  <2>1. calls' \in Seq(Frames) /\ \A i \in 1..Len(calls') : calls'[i].retries <= MAX_RESET_RETRIES
    BY <1>3
  <2> QED BY <2>1 DEF Structure, Types
<1>7. Stack'
  BY <1>2, <1>3 DEF Structure, Stack
<1>8. Forest'
  BY <1>4 DEF Structure, Forest, Child, PortCount
<1>9. FreeSlots'
  <2>1. \A s \in Slots \ Members(free) : s = root_hub \/ \E h \in Slots : Child(h, s)
    BY <1>5 DEF Structure, FreeSlots
  <2> QED BY <1>3, <1>4, <2>1 DEF Structure, FreeSlots, Child
<1>10. Kids'
  BY <1>3 DEF Kids
<1>11. PortsPast'
  <2> SUFFICES ASSUME NEW h \in Slots, NEW q \in Ports, dev[h].class = "hub", q < PortCount(h)
               PROVE  PortDone(h, q)'
    BY DEF PortsPast, PortCount
  <2>1. Past(h, q)
    <3> SUFFICES ASSUME root_hub = h PROVE q < Top.port \/ (q = Top.port /\ Top.step = "end")
      BY <1>1, <1>2 DEF Past
    <3>1. PortCount(h) = 1
      BY DEF PortCount
    <3> QED BY <1>1, <3>1 DEF Ports
  <2>2. PortDone(h, q)
    BY <2>1 DEF Progress, PortsPast
  <2> QED BY <2>2 DEF PortDone, Child
<1>12. FailureNoted'
  BY <1>3 DEF FailureNoted
<1> QED BY <1>6, <1>7, <1>8, <1>9, <1>10, <1>11, <1>12 DEF Structure, Progress

(* The enumeration of a hub returns, and it is reported to its own hub.    *)
LEMMA HubReturns ==
  ASSUME Structure, Progress, calls # << >>, HubDone, Len(calls) # 1
  PROVE  /\ Structure' /\ Progress' /\ Active' = Active
         /\ calls' \in Seq(Frames) /\ Len(calls') = Len(calls) - 1 /\ calls' # << >>
         /\ Len(calls) - 1 \in 1..(Len(calls) - 1) /\ Top' = [calls[Len(calls) - 1] EXCEPT !.step = "report"]
         /\ calls'[Len(calls) - 1] = [calls[Len(calls) - 1] EXCEPT !.step = "report"]
         /\ \A i \in 1..(Len(calls) - 2) : calls'[i] = calls[i]
         /\ \A i \in 1..(Len(calls) - 1) : i = Len(calls) - 1 \/ i \in 1..(Len(calls) - 2)
<1> DEFINE n == Len(calls)
           m == n - 1
           f == [calls[m] EXCEPT !.step = "report"]
<1>1. /\ n \in Nat /\ n >= 1 /\ n \in 1..n /\ Top = calls[n] /\ Top \in Frames /\ n # 1
      /\ Top.hub \in Slots \ Members(free) /\ n \notin Active /\ Top.port \in Ports
      /\ Top.step = "end" /\ LastPort
      /\ \A i \in 1..(n - 1) : /\ i \in 1..n /\ i \in Active /\ calls[i].step = "class"
                               /\ calls[i].dev \in Slots /\ calls[i].dev = calls[i + 1].hub
  BY TopFacts DEF HubDone, At
<1>2. UNCHANGED <<plugged, answers, dev, free, root_hub, next_address, status, failed>>
  BY DEF HubDone
<1>3. calls \in Seq(Frames) /\ \A i \in 1..n : calls[i] \in Frames /\ calls[i].hub \in Slots
  BY FrameTypes DEF Structure, Types
<1>4. calls' = [Front(calls) EXCEPT ![Len(calls) - 1].step = "report"]
  BY DEF HubDone
<1> DEFINE g == Front(calls)
<1>5. g = SubSeq(calls, 1, n - 1)
  BY DEF Front
<1> HIDE DEF n, m, f, g
<1>6. m \in Nat /\ m >= 1 /\ m \in 1..(n - 1) /\ m + 1 = n /\ m \in 1..m /\ m < n /\ n - 2 = m - 1
  BY <1>1 DEF m
<1>7. /\ calls[m] \in Frames /\ m \in Active /\ calls[m].step = "class" /\ calls[m].dev = Top.hub
      /\ \A i \in 1..m : i \in 1..n /\ (i = m \/ i \in 1..(m - 1))
      /\ \A i \in 1..(m - 1) : i \in 1..m
      /\ \A i \in 1..n : i = n \/ i \in 1..m
  <2>1. calls[m] \in Frames /\ m \in Active /\ calls[m].step = "class" /\ calls[m].dev = calls[m + 1].hub
    BY <1>1, <1>3, <1>6
  <2> QED BY <1>1, <1>6, <2>1
<1>8. /\ f \in Frames /\ f.step = "report" /\ f.hub = calls[m].hub /\ f.port = calls[m].port
      /\ f.dev = calls[m].dev /\ f.retries = calls[m].retries /\ f.err = calls[m].err
  BY <1>7 DEF Frames, Steps, f
<1>9. calls' = [g EXCEPT ![m] = f]
  <2>1. g \in Seq(Frames) /\ Len(g) = n - 1 /\ g[m] = calls[m]
    <3>1. \A i \in 1..(n - 1) : calls[i] \in Frames
      BY <1>1, <1>3
    <3>2. \A i \in 1..(n - 1) : g[i] = calls[i]
      BY <1>1, <1>5, <3>1, SubSeqProperties
    <3>3. g \in Seq(Frames) /\ Len(g) = n - 1
      BY <1>1, <1>5, <1>6, <3>1, SubSeqProperties
    <3> QED BY <1>6, <3>2, <3>3
  <2>2. calls' = [g EXCEPT ![m].step = "report"]
    BY <1>4 DEF g, m, n
  <2>3. DOMAIN g = 1..(n - 1)
    BY <2>1, LenProperties
  <2>4. [g EXCEPT ![m].step = "report"] = [g EXCEPT ![m] = [calls[m] EXCEPT !.step = "report"]]
    BY <1>6, <2>1, <2>3
  <2> QED BY <2>2, <2>4 DEF f
<1>10. /\ calls' \in Seq(Frames) /\ Len(calls') = m /\ calls'[m] = f /\ Top' = f /\ calls' # << >>
       /\ \A i \in 1..(m - 1) : calls'[i] = calls[i]
  <2>1. /\ calls' \in Seq(Frames) /\ Len(calls') = n - 1 /\ calls'[n - 1] = f /\ calls' # << >>
        /\ \A i \in 1..(n - 2) : calls'[i] = calls[i] /\ Top' = f
    BY <1>1, <1>8, <1>9, PopBecomes DEF n, m, g
  <2>2. Top' = f
    BY <1>1, <1>8, <1>9, PopBecomes DEF n, m, g
  <2> QED BY <1>6, <2>1, <2>2 DEF m
<1>11. \A i \in 1..m : /\ calls'[i].hub = calls[i].hub /\ calls'[i].port = calls[i].port
                       /\ calls'[i].dev = calls[i].dev /\ calls'[i].retries = calls[i].retries
                       /\ calls'[i].err = calls[i].err
                       /\ calls'[i].step \notin {"alloc", "end"}
                       /\ calls[i].step = "class" /\ i \in Active
  BY <1>1, <1>6, <1>7, <1>8, <1>10 DEF m
<1>12. Active' = Active /\ Active = 1..m
  <2>1. Active' = 1..m
    BY <1>10, <1>11 DEF Active
  <2>2. \A i \in Active : i \in 1..n /\ i # n
    BY <1>1 DEF Active, n
  <2> QED BY <1>7, <1>11, <2>1, <2>2
<1>13. Enumerating' = Enumerating
  BY <1>11, <1>12 DEF Enumerating
<1>14. Types'
  <2>1. \A i \in 1..Len(calls') : calls'[i].retries <= MAX_RESET_RETRIES
    BY <1>7, <1>10, <1>11 DEF Structure, Types, n
  <2> QED BY <1>2, <1>10, <2>1 DEF Structure, Types
<1>15. Stack'
  <2>1. ASSUME NEW i \in 1..m
        PROVE  /\ Len(dev'[calls'[i].hub].at) = i - 1 /\ (calls[i].port < PortCount(calls[i].hub))'
               /\ dev'[calls'[i].hub].class = "hub"
               /\ i < m => calls'[i].step = "class" /\ calls'[i + 1].hub = calls'[i].dev
               /\ calls'[i].dev \in Slots /\ dev'[calls'[i].dev].at = PlaceOf(i)'
    <3>1. /\ Len(dev[calls[i].hub].at) = i - 1 /\ dev[calls[i].hub].class = "hub"
          /\ calls[i].port < PortCount(calls[i].hub)
          /\ i < n => calls[i + 1].hub = calls[i].dev
          /\ calls[i].dev \in Slots /\ dev[calls[i].dev].at = PlaceOf(i)
      BY <1>7, <1>11 DEF Structure, Stack, n
    <3>2. i < m => i \in 1..(m - 1) /\ i + 1 \in 1..m /\ i < n
      BY <1>6
    <3>3. i < m => calls'[i].step = "class" /\ calls'[i + 1].hub = calls'[i].dev
      BY <1>10, <1>11, <3>1, <3>2
    <3> QED BY <1>2, <1>11, <3>1, <3>3 DEF PortCount, PlaceOf
  <2>2. 1 \in 1..m
    BY <1>6
  <2>3. root_hub' # 0 /\ calls'[1].hub = root_hub'
    BY <1>2, <1>11, <2>2 DEF Structure, Stack
  <2>4. dev'[root_hub'].at = Root /\ dev'[root_hub'].class = "hub"
    BY <1>2, <2>3 DEF Structure, Stack
  <2>5. status' # "start"
    BY <1>2 DEF Structure, Stack
  <2> QED BY <1>10, <2>1, <2>3, <2>4, <2>5, SMTT(30) DEF Stack
<1>16. Forest'
  <2>1. \A i \in Active', h \in Slots : ~(Child(h, calls[i].dev))'
    BY <1>2, <1>11, <1>12 DEF Structure, Forest, Child
  <2> QED BY <1>2, <2>1 DEF Structure, Forest, Child, PortCount
<1>17. FreeSlots'
  <2>1. \A s \in Members(free) : /\ \A i \in Active' : calls'[i].dev # s
                                 /\ \A i \in 1..m : calls'[i].hub # s
    BY <1>7, <1>11, <1>12 DEF Structure, FreeSlots, n
  <2> QED BY <1>2, <1>10, <1>13, <2>1 DEF Structure, FreeSlots, Child
<1>18. Kids'
  <2>1. ASSUME NEW i \in 1..m, NEW c \in Slots, (Child(calls[i].hub, c))'
        PROVE  \/ Last(dev'[c].at) < calls'[i].port
               \/ Last(dev'[c].at) = calls'[i].port /\ calls'[i].step = "end" /\ calls'[i].err = "ok"
    <3>1. Child(calls[i].hub, c)
      BY <1>2, <1>11, <2>1 DEF Child
    <3>2. \/ Last(dev[c].at) < calls[i].port
          \/ Last(dev[c].at) = calls[i].port /\ calls[i].step = "end" /\ calls[i].err = "ok"
      BY <1>7, <3>1 DEF Progress, Kids, n
    <3> QED BY <1>2, <1>11, <3>2
  <2> QED BY <1>8, <1>10, <2>1 DEF Kids
<1>19. PortsPast'
  <2> SUFFICES ASSUME NEW h \in Slots, NEW q \in Ports, dev'[h].class = "hub", q < PortCount(h)', Past(h, q)'
               PROVE  PortDone(h, q)'
    BY DEF PortsPast
  <2>1. dev[h].class = "hub" /\ q < PortCount(h)
    BY <1>2 DEF PortCount
  <2>2. Past(h, q)
    <3> SUFFICES ASSUME NEW i \in 1..n, calls[i].hub = h
                 PROVE  q < calls[i].port \/ (q = calls[i].port /\ calls[i].step = "end")
      BY DEF Past, n
    <3>1. CASE i = n
      <4>1. PortCount(h) <= Top.port + 1 /\ PortCount(h) \in Nat
        BY <1>1, <3>1 DEF LastPort, PortCount, Ports
      <4> QED BY <1>1, <2>1, <3>1, <4>1 DEF Ports
    <3>2. CASE i \in 1..m
      <4>1. q < calls'[i].port \/ (q = calls'[i].port /\ calls'[i].step = "end")
        BY <1>10, <1>11, <3>2 DEF Past
      <4> QED BY <1>11, <3>2, <4>1
    <3> QED BY <1>7, <3>1, <3>2
  <2>3. PortDone(h, q)
    BY <2>1, <2>2 DEF Progress, PortsPast
  <2> QED BY <1>2, <2>3 DEF PortDone, Child
<1>20. FailureNoted'
  <2>1. \A i \in 1..m : calls[i].err = "ok"
    <3> TAKE i \in 1..m
    <3>1. i \in 1..Len(calls) /\ calls[i].step # "end"
      BY <1>7, <1>11 DEF n
    <3> QED BY <3>1 DEF Progress, FailureNoted
  <2>2. \A i \in 1..m : calls'[i].err = "ok"
    BY <1>11, <2>1
  <2> QED BY <1>8, <1>10, <2>2 DEF FailureNoted
<1>21. Structure' /\ Progress'
  BY <1>14, <1>15, <1>16, <1>17, <1>18, <1>19, <1>20 DEF Structure, Progress
<1>22. /\ m \in 1..m /\ \A i \in 1..m : i = m \/ i \in 1..(n - 2)
       /\ \A i \in 1..(n - 2) : calls'[i] = calls[i]
  BY <1>6, <1>7, <1>10
<1> QED BY <1>10, <1>12, <1>21, <1>22 DEF m, n, f

----------------------------------------------------------------------------
(* The steps that add to the tree or to the calls.                         *)

(* A slot is taken for the device at the port.                             *)
LEMMA AllocStep ==
  ASSUME Structure, Progress, calls # << >>, PortAlloc, free # << >>
  PROVE  /\ Structure' /\ Progress' /\ Active' = Active \cup {Len(calls)} /\ Len(calls) \notin Active
         /\ Len(calls') = Len(calls) /\ Head(free) \in Members(free) /\ Head(free) \in Slots
         /\ Members(free') = Members(free) \ {Head(free)}
         /\ \A i \in 1..(Len(calls) - 1) : calls'[i] = calls[i] /\ i \in Active
         /\ Top' = [Top EXCEPT !.step = "debounce", !.dev = Head(free)]
         /\ calls'[Len(calls)] = [Top EXCEPT !.step = "debounce", !.dev = Head(free)]
         /\ dev'[Head(free)] = Device(Path, dev[Head(free)].iface0)
         /\ \A s \in Slots : s # Head(free) => dev'[s] = dev[s]
         /\ \A h, c \in Slots : Child(h, c)' <=> Child(h, c)
<1> DEFINE n == Len(calls)
           s == Head(free)
           d == Device(Path, dev[s].iface0)
           f == [Top EXCEPT !.step = "debounce", !.dev = s]
<1>1. /\ n \in Nat /\ n >= 1 /\ n \in 1..n /\ Top = calls[n] /\ Top \in Frames
      /\ Top.hub \in Slots \ Members(free) /\ n \notin Active /\ Top.port \in Ports
      /\ Path = PlaceOf(n) /\ Path \in Paths /\ Len(Path) = n /\ Top.step = "alloc"
      /\ \A i \in 1..(n - 1) : /\ i \in 1..n /\ i \in Active
                               /\ calls[i].dev \in Slots \ Members(free)
                               /\ dev[calls[i].dev].at = PlaceOf(i) /\ PlaceOf(i) # Path
  BY TopFacts DEF PortAlloc, At
<1>2. /\ free' = Tail(free) /\ dev' = [dev EXCEPT ![s] = d]
      /\ calls' = [calls EXCEPT ![Len(calls)].step = "debounce", ![Len(calls)].dev = s]
      /\ UNCHANGED <<plugged, answers, root_hub, next_address, status, failed>>
  BY DEF PortAlloc
<1>3. /\ free \in Seq(Slots) /\ IsLinkedOnce(free) /\ dev \in [Slots -> Devices]
      /\ calls \in Seq(Frames)
  BY DEF Structure, Types, FreeSlots
<1>4. /\ s \in Slots /\ Tail(free) \in Seq(Slots) /\ Members(free) = {s} \cup Members(Tail(free))
      /\ IsLinkedOnce(Tail(free)) /\ s \notin Members(Tail(free))
  BY <1>3, TailMembers
<1>5. /\ s \in Members(free) /\ free' \in Seq(Slots) /\ Members(free') = Members(free) \ {s}
      /\ IsLinkedOnce(free')
  BY <1>2, <1>4
<1>6. /\ f \in Frames /\ f.hub = Top.hub /\ f.port = Top.port /\ f.step = "debounce" /\ f.dev = s
      /\ f.retries = Top.retries /\ f.err = Top.err
  <2>1. s \in 0..DEVICE_SLOTS
    BY <1>4 DEF Slots
  <2>2. Top \in Frames
    BY <1>1
  <2> HIDE DEF s
  <2> QED BY <2>1, <2>2 DEF Frames, Steps
<1>7. calls' = [calls EXCEPT ![n] = f]
  <2>1. DOMAIN calls = 1..n
    BY <1>3
  <2> QED BY <1>1, <1>2, <2>1
<1>8. /\ d \in Devices /\ d.at = Path /\ d.class = "none" /\ d.children = << >>
  <2>1. dev[s].iface0 \in Kinds
    BY <1>3, <1>4 DEF Devices
  <2> QED BY <1>1, <2>1 DEF Device, Devices, States, Classes
<1> HIDE DEF f, d, s
<1>9. /\ calls' \in Seq(Frames) /\ Len(calls') = n /\ calls' # << >> /\ calls'[n] = f /\ Top' = f
      /\ \A i \in 1..(n - 1) : calls'[i] = calls[i]
  BY <1>6, <1>7, TopBecomes
<1> HIDE DEF n
<1>10. /\ dev' \in [Slots -> Devices] /\ dev'[s] = d /\ \A t \in Slots : t # s => dev'[t] = dev[t]
  BY <1>2, <1>3, <1>4, <1>8
<1>11. /\ s # root_hub /\ dev[s].children = << >> /\ dev[s].class = "none"
       /\ \A h \in Slots : ~Child(h, s)
       /\ \A i \in Active : calls[i].dev # s
       /\ \A i \in 1..n : calls[i].hub # s
  BY <1>5 DEF Structure, FreeSlots, n
<1>12. \A h, c \in Slots : Child(h, c)' <=> Child(h, c)
  BY <1>8, <1>10, <1>11 DEF Child
<1>13. \A i \in 1..n : /\ i = n \/ i \in 1..(n - 1)
                       /\ calls'[i].hub = calls[i].hub /\ calls'[i].port = calls[i].port
                       /\ calls[i].hub \in Slots /\ dev'[calls[i].hub] = dev[calls[i].hub]
                       /\ calls'[i].retries = calls[i].retries /\ calls'[i].err = calls[i].err
  <2>1. \A i \in 1..n : calls[i].hub \in Slots
    BY FrameTypes DEF Structure, n
  <2> QED BY <1>1, <1>6, <1>9, <1>10, <1>11, <2>1
<1>14. Active' = Active \cup {n} /\ Active = 1..(n - 1)
  <2>1. Active = 1..(n - 1)
    <3>1. \A i \in Active : i \in 1..n /\ i # n
      BY <1>1 DEF Active, n
    <3>2. \A i \in 1..n : i # n => i \in 1..(n - 1)
      BY <1>1
    <3> QED BY <1>1, <3>1, <3>2
  <2>2. \A i \in 1..(n - 1) : calls'[i].step \notin {"alloc", "end"}
    BY <1>1, <1>9 DEF Active
  <2>3. Active' = 1..n
    BY <1>6, <1>9, <1>13, <2>2 DEF Active
  <2> QED BY <1>1, <2>1, <2>3
<1>15. \A i \in 1..n : PlaceOf(i)' = PlaceOf(i)
  BY <1>13 DEF PlaceOf
<1>16. Types'
  BY <1>2, <1>5, <1>9, <1>10, <1>13 DEF Structure, Types, n
<1>17. root_hub # 0 /\ root_hub \in Slots
  BY DEF Structure, Stack, Types, Slots
<1>18. Stack'
  <2>1. ASSUME NEW i \in 1..n
        PROVE  /\ Len(dev'[calls'[i].hub].at) = i - 1 /\ (calls[i].port < PortCount(calls[i].hub))'
               /\ dev'[calls'[i].hub].class = "hub"
               /\ i < n => calls'[i].step = "class" /\ calls'[i + 1].hub = calls'[i].dev
               /\ calls'[i].dev \in Slots /\ dev'[calls'[i].dev].at = PlaceOf(i)'
    <3>1. /\ Len(dev[calls[i].hub].at) = i - 1 /\ dev[calls[i].hub].class = "hub"
          /\ calls[i].port < PortCount(calls[i].hub)
          /\ i < n => calls[i].step = "class" /\ calls[i + 1].hub = calls[i].dev
      BY DEF Structure, Stack, n
    <3>2. i < n => i \in 1..(n - 1) /\ i + 1 \in 1..n
      BY <1>1
    <3>3. i < n => calls'[i].step = "class" /\ calls'[i + 1].hub = calls'[i].dev
      BY <1>9, <1>13, <3>1, <3>2
    <3>4. calls'[i].dev \in Slots /\ dev'[calls'[i].dev].at = PlaceOf(i)'
      <4>1. CASE i = n
        BY <1>1, <1>4, <1>6, <1>8, <1>9, <1>10, <1>15, <4>1 DEF s
      <4>2. CASE i \in 1..(n - 1)
        BY <1>1, <1>9, <1>10, <1>11, <1>15, <4>2
      <4> QED BY <1>13, <4>1, <4>2
    <3> QED BY <1>2, <1>13, <3>1, <3>3, <3>4 DEF PortCount
  <2>2. 1 \in 1..n
    BY <1>1
  <2>3. calls'[1].hub = root_hub' /\ root_hub' = root_hub
    BY <1>2, <1>13, <2>2 DEF Structure, Stack
  <2>4. dev'[root_hub'].at = Root /\ dev'[root_hub'].class = "hub"
    BY <1>10, <1>11, <1>17, <2>3 DEF Structure, Stack
  <2>5. status' # "start"
    BY <1>2 DEF Structure, Stack
  <2> QED BY <1>9, <1>17, <2>1, <2>3, <2>4, <2>5 DEF Stack
<1>19. Forest'
  <2>1. ASSUME NEW h \in Slots, NEW c \in Slots, Child(h, c)
        PROVE  /\ \E q \in Ports : q < PortCount(h)' /\ dev'[c].at = Append(dev'[h].at, q)
               /\ dev'[h].class = "hub"
    <3>1. h # s /\ c # s
      BY <1>11, <2>1 DEF Child, Members
    <3> QED BY <1>2, <1>10, <2>1, <3>1 DEF Structure, Forest, PortCount
  <2>2. \A h \in Slots : IsLinkedOnce(dev'[h].children)
    BY <1>8, <1>10, <1>11 DEF Structure, Forest
  <2>3. \A i \in Active', h \in Slots : ~(Child(h, calls[i].dev))'
    <3> SUFFICES ASSUME NEW i \in 1..n, NEW h \in Slots PROVE ~(Child(h, calls[i].dev))'
      BY <1>1, <1>14
    <3>1. calls'[i].dev \in Slots /\ ~Child(h, calls'[i].dev)
      <4>1. CASE i = n
        BY <1>4, <1>6, <1>9, <1>11, <4>1 DEF s
      <4>2. CASE i \in 1..(n - 1)
        <5>1. i \in Active /\ calls[i].dev \in Slots /\ calls'[i] = calls[i]
          BY <1>1, <1>9, <4>2
        <5>2. ~Child(h, calls[i].dev)
          BY <5>1 DEF Structure, Forest
        <5> QED BY <5>1, <5>2
      <4> QED BY <1>13, <4>1, <4>2
    <3>2. dev'[h].children = dev[h].children
      BY <1>8, <1>10, <1>11
    <3> QED BY <3>1, <3>2 DEF Child
  <2>4. \A h \in Slots : dev'[h].class = "hub" /\ h # root_hub =>
          dev'[h].at # Root /\ plugged'[dev'[h].at] = "hub"
    <3> TAKE h \in Slots
    <3>1. CASE h = s
      BY <1>8, <1>10, <3>1
    <3>2. CASE h # s
      BY <1>2, <1>10, <3>2 DEF Structure, Forest
    <3> QED BY <3>1, <3>2
  <2>5. \A g, h, c \in Slots : Child(g, c)' /\ Child(h, c)' => g = h
    BY <1>12 DEF Structure, Forest
  <2>6. \A p \in Paths : plugged'[p] = "hub" => Len(p) < DEPTH
    BY <1>2 DEF Structure, Forest
  <2>7. root_hub' = root_hub
    BY <1>2
  <2> QED BY <1>12, <2>1, <2>2, <2>3, <2>4, <2>5, <2>6, <2>7 DEF Forest
<1>20. FreeSlots'
  <2>0. Members(free) \subseteq Slots
    BY <1>3, MembersType
  <2>1. ASSUME NEW z \in Members(free')
        PROVE  /\ z # root_hub' /\ dev'[z].children = << >> /\ dev'[z].class = "none"
               /\ \A h \in Slots : ~Child(h, z)'
               /\ \A i \in 1..n : calls'[i].dev # z
               /\ \A i \in 1..n : calls'[i].hub # z
    <3>1. z \in Members(free) /\ z # s /\ z \in Slots
      BY <1>5, <2>0
    <3>2. /\ z # root_hub /\ dev[z].children = << >> /\ dev[z].class = "none"
          /\ \A h \in Slots : ~Child(h, z)
          /\ \A i \in Active : calls[i].dev # z
          /\ \A i \in 1..n : calls[i].hub # z
      BY <3>1 DEF Structure, FreeSlots, n
    <3>3. \A i \in 1..n : calls'[i].dev # z
      BY <1>1, <1>6, <1>9, <1>13, <3>1, <3>2
    <3> QED BY <1>2, <1>10, <1>12, <1>13, <3>1, <3>2, <3>3
  <2>2. ASSUME NEW z \in Slots \ Members(free')
        PROVE  z = root_hub' \/ z \in Enumerating' \/ \E h \in Slots : Child(h, z)'
    <3>1. CASE z = s
      <4>1. s \in Enumerating'
        BY <1>6, <1>9, <1>14 DEF Enumerating
      <4> QED BY <3>1, <4>1
    <3>2. CASE z # s
      <4>1. z \in Slots \ Members(free)
        BY <1>5, <2>2, <3>2
      <4>2. z = root_hub \/ z \in Enumerating \/ \E h \in Slots : Child(h, z)
        BY <4>1 DEF Structure, FreeSlots
      <4>3. z \in Enumerating => z \in Enumerating'
        BY <1>9, <1>14 DEF Enumerating
      <4> QED BY <1>2, <1>12, <4>2, <4>3
    <3> QED BY <3>1, <3>2
  <2>3. ASSUME NEW t \in Slots \ Members(free) PROVE dev[t].at # Path
    <3>1. t = root_hub \/ t \in Enumerating \/ \E h \in Slots : Child(h, t)
      BY DEF Structure, FreeSlots
    <3>2. CASE t = root_hub
      <4>1. dev[t].at = Root
        BY <1>17, <3>2 DEF Structure, Stack
      <4> QED BY <1>1, <4>1, PathFacts
    <3>3. CASE t \in Enumerating
      BY <1>1, <1>14, <3>3 DEF Enumerating
    <3>4. ASSUME NEW h \in Slots, Child(h, t), dev[t].at = Path PROVE FALSE
      <4>1. /\ Last(dev[t].at) \in Ports /\ Last(dev[t].at) < PortCount(h)
            /\ dev[t].at = Append(dev[h].at, Last(dev[t].at)) /\ dev[h].class = "hub"
        BY <3>4, ChildPort DEF Structure, Forest
      <4>2. PlaceOf(n) = Append(dev[h].at, Last(dev[t].at))
        BY <1>1, <3>4, <4>1
      <4>3. calls[n].hub = h /\ calls[n].port = Last(dev[t].at)
        <5> DEFINE q == Last(dev[t].at)
        <5>1. q \in Ports /\ q < PortCount(h) /\ dev[h].class = "hub" /\ PlaceOf(n) = Append(dev[h].at, q)
          BY <4>1, <4>2
        <5> HIDE DEF q
        <5>2. \A i \in 1..Len(calls) :
                PlaceOf(i) = Append(dev[h].at, q) => calls[i].hub = h /\ calls[i].port = q
          BY <1>17, <5>1, HubPlace
        <5>3. n \in 1..Len(calls)
          BY <1>1 DEF n
        <5> QED BY <5>1, <5>2, <5>3 DEF q
      <4>4. \/ Last(dev[t].at) < calls[n].port
            \/ Last(dev[t].at) = calls[n].port /\ calls[n].step = "end"
        BY <1>1, <3>4, <4>3 DEF Progress, Kids, n
      <4> QED BY <1>1, <4>1, <4>3, <4>4 DEF Ports
    <3> QED BY <3>1, <3>2, <3>3, <3>4
  <2>4. \A z, t \in Slots \ Members(free') : dev'[z].at = dev'[t].at => z = t
    <3> SUFFICES ASSUME NEW z \in Slots \ Members(free'), NEW t \in Slots \ Members(free'),
                        dev'[z].at = dev'[t].at, z # t
                 PROVE  FALSE
      OBVIOUS
    <3>1. (z # s => z \in Slots \ Members(free)) /\ (t # s => t \in Slots \ Members(free))
      BY <1>5
    <3>2. CASE z = s
      BY <1>8, <1>10, <2>3, <3>1, <3>2
    <3>3. CASE t = s
      BY <1>8, <1>10, <2>3, <3>1, <3>3
    <3>4. CASE z # s /\ t # s
      BY <1>10, <3>1, <3>4 DEF Structure, FreeSlots
    <3> QED BY <3>2, <3>3, <3>4
  <2>5. Active' \subseteq 1..n /\ 1..Len(calls') = 1..n
    BY <1>1, <1>9, <1>14
  <2> QED BY <1>5, <2>1, <2>2, <2>4, <2>5 DEF FreeSlots
<1>21. Kids'
  <2>1. ASSUME NEW i \in 1..n, NEW c \in Slots, (Child(calls[i].hub, c))'
        PROVE  \/ Last(dev'[c].at) < calls'[i].port
               \/ Last(dev'[c].at) = calls'[i].port /\ calls'[i].step = "end" /\ calls'[i].err = "ok"
    <3>1. Child(calls[i].hub, c)
      BY <1>13, <2>1 DEF Child
    <3>2. c # s /\ dev'[c] = dev[c]
      BY <1>10, <1>11, <1>13, <3>1
    <3>3. \/ Last(dev[c].at) < calls[i].port
          \/ Last(dev[c].at) = calls[i].port /\ calls[i].step = "end" /\ calls[i].err = "ok"
      BY <3>1 DEF Progress, Kids, n
    <3>4. calls[i].step # "end"
      BY <1>1, <1>13, <1>14 DEF Active
    <3> QED BY <1>13, <3>2, <3>3, <3>4
  <2>2. dev'[f.dev].children = << >> /\ dev'[f.dev].class # "hub"
    BY <1>6, <1>8, <1>10
  <2> QED BY <1>9, <2>1, <2>2 DEF Kids
<1>22. PortsPast'
  <2> SUFFICES ASSUME NEW h \in Slots, NEW q \in Ports, dev'[h].class = "hub", q < PortCount(h)', Past(h, q)'
               PROVE  PortDone(h, q)'
    BY DEF PortsPast
  <2>1. h # s /\ dev'[h] = dev[h] /\ dev[h].class = "hub" /\ q < PortCount(h)
    BY <1>2, <1>8, <1>10 DEF PortCount
  <2>2. Past(h, q)
    <3> SUFFICES ASSUME NEW i \in 1..n, calls[i].hub = h
                 PROVE  q < calls[i].port \/ (q = calls[i].port /\ calls[i].step = "end")
      BY DEF Past, n
    <3>1. q < calls'[i].port \/ (q = calls'[i].port /\ calls'[i].step = "end")
      BY <1>9, <1>13 DEF Past
    <3>2. calls'[i].step = "end" => calls[i].step = "end"
      BY <1>6, <1>9, <1>13
    <3> QED BY <1>13, <3>1, <3>2
  <2>3. PortDone(h, q)
    BY <2>1, <2>2 DEF Progress, PortsPast
  <2>4. \A c \in Slots : Child(h, c) => dev'[c] = dev[c]
    BY <1>10, <1>11
  <2> QED BY <1>2, <1>12, <2>1, <2>3, <2>4, SMTT(30) DEF PortDone
<1>23. FailureNoted'
  <2>1. \A i \in 1..n : calls[i].step # "end"
    BY <1>1, <1>13, <1>14 DEF Active
  <2>2. \A i \in 1..n : calls'[i].err = "ok"
    BY <1>13, <2>1 DEF Progress, FailureNoted, n
  <2> QED BY <1>6, <1>9, <2>2 DEF FailureNoted
<1>24. Structure' /\ Progress'
  BY <1>16, <1>18, <1>19, <1>20, <1>21, <1>22, <1>23 DEF Structure, Progress
<1>25. \A i \in 1..(n - 1) : calls'[i] = calls[i] /\ i \in Active
  BY <1>1, <1>9
<1> QED BY <1>1, <1>4, <1>5, <1>9, <1>10, <1>12, <1>14, <1>24, <1>25 DEF n, s, f, d

(* usb_hub_enumerate starts on the ports of a hub.                         *)
Pushes ==
  /\ dev' = [dev EXCEPT ![Top.dev].class = "hub"]
  /\ calls' = Append(calls, Frame(Top.dev, 0))

(* It keeps the tree and the calls in order.                               *)
LEMMA PushStep ==
  ASSUME Structure, Progress, calls # << >>, Top.step = "class", plugged[Path] = "hub", Pushes,
         UNCHANGED <<plugged, answers, free, root_hub, next_address, status, failed>>
  PROVE  /\ Structure' /\ Progress' /\ Active' = Active
         /\ Len(calls') = Len(calls) + 1 /\ Top' = Frame(Top.dev, 0)
         /\ \A i \in 1..Len(calls) : calls'[i] = calls[i]
         /\ \A s \in Slots : s # Top.dev => dev'[s] = dev[s]
         /\ dev'[Top.dev] = [dev[Top.dev] EXCEPT !.class = "hub"]
         /\ \A h, c \in Slots : Child(h, c)' <=> Child(h, c)
<1> DEFINE n == Len(calls)
           t == Top.dev
           f == Frame(t, 0)
           d == [dev[t] EXCEPT !.class = "hub"]
<1>1. /\ n \in Nat /\ n >= 1 /\ n \in 1..n /\ Top = calls[n] /\ Top \in Frames
      /\ Path = PlaceOf(n) /\ Path \in Paths /\ Len(Path) = n /\ n \in Active
      /\ t \in Slots \ Members(free) /\ t # root_hub /\ dev[t].at = Path
      /\ \A h \in Slots : ~Child(h, t)
      /\ \A i \in 1..n : calls[i].hub # t
      /\ \A i \in 1..(n - 1) : /\ i \in 1..n /\ i \in Active /\ calls[i].step = "class"
                               /\ calls[i].dev # t
  BY TopFacts
<1>2. dev[t].children = << >>
  BY <1>1 DEF Progress, Kids
<1>3. /\ d \in Devices /\ d.at = Path /\ d.class = "hub" /\ d.children = << >>
  <2>1. dev[t] \in Devices
    BY <1>1, DeviceTypes DEF Structure
  <2> QED BY <1>1, <1>2, <2>1 DEF Devices, Classes
<1>4. /\ f \in Frames /\ f.hub = t /\ f.port = 0 /\ f.step = "alloc" /\ f.retries = 0 /\ f.err = "ok"
  BY <1>1 DEF Frame, Frames, Ports, Steps
<1>5. dev \in [Slots -> Devices] /\ calls \in Seq(Frames)
  BY DEF Structure, Types
<1>6. dev' = [dev EXCEPT ![t] = d] /\ calls' = Append(calls, f)
  BY DEF Pushes
<1> HIDE DEF f, d, t
<1>7. /\ dev' \in [Slots -> Devices] /\ dev'[t] = d /\ \A s \in Slots : s # t => dev'[s] = dev[s]
  BY <1>1, <1>3, <1>5, <1>6
<1>8. /\ calls' \in Seq(Frames) /\ Len(calls') = n + 1 /\ calls'[n + 1] = f
      /\ \A i \in 1..n : calls'[i] = calls[i]
  BY <1>4, <1>5, <1>6, AppendProperties
<1> HIDE DEF n
<1>9. calls' # << >> /\ Top' = f
  BY <1>1, <1>8 DEF Top
<1>10. \A s \in Slots : dev'[s].at = dev[s].at /\ dev'[s].children = dev[s].children
  BY <1>1, <1>2, <1>3, <1>7
<1>11. \A h, c \in Slots : Child(h, c)' <=> Child(h, c)
  BY <1>10 DEF Child
<1>12. \A i \in 1..(n + 1) : i = n + 1 \/ i \in 1..n
  BY <1>1
<1>13. Active' = Active /\ \A i \in Active : i \in 1..n
  <2>1. \A i \in Active : i \in 1..n
    BY DEF Active, n
  <2>2. \A i \in 1..n : i \in 1..(n + 1)
    BY <1>1
  <2>3. \A i : i \in Active' <=> i \in Active
    BY <1>4, <1>8, <1>12, <2>1, <2>2 DEF Active, n
  <2> QED BY <2>1, <2>3
<1>14. Enumerating' = Enumerating
  BY <1>8, <1>13 DEF Enumerating
<1>15. \A i \in 1..n : calls[i].hub \in Slots /\ dev'[calls[i].hub] = dev[calls[i].hub]
  <2>1. \A i \in 1..n : calls[i].hub \in Slots
    BY FrameTypes DEF Structure, n
  <2> QED BY <1>1, <1>7, <2>1
<1>16. \A h : PortCount(h)' = PortCount(h)
  BY DEF PortCount
<1>17. Types'
  <2>1. \A i \in 1..n : calls[i].retries <= MAX_RESET_RETRIES
    BY DEF Structure, Types, n
  <2>2. \A i \in 1..Len(calls') : calls'[i].retries <= MAX_RESET_RETRIES
    BY <1>4, <1>8, <1>12, <2>1
  <2> QED BY <1>7, <1>8, <2>2 DEF Structure, Types
<1>18. Stack'
  <2>1. ASSUME NEW i \in 1..(n + 1)
        PROVE  /\ Len(dev'[calls'[i].hub].at) = i - 1 /\ (calls[i].port < PortCount(calls[i].hub))'
               /\ dev'[calls'[i].hub].class = "hub"
               /\ i < n + 1 => calls'[i].step = "class" /\ calls'[i + 1].hub = calls'[i].dev
               /\ i \in Active => calls'[i].dev \in Slots /\ dev'[calls'[i].dev].at = PlaceOf(i)'
    <3>1. CASE i = n + 1
      <4>1. PortCount(t) = PORTS
        BY <1>1 DEF PortCount, t
      <4>2. (calls[i].port < PortCount(calls[i].hub))'
        BY <1>1, <1>4, <1>8, <3>1, <4>1 DEF PortCount
      <4>3. i \notin Active
        BY <1>1, <1>13, <3>1
      <4>4. ~(i < n + 1) /\ i - 1 = n
        BY <1>1, <3>1
      <4> QED BY <1>1, <1>3, <1>4, <1>7, <1>8, <3>1, <4>2, <4>3, <4>4
    <3>2. CASE i \in 1..n
      <4>1. /\ Len(dev[calls[i].hub].at) = i - 1 /\ dev[calls[i].hub].class = "hub"
            /\ calls[i].port < PortCount(calls[i].hub)
            /\ i < n => calls[i].step = "class" /\ calls[i + 1].hub = calls[i].dev
            /\ i \in Active => calls[i].dev \in Slots /\ dev[calls[i].dev].at = PlaceOf(i)
        BY <3>2 DEF Structure, Stack, n
      <4>2. calls'[i] = calls[i] /\ dev'[calls[i].hub] = dev[calls[i].hub]
        BY <1>8, <1>15, <3>2
      <4>3. calls'[i].step = "class" /\ calls'[i + 1].hub = calls'[i].dev
        <5>1. CASE i = n
          BY <1>1, <1>4, <1>8, <4>2, <5>1 DEF t
        <5>2. CASE i # n
          <6>1. i < n /\ i + 1 \in 1..n
            BY <1>1, <3>2, <5>2
          <6> QED BY <1>8, <4>1, <4>2, <6>1
        <5> QED BY <5>1, <5>2
      <4>4. i \in Active => calls'[i].dev \in Slots /\ dev'[calls'[i].dev].at = PlaceOf(i)'
        BY <1>10, <4>1, <4>2 DEF PlaceOf
      <4> QED BY <4>1, <4>2, <4>3, <4>4 DEF PortCount
    <3> QED BY <1>12, <3>1, <3>2
  <2>2. 1 \in 1..n
    BY <1>1
  <2>3. root_hub # 0 /\ calls'[1].hub = root_hub /\ root_hub \in Slots
    BY <1>8, <2>2 DEF Structure, Stack, Types, Slots
  <2>4. dev'[root_hub].at = Root /\ dev'[root_hub].class = "hub"
    BY <1>1, <1>7, <2>3 DEF Structure, Stack
  <2>5. status' # "start"
    BY <2>3 DEF Structure, Stack
  <2> QED BY <1>8, <1>9, <1>13, <2>1, <2>3, <2>4, <2>5 DEF Stack
<1>19. Forest'
  <2>1. ASSUME NEW h \in Slots, NEW c \in Slots, Child(h, c)
        PROVE  /\ \E q \in Ports : q < PortCount(h)' /\ dev'[c].at = Append(dev'[h].at, q)
               /\ dev'[h].class = "hub"
    <3>1. h # t
      BY <1>2, <2>1 DEF Child, Members
    <3>2. dev'[h] = dev[h] /\ dev'[c].at = dev[c].at
      BY <1>7, <1>10, <3>1
    <3> QED BY <1>16, <2>1, <3>2 DEF Structure, Forest
  <2>2. \A h \in Slots : IsLinkedOnce(dev'[h].children)
    BY <1>10 DEF Structure, Forest
  <2>3. \A i \in Active', h \in Slots : ~(Child(h, calls[i].dev))'
    <3> SUFFICES ASSUME NEW i \in Active, NEW h \in Slots PROVE ~(Child(h, calls[i].dev))'
      BY <1>13
    <3>1. ~Child(h, calls[i].dev)
      BY DEF Structure, Forest
    <3>2. calls'[i] = calls[i] /\ dev'[h].children = dev[h].children
      BY <1>8, <1>10, <1>13
    <3> QED BY <3>1, <3>2 DEF Child
  <2>4. \A h \in Slots : dev'[h].class = "hub" /\ h # root_hub =>
          dev'[h].at # Root /\ plugged'[dev'[h].at] = "hub"
    <3> TAKE h \in Slots
    <3>1. CASE h = t
      <4>1. Path # Root
        BY <1>1, PathFacts
      <4> QED BY <1>3, <1>7, <3>1, <4>1
    <3>2. CASE h # t
      BY <1>7, <3>2 DEF Structure, Forest
    <3> QED BY <3>1, <3>2
  <2>5. \A g, h, c \in Slots : Child(g, c)' /\ Child(h, c)' => g = h
    BY <1>11 DEF Structure, Forest
  <2>6. \A p \in Paths : plugged'[p] = "hub" => Len(p) < DEPTH
    BY DEF Structure, Forest
  <2>7. root_hub' = root_hub
    OBVIOUS
  <2> QED BY <1>11, <2>1, <2>2, <2>3, <2>4, <2>5, <2>6, <2>7 DEF Forest
<1>20. FreeSlots'
  <2>0. Members(free) \subseteq Slots
    BY MembersType DEF Structure, Types
  <2>1. ASSUME NEW z \in Members(free)
        PROVE  /\ z # root_hub' /\ dev'[z].children = << >> /\ dev'[z].class = "none"
               /\ \A h \in Slots : ~Child(h, z)'
               /\ \A i \in Active : calls'[i].dev # z
               /\ \A i \in 1..(n + 1) : calls'[i].hub # z
    <3>1. z \in Slots /\ z # t /\ dev'[z] = dev[z]
      BY <1>1, <1>7, <2>0
    <3>2. /\ z # root_hub /\ dev[z].children = << >> /\ dev[z].class = "none"
          /\ \A h \in Slots : ~Child(h, z)
          /\ \A i \in Active : calls[i].dev # z
          /\ \A i \in 1..n : calls[i].hub # z
      BY DEF Structure, FreeSlots, n
    <3>3. \A i \in 1..(n + 1) : calls'[i].hub # z
      BY <1>4, <1>8, <1>12, <3>1, <3>2
    <3> QED BY <1>8, <1>11, <1>13, <3>1, <3>2, <3>3
  <2>2. \A z \in Slots \ Members(free) :
          z = root_hub \/ z \in Enumerating' \/ \E h \in Slots : Child(h, z)'
    BY <1>11, <1>14 DEF Structure, FreeSlots
  <2>3. \A z, y \in Slots \ Members(free) : dev'[z].at = dev'[y].at => z = y
    BY <1>10 DEF Structure, FreeSlots
  <2>4. IsLinkedOnce(free) /\ free' = free /\ root_hub' = root_hub
    BY DEF Structure, FreeSlots
  <2> QED BY <1>8, <1>13, <2>1, <2>2, <2>3, <2>4 DEF FreeSlots
<1>21. Kids'
  <2>1. ASSUME NEW i \in 1..(n + 1), NEW c \in Slots, (Child(calls[i].hub, c))'
        PROVE  \/ Last(dev'[c].at) < calls'[i].port
               \/ Last(dev'[c].at) = calls'[i].port /\ calls'[i].step = "end" /\ calls'[i].err = "ok"
    <3>1. CASE i = n + 1
      <4>1. dev'[calls'[i].hub].children = << >>
        BY <1>3, <1>4, <1>7, <1>8, <3>1
      <4> QED BY <2>1, <4>1 DEF Child, Members
    <3>2. CASE i \in 1..n
      <4>1. calls'[i] = calls[i] /\ Child(calls[i].hub, c)
        BY <1>8, <1>15, <2>1, <3>2 DEF Child
      <4>2. \/ Last(dev[c].at) < calls[i].port
            \/ Last(dev[c].at) = calls[i].port /\ calls[i].step = "end" /\ calls[i].err = "ok"
        BY <3>2, <4>1 DEF Progress, Kids, n
      <4> QED BY <1>10, <4>1, <4>2
    <3> QED BY <1>12, <3>1, <3>2
  <2>2. ~ (Len(calls') \in Active')
    BY <1>1, <1>8, <1>13
  <2> QED BY <1>8, <2>1, <2>2 DEF Kids
<1>22. PortsPast'
  <2> SUFFICES ASSUME NEW h \in Slots, NEW q \in Ports, dev'[h].class = "hub", q < PortCount(h)', Past(h, q)'
               PROVE  PortDone(h, q)'
    BY DEF PortsPast
  <2>1. \A i \in 1..(n + 1) : calls'[i].hub = h =>
          q < calls'[i].port \/ (q = calls'[i].port /\ calls'[i].step = "end")
    BY <1>8 DEF Past
  <2>2. h # t
    <3>1. n + 1 \in 1..(n + 1)
      BY <1>1
    <3>2. ~(q < 0)
      BY DEF Ports
    <3> QED BY <1>4, <1>8, <2>1, <3>1, <3>2
  <2>3. dev'[h] = dev[h] /\ dev[h].class = "hub" /\ q < PortCount(h)
    BY <1>7, <1>16, <2>2
  <2>4. Past(h, q)
    <3>1. \A i \in 1..n : i \in 1..(n + 1)
      BY <1>1
    <3> QED BY <1>8, <2>1, <3>1 DEF Past, n
  <2>5. PortDone(h, q)
    BY <2>3, <2>4 DEF Progress, PortsPast
  <2> QED BY <1>10, <1>11, <2>3, <2>5 DEF PortDone
<1>23. FailureNoted'
  <2>1. \A i \in 1..n : calls[i].step # "end" => calls[i].err = "ok"
    BY DEF Progress, FailureNoted, n
  <2>2. \A i \in 1..(n + 1) : calls'[i].step # "end" => calls'[i].err = "ok"
    BY <1>4, <1>8, <1>12, <2>1
  <2> QED BY <1>4, <1>8, <1>9, <2>2 DEF FailureNoted
<1>24. Structure' /\ Progress'
  BY <1>17, <1>18, <1>19, <1>20, <1>21, <1>22, <1>23 DEF Structure, Progress
<1> QED BY <1>7, <1>8, <1>9, <1>11, <1>13, <1>24 DEF n, t, f, d

(* The device is added to its hub.                                         *)
LEMMA ReportStep ==
  ASSUME Structure, Progress, calls # << >>, ReportToTree
  PROVE  /\ Structure' /\ Progress' /\ Active' = Active \ {Len(calls)} /\ Len(calls) \in Active
         /\ Len(calls') = Len(calls) /\ Top' = [Top EXCEPT !.step = "end"]
         /\ \A i \in 1..(Len(calls) - 1) : calls'[i] = calls[i] /\ i \in 1..Len(calls)
         /\ \A i \in Active' : i \in 1..(Len(calls) - 1)
         /\ \A s \in Slots : /\ dev'[s].at = dev[s].at /\ dev'[s].class = dev[s].class
                             /\ dev'[s].iface0 = dev[s].iface0 /\ dev'[s].state = dev[s].state
                             /\ dev'[s].address = dev[s].address
         /\ \A h, c \in Slots : Child(h, c)' <=> Child(h, c) \/ (h = Top.hub /\ c = Top.dev)
<1> DEFINE n == Len(calls)
           t == Top.dev
           g == Top.hub
           f == [Top EXCEPT !.step = "end"]
           d == [dev[g] EXCEPT !.children = <<t>> \o @]
<1>1. /\ n \in Nat /\ n >= 1 /\ n \in 1..n /\ Top = calls[n] /\ Top \in Frames
      /\ Top.step = "report" /\ Top.port \in Ports
      /\ Path = PlaceOf(n) /\ Path \in Paths /\ n \in Active
      /\ g \in Slots \ Members(free)
      /\ t \in Slots \ Members(free) /\ t # root_hub /\ dev[t].at = Path
      /\ \A h \in Slots : ~Child(h, t)
      /\ \A i \in 1..n : calls[i].hub # t
      /\ \A i \in 1..(n - 1) : /\ i \in 1..n /\ i \in Active /\ calls[i].step = "class"
                               /\ calls[i].dev # t
  BY TopFacts DEF ReportToTree, At
<1>2. UNCHANGED <<plugged, answers, free, root_hub, next_address, status, failed>>
  BY DEF ReportToTree
<1>3. dev \in [Slots -> Devices] /\ calls \in Seq(Frames) /\ DOMAIN calls = 1..n
  BY DEF Structure, Types
<1>4. /\ f \in Frames /\ f.hub = g /\ f.port = Top.port /\ f.step = "end" /\ f.dev = t
      /\ f.retries = Top.retries /\ f.err = Top.err
  BY <1>1 DEF Frames, Steps
<1>5. calls' = [calls EXCEPT ![n] = f]
  BY <1>1, <1>3 DEF ReportToTree, Goto
<1>6. dev' = [dev EXCEPT ![g] = d]
  BY <1>1, <1>3 DEF ReportToTree
<1> DEFINE ch == dev[g].children
           u == <<t>>
<1>7. u \in Seq(Slots) /\ Members(u) = {t} /\ IsLinkedOnce(u)
  BY <1>1 DEF Members, IsLinkedOnce
<1>8. ch \in Seq(Slots) /\ IsLinkedOnce(ch) /\ t \notin Members(ch) /\ dev[g] \in Devices
  BY <1>1, DeviceTypes DEF Structure, Forest, Child
<1> HIDE DEF u, ch
<1>9. u \o ch \in Seq(Slots) /\ Members(u \o ch) = Members(ch) \cup {t} /\ IsLinkedOnce(u \o ch)
  <2>1. /\ u \o ch \in Seq(Slots) /\ Members(u \o ch) = Members(u) \cup Members(ch)
        /\ IsLinkedOnce(u) /\ IsLinkedOnce(ch) /\ Members(u) \cap Members(ch) = {} => IsLinkedOnce(u \o ch)
    BY <1>7, <1>8, ConcatMembers
  <2>2. Members(u) \cap Members(ch) = {}
    BY <1>7, <1>8
  <2> QED BY <1>7, <1>8, <2>1, <2>2
<1>10. /\ d.children = u \o ch /\ d.at = dev[g].at /\ d.class = dev[g].class
       /\ d.iface0 = dev[g].iface0 /\ d.state = dev[g].state /\ d.address = dev[g].address
       /\ d \in Devices
  <2>1. d = [dev[g] EXCEPT !.children = u \o ch]
    BY DEF u, ch
  <2> HIDE DEF d
  <2> QED BY <1>8, <1>9, <2>1 DEF Devices
<1> HIDE DEF f, d, t, g
<1>11. /\ calls' \in Seq(Frames) /\ Len(calls') = n /\ calls' # << >> /\ calls'[n] = f /\ Top' = f
       /\ \A i \in 1..(n - 1) : calls'[i] = calls[i]
  BY <1>4, <1>5, TopBecomes
<1> HIDE DEF n
<1>12. dev' \in [Slots -> Devices] /\ dev'[g] = d /\ \A s \in Slots : s # g => dev'[s] = dev[s]
  BY <1>1, <1>3, <1>6, <1>10
<1>13. \A s \in Slots : /\ dev'[s].at = dev[s].at /\ dev'[s].class = dev[s].class
                        /\ dev'[s].iface0 = dev[s].iface0 /\ dev'[s].state = dev[s].state
                        /\ dev'[s].address = dev[s].address
                        /\ s # g => dev'[s].children = dev[s].children
  BY <1>10, <1>12
<1>14. \A h, c \in Slots : Child(h, c)' <=> Child(h, c) \/ (h = g /\ c = t)
  <2> TAKE h, c \in Slots
  <2>1. CASE h = g
    <3>1. Members(dev'[h].children) = Members(dev[h].children) \cup {t}
      BY <1>9, <1>10, <1>12, <2>1 DEF ch
    <3> QED BY <2>1, <3>1 DEF Child
  <2>2. CASE h # g
    BY <1>13, <2>2 DEF Child
  <2> QED BY <2>1, <2>2
<1>c. \A h, c \in Slots : c \in Members(dev'[h].children) <=> Child(h, c) \/ (h = g /\ c = t)
  BY <1>14 DEF Child
<1>15. \A i \in 1..n : /\ i = n \/ i \in 1..(n - 1)
                       /\ calls'[i].hub = calls[i].hub /\ calls'[i].port = calls[i].port
                       /\ calls[i].hub \in Slots
                       /\ calls'[i].retries = calls[i].retries /\ calls'[i].err = calls[i].err
  <2>1. \A i \in 1..n : calls[i].hub \in Slots
    BY FrameTypes DEF Structure, n
  <2>2. \A i \in 1..n : i = n \/ i \in 1..(n - 1)
    BY <1>1
  <2> QED BY <1>1, <1>4, <1>11, <2>1, <2>2 DEF g
<1>16. Active' = 1..(n - 1) /\ Active = 1..n /\ Active' = Active \ {n}
  <2>1. Active = 1..n
    <3>1. \A i \in Active : i \in 1..n
      BY DEF Active, n
    <3> QED BY <1>1, <1>15, <3>1
  <2>2. \A i \in 1..(n - 1) : calls'[i].step \notin {"alloc", "end"} /\ i \in 1..n /\ i # n
    BY <1>1, <1>11
  <2>3. Active' = 1..(n - 1)
    BY <1>4, <1>11, <1>15, <2>2 DEF Active
  <2> QED BY <1>15, <2>1, <2>2, <2>3
<1>17. \A i \in 1..n : PlaceOf(i)' = PlaceOf(i)
  <2> TAKE i \in 1..n
  <2>1. dev'[calls[i].hub].at = dev[calls[i].hub].at
    BY <1>13, <1>15
  <2> QED BY <1>15, <2>1 DEF PlaceOf
<1>18. Types'
  BY <1>2, <1>11, <1>12, <1>15 DEF Structure, Types, n
<1>19. root_hub # 0 /\ root_hub \in Slots
  BY DEF Structure, Stack, Types, Slots
<1>20. dev[g].class = "hub" /\ Top.port < PortCount(g) /\ Len(dev[g].at) = n - 1
  BY <1>1 DEF Structure, Stack, g, n
<1>21. Stack'
  <2>1. ASSUME NEW i \in 1..n
        PROVE  /\ Len(dev'[calls'[i].hub].at) = i - 1 /\ (calls[i].port < PortCount(calls[i].hub))'
               /\ dev'[calls'[i].hub].class = "hub"
               /\ i < n => calls'[i].step = "class" /\ calls'[i + 1].hub = calls'[i].dev
               /\ i \in Active' => calls'[i].dev \in Slots /\ dev'[calls'[i].dev].at = PlaceOf(i)'
    <3>1. /\ Len(dev[calls[i].hub].at) = i - 1 /\ dev[calls[i].hub].class = "hub"
          /\ calls[i].port < PortCount(calls[i].hub)
          /\ i < n => calls[i].step = "class" /\ calls[i + 1].hub = calls[i].dev
          /\ i \in Active => calls[i].dev \in Slots /\ dev[calls[i].dev].at = PlaceOf(i)
      BY DEF Structure, Stack, n
    <3>2. i < n => i \in 1..(n - 1) /\ i + 1 \in 1..n
      BY <1>1
    <3>3. i < n => calls'[i].step = "class" /\ calls'[i + 1].hub = calls'[i].dev
      BY <1>11, <1>15, <3>1, <3>2
    <3>4. i \in Active' => calls'[i].dev \in Slots /\ dev'[calls'[i].dev].at = PlaceOf(i)'
      BY <1>11, <1>13, <1>16, <1>17, <3>1
    <3>5. dev'[calls'[i].hub].at = dev[calls[i].hub].at /\ dev'[calls'[i].hub].class = "hub"
      BY <1>13, <1>15, <3>1
    <3>6. (calls[i].port < PortCount(calls[i].hub))'
      BY <1>2, <1>15, <3>1 DEF PortCount
    <3> QED BY <3>1, <3>3, <3>4, <3>5, <3>6
  <2>2. 1 \in 1..n
    BY <1>1
  <2>3. calls'[1].hub = root_hub' /\ root_hub' = root_hub
    BY <1>2, <1>15, <2>2 DEF Structure, Stack
  <2>4. dev'[root_hub'].at = Root /\ dev'[root_hub'].class = "hub"
    BY <1>13, <1>19, <2>3 DEF Structure, Stack
  <2>5. status' # "start"
    BY <1>2 DEF Structure, Stack
  <2> QED BY <1>11, <1>19, <2>1, <2>3, <2>4, <2>5 DEF Stack
<1>22. Forest'
  <2>1. ASSUME NEW h \in Slots, NEW c \in Slots, Child(h, c)'
        PROVE  /\ \E q \in Ports : q < PortCount(h)' /\ dev'[c].at = Append(dev'[h].at, q)
               /\ dev'[h].class = "hub"
    <3>1. PortCount(h)' = PortCount(h)
      BY <1>2 DEF PortCount
    <3>2. dev'[c].at = dev[c].at /\ dev'[h].at = dev[h].at /\ dev'[h].class = dev[h].class
      BY <1>13
    <3>3. CASE Child(h, c)
      BY <3>1, <3>2, <3>3 DEF Structure, Forest
    <3>4. CASE h = g /\ c = t
      <4>1. dev[c].at = Append(dev[h].at, Top.port)
        BY <1>1, <3>4 DEF Path, g
      <4> QED BY <1>1, <1>20, <3>1, <3>2, <3>4, <4>1
    <3> QED BY <1>14, <2>1, <3>3, <3>4
  <2>2. \A h \in Slots : IsLinkedOnce(dev'[h].children)
    BY <1>9, <1>10, <1>12, <1>13 DEF Structure, Forest
  <2>3. \A i \in Active', h \in Slots : ~(Child(h, calls[i].dev))'
    <3> SUFFICES ASSUME NEW i \in 1..(n - 1), NEW h \in Slots PROVE ~(Child(h, calls[i].dev))'
      BY <1>16
    <3> DEFINE c == calls[i].dev
    <3>1. c \in Slots /\ c # t /\ calls'[i] = calls[i] /\ i \in Active
      <4>1. i \in 1..n /\ i \in Active /\ c # t /\ calls'[i] = calls[i]
        BY <1>1, <1>11
      <4>2. c \in Slots
        BY <4>1 DEF Structure, Stack, n
      <4> QED BY <4>1, <4>2
    <3>2. ~Child(h, c)
      BY <3>1 DEF Structure, Forest
    <3>3. calls'[i].dev = c
      BY <3>1
    <3> HIDE DEF c
    <3>4. c \notin Members(dev'[h].children)
      BY <1>c, <3>1, <3>2
    <3> QED BY <3>3, <3>4 DEF Child
  <2>4. \A h \in Slots : dev'[h].class = "hub" /\ h # root_hub =>
          dev'[h].at # Root /\ plugged'[dev'[h].at] = "hub"
    BY <1>2, <1>13 DEF Structure, Forest
  <2>5. \A a, h, c \in Slots : Child(a, c)' /\ Child(h, c)' => a = h
    BY <1>1, <1>14 DEF Structure, Forest
  <2>6. \A p \in Paths : plugged'[p] = "hub" => Len(p) < DEPTH
    BY <1>2 DEF Structure, Forest
  <2>7. root_hub' = root_hub
    BY <1>2
  <2> QED BY <2>1, <2>2, <2>3, <2>4, <2>5, <2>6, <2>7 DEF Forest
<1>23. FreeSlots'
  <2>0. Members(free) \subseteq Slots
    BY MembersType DEF Structure, Types
  <2>1. ASSUME NEW z \in Members(free)
        PROVE  /\ z # root_hub' /\ dev'[z].children = << >> /\ dev'[z].class = "none"
               /\ \A h \in Slots : ~Child(h, z)'
               /\ \A i \in Active' : calls'[i].dev # z
               /\ \A i \in 1..n : calls'[i].hub # z
    <3>1. z \in Slots /\ z # t /\ z # g /\ dev'[z] = dev[z]
      BY <1>1, <1>12, <2>0
    <3>2. /\ z # root_hub /\ dev[z].children = << >> /\ dev[z].class = "none"
          /\ \A h \in Slots : ~Child(h, z)
          /\ \A i \in Active : calls[i].dev # z
          /\ \A i \in 1..n : calls[i].hub # z
      BY DEF Structure, FreeSlots, n
    <3>3. \A i \in Active' : calls'[i].dev # z
      BY <1>1, <1>11, <1>16, <3>2
    <3> QED BY <1>2, <1>14, <1>15, <3>1, <3>2, <3>3
  <2>2. ASSUME NEW z \in Slots \ Members(free)
        PROVE  z = root_hub \/ z \in Enumerating' \/ \E h \in Slots : Child(h, z)'
    <3>1. z = root_hub \/ z \in Enumerating \/ \E h \in Slots : Child(h, z)
      BY DEF Structure, FreeSlots
    <3>2. CASE z \in Enumerating
      <4>1. PICK i \in Active : z = calls[i].dev
        BY <3>2 DEF Enumerating
      <4>2. CASE i = n
        BY <1>1, <1>14, <4>1, <4>2 DEF t
      <4>3. CASE i # n
        BY <1>11, <1>16, <4>1, <4>3 DEF Enumerating
      <4> QED BY <4>2, <4>3
    <3> QED BY <1>14, <3>1, <3>2
  <2>3. \A z, y \in Slots \ Members(free) : dev'[z].at = dev'[y].at => z = y
    BY <1>13 DEF Structure, FreeSlots
  <2>4. IsLinkedOnce(free) /\ free' = free /\ root_hub' = root_hub
    BY <1>2 DEF Structure, FreeSlots
  <2> QED BY <1>11, <2>1, <2>2, <2>3, <2>4 DEF FreeSlots
<1>24. Top.err = "ok" /\ \A i \in 1..(n - 1) : calls[i].err = "ok"
  <2>1. \A i \in 1..n : calls[i].step # "end" => calls[i].err = "ok"
    BY DEF Progress, FailureNoted, n
  <2>2. calls[n].err = "ok"
    BY <1>1, <2>1
  <2>3. \A i \in 1..(n - 1) : calls[i].err = "ok"
    BY <1>1, <2>1
  <2> QED BY <1>1, <2>2, <2>3
<1>25. Last(Path) = Top.port
  <2> DEFINE a == dev[g].at
  <2>1. a \in Paths \cup {Root} /\ Path = Append(a, Top.port)
    BY <1>1, DeviceTypes DEF Path, g, Structure
  <2> HIDE DEF a
  <2> QED BY <1>1, <2>1, PlaceParts
<1>26. Kids'
  <2>1. ASSUME NEW i \in 1..n, NEW c \in Slots, (Child(calls[i].hub, c))'
        PROVE  \/ Last(dev'[c].at) < calls'[i].port
               \/ Last(dev'[c].at) = calls'[i].port /\ calls'[i].step = "end" /\ calls'[i].err = "ok"
    <3> DEFINE h == calls[i].hub
    <3>1. h \in Slots /\ c \in Members(dev'[h].children)
      BY <1>15, <2>1 DEF Child
    <3>2. Child(h, c) \/ (h = g /\ c = t)
      <4> HIDE DEF h
      <4> QED BY <1>c, <3>1
    <3>3. CASE Child(h, c)
      <4>1. Last(dev[c].at) < calls[i].port
        BY <1>1, <1>15, <3>3 DEF Progress, Kids, n
      <4> QED BY <1>13, <1>15, <4>1
    <3>4. CASE h = g /\ c = t
      <4>1. i = n
        <5>1. Len(dev[h].at) = i - 1
          BY DEF Structure, Stack, n
        <5> HIDE DEF h
        <5> QED BY <1>1, <1>20, <3>4, <5>1
      <4>2. Last(dev'[c].at) = Top.port
        BY <1>1, <1>13, <1>25, <3>4
      <4> QED BY <1>4, <1>11, <1>24, <4>1, <4>2
    <3> QED BY <3>2, <3>3, <3>4
  <2>2. ~ (Len(calls') \in Active')
    BY <1>1, <1>11, <1>16
  <2> QED BY <1>11, <2>1, <2>2 DEF Kids
<1>27. PortsPast'
  <2> SUFFICES ASSUME NEW h \in Slots, NEW q \in Ports, dev'[h].class = "hub", q < PortCount(h)', Past(h, q)'
               PROVE  PortDone(h, q)'
    BY DEF PortsPast
  <2>1. /\ dev[h].class = "hub" /\ q < PortCount(h) /\ dev'[h].at = dev[h].at
        /\ \A c \in Slots : dev'[c].at = dev[c].at
    BY <1>2, <1>13 DEF PortCount
  <2>2. CASE h = g /\ q = Top.port
    <3>1. Append(dev'[h].at, q) = Path
      BY <2>1, <2>2 DEF Path, g
    <3>2. t \in Members(dev'[h].children) /\ dev'[t].at = Path /\ t \in Slots
      BY <1>1, <1>c, <2>1, <2>2
    <3> QED BY <3>1, <3>2 DEF PortDone, Child
  <2>3. CASE ~(h = g /\ q = Top.port)
    <3>1. Past(h, q)
      <4> SUFFICES ASSUME NEW i \in 1..n, calls[i].hub = h
                   PROVE  q < calls[i].port \/ (q = calls[i].port /\ calls[i].step = "end")
        BY DEF Past, n
      <4>1. q < calls'[i].port \/ (q = calls'[i].port /\ calls'[i].step = "end")
        BY <1>11, <1>15 DEF Past
      <4>2. CASE i = n
        BY <1>1, <1>15, <2>3, <4>1, <4>2 DEF g
      <4>3. CASE i \in 1..(n - 1)
        BY <1>11, <4>1, <4>3
      <4> QED BY <1>15, <4>2, <4>3
    <3>2. PortDone(h, q)
      BY <2>1, <3>1 DEF Progress, PortsPast
    <3>3. \A c \in Slots : Child(h, c) => Child(h, c)'
      BY <1>14
    <3> QED BY <1>2, <2>1, <3>2, <3>3 DEF PortDone
  <2> QED BY <2>2, <2>3
<1>28. FailureNoted'
  <2>1. \A i \in 1..n : calls'[i].err = "ok"
    BY <1>1, <1>15, <1>24
  <2>2. Top'.err = "ok"
    BY <1>4, <1>11, <1>24
  <2> QED BY <1>11, <2>1, <2>2 DEF FailureNoted
<1>29. Structure' /\ Progress'
  BY <1>18, <1>21, <1>22, <1>23, <1>26, <1>27, <1>28 DEF Structure, Progress
<1>30. \A i \in 1..(n - 1) : calls'[i] = calls[i] /\ i \in 1..n
  BY <1>1, <1>11
<1>31. \A i \in Active' : i \in 1..(n - 1)
  BY <1>16
<1> QED BY <1>1, <1>11, <1>13, <1>14, <1>16, <1>29, <1>30, <1>31 DEF n, f, g, t

(* In the beginning every slot is free.                                    *)
LEMMA InitFacts ==
  ASSUME Init
  PROVE  Structure /\ Progress
<1>1. /\ DEVICE_SLOTS \in Nat /\ free = [i \in 1..DEVICE_SLOTS |-> DEVICE_SLOTS + 1 - i]
      /\ calls = << >> /\ status = "start" /\ root_hub = 0
      /\ dev = [s \in Slots |-> Device(Root, "none")]
  BY DEF Init, Slots
<1>2. /\ free \in Seq(Slots) /\ Len(free) = DEVICE_SLOTS
      /\ \A i \in 1..DEVICE_SLOTS : free[i] = DEVICE_SLOTS + 1 - i
  <2>1. \A i \in 1..DEVICE_SLOTS : DEVICE_SLOTS + 1 - i \in Slots
    BY DEF Slots
  <2> QED BY <1>1, <2>1, IsASeq
<1>3. Members(free) = Slots /\ IsLinkedOnce(free)
  <2>1. Members(free) \subseteq Slots
    BY <1>2, MembersType
  <2>2. ASSUME NEW s \in Slots PROVE s \in Members(free)
    <3> DEFINE i == DEVICE_SLOTS + 1 - s
    <3>1. i \in 1..DEVICE_SLOTS /\ DEVICE_SLOTS + 1 - i = s
      BY DEF Slots
    <3> HIDE DEF i
    <3> QED BY <1>2, <3>1 DEF Members
  <2>3. IsLinkedOnce(free)
    BY <1>2 DEF IsLinkedOnce
  <2> QED BY <2>1, <2>2, <2>3
<1>4. /\ Device(Root, "none") \in Devices /\ Device(Root, "none").children = << >>
      /\ Device(Root, "none").class = "none"
  BY DEF Device, Devices, States, Classes, Kinds
<1>5. \A s \in Slots : dev[s].children = << >> /\ dev[s].class = "none"
  BY <1>1, <1>4
<1>6. \A h, c \in Slots : ~Child(h, c)
  BY <1>5 DEF Child, Members
<1>7. Active = {} /\ 1..Len(calls) = {}
  BY <1>1 DEF Active
<1>8. Types
  <2>1. dev \in [Slots -> Devices]
    BY <1>1, <1>4
  <2>2. plugged \in [Paths -> Kinds \cup {"?"}] /\ answers \in [Paths -> Int]
    BY DEF Init
  <2>3. next_address = 1 /\ failed = {}
    BY DEF Init
  <2>4. << >> \in Seq(Frames)
    OBVIOUS
  <2> QED BY <1>1, <1>2, <1>7, <2>1, <2>2, <2>3, <2>4 DEF Types
<1>9. Stack
  BY <1>1, <1>3, <1>7 DEF Stack
<1>10. Forest
  <2>1. \A p \in Paths : plugged[p] # "hub"
    BY DEF Init
  <2>2. IsLinkedOnce(<< >>)
    BY DEF IsLinkedOnce
  <2> QED BY <1>5, <1>6, <1>7, <2>1, <2>2 DEF Forest
<1>11. FreeSlots
  <2>1. \A s \in Slots : s # root_hub
    BY <1>1 DEF Slots
  <2> QED BY <1>3, <1>5, <1>6, <1>7, <2>1 DEF FreeSlots
<1>12. Progress
  BY <1>1, <1>5, <1>7 DEF Progress, Kids, PortsPast, FailureNoted
<1> QED BY <1>8, <1>9, <1>10, <1>11, <1>12 DEF Structure

(* The root hub is attached.                                               *)
LEMMA AttachStep ==
  ASSUME Structure, AttachRootHub
  PROVE  /\ Structure' /\ Progress' /\ Active' = {} /\ calls' # << >> /\ Top'.step = "alloc"
         /\ \A h, c \in Slots : ~Child(h, c)'
         /\ \A s \in Members(free') : s \in Members(free) /\ dev'[s] = dev[s]
<1> DEFINE s == Head(free)
           f == Frame(s, 0)
           d == [Device(Root, "hub") EXCEPT !.state = "POWERED", !.address = next_address, !.class = "hub"]
<1>1. calls = << >> /\ Members(free) = Slots /\ status = "start"
  BY DEF Structure, Stack, AttachRootHub
<1>2. /\ free \in Seq(Slots) /\ IsLinkedOnce(free) /\ dev \in [Slots -> Devices]
      /\ next_address \in Nat \ {0}
  BY DEF Structure, Types, FreeSlots
<1>3. free # << >>
  <2>1. 1 \in Members(free)
    BY <1>1 DEF Slots
  <2> QED BY <2>1 DEF Members
<1>4. /\ s \in Slots /\ Tail(free) \in Seq(Slots) /\ Slots = {s} \cup Members(Tail(free))
      /\ IsLinkedOnce(Tail(free)) /\ s \notin Members(Tail(free))
  BY <1>1, <1>2, <1>3, TailMembers
<1>5. /\ root_hub' = s /\ free' = Tail(free) /\ dev' = [dev EXCEPT ![s] = d]
      /\ next_address' = next_address + 1 /\ calls' = <<f>> /\ status' = "running"
      /\ UNCHANGED <<plugged, answers, failed>>
  BY DEF AttachRootHub
<1>6. d \in Devices /\ d.at = Root /\ d.class = "hub" /\ d.children = << >>
  <2> DEFINE a == Device(Root, "hub")
             b == [a EXCEPT !.state = "POWERED"]
             c == [b EXCEPT !.address = next_address]
             e == [c EXCEPT !.class = "hub"]
  <2>1. a \in Devices /\ a.at = Root /\ a.children = << >>
    BY DEF Device, Devices, States, Classes, Kinds
  <2>2. d = e
    OBVIOUS
  <2> HIDE DEF a, d
  <2>3. b \in Devices /\ b.at = Root /\ b.children = << >>
    BY <2>1 DEF Devices, States
  <2> HIDE DEF b
  <2>4. c \in Devices /\ c.at = Root /\ c.children = << >>
    BY <1>2, <2>3 DEF Devices
  <2> HIDE DEF c
  <2>5. e \in Devices /\ e.at = Root /\ e.children = << >> /\ e.class = "hub"
    BY <2>4 DEF Devices, Classes
  <2> HIDE DEF e
  <2> QED BY <2>2, <2>5
<1>7. f \in Frames /\ f.hub = s /\ f.port = 0 /\ f.step = "alloc" /\ f.retries = 0 /\ f.err = "ok"
  BY <1>4 DEF Frame, Frames, Ports, Steps
<1>8. \A z \in Slots : z # s => dev'[z] = dev[z]
  BY <1>5
<1> HIDE DEF f, d, s
<1>9. dev' \in [Slots -> Devices] /\ dev'[s] = d
  BY <1>2, <1>4, <1>5, <1>6
<1>10. Members(free') = Slots \ {s} /\ free' \in Seq(Slots) /\ IsLinkedOnce(free')
  BY <1>4, <1>5
<1>11. /\ calls' \in Seq(Frames) /\ Len(calls') = 1 /\ calls'[1] = f /\ calls' # << >> /\ Top' = f
       /\ 1..Len(calls') = {1}
  BY <1>5, <1>7 DEF Top
<1>12. Active' = {}
  BY <1>7, <1>11 DEF Active
<1>13. \A z \in Slots : /\ dev[z].children = << >> /\ dev[z].class = "none"
                        /\ \A h \in Slots : ~Child(h, z)
  BY <1>1 DEF Structure, FreeSlots
<1>14. \A z \in Slots : /\ dev'[z].children = << >> /\ (z # s => dev'[z].class = "none")
  BY <1>6, <1>8, <1>9, <1>13
<1>15. \A h, c \in Slots : ~Child(h, c)'
  BY <1>14 DEF Child, Members
<1>16. Types'
  <2>1. s \in 0..DEVICE_SLOTS
    BY <1>4 DEF Slots
  <2>2. next_address' \in Nat \ {0}
    BY <1>2, <1>5
  <2>3. \A i \in 1..Len(calls') : calls'[i].retries <= MAX_RESET_RETRIES
    BY <1>7, <1>11
  <2> QED BY <1>5, <1>9, <1>10, <1>11, <2>1, <2>2, <2>3 DEF Structure, Types
<1>17. Stack'
  <2>1. s # 0
    BY <1>4 DEF Slots
  <2>2. Len(Root) = 0
    BY DEF Root
  <2>3. (calls[1].port < PortCount(calls[1].hub))'
    BY <1>5, <1>7, <1>11 DEF PortCount
  <2>4. \A i \in 1..Len(calls') : i = 1
    BY <1>11
  <2>5. dev'[calls'[1].hub].class = "hub" /\ Len(dev'[calls'[1].hub].at) = 1 - 1
    BY <1>6, <1>7, <1>9, <1>11, <2>2
  <2>6. ~(1 < Len(calls')) /\ 1 \notin Active'
    BY <1>11, <1>12
  <2>7. status' # "start" /\ root_hub' # 0 /\ calls'[1].hub = root_hub'
    BY <1>5, <1>7, <1>11, <2>1
  <2>8. dev'[root_hub'].at = Root /\ dev'[root_hub'].class = "hub"
    BY <1>5, <1>6, <1>9
  <2> QED BY <1>11, <2>3, <2>4, <2>5, <2>6, <2>7, <2>8 DEF Stack
<1>18. Forest'
  <2>1. \A p \in Paths : plugged'[p] = "hub" => Len(p) < DEPTH
    BY <1>5 DEF Structure, Forest
  <2>2. IsLinkedOnce(<< >>)
    BY DEF IsLinkedOnce
  <2> QED BY <1>5, <1>12, <1>14, <1>15, <2>1, <2>2 DEF Forest
<1>19. FreeSlots'
  <2>1. \A i \in 1..Len(calls') : calls'[i].hub = s
    BY <1>7, <1>11
  <2> QED BY <1>5, <1>10, <1>12, <1>14, <1>15, <2>1 DEF FreeSlots
<1>20. Kids'
  <2>1. \A i \in 1..Len(calls'), c \in Slots : ~(Child(calls[i].hub, c))'
    BY <1>4, <1>7, <1>11, <1>14 DEF Child, Members
  <2> QED BY <1>12, <2>1 DEF Kids
<1>21. PortsPast'
  <2> SUFFICES ASSUME NEW h \in Slots, NEW q \in Ports, dev'[h].class = "hub", Past(h, q)' PROVE FALSE
    BY DEF PortsPast
  <2>1. h = s
    BY <1>14
  <2>2. q < 0 \/ (q = 0 /\ f.step = "end")
    BY <1>7, <1>11, <2>1 DEF Past
  <2> QED BY <1>7, <2>2 DEF Ports
<1>22. FailureNoted'
  BY <1>7, <1>11 DEF FailureNoted
<1> QED BY <1>1, <1>7, <1>8, <1>10, <1>11, <1>12, <1>15, <1>16, <1>17, <1>18, <1>19, <1>20, <1>21, <1>22
     DEF Structure, Progress

----------------------------------------------------------------------------
(* What is known of the devices.                                           *)

Resetting == {"reset1", "desc1", "reset2", "address"}

(* The devices of the calls around the innermost one are hubs that answer  *)
(* at their own addresses.                                                 *)
LEMMA OuterFacts ==
  ASSUME IInv, calls # << >>, NEW i \in 1..(Len(calls) - 1)
  PROVE  /\ i \in Active /\ calls[i].step = "class" /\ calls[i].dev \in Slots
         /\ dev[calls[i].dev].at = PlaceOf(i) /\ PlaceOf(i) \in Paths /\ PlaceOf(i) # Path
         /\ Fits(dev[calls[i].dev]) /\ dev[calls[i].dev].address > 0
         /\ answers[PlaceOf(i)] = dev[calls[i].dev].address
         /\ plugged[PlaceOf(i)] \in Kinds \ {"none"}
<1>1. /\ i \in 1..Len(calls) /\ i \in Active /\ calls[i].step = "class" /\ calls[i].dev \in Slots
      /\ dev[calls[i].dev].at = PlaceOf(i) /\ PlaceOf(i) \in Paths /\ PlaceOf(i) # Path
      /\ Len(calls) \in Nat
  BY TopFacts DEF IInv
<1>2. i < Len(calls)
  BY <1>1
<1>3. Fits(dev[calls[i].dev]) /\ plugged[PlaceOf(i)] \in Kinds \ {"none"}
  BY <1>1, <1>2 DEF IInv, Contents, Class
<1>4. dev[calls[i].dev].address > 0 /\ answers[PlaceOf(i)] = dev[calls[i].dev].address
  BY <1>1 DEF IInv, Contents, Addresses
<1> QED BY <1>1, <1>3, <1>4

(* A child is not where a call is, unless the call is done with it.        *)
LEMMA ChildElsewhere ==
  ASSUME Structure, NEW h \in Slots, NEW c \in Slots, Child(h, c), NEW i \in Active
  PROVE  /\ dev[c].at \in Paths /\ dev[c].at # PlaceOf(i) /\ c # calls[i].dev
         /\ c \notin Members(free)
<1>1. c \notin Members(free) /\ c # calls[i].dev
  BY ChildFacts DEF Structure, Forest
<1>2. i \in 1..Len(calls)
  BY DEF Active
<1>3. calls[i].dev \in Slots \ Members(free) /\ dev[calls[i].dev].at = PlaceOf(i)
  BY <1>2, PlaceFacts
<1>4. dev[c].at # PlaceOf(i)
  BY <1>1, <1>3 DEF Structure, FreeSlots
<1>5. dev[c].at \in Paths
  <2>1. Len(dev[c].at) = Len(dev[h].at) + 1 /\ Len(dev[h].at) \in 0..DEPTH
    BY ChildFacts, DeviceTypes DEF Structure
  <2>2. dev[c].at # Root
    BY <2>1 DEF Root
  <2> QED BY <2>2, DeviceTypes DEF Structure
<1> QED BY <1>1, <1>4, <1>5

(* What has to be known of the innermost call, its device d and its place  *)
(* with k plugged in and answering at a, after a step of that device.      *)
TopClass(f, d, k) ==
  /\ f.step = "report" => /\ d.class = "mass" /\ failed = {} => k = "mass"
                          /\ d.class = "hub" <=> k = "hub"
                          /\ d.class = "hid" <=> k = "hid"
  /\ f.step \in {"debounce", "reset1", "desc1", "reset2", "address", "desc2", "config"} =>
       d.class = "none" /\ (failed = {} => d.iface0 = "none")
  /\ f.step = "class" => /\ d.class \in {"none", "hid"} /\ (d.class = "hid" <=> k = "hid")
                         /\ (failed = {} => d.iface0 = k)
  /\ f.step # "debounce" => k \in Kinds \ {"none"}

TopAddress(f, d, a) ==
  /\ f.step \in {"debounce", "reset1", "desc1", "reset2", "address"} => d.address = 0
  /\ f.step \in {"desc2", "config", "class", "report"} => d.address > 0
  /\ f.step \in {"desc1", "address", "desc2", "config", "class", "report"} => a = d.address

TopLate(f, d) == f.step \in {"reset1", "desc1"} /\ ~f.late => d.state = "POWERED"

(* It is known before.                                                     *)
LEMMA TopKnown ==
  ASSUME IInv, calls # << >>, Len(calls) \in Active
  PROVE  /\ TopClass(Top, dev[Top.dev], plugged[Path]) /\ TopAddress(Top, dev[Top.dev], answers[Path])
         /\ TopLate(Top, dev[Top.dev])
<1>1. Top = calls[Len(calls)] /\ dev[Top.dev].at = Path
  BY TopFacts DEF IInv
<1>2. TopClass(Top, dev[Top.dev], plugged[Path])
  BY <1>1 DEF IInv, Contents, Class, Fits, TopClass
<1>3. TopAddress(Top, dev[Top.dev], answers[Path])
  BY <1>1 DEF IInv, Contents, Addresses, TopAddress
<1>4. TopLate(Top, dev[Top.dev])
  BY <1>1 DEF IInv, Contents, Lateness, TopLate
<1> QED BY <1>2, <1>3, <1>4

(* As long as nothing has failed, a device answers at the default address  *)
(* only while it is the one being enumerated.                              *)
LEMMA NoneAtDefault ==
  ASSUME IInv, failed = {}, NEW p \in Paths, answers[p] = 0
  PROVE  calls # << >> /\ Path = p /\ Top.step \in Resetting
BY DEF IInv, Contents, Addresses, Resetting

(* A step of the device being enumerated keeps what is known of the        *)
(* devices, if it does for this one.                                       *)
LEMMA MovedContents ==
  ASSUME IInv, calls # << >>, NEW f, SameTree(f), Len(calls) \in Active,
         \A s \in Slots : s # Top.dev => dev'[s] = dev[s],
         TopClass(f, dev'[Top.dev], plugged'[Path]), TopAddress(f, dev'[Top.dev], answers'[Path]),
         TopLate(f, dev'[Top.dev]),
         \A p \in Paths : p # Path /\ answers[p] # 0 => answers'[p] = answers[p],
         failed = {} => /\ answers'[Path] < next_address' /\ next_address <= next_address'
                        /\ \A p \in Paths : p # Path => answers'[p] = answers[p]
                        /\ answers'[Path] = 0 => f.step \in Resetting
                        /\ \A p \in Paths : p # Path /\ answers'[Path] # -1 => answers'[p] # answers'[Path]
  PROVE  Contents'
<1> DEFINE n == Len(calls)
<1>1. /\ n \in Nat /\ n >= 1 /\ n \in 1..n /\ Top = calls[n] /\ Path = PlaceOf(n) /\ Path \in Paths
      /\ Top.dev \in Slots \ Members(free) /\ dev[Top.dev].at = Path
      /\ \A i \in 1..n : i = n \/ i \in 1..(n - 1)
      /\ \A i \in 1..(n - 1) : calls[i].dev # Top.dev /\ i < n
  BY TopFacts DEF IInv
<1>2. /\ Active' = Active /\ Len(calls') = n /\ Top' = f
      /\ \A i \in 1..(n - 1) : calls'[i] = calls[i]
      /\ \A i \in Active : calls'[i].dev = calls[i].dev
      /\ \A i \in 1..n : calls'[i].hub = calls[i].hub
      /\ \A h, c \in Slots : Child(h, c)' <=> Child(h, c)
  BY SameTreeStep DEF IInv
<1>3. /\ f.step \notin {"alloc", "end"} /\ f.dev = Top.dev /\ f.port = Top.port /\ f.hub = Top.hub
      /\ \A s \in Slots : dev'[s].at = dev[s].at
      /\ \A p \in Paths : p # Path => plugged'[p] = plugged[p]
      /\ UNCHANGED <<free, failed, status>> /\ next_address' \in Nat
  BY <1>1, TopFacts DEF SameTree, IInv
<1>4. calls'[n] = f /\ calls' # << >>
  <2>1. calls'[n] = f
    BY <1>2 DEF Top
  <2>2. calls' # << >>
    BY <1>1, <1>2
  <2> QED BY <2>1, <2>2
<1> HIDE DEF n
<1>5. \A i \in Active : i = n \/ i \in 1..(n - 1)
  BY <1>1 DEF Active, n
<1>6. Path' = Path
  <2>1. dev'[Top.hub].at = dev[Top.hub].at
    BY <1>1, <1>3, TopFacts DEF IInv
  <2> QED BY <1>2, <1>3, <2>1 DEF Path
<1>7. ASSUME NEW i \in 1..(n - 1)
      PROVE  /\ calls'[i].step = "class" /\ i < n /\ i # n
             /\ Fits(dev[calls[i].dev]) /\ dev[calls[i].dev].address > 0
             /\ dev'[calls'[i].dev] = dev[calls[i].dev] /\ dev[calls[i].dev].at = PlaceOf(i)
             /\ answers'[PlaceOf(i)] = dev[calls[i].dev].address
             /\ plugged'[PlaceOf(i)] = plugged[PlaceOf(i)]
             /\ plugged[PlaceOf(i)] \in Kinds \ {"none"}
  <2>1. /\ calls[i].step = "class" /\ calls[i].dev \in Slots
        /\ dev[calls[i].dev].at = PlaceOf(i) /\ PlaceOf(i) \in Paths /\ PlaceOf(i) # Path
        /\ Fits(dev[calls[i].dev]) /\ dev[calls[i].dev].address > 0
        /\ answers[PlaceOf(i)] = dev[calls[i].dev].address
        /\ plugged[PlaceOf(i)] \in Kinds \ {"none"}
    BY OuterFacts DEF n
  <2>2. answers[PlaceOf(i)] # 0
    BY <2>1
  <2>3. i < n /\ i # n /\ calls'[i] = calls[i] /\ dev'[calls[i].dev] = dev[calls[i].dev]
    BY <1>1, <1>2, <2>1
  <2> QED BY <1>3, <2>1, <2>2, <2>3
<1>8. Class'
  <2>1. ASSUME NEW h \in Slots, NEW c \in Slots, Child(h, c)' PROVE (Fits(dev[c]))'
    <3>1. Child(h, c)
      BY <1>2, <2>1
    <3>2. dev[c].at \in Paths /\ dev[c].at # Path /\ c # Top.dev
      BY <1>1, <3>1, ChildElsewhere DEF IInv, n
    <3>3. Fits(dev[c])
      BY <3>1 DEF IInv, Contents, Class
    <3>4. dev'[c] = dev[c] /\ plugged'[dev[c].at] = plugged[dev[c].at] /\ failed' = failed
      BY <1>3, <3>2
    <3> QED BY <3>3, <3>4 DEF Fits
  <2>2. ASSUME NEW i \in 1..(n - 1) PROVE (Fits(dev[calls[i].dev]))'
    <3>1. failed' = failed
      BY <1>3
    <3> QED BY <1>7, <3>1 DEF Fits
  <2>3. dev'[f.dev].at = Path
    BY <1>1, <1>3
  <2>4. ASSUME NEW i \in Active
        PROVE  /\ calls'[i].step = "report" \/ i < n => (Fits(dev[calls[i].dev]))'
               /\ calls'[i].step \in {"debounce", "reset1", "desc1", "reset2", "address", "desc2", "config"} =>
                    /\ dev'[calls'[i].dev].class = "none"
                    /\ failed' = {} => dev'[calls'[i].dev].iface0 = "none"
               /\ calls'[i].step = "class" /\ i = n =>
                    /\ dev'[calls'[i].dev].class \in {"none", "hid"}
                    /\ dev'[calls'[i].dev].class = "hid" <=> plugged'[dev'[calls'[i].dev].at] = "hid"
                    /\ failed' = {} => dev'[calls'[i].dev].iface0 = plugged'[dev'[calls'[i].dev].at]
               /\ calls'[i].step # "debounce" => plugged'[dev'[calls'[i].dev].at] \in Kinds \ {"none"}
    <3>1. CASE i = n
      <4>1. calls'[i] = f /\ ~(i < n) /\ dev'[calls'[i].dev].at = Path /\ calls'[i].dev = Top.dev
        BY <1>1, <1>3, <1>4, <2>3, <3>1
      <4>2. f.step = "report" => (Fits(dev[calls[i].dev]))'
        BY <1>3, <4>1 DEF TopClass, Fits
      <4> QED BY <1>3, <4>1, <4>2 DEF TopClass
    <3>2. CASE i \in 1..(n - 1)
      BY <1>7, <2>2, <3>2
    <3> QED BY <1>5, <3>1, <3>2
  <2>5. failed' = {} => \A s \in Members(free') : dev'[s].iface0 = "none"
    <3>1. Members(free) \subseteq Slots
      BY MembersType DEF IInv, Structure, Types
    <3> QED BY <1>1, <1>3, <3>1 DEF IInv, Contents, Class
  <2>6. status' # "ready"
    BY <1>3 DEF IInv, Contents, Class
  <2> QED BY <1>2, <2>1, <2>4, <2>5, <2>6 DEF Class
<1>9. Addresses'
  <2>1. ASSUME NEW i \in Active
        PROVE  /\ calls'[i].step \in {"debounce", "reset1", "desc1", "reset2", "address"} =>
                    dev'[calls'[i].dev].address = 0
               /\ calls'[i].step \in {"desc2", "config", "class", "report"} =>
                    dev'[calls'[i].dev].address > 0
               /\ calls'[i].step \in {"desc1", "address", "desc2", "config", "class", "report"} =>
                    answers'[dev'[calls'[i].dev].at] = dev'[calls'[i].dev].address
    <3>1. CASE i = n
      <4>1. calls'[i] = f /\ dev'[calls'[i].dev].at = Path /\ calls'[i].dev = Top.dev
        BY <1>1, <1>3, <1>4, <3>1
      <4> QED BY <4>1 DEF TopAddress
    <3>2. CASE i \in 1..(n - 1)
      BY <1>7, <3>2
    <3> QED BY <1>5, <3>1, <3>2
  <2>2. ASSUME failed' = {}
        PROVE  /\ \A p, q \in Paths : answers'[p] = answers'[q] /\ answers'[p] # -1 => p = q
               /\ \A p \in Paths : answers'[p] < next_address'
               /\ \A p \in Paths : answers'[p] = 0 => Path' = p /\ Top'.step \in Resetting
    <3>1. failed = {}
      BY <1>3, <2>2
    <3>2. /\ \A p, q \in Paths : answers[p] = answers[q] /\ answers[p] # -1 => p = q
          /\ \A p \in Paths : answers[p] < next_address
          /\ answers \in [Paths -> Int] /\ next_address \in Nat
      BY <3>1 DEF IInv, Contents, Addresses, Structure, Types
    <3>3. \A p, q \in Paths : answers'[p] = answers'[q] /\ answers'[p] # -1 => p = q
      <4> TAKE p, q \in Paths
      <4>1. CASE p = Path
        BY <3>1, <4>1
      <4>2. CASE q = Path
        BY <3>1, <4>2
      <4>3. CASE p # Path /\ q # Path
        BY <3>1, <3>2, <4>3
      <4> QED BY <4>1, <4>2, <4>3
    <3>4. \A p \in Paths : answers'[p] < next_address'
      <4> TAKE p \in Paths
      <4>1. CASE p # Path
        <5>1. answers'[p] = answers[p] /\ answers[p] < next_address /\ next_address <= next_address'
          BY <3>1, <3>2, <4>1
        <5> QED BY <1>3, <3>2, <5>1
      <4> QED BY <3>1, <4>1
    <3>5. \A p \in Paths : answers'[p] = 0 => Path' = p /\ Top'.step \in Resetting
      <4> SUFFICES ASSUME NEW p \in Paths, answers'[p] = 0 PROVE Path = p /\ f.step \in Resetting
        BY <1>2, <1>6
      <4>1. p = Path
        BY <3>1, NoneAtDefault
      <4> QED BY <3>1, <4>1
    <3> QED BY <3>3, <3>4, <3>5
  <2> QED BY <1>2, <1>4, <2>1, <2>2 DEF Addresses, Resetting
<1>10. Lateness'
  <2>1. ASSUME NEW i \in Active
        PROVE  calls'[i].step \in {"reset1", "desc1"} /\ ~calls'[i].late => dev'[calls'[i].dev].state = "POWERED"
    <3>1. CASE i = n
      BY <1>3, <1>4, <3>1 DEF TopLate
    <3>2. CASE i \in 1..(n - 1)
      BY <1>7, <3>2
    <3> QED BY <1>5, <3>1, <3>2
  <2>2. AssertionFailsOnlyLate'
    BY <1>2, <1>3 DEF AssertionFailsOnlyLate
  <2> QED BY <1>2, <2>1, <2>2 DEF Lateness
<1> QED BY <1>8, <1>9, <1>10 DEF Contents

(* What Contents says of a call.                                           *)
Known(i) ==
  LET d == dev[calls[i].dev]
      s == calls[i].step
  IN  /\ s = "report" \/ i < Len(calls) => Fits(d)
      /\ s \in {"debounce", "reset1", "desc1", "reset2", "address", "desc2", "config"} =>
           d.class = "none" /\ (failed = {} => d.iface0 = "none")
      /\ s = "class" /\ i = Len(calls) =>
           /\ d.class \in {"none", "hid"} /\ (d.class = "hid" <=> plugged[d.at] = "hid")
           /\ (failed = {} => d.iface0 = plugged[d.at])
      /\ s # "debounce" => plugged[d.at] \in Kinds \ {"none"}
      /\ s \in {"debounce", "reset1", "desc1", "reset2", "address"} => d.address = 0
      /\ s \in {"desc2", "config", "class", "report"} => d.address > 0
      /\ s \in {"desc1", "address", "desc2", "config", "class", "report"} =>
           answers[d.at] = d.address
      /\ s \in {"reset1", "desc1"} /\ ~calls[i].late => d.state = "POWERED"

(* It goes on to hold of a call around the innermost one whose hub is left *)
(* alone.                                                                  *)
LEMMA KnownKept ==
  ASSUME IInv, calls # << >>, NEW i \in 1..(Len(calls) - 1), calls'[i] = calls[i], i < Len(calls'),
         dev'[calls[i].dev].at = dev[calls[i].dev].at, dev'[calls[i].dev].class = dev[calls[i].dev].class,
         dev'[calls[i].dev].address = dev[calls[i].dev].address,
         answers'[PlaceOf(i)] = answers[PlaceOf(i)], plugged'[PlaceOf(i)] = plugged[PlaceOf(i)],
         failed' = {} => failed = {}, Len(calls') \in Nat
  PROVE  Known(i)'
<1> DEFINE d == dev'[calls[i].dev]
<1>1. /\ i \in Active /\ calls[i].step = "class" /\ calls[i].dev \in Slots
      /\ dev[calls[i].dev].at = PlaceOf(i)
      /\ Fits(dev[calls[i].dev]) /\ dev[calls[i].dev].address > 0
      /\ answers[PlaceOf(i)] = dev[calls[i].dev].address
      /\ plugged[PlaceOf(i)] \in Kinds \ {"none"}
  BY OuterFacts
<1>2. calls'[i].step = "class" /\ calls'[i].dev = calls[i].dev /\ i # Len(calls') /\ i \in Nat
  BY <1>1
<1>3. d.at = PlaceOf(i) /\ d.address > 0 /\ answers'[d.at] = d.address
      /\ plugged'[d.at] \in Kinds \ {"none"}
  BY <1>1
<1>4. (Fits(dev[calls[i].dev]))'
  BY <1>1, <1>2, <1>3 DEF Fits
<1> QED BY <1>2, <1>3, <1>4 DEF Known

(* And a child that is left alone goes on to be what it is taken for.      *)
LEMMA FitsKept ==
  ASSUME IInv, NEW h \in Slots, NEW c \in Slots, Child(h, c),
         dev'[c].at = dev[c].at, dev'[c].class = dev[c].class,
         plugged'[dev[c].at] = plugged[dev[c].at], failed' = {} => failed = {}
  PROVE  (Fits(dev[c]))'
<1>1. Fits(dev[c])
  BY DEF IInv, Contents, Class
<1> QED BY <1>1 DEF Fits

(* A step on which no device is at the default address.                    *)
LEMMA KeptContents ==
  ASSUME IInv, \A h, c \in Slots : Child(h, c)' => (Fits(dev[c]))',
         \A i \in Active' : Known(i)',
         failed' = {} => failed = {} /\ \A s \in Members(free') : dev'[s].iface0 = "none",
         status' = "ready" => calls' = << >>,
         failed' = {} => answers' = answers /\ (calls = << >> \/ Top.step \notin Resetting),
         next_address' \in Nat, next_address <= next_address', AssertionFailsOnlyLate'
  PROVE  Contents'
<1>1. Class'
  BY DEF Class, Known
<1>2. Addresses'
  <2>1. ASSUME failed' = {}
        PROVE  /\ \A p, q \in Paths : answers'[p] = answers'[q] /\ answers'[p] # -1 => p = q
               /\ \A p \in Paths : answers'[p] < next_address' /\ answers'[p] # 0
    <3>1. failed = {} /\ answers' = answers
      BY <2>1
    <3>2. /\ \A p, q \in Paths : answers[p] = answers[q] /\ answers[p] # -1 => p = q
          /\ \A p \in Paths : answers[p] < next_address
          /\ answers \in [Paths -> Int] /\ next_address \in Nat
      BY <3>1 DEF IInv, Contents, Addresses, Structure, Types
    <3>3. \A p \in Paths : answers[p] # 0
      BY <2>1, <3>1, NoneAtDefault
    <3>4. \A p \in Paths : answers[p] < next_address'
      BY <3>2
    <3> QED BY <3>1, <3>2, <3>3, <3>4
  <2> QED BY <2>1 DEF Addresses, Known
<1>3. Lateness'
  BY DEF Lateness, Known
<1> QED BY <1>1, <1>2, <1>3 DEF Contents

(* Releasing devices keeps what is known of the others.                    *)
LEMMA DropContents ==
  ASSUME IInv, calls # << >>, NEW m, NEW D, NEW f, Drops(m, D, f),
         \A p \in Paths : p # PlaceOf(m) => answers'[p] = answers[p],
         failed' = {} => /\ answers' = answers /\ Top.step \notin Resetting
                         /\ \A s \in D : dev'[s].iface0 = "none",
         f.err = "inval" => f.late \/ \E p \in failed' : Len(p) > m
  PROVE  Contents'
<1>1. /\ m \in 1..Len(calls) /\ m \in Nat /\ Len(calls') = m /\ calls' # << >>
      /\ \A i \in 1..m : i \in 1..Len(calls)
      /\ Active' = 1..(m - 1)
      /\ \A i \in 1..(m - 1) : i \in Active /\ calls[i].dev \in Slots \ D
      /\ \A h, c \in Slots : Child(h, c)' <=> Child(h, c) /\ h \notin D /\ c \notin D
      /\ Top' = f /\ Path' = PlaceOf(m) /\ PlaceOf(m) \in Paths
  BY DropFacts DEF IInv
<1>2. /\ m \in Active /\ D \subseteq Slots /\ D \cap Members(free) = {}
      /\ \A i \in 1..(m - 1) : calls'[i] = calls[i]
      /\ \A s \in Slots \ D : dev'[s] = dev[s]
      /\ Members(free') = Members(free) \cup D
      /\ \A p \in Paths : p # PlaceOf(m) => plugged'[p] = plugged[p]
      /\ failed \subseteq failed' /\ UNCHANGED <<next_address, root_hub, status>>
  BY DEF Drops
<1>3. failed' = {} => failed = {}
  BY <1>2
<1>4. Len(PlaceOf(m)) = m /\ Len(calls) \in Nat
  BY <1>1, PlaceFacts, TopFacts DEF IInv
<1>5. \A i \in Active' : Known(i)'
  <2> SUFFICES ASSUME NEW i \in 1..(m - 1) PROVE Known(i)'
    BY <1>1
  <2>1. i \in 1..(Len(calls) - 1) /\ i \in 1..Len(calls) /\ i < m /\ i < Len(calls')
    BY <1>1, <1>4
  <2>2. PlaceOf(i) \in Paths /\ Len(PlaceOf(i)) = i
    BY <2>1, PlaceFacts DEF IInv
  <2>3. PlaceOf(i) # PlaceOf(m)
    BY <1>4, <2>1, <2>2
  <2>4. dev'[calls[i].dev] = dev[calls[i].dev] /\ calls'[i] = calls[i] /\ Len(calls') \in Nat
    BY <1>1, <1>2
  <2>5. answers'[PlaceOf(i)] = answers[PlaceOf(i)] /\ plugged'[PlaceOf(i)] = plugged[PlaceOf(i)]
    BY <1>2, <2>2, <2>3
  <2> QED BY <1>3, <2>1, <2>4, <2>5, KnownKept
<1>6. ASSUME NEW h \in Slots, NEW c \in Slots, Child(h, c)' PROVE (Fits(dev[c]))'
  <2>1. Child(h, c) /\ c \notin D
    BY <1>1, <1>6
  <2>2. dev[c].at \in Paths /\ dev[c].at # PlaceOf(m)
    BY <1>2, <2>1, ChildElsewhere DEF IInv
  <2>3. dev'[c] = dev[c] /\ plugged'[dev[c].at] = plugged[dev[c].at]
    BY <1>2, <2>1, <2>2
  <2> QED BY <1>3, <2>1, <2>3, FitsKept
<1>7. failed' = {} => \A s \in Members(free') : dev'[s].iface0 = "none"
  <2> SUFFICES ASSUME failed' = {}, NEW s \in Members(free), s \notin D
               PROVE  dev'[s].iface0 = "none"
    BY <1>2
  <2>1. Members(free) \subseteq Slots
    BY MembersType DEF IInv, Structure, Types
  <2>2. dev'[s] = dev[s]
    BY <1>2, <2>1
  <2> QED BY <1>3, <2>2 DEF IInv, Contents, Class
<1>8. status' # "ready"
  BY <1>2 DEF IInv, Contents, Class
<1>9. AssertionFailsOnlyLate'
  BY <1>1, <1>4 DEF AssertionFailsOnlyLate
<1>10. next_address' \in Nat /\ next_address <= next_address'
  BY <1>2 DEF IInv, Structure, Types
<1> QED BY <1>3, <1>5, <1>6, <1>7, <1>8, <1>9, <1>10, KeptContents

(* The calls that end an enumeration of a device: the port is done with.   *)
LEMMA NextPortContents ==
  ASSUME IInv, calls # << >>, NextPort
  PROVE  Contents'
<1> DEFINE f == Frame(Top.hub, Top.port + 1)
           n == Len(calls)
<1>1. SameTree(f)
  BY NextPortStep DEF IInv
<1>2. f.step = "alloc" /\ f.err = "ok"
  BY DEF Frame
<1> HIDE DEF f
<1>3. /\ Active' = Active /\ Len(calls') = n /\ Top' = f
      /\ \A i \in 1..(n - 1) : calls'[i] = calls[i]
      /\ \A h, c \in Slots : Child(h, c)' <=> Child(h, c)
  BY <1>1, SameTreeStep DEF IInv
<1>4. n \in Nat /\ n \notin Active /\ Top.step = "end"
  BY TopFacts DEF IInv, NextPort, At
<1>5. UNCHANGED <<plugged, answers, dev, free, next_address, status, failed>>
  BY DEF NextPort
<1> HIDE DEF n
<1>6. \A i \in Active' : Known(i)'
  <2> SUFFICES ASSUME NEW i \in Active PROVE Known(i)'
    BY <1>3
  <2>1. i \in 1..(n - 1) /\ i < n
    BY <1>4 DEF Active, n
  <2> QED BY <1>3, <1>4, <1>5, <2>1, KnownKept DEF n
<1>7. \A h, c \in Slots : Child(h, c)' => (Fits(dev[c]))'
  BY <1>3, <1>5, FitsKept
<1>8. AssertionFailsOnlyLate'
  BY <1>2, <1>3 DEF AssertionFailsOnlyLate
<1>9. /\ failed' = {} => \A s \in Members(free') : dev'[s].iface0 = "none"
      /\ status' # "ready" /\ next_address' \in Nat /\ next_address <= next_address'
  BY <1>5 DEF IInv, Contents, Class, Structure, Types
<1> QED BY <1>4, <1>5, <1>6, <1>7, <1>8, <1>9, KeptContents DEF Resetting

(* A slot is taken for the device at the port.                             *)
LEMMA AllocContents ==
  ASSUME IInv, calls # << >>, PortAlloc, free # << >>
  PROVE  Contents'
<1> DEFINE n == Len(calls)
           g == Head(free)
<1>1. /\ Active' = Active \cup {n} /\ n \notin Active
      /\ Len(calls') = n /\ g \in Members(free) /\ g \in Slots
      /\ Members(free') = Members(free) \ {g}
      /\ \A i \in 1..(n - 1) : calls'[i] = calls[i] /\ i \in Active
      /\ Top' = [Top EXCEPT !.step = "debounce", !.dev = g]
      /\ calls'[n] = [Top EXCEPT !.step = "debounce", !.dev = g]
      /\ dev'[g] = Device(Path, dev[g].iface0)
      /\ \A s \in Slots : s # g => dev'[s] = dev[s]
      /\ \A h, c \in Slots : Child(h, c)' <=> Child(h, c)
  BY AllocStep DEF IInv
<1>2. n \in Nat /\ n >= 1 /\ Top \in Frames /\ Top.step = "alloc"
  BY TopFacts DEF IInv, PortAlloc, At
<1>3. UNCHANGED <<plugged, answers, next_address, failed, status>>
  BY DEF PortAlloc
<1> HIDE DEF n, g
<1>4. calls'[n].step = "debounce" /\ calls'[n].dev = g /\ Top'.step = "debounce"
  BY <1>1, <1>2 DEF Frames
<1>5. ASSUME NEW i \in 1..(n - 1) PROVE Known(i)'
  <2>1. i \in Active /\ i < n /\ i \in 1..n
    BY <1>1, <1>2
  <2>2. calls[i].dev \in Slots \ Members(free)
    BY <2>1, PlaceFacts DEF n, IInv
  <2>3. dev'[calls[i].dev] = dev[calls[i].dev]
    BY <1>1, <2>2
  <2> QED BY <1>1, <1>2, <1>3, <2>1, <2>3, KnownKept DEF n
<1>6. ASSUME NEW i, i = n PROVE Known(i)'
  <2>1. dev'[g].class = "none" /\ dev'[g].address = 0 /\ dev'[g].iface0 = dev[g].iface0
    BY <1>1 DEF Device
  <2>2. failed' = {} => dev[g].iface0 = "none"
    BY <1>1, <1>3 DEF IInv, Contents, Class
  <2>3. ~(i < Len(calls'))
    <3>1. Len(calls') = n
      BY <1>1
    <3> QED BY <1>2, <1>6, <3>1
  <2>4. calls'[i].step = "debounce" /\ calls'[i].dev = g
    BY <1>4, <1>6
  <2> QED BY <2>1, <2>2, <2>3, <2>4 DEF Known
<1>7. \A i \in Active' : i = n \/ i \in 1..(n - 1)
  BY <1>1, <1>2 DEF Active, n
<1>8. \A i \in Active' : Known(i)'
  BY <1>5, <1>6, <1>7
<1>9. ASSUME NEW h \in Slots, NEW c \in Slots, Child(h, c)' PROVE (Fits(dev[c]))'
  <2>1. Child(h, c)
    BY <1>1, <1>9
  <2>2. c \notin Members(free)
    BY <2>1, ChildFacts DEF IInv, Structure
  <2>3. dev'[c] = dev[c]
    BY <1>1, <2>2
  <2> QED BY <1>3, <2>1, <2>3, FitsKept
<1>10. AssertionFailsOnlyLate'
  BY <1>4 DEF AssertionFailsOnlyLate
<1>11. failed' = {} => \A s \in Members(free') : dev'[s].iface0 = "none"
  <2>1. Members(free) \subseteq Slots
    BY MembersType DEF IInv, Structure, Types
  <2>2. \A s \in Members(free') : s \in Members(free) /\ dev'[s] = dev[s]
    BY <1>1, <2>1
  <2> QED BY <1>3, <2>2 DEF IInv, Contents, Class
<1>12. status' # "ready" /\ next_address' \in Nat /\ next_address <= next_address'
  BY <1>3 DEF IInv, Contents, Class, Structure, Types
<1> QED BY <1>2, <1>3, <1>8, <1>9, <1>10, <1>11, <1>12, KeptContents DEF Resetting

(* The ports of a hub are begun with.                                      *)
LEMMA PushContents ==
  ASSUME IInv, calls # << >>, Top.step = "class", plugged[Path] = "hub", Pushes,
         UNCHANGED <<plugged, answers, free, root_hub, next_address, status, failed>>
  PROVE  Contents'
<1> DEFINE n == Len(calls)
<1>1. /\ Active' = Active /\ Len(calls') = n + 1 /\ Top' = Frame(Top.dev, 0)
      /\ \A i \in 1..n : calls'[i] = calls[i]
      /\ \A s \in Slots : s # Top.dev => dev'[s] = dev[s]
      /\ dev'[Top.dev] = [dev[Top.dev] EXCEPT !.class = "hub"]
      /\ \A h, c \in Slots : Child(h, c)' <=> Child(h, c)
  BY PushStep DEF IInv
<1>2. /\ n \in Nat /\ n >= 1 /\ n \in 1..n /\ n \in Active /\ Top = calls[n] /\ dev[Top.dev].at = Path
      /\ Top.dev \in Slots \ Members(free)
      /\ \A i \in 1..(n - 1) : calls[i].dev \in Slots /\ calls[i].dev # Top.dev
  BY TopFacts DEF IInv
<1>3. /\ dev'[Top.dev].class = "hub" /\ dev'[Top.dev].at = Path
      /\ dev'[Top.dev].address = dev[Top.dev].address
  BY <1>1, <1>2 DEF IInv, Structure, Types, Devices
<1> HIDE DEF n
<1>4. ASSUME NEW i \in 1..(n - 1) PROVE Known(i)'
  <2>1. i < n + 1 /\ i \in 1..n
    BY <1>2
  <2> QED BY <1>1, <1>2, <2>1, KnownKept DEF n
<1>5. ASSUME NEW i, i = n PROVE Known(i)'
  <2>1. dev[Top.dev].address > 0 /\ answers[Path] = dev[Top.dev].address
    BY <1>2, TopKnown DEF n, TopAddress
  <2>2. calls'[i].step = "class" /\ calls'[i].dev = Top.dev /\ i # Len(calls')
    BY <1>1, <1>2, <1>5
  <2>3. (Fits(dev[calls[i].dev]))'
    BY <1>3, <2>2 DEF Fits
  <2> QED BY <1>3, <2>1, <2>2, <2>3 DEF Known, Kinds
<1>6. \A i \in Active' : i = n \/ i \in 1..(n - 1)
  BY <1>1, <1>2 DEF Active, n
<1>7. \A i \in Active' : Known(i)'
  BY <1>4, <1>5, <1>6
<1>8. ASSUME NEW h \in Slots, NEW c \in Slots, Child(h, c)' PROVE (Fits(dev[c]))'
  <2>1. Child(h, c)
    BY <1>1, <1>8
  <2>2. c # Top.dev
    BY <1>2, <2>1, TopFacts DEF n, IInv
  <2>3. dev'[c] = dev[c]
    BY <1>1, <2>2
  <2> QED BY <2>1, <2>3, FitsKept
<1>9. AssertionFailsOnlyLate'
  <2>1. Top'.step = "alloc"
    BY <1>1 DEF Frame
  <2> QED BY <2>1 DEF AssertionFailsOnlyLate
<1>10. failed' = {} => \A s \in Members(free') : dev'[s].iface0 = "none"
  <2>1. Members(free) \subseteq Slots
    BY MembersType DEF IInv, Structure, Types
  <2>2. \A s \in Members(free) : dev'[s] = dev[s]
    BY <1>1, <1>2, <2>1
  <2> QED BY <2>2 DEF IInv, Contents, Class
<1>11. status' # "ready" /\ next_address' \in Nat /\ next_address <= next_address'
  BY DEF IInv, Contents, Class, Structure, Types
<1> QED BY <1>7, <1>8, <1>9, <1>10, <1>11, KeptContents DEF Resetting

(* The device is added to its hub.                                         *)
LEMMA ReportContents ==
  ASSUME IInv, calls # << >>, ReportToTree
  PROVE  Contents'
<1> DEFINE n == Len(calls)
           e == [Top EXCEPT !.step = "end"]
<1>1. /\ n \in Active /\ Len(calls') = n /\ Top' = e
      /\ \A i \in 1..(n - 1) : calls'[i] = calls[i] /\ i \in 1..n
      /\ \A i \in Active' : i \in 1..(n - 1)
      /\ \A s \in Slots : /\ dev'[s].at = dev[s].at /\ dev'[s].class = dev[s].class
                          /\ dev'[s].iface0 = dev[s].iface0 /\ dev'[s].state = dev[s].state
                          /\ dev'[s].address = dev[s].address
      /\ \A h, c \in Slots : Child(h, c)' <=> Child(h, c) \/ (h = Top.hub /\ c = Top.dev)
  BY ReportStep DEF IInv
<1>2. /\ n \in Nat /\ n >= 1 /\ Top \in Frames /\ Top = calls[n] /\ dev[Top.dev].at = Path
      /\ Top.dev \in Slots
      /\ \A i \in 1..(n - 1) : calls[i].dev \in Slots
  BY <1>1, TopFacts DEF IInv
<1>3. Top.step = "report" /\ UNCHANGED <<plugged, answers, free, root_hub, next_address, status, failed>>
  BY DEF ReportToTree, At
<1>4. e.err = Top.err /\ Top.err = "ok"
  <2>1. e.err = Top.err
    BY <1>2 DEF Frames
  <2>2. n \in 1..Len(calls)
    BY <1>2
  <2> QED BY <1>2, <1>3, <2>1, <2>2 DEF IInv, Progress, FailureNoted
<1> HIDE DEF n, e
<1>5. \A i \in Active' : Known(i)'
  <2> SUFFICES ASSUME NEW i \in 1..(n - 1) PROVE Known(i)'
    BY <1>1
  <2>1. i < n /\ calls'[i] = calls[i] /\ calls[i].dev \in Slots
    BY <1>1, <1>2
  <2> QED BY <1>1, <1>2, <1>3, <2>1, KnownKept DEF n
<1>6. ASSUME NEW h \in Slots, NEW c \in Slots, Child(h, c)' PROVE (Fits(dev[c]))'
  <2>1. CASE Child(h, c)
    BY <1>1, <1>3, <2>1, FitsKept
  <2>2. CASE c = Top.dev
    <3>1. TopClass(Top, dev[Top.dev], plugged[Path])
      BY <1>1, TopKnown DEF n
    <3>2. Fits(dev[Top.dev])
      BY <1>2, <1>3, <3>1 DEF TopClass, Fits
    <3> QED BY <1>1, <1>3, <2>2, <3>2 DEF Fits
  <2> QED BY <1>1, <1>6, <2>1, <2>2
<1>7. AssertionFailsOnlyLate'
  BY <1>1, <1>4 DEF AssertionFailsOnlyLate
<1>8. failed' = {} => \A s \in Members(free') : dev'[s].iface0 = "none"
  <2>1. Members(free) \subseteq Slots
    BY MembersType DEF IInv, Structure, Types
  <2> QED BY <1>1, <1>3, <2>1 DEF IInv, Contents, Class
<1>9. status' # "ready" /\ next_address' \in Nat /\ next_address <= next_address'
  BY <1>3 DEF IInv, Contents, Class, Structure, Types
<1> QED BY <1>3, <1>5, <1>6, <1>7, <1>8, <1>9, KeptContents DEF Resetting

(* The ports of a hub are done with.                                       *)
LEMMA HubReturnsContents ==
  ASSUME IInv, calls # << >>, HubDone, Len(calls) # 1
  PROVE  Contents'
<1> DEFINE n == Len(calls)
           g == [calls[n - 1] EXCEPT !.step = "report"]
<1>1. /\ Active' = Active /\ Len(calls') = n - 1 /\ calls' # << >>
      /\ n - 1 \in 1..(n - 1) /\ Top' = g /\ calls'[n - 1] = g
      /\ \A i \in 1..(n - 2) : calls'[i] = calls[i]
      /\ \A i \in 1..(n - 1) : i = n - 1 \/ i \in 1..(n - 2)
  BY HubReturns DEF IInv
<1>2. /\ n \in Nat /\ n >= 1 /\ Top.step = "end" /\ n \notin Active
      /\ UNCHANGED <<plugged, answers, dev, free, root_hub, next_address, failed, status>>
  BY TopFacts DEF IInv, HubDone, At
<1>3. g.step = "report" /\ g.dev = calls[n - 1].dev
  <2>1. n - 1 \in 1..n
    BY <1>1, <1>2
  <2>2. calls[n - 1] \in Frames
    BY <2>1, FrameTypes DEF IInv, Structure
  <2> QED BY <2>2 DEF Frames
<1> HIDE DEF n, g
<1>4. ASSUME NEW i \in 1..(n - 2) PROVE Known(i)'
  <2>1. i \in 1..(n - 1) /\ i < n - 1 /\ n - 1 \in Nat
    BY <1>1, <1>2
  <2> QED BY <1>1, <1>2, <2>1, KnownKept DEF n
<1>5. ASSUME NEW i, i = n - 1 PROVE Known(i)'
  <2>1. i \in 1..(n - 1) /\ ~(i < n - 1)
    BY <1>1, <1>2, <1>5
  <2>2. /\ dev[calls[i].dev].at = PlaceOf(i)
        /\ Fits(dev[calls[i].dev]) /\ dev[calls[i].dev].address > 0
        /\ answers[PlaceOf(i)] = dev[calls[i].dev].address
        /\ plugged[PlaceOf(i)] \in Kinds \ {"none"}
    BY <2>1, OuterFacts DEF n
  <2>3. calls'[i].step = "report" /\ calls'[i].dev = calls[i].dev
    BY <1>1, <1>3, <1>5
  <2>4. (Fits(dev[calls[i].dev]))'
    BY <1>2, <2>2, <2>3 DEF Fits
  <2> QED BY <1>2, <2>2, <2>3, <2>4 DEF Known
<1>6. \A i \in Active' : i = n - 1 \/ i \in 1..(n - 2)
  <2>1. \A i \in Active : i \in 1..(n - 1)
    BY <1>2 DEF Active, n
  <2> QED BY <1>1, <2>1
<1>7. \A i \in Active' : Known(i)'
  BY <1>4, <1>5, <1>6
<1>8. \A h, c \in Slots : Child(h, c)' => (Fits(dev[c]))'
  <2>1. \A h, c \in Slots : Child(h, c)' => Child(h, c)
    BY <1>2 DEF Child
  <2> QED BY <1>2, <2>1, FitsKept
<1>9. AssertionFailsOnlyLate'
  BY <1>1, <1>3 DEF AssertionFailsOnlyLate
<1>10. /\ failed' = {} => \A s \in Members(free') : dev'[s].iface0 = "none"
       /\ status' # "ready" /\ next_address' \in Nat /\ next_address <= next_address'
  BY <1>2 DEF IInv, Contents, Class, Structure, Types
<1> QED BY <1>2, <1>7, <1>8, <1>9, <1>10, KeptContents DEF Resetting

(* The ports of the root hub are done with.                                *)
LEMMA RootReturnsContents ==
  ASSUME IInv, calls # << >>, Top.step = "end", calls' = << >>,
         UNCHANGED <<plugged, answers, dev, free, root_hub, next_address, failed>>
  PROVE  Contents'
<1>1. Active' = {}
  <2>1. Len(calls') = 0
    OBVIOUS
  <2> QED BY <2>1 DEF Active
<1>2. \A h, c \in Slots : Child(h, c)' => (Fits(dev[c]))'
  <2>1. \A h, c \in Slots : Child(h, c)' => Child(h, c)
    BY DEF Child
  <2> QED BY <2>1, FitsKept
<1>3. AssertionFailsOnlyLate'
  BY DEF AssertionFailsOnlyLate
<1>4. /\ failed' = {} => \A s \in Members(free') : dev'[s].iface0 = "none"
      /\ next_address' \in Nat /\ next_address <= next_address'
  BY DEF IInv, Contents, Class, Structure, Types
<1> QED BY <1>1, <1>2, <1>3, <1>4, KeptContents DEF Resetting

(* The root hub is attached.                                               *)
LEMMA AttachContents ==
  ASSUME IInv, AttachRootHub
  PROVE  Contents'
<1>1. /\ Active' = {} /\ calls' # << >> /\ Top'.step = "alloc"
      /\ \A h, c \in Slots : ~Child(h, c)'
      /\ \A s \in Members(free') : s \in Members(free) /\ dev'[s] = dev[s]
  BY AttachStep DEF IInv
<1>2. calls = << >>
  BY DEF IInv, Structure, Stack, AttachRootHub
<1>3. AssertionFailsOnlyLate'
  BY <1>1 DEF AssertionFailsOnlyLate
<1>4. status' # "ready" /\ answers' = answers /\ failed' = failed /\ next_address' = next_address + 1
  BY DEF AttachRootHub
<1>5. /\ failed' = {} => \A s \in Members(free') : dev'[s].iface0 = "none"
      /\ next_address' \in Nat /\ next_address <= next_address'
  BY <1>1, <1>4 DEF IInv, Contents, Class, Structure, Types
<1> QED BY <1>1, <1>2, <1>3, <1>4, <1>5, KeptContents

(* The task stops.                                                         *)
LEMMA StopContents ==
  ASSUME IInv, status' \in {"fault", "spin"},
         UNCHANGED <<plugged, answers, dev, free, root_hub, next_address, calls, failed>>
  PROVE  Contents'
<1>1. Class'
  BY DEF IInv, Contents, Class, Fits, Child, Active
<1>2. Addresses' /\ Lateness'
  BY DEF IInv, Contents, Addresses, Lateness, Active, Top, Path, AssertionFailsOnlyLate
<1> QED BY <1>1, <1>2 DEF Contents

(* At the start nothing is plugged in or answers.                          *)
LEMMA InitContents ==
  ASSUME Init
  PROVE  Contents
<1>1. Active = {} /\ \A h, c \in Slots : ~Child(h, c)
  <2>1. calls = << >> /\ \A h \in Slots : dev[h].children = << >>
    BY DEF Init, Device
  <2>2. Members(<< >>) = {}
    BY DEF Members
  <2> QED BY <2>1, <2>2 DEF Active, Child
<1>2. \A s \in Slots : dev[s].iface0 = "none"
  BY DEF Init, Device
<1>3. Members(free) \subseteq Slots
  BY InitFacts, MembersType DEF Structure, Types
<1>4. Class
  BY <1>1, <1>2, <1>3 DEF Class, Init
<1>5. Addresses
  BY <1>1 DEF Addresses, Init
<1>6. Lateness
  BY <1>1 DEF Lateness, AssertionFailsOnlyLate, Init
<1> QED BY <1>4, <1>5, <1>6 DEF Contents

----------------------------------------------------------------------------
(* The steps.                                                              *)

(* While the task runs there is an innermost call.                         *)
LEMMA Running ==
  ASSUME IInv, status = "running"
  PROVE  /\ calls # << >> /\ Structure /\ Progress
         /\ Len(calls) \in Active <=> Top.step \notin {"alloc", "end"}
         /\ Top \in Frames /\ (Top.step # "end" => Top.err = "ok")
<1>1. calls # << >> /\ Structure /\ Progress
  BY DEF IInv, Structure, Stack
<1>2. /\ Len(calls) \in 1..Len(calls) /\ Top = calls[Len(calls)] /\ Top \in Frames
      /\ Len(calls) \in Active <=> Top.step \notin {"alloc", "end"}
  BY <1>1, TopFacts
<1>3. Top.step # "end" => Top.err = "ok"
  BY <1>1, <1>2 DEF Progress, FailureNoted
<1> QED BY <1>1, <1>2, <1>3

(* The enumeration of the innermost call fails.                            *)
LEMMA FailStep ==
  ASSUME IInv, status = "running", Top.step \notin {"alloc", "end", "report"},
         NEW err \in {"error", "timeout", "inval"}, Fails(err), err = "inval" => Top.late,
         plugged' = plugged, answers' \in [Paths -> Int],
         \A p \in Paths : p # Path => answers'[p] = answers[p],
         UNCHANGED <<next_address, root_hub, status>>
  PROVE  IInv'
<1> DEFINE f == [Top EXCEPT !.step = "end", !.err = err]
           d == Device(Root, dev[Top.dev].iface0)
           n == Len(calls)
<1>1. calls # << >> /\ Structure /\ Progress /\ n \in Active /\ Top \in Frames
  BY Running
<1>2. Leaves1(f, d)
  BY <1>1, FailsFacts
<1>3. f.err = err /\ f.late = Top.late
  BY <1>1 DEF Frames
<1> HIDE DEF f, d
<1>4. Drops(n, {Top.dev}, f) /\ Structure' /\ Progress'
  BY <1>1, <1>2, LeaveIsDrop
<1>5. Path = PlaceOf(n)
  BY <1>1, TopFacts
<1>6. failed' # {}
  BY DEF Fails
<1>7. Contents'
  <2> HIDE DEF n
  <2>1. f.err = "inval" => f.late
    BY <1>3
  <2> QED BY <1>1, <1>4, <1>5, <1>6, <2>1, DropContents
<1> QED BY <1>4, <1>7 DEF IInv

(* What is plugged in is seen at the port of the innermost call only.      *)
LooksAtPort ==
  \/ plugged' = plugged
  \/ \E k \in Kinds : plugged' = [plugged EXCEPT ![Path] = k] /\ (k = "hub" => Len(Path) < DEPTH)

(* The device of the innermost call becomes d, at its place in the tree.   *)
DeviceBecomes(d) ==
  /\ d \in Devices /\ d.at = dev[Top.dev].at /\ d.children = dev[Top.dev].children
  /\ d.class # "hub" /\ dev' = [dev EXCEPT ![Top.dev] = d]

(* The innermost call goes on, with what is said in f, and its device      *)
(* becomes d.                                                              *)
Moves(f, d) ==
  /\ f \in Frames /\ calls' = [calls EXCEPT ![Len(calls)] = f]
  /\ f.hub = Top.hub /\ f.port = Top.port /\ f.dev = Top.dev /\ f.retries <= MAX_RESET_RETRIES
  /\ f.step \notin {"alloc", "end"} /\ f.err = "ok"
  /\ DeviceBecomes(d) /\ LooksAtPort
  /\ UNCHANGED <<free, root_hub, failed, status>>

(* Such a step keeps the tree, the calls and the ports in order.           *)
LEMMA MovesTree ==
  ASSUME IInv, status = "running", Top.step \notin {"alloc", "end", "report"},
         NEW f, NEW d, Moves(f, d), answers' \in [Paths -> Int], next_address' \in Nat \ {0}
  PROVE  /\ SameTree(f) /\ Structure' /\ Progress' /\ calls # << >> /\ Len(calls) \in Active
         /\ \A s \in Slots : s # Top.dev => dev'[s] = dev[s]
         /\ dev'[Top.dev] = d /\ Path \in Paths
<1>1. calls # << >> /\ Structure /\ Progress /\ Len(calls) \in Active
  BY Running
<1>2. /\ Top.dev \in Slots \ Members(free) /\ dev[Top.dev].at = Path /\ Path \in Paths
      /\ Top \in Frames /\ Top.port < PortCount(Top.hub)
  BY <1>1, TopFacts DEF Structure, Stack
<1>3. dev[Top.dev].class # "hub"
  BY <1>1 DEF Progress, Kids
<1>4. /\ dev' \in [Slots -> Devices] /\ dev'[Top.dev] = d
      /\ \A s \in Slots : s # Top.dev => dev'[s] = dev[s]
  BY <1>1, <1>2 DEF Moves, DeviceBecomes, Structure, Types
<1>5. /\ plugged' \in [Paths -> Kinds \cup {"?"}]
      /\ \A p \in Paths : plugged'[p] # plugged[p] => p = Path /\ (plugged'[p] = "hub" => Len(p) < DEPTH)
  <2>1. plugged \in [Paths -> Kinds \cup {"?"}]
    BY <1>1 DEF Structure, Types
  <2>2. CASE plugged' = plugged
    BY <2>1, <2>2
  <2>3. CASE \E k \in Kinds : plugged' = [plugged EXCEPT ![Path] = k] /\ (k = "hub" => Len(Path) < DEPTH)
    <3>1. PICK k \in Kinds : plugged' = [plugged EXCEPT ![Path] = k] /\ (k = "hub" => Len(Path) < DEPTH)
      BY <2>3
    <3> QED BY <1>2, <2>1, <3>1
  <2> QED BY <2>2, <2>3 DEF Moves, LooksAtPort
<1>6. \A s \in Slots : /\ dev'[s].at = dev[s].at /\ dev'[s].children = dev[s].children
                       /\ dev'[s].class = "hub" <=> dev[s].class = "hub"
                       /\ s \in Members(free) => dev'[s] = dev[s]
  BY <1>2, <1>3, <1>4 DEF Moves, DeviceBecomes
<1>7. /\ f \in Frames /\ calls' = [calls EXCEPT ![Len(calls)] = f]
      /\ f.hub = Top.hub /\ f.port = Top.port /\ f.dev = Top.dev /\ f.retries <= MAX_RESET_RETRIES
      /\ f.step \notin {"alloc", "end"} /\ f.err = "ok"
      /\ UNCHANGED <<free, root_hub, failed, status>>
  BY DEF Moves
<1>8. SameTree(f)
  BY <1>1, <1>2, <1>3, <1>4, <1>5, <1>6, <1>7 DEF SameTree
<1>9. Structure'
  BY <1>1, <1>8, SameTreeStep
<1>10. Progress'
  BY <1>1, <1>8, MovedStep
<1> QED BY <1>1, <1>2, <1>4, <1>8, <1>9, <1>10

(* No device is made to answer elsewhere.                                  *)
LEMMA MoveStep ==
  ASSUME IInv, status = "running", Top.step \notin {"alloc", "end", "report"},
         NEW f, NEW d, Moves(f, d), UNCHANGED <<answers, next_address>>,
         TopClass(f, d, plugged'[Path]), TopAddress(f, d, answers[Path]), TopLate(f, d),
         Top.step \in Resetting => f.step \in Resetting
  PROVE  IInv'
<1>1. answers \in [Paths -> Int] /\ next_address \in Nat \ {0}
  BY DEF IInv, Structure, Types
<1>2. /\ SameTree(f) /\ Structure' /\ Progress' /\ calls # << >> /\ Len(calls) \in Active
      /\ \A s \in Slots : s # Top.dev => dev'[s] = dev[s]
      /\ dev'[Top.dev] = d /\ Path \in Paths
  BY <1>1, MovesTree
<1>3. ASSUME failed = {}
      PROVE  /\ answers[Path] < next_address
             /\ answers[Path] = 0 => f.step \in Resetting
             /\ \A p \in Paths : p # Path /\ answers[Path] # -1 => answers[p] # answers[Path]
  <2>1. answers[Path] = 0 => f.step \in Resetting
    BY <1>2, <1>3, NoneAtDefault
  <2> QED BY <1>2, <1>3, <2>1 DEF IInv, Contents, Addresses
<1>4. next_address <= next_address'
  BY <1>1
<1>5. Contents'
  BY <1>2, <1>3, <1>4, MovedContents
<1> QED BY <1>2, <1>5 DEF IInv

(* The device may have been reset.                                         *)
LEMMA ResetStep ==
  ASSUME IInv, status = "running", Top.step \in Resetting,
         NEW f, NEW d, Moves(f, d), NEW a \in {answers[Path], 0},
         answers' = [answers EXCEPT ![Path] = a], UNCHANGED next_address,
         TopClass(f, d, plugged'[Path]), TopAddress(f, d, a), TopLate(f, d), f.step \in Resetting
  PROVE  IInv'
<1>1. answers \in [Paths -> Int] /\ next_address \in Nat \ {0} /\ Path \in Paths
  BY Running, TopFacts DEF IInv, Structure, Types
<1>2. a \in Int /\ answers' \in [Paths -> Int] /\ answers'[Path] = a
      /\ \A p \in Paths : p # Path => answers'[p] = answers[p]
  BY <1>1
<1>3. /\ SameTree(f) /\ Structure' /\ Progress' /\ calls # << >> /\ Len(calls) \in Active
      /\ \A s \in Slots : s # Top.dev => dev'[s] = dev[s]
      /\ dev'[Top.dev] = d
  BY <1>1, <1>2, MovesTree DEF Resetting
<1>4. ASSUME failed = {}
      PROVE  /\ a < next_address
             /\ \A p \in Paths : p # Path /\ a # -1 => answers[p] # a
  <2>1. /\ \A p \in Paths : p # Path /\ answers[Path] # -1 => answers[p] # answers[Path]
        /\ answers[Path] < next_address
    BY <1>1, <1>4 DEF IInv, Contents, Addresses
  <2>2. \A p \in Paths : answers[p] = 0 => p = Path
    BY <1>4, NoneAtDefault
  <2>3. CASE a = 0
    BY <1>1, <2>2, <2>3
  <2>4. CASE a = answers[Path]
    BY <2>1, <2>4
  <2> QED BY <2>3, <2>4
<1>5. next_address <= next_address'
  BY <1>1
<1>6. Contents'
  BY <1>2, <1>3, <1>4, <1>5, MovedContents
<1> QED BY <1>3, <1>6 DEF IInv

(* The call of Goto, as a call that is replaced.                           *)
LEMMA GotoFacts ==
  ASSUME IInv, status = "running", NEW step \in Steps \ {"alloc", "end"}, Goto(step), Top.err = "ok"
  PROVE  LET f == [Top EXCEPT !.step = step]
         IN  /\ f \in Frames /\ calls' = [calls EXCEPT ![Len(calls)] = f]
             /\ f.hub = Top.hub /\ f.port = Top.port /\ f.dev = Top.dev
             /\ f.retries <= MAX_RESET_RETRIES /\ f.step = step /\ f.err = "ok" /\ f.late = Top.late
<1> DEFINE f == [Top EXCEPT !.step = step]
<1>1. Top \in Frames /\ Len(calls) \in 1..Len(calls)
  BY Running, TopFacts
<1>2. /\ f \in Frames /\ f.hub = Top.hub /\ f.port = Top.port /\ f.dev = Top.dev
      /\ f.step = step /\ f.err = "ok" /\ f.late = Top.late /\ f.retries = Top.retries
  BY <1>1 DEF Frames
<1>3. Top.retries <= MAX_RESET_RETRIES
  BY <1>1 DEF IInv, Structure, Types, Top
<1>4. calls' = [calls EXCEPT ![Len(calls)] = f]
  BY <1>1 DEF Goto, Top
<1> HIDE DEF f
<1>5. f.retries <= MAX_RESET_RETRIES
  BY <1>2, <1>3
<1> QED BY <1>2, <1>4, <1>5 DEF f

(* The innermost call goes on to its next step.                            *)
LEMMA GotoMoves ==
  ASSUME IInv, status = "running", NEW step \in Steps \ {"alloc", "end"}, Goto(step),
         Top.step \notin {"alloc", "end"},
         NEW d, DeviceBecomes(d), LooksAtPort,
         UNCHANGED <<free, root_hub, failed, status>>
  PROVE  \E f : Moves(f, d) /\ f.step = step /\ f.late = Top.late
<1> DEFINE f == [Top EXCEPT !.step = step]
<1>1. Top.err = "ok"
  BY Running
<1>2. /\ f \in Frames /\ calls' = [calls EXCEPT ![Len(calls)] = f]
      /\ f.hub = Top.hub /\ f.port = Top.port /\ f.dev = Top.dev
      /\ f.retries <= MAX_RESET_RETRIES /\ f.step = step /\ f.err = "ok" /\ f.late = Top.late
  BY <1>1, GotoFacts
<1> HIDE DEF f
<1>3. Moves(f, d)
  BY <1>2 DEF Moves
<1> QED BY <1>2, <1>3

(* The device of the innermost call, with what is known of it.             *)
LEMMA TopDevice ==
  ASSUME IInv, status = "running", Top.step \notin {"alloc", "end"}
  PROVE  /\ TopClass(Top, dev[Top.dev], plugged[Path]) /\ TopAddress(Top, dev[Top.dev], answers[Path])
         /\ TopLate(Top, dev[Top.dev])
         /\ Top.dev \in Slots /\ dev \in [Slots -> Devices] /\ dev[Top.dev] \in Devices
         /\ Path \in Paths /\ dev[Top.dev].at = Path
         /\ Top.step # "report" => dev[Top.dev].class # "hub"
<1>1. calls # << >> /\ Structure /\ Progress /\ Len(calls) \in Active
  BY Running
<1>2. Top.dev \in Slots /\ dev[Top.dev].at = Path /\ Path \in Paths
  BY <1>1, TopFacts
<1>3. dev \in [Slots -> Devices]
  BY <1>1 DEF Structure, Types
<1>4. Top.step # "report" => dev[Top.dev].class # "hub"
  BY <1>1 DEF Progress, Kids
<1> QED BY <1>1, <1>2, <1>3, <1>4, TopKnown

(* Nothing is connected.                                                   *)
LEMMA NothingThere ==
  ASSUME IInv, status = "running", Top.step = "debounce", Goto("end"), Deallocate(<<Top.dev>>),
         plugged' = [plugged EXCEPT ![Path] = "none"],
         UNCHANGED <<answers, root_hub, next_address, failed, status>>
  PROVE  IInv'
<1> DEFINE f == [Top EXCEPT !.step = "end"]
           d == Device(Root, dev[Top.dev].iface0)
           n == Len(calls)
<1>1. /\ calls # << >> /\ Structure /\ Progress /\ n \in Active /\ Top \in Frames /\ Top.err = "ok"
  BY Running
<1>2. Top.dev \in Slots /\ Path \in Paths /\ dev \in [Slots -> Devices]
      /\ (failed = {} => dev[Top.dev].iface0 = "none")
  BY TopDevice DEF TopClass
<1>3. /\ n \in 1..n /\ Top = calls[n] /\ Path = PlaceOf(n)
      /\ calls \in Seq(Frames) /\ DOMAIN calls = 1..n /\ Top.retries <= MAX_RESET_RETRIES
  BY <1>1, TopFacts DEF Structure, Types
<1>4. calls' = [calls EXCEPT ![n] = f]
  BY <1>3 DEF Goto
<1>5. /\ f \in Frames /\ f.hub = Top.hub /\ f.port = Top.port /\ f.step = "end"
      /\ f.retries = Top.retries /\ f.err = "ok"
  BY <1>1 DEF Frames, Steps
<1>6. Reverse(<<Top.dev>>) = <<Top.dev>> /\ Range(<<Top.dev>>) = {Top.dev}
  BY DEF Reverse, Range
<1>7. free' = <<Top.dev>> \o free /\ dev' = Cleared({Top.dev})
  BY <1>6 DEF Deallocate
<1>8. dev' = [dev EXCEPT ![Top.dev] = d]
  BY <1>2, <1>7 DEF Cleared
<1>9. d \in Devices /\ d.at = Root /\ d.class = "none" /\ d.children = << >>
      /\ d.iface0 = dev[Top.dev].iface0
  <2>1. dev[Top.dev].iface0 \in Kinds
    BY <1>2 DEF Devices
  <2> QED BY <2>1 DEF Device, Devices, States, Classes
<1>10. answers' \in [Paths -> Int]
  BY <1>1 DEF Structure, Types
<1> HIDE DEF f, d
<1>11. Leaves1(f, d)
  BY <1>3, <1>4, <1>5, <1>7, <1>8, <1>9, <1>10 DEF Leaves1
<1>12. Drops(n, {Top.dev}, f) /\ Structure' /\ Progress'
  BY <1>1, <1>11, LeaveIsDrop
<1>13. dev'[Top.dev] = d
  BY <1>2, <1>8
<1>14. failed' = {} => /\ answers' = answers /\ Top.step \notin Resetting
                       /\ \A s \in {Top.dev} : dev'[s].iface0 = "none"
  BY <1>2, <1>9, <1>13 DEF Resetting
<1>15. Contents'
  <2> HIDE DEF n
  <2>1. f.err # "inval"
    BY <1>5
  <2> QED BY <1>1, <1>12, <1>14, <2>1, DropContents
<1> QED BY <1>12, <1>15 DEF IInv

(* usb_hub_port_ensure_powered.                                            *)
LEMMA DebounceStep ==
  ASSUME IInv, Debounce
  PROVE  IInv'
<1>1. status = "running" /\ Top.step = "debounce" /\ UNCHANGED <<answers, root_hub, next_address, status>>
  BY DEF Debounce, At
<1>2. answers' \in [Paths -> Int]
  BY <1>1 DEF IInv, Structure, Types
<1>3. CASE Wrong /\ Fails("error") /\ UNCHANGED plugged
  <2>1. /\ Fails("error") /\ plugged' = plugged
    BY <1>3
  <2> QED BY <1>1, <1>2, <2>1, FailStep
<1>4. CASE /\ plugged' = [plugged EXCEPT ![Path] = "none"]
           /\ Goto("end") /\ Deallocate(<<Top.dev>>) /\ Fine /\ UNCHANGED failed
  BY <1>1, <1>4, NothingThere
<1>5. CASE /\ \E k \in Pluggable(Path) : plugged' = [plugged EXCEPT ![Path] = k]
           /\ dev' = [dev EXCEPT ![Top.dev].state = "POWERED"]
           /\ Goto("reset1") /\ Fine /\ UNCHANGED <<free, failed>>
  <2> DEFINE d == [dev[Top.dev] EXCEPT !.state = "POWERED"]
  <2>1. /\ TopClass(Top, dev[Top.dev], plugged[Path]) /\ TopAddress(Top, dev[Top.dev], answers[Path])
        /\ Top.dev \in Slots /\ dev \in [Slots -> Devices] /\ dev[Top.dev] \in Devices
        /\ Path \in Paths /\ dev[Top.dev].class # "hub" /\ plugged \in [Paths -> Kinds \cup {"?"}]
    BY <1>1, TopDevice DEF IInv, Structure, Types
  <2>2. /\ d \in Devices /\ d.at = dev[Top.dev].at /\ d.children = dev[Top.dev].children
        /\ d.class = dev[Top.dev].class /\ d.iface0 = dev[Top.dev].iface0
        /\ d.address = dev[Top.dev].address /\ d.state = "POWERED"
    BY <2>1 DEF Devices, States
  <2>3. dev' = [dev EXCEPT ![Top.dev] = d]
    BY <1>5, <2>1
  <2>4. PICK k \in Pluggable(Path) : plugged' = [plugged EXCEPT ![Path] = k]
    BY <1>5
  <2>5. k \in Kinds \ {"none"} /\ (k = "hub" => Len(Path) < DEPTH)
    BY DEF Pluggable, Kinds
  <2>6. Goto("reset1") /\ UNCHANGED <<free, failed>> /\ plugged'[Path] = k
    BY <1>5, <2>1, <2>4
  <2> HIDE DEF d
  <2>7. PICK f : Moves(f, d) /\ f.step = "reset1" /\ f.late = Top.late
    <3>1. "reset1" \in Steps \ {"alloc", "end"}
      BY DEF Steps
    <3>2. LooksAtPort
      BY <2>4, <2>5 DEF LooksAtPort
    <3>3. DeviceBecomes(d)
      BY <2>1, <2>2, <2>3 DEF DeviceBecomes
    <3> QED BY <1>1, <2>6, <3>1, <3>2, <3>3, GotoMoves
  <2>8. TopClass(f, d, plugged'[Path])
    BY <1>1, <2>1, <2>2, <2>5, <2>6, <2>7 DEF TopClass
  <2>9. TopAddress(f, d, answers[Path]) /\ TopLate(f, d)
    BY <1>1, <2>1, <2>2, <2>7 DEF TopAddress, TopLate
  <2> QED BY <1>1, <2>7, <2>8, <2>9, MoveStep DEF Resetting
<1> QED BY <1>3, <1>4, <1>5 DEF Debounce

(* handle_reset_timeout.                                                   *)
LEMMA TimeoutStep ==
  ASSUME IInv, status = "running", Top.step \in {"reset1", "reset2"}, ResetTimeout,
         NEW a \in {answers[Path], 0}, answers' = [answers EXCEPT ![Path] = a],
         UNCHANGED <<plugged, root_hub, next_address, status>>
  PROVE  IInv'
<1>1. /\ TopClass(Top, dev[Top.dev], plugged[Path]) /\ TopAddress(Top, dev[Top.dev], answers[Path])
      /\ TopLate(Top, dev[Top.dev])
      /\ Top.dev \in Slots /\ dev \in [Slots -> Devices] /\ dev[Top.dev] \in Devices
      /\ Path \in Paths /\ dev[Top.dev].class # "hub"
  BY TopDevice
<1>2. answers' \in [Paths -> Int] /\ \A p \in Paths : p # Path => answers'[p] = answers[p]
  <2>1. answers \in [Paths -> Int]
    BY DEF IInv, Structure, Types
  <2> QED BY <1>1, <2>1
<1>3. CASE Top.retries = MAX_RESET_RETRIES
  <2>1. Fails("timeout")
    BY <1>3 DEF ResetTimeout
  <2> QED BY <1>2, <2>1, FailStep
<1>4. CASE Top.retries # MAX_RESET_RETRIES
  <2> DEFINE l == Top.late \/ Top.step = "reset2"
             f == [Top EXCEPT !.step = "reset1", !.retries = Top.retries + 1, !.late = l]
             d == dev[Top.dev]
  <2>1. /\ calls # << >> /\ Top \in Frames /\ Top.err = "ok" /\ Len(calls) \in 1..Len(calls)
        /\ Top = calls[Len(calls)] /\ calls \in Seq(Frames) /\ DOMAIN calls = 1..Len(calls)
        /\ Top.retries <= MAX_RESET_RETRIES
    <3>1. calls # << >> /\ Structure /\ Top \in Frames /\ Top.err = "ok"
      BY Running
    <3>2. Len(calls) \in 1..Len(calls) /\ Top = calls[Len(calls)]
      BY <3>1, TopFacts
    <3>3. calls \in Seq(Frames) /\ \A i \in 1..Len(calls) : calls[i].retries <= MAX_RESET_RETRIES
      BY <3>1 DEF Structure, Types
    <3> QED BY <3>1, <3>2, <3>3
  <2>2. l \in BOOLEAN /\ Top.retries + 1 \in Nat /\ Top.retries + 1 <= MAX_RESET_RETRIES
    BY <1>4, <2>1 DEF Frames
  <2>3. calls' = [calls EXCEPT ![Len(calls)] = f] /\ UNCHANGED <<dev, free, failed>>
    BY <1>4, <2>1 DEF ResetTimeout
  <2> HIDE DEF l
  <2>4. /\ f \in Frames /\ f.hub = Top.hub /\ f.port = Top.port /\ f.dev = Top.dev
        /\ f.step = "reset1" /\ f.err = "ok" /\ f.late = l /\ f.retries = Top.retries + 1
    BY <2>1, <2>2 DEF Frames, Steps
  <2>5. dev' = [dev EXCEPT ![Top.dev] = d]
    BY <1>1, <2>3
  <2> HIDE DEF f
  <2>6. Moves(f, d)
    BY <1>1, <2>2, <2>3, <2>4, <2>5 DEF Moves, LooksAtPort, DeviceBecomes
  <2>7. TopClass(f, d, plugged'[Path])
    BY <1>1, <2>4 DEF TopClass
  <2>8. TopAddress(f, d, a)
    BY <1>1, <2>4 DEF TopAddress
  <2>9. TopLate(f, d)
    BY <1>1, <2>4 DEF TopLate, l
  <2> QED BY <2>4, <2>6, <2>7, <2>8, <2>9, ResetStep DEF Resetting
<1> QED BY <1>3, <1>4

(* usb_hub_port_reset and what the caller makes of it.                     *)
LEMMA ResetsStep ==
  ASSUME IInv, NEW step, NEW next, Reset(step, next),
         <<step, next>> \in {<<"reset1", "desc1">>, <<"reset2", "address">>}
  PROVE  IInv'
<1>1. /\ status = "running" /\ Top.step = step /\ step \in {"reset1", "reset2"}
      /\ next \in {"desc1", "address"} /\ (step = "reset1" <=> next = "desc1")
      /\ UNCHANGED <<plugged, root_hub, next_address, status>>
  BY DEF Reset, At
<1>2. /\ TopClass(Top, dev[Top.dev], plugged[Path]) /\ TopAddress(Top, dev[Top.dev], answers[Path])
      /\ TopLate(Top, dev[Top.dev])
      /\ Top.dev \in Slots /\ dev \in [Slots -> Devices] /\ dev[Top.dev] \in Devices
      /\ Path \in Paths /\ dev[Top.dev].class # "hub"
  BY <1>1, TopDevice
<1>3. answers \in [Paths -> Int]
  BY DEF IInv, Structure, Types
<1>4. CASE Wrong /\ PortReset("error") /\ Fails("error")
  <2>1. PICK a \in {answers[Path], 0} : answers' = [answers EXCEPT ![Path] = a]
    BY <1>4 DEF PortReset
  <2>2. answers' \in [Paths -> Int] /\ \A p \in Paths : p # Path => answers'[p] = answers[p]
    BY <1>2, <1>3, <2>1
  <2>3. Fails("error")
    BY <1>4
  <2> QED BY <1>1, <2>2, <2>3, FailStep
<1>5. CASE Wrong /\ PortReset("timeout") /\ ResetTimeout
  <2>1. PICK a \in {answers[Path], 0} : answers' = [answers EXCEPT ![Path] = a]
    BY <1>5 DEF PortReset
  <2>2. ResetTimeout
    BY <1>5
  <2> QED BY <1>1, <2>1, <2>2, TimeoutStep
<1>6. CASE Fine /\ PortReset("success") /\ Goto(next) /\ UNCHANGED <<dev, free, failed>>
  <2>1. answers' = [answers EXCEPT ![Path] = 0]
    BY <1>6 DEF PortReset
  <2> DEFINE d == dev[Top.dev]
  <2>2. dev' = [dev EXCEPT ![Top.dev] = d]
    BY <1>2, <1>6
  <2>3. PICK f : Moves(f, d) /\ f.step = next /\ f.late = Top.late
    <3>1. next \in Steps \ {"alloc", "end"}
      BY <1>1 DEF Steps
    <3>2. Goto(next) /\ UNCHANGED <<free, failed>>
      BY <1>6
    <3>3. LooksAtPort /\ DeviceBecomes(d)
      BY <1>1, <1>2, <2>2 DEF LooksAtPort, DeviceBecomes
    <3> QED BY <1>1, <3>1, <3>2, <3>3, GotoMoves
  <2>4. TopClass(f, d, plugged'[Path])
    BY <1>1, <1>2, <2>3 DEF TopClass
  <2>5. TopAddress(f, d, 0)
    BY <1>1, <1>2, <2>3 DEF TopAddress
  <2>6. TopLate(f, d)
    BY <1>1, <1>2, <2>3 DEF TopLate
  <2>7. Top.step \in Resetting /\ f.step \in Resetting
    BY <1>1, <2>3 DEF Resetting
  <2> QED BY <1>1, <2>1, <2>3, <2>4, <2>5, <2>6, <2>7, ResetStep
<1> QED BY <1>4, <1>5, <1>6 DEF Reset

(* A step of the device that changes neither the tree nor the bus.         *)
LEMMA DeviceStep ==
  ASSUME IInv, status = "running", Top.step \notin {"alloc", "end", "report"},
         NEW step \in Steps \ {"alloc", "end"}, Goto(step), NEW d, DeviceBecomes(d),
         UNCHANGED <<plugged, answers, free, root_hub, next_address, failed, status>>,
         \A f : f.step = step /\ f.late = Top.late =>
           TopClass(f, d, plugged[Path]) /\ TopAddress(f, d, answers[Path]) /\ TopLate(f, d),
         Top.step \in Resetting => step \in Resetting
  PROVE  IInv'
<1>1. LooksAtPort
  BY DEF LooksAtPort
<1>2. PICK f : Moves(f, d) /\ f.step = step /\ f.late = Top.late
  BY <1>1, GotoMoves
<1>3. TopClass(f, d, plugged'[Path]) /\ TopAddress(f, d, answers[Path]) /\ TopLate(f, d)
  BY <1>2
<1> QED BY <1>2, <1>3, MoveStep

(* usb_hcd_get_descriptor_first.                                           *)
LEMMA FirstDescriptorStep ==
  ASSUME IInv, FirstDescriptor
  PROVE  IInv'
<1>1. /\ status = "running" /\ Top.step = "desc1"
      /\ UNCHANGED <<plugged, answers, root_hub, next_address, status>>
  BY DEF FirstDescriptor, At
<1>2. /\ TopClass(Top, dev[Top.dev], plugged[Path]) /\ TopAddress(Top, dev[Top.dev], answers[Path])
      /\ TopLate(Top, dev[Top.dev])
      /\ Top.dev \in Slots /\ dev \in [Slots -> Devices] /\ dev[Top.dev] \in Devices
      /\ Path \in Paths /\ dev[Top.dev].class # "hub"
  BY <1>1, TopDevice
<1>3. answers' \in [Paths -> Int]
  BY <1>1 DEF IInv, Structure, Types
<1>4. Top \in Frames
  BY <1>1, Running
<1>5. CASE dev[Top.dev].state # "POWERED"
  <2>1. Fails("inval")
    BY <1>5 DEF FirstDescriptor
  <2>2. Top.late
    BY <1>1, <1>2, <1>4, <1>5 DEF TopLate, Frames
  <2> QED BY <1>1, <1>3, <2>1, <2>2, FailStep
<1>6. CASE dev[Top.dev].state = "POWERED"
  <2> DEFINE d == [dev[Top.dev] EXCEPT !.state = "DEFAULT"]
  <2>1. /\ d \in Devices /\ d.at = dev[Top.dev].at /\ d.children = dev[Top.dev].children
        /\ d.class = dev[Top.dev].class /\ d.iface0 = dev[Top.dev].iface0
        /\ d.address = dev[Top.dev].address
    BY <1>2 DEF Devices, States
  <2>2. dev' = [dev EXCEPT ![Top.dev] = d]
    BY <1>2, <1>6 DEF FirstDescriptor
  <2>3. Goto("reset2") /\ UNCHANGED <<free, failed>>
    BY <1>6 DEF FirstDescriptor
  <2> HIDE DEF d
  <2>4. DeviceBecomes(d)
    BY <1>2, <2>1, <2>2 DEF DeviceBecomes
  <2>5. ASSUME NEW f, f.step = "reset2"
        PROVE  TopClass(f, d, plugged[Path]) /\ TopAddress(f, d, answers[Path]) /\ TopLate(f, d)
    BY <1>1, <1>2, <2>1, <2>5 DEF TopClass, TopAddress, TopLate
  <2>6. "reset2" \in Steps \ {"alloc", "end"} /\ "reset2" \in Resetting
    BY DEF Steps, Resetting
  <2> QED BY <1>1, <2>3, <2>4, <2>5, <2>6, DeviceStep
<1> QED BY <1>5, <1>6

(* usb_hcd_to_addressed_state.                                             *)
LEMMA SetAddressStep ==
  ASSUME IInv, SetAddress
  PROVE  IInv'
<1> DEFINE d == [dev[Top.dev] EXCEPT !.state = "ADDRESSED", !.address = next_address]
<1>1. /\ status = "running" /\ Top.step = "address" /\ Goto("desc2")
      /\ UNCHANGED <<plugged, free, root_hub, failed, status>>
      /\ answers' = [p \in Paths |-> IF answers[p] = 0 THEN next_address ELSE answers[p]]
      /\ next_address' = next_address + 1
  BY DEF SetAddress, At
<1>2. /\ TopClass(Top, dev[Top.dev], plugged[Path]) /\ TopAddress(Top, dev[Top.dev], answers[Path])
      /\ Top.dev \in Slots /\ dev \in [Slots -> Devices] /\ dev[Top.dev] \in Devices
      /\ Path \in Paths /\ dev[Top.dev].class # "hub"
  BY <1>1, TopDevice
<1>3. answers \in [Paths -> Int] /\ next_address \in Nat \ {0}
  BY DEF IInv, Structure, Types
<1>4. /\ d \in Devices /\ d.at = dev[Top.dev].at /\ d.children = dev[Top.dev].children
      /\ d.class = dev[Top.dev].class /\ d.iface0 = dev[Top.dev].iface0
      /\ d.address = next_address
  BY <1>2, <1>3 DEF Devices, States
<1>5. dev' = [dev EXCEPT ![Top.dev] = d]
  BY <1>2 DEF SetAddress
<1> HIDE DEF d
<1>6. DeviceBecomes(d) /\ LooksAtPort
  BY <1>1, <1>2, <1>4, <1>5 DEF DeviceBecomes, LooksAtPort
<1>7. "desc2" \in Steps \ {"alloc", "end"}
  BY DEF Steps
<1>8. PICK f : Moves(f, d) /\ f.step = "desc2" /\ f.late = Top.late
  BY <1>1, <1>6, <1>7, GotoMoves
<1>9. answers[Path] = 0
  BY <1>1, <1>2 DEF TopAddress
<1>10. /\ answers' \in [Paths -> Int] /\ answers'[Path] = next_address
       /\ \A p \in Paths : answers[p] # 0 => answers'[p] = answers[p]
       /\ next_address' \in Nat \ {0} /\ next_address < next_address'
  BY <1>1, <1>2, <1>3, <1>9
<1>11. /\ SameTree(f) /\ Structure' /\ Progress' /\ calls # << >> /\ Len(calls) \in Active
       /\ \A s \in Slots : s # Top.dev => dev'[s] = dev[s]
       /\ dev'[Top.dev] = d
  BY <1>1, <1>8, <1>10, MovesTree
<1>12. TopClass(f, d, plugged'[Path])
  BY <1>1, <1>2, <1>4, <1>8 DEF TopClass
<1>13. TopAddress(f, d, answers'[Path])
  BY <1>3, <1>4, <1>8, <1>10 DEF TopAddress
<1>14. TopLate(f, d)
  BY <1>8 DEF TopLate
<1>15. ASSUME failed = {}
       PROVE  /\ answers'[Path] # 0
              /\ \A p \in Paths : p # Path => answers'[p] = answers[p] /\ answers'[p] # answers'[Path]
  <2>1. \A p \in Paths : p # Path => answers[p] # 0
    BY <1>15, NoneAtDefault
  <2>2. \A p \in Paths : answers[p] < next_address
    BY <1>15 DEF IInv, Contents, Addresses
  <2> QED BY <1>3, <1>10, <2>1, <2>2
<1>16. answers'[Path] < next_address' /\ next_address <= next_address'
  BY <1>3, <1>10
<1>17. Contents'
  BY <1>10, <1>11, <1>12, <1>13, <1>14, <1>15, <1>16, MovedContents
<1> QED BY <1>11, <1>17 DEF IInv

(* usb_hcd_get_descriptor_second.                                          *)
LEMMA SecondDescriptorStep ==
  ASSUME IInv, SecondDescriptor
  PROVE  IInv'
<1>1. /\ status = "running" /\ Top.step = "desc2"
      /\ UNCHANGED <<plugged, answers, root_hub, next_address, status>>
  BY DEF SecondDescriptor, At
<1>2. answers' \in [Paths -> Int]
  BY <1>1 DEF IInv, Structure, Types
<1>3. CASE Wrong /\ Fails("error")
  <2>1. Fails("error")
    BY <1>3
  <2> QED BY <1>1, <1>2, <2>1, FailStep
<1>4. CASE Fine /\ Goto("config") /\ UNCHANGED <<dev, free, failed>>
  <2> DEFINE d == dev[Top.dev]
  <2>1. /\ TopClass(Top, d, plugged[Path]) /\ TopAddress(Top, d, answers[Path])
        /\ Top.dev \in Slots /\ dev \in [Slots -> Devices] /\ d \in Devices /\ d.class # "hub"
    BY <1>1, TopDevice
  <2>2. DeviceBecomes(d)
    BY <1>4, <2>1 DEF DeviceBecomes
  <2>3. ASSUME NEW f, f.step = "config"
        PROVE  TopClass(f, d, plugged[Path]) /\ TopAddress(f, d, answers[Path]) /\ TopLate(f, d)
    BY <1>1, <2>1, <2>3 DEF TopClass, TopAddress, TopLate
  <2>4. "config" \in Steps \ {"alloc", "end"} /\ Top.step \notin Resetting
    BY <1>1 DEF Steps, Resetting
  <2>5. Goto("config") /\ UNCHANGED <<free, failed>>
    BY <1>4
  <2> QED BY <1>1, <2>2, <2>3, <2>4, <2>5, DeviceStep
<1> QED BY <1>3, <1>4 DEF SecondDescriptor

(* What parsing the configuration makes of a device.                       *)
LEMMA ParsedFacts ==
  ASSUME IInv, status = "running", Top.step = "config"
  PROVE  LET d == dev[Top.dev]
             e == Parsed(d)
         IN  /\ e \in Devices /\ e.at = d.at /\ e.children = d.children /\ e.address = d.address
             /\ e.state = d.state /\ e.class \in {"none", "hid"} /\ (e.class = "hid" <=> plugged[Path] = "hid")
             /\ (failed = {} => e.iface0 = plugged[Path])
<1> DEFINE d == dev[Top.dev]
           k == plugged[Path]
           i == IF d.iface0 = "none" THEN k ELSE d.iface0
           c == IF k = "hid" THEN "hid" ELSE d.class
           e == [d EXCEPT !.iface0 = i, !.class = c]
<1>1. /\ d \in Devices /\ d.class = "none" /\ (failed = {} => d.iface0 = "none")
      /\ k \in Kinds \ {"none"}
  BY TopDevice DEF TopClass
<1>2. d.iface0 \in Kinds
  BY <1>1 DEF Devices
<1>3. /\ i \in Kinds /\ (failed = {} => i = k)
      /\ c \in {"none", "hid"} /\ (c = "hid" <=> k = "hid") /\ c \in Classes
  BY <1>1, <1>2 DEF Classes
<1>4. Parsed(d) = e
  BY DEF Parsed
<1> HIDE DEF i, c
<1>5. /\ e \in Devices /\ e.at = d.at /\ e.children = d.children /\ e.address = d.address
      /\ e.state = d.state /\ e.class = c /\ e.iface0 = i
  BY <1>1, <1>3 DEF Devices
<1> HIDE DEF e
<1> QED BY <1>3, <1>4, <1>5

(* The configuration is parsed and then an error is met.                   *)
LEMMA ConfigureFails ==
  ASSUME IInv, status = "running", Top.step = "config",
         NEW i \in Kinds,
         calls' = [calls EXCEPT ![Len(calls)].step = "end", ![Len(calls)].err = "error"],
         failed' = failed \cup {Path}, free' = <<Top.dev>> \o free,
         dev' = [dev EXCEPT ![Top.dev] = Device(Root, i)],
         UNCHANGED <<plugged, answers, root_hub, next_address, status>>
  PROVE  IInv'
<1> DEFINE f == [Top EXCEPT !.step = "end", !.err = "error"]
           d == Device(Root, i)
           n == Len(calls)
<1>1. calls # << >> /\ Structure /\ Progress /\ n \in Active /\ Top \in Frames
  BY Running
<1>2. /\ n \in 1..n /\ Top = calls[n] /\ calls \in Seq(Frames) /\ DOMAIN calls = 1..n
      /\ Top.retries <= MAX_RESET_RETRIES /\ Path = PlaceOf(n)
  BY <1>1, TopFacts DEF Structure, Types
<1>3. calls' = [calls EXCEPT ![n] = f]
  BY <1>2
<1>4. /\ f \in Frames /\ f.hub = Top.hub /\ f.port = Top.port /\ f.step = "end"
      /\ f.retries = Top.retries /\ f.err = "error"
  BY <1>1 DEF Frames, Steps
<1>5. d \in Devices /\ d.at = Root /\ d.class = "none" /\ d.children = << >>
  BY DEF Device, Devices, States, Classes
<1>6. answers' \in [Paths -> Int]
  BY <1>1 DEF Structure, Types
<1>7. dev' = [dev EXCEPT ![Top.dev] = d] /\ plugged' = plugged
  OBVIOUS
<1> HIDE DEF f, d
<1>8. Leaves1(f, d)
  BY <1>2, <1>3, <1>4, <1>5, <1>6, <1>7 DEF Leaves1
<1>9. Drops(n, {Top.dev}, f) /\ Structure' /\ Progress'
  BY <1>1, <1>8, LeaveIsDrop
<1>10. Contents'
  <2> HIDE DEF n
  <2>1. f.err # "inval" /\ failed' # {}
    BY <1>4
  <2> QED BY <1>1, <1>9, <2>1, DropContents
<1> QED BY <1>9, <1>10 DEF IInv

(* usb_hcd_to_configured_state.                                            *)
LEMMA ConfigureStep ==
  ASSUME IInv, Configure
  PROVE  IInv'
<1> DEFINE e == Parsed(dev[Top.dev])
<1>1. /\ status = "running" /\ Top.step = "config"
      /\ UNCHANGED <<plugged, answers, root_hub, next_address>>
  BY DEF Configure, At
<1>2. answers' \in [Paths -> Int]
  BY <1>1 DEF IInv, Structure, Types
<1>3. /\ e \in Devices /\ e.at = dev[Top.dev].at /\ e.children = dev[Top.dev].children
      /\ e.address = dev[Top.dev].address
      /\ e.class \in {"none", "hid"} /\ (e.class = "hid" <=> plugged[Path] = "hid")
      /\ (failed = {} => e.iface0 = plugged[Path])
  BY <1>1, ParsedFacts
<1> HIDE DEF e
<1>4. CASE Wrong /\ Fails("error") /\ UNCHANGED status
  <2>1. Fails("error") /\ UNCHANGED status
    BY <1>4
  <2> QED BY <1>1, <1>2, <2>1, FailStep
<1>5. CASE /\ Wrong
           /\ calls' = [calls EXCEPT ![Len(calls)].step = "end", ![Len(calls)].err = "error"]
           /\ failed' = failed \cup {Path}
           /\ free' = <<Top.dev>> \o free
           /\ dev' = [dev EXCEPT ![Top.dev] = Device(Root, e.iface0)]
           /\ UNCHANGED status
  <2>1. e.iface0 \in Kinds
    BY <1>3 DEF Devices
  <2> QED BY <1>1, <1>5, <2>1, ConfigureFails
<1>6. CASE /\ dev' = [dev EXCEPT ![Top.dev] = [e EXCEPT !.state = "CONFIGURED"]]
           /\ Goto("class") /\ Fine /\ UNCHANGED <<free, failed, status>>
  <2> DEFINE d == [e EXCEPT !.state = "CONFIGURED"]
  <2>1. /\ d \in Devices /\ d.at = e.at /\ d.children = e.children
        /\ d.class = e.class /\ d.iface0 = e.iface0 /\ d.address = e.address
    BY <1>3 DEF Devices, States
  <2>2. dev' = [dev EXCEPT ![Top.dev] = d] /\ Goto("class") /\ UNCHANGED <<free, failed, status>>
    BY <1>6
  <2> HIDE DEF d
  <2>3. /\ TopClass(Top, dev[Top.dev], plugged[Path]) /\ TopAddress(Top, dev[Top.dev], answers[Path])
    BY <1>1, TopDevice
  <2>4. DeviceBecomes(d)
    BY <1>3, <2>1, <2>2 DEF DeviceBecomes
  <2>5. ASSUME NEW f, f.step = "class"
        PROVE  TopClass(f, d, plugged[Path]) /\ TopAddress(f, d, answers[Path]) /\ TopLate(f, d)
    BY <1>1, <1>3, <2>1, <2>3, <2>5 DEF TopClass, TopAddress, TopLate
  <2>6. "class" \in Steps \ {"alloc", "end"} /\ Top.step \notin Resetting
    BY <1>1 DEF Steps, Resetting
  <2>7. Goto("class") /\ UNCHANGED <<free, failed, status>>
    BY <2>2
  <2> QED BY <1>1, <2>4, <2>5, <2>6, <2>7, DeviceStep
<1>7. CASE Wrong /\ plugged[Path] = "other" /\ status' = "spin" /\ UNCHANGED <<dev, free, failed, calls>>
  BY <1>1, <1>7, StopStep, StopContents DEF IInv
<1> QED BY <1>4, <1>5, <1>6, <1>7 DEF Configure, e

(* usb_hub_enumerate up to its ports.                                      *)
LEMMA EnumerateHubStep ==
  ASSUME IInv, EnumerateHub
  PROVE  IInv'
<1>1. /\ status = "running" /\ Top.step = "class" /\ plugged[Path] = "hub"
      /\ UNCHANGED <<plugged, answers, root_hub, next_address, status>>
  BY DEF EnumerateHub, At
<1>2. answers' \in [Paths -> Int]
  BY <1>1 DEF IInv, Structure, Types
<1>3. CASE Wrong /\ Fails("error")
  <2>1. Fails("error")
    BY <1>3
  <2> QED BY <1>1, <1>2, <2>1, FailStep
<1>4. CASE /\ Fine
           /\ dev' = [dev EXCEPT ![Top.dev].class = "hub"]
           /\ calls' = Append(calls, Frame(Top.dev, 0))
           /\ UNCHANGED <<free, failed>>
  <2>1. Pushes /\ UNCHANGED <<free, failed>>
    BY <1>4 DEF Pushes
  <2>2. calls # << >> /\ Structure /\ Progress
    BY <1>1, Running
  <2>3. Structure' /\ Progress'
    BY <1>1, <2>1, <2>2, PushStep
  <2>4. Contents'
    BY <1>1, <2>1, <2>2, PushContents
  <2> QED BY <2>3, <2>4 DEF IInv
<1> QED BY <1>3, <1>4 DEF EnumerateHub

(* usb_hid_enumerate.                                                      *)
LEMMA EnumerateHidStep ==
  ASSUME IInv, EnumerateHid
  PROVE  IInv'
<1> DEFINE d == dev[Top.dev]
<1>1. /\ status = "running" /\ Top.step = "class" /\ d.class = "hid" /\ Goto("report")
      /\ UNCHANGED <<plugged, answers, dev, free, root_hub, next_address, status, failed>>
  BY DEF EnumerateHid, At
<1>2. /\ TopClass(Top, d, plugged[Path]) /\ TopAddress(Top, d, answers[Path])
      /\ Top.dev \in Slots /\ dev \in [Slots -> Devices] /\ d \in Devices
  BY <1>1, TopDevice
<1>3. DeviceBecomes(d)
  BY <1>1, <1>2 DEF DeviceBecomes
<1>4. ASSUME NEW f, f.step = "report"
      PROVE  TopClass(f, d, plugged[Path]) /\ TopAddress(f, d, answers[Path]) /\ TopLate(f, d)
  BY <1>1, <1>2, <1>4 DEF TopClass, TopAddress, TopLate
<1>5. "report" \in Steps \ {"alloc", "end"} /\ Top.step \notin Resetting
  BY <1>1 DEF Steps, Resetting
<1> QED BY <1>1, <1>3, <1>4, <1>5, DeviceStep

(* usb_mass_init, and what has no driver.                                  *)
LEMMA EnumerateOtherStep ==
  ASSUME IInv, EnumerateOther
  PROVE  IInv'
<1>1. /\ status = "running" /\ Top.step = "class" /\ plugged[Path] # "hub" /\ dev[Top.dev].class # "hid"
      /\ UNCHANGED <<plugged, answers, root_hub, next_address>>
  BY DEF EnumerateOther, At
<1>2. answers' \in [Paths -> Int]
  BY <1>1 DEF IInv, Structure, Types
<1>3. CASE Wrong /\ Fails("error") /\ UNCHANGED status
  <2>1. Fails("error") /\ UNCHANGED status
    BY <1>3
  <2> QED BY <1>1, <1>2, <2>1, FailStep
<1>4. CASE /\ Fine
           /\ dev' = [dev EXCEPT ![Top.dev].class = IF IsMass(dev[Top.dev]) THEN "mass" ELSE "none"]
           /\ Goto("report")
           /\ UNCHANGED <<free, failed, status>>
  <2> DEFINE c == IF IsMass(dev[Top.dev]) THEN "mass" ELSE "none"
             d == [dev[Top.dev] EXCEPT !.class = c]
  <2>1. /\ TopClass(Top, dev[Top.dev], plugged[Path]) /\ TopAddress(Top, dev[Top.dev], answers[Path])
        /\ Top.dev \in Slots /\ dev \in [Slots -> Devices] /\ dev[Top.dev] \in Devices
    BY <1>1, TopDevice
  <2>2. c \in {"mass", "none"} /\ (c = "mass" => dev[Top.dev].iface0 = "mass") /\ c \in Classes
    BY DEF IsMass, Classes
  <2>3. dev' = [dev EXCEPT ![Top.dev] = d] /\ Goto("report") /\ UNCHANGED <<free, failed, status>>
    BY <1>4, <2>1
  <2> HIDE DEF c
  <2>4. /\ d \in Devices /\ d.at = dev[Top.dev].at /\ d.children = dev[Top.dev].children
        /\ d.class = c /\ d.address = dev[Top.dev].address
    BY <2>1, <2>2 DEF Devices
  <2> HIDE DEF d
  <2>5. DeviceBecomes(d)
    BY <2>2, <2>3, <2>4 DEF DeviceBecomes
  <2>6. ASSUME NEW f, f.step = "report"
        PROVE  TopClass(f, d, plugged[Path]) /\ TopAddress(f, d, answers[Path]) /\ TopLate(f, d)
    BY <1>1, <2>1, <2>2, <2>4, <2>6 DEF TopClass, TopAddress, TopLate
  <2>7. "report" \in Steps \ {"alloc", "end"} /\ Top.step \notin Resetting
    BY <1>1 DEF Steps, Resetting
  <2>8. Goto("report") /\ UNCHANGED <<free, failed, status>>
    BY <2>3
  <2> QED BY <1>1, <2>5, <2>6, <2>7, <2>8, DeviceStep
<1>5. CASE Wrong /\ IsMass(dev[Top.dev]) /\ status' = "spin" /\ UNCHANGED <<dev, free, failed, calls>>
  BY <1>1, <1>5, StopStep, StopContents DEF IInv
<1> QED BY <1>3, <1>4, <1>5 DEF EnumerateOther

(* usb_hub_enumerate returns.                                              *)
LEMMA HubDoneStep ==
  ASSUME IInv, HubDone
  PROVE  IInv'
<1>1. status = "running" /\ Top.step = "end" /\ LastPort
  BY DEF HubDone, At
<1>2. calls # << >> /\ Structure /\ Progress
  BY <1>1, Running
<1>3. CASE Len(calls) = 1
  <2>1. /\ calls' = << >> /\ status' = "ready"
        /\ UNCHANGED <<plugged, answers, dev, free, root_hub, next_address, failed>>
    BY <1>3 DEF HubDone
  <2>2. Structure' /\ Progress'
    BY <1>1, <1>2, <1>3, <2>1, RootReturns
  <2>3. Contents'
    BY <1>1, <1>2, <2>1, RootReturnsContents
  <2> QED BY <2>2, <2>3 DEF IInv
<1>4. CASE Len(calls) # 1
  <2>1. Structure' /\ Progress'
    BY <1>2, <1>4, HubReturns
  <2>2. Contents'
    BY <1>2, <1>4, HubReturnsContents
  <2> QED BY <2>1, <2>2 DEF IInv
<1> QED BY <1>3, <1>4

(* It fails and destroys the hub.                                          *)
LEMMA HubFailsStep ==
  ASSUME IInv, HubFails
  PROVE  IInv'
<1>1. /\ status = "running" /\ Top.step = "end" /\ LastPort /\ HubError # "ok"
      /\ UNCHANGED <<plugged, answers, root_hub, next_address>>
  BY DEF HubFails, At
<1>2. calls # << >> /\ Structure /\ Progress
  BY <1>1, Running
<1>3. CASE Len(calls) = 1
  <2>1. UNCHANGED <<dev, free, failed>> /\ calls' = << >> /\ status' = "off"
    BY <1>2, <1>3, RootFails
  <2>2. Structure' /\ Progress'
    BY <1>1, <1>2, <1>3, <2>1, RootReturns
  <2>3. Contents'
    BY <1>1, <1>2, <2>1, RootReturnsContents
  <2> QED BY <2>2, <2>3 DEF IInv
<1>4. CASE Len(calls) # 1
  <2> DEFINE m == Len(calls) - 1
             D == Members(Released(Top.hub))
             f == [calls[Len(calls) - 1] EXCEPT !.step = "end", !.err = HubError]
  <2>1. Drops(m, D, f) /\ Structure' /\ Progress' /\ failed' = failed \cup {PlaceOf(Len(calls) - 1)}
    BY <1>2, <1>4, HubFailsDrop
  <2>2. failed' # {} /\ failed \subseteq failed'
    BY <2>1
  <2>3. Len(Path) = Len(calls) /\ Len(calls) \in Nat /\ Len(calls) >= 1
    BY <1>2, TopFacts
  <2>4. f.err = HubError
    <3>1. Len(calls) - 1 \in 1..Len(calls)
      BY <1>4, <2>3
    <3>2. calls[Len(calls) - 1] \in Frames
      BY <1>2, <3>1, FrameTypes DEF Structure
    <3> QED BY <3>2 DEF Frames
  <2>5. Path \in failed
    BY <1>1, <1>2 DEF Progress, FailureNoted, HubError
  <2> HIDE DEF f, D
  <2>6. \E p \in failed' : Len(p) > m
    BY <2>2, <2>3, <2>5
  <2> HIDE DEF m
  <2>7. Contents'
    BY <1>1, <1>2, <2>1, <2>2, <2>6, DropContents
  <2> QED BY <2>1, <2>7 DEF IInv
<1> QED BY <1>3, <1>4

(* Every step keeps the invariant.                                         *)
LEMMA StepsKeepIInv ==
  ASSUME IInv, Next
  PROVE  IInv'
<1>1. CASE AttachRootHub
  BY <1>1, AttachStep, AttachContents DEF IInv
<1>2. CASE PortAlloc
  <2>1. status = "running"
    BY <1>2 DEF PortAlloc, At
  <2>2. calls # << >> /\ Structure /\ Progress
    BY <2>1, Running
  <2>3. CASE free = << >>
    <3>1. /\ status' = "fault"
          /\ UNCHANGED <<plugged, answers, dev, free, root_hub, next_address, calls, failed>>
      BY <1>2, <2>3 DEF PortAlloc
    <3> QED BY <2>1, <2>2, <3>1, StopStep, StopContents DEF IInv
  <2>4. CASE free # << >>
    <3>1. Structure' /\ Progress'
      BY <1>2, <2>2, <2>4, AllocStep
    <3>2. Contents'
      BY <1>2, <2>2, <2>4, AllocContents
    <3> QED BY <3>1, <3>2 DEF IInv
  <2> QED BY <2>3, <2>4
<1>3. CASE Debounce
  BY <1>3, DebounceStep
<1>4. CASE FirstReset
  BY <1>4, ResetsStep DEF FirstReset
<1>5. CASE FirstDescriptor
  BY <1>5, FirstDescriptorStep
<1>6. CASE SecondReset
  BY <1>6, ResetsStep DEF SecondReset
<1>7. CASE SetAddress
  BY <1>7, SetAddressStep
<1>8. CASE SecondDescriptor
  BY <1>8, SecondDescriptorStep
<1>9. CASE Configure
  BY <1>9, ConfigureStep
<1>10. CASE EnumerateHub
  BY <1>10, EnumerateHubStep
<1>11. CASE EnumerateHid
  BY <1>11, EnumerateHidStep
<1>12. CASE EnumerateOther
  BY <1>12, EnumerateOtherStep
<1>13. CASE ReportToTree
  <2>1. calls # << >> /\ Structure /\ Progress
    BY <1>13, Running DEF ReportToTree, At
  <2> QED BY <1>13, <2>1, ReportStep, ReportContents DEF IInv
<1>14. CASE NextPort
  <2>1. calls # << >> /\ Structure /\ Progress
    BY <1>14, Running DEF NextPort, At
  <2> QED BY <1>14, <2>1, NextPortStep, NextPortContents DEF IInv
<1>15. CASE HubDone
  BY <1>15, HubDoneStep
<1>16. CASE HubFails
  BY <1>16, HubFailsStep
<1> QED BY <1>1, <1>2, <1>3, <1>4, <1>5, <1>6, <1>7, <1>8, <1>9, <1>10, <1>11, <1>12, <1>13,
           <1>14, <1>15, <1>16 DEF Next

(* A step that changes nothing does.                                       *)
LEMMA StutterKeepsIInv ==
  ASSUME IInv, UNCHANGED vars
  PROVE  IInv'
<1>1. UNCHANGED <<plugged, answers, dev, free, root_hub, next_address, calls, status, failed>>
  BY DEF vars
<1>2. Active' = Active /\ Enumerating' = Enumerating /\ Top' = Top /\ Path' = Path
  BY <1>1 DEF Active, Enumerating, Top, Path
<1>3. Types' /\ Stack' /\ Forest' /\ FreeSlots'
  BY <1>1, <1>2 DEF IInv, Structure, Types, Stack, Forest, FreeSlots, PlaceOf, PortCount, Child
<1>4. Kids' /\ PortsPast' /\ FailureNoted'
  BY <1>1, <1>2 DEF IInv, Progress, Kids, PortsPast, FailureNoted, Past, PortDone, Child, PortCount
<1>5. Class'
  BY <1>1, <1>2 DEF IInv, Contents, Class, Fits, Child
<1>6. Addresses' /\ Lateness'
  BY <1>1, <1>2 DEF IInv, Contents, Addresses, Lateness, AssertionFailsOnlyLate
<1> QED BY <1>3, <1>4, <1>5, <1>6 DEF IInv, Structure, Progress, Contents

(* The invariant of the enumeration: the devices are a forest with the     *)
(* calls of usb_hub_enumerate_port on a path down from the root hub, ports *)
(* dealt with have their child or their failure, and what is known of each *)
(* device.                                                                 *)
THEOREM EnumerationInvariant == Spec => []IInv
<1>1. Init => IInv
  BY InitFacts, InitContents DEF IInv
<1>2. IInv /\ [Next]_vars => IInv'
  BY StepsKeepIInv, StutterKeepsIInv
<1> QED BY <1>1, <1>2, PTL DEF Spec

(* Requests go to an address at which their device answers, no two devices *)
(* answer at one unless an enumeration has failed, and the assertion on    *)
(* the state of a device fails only behind a late reset or a failure       *)
(* below.                                                                  *)
THEOREM RequestsReachTheirDevice == Spec => []RequestsSound
<1>1. IInv => RequestsSound
  <2> SUFFICES ASSUME IInv PROVE RequestsSound
    OBVIOUS
  <2>1. RequestReachesDevice
    BY DEF IInv, Contents, Addresses, RequestReachesDevice
  <2>2. AddressUniqueUnlessFailed
    BY DEF IInv, Contents, Addresses, AddressUniqueUnlessFailed
  <2>3. AssertionFailsOnlyLate
    BY DEF IInv, Contents, Lateness
  <2> QED BY <2>1, <2>2, <2>3 DEF RequestsSound
<1> QED BY <1>1, EnumerationInvariant, PTL

----------------------------------------------------------------------------
(* Losing a device.                                                        *)

(* A device that fails alone takes no other with it.                       *)
LEMMA FailsAlone ==
  ASSUME IInv, status = "running", Top.step \notin {"alloc", "end", "report"}, NEW err, Fails(err)
  PROVE  \A s \in Slots : s # Top.dev => dev'[s] = dev[s]
<1>1. calls # << >> /\ Structure /\ Progress /\ Len(calls) \in Active
  BY Running
<1>2. Top.dev \in Slots
  BY <1>1, TopFacts
<1>3. \A c \in Slots : ~Child(Top.dev, c)
  BY <1>1 DEF Progress, Kids, Child, Members
<1>4. Released(Top.dev) = <<Top.dev>>
  BY <1>1, <1>2, <1>3, ReleasedAlone
<1>5. Range(<<Top.dev>>) = {Top.dev}
  BY DEF Range
<1>6. dev' = Cleared({Top.dev})
  BY <1>4, <1>5 DEF Fails, Deallocate
<1> QED BY <1>6 DEF Cleared

(* The devices of the tree are as they were after every step but the       *)
(* failure of a hub.                                                       *)
LEMMA ChildrenStay ==
  ASSUME IInv, Next, NEW h \in Slots, NEW c \in Slots, Child(h, c), dev'[c].at # dev[c].at
  PROVE  HubFails
<1>0. c \notin Members(free) /\ Structure /\ Progress
  BY ChildFacts DEF IInv, Structure
<1>1. ASSUME status = "running", Top.step \notin {"alloc", "end"} PROVE c # Top.dev
  <2>1. calls # << >> /\ Len(calls) \in Active
    BY <1>1, Running
  <2> QED BY <1>0, <2>1, TopFacts
<1>2. ASSUME status = "running", Top.step \notin {"alloc", "end", "report"}, NEW err, Fails(err)
      PROVE  FALSE
  BY <1>1, <1>2, FailsAlone
<1>3. dev \in [Slots -> Devices]
  BY DEF IInv, Structure, Types
<1>4. ~AttachRootHub
  <2> SUFFICES ASSUME AttachRootHub PROVE FALSE
    OBVIOUS
  <2>1. Members(free) = Slots
    BY DEF AttachRootHub, IInv, Structure, Stack
  <2> QED BY <1>0, <2>1
<1>5. ~PortAlloc
  <2> SUFFICES ASSUME PortAlloc PROVE FALSE
    OBVIOUS
  <2>1. free # << >>
    BY DEF PortAlloc
  <2>2. calls # << >>
    BY Running DEF PortAlloc, At
  <2>3. Head(free) \in Members(free) /\ \A s \in Slots : s # Head(free) => dev'[s] = dev[s]
    BY <1>0, <2>1, <2>2, AllocStep
  <2> QED BY <1>0, <2>3
<1>6. ~Debounce
  <2> SUFFICES ASSUME Debounce PROVE FALSE
    OBVIOUS
  <2>1. status = "running" /\ Top.step = "debounce"
    BY DEF Debounce, At
  <2>2. c # Top.dev /\ ~Fails("error")
    BY <1>1, <1>2, <2>1
  <2>3. Range(<<Top.dev>>) = {Top.dev}
    BY DEF Range
  <2>4. ~Deallocate(<<Top.dev>>)
    BY <2>2, <2>3 DEF Deallocate, Cleared
  <2>5. dev' # [dev EXCEPT ![Top.dev].state = "POWERED"]
    BY <1>3, <2>2
  <2> QED BY <2>2, <2>4, <2>5 DEF Debounce
<1>7. ASSUME NEW step, NEW next, Reset(step, next), step \in {"reset1", "reset2"} PROVE FALSE
  <2>1. status = "running" /\ Top.step \in {"reset1", "reset2"}
    BY <1>7 DEF Reset, At
  <2>2. ~Fails("error") /\ ~Fails("timeout")
    BY <1>2, <2>1
  <2> QED BY <1>7, <2>2 DEF Reset, ResetTimeout
<1>8. ~FirstDescriptor
  <2> SUFFICES ASSUME FirstDescriptor PROVE FALSE
    OBVIOUS
  <2>1. status = "running" /\ Top.step = "desc1"
    BY DEF FirstDescriptor, At
  <2>2. c # Top.dev /\ ~Fails("inval")
    BY <1>1, <1>2, <2>1
  <2> QED BY <1>3, <2>2 DEF FirstDescriptor
<1>9. ~SetAddress
  <2> SUFFICES ASSUME SetAddress PROVE FALSE
    OBVIOUS
  <2>1. c # Top.dev
    BY <1>1 DEF SetAddress, At
  <2> QED BY <1>3, <2>1 DEF SetAddress
<1>10. ~SecondDescriptor
  <2> SUFFICES ASSUME SecondDescriptor PROVE FALSE
    OBVIOUS
  <2>1. ~Fails("error")
    BY <1>2 DEF SecondDescriptor, At
  <2> QED BY <2>1 DEF SecondDescriptor
<1>11. ~Configure
  <2> SUFFICES ASSUME Configure PROVE FALSE
    OBVIOUS
  <2>1. c # Top.dev /\ ~Fails("error")
    BY <1>1, <1>2 DEF Configure, At
  <2>2. dev' = dev \/ \E d : dev' = [dev EXCEPT ![Top.dev] = d]
    BY <2>1 DEF Configure
  <2> QED BY <1>3, <2>1, <2>2
<1>12. ~EnumerateHub
  <2> SUFFICES ASSUME EnumerateHub PROVE FALSE
    OBVIOUS
  <2>1. c # Top.dev /\ ~Fails("error")
    BY <1>1, <1>2 DEF EnumerateHub, At
  <2> QED BY <1>3, <2>1 DEF EnumerateHub
<1>13. ~EnumerateOther
  <2> SUFFICES ASSUME EnumerateOther PROVE FALSE
    OBVIOUS
  <2>1. c # Top.dev /\ ~Fails("error")
    BY <1>1, <1>2 DEF EnumerateOther, At
  <2> QED BY <1>3, <2>1 DEF EnumerateOther
<1>14. ~ReportToTree
  <2> SUFFICES ASSUME ReportToTree PROVE FALSE
    OBVIOUS
  <2>1. calls # << >>
    BY Running DEF ReportToTree, At
  <2> QED BY <1>0, <2>1, ReportStep
<1>15. ~EnumerateHid /\ ~NextPort /\ ~HubDone
  BY DEF EnumerateHid, NextPort, HubDone
<1>16. ~FirstReset /\ ~SecondReset
  BY <1>7 DEF FirstReset, SecondReset
<1> QED BY <1>4, <1>5, <1>6, <1>8, <1>9, <1>10, <1>11, <1>12, <1>13, <1>14, <1>15, <1>16 DEF Next

(* The members of a list, as its range.                                    *)
LEMMA RangeIsMembers ==
  ASSUME NEW T, NEW s \in Seq(T)
  PROVE  Range(s) = Members(s)
BY DEF Range, Members

(* A device that was added to its hub is lost only when the last port of a *)
(* hub above it fails; the loop over the ports forgets any other failure.  *)
THEOREM DevicesLostByLastPort == Spec => LostByLastPortOnly
<1> DEFINE Lost == \A s \in UNION {Range(dev[h].children) : h \in Slots} : dev'[s].at # dev[s].at =>
                     /\ LastPort /\ Top.err \in {"error", "inval"}
                     /\ Path \in failed
<1>1. ASSUME IInv, Next PROVE Lost
  <2> SUFFICES ASSUME NEW s \in UNION {Range(dev[h].children) : h \in Slots}, dev'[s].at # dev[s].at
               PROVE  /\ LastPort /\ Top.err \in {"error", "inval"}
                      /\ Path \in failed
    OBVIOUS
  <2>1. PICK h \in Slots : s \in Range(dev[h].children)
    OBVIOUS
  <2>2. dev[h].children \in Seq(Slots)
    BY <1>1, DeviceTypes DEF IInv, Structure
  <2>3. s \in Members(dev[h].children) /\ Members(dev[h].children) \subseteq Slots
    BY <2>1, <2>2, RangeIsMembers, MembersType
  <2>4. HubFails
    BY <1>1, <2>3, ChildrenStay DEF Child
  <2>5. status = "running" /\ Top.step = "end" /\ LastPort /\ HubError # "ok"
    BY <2>4 DEF HubFails, At
  <2>6. calls # << >> /\ Top \in Frames /\ Progress
    BY <1>1, <2>5, Running
  <2>7. Top.err \in {"error", "inval"}
    BY <2>5, <2>6 DEF HubError, Frames
  <2>8. Path \in failed
    BY <2>5, <2>6, <2>7 DEF Progress, FailureNoted
  <2> QED BY <2>5, <2>7, <2>8
<1>2. IInv /\ [Next]_vars => [Lost]_vars
  BY <1>1
<1>3. Spec => [][Lost]_vars
  BY <1>2, EnumerationInvariant, PTL DEF Spec
<1> QED BY <1>3, PTL DEF LostByLastPortOnly

----------------------------------------------------------------------------
(* The slots.                                                              *)

(* A slot that hangs below no other.                                       *)
Orphan(s) == s \in Slots \ Members(free) /\ \A h \in Slots : ~Child(h, s)

(* What is released with a slot that is not free is not free.              *)
LEMMA ReleasedTaken ==
  ASSUME Structure, NEW s \in Slots \ Members(free), NEW t \in Members(Released(s))
  PROVE  t \in Slots \ Members(free)
<1>1. /\ Members(Released(s)) \subseteq Slots
      /\ t = s \/ \E h \in Members(Released(s)) : Child(h, t)
  BY ReleasedFacts, MembersType DEF Structure
<1> QED BY <1>1, ChildFacts DEF Structure

(* Two such slots release nothing twice.                                   *)
LEMMA ReleasedApart ==
  ASSUME Structure, NEW a, NEW b, Orphan(a), Orphan(b), a # b
  PROVE  Members(Released(a)) \cap Members(Released(b)) = {}
<1> DEFINE A == Members(Released(a))
           B == Members(Released(b))
           T == {Len(dev[t].at) : t \in A \cap B}
<1> SUFFICES ASSUME A \cap B # {} PROVE FALSE
  OBVIOUS
<1>0. a \in Slots /\ b \in Slots /\ \A h \in Slots : ~Child(h, a) /\ ~Child(h, b)
  BY DEF Orphan
<1>1. /\ A \subseteq Slots /\ B \subseteq Slots
      /\ \A t \in A : t = a \/ \E h \in A : Child(h, t)
      /\ \A t \in B : t = b \/ \E h \in B : Child(h, t)
  BY <1>0, ReleasedFacts, MembersType DEF Structure
<1> HIDE DEF A, B
<1>2. \A t \in Slots : Len(dev[t].at) \in Nat
  BY DeviceTypes DEF Structure
<1>3. T \in SUBSET Nat /\ T # {}
  BY <1>1, <1>2
<1>4. PICK x \in T : \A y \in T : x <= y
  BY <1>3, LeastNat
<1>5. PICK t \in A \cap B : x = Len(dev[t].at)
  OBVIOUS
<1>6. t # a /\ t # b
  BY <1>0, <1>1, <1>5
<1>7. PICK g \in A : Child(g, t)
  BY <1>1, <1>5, <1>6
<1>8. PICK h \in B : Child(h, t)
  BY <1>1, <1>5, <1>6
<1>9. g = h /\ g \in Slots /\ t \in Slots
  BY <1>1, <1>5, <1>7, <1>8 DEF Structure, Forest
<1>10. Len(dev[t].at) = Len(dev[g].at) + 1
  BY <1>7, <1>9, ChildFacts DEF Structure
<1>11. Len(dev[g].at) \in T
  BY <1>7, <1>8, <1>9
<1>12. x <= Len(dev[g].at)
  BY <1>4, <1>11
<1> QED BY <1>2, <1>5, <1>9, <1>10, <1>12

(* Every slot that is not free is released with one of them.               *)
LEMMA ReleasedCover ==
  ASSUME Structure, NEW t \in Slots \ Members(free)
  PROVE  \E a : /\ Orphan(a) /\ t \in Members(Released(a))
                /\ a = root_hub \/ \E i \in Active : a = calls[i].dev
<1> DEFINE In(s) == \E a : /\ Orphan(a) /\ s \in Members(Released(a))
                           /\ a = root_hub \/ \E i \in Active : a = calls[i].dev
           Bad == {s \in Slots \ Members(free) : ~In(s)}
           T == {Len(dev[s].at) : s \in Bad}
<1> SUFFICES ASSUME t \in Bad PROVE FALSE
  OBVIOUS
<1>1. \A s \in Slots : Len(dev[s].at) \in Nat
  BY DeviceTypes DEF Structure
<1>2. ASSUME NEW s \in Slots \ Members(free), \A h \in Slots : ~Child(h, s) PROVE In(s)
  <2>1. Orphan(s)
    BY <1>2 DEF Orphan
  <2>2. s \in Members(Released(s))
    BY ReleasedFacts DEF Structure
  <2>3. s = root_hub \/ \E i \in Active : s = calls[i].dev
    BY <1>2 DEF Structure, FreeSlots, Enumerating
  <2> QED BY <2>1, <2>2, <2>3
<1>3. ASSUME NEW h \in Slots, NEW s \in Slots, Child(h, s), In(h) PROVE In(s)
  <2>1. PICK a : /\ Orphan(a) /\ h \in Members(Released(a))
                 /\ a = root_hub \/ \E i \in Active : a = calls[i].dev
    BY <1>3
  <2>2. a \in Slots
    BY <2>1 DEF Orphan
  <2>3. s \in Members(Released(a))
    BY <1>3, <2>1, <2>2, ReleasedFacts DEF Structure
  <2> QED BY <2>1, <2>3
<1> HIDE DEF In
<1>4. T \in SUBSET Nat /\ T # {}
  BY <1>1
<1>5. PICK x \in T : \A y \in T : x <= y
  BY <1>4, LeastNat
<1>6. PICK s \in Bad : x = Len(dev[s].at)
  OBVIOUS
<1>7. PICK h \in Slots : Child(h, s)
  BY <1>2
<1>8. Len(dev[s].at) = Len(dev[h].at) + 1 /\ h \notin Members(free)
  BY <1>7, ChildFacts DEF Structure
<1>9. h \in Bad
  BY <1>3, <1>7, <1>8
<1>10. x <= Len(dev[h].at)
  BY <1>5, <1>9
<1> QED BY <1>1, <1>6, <1>7, <1>8, <1>10

(* A list of all slots with none twice is as long as they are many.        *)
LEMMA AllSlots ==
  ASSUME NEW s \in Seq(Slots), IsLinkedOnce(s), Members(s) = Slots
  PROVE  Len(s) = DEVICE_SLOTS /\ Range(s) = Slots
<1>1. Len(s) \in Nat /\ s \in [1..Len(s) -> Slots]
  OBVIOUS
<1>2. s \in Injection(1..Len(s), Slots)
  BY <1>1 DEF Injection, IsInjective, IsLinkedOnce
<1>3. s \in Surjection(1..Len(s), Slots)
  BY <1>1 DEF Surjection, Members
<1>4. ExistsBijection(1..Len(s), Slots)
  BY <1>2, <1>3 DEF Bijection, ExistsBijection
<1>5. Cardinality(Slots) = Len(s)
  BY <1>1, <1>4, FS_CountingElements
<1>6. Cardinality(1..DEVICE_SLOTS) = DEVICE_SLOTS
  BY FS_Interval
<1> QED BY <1>5, <1>6, RangeIsMembers DEF Slots

(* Two elements and a list of more, as one list.                           *)
LEMMA TwoAndMore ==
  ASSUME NEW T, NEW a \in T, NEW b \in T, NEW y \in Seq(T)
  PROVE  LET q == <<a>> \o <<b>> \o y
         IN  /\ q \in Seq(T) /\ Len(q) = Len(y) + 2 /\ q[1] = a /\ q[2] = b
             /\ \A i \in 1..Len(y) : q[i + 2] = y[i] /\ i + 2 \in 1..Len(q)
             /\ \A j \in 1..Len(q) : j = 1 \/ j = 2 \/ (j - 2 \in 1..Len(y) /\ q[j] = y[j - 2])
             /\ 1 \in 1..Len(q) /\ 2 \in 1..Len(q)
<1> DEFINE u == <<a>>
           v == <<b>>
           x == u \o v
           q == x \o y
<1>1. /\ u \in Seq(T) /\ Len(u) = 1 /\ u[1] = a
      /\ v \in Seq(T) /\ Len(v) = 1 /\ v[1] = b
  OBVIOUS
<1> HIDE DEF u, v
<1>2. x \in Seq(T) /\ Len(x) = 2 /\ x[1] = a /\ x[2] = b
  <2>1. /\ x \in Seq(T) /\ Len(x) = 1 + 1
        /\ \A i \in 1..(1 + 1) : x[i] = IF i <= 1 THEN u[i] ELSE v[i - 1]
    <3>1. /\ x \in Seq(T) /\ Len(x) = Len(u) + Len(v)
          /\ \A i \in 1..(Len(u) + Len(v)) :
               x[i] = IF i <= Len(u) THEN u[i] ELSE v[i - Len(u)]
      BY <1>1, ConcatProperties, Zenon
    <3> HIDE DEF x
    <3> QED BY <1>1, <3>1
  <2> HIDE DEF x
  <2> QED BY <1>1, <2>1
<1> HIDE DEF x
<1>3. /\ q \in Seq(T) /\ Len(q) = 2 + Len(y) /\ Len(y) \in Nat
      /\ \A i \in 1..(2 + Len(y)) : q[i] = IF i <= 2 THEN x[i] ELSE y[i - 2]
  <2>1. /\ q \in Seq(T) /\ Len(q) = Len(x) + Len(y)
        /\ \A i \in 1..(Len(x) + Len(y)) : q[i] = IF i <= Len(x) THEN x[i] ELSE y[i - Len(x)]
    BY <1>2, ConcatProperties
  <2>2. Len(x) = 2 /\ Len(y) \in Nat
    BY <1>2
  <2> HIDE DEF q
  <2> QED BY <2>1, <2>2
<1> HIDE DEF q
<1>4. Len(q) = Len(y) + 2 /\ 1 \in 1..Len(q) /\ 2 \in 1..Len(q) /\ q[1] = a /\ q[2] = b
  BY <1>2, <1>3
<1>5. \A i \in 1..Len(y) : q[i + 2] = y[i] /\ i + 2 \in 1..Len(q)
  BY <1>3
<1>6. \A j \in 1..Len(q) : j = 1 \/ j = 2 \/ (j - 2 \in 1..Len(y) /\ q[j] = y[j - 2])
  BY <1>3
<1> QED BY <1>3, <1>4, <1>5, <1>6 DEF q, x, u, v

(* The root hub and the devices being enumerated are such slots.           *)
LEMMA Orphans ==
  ASSUME Structure
  PROVE  /\ root_hub # 0 => Orphan(root_hub)
         /\ \A i \in Active : /\ Orphan(calls[i].dev) /\ calls[i].dev # root_hub
                              /\ \A j \in Active : j # i => calls[j].dev # calls[i].dev
<1>1. ASSUME root_hub # 0 PROVE Orphan(root_hub)
  <2>1. root_hub \in Slots /\ dev[root_hub].at = Root /\ root_hub \notin Members(free)
    BY <1>1 DEF Structure, Types, Stack, FreeSlots, Slots
  <2>2. \A h \in Slots : Len(dev[h].at) \in Nat
    BY DeviceTypes DEF Structure
  <2>3. Len(dev[root_hub].at) = 0
    BY <2>1 DEF Root
  <2>4. \A h \in Slots : ~Child(h, root_hub)
    <3> SUFFICES ASSUME NEW h \in Slots, Child(h, root_hub) PROVE FALSE
      OBVIOUS
    <3>1. Len(dev[root_hub].at) = Len(dev[h].at) + 1
      BY <2>1, ChildFacts DEF Structure
    <3> QED BY <2>2, <2>3, <3>1
  <2> QED BY <2>1, <2>4 DEF Orphan
<1>2. ASSUME NEW i \in Active
      PROVE  /\ Orphan(calls[i].dev) /\ calls[i].dev # root_hub
             /\ \A j \in Active : j # i => calls[j].dev # calls[i].dev
  <2>1. \A j \in Active : j \in 1..Len(calls)
    BY DEF Active
  <2>2. \A j \in Active : /\ calls[j].dev \in Slots \ Members(free) /\ calls[j].dev # root_hub
                          /\ Len(dev[calls[j].dev].at) = j
    BY <2>1, PlaceFacts
  <2>3. \A h \in Slots : ~Child(h, calls[i].dev)
    BY DEF Structure, Forest
  <2>4. \A j \in Active : j # i => calls[j].dev # calls[i].dev
    BY <2>2
  <2> QED BY <2>2, <2>3, <2>4 DEF Orphan
<1> QED BY <1>1, <1>2

(* No way out of the enumeration loses a slot or releases one twice.       *)
LEMMA SlotsFacts ==
  ASSUME Structure
  PROVE  SlotsAccounted
<1> DEFINE Z(i) == IF i \in Active THEN Released(calls[i].dev) ELSE << >>
           y == [i \in 1..Len(calls) |-> Z(i)]
           x == IF root_hub = 0 THEN << >> ELSE <<Released(root_hub)>>
           q == <<free>> \o x \o y
<1>1. /\ calls \in Seq(Frames) /\ Len(calls) \in Nat /\ free \in Seq(Slots) /\ IsLinkedOnce(free)
      /\ Members(free) \subseteq Slots
  BY MembersType DEF Structure, Types, FreeSlots
<1>2. \A s \in Slots : Released(s) \in Seq(Slots) /\ IsLinkedOnce(Released(s))
  BY ReleasedFacts DEF Structure
<1>3. /\ root_hub # 0 => Orphan(root_hub)
      /\ \A i \in Active : /\ Orphan(calls[i].dev) /\ calls[i].dev # root_hub
                           /\ \A j \in Active : j # i => calls[j].dev # calls[i].dev
  BY Orphans
<1>4. << >> \in Seq(Slots) /\ IsLinkedOnce(<< >>) /\ Members(<< >>) = {}
  BY DEF IsLinkedOnce, Members
<1>5. \A i \in 1..Len(calls) : Z(i) \in Seq(Slots) /\ IsLinkedOnce(Z(i))
  BY <1>2, <1>3, <1>4 DEF Orphan
<1>6. y \in Seq(Seq(Slots)) /\ Len(y) = Len(calls) /\ \A i \in 1..Len(calls) : y[i] = Z(i)
  <2> HIDE DEF Z
  <2> QED BY <1>1, <1>5
<1> SUFFICES Len(FlattenSeq(q)) = DEVICE_SLOTS /\ Range(FlattenSeq(q)) = Slots
  BY DEF SlotsAccounted
<1> HIDE DEF y
<1>7. CASE root_hub = 0
  <2> DEFINE u == <<free>>
  <2>1. Len(calls) = 0 /\ Members(free) = Slots
    BY <1>7 DEF Structure, Stack
  <2>2. y = << >> /\ x = << >>
    BY <1>6, <1>7, <2>1
  <2>3. u \in Seq(Seq(Slots)) /\ Len(u) = 1 /\ u[1] = free
    BY <1>1
  <2> HIDE DEF x, u
  <2>4. u \o x \o y = u
    BY <2>2, <2>3, ConcatEmptySeq
  <2>5. q = u
    BY <2>4 DEF u
  <2> HIDE DEF q
  <2>6. /\ FlattenSeq(u) \in Seq(Slots)
        /\ \A z : z \in Members(FlattenSeq(u)) <=> \E i \in 1..Len(u) : z \in Members(u[i])
        /\ IsLinkedOnce(FlattenSeq(u))
    <3>1. \A i, j \in 1..Len(u) : i = j /\ u[i] = free
      BY <2>3
    <3>2. /\ \A i \in 1..Len(u) : IsLinkedOnce(u[i])
          /\ \A i, j \in 1..Len(u) : i # j => Members(u[i]) \cap Members(u[j]) = {}
      BY <1>1, <3>1
    <3> QED BY <2>3, <3>2, FlattenFacts
  <2>7. Members(FlattenSeq(u)) = Slots
    <3>1. 1 \in 1..Len(u)
      BY <2>3
    <3>2. \A i \in 1..Len(u) : u[i] = free
      BY <2>3
    <3> QED BY <2>1, <2>6, <3>1, <3>2
  <2> QED BY <2>5, <2>6, <2>7, AllSlots
<1>8. CASE root_hub # 0
  <2> DEFINE R == Released(root_hub)
  <2>1. x = <<R>>
    BY <1>8
  <2>2. Orphan(root_hub) /\ root_hub \in Slots /\ R \in Seq(Slots) /\ IsLinkedOnce(R)
    BY <1>2, <1>3, <1>8 DEF Orphan
  <2> HIDE DEF x, R
  <2>3. /\ q \in Seq(Seq(Slots)) /\ Len(q) = Len(y) + 2 /\ q[1] = free /\ q[2] = R
        /\ \A i \in 1..Len(y) : q[i + 2] = y[i] /\ i + 2 \in 1..Len(q)
        /\ \A j \in 1..Len(q) : j = 1 \/ j = 2 \/ (j - 2 \in 1..Len(y) /\ q[j] = y[j - 2])
        /\ 1 \in 1..Len(q) /\ 2 \in 1..Len(q)
    BY <1>1, <1>6, <2>1, <2>2, TwoAndMore
  <2> HIDE DEF q, Z
  <2>4. \A j \in 1..Len(q) : \/ j = 1 /\ q[j] = free
                             \/ j = 2 /\ q[j] = R
                             \/ j - 2 \in 1..Len(calls) /\ q[j] = Z(j - 2)
    BY <1>6, <2>3
  <2>5. \A j \in 1..Len(q) : IsLinkedOnce(q[j])
    BY <1>1, <1>5, <2>2, <2>4
  <2>6. /\ Members(free) \cap Members(R) = {}
        /\ \A i \in 1..Len(calls) : /\ Members(free) \cap Members(Z(i)) = {}
                                    /\ Members(R) \cap Members(Z(i)) = {}
        /\ \A i, j \in 1..Len(calls) : i # j => Members(Z(i)) \cap Members(Z(j)) = {}
    <3>1. ASSUME NEW a, Orphan(a) PROVE Members(free) \cap Members(Released(a)) = {}
      <4>1. a \in Slots \ Members(free)
        BY <3>1 DEF Orphan
      <4> QED BY <4>1, ReleasedTaken
    <3>2. Members(free) \cap Members(R) = {}
      BY <2>2, <3>1 DEF R
    <3>3. ASSUME NEW i \in 1..Len(calls)
          PROVE  Members(free) \cap Members(Z(i)) = {} /\ Members(R) \cap Members(Z(i)) = {}
      <4>1. CASE i \in Active
        <5>1. Z(i) = Released(calls[i].dev) /\ Orphan(calls[i].dev) /\ calls[i].dev # root_hub
          BY <1>3, <4>1 DEF Z
        <5> QED BY <2>2, <3>1, <5>1, ReleasedApart DEF R
      <4>2. CASE i \notin Active
        BY <1>4, <4>2 DEF Z
      <4> QED BY <4>1, <4>2
    <3>4. ASSUME NEW i \in 1..Len(calls), NEW j \in 1..Len(calls), i # j
          PROVE  Members(Z(i)) \cap Members(Z(j)) = {}
      <4>1. CASE i \in Active /\ j \in Active
        <5>1. /\ Z(i) = Released(calls[i].dev) /\ Orphan(calls[i].dev)
              /\ Z(j) = Released(calls[j].dev) /\ Orphan(calls[j].dev)
              /\ calls[i].dev # calls[j].dev
          BY <1>3, <3>4, <4>1 DEF Z
        <5> QED BY <5>1, ReleasedApart
      <4>2. CASE i \notin Active \/ j \notin Active
        BY <1>4, <4>2 DEF Z
      <4> QED BY <4>1, <4>2
    <3> QED BY <3>2, <3>3, <3>4
  <2>7. ASSUME NEW i \in 1..Len(q), NEW j \in 1..Len(q), i # j
        PROVE  Members(q[i]) \cap Members(q[j]) = {}
    <3>1. i - 2 \in 1..Len(calls) /\ j - 2 \in 1..Len(calls) => i - 2 # j - 2
      BY <2>3, <2>7
    <3>2. CASE i = 1 /\ q[i] = free
      BY <2>4, <2>6, <2>7, <3>2
    <3>3. CASE i = 2 /\ q[i] = R
      BY <2>4, <2>6, <2>7, <3>3
    <3>4. CASE i - 2 \in 1..Len(calls) /\ q[i] = Z(i - 2)
      BY <2>4, <2>6, <2>7, <3>1, <3>4
    <3> QED BY <2>4, <3>2, <3>3, <3>4
  <2>8. /\ FlattenSeq(q) \in Seq(Slots) /\ IsLinkedOnce(FlattenSeq(q))
        /\ \A z : z \in Members(FlattenSeq(q)) <=> \E i \in 1..Len(q) : z \in Members(q[i])
    BY <2>3, <2>5, <2>7, FlattenFacts
  <2>9. Members(FlattenSeq(q)) \subseteq Slots
    BY <2>8, MembersType
  <2>10. ASSUME NEW z \in Slots PROVE z \in Members(FlattenSeq(q))
    <3>1. CASE z \in Members(free)
      BY <2>3, <2>8, <3>1
    <3>2. CASE z \notin Members(free)
      <4>1. PICK a : /\ Orphan(a) /\ z \in Members(Released(a))
                     /\ a = root_hub \/ \E i \in Active : a = calls[i].dev
        BY <3>2, ReleasedCover
      <4>2. CASE a = root_hub
        BY <2>3, <2>8, <4>1, <4>2 DEF R
      <4>3. CASE \E i \in Active : a = calls[i].dev
        <5>1. PICK i \in Active : a = calls[i].dev
          BY <4>3
        <5>2. i \in 1..Len(calls)
          BY DEF Active
        <5>3. Z(i) = Released(a)
          BY <5>1 DEF Z
        <5>4. q[i + 2] = Z(i) /\ i + 2 \in 1..Len(q)
          BY <1>6, <2>3, <5>2
        <5> QED BY <2>8, <4>1, <5>3, <5>4
      <4> QED BY <4>1, <4>2, <4>3
    <3> QED BY <3>1, <3>2
  <2>11. Members(FlattenSeq(q)) = Slots
    BY <2>9, <2>10
  <2> QED BY <2>8, <2>11, AllSlots
<1> QED BY <1>7, <1>8

(* The devices of the tree.                                                *)
LEMMA TreeFacts ==
  ASSUME Structure, NEW s \in Tree
  PROVE  /\ root_hub \in Slots /\ s \in Slots \ Members(free)
         /\ s = root_hub \/ \E h \in Tree : h \in Slots /\ Child(h, s)
         /\ \A c \in Slots : Child(s, c) => c \in Tree
<1>1. root_hub # 0
  BY DEF Tree
<1>2. root_hub \in Slots \ Members(free)
  BY <1>1, Orphans DEF Orphan
<1>3. Released(root_hub) \in Seq(Slots)
  BY <1>2, ReleasedFacts DEF Structure
<1>4. Tree = Members(Released(root_hub)) /\ Tree \subseteq Slots
  BY <1>1, <1>3, RangeIsMembers, MembersType DEF Tree
<1>5. s \in Slots \ Members(free)
  BY <1>2, <1>4, ReleasedTaken
<1>6. /\ s = root_hub \/ \E h \in Tree : h \in Slots /\ Child(h, s)
      /\ \A c \in Slots : Child(s, c) => c \in Tree
  BY <1>2, <1>4, ReleasedFacts DEF Structure
<1> QED BY <1>2, <1>5, <1>6

(* A place is its hub's place and its port.                                *)
LEMMA PathParts ==
  ASSUME NEW p \in Paths
  PROVE  p = Append(Front(p), Last(p)) /\ Last(p) \in Ports /\ Front(p) \in Seq(Ports)
<1>1. p \in Seq(Ports) /\ Len(p) \in Nat /\ Len(p) >= 1
  BY PathFacts
<1>2. p # << >>
  BY <1>1
<1>3. Front(p) = SubSeq(p, 1, Len(p) - 1) /\ Last(p) = p[Len(p)]
  BY DEF Front, Last
<1>4. /\ Front(p) \in Seq(Ports) /\ Len(Front(p)) = Len(p) - 1
      /\ \A i \in 1..(Len(p) - 1) : Front(p)[i] = p[i]
  <2> DEFINE m == Len(p) - 1
             u == SubSeq(p, 1, m)
  <2>1. m \in Nat /\ \A i \in 1..m : p[i] \in Ports
    BY <1>1
  <2>2. Front(p) = u
    BY <1>3
  <2> HIDE DEF m
  <2>3. /\ u \in Seq(Ports) /\ Len(u) = (IF 1 <= m THEN m - 1 + 1 ELSE 0)
        /\ \A i \in 1..(m - 1 + 1) : u[i] = p[1 + i - 1]
    BY <2>1, SubSeqProperties
  <2> HIDE DEF u
  <2>4. Len(u) = m /\ \A i \in 1..m : u[i] = p[i]
    BY <2>1, <2>3
  <2> QED BY <2>2, <2>3, <2>4 DEF m
<1>5. Last(p) \in Ports
  BY <1>1, <1>3
<1> DEFINE f == Front(p)
           l == Last(p)
<1> HIDE DEF f, l
<1>6. p = Append(f, l)
  <2>1. /\ f \in Seq(Ports) /\ l \in Ports /\ Len(f) = Len(p) - 1 /\ l = p[Len(p)]
        /\ \A i \in 1..(Len(p) - 1) : f[i] = p[i]
    BY <1>3, <1>4, <1>5 DEF f, l
  <2>2. Append(f, l) \in Seq(Ports) /\ Len(Append(f, l)) = Len(p)
    BY <1>1, <2>1
  <2>3. \A i \in 1..Len(p) : Append(f, l)[i] = p[i]
    BY <1>1, <2>1
  <2> QED BY <1>1, <2>2, <2>3
<1> QED BY <1>4, <1>5, <1>6 DEF f, l

(* When all is done, the ports of the hubs are.                            *)
LEMMA PortsFacts ==
  ASSUME IInv
  PROVE  PortsAccounted
<1> SUFFICES ASSUME status = "ready", NEW p \in Paths, NEW h \in Tree,
                    dev[h].class = "hub", dev[h].at = Front(p), Last(p) < PortCount(h),
                    p \notin failed, plugged[p] # "none"
             PROVE  Cardinality({s \in Tree : dev[s].at = p}) = 1
  BY DEF PortsAccounted
<1>1. Structure /\ calls = << >>
  BY DEF IInv, Contents, Class
<1>2. h \in Slots /\ \A c \in Slots : Child(h, c) => c \in Tree
  BY <1>1, TreeFacts
<1>3. p = Append(dev[h].at, Last(p)) /\ Last(p) \in Ports
  BY PathParts
<1>4. Past(h, Last(p))
  BY <1>1 DEF Past
<1>5. PortDone(h, Last(p))
  BY <1>2, <1>3, <1>4 DEF IInv, Progress, PortsPast
<1>6. PICK c \in Slots : Child(h, c) /\ dev[c].at = p
  BY <1>3, <1>5 DEF PortDone
<1>7. \A s \in Tree : s \in Slots \ Members(free)
  BY <1>1, TreeFacts
<1>8. \A s \in Tree : dev[s].at = p => s = c
  BY <1>1, <1>2, <1>6, <1>7 DEF Structure, FreeSlots
<1>9. {s \in Tree : dev[s].at = p} = {c}
  BY <1>2, <1>6, <1>8
<1> QED BY <1>9, FS_Singleton

(* The devices of the tree are what they are taken for.                    *)
LEMMA ClassFacts ==
  ASSUME IInv
  PROVE  ClassFits
<1>1. Structure
  BY DEF IInv
<1> SUFFICES ASSUME NEW s \in Tree, s # root_hub PROVE Fits(dev[s])
  BY DEF ClassFits, Fits
<1>2. s \in Slots /\ \E h \in Slots : Child(h, s)
  BY <1>1, TreeFacts
<1> QED BY <1>2 DEF IInv, Contents, Class

(* After every failure each slot is free, in the tree or being enumerated, *)
(* and in one of these only; and in the end every port of a hub of the     *)
(* tree has its device in the tree, as what it is, or has failed.          *)
THEOREM TreeAlwaysSound == Spec => []TreeSound
<1>1. ASSUME IInv PROVE TreeSound
  <2>1. Structure
    BY <1>1 DEF IInv
  <2>2. TypeOK
    <3>1. \A s \in Slots : /\ dev[s] \in Devices /\ Range(dev[s].children) = Members(dev[s].children)
                           /\ Members(dev[s].children) \subseteq Slots
      BY <2>1, DeviceTypes, RangeIsMembers DEF Structure
    <3>2. \A s \in Slots :
            /\ dev[s].state \in {"ATTACHED", "POWERED", "DEFAULT", "ADDRESSED", "CONFIGURED"}
            /\ dev[s].class \in {"none", "hub", "hid", "mass"}
            /\ dev[s].at \in Paths \cup {Root}
      BY <3>1 DEF Devices, States, Classes
    <3> QED BY <2>1, <3>1, <3>2 DEF Structure, Types, TypeOK
  <2> QED BY <1>1, <2>1, <2>2, SlotsFacts, PortsFacts, ClassFacts DEF TreeSound
<1> QED BY <1>1, EnumerationInvariant, PTL

=============================================================================
