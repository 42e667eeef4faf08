---------------------------- MODULE VchiqSlots -----------------------------
(***************************************************************************)
(* The transport under the VideoCore services (vchiq_2835_arm.c): two      *)
(* streams of messages in slots of shared memory, one written by the ARM   *)
(* ("arm") and one by the VideoCore ("vc"), the queues in which each side  *)
(* gives read slots back to the other, and the remote events with which    *)
(* the VideoCore wakes the loop thread (trigger) and the recycle thread    *)
(* (recycle).                                                              *)
(*                                                                         *)
(* Lengths are counted in headers, and so is memory: a cell holds a header *)
(* or a piece of a payload, which says anything when it is read as a       *)
(* header.  Threads change only where they wait (nothing arms the          *)
(* scheduler's timer), the interrupt and the VideoCore come in between any *)
(* two steps.  The VideoCore is external: it writes, reads and releases as *)
(* this file does, publishes what it has written, waits for a free slot,   *)
(* and looks at the ARM's stream whenever it likes, so the events it waits *)
(* for are not modelled.  A VideoCore that has lost its place in the ARM's *)
(* stream is not followed further.  Stores are seen in program order.      *)
(* Positions stay below 2^31, where they are signed ints.                  *)
(***************************************************************************)
EXTENDS Integers, Sequences

CONSTANTS
  SLOTS,                \* slots of each side, slot_first..slot_last
  QUEUE,                \* VCHIQ_MAX_SLOTS_PER_SIDE
  SLOT_SIZE,            \* VCHIQ_SLOT_SIZE, in headers
  Strides,              \* the strides of messages: header and payload
  TX_INFLIGHT,          \* messages of the ARM its callers leave unanswered
  MAX_MSGS              \* bound on the messages of both sides together

ASSUME SlotsAssumption ==
  /\ SLOTS \in Nat /\ QUEUE \in Nat /\ SLOTS > 1 /\ SLOTS <= QUEUE
  /\ SLOT_SIZE \in Nat \ {0} /\ Strides \subseteq 1..(SLOT_SIZE - 1)
  /\ TX_INFLIGHT \in Nat /\ MAX_MSGS \in Nat

Sides == {"arm", "vc"}
Events == {"trigger", "recycle"}
Slots == 1..SLOTS
Offsets == 0..(SLOT_SIZE - 1)

VARIABLES
  mem,                  \* the cells of each side's slots
  starts,               \* history: where each message of a side starts
  tx_pos,               \* where each side writes next, visible to the other
  rx_pos,               \* where the other side reads next
  slot_queue,           \* the slots of each side in the order of their use
  slot_queue_recycle,   \* the slots of a side given back by the other
  slot_queue_available, \* the ARM's slots the recycle thread has seen
  filling,              \* the message the ARM is writing, 0 if none
  next_store,           \* what it stores next of that message
  taken,                \* history: what each side's reader took
  adrift,               \* the VideoCore has lost its place in the ARM's stream
  held,                 \* messages the ARM keeps pointers to
  armed, fired,         \* the two words of the ARM's remote events
  waitflag,             \* trigger_waitflag and recycle_waitflag
  bell,                 \* BELL0: an interrupt is pending
  thread_pc,            \* where the thread of each event is
  ringing               \* how far the VideoCore is with signalling an event

streamVars == <<mem, starts, tx_pos, rx_pos, slot_queue, slot_queue_recycle>>
eventVars == <<armed, fired, waitflag, bell, thread_pc, ringing>>
sendVars == <<filling, next_store>>
readVars == <<taken, adrift, held>>
slotsVars == <<streamVars, slot_queue_available, sendVars, readVars, eventVars>>

(* What the identifier of a header says other than a message.  Garbage is  *)
(* what stood in the cell before, when that was a payload.                 *)
Padding == 0
Garbage == -1

HeaderCell(id, stride) == [id |-> id, stride |-> stride]
PayloadCell(id) == [id |-> id, stride |-> 0]
IsPayload(cell) == cell.stride = 0

(* vchiq_init_slots and vchiq_init_state: each side's queue starts with    *)
(* its own slots, the rest of it is zero.                                  *)
SlotsInit ==
  /\ mem = [s \in Sides |-> [n \in Slots |-> [o \in Offsets |->
              HeaderCell(Padding, 1)]]]
  /\ starts = [s \in Sides |-> << >>]
  /\ tx_pos = [s \in Sides |-> 0]
  /\ rx_pos = [s \in Sides |-> 0]
  /\ slot_queue = [s \in Sides |-> [i \in 0..(QUEUE - 1) |->
                     IF i < SLOTS THEN i + 1 ELSE 0]]
  /\ slot_queue_recycle = [s \in Sides |-> SLOTS]
  /\ slot_queue_available = SLOTS
  /\ filling = 0
  /\ next_store = "none"
  /\ taken = [s \in Sides |-> << >>]
  /\ adrift = FALSE
  /\ held = {}
  /\ armed = [e \in Events |-> FALSE]
  /\ fired = [e \in Events |-> FALSE]
  /\ waitflag = [e \in Events |-> FALSE]
  /\ bell = FALSE
  /\ thread_pc = [e \in Events |-> "ready"]
  /\ ringing = [e \in Events |-> "no"]

----------------------------------------------------------------------------
(* Places in a stream.                                                     *)

SlotAt(s, pos) == slot_queue[s][(pos \div SLOT_SIZE) % QUEUE]
Offset(pos) == pos % SLOT_SIZE
Header(s, pos) == mem[s][SlotAt(s, pos)][Offset(pos)]

SlotSpace(pos) == SLOT_SIZE - Offset(pos)

(* Where a message of this stride starts: in the next slot if it does not  *)
(* fit in what is left of this one.                                        *)
Start(pos, stride) ==
  IF SlotSpace(pos) < stride THEN pos + SlotSpace(pos) ELSE pos

(* The memory m of side s, with c in these cells of the slot of pos.       *)
WithCells(s, m, pos, offsets, c) ==
  [m EXCEPT ![SlotAt(s, pos)] = [o \in Offsets |-> IF o \in offsets THEN c ELSE @[o]]]

(* The cells of a message behind its header.                               *)
PayloadOf(at, stride) == (Offset(at) + 1)..(Offset(at) + stride - 1)

(* The memory of side s with a padding header where the rest of a slot is  *)
(* left out.                                                               *)
Padded(s, at) ==
  LET pos == tx_pos[s] IN
  IF at = pos THEN mem[s]
  ELSE WithCells(s, mem[s], pos, {Offset(pos)}, HeaderCell(Padding, SlotSpace(pos)))

(* vchiq_get_next_header_rx: the next header that is not padding.          *)
NextHeader(s) ==
  LET pos == rx_pos[s]
  IN  IF Header(s, pos).id = Padding THEN pos + Header(s, pos).stride ELSE pos

(* Mutant: the slot just entered is given back, not the one left.          *)
ReleaseEntered(s, from, to) ==
  LET left == SlotAt(s, from) IN
  IF SlotAt(s, to) = left
    THEN UNCHANGED <<slot_queue, slot_queue_recycle>>
    ELSE /\ slot_queue' = [slot_queue EXCEPT
              ![s][slot_queue_recycle[s] % QUEUE] = SlotAt(s, to)]
         /\ slot_queue_recycle' = [slot_queue_recycle EXCEPT ![s] = @ + 1]

(* vchiq_release_slot, when the reader has moved to another slot.          *)
ReleaseSlot(s, from, to) ==
  LET left == SlotAt(s, from) IN
  IF SlotAt(s, to) = left
    THEN UNCHANGED <<slot_queue, slot_queue_recycle>>
    ELSE /\ slot_queue' = [slot_queue EXCEPT
              ![s][slot_queue_recycle[s] % QUEUE] = left]
         /\ slot_queue_recycle' = [slot_queue_recycle EXCEPT ![s] = @ + 1]

Sent == Len(starts["arm"]) + Len(starts["vc"])
Pending(s) == Len(starts[s]) - Len(taken[s])

(* Threads change where they wait or yield: a thread goes on only while    *)
(* every other thread and the sender are at such a point.                  *)
CpuOf(e) == filling = 0 /\ \A d \in Events \ {e} : thread_pc[d] \in {"ready", "wait"}
ClientHasCpu == \A e \in Events : thread_pc[e] \in {"ready", "wait"}

----------------------------------------------------------------------------
(* The ARM sends.                                                          *)

(* vchiq_prep_next_header_tx: nothing asks whether the slot is free, and   *)
(* tx_pos is published before anything of the message is written.          *)
Prep(stride) ==
  /\ filling = 0 /\ ClientHasCpu
  /\ Sent < MAX_MSGS /\ Pending("arm") < TX_INFLIGHT
  /\ LET at == Start(tx_pos["arm"], stride)
     IN  /\ mem' = [mem EXCEPT !["arm"] = Padded("arm", at)]
         /\ starts' = [starts EXCEPT !["arm"] = Append(@, at)]
         /\ tx_pos' = [tx_pos EXCEPT !["arm"] = at + stride]
  /\ filling' = Len(starts["arm"]) + 1
  /\ next_store' = "size"
  /\ UNCHANGED <<rx_pos, slot_queue, slot_queue_recycle, slot_queue_available,
                 readVars, eventVars>>

(* The message prepared last: where it is and how long.                    *)
FillingAt == starts["arm"][filling]
FillingStride == tx_pos["arm"] - FillingAt

(* One store into the message being written.                               *)
StoreInto(this, next, offsets, cell) ==
  /\ next_store = this
  /\ mem' = [mem EXCEPT !["arm"] = WithCells("arm", @, FillingAt, offsets, cell)]
  /\ next_store' = next
  /\ UNCHANGED <<starts, tx_pos, rx_pos, slot_queue, slot_queue_recycle,
                 slot_queue_available, readVars, eventVars>>

(* Its size, the end of vchiq_prep_next_header_tx.  The identifier is      *)
(* still that of the header that stood here before, if one did.            *)
PutSize ==
  LET old == Header("arm", FillingAt) IN
  /\ StoreInto("size", "msgid", {Offset(FillingAt)},
           HeaderCell(IF IsPayload(old) THEN Garbage ELSE old.id, FillingStride))
  /\ UNCHANGED filling

(* Its identifier, vchiq_handmade_prep_msg.                                *)
PutMsgid ==
  /\ StoreInto("msgid", "payload", {Offset(FillingAt)}, HeaderCell(filling, FillingStride))
  /\ UNCHANGED filling

(* Its payload, the memcpy of vchiq_handmade_prep_msg.                     *)
PutPayload ==
  /\ StoreInto("payload", "none", PayloadOf(FillingAt, FillingStride), PayloadCell(filling))
  /\ filling' = 0

----------------------------------------------------------------------------
(* Waiting for a remote event, vchiq_event_wait.                           *)

Step(e, from, to) ==
  /\ CpuOf(e) /\ thread_pc[e] = from
  /\ thread_pc' = [thread_pc EXCEPT ![e] = to]

(* A thread that has just been created, or has yielded.                    *)
Resume(e) ==
  /\ Step(e, "ready", "test")
  /\ UNCHANGED <<streamVars, slot_queue_available, sendVars, readVars,
                 armed, fired, waitflag, bell, ringing>>

EventSeen(e) ==
  /\ fired[e] /\ Step(e, "test", "clear")
  /\ UNCHANGED <<streamVars, slot_queue_available, sendVars, readVars,
                 armed, fired, waitflag, bell, ringing>>

EventMissed(e) ==
  /\ ~fired[e] /\ Step(e, "test", "arm")
  /\ UNCHANGED <<streamVars, slot_queue_available, sendVars, readVars,
                 armed, fired, waitflag, bell, ringing>>

Arm(e) ==
  /\ Step(e, "arm", "wait")
  /\ armed' = [armed EXCEPT ![e] = TRUE]
  /\ UNCHANGED <<streamVars, slot_queue_available, sendVars, readVars,
                 fired, waitflag, bell, ringing>>

(* wait_on_waitflag takes the flag; the thread runs some time later.       *)
Wake(e) ==
  /\ waitflag[e] /\ Step(e, "wait", "disarm")
  /\ waitflag' = [waitflag EXCEPT ![e] = FALSE]
  /\ UNCHANGED <<streamVars, slot_queue_available, sendVars, readVars,
                 armed, fired, bell, ringing>>

Disarm(e) ==
  /\ Step(e, "disarm", "clear")
  /\ armed' = [armed EXCEPT ![e] = FALSE]
  /\ UNCHANGED <<streamVars, slot_queue_available, sendVars, readVars,
                 fired, waitflag, bell, ringing>>

Clear(e) ==
  /\ Step(e, "clear", "work")
  /\ fired' = [fired EXCEPT ![e] = FALSE]
  /\ UNCHANGED <<streamVars, slot_queue_available, sendVars, readVars,
                 armed, waitflag, bell, ringing>>

(* Mutant: the handler checks no event.                                    *)
VchiqIrqDropsEvents ==
  /\ bell
  /\ bell' = FALSE
  /\ UNCHANGED <<streamVars, slot_queue_available, sendVars, readVars,
                 armed, fired, waitflag, thread_pc, ringing>>

(* vchiq_irq_handler: reading BELL0 clears it, every event is checked.     *)
VchiqIrq ==
  /\ bell
  /\ bell' = FALSE
  /\ waitflag' = [e \in Events |-> waitflag[e] \/ (armed[e] /\ fired[e])]
  /\ UNCHANGED <<streamVars, slot_queue_available, sendVars, readVars,
                 armed, fired, thread_pc, ringing>>

----------------------------------------------------------------------------
(* The loop thread, vchiq_parse_rx.                                        *)

(* Mutant: a padding header is dispatched as a message.                    *)
ReceiveUnpadded ==
  /\ CpuOf("trigger") /\ thread_pc["trigger"] = "work" /\ rx_pos["vc"] # tx_pos["vc"]
  /\ LET at   == rx_pos["vc"]
         next == at + Header("vc", at).stride
     IN  /\ taken' = [taken EXCEPT !["vc"] = Append(@, Header("vc", at).id)]
         /\ rx_pos' = [rx_pos EXCEPT !["vc"] = next]
         /\ ReleaseSlot("vc", rx_pos["vc"], next)
  /\ UNCHANGED <<mem, starts, tx_pos, slot_queue_available, sendVars, adrift, held, eventVars>>

(* One message: the client keeps a pointer to it, and the slot is given    *)
(* back as soon as the reader leaves it.                                   *)
Receive ==
  /\ CpuOf("trigger") /\ thread_pc["trigger"] = "work" /\ rx_pos["vc"] # tx_pos["vc"]
  /\ LET at   == NextHeader("vc")
         next == at + Header("vc", at).stride
     IN  /\ taken' = [taken EXCEPT !["vc"] = Append(@, Header("vc", at).id)]
         /\ held' = held \cup {[id |-> Header("vc", at).id, slot |-> SlotAt("vc", at),
                               at |-> at, stride |-> Header("vc", at).stride]}
         /\ rx_pos' = [rx_pos EXCEPT !["vc"] = next]
         /\ ReleaseSlot("vc", rx_pos["vc"], next)
  /\ UNCHANGED <<mem, starts, tx_pos, slot_queue_available, sendVars, adrift, eventVars>>

LoopAgain ==
  /\ rx_pos["vc"] = tx_pos["vc"] /\ Step("trigger", "work", "test")
  /\ UNCHANGED <<streamVars, slot_queue_available, sendVars, readVars,
                 armed, fired, waitflag, bell, ringing>>

(* A client has read a message it was handed; the io thread, which keeps   *)
(* frames in its list, often later than others.                            *)
LetGo ==
  /\ filling = 0 /\ ClientHasCpu
  /\ \E msg \in held : held' = held \ {msg}
  /\ UNCHANGED <<streamVars, slot_queue_available, sendVars, taken, adrift, eventVars>>

----------------------------------------------------------------------------
(* The recycle thread, vchiq_process_free_queue.                           *)

(* The walk over a slot from header to header meets only headers, the      *)
(* places of which are these, and its end.                                 *)
WalkEnds(slot) ==
  \E places \in SUBSET (0..SLOT_SIZE) :
    /\ 0 \in places
    /\ \A o \in places \ {SLOT_SIZE} :
         ~IsPayload(mem["arm"][slot][o]) /\ o + mem["arm"][slot][o].stride \in places

NextRecycled == slot_queue["arm"][slot_queue_available % QUEUE]

(* A walk that meets a payload takes it for a header: it passes the end of *)
(* the slot, which is a BUG, or meets the end by chance.                   *)
WalkSlot ==
  /\ CpuOf("recycle") /\ thread_pc["recycle"] = "work"
  /\ slot_queue_available # slot_queue_recycle["arm"]
  /\ \/ /\ ~WalkEnds(NextRecycled)
        /\ thread_pc' = [thread_pc EXCEPT !["recycle"] = "bug"]
        /\ UNCHANGED slot_queue_available
     \/ slot_queue_available' = slot_queue_available + 1 /\ UNCHANGED thread_pc
  /\ UNCHANGED <<streamVars, sendVars, readVars, armed, fired, waitflag, bell, ringing>>

RecycleAgain ==
  /\ slot_queue_available = slot_queue_recycle["arm"]
  /\ Step("recycle", "work", "ready")
  /\ UNCHANGED <<streamVars, slot_queue_available, sendVars, readVars,
                 armed, fired, waitflag, bell, ringing>>

----------------------------------------------------------------------------
(* The VideoCore.                                                          *)

(* It does one thing at a time.                                            *)
VcIdle == \A e \in Events : ringing[e] = "no"

(* It waits for a free slot, and publishes a message it has written.       *)
VcSend(stride) ==
  LET at == Start(tx_pos["vc"], stride)
      id == Len(starts["vc"]) + 1
  IN  /\ Sent < MAX_MSGS /\ VcIdle
      /\ at \div SLOT_SIZE < slot_queue_recycle["vc"]
      /\ mem' = [mem EXCEPT !["vc"] =
                   WithCells("vc", WithCells("vc", Padded("vc", at), at, {Offset(at)},
                                     HeaderCell(id, stride)),
                         at, PayloadOf(at, stride), PayloadCell(id))]
      /\ starts' = [starts EXCEPT !["vc"] = Append(@, at)]
      /\ tx_pos' = [tx_pos EXCEPT !["vc"] = at + stride]
      /\ ringing' = [ringing EXCEPT !["trigger"] = "fire"]
      /\ UNCHANGED <<rx_pos, slot_queue, slot_queue_recycle, slot_queue_available,
                     sendVars, readVars, armed, fired, waitflag, bell, thread_pc>>

(* What it may take the cell at pos for.                                   *)
MayRead(pos) ==
  LET cell == Header("arm", pos) IN
  IF IsPayload(cell) THEN [id : 0..MAX_MSGS, stride : 1..SLOT_SIZE]
  ELSE IF cell.id = Garbage THEN [id : 0..MAX_MSGS, stride : {cell.stride}]
  ELSE {cell}

(* It takes the next message, whether the ARM has written it or not, and   *)
(* gives a slot back when it leaves it.  A message still being written is  *)
(* read as its place stands; if that says padding, or another length, the  *)
(* VideoCore goes on somewhere else than behind the message.               *)
VcReceive ==
  /\ ~adrift /\ rx_pos["arm"] # tx_pos["arm"] /\ VcIdle
  /\ LET id   == Len(taken["arm"]) + 1
         torn == filling = id
         at   == IF torn THEN FillingAt ELSE NextHeader("arm")
     IN  \E h \in MayRead(at) :
           LET next == at + h.stride IN
           IF torn /\ (h.id = Padding \/ next # tx_pos["arm"])
             THEN /\ adrift' = TRUE
                  /\ UNCHANGED <<taken, rx_pos, slot_queue, slot_queue_recycle, ringing>>
             ELSE /\ taken' = [taken EXCEPT !["arm"] = Append(@, [id |-> h.id, torn |-> torn])]
                  /\ rx_pos' = [rx_pos EXCEPT !["arm"] = next]
                  /\ ReleaseSlot("arm", rx_pos["arm"], next)
                  /\ ringing' = [ringing EXCEPT !["recycle"] =
                                   IF SlotAt("arm", next) = SlotAt("arm", rx_pos["arm"])
                                     THEN "no" ELSE "fire"]
                  /\ UNCHANGED adrift
  /\ UNCHANGED <<mem, starts, tx_pos, slot_queue_available, sendVars, held,
                 armed, fired, waitflag, bell, thread_pc>>

(* It signals an event as remote_event_signal does: fired first, then the  *)
(* bell if the event is armed.                                             *)
VcFire(e) ==
  /\ ringing[e] = "fire"
  /\ fired' = [fired EXCEPT ![e] = TRUE]
  /\ ringing' = [ringing EXCEPT ![e] = "ring"]
  /\ UNCHANGED <<streamVars, slot_queue_available, sendVars, readVars,
                 armed, waitflag, bell, thread_pc>>

VcRing(e) ==
  /\ ringing[e] = "ring"
  /\ bell' = (bell \/ armed[e])
  /\ ringing' = [ringing EXCEPT ![e] = "no"]
  /\ UNCHANGED <<streamVars, slot_queue_available, sendVars, readVars,
                 armed, fired, waitflag, thread_pc>>

----------------------------------------------------------------------------
EventWait(e) ==
  \/ Resume(e)
  \/ EventSeen(e) \/ EventMissed(e) \/ Arm(e) \/ Wake(e) \/ Disarm(e) \/ Clear(e)

LoopThread == EventWait("trigger") \/ Receive \/ LoopAgain
RecycleThread == EventWait("recycle") \/ WalkSlot \/ RecycleAgain

SlotsNext ==
  \/ \E n \in Strides : Prep(n) \/ VcSend(n)
  \/ PutSize \/ PutMsgid \/ PutPayload \/ LetGo \/ VchiqIrq
  \/ LoopThread \/ RecycleThread
  \/ VcReceive
  \/ \E e \in Events : VcFire(e) \/ VcRing(e)

SlotsSpec == SlotsInit /\ [][SlotsNext]_slotsVars

(* The scheduler runs a thread that can go on, interrupts are served and   *)
(* the VideoCore finishes a signal it has begun.                           *)
SlotsFairness ==
  /\ WF_slotsVars(PutSize \/ PutMsgid \/ PutPayload) /\ WF_slotsVars(VchiqIrq)
  /\ WF_slotsVars(LoopThread) /\ WF_slotsVars(RecycleThread)
  /\ \A e \in Events : WF_slotsVars(VcFire(e) \/ VcRing(e))

----------------------------------------------------------------------------
SlotsTypeOK ==
  /\ mem \in [Sides -> [Slots -> [Offsets -> [id : Garbage..MAX_MSGS, stride : 0..SLOT_SIZE]]]]
  /\ \A s \in Sides, n \in Slots, o \in Offsets : o + mem[s][n][o].stride <= SLOT_SIZE
  /\ tx_pos \in [Sides -> Nat] /\ rx_pos \in [Sides -> Nat]
  /\ slot_queue \in [Sides -> [0..(QUEUE - 1) -> 0..SLOTS]]
  /\ slot_queue_recycle \in [Sides -> Nat] /\ slot_queue_available \in Nat
  /\ filling \in 0..MAX_MSGS /\ next_store \in {"none", "size", "msgid", "payload"}
  /\ adrift \in BOOLEAN
  /\ {armed, fired, waitflag} \subseteq [Events -> BOOLEAN]
  /\ thread_pc \in [Events -> {"ready", "test", "arm", "wait", "disarm", "clear", "work", "bug"}]
  /\ ringing \in [Events -> {"no", "fire", "ring"}]

(* vchiq_parse_rx dispatches every message of the VideoCore once and in    *)
(* order, over padding, the end of slots and the reuse of slots.           *)
ReceivedInOrder == \A i \in 1..Len(taken["vc"]) : taken["vc"][i] = i

(* The VideoCore reads the ARM's messages in order, except for one it      *)
(* reads while vchiq_handmade_prep_msg is still writing it.                *)
ReadInOrder ==
  \A i \in 1..Len(taken["arm"]) : taken["arm"][i].torn \/ taken["arm"][i].id = i

(* The header of this message, and all of its payload, are in their cells. *)
IsIntact(msg) ==
  \A o \in 0..(msg.stride - 1) :
    mem["vc"][msg.slot][Offset(msg.at) + o] =
      IF o = 0 THEN HeaderCell(msg.id, msg.stride) ELSE PayloadCell(msg.id)

(* A message that a client still points to is not overwritten, although    *)
(* vchiq_parse_rx has given its slot back (mmal_io_work_push and the       *)
(* synchronous callers keep pointers into the slot), until the VideoCore   *)
(* has used every other slot and comes back to that one.                   *)
HeldIntact ==
  \A msg \in held :
    tx_pos["vc"] <= (msg.at \div SLOT_SIZE + SLOTS) * SLOT_SIZE => IsIntact(msg)

(* The slots still to be used from the reader's on, in the order of the    *)
(* queue, are all the slots of the side, each once: vchiq_release_slot     *)
(* loses none and gives none back twice.                                   *)
SlotsConserved ==
  \A s \in Sides :
    LET ahead == (rx_pos[s] \div SLOT_SIZE)..(slot_queue_recycle[s] - 1)
    IN  {slot_queue[s][i % QUEUE] : i \in ahead} = Slots
        /\ \A i, j \in ahead :
             slot_queue[s][i % QUEUE] = slot_queue[s][j % QUEUE] => i = j

(* vchiq_prep_next_header_tx never asks for a free slot; with callers that *)
(* wait for their answers it writes only where the VideoCore has read.     *)
WritesFreeSlots ==
  tx_pos["arm"] > 0 => (tx_pos["arm"] - 1) \div SLOT_SIZE < slot_queue_recycle["arm"]

(* The headers of a slot that came back add up to the slot as long as the  *)
(* ARM has not entered it again: vchiq_process_free_queue has until then.  *)
(* A slot may come back while its last message is still being written, but *)
(* the recycle thread does not run before that is done.                    *)
WalkEndsAtSlotEnd ==
  filling = 0 =>
    \A i \in slot_queue_available..(slot_queue_recycle["arm"] - 1) :
      tx_pos["arm"] <= i * SLOT_SIZE => WalkEnds(slot_queue["arm"][i % QUEUE])

(* A signal given while its event is armed is never lost, whatever the     *)
(* thread and the interrupt do in between: the thread goes to work after   *)
(* it (vchiq_event_wait, vchiq_event_check), unless the recycle thread     *)
(* stops the system.  It says nothing of a signal given before the event   *)
(* is armed.                                                               *)
ArmedSignalServed ==
  \A e \in Events :
    (armed[e] /\ fired[e] /\ ringing[e] = "ring")
      ~> (thread_pc[e] = "work" \/ thread_pc["recycle"] = "bug")

(* Both streams are read in the order they were written, one message the   *)
(* ARM is still filling excepted, and what a client holds on to stays      *)
(* until the VideoCore comes back to its slot.                             *)
MessagesInOrder == ReceivedInOrder /\ ReadInOrder /\ HeldIntact

(* No slot is lost, written before it was given back, or walked past its   *)
(* end before it is used again (vchiq_release_slot,                        *)
(* vchiq_prep_next_header_tx, vchiq_process_free_queue).                   *)
SlotsSound == SlotsTypeOK /\ SlotsConserved /\ WritesFreeSlots /\ WalkEndsAtSlotEnd
=============================================================================
