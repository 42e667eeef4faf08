------------------------------ MODULE MCQueues -----------------------------
(* The byte ring and the slots of the VideoCore on small instances.  They  *)
(* share no variable, so one run explores both one at a time: one takes    *)
(* its steps while the other stays as it began.                            *)
EXTENDS RingBufFifo, VchiqSlots

QueuesInit == Init /\ SlotsInit

QueuesNext ==
  \/ SlotsInit /\ Next /\ UNCHANGED slotsVars
  \/ Init /\ SlotsNext /\ UNCHANGED vars

QueuesSpec == QueuesInit /\ [][QueuesNext]_<<vars, slotsVars>> /\ SlotsFairness
=============================================================================
