--------------------------- MODULE UsbMassProofs ---------------------------
(***************************************************************************)
(* OkIsTrue of UsbMass for any number of channels, packets, reads and      *)
(* faults: what usb_cbw_transfer reports with ERR_OK is what the device    *)
(* did, although its transfers outlive it.                                 *)
(***************************************************************************)
EXTENDS UsbMass, ListTheorems

----------------------------------------------------------------------------
(* The inductive invariant.                                                *)

Statuses == {"good", "failed", "phase"}
Kinds == {"none", "cbw", "data", "csw"}
Commands == {"inquiry", "test", "sense", "capacity", "read"}
Transfers == [kind : Kinds, tag : Nat, size : Nat, got : Nat,
              state : {"idle", "active", "dead"}]
Servings == [tag : Nat, size : Nat, sent : Nat, status : Statuses]

(* The types of the variables TypeOK does not look into.                   *)
Types ==
  /\ cmd \in Commands
  /\ chan \in [Channels -> Transfers]
  /\ completed \in BOOLEAN /\ finished \in BOOLEAN /\ stray \in BOOLEAN
  /\ dst \in [1..PACKETS -> [tag : Nat, packet : Nat]]
  /\ csw \in [tag : Nat, status : Statuses]
  /\ serving \in Servings
  /\ ret \in {"none", "ok", "retry"}
  /\ phase \in {"ready", "data", "status"}

IsActive(h, k) == chan[h].state = "active" /\ chan[h].kind = k

(* Where the task is, and what is bounded there.                           *)
HostSound ==
  /\ host \in {"setup", "hung"} \/ tag > 0
  /\ host \in {"data", "data_read"} => cmd # "test"
  /\ host = "returned" => ret \in {"ok", "retry"}
  /\ host # "end" => reads < MAX_READS
  /\ host = "setup" => cmd = "inquiry"

(* Nothing is of a later command than the one under way, and what is of    *)
(* this one has its size.  A transfer that reads data has room left.       *)
TagsSound ==
  /\ csw.tag <= tag
  /\ serving.tag <= tag
  /\ serving.tag = tag /\ phase # "ready" => serving.size = SizeOf(cmd)
  /\ phase = "data" => serving.sent < serving.size
  /\ \A h \in Channels :
       /\ chan[h].tag <= tag
       /\ IsActive(h, "cbw") /\ chan[h].tag = tag => chan[h].size = SizeOf(cmd)
       /\ IsActive(h, "data") => chan[h].got < chan[h].size
       /\ ~IsActive(h, "data") => chan[h].got = 0

(* A status with the tag of this command was sent by the device for it.    *)
StatusIsSent == csw.tag = tag /\ tag > 0 => finished

TypeInv == TypeOK /\ Types /\ HostSound /\ TagsSound
FinishedInv == StatusIsSent /\ OkMeansFinished

(* The first two commands are served alone: usb_mass_init stops when one   *)
(* of them fails, so neither leaves a wrapper behind when it goes on.      *)
FirstServedAlone ==
  cmd \in {"inquiry", "test"} =>
    /\ host \in {"setup", "cbw"} =>
         phase = "ready" /\ ~finished /\ \A h \in Channels : ~IsActive(h, "cbw")
    /\ finished \/ phase # "ready" => \A h \in Channels : ~IsActive(h, "cbw")
    /\ finished => phase = "ready"
    /\ \A g, h \in Channels : IsActive(g, "cbw") /\ IsActive(h, "cbw") => g = h

(* Therefore no command without data is left when the later ones run: a    *)
(* good status is always preceded by data.                                 *)
LaterHaveData ==
  cmd \notin {"inquiry", "test"} =>
    /\ phase # "ready" => serving.size > 0
    /\ \A h \in Channels : IsActive(h, "cbw") => chan[h].size > 0

BeforeData == {"cbw", "cbw_sent", "data"}

(* A read that began without a stray data transfer.                        *)
CleanRead == cmd = "read" /\ ~stray

(* Its own transfer has ended, and with it all that can write to dst.      *)
DataOver == host \notin BeforeData /\ ~DataLeft

(* dst has the first n packets of this read.                               *)
Holds(n) == \A p \in 1..n : dst[p] = [tag |-> tag, packet |-> p]

Done == DataOver /\ Holds(PACKETS)

(* The only data transfer is that of this read.                            *)
OneTransfer ==
  /\ host \in BeforeData => ~DataLeft
  /\ \A h \in Channels : IsActive(h, "data") => chan[h].size = PACKETS
  /\ \A g, h \in Channels : IsActive(g, "data") /\ IsActive(h, "data") => g = h

(* While the device works on this read, its packets are in step with the   *)
(* transfer or behind it: packets of an earlier read may have come first,  *)
(* and then there is no room for all of this one.                          *)
InStep ==
  serving.tag = tag /\ phase = "data" =>
    /\ host \in BeforeData => serving.sent = 0
    /\ \A h \in Channels : IsActive(h, "data") =>
         /\ serving.sent <= chan[h].got
         /\ serving.sent = chan[h].got => Holds(serving.sent)

(* The status of this read follows its data, unless the device has halted  *)
(* its endpoint, and a good one follows all of them.                       *)
StatusAfterData ==
  /\ serving.tag = tag /\ phase = "status" =>
       (DataOver \/ "in" \in halt) /\ (serving.status = "good" => Done)
  /\ finished => DataOver

(* After a status of this read without all of its data no good one can     *)
(* come, not even that of another command.                                 *)
NoLateGood ==
  /\ csw.tag = tag /\ csw.status = "good" => Done
  /\ finished /\ ~Done => ~(phase = "status" /\ serving.status = "good")
  /\ host = "returned" /\ ret = "ok" /\ csw.status = "good" => Done

ReadInv == CleanRead => OneTransfer /\ InStep /\ StatusAfterData /\ NoLateGood

IInv == TypeInv /\ FinishedInv /\ FirstServedAlone /\ LaterHaveData /\ ReadInv

----------------------------------------------------------------------------
(* Sizes of commands, and what the actions do to the channels.             *)

USE UsbMassAssumption DEF Channels, NoChannel

(* Only TEST UNIT READY has no data.                                       *)
LEMMA Sizes ==
  ASSUME NEW c \in Commands
  PROVE  /\ SizeOf(c) \in Nat
         /\ SizeOf(c) > 0 <=> c # "test"
         /\ c = "read" => SizeOf(c) = PACKETS
BY DEF SizeOf, Commands

(* The channel takes a new transfer, the others keep theirs.               *)
Posted(h, kind, size, next) ==
  /\ h \in Channels /\ chan[h].state = "idle"
  /\ chan' \in [Channels -> Transfers]
  /\ chan'[h] = [kind |-> kind, tag |-> tag, size |-> size, got |-> 0, state |-> "active"]
  /\ \A g \in Channels : g # h => chan'[g] = chan[g]
  /\ waits' = h /\ completed' = FALSE /\ host' = next

(* hcd_transfer_bulk finds a free channel or stops the kernel.             *)
LEMMA PostCases ==
  ASSUME NEW kind \in Kinds, NEW size \in Nat, NEW next, Post(kind, size, next),
         chan \in [Channels -> Transfers], tag \in Nat
  PROVE  \/ host' = "panic" /\ UNCHANGED bus
         \/ \E h \in Channels : Posted(h, kind, size, next)
<1> DEFINE used == {h \in Channels : chan[h].state # "idle"}
           free == Channels \ used
           h == CHOOSE g \in free : \A k \in free : g <= k
           new == [kind |-> kind, tag |-> tag, size |-> size, got |-> 0, state |-> "active"]
<1>1. CASE used = Channels
  BY <1>1 DEF Post
<1>2. CASE used # Channels
  <2>1. free \in SUBSET Nat /\ free # {}
    BY <1>2
  <2>2. \E g \in free : \A k \in free : g <= k
    BY <2>1, LeastNat
  <2>3. h \in free
    BY <2>2
  <2>4. h \in Channels /\ chan[h].state = "idle"
    BY <2>3
  <2>5. /\ chan' = [chan EXCEPT ![h] = new]
        /\ waits' = h /\ completed' = FALSE /\ host' = next
    BY <1>2 DEF Post
  <2>6. new \in Transfers
    BY DEF Transfers
  <2> HIDE DEF h, new
  <2>7. chan' \in [Channels -> Transfers] /\ chan'[h] = new
    BY <2>4, <2>5, <2>6
  <2>8. \A g \in Channels : g # h => chan'[g] = chan[g]
    BY <2>4, <2>5
  <2>9. Posted(h, kind, size, next)
    BY <2>4, <2>5, <2>7, <2>8 DEF Posted, new
  <2> QED BY <2>4, <2>9
<1> QED BY <1>1, <1>2

(* The channel has no transfer any more that anything can happen to.       *)
Removed(h) ==
  /\ h \in Channels
  /\ chan' \in [Channels -> Transfers]
  /\ chan'[h].kind = "none" /\ chan'[h].state # "active"
  /\ chan'[h].tag = 0 /\ chan'[h].size = 0 /\ chan'[h].got = 0
  /\ \A g \in Channels : g # h => chan'[g] = chan[g]
  /\ waits' = waits /\ completed' \in BOOLEAN

(* A finished transfer leaves its channel.                                 *)
LEMMA FinishRemoves ==
  ASSUME NEW h \in Channels, Finish(h),
         chan \in [Channels -> Transfers], completed \in BOOLEAN
  PROVE  Removed(h)
<1>1. Idle \in Transfers
  BY DEF Idle, Transfers, Kinds
<1>2. chan' = [chan EXCEPT ![h] = Idle] /\ waits' = waits /\ completed' \in BOOLEAN
  BY DEF Finish
<1>3. /\ chan' \in [Channels -> Transfers] /\ chan'[h] = Idle
      /\ \A g \in Channels : g # h => chan'[g] = chan[g]
  BY <1>1, <1>2
<1> QED BY <1>2, <1>3 DEF Removed, Idle

(* So does, for all that can happen to it, one that has died.              *)
LEMMA DieRemoves ==
  ASSUME NEW h \in Channels, Die(h),
         chan \in [Channels -> Transfers], completed \in BOOLEAN
  PROVE  Removed(h) /\ completed' = completed
<1> DEFINE dead == [Idle EXCEPT !.state = "dead"]
<1>1. /\ dead \in Transfers /\ dead.kind = "none" /\ dead.state = "dead"
      /\ dead.tag = 0 /\ dead.size = 0 /\ dead.got = 0
  BY DEF Idle, Transfers, Kinds
<1>2. chan' = [chan EXCEPT ![h] = dead] /\ waits' = waits /\ completed' = completed
  BY DEF Die
<1> HIDE DEF dead
<1>3. /\ chan' \in [Channels -> Transfers] /\ chan'[h] = dead
      /\ \A g \in Channels : g # h => chan'[g] = chan[g]
  BY <1>1, <1>2
<1> QED BY <1>1, <1>2, <1>3 DEF Removed

(* The transfer has got one packet more and goes on.                       *)
Advanced(h) ==
  /\ h \in Channels
  /\ chan' \in [Channels -> Transfers]
  /\ chan'[h].kind = chan[h].kind /\ chan'[h].state = chan[h].state
  /\ chan'[h].tag = chan[h].tag /\ chan'[h].size = chan[h].size
  /\ chan'[h].got = chan[h].got + 1
  /\ \A g \in Channels : g # h => chan'[g] = chan[g]
  /\ waits' = waits /\ completed' = completed

(* A packet finishes the transfer that takes it, or is one more of it.     *)
LEMMA PacketTaken ==
  ASSUME NEW h \in Channels, SendPacket(h),
         chan \in [Channels -> Transfers], completed \in BOOLEAN
  PROVE  \/ chan[h].got + 1 = chan[h].size /\ Removed(h)
         \/ chan[h].got + 1 # chan[h].size /\ Advanced(h)
<1>1. CASE chan[h].got + 1 = chan[h].size
  BY <1>1, FinishRemoves DEF SendPacket
<1>2. CASE chan[h].got + 1 # chan[h].size
  <2>1. chan' = [chan EXCEPT ![h].got = chan[h].got + 1] /\ waits' = waits /\ completed' = completed
    BY <1>2 DEF SendPacket
  <2>2. chan[h] \in Transfers
    OBVIOUS
  <2>3. [chan[h] EXCEPT !.got = chan[h].got + 1] \in Transfers
    BY <2>2 DEF Transfers
  <2>4. chan' = [chan EXCEPT ![h] = [chan[h] EXCEPT !.got = chan[h].got + 1]]
    BY <2>1
  <2>5. /\ chan' \in [Channels -> Transfers]
        /\ chan'[h] = [chan[h] EXCEPT !.got = chan[h].got + 1]
        /\ \A g \in Channels : g # h => chan'[g] = chan[g]
    BY <2>3, <2>4
  <2>6. /\ chan'[h].kind = chan[h].kind /\ chan'[h].state = chan[h].state
        /\ chan'[h].tag = chan[h].tag /\ chan'[h].size = chan[h].size
        /\ chan'[h].got = chan[h].got + 1
    BY <2>2, <2>5 DEF Transfers
  <2> QED BY <1>2, <2>1, <2>5, <2>6 DEF Advanced
<1> QED BY <1>1, <1>2

----------------------------------------------------------------------------
(* Types, and what is bounded.                                             *)

(* All that TypeInv says of the channels, for any transfer on one.         *)
ChanSound(x, t, c) ==
  /\ x.tag <= t
  /\ x.state = "active" /\ x.kind = "cbw" /\ x.tag = t => x.size = SizeOf(c)
  /\ x.state = "active" /\ x.kind = "data" => x.got < x.size
  /\ ~(x.state = "active" /\ x.kind = "data") => x.got = 0

(* TagsSound channel by channel.                                           *)
LEMMA TagsSoundByChannel ==
  TagsSound <=>
    /\ csw.tag <= tag
    /\ serving.tag <= tag
    /\ serving.tag = tag /\ phase # "ready" => serving.size = SizeOf(cmd)
    /\ phase = "data" => serving.sent < serving.size
    /\ \A h \in Channels : ChanSound(chan[h], tag, cmd)
BY DEF TagsSound, ChanSound, IsActive

(* No transfer has got more than it has room for.                          *)
LEMMA GotFits ==
  ASSUME chan \in [Channels -> Transfers], \A h \in Channels : ChanSound(chan[h], tag, cmd)
  PROVE  \A h \in Channels : chan[h].got <= chan[h].size
<1> TAKE h \in Channels
<1>1. chan[h].got \in Nat /\ chan[h].size \in Nat
  BY DEF Transfers
<1> QED BY <1>1 DEF ChanSound

(* Init has the types.                                                     *)
LEMMA InitTypes == Init => TypeInv
<1> SUFFICES ASSUME Init PROVE TypeInv
  OBVIOUS
<1>1. Idle \in Transfers /\ Junk \in [tag : Nat, packet : Nat]
  BY DEF Idle, Junk, Transfers, Kinds
<1>2. Types
  BY <1>1 DEF Init, Types, NoStatus, Unemployed, Servings, Statuses, Commands
<1>3. HostSound
  BY DEF Init, HostSound
<1>4. TagsSound
  BY DEF Init, TagsSound, Idle, IsActive, NoStatus, Unemployed
<1>5. TypeOK
  BY DEF Init, TypeOK, Idle
<1> QED BY <1>2, <1>3, <1>4, <1>5 DEF TypeInv

(* What is left to show of TypeInv after a step, one part at a time.       *)
ScalarsOK ==
  /\ host \in {"setup", "cbw", "cbw_sent", "data", "data_read", "csw", "csw_read",
               "recover_in", "recover_out", "returned", "end", "spin", "panic", "hung"}
  /\ tag \in Nat /\ reads \in 0..MAX_READS /\ faults \in 0..MAX_FAULTS
  /\ waits \in Channels \cup {NoChannel}
  /\ halt \subseteq {"in", "out"}
StatusOK ==
  /\ csw.tag <= tag
  /\ serving.tag <= tag
  /\ serving.tag = tag /\ phase # "ready" => serving.size = SizeOf(cmd)
  /\ phase = "data" => serving.sent < serving.size
ChansOK == \A h \in Channels : ChanSound(chan[h], tag, cmd)

(* TypeInv in these parts.                                                 *)
LEMMA TypeParts == TypeInv <=> ScalarsOK /\ Types /\ HostSound /\ StatusOK /\ ChansOK
<1>1. TypeInv => ScalarsOK /\ Types /\ HostSound /\ StatusOK /\ ChansOK
  BY TagsSoundByChannel DEF TypeInv, TypeOK, ScalarsOK, StatusOK, ChansOK
<1>2. ASSUME ScalarsOK, Types, HostSound, StatusOK, ChansOK PROVE TypeInv
  <2>1. TagsSound
    BY <1>2, TagsSoundByChannel DEF StatusOK, ChansOK
  <2>2. \A h \in Channels : chan[h].got <= chan[h].size
    BY <1>2, GotFits DEF ChansOK, Types
  <2> QED BY <1>2, <2>1, <2>2 DEF TypeInv, TypeOK, ScalarsOK
<1> QED BY <1>1, <1>2

(* A new transfer is sound when its size is that of its command.           *)
LEMMA PostedSound ==
  ASSUME TypeInv, NEW h, NEW kind, NEW size \in Nat, NEW next,
         Posted(h, kind, size, next), UNCHANGED <<tag, cmd>>,
         kind = "cbw" => size = SizeOf(cmd), kind = "data" => size > 0
  PROVE  ChansOK' /\ chan' \in [Channels -> Transfers] /\ waits' \in Channels
<1>1. ChansOK /\ tag \in Nat
  BY TypeParts DEF ScalarsOK
<1>2. \A g \in Channels : ChanSound(chan'[g], tag, cmd)
  BY <1>1 DEF Posted, ChanSound, ChansOK
<1> QED BY <1>2 DEF ChansOK, Posted

(* The end of a transfer leaves the others sound.                          *)
LEMMA RemovedSound ==
  ASSUME TypeInv, NEW h, Removed(h), UNCHANGED <<tag, cmd>>
  PROVE  /\ ChansOK' /\ chan' \in [Channels -> Transfers]
         /\ waits' = waits /\ completed' \in BOOLEAN
<1>1. ChansOK /\ tag \in Nat
  BY TypeParts DEF ScalarsOK
<1>2. \A g \in Channels : ChanSound(chan'[g], tag, cmd)
  BY <1>1 DEF Removed, ChanSound, ChansOK
<1> QED BY <1>2 DEF ChansOK, Removed

(* So does a packet that is not the last one.                              *)
LEMMA AdvancedSound ==
  ASSUME TypeInv, NEW h, Advanced(h), UNCHANGED <<tag, cmd>>,
         IsActive(h, "data"), chan[h].got + 1 # chan[h].size
  PROVE  /\ ChansOK' /\ chan' \in [Channels -> Transfers]
         /\ waits' = waits /\ completed' = completed
<1>1. ChansOK /\ tag \in Nat /\ chan \in [Channels -> Transfers]
  BY TypeParts DEF ScalarsOK, Types
<1>2. chan[h].got \in Nat /\ chan[h].size \in Nat /\ ChanSound(chan[h], tag, cmd)
  BY <1>1 DEF Advanced, Transfers, ChansOK
<1>3. ChanSound(chan'[h], tag, cmd)
  BY <1>2 DEF Advanced, ChanSound, IsActive
<1>4. \A g \in Channels : ChanSound(chan'[g], tag, cmd)
  BY <1>1, <1>3 DEF Advanced, ChansOK
<1> QED BY <1>4 DEF ChansOK, Advanced

(* The next command makes every transfer one of an earlier command.        *)
LEMMA BeginSound ==
  ASSUME TypeInv, NEW c, Begin(c), UNCHANGED chan
  PROVE  ChansOK'
<1>1. ChansOK /\ tag \in Nat /\ chan \in [Channels -> Transfers]
  BY TypeParts DEF ScalarsOK, Types
<1>2. \A g \in Channels : chan[g].tag \in Nat /\ ChanSound(chan[g], tag, cmd)
  BY <1>1 DEF Transfers, ChansOK
<1>3. \A g \in Channels : ChanSound(chan[g], tag + 1, c)
  BY <1>1, <1>2 DEF ChanSound
<1> QED BY <1>3 DEF ChansOK, Begin

(* The next command is one of the five, and the types are kept when it     *)
(* begins.                                                                 *)
LEMMA BeginTypes ==
  ASSUME TypeInv, NEW c \in Commands, Begin(c),
         UNCHANGED <<bus, dst, csw, ret, phase, serving, halt, faults>>,
         reads' \in 0..MAX_READS, reads' < MAX_READS
  PROVE  TypeInv'
<1> USE TypeParts
<1>1. ChansOK'
  BY BeginSound DEF bus
<1>2. ScalarsOK'
  BY DEF ScalarsOK, Begin, bus
<1>3. Types'
  <2>1. DataLeft \in BOOLEAN
    BY Zenon DEF DataLeft
  <2>2. stray' \in BOOLEAN /\ finished' \in BOOLEAN
    BY <2>1 DEF Begin
  <2> QED BY <2>2 DEF Types, Begin, bus
<1>4. HostSound'
  BY DEF HostSound, Begin, ScalarsOK
<1>5. StatusOK'
  <2>1. csw.tag \in Nat /\ serving.tag \in Nat /\ tag \in Nat
    BY DEF ScalarsOK, Types, Servings
  <2> QED BY <2>1 DEF StatusOK, Begin
<1> QED BY <1>1, <1>2, <1>3, <1>4, <1>5, PTL

(* A transfer is begun.                                                    *)
LEMMA PostTypes ==
  ASSUME TypeInv, NEW kind \in Kinds, NEW size \in Nat, NEW next,
         Post(kind, size, next),
         UNCHANGED <<cmd, tag, dst, ret, device, stray, reads, faults>>,
         csw' = csw \/ csw' = NoStatus,
         kind = "cbw" => size = SizeOf(cmd), kind = "data" => size > 0,
         next \in {"cbw_sent", "data_read", "csw_read"}, host \notin {"setup", "hung", "end"},
         next = "data_read" => cmd # "test"
  PROVE  TypeInv'
<1> USE TypeParts
<1>1. \/ host' = "panic" /\ UNCHANGED bus
      \/ \E h \in Channels : Posted(h, kind, size, next)
  BY PostCases DEF Types, ScalarsOK
<1>2. /\ ChansOK' /\ chan' \in [Channels -> Transfers]
      /\ waits' \in Channels \cup {NoChannel} /\ completed' \in BOOLEAN
      /\ host' \in {next, "panic"}
  <2>1. CASE host' = "panic" /\ UNCHANGED bus
    BY <2>1 DEF ChansOK, bus, Types, ScalarsOK
  <2>2. ASSUME NEW h \in Channels, Posted(h, kind, size, next)
        PROVE  /\ ChansOK' /\ chan' \in [Channels -> Transfers]
               /\ waits' \in Channels \cup {NoChannel} /\ completed' \in BOOLEAN
               /\ host' \in {next, "panic"}
    BY <2>2, PostedSound DEF Posted
  <2> QED BY <1>1, <2>1, <2>2
<1>3. csw' \in [tag : Nat, status : Statuses] /\ csw'.tag <= tag
  BY DEF Types, NoStatus, Statuses, ScalarsOK, StatusOK
<1>4. ScalarsOK'
  BY <1>2 DEF ScalarsOK, device
<1>5. Types'
  BY <1>2, <1>3 DEF Types, device
<1>6. HostSound'
  BY <1>2 DEF HostSound, ScalarsOK
<1>7. StatusOK'
  BY <1>3 DEF StatusOK, device
<1> QED BY <1>2, <1>4, <1>5, <1>6, <1>7, PTL

(* The task keeps the types.                                               *)
LEMMA HostTypes == ASSUME TypeInv, Host \/ ControlHangs PROVE TypeInv'
<1> USE TypeParts
<1>1. ASSUME ControlHangs PROVE TypeInv'
  <2>1. ScalarsOK'
    BY <1>1 DEF ControlHangs, Fault, ScalarsOK, bus, device
  <2>2. HostSound'
    BY <1>1 DEF ControlHangs, HostSound
  <2>3. Types' /\ StatusOK' /\ ChansOK'
    BY <1>1 DEF ControlHangs, Types, StatusOK, ChansOK, bus, device
  <2> QED BY <2>1, <2>2, <2>3, PTL
<1>2. ASSUME Setup PROVE TypeInv'
  <2>1. "inquiry" \in Commands /\ reads \in 0..MAX_READS /\ reads < MAX_READS
    BY <1>2 DEF Setup, Commands, HostSound, ScalarsOK
  <2> QED BY <1>2, <2>1, BeginTypes DEF Setup
<1>3. ASSUME SendCbw PROVE TypeInv'
  <2>1. SizeOf(cmd) \in Nat
    BY Sizes DEF Types
  <2> QED BY <1>3, <2>1, PostTypes DEF SendCbw, Kinds
<1>4. ASSUME ReadData PROVE TypeInv'
  <2>1. SizeOf(cmd) \in Nat /\ cmd # "test" /\ SizeOf(cmd) > 0
    BY <1>4, Sizes DEF Types, ReadData, HostSound
  <2> QED BY <1>4, <2>1, PostTypes DEF ReadData, Kinds
<1>5. ASSUME ReadCsw PROVE TypeInv'
  BY <1>5, PostTypes DEF ReadCsw, Kinds
<1>6. ASSUME CbwSent \/ DataRead \/ CswRead PROVE TypeInv'
  <2>1. SizeOf(cmd) > 0 => cmd # "test"
    BY Sizes DEF Types
  <2>2. ScalarsOK'
    BY <1>6 DEF CbwSent, DataRead, CswRead, ScalarsOK, device
  <2>3. HostSound'
    BY <1>6, <2>1 DEF CbwSent, DataRead, CswRead, HostSound
  <2>4. Types' /\ StatusOK' /\ ChansOK'
    BY <1>6 DEF CbwSent, DataRead, CswRead, Types, StatusOK, ChansOK, device
  <2> QED BY <2>2, <2>3, <2>4, PTL
<1>7. ASSUME RecoverIn \/ RecoverOut PROVE TypeInv'
  <2>1. ScalarsOK'
    BY <1>7 DEF RecoverIn, RecoverOut, ScalarsOK, bus
  <2>2. HostSound'
    BY <1>7 DEF RecoverIn, RecoverOut, HostSound
  <2>3. Types' /\ StatusOK' /\ ChansOK'
    BY <1>7 DEF RecoverIn, RecoverOut, Types, StatusOK, ChansOK, bus
  <2> QED BY <2>1, <2>2, <2>3, PTL
<1>8. ASSUME NextOfInit PROVE TypeInv'
  <2>1. CASE ret = "retry" /\ cmd # "sense"
    <3>1. ScalarsOK'
      BY <1>8, <2>1 DEF NextOfInit, ScalarsOK, bus
    <3>2. HostSound'
      BY <1>8, <2>1 DEF NextOfInit, HostSound
    <3>3. Types' /\ StatusOK' /\ ChansOK'
      BY <1>8, <2>1 DEF NextOfInit, Types, StatusOK, ChansOK, bus
    <3> QED BY <3>1, <3>2, <3>3, PTL
  <2>2. CASE ~(ret = "retry" /\ cmd # "sense")
    <3>1. NextCmd \in Commands
      BY DEF NextCmd, Commands
    <3>2. reads \in 0..MAX_READS /\ reads < MAX_READS
      BY <1>8 DEF NextOfInit, HostSound, ScalarsOK
    <3>3. Begin(NextCmd) /\ UNCHANGED <<bus, dst, csw, ret, phase, serving, halt, reads, faults>>
      BY <1>8, <2>2 DEF NextOfInit
    <3> QED BY <3>1, <3>2, <3>3, BeginTypes
  <2> QED BY <2>1, <2>2
<1>9. ASSUME NextRead PROVE TypeInv'
  <2>1. reads' = reads + 1 /\ reads \in 0..MAX_READS /\ reads < MAX_READS
    BY <1>9 DEF NextRead, HostSound, ScalarsOK
  <2>2. CASE reads + 1 = MAX_READS
    <3>1. ScalarsOK'
      BY <1>9, <2>1, <2>2 DEF NextRead, ScalarsOK, bus
    <3>2. HostSound'
      BY <1>9, <2>2 DEF NextRead, HostSound
    <3>3. Types' /\ StatusOK' /\ ChansOK'
      BY <1>9, <2>2 DEF NextRead, Types, StatusOK, ChansOK, bus
    <3> QED BY <3>1, <3>2, <3>3, PTL
  <2>3. CASE reads + 1 # MAX_READS
    <3>1. "read" \in Commands /\ reads' \in 0..MAX_READS /\ reads' < MAX_READS
      BY <2>1, <2>3 DEF Commands
    <3>2. Begin("read") /\ UNCHANGED <<bus, dst, csw, ret, phase, serving, halt, faults>>
      BY <1>9, <2>3 DEF NextRead
    <3> QED BY <3>1, <3>2, BeginTypes
  <2> QED BY <2>2, <2>3
<1> QED BY <1>1, <1>2, <1>3, <1>4, <1>5, <1>6, <1>7, <1>8, <1>9 DEF Host

(* A packet put into the buffer leaves it a buffer.                        *)
LEMMA PutTypes ==
  ASSUME Types, NEW h, NEW packet \in [tag : Nat, packet : Nat], Put(h, packet)
  PROVE  dst' \in [1..PACKETS -> [tag : Nat, packet : Nat]]
BY DEF Put, Types

(* What the steps of the bus leave to show.                                *)
LEMMA BusTypesFrom ==
  ASSUME TypeInv, UNCHANGED <<host, cmd, tag, ret, stray, reads>>,
         ChansOK', chan' \in [Channels -> Transfers], waits' = waits,
         completed' \in BOOLEAN, finished' \in BOOLEAN,
         dst' \in [1..PACKETS -> [tag : Nat, packet : Nat]],
         csw' \in [tag : Nat, status : Statuses], serving' \in Servings,
         phase' \in {"ready", "data", "status"}, halt' \subseteq {"in", "out"},
         faults' \in 0..MAX_FAULTS, StatusOK'
  PROVE  TypeInv'
<1> USE TypeParts
<1>1. ScalarsOK'
  BY DEF ScalarsOK
<1>2. Types'
  BY DEF Types
<1>3. HostSound'
  BY DEF HostSound
<1> QED BY <1>1, <1>2, <1>3, PTL

(* A transfer that dies changes nothing else.                              *)
LEMMA DieTypes ==
  ASSUME TypeInv, NEW h \in Channels, Die(h),
         UNCHANGED <<host, cmd, tag, dst, csw, ret, device, stray, reads>>,
         faults' \in 0..MAX_FAULTS
  PROVE  TypeInv'
<1> USE TypeParts
<1>1. Removed(h)
  BY DieRemoves DEF Types
<1>2. /\ ChansOK' /\ chan' \in [Channels -> Transfers]
      /\ waits' = waits /\ completed' \in BOOLEAN
  BY <1>1, RemovedSound
<1>3. StatusOK'
  BY DEF StatusOK, device
<1>4. /\ finished' \in BOOLEAN /\ dst' \in [1..PACKETS -> [tag : Nat, packet : Nat]]
      /\ csw' \in [tag : Nat, status : Statuses] /\ serving' \in Servings
      /\ phase' \in {"ready", "data", "status"} /\ halt' \subseteq {"in", "out"}
  BY DEF Types, ScalarsOK, device
<1> QED BY <1>2, <1>3, <1>4, BusTypesFrom

(* A status that is sent is of this command or of an earlier one.          *)
LEMMA StatusTypes ==
  ASSUME TypeInv, NEW h \in Channels, SendStatus(h) \/ StatusAsData(h)
  PROVE  TypeInv'
<1> USE TypeParts
<1>1. Finish(h)
  BY DEF SendStatus, StatusAsData
<1>2. Removed(h)
  BY <1>1, FinishRemoves DEF Types
<1>3. UNCHANGED <<host, cmd, tag, ret, halt, stray, reads, faults>>
  BY DEF SendStatus, StatusAsData
<1>4. /\ ChansOK' /\ chan' \in [Channels -> Transfers]
      /\ waits' = waits /\ completed' \in BOOLEAN
  BY <1>2, <1>3, RemovedSound
<1>5. phase' = "ready" /\ serving' = Unemployed /\ finished' \in BOOLEAN
  BY DEF SendStatus, StatusAsData
<1>6. serving' \in Servings /\ serving'.tag = 0
  BY <1>5 DEF Unemployed, Servings, Statuses
<1>7. dst' \in [1..PACKETS -> [tag : Nat, packet : Nat]]
  <2>1. Junk \in [tag : Nat, packet : Nat]
    BY DEF Junk
  <2> QED BY <2>1, PutTypes DEF SendStatus, StatusAsData, Types
<1>8. csw' \in [tag : Nat, status : Statuses] /\ csw'.tag <= tag
  <2>1. serving.tag \in Nat /\ serving.status \in Statuses /\ serving.tag <= tag
    BY DEF Types, Servings, StatusOK
  <2>2. csw' = csw \/ csw' = [tag |-> serving.tag, status |-> serving.status]
    BY DEF SendStatus, StatusAsData
  <2> QED BY <2>1, <2>2 DEF Types, StatusOK
<1>9. StatusOK'
  BY <1>3, <1>5, <1>6, <1>8 DEF StatusOK, ScalarsOK
<1>10. halt' \subseteq {"in", "out"} /\ faults' \in 0..MAX_FAULTS
  BY <1>3 DEF ScalarsOK
<1> QED BY <1>3, <1>4, <1>5, <1>6, <1>7, <1>8, <1>9, <1>10, BusTypesFrom

(* The wrapper taken is of this command or of an earlier one.              *)
LEMMA TakeCbwTypes ==
  ASSUME TypeInv, NEW h \in Channels, TakeCbw(h)
  PROVE  TypeInv'
<1> USE TypeParts
<1>1. Removed(h)
  BY FinishRemoves DEF Types, TakeCbw
<1>2. UNCHANGED <<host, cmd, tag, dst, csw, ret, finished, stray, reads, faults>>
  BY DEF TakeCbw
<1>3. /\ ChansOK' /\ chan' \in [Channels -> Transfers]
      /\ waits' = waits /\ completed' \in BOOLEAN
  BY <1>1, <1>2, RemovedSound
<1>4. /\ serving' \in Servings /\ phase' \in {"ready", "data", "status"}
      /\ halt' \subseteq {"in", "out"} /\ serving'.tag <= tag
      /\ serving'.tag = tag /\ phase' # "ready" => serving'.size = SizeOf(cmd)
      /\ phase' = "data" => serving'.sent < serving'.size
  <2>1. /\ SizeOf(cmd) \in Nat /\ tag \in Nat /\ chan[h] \in Transfers
        /\ ChanSound(chan[h], tag, cmd) /\ IsActive(h, "cbw") /\ phase = "ready"
    BY Sizes DEF Types, ScalarsOK, ChansOK, TakeCbw, Active, IsActive
  <2>2. /\ chan[h].tag \in Nat /\ chan[h].tag <= tag /\ chan[h].size \in Nat
        /\ chan[h].tag = tag => chan[h].size = SizeOf(cmd)
    BY <2>1 DEF ChanSound, Transfers, IsActive
  <2>3. ASSUME NEW t \in Nat, NEW n \in Nat, t <= tag, t = tag => n = SizeOf(cmd),
               serving' = [tag |-> t, size |-> n, sent |-> 0, status |-> "good"],
               phase' = IF n > 0 THEN "data" ELSE "status", UNCHANGED halt
        PROVE  /\ serving' \in Servings /\ phase' \in {"ready", "data", "status"}
               /\ halt' \subseteq {"in", "out"} /\ serving'.tag <= tag
               /\ serving'.tag = tag /\ phase' # "ready" => serving'.size = SizeOf(cmd)
               /\ phase' = "data" => serving'.sent < serving'.size
    BY <2>3 DEF Servings, Statuses, ScalarsOK
  <2>4. CASE /\ serving' = [tag |-> chan[h].tag, size |-> chan[h].size, sent |-> 0, status |-> "good"]
             /\ phase' = IF chan[h].size > 0 THEN "data" ELSE "status"
             /\ UNCHANGED halt
    BY <2>2, <2>3, <2>4
  <2>5. CASE /\ serving' = [tag |-> tag, size |-> SizeOf(cmd), sent |-> 0, status |-> "good"]
             /\ phase' = IF SizeOf(cmd) > 0 THEN "data" ELSE "status"
             /\ UNCHANGED halt
    BY <2>1, <2>3, <2>5
  <2>6. CASE halt' = {"in", "out"} /\ UNCHANGED <<phase, serving>>
    BY <2>1, <2>6 DEF Types, StatusOK
  <2> QED BY <2>4, <2>5, <2>6 DEF TakeCbw
<1>5. StatusOK'
  BY <1>2, <1>4 DEF StatusOK
<1>6. /\ finished' \in BOOLEAN /\ dst' \in [1..PACKETS -> [tag : Nat, packet : Nat]]
      /\ csw' \in [tag : Nat, status : Statuses] /\ faults' \in 0..MAX_FAULTS
  BY <1>2 DEF Types, ScalarsOK
<1> QED BY <1>2, <1>3, <1>4, <1>5, <1>6, BusTypesFrom

(* What a packet does to the command that is served.                       *)
LEMMA PacketServed ==
  ASSUME TypeInv, NEW h \in Channels, SendPacket(h)
  PROVE  /\ serving' \in Servings /\ serving'.tag = serving.tag
         /\ serving'.size = serving.size /\ serving'.status = serving.status
         /\ serving'.sent = serving.sent + 1 /\ serving.sent < serving.size
         /\ phase = "data"
         /\ phase' = IF serving.sent + 1 = serving.size THEN "status" ELSE "data"
<1>1. serving \in Servings /\ phase = "data" /\ serving.sent < serving.size
  BY TypeParts DEF Types, StatusOK, SendPacket
<1>2. serving' = [serving EXCEPT !.sent = serving.sent + 1]
  BY DEF SendPacket
<1> QED BY <1>1, <1>2 DEF Servings, SendPacket

(* A packet keeps the types.                                               *)
LEMMA SendPacketTypes ==
  ASSUME TypeInv, NEW h \in Channels, SendPacket(h)
  PROVE  TypeInv'
<1> USE TypeParts
<1>1. UNCHANGED <<host, cmd, tag, csw, ret, halt, finished, stray, reads, faults>>
  BY DEF SendPacket
<1>2. IsActive(h, "data")
  BY DEF SendPacket, Active, IsActive
<1>3. /\ ChansOK' /\ chan' \in [Channels -> Transfers]
      /\ waits' = waits /\ completed' \in BOOLEAN
  <2>1. \/ chan[h].got + 1 = chan[h].size /\ Removed(h)
        \/ chan[h].got + 1 # chan[h].size /\ Advanced(h)
    BY PacketTaken DEF Types
  <2>2. CASE Removed(h)
    BY <1>1, <2>2, RemovedSound
  <2>3. CASE chan[h].got + 1 # chan[h].size /\ Advanced(h)
    BY <1>1, <1>2, <2>3, AdvancedSound DEF Types
  <2> QED BY <2>1, <2>2, <2>3
<1>4. StatusOK' /\ phase' \in {"ready", "data", "status"} /\ serving' \in Servings
  <2>1. serving.sent \in Nat /\ serving.size \in Nat
    BY DEF Types, Servings
  <2> QED BY <1>1, <2>1, PacketServed DEF StatusOK
<1>5. dst' \in [1..PACKETS -> [tag : Nat, packet : Nat]]
  <2>1. [tag |-> serving.tag, packet |-> serving.sent + 1] \in [tag : Nat, packet : Nat]
    BY DEF Types, Servings
  <2>2. Put(h, [tag |-> serving.tag, packet |-> serving.sent + 1])
    BY DEF SendPacket
  <2> QED BY <2>1, <2>2, PutTypes
<1>6. /\ finished' \in BOOLEAN /\ csw' \in [tag : Nat, status : Statuses]
      /\ halt' \subseteq {"in", "out"} /\ faults' \in 0..MAX_FAULTS
  BY <1>1 DEF Types, ScalarsOK
<1> QED BY <1>1, <1>3, <1>4, <1>5, <1>6, BusTypesFrom

(* The controller and the device keep the types.                           *)
LEMMA BusTypes == ASSUME TypeInv, Bus PROVE TypeInv'
<1> USE TypeParts
<1>1. Fault => faults' \in 0..MAX_FAULTS
  BY DEF Fault, ScalarsOK
<1>2. ASSUME EndEarly PROVE TypeInv'
  <2>1. UNCHANGED <<host, cmd, tag, dst, csw, ret, finished, stray, reads>> /\ phase' = "status"
    BY <1>2 DEF EndEarly
  <2>2. /\ serving' \in Servings /\ serving'.tag = serving.tag
        /\ serving'.size = serving.size /\ phase = "data"
    BY <1>2 DEF EndEarly, Types, Servings, Statuses
  <2>3. /\ ChansOK' /\ chan' \in [Channels -> Transfers]
        /\ waits' = waits /\ completed' \in BOOLEAN /\ halt' \subseteq {"in", "out"}
    <3>1. CASE halt' = halt \cup {"in"} /\ UNCHANGED bus
      BY <2>1, <3>1 DEF bus, ChansOK, Types, ScalarsOK
    <3>2. ASSUME NEW h \in Channels, Finish(h), UNCHANGED halt
          PROVE  /\ ChansOK' /\ chan' \in [Channels -> Transfers]
                 /\ waits' = waits /\ completed' \in BOOLEAN /\ halt' \subseteq {"in", "out"}
      <4>1. Removed(h)
        BY <3>2, FinishRemoves DEF Types
      <4> QED BY <2>1, <3>2, <4>1, RemovedSound DEF ScalarsOK
    <3> QED BY <1>2, <3>1, <3>2 DEF EndEarly
  <2>4. StatusOK'
    BY <2>1, <2>2 DEF StatusOK
  <2>5. /\ finished' \in BOOLEAN /\ dst' \in [1..PACKETS -> [tag : Nat, packet : Nat]]
        /\ csw' \in [tag : Nat, status : Statuses] /\ faults' \in 0..MAX_FAULTS
    BY <1>1, <1>2, <2>1 DEF Types, EndEarly
  <2> QED BY <2>1, <2>2, <2>3, <2>4, <2>5, BusTypesFrom
<1>3. ASSUME Outcome PROVE TypeInv'
  <2>1. UNCHANGED <<host, cmd, tag, bus, dst, csw, ret, phase, halt, finished, stray, reads>>
    BY <1>3 DEF Outcome
  <2>2. /\ serving' \in Servings /\ serving'.tag = serving.tag
        /\ serving'.size = serving.size /\ phase = "status"
    BY <1>3 DEF Outcome, Types, Servings, Statuses
  <2>3. StatusOK'
    BY <2>1, <2>2 DEF StatusOK
  <2>4. ChansOK' /\ chan' \in [Channels -> Transfers] /\ waits' = waits
    BY <2>1 DEF ChansOK, Types, bus
  <2>5. /\ finished' \in BOOLEAN /\ dst' \in [1..PACKETS -> [tag : Nat, packet : Nat]]
        /\ csw' \in [tag : Nat, status : Statuses] /\ completed' \in BOOLEAN
        /\ phase' \in {"ready", "data", "status"}
    BY <2>1 DEF Types, bus
  <2>6. faults' \in 0..MAX_FAULTS /\ halt' \subseteq {"in", "out"}
    BY <1>1, <1>3, <2>1 DEF Outcome, ScalarsOK
  <2> QED BY <2>1, <2>2, <2>3, <2>4, <2>5, <2>6, BusTypesFrom
<1>4. ASSUME NEW h \in Channels, Babble(h) \/ Stall(h) \/ XferError(h) PROVE TypeInv'
  <2>1. faults' \in 0..MAX_FAULTS
    BY <1>1, <1>4 DEF Babble, Stall, XferError, ScalarsOK
  <2>2. Die(h) /\ UNCHANGED <<host, cmd, tag, dst, csw, ret, device, stray, reads>>
    BY <1>4 DEF Babble, Stall, XferError
  <2> QED BY <2>1, <2>2, DieTypes
<1> QED BY <1>2, <1>3, <1>4, TakeCbwTypes, SendPacketTypes, StatusTypes DEF Bus, Serve

(* Every step keeps the types.                                             *)
LEMMA TypeStep == TypeInv /\ [Next]_vars => TypeInv'
<1> SUFFICES ASSUME TypeInv, [Next]_vars PROVE TypeInv'
  OBVIOUS
<1>1. CASE UNCHANGED vars
  BY <1>1 DEF vars, bus, device, TypeInv, TypeOK, Types, HostSound, TagsSound, IsActive
<1>2. CASE Next
  BY <1>2, HostTypes, BusTypes DEF Next
<1> QED BY <1>1, <1>2

----------------------------------------------------------------------------
(* ERR_OK is for a command whose status was sent.                          *)

(* The steps that leave the command, its status and the caller alone.      *)
LEMMA FinishedKept ==
  ASSUME FinishedInv, UNCHANGED <<tag, csw, finished>>,
         host' # "returned" \/ UNCHANGED <<host, ret>> \/ ret' = "retry"
  PROVE  FinishedInv'
BY DEF FinishedInv, StatusIsSent, OkMeansFinished

(* A new command has no status yet.                                        *)
LEMMA FinishedBegun ==
  ASSUME TypeInv, NEW c, Begin(c), UNCHANGED csw
  PROVE  FinishedInv'
<1>1. csw.tag \in Nat /\ tag \in Nat /\ csw.tag <= tag
  BY TypeParts DEF Types, ScalarsOK, StatusOK
<1> QED BY <1>1 DEF Begin, FinishedInv, StatusIsSent, OkMeansFinished

(* Every step keeps FinishedInv.                                           *)
LEMMA FinishedStep == TypeInv /\ FinishedInv /\ [Next]_vars => FinishedInv'
<1> SUFFICES ASSUME TypeInv, FinishedInv, [Next]_vars PROVE FinishedInv'
  OBVIOUS
<1>1. CASE UNCHANGED vars
  BY <1>1, FinishedKept DEF vars, device
<1>2. ASSUME ControlHangs \/ RecoverIn \/ RecoverOut \/ CbwSent \/ DataRead
      PROVE  FinishedInv'
  BY <1>2, FinishedKept DEF ControlHangs, RecoverIn, RecoverOut, CbwSent, DataRead, device
<1>3. ASSUME SendCbw \/ ReadData PROVE FinishedInv'
  <2>1. host' # "returned"
    BY <1>3 DEF SendCbw, ReadData, Post
  <2> QED BY <1>3, <2>1, FinishedKept DEF SendCbw, ReadData, device
<1>4. ASSUME ReadCsw PROVE FinishedInv'
  <2>1. host' # "returned"
    BY <1>4 DEF ReadCsw, Post
  <2>2. csw'.tag = 0 /\ tag' = tag /\ tag \in Nat
    BY <1>4, TypeParts DEF ReadCsw, NoStatus, ScalarsOK
  <2> QED BY <2>1, <2>2 DEF FinishedInv, StatusIsSent, OkMeansFinished
<1>5. ASSUME CswRead PROVE FinishedInv'
  <2>1. tag > 0 /\ UNCHANGED <<tag, csw, finished>>
    BY <1>5, TypeParts DEF CswRead, HostSound, device
  <2> QED BY <1>5, <2>1 DEF CswRead, CswValid, FinishedInv, StatusIsSent, OkMeansFinished
<1>6. ASSUME Setup \/ NextOfInit \/ NextRead PROVE FinishedInv'
  <2>1. CASE \E c \in Commands : Begin(c)
    BY <1>6, <2>1, FinishedBegun DEF Setup, NextOfInit, NextRead
  <2>2. CASE host' \in {"end", "spin"} /\ UNCHANGED <<tag, finished>>
    BY <1>6, <2>2, FinishedKept DEF Setup, NextOfInit, NextRead
  <2>3. NextCmd \in Commands /\ "inquiry" \in Commands /\ "read" \in Commands
    BY DEF NextCmd, Commands
  <2> QED BY <1>6, <2>1, <2>2, <2>3 DEF Setup, NextOfInit, NextRead
<1>7. ASSUME EndEarly \/ Outcome PROVE FinishedInv'
  BY <1>7, FinishedKept DEF EndEarly, Outcome
<1>8. ASSUME NEW h \in Channels,
             TakeCbw(h) \/ SendPacket(h) \/ Babble(h) \/ Stall(h) \/ XferError(h)
      PROVE  FinishedInv'
  BY <1>8, FinishedKept DEF TakeCbw, SendPacket, Babble, Stall, XferError, device
<1>9. ASSUME NEW h \in Channels, SendStatus(h) \/ StatusAsData(h)
      PROVE  FinishedInv'
  <2>1. UNCHANGED <<host, tag, ret>>
    BY <1>9 DEF SendStatus, StatusAsData
  <2>2. finished' = (finished \/ serving.tag = tag)
    BY <1>9 DEF SendStatus, StatusAsData
  <2>3. finished => finished'
    BY <2>2
  <2>4. csw' = csw \/ csw'.tag = serving.tag
    BY <1>9 DEF SendStatus, StatusAsData
  <2> QED BY <2>1, <2>2, <2>3, <2>4 DEF FinishedInv, StatusIsSent, OkMeansFinished
<1> QED BY <1>1, <1>2, <1>3, <1>4, <1>5, <1>6, <1>7, <1>8, <1>9 DEF Next, Host, Bus, Serve

----------------------------------------------------------------------------
(* A good status is preceded by data.                                      *)

(* The two parts together, with what they say of the wrappers and of the   *)
(* device.                                                                 *)
ServedInv == FirstServedAlone /\ LaterHaveData

(* Steps that neither post a wrapper nor begin or end the service of one.  *)
LEMMA ServedKept ==
  ASSUME ServedInv, UNCHANGED <<cmd, finished>>, serving'.size = serving.size,
         phase' = "ready" <=> phase = "ready",
         host' = host \/ host' \notin {"setup", "cbw"},
         \A h \in Channels : IsActive(h, "cbw")' => IsActive(h, "cbw") /\ chan'[h].size = chan[h].size
  PROVE  ServedInv'
BY DEF ServedInv, FirstServedAlone, LaterHaveData

(* The end of a transfer adds no wrapper, nor does a packet.               *)
LEMMA NoNewCbw ==
  ASSUME NEW h, Removed(h) \/ Advanced(h) \/ UNCHANGED chan, NEW g \in Channels, IsActive(g, "cbw")'
  PROVE  IsActive(g, "cbw") /\ chan'[g].size = chan[g].size
BY DEF Removed, Advanced, IsActive

(* A command begins after one that was served, or after one of the later   *)
(* commands.                                                               *)
LEMMA ServedBegun ==
  ASSUME TypeInv, FinishedInv, ServedInv, Setup \/ NextOfInit \/ NextRead
  PROVE  ServedInv'
<1> USE TypeParts
<1>1. UNCHANGED <<chan, phase, serving>>
  BY DEF Setup, NextOfInit, NextRead, bus
<1>2. \A h \in Channels : IsActive(h, "cbw")' <=> IsActive(h, "cbw")
  BY <1>1 DEF IsActive
<1>3. CASE host' \in {"end", "spin"} /\ UNCHANGED <<cmd, finished>>
  BY <1>1, <1>2, <1>3, ServedKept DEF IsActive
<1>4. ASSUME Setup PROVE ServedInv'
  <2>1. cmd = "inquiry" /\ host = "setup"
    BY <1>4 DEF HostSound, Setup
  <2>2. phase = "ready" /\ \A h \in Channels : ~IsActive(h, "cbw")
    BY <2>1 DEF ServedInv, FirstServedAlone
  <2>3. host' = "cbw" /\ cmd' = "inquiry" /\ finished' = FALSE
    BY <1>4 DEF Setup, Begin
  <2> QED BY <1>1, <1>2, <2>2, <2>3 DEF ServedInv, FirstServedAlone, LaterHaveData
<1>5. ASSUME NextOfInit, Begin(NextCmd), ret # "retry" \/ cmd = "sense" PROVE ServedInv'
  <2>1. host' = "cbw" /\ cmd' = NextCmd /\ finished' = FALSE
    BY <1>5 DEF Begin
  <2>2. CASE cmd \in {"inquiry", "test"}
    <3>1. finished
      BY <1>5, <2>2 DEF NextOfInit, HostSound, FinishedInv, OkMeansFinished
    <3>2. phase = "ready" /\ \A h \in Channels : ~IsActive(h, "cbw")
      BY <2>2, <3>1 DEF ServedInv, FirstServedAlone
    <3> QED BY <1>1, <1>2, <2>1, <3>2 DEF ServedInv, FirstServedAlone, LaterHaveData
  <2>3. CASE cmd \notin {"inquiry", "test"}
    <3>1. cmd' \notin {"inquiry", "test"}
      BY <2>1, <2>3 DEF NextCmd
    <3> QED BY <1>1, <1>2, <2>3, <3>1 DEF ServedInv, FirstServedAlone, LaterHaveData
  <2> QED BY <2>2, <2>3
<1>6. ASSUME NextRead, Begin("read") PROVE ServedInv'
  <2>1. cmd = "read" /\ cmd' = "read"
    BY <1>6 DEF NextRead, Begin
  <2> QED BY <1>1, <1>2, <2>1 DEF ServedInv, FirstServedAlone, LaterHaveData
<1> QED BY <1>3, <1>4, <1>5, <1>6 DEF Setup, NextOfInit, NextRead

(* A wrapper is posted: the only one, if it is that of a first command.    *)
LEMMA ServedSent == ASSUME TypeInv, ServedInv, SendCbw PROVE ServedInv'
<1> USE TypeParts
<1>1. /\ UNCHANGED <<cmd, finished, phase, serving>> /\ host = "cbw"
      /\ SizeOf(cmd) \in Nat /\ (SizeOf(cmd) > 0 <=> cmd # "test")
  BY Sizes DEF SendCbw, device, Types
<1>2. \/ host' = "panic" /\ UNCHANGED bus
      \/ \E h \in Channels : Posted(h, "cbw", SizeOf(cmd), "cbw_sent")
  BY <1>1, PostCases DEF SendCbw, Kinds, Types, ScalarsOK
<1>3. CASE host' = "panic" /\ UNCHANGED bus
  BY <1>1, <1>3, ServedKept DEF bus, IsActive
<1>4. ASSUME NEW h \in Channels, Posted(h, "cbw", SizeOf(cmd), "cbw_sent")
      PROVE  ServedInv'
  <2>1. \A g \in Channels : g # h => (IsActive(g, "cbw")' <=> IsActive(g, "cbw")) /\ chan'[g].size = chan[g].size
    BY <1>4 DEF Posted, IsActive
  <2>2. host' = "cbw_sent" /\ chan'[h].size = SizeOf(cmd)
    BY <1>4 DEF Posted
  <2>3. CASE cmd \in {"inquiry", "test"}
    BY <1>1, <2>1, <2>2, <2>3 DEF ServedInv, FirstServedAlone, LaterHaveData
  <2>4. CASE cmd \notin {"inquiry", "test"}
    BY <1>1, <2>1, <2>2, <2>4 DEF ServedInv, FirstServedAlone, LaterHaveData
  <2> QED BY <2>3, <2>4
<1> QED BY <1>2, <1>3, <1>4

(* A wrapper is taken.                                                     *)
LEMMA ServedTaken ==
  ASSUME TypeInv, ServedInv, NEW h \in Channels, TakeCbw(h)
  PROVE  ServedInv'
<1> USE TypeParts
<1>1. UNCHANGED <<host, cmd, finished>> /\ IsActive(h, "cbw") /\ phase = "ready"
  BY DEF TakeCbw, Active, IsActive
<1>2. Removed(h)
  BY FinishRemoves DEF Types, TakeCbw
<1>3. /\ ~IsActive(h, "cbw")'
      /\ \A g \in Channels : IsActive(g, "cbw")' => g # h /\ IsActive(g, "cbw") /\ chan'[g].size = chan[g].size
  BY <1>2 DEF Removed, IsActive
<1>4. CASE cmd \in {"inquiry", "test"}
  <2>1. /\ host \notin {"setup", "cbw"} /\ ~finished
        /\ \A g \in Channels : IsActive(g, "cbw") => g = h
    BY <1>1, <1>4 DEF ServedInv, FirstServedAlone
  <2>2. \A g \in Channels : ~IsActive(g, "cbw")'
    BY <1>3, <2>1
  <2> QED BY <1>1, <1>4, <2>1, <2>2 DEF ServedInv, FirstServedAlone, LaterHaveData
<1>5. CASE cmd \notin {"inquiry", "test"}
  <2>1. chan[h].size > 0 /\ SizeOf(cmd) > 0
    BY <1>1, <1>5, Sizes DEF ServedInv, LaterHaveData, Types
  <2>2. phase' # "ready" => serving'.size > 0
    BY <1>1, <2>1 DEF TakeCbw
  <2>3. \A g \in Channels : IsActive(g, "cbw")' => chan'[g].size > 0
    BY <1>3, <1>5 DEF ServedInv, LaterHaveData
  <2> QED BY <1>1, <1>5, <2>2, <2>3 DEF ServedInv, FirstServedAlone, LaterHaveData
<1> QED BY <1>4, <1>5

(* Every step keeps ServedInv.                                             *)
LEMMA ServedStep == TypeInv /\ FinishedInv /\ ServedInv /\ [Next]_vars => ServedInv'
<1> SUFFICES ASSUME TypeInv, FinishedInv, ServedInv, [Next]_vars PROVE ServedInv'
  OBVIOUS
<1> USE TypeParts
<1>1. ASSUME \/ UNCHANGED vars
             \/ ControlHangs \/ RecoverIn \/ RecoverOut \/ CbwSent \/ DataRead \/ CswRead
      PROVE  ServedInv'
  <2>1. UNCHANGED <<cmd, finished, phase, serving, chan>>
    BY <1>1 DEF vars, bus, device, ControlHangs, RecoverIn, RecoverOut, CbwSent, DataRead, CswRead
  <2>2. host' = host \/ host' \notin {"setup", "cbw"}
    BY <1>1 DEF vars, ControlHangs, RecoverIn, RecoverOut, CbwSent, DataRead, CswRead
  <2> QED BY <2>1, <2>2, ServedKept DEF IsActive
<1>2. ASSUME NEW kind \in {"data", "csw"}, NEW size \in Nat, NEW next \in {"data_read", "csw_read"},
             Post(kind, size, next), UNCHANGED <<cmd, device>>
      PROVE  ServedInv'
  <2>1. \/ host' = "panic" /\ UNCHANGED bus
        \/ \E h \in Channels : Posted(h, kind, size, next)
    <3>1. kind \in Kinds /\ chan \in [Channels -> Transfers] /\ tag \in Nat
      BY DEF Kinds, Types, ScalarsOK
    <3> QED BY <1>2, <3>1, PostCases
  <2>2. /\ host' \notin {"setup", "cbw"}
        /\ \A g \in Channels : IsActive(g, "cbw")' => IsActive(g, "cbw") /\ chan'[g].size = chan[g].size
    <3>1. CASE host' = "panic" /\ UNCHANGED bus
      BY <3>1 DEF bus, IsActive
    <3>2. ASSUME NEW h \in Channels, Posted(h, kind, size, next)
          PROVE  /\ host' \notin {"setup", "cbw"}
                 /\ \A g \in Channels : IsActive(g, "cbw")' => IsActive(g, "cbw") /\ chan'[g].size = chan[g].size
      BY <1>2, <3>2 DEF Posted, IsActive
    <3> QED BY <2>1, <3>1, <3>2
  <2> QED BY <1>2, <2>2, ServedKept DEF device
<1>3. ASSUME ReadData \/ ReadCsw PROVE ServedInv'
  <2>1. SizeOf(cmd) \in Nat
    BY Sizes DEF Types
  <2>2. CASE ReadData
    BY <1>2, <2>1, <2>2 DEF ReadData
  <2>3. CASE ReadCsw
    BY <1>2, <2>3 DEF ReadCsw
  <2> QED BY <1>3, <2>2, <2>3
<1>4. ASSUME EndEarly \/ Outcome PROVE ServedInv'
  <2>1. /\ UNCHANGED <<host, cmd, finished>> /\ phase' # "ready" /\ phase # "ready"
        /\ serving'.size = serving.size
    BY <1>4 DEF EndEarly, Outcome, Types, Servings
  <2>2. UNCHANGED chan \/ \E h \in Channels : Removed(h)
    BY <1>4, FinishRemoves DEF EndEarly, Outcome, bus, Types
  <2>3. \A g \in Channels : IsActive(g, "cbw")' => IsActive(g, "cbw") /\ chan'[g].size = chan[g].size
    BY <2>2, NoNewCbw
  <2> QED BY <2>1, <2>3, ServedKept
<1>5. ASSUME NEW h \in Channels, SendPacket(h) PROVE ServedInv'
  <2>1. /\ UNCHANGED <<host, cmd, finished>> /\ phase' # "ready" /\ phase # "ready"
        /\ serving'.size = serving.size
    BY <1>5, PacketServed DEF SendPacket
  <2>2. Removed(h) \/ Advanced(h)
    BY <1>5, PacketTaken DEF Types
  <2> QED BY <2>1, <2>2, NoNewCbw, ServedKept
<1>6. ASSUME NEW h \in Channels, Babble(h) \/ Stall(h) \/ XferError(h) PROVE ServedInv'
  <2>1. UNCHANGED <<host, cmd, device>> /\ Die(h)
    BY <1>6 DEF Babble, Stall, XferError
  <2>2. Removed(h)
    BY <2>1, DieRemoves DEF Types
  <2> QED BY <2>1, <2>2, NoNewCbw, ServedKept DEF device
<1>7. ASSUME NEW h \in Channels, SendStatus(h) \/ StatusAsData(h) PROVE ServedInv'
  <2>1. UNCHANGED <<host, cmd>> /\ phase = "status" /\ phase' = "ready" /\ Finish(h)
    BY <1>7 DEF SendStatus, StatusAsData
  <2>2. Removed(h)
    BY <2>1, FinishRemoves DEF Types
  <2>3. \A g \in Channels : IsActive(g, "cbw")' => IsActive(g, "cbw") /\ chan'[g].size = chan[g].size
    BY <2>2, NoNewCbw
  <2> QED BY <2>1, <2>3 DEF ServedInv, FirstServedAlone, LaterHaveData
<1> QED BY <1>1, <1>3, <1>4, <1>5, <1>6, <1>7, ServedBegun, ServedSent, ServedTaken
        DEF Next, Host, Bus, Serve

----------------------------------------------------------------------------
(* A good status of a read means that its data is in the buffer.           *)

(* No data transfer is new, and those that are left are as they were.      *)
NoNewData == \A g \in Channels : IsActive(g, "data")' => IsActive(g, "data") /\ chan'[g] = chan[g]

(* Without a new data transfer what is over stays over.                    *)
LEMMA OverStaysOver ==
  ASSUME NoNewData, host' \in BeforeData => host \in BeforeData
  PROVE  /\ DataLeft' => DataLeft
         /\ DataOver => DataOver'
         /\ UNCHANGED <<dst, tag>> => (Done => Done')
<1>1. DataLeft' => DataLeft
  BY DEF NoNewData, DataLeft, IsActive
<1>2. DataOver => DataOver'
  BY <1>1 DEF DataOver
<1>3. ASSUME UNCHANGED <<dst, tag>>, Done PROVE Done'
  BY <1>2, <1>3 DEF Done, Holds
<1> QED BY <1>1, <1>2, <1>3

(* Steps that do not move the device.                                      *)
LEMMA ReadKept ==
  ASSUME ReadInv, UNCHANGED <<cmd, tag, stray, dst, serving, phase, finished>>,
         "in" \in halt => "in" \in halt',
         NoNewData, host' \in BeforeData => host \in BeforeData,
         csw' = csw \/ csw'.tag # tag,
         host' = "returned" => \/ UNCHANGED <<host, ret, csw>>
                               \/ ret' = "retry"
                               \/ UNCHANGED csw /\ csw.tag = tag
  PROVE  ReadInv'
<1> SUFFICES ASSUME CleanRead' PROVE (OneTransfer /\ InStep /\ StatusAfterData /\ NoLateGood)'
  BY DEF ReadInv
<1>1. CleanRead /\ OneTransfer /\ InStep /\ StatusAfterData /\ NoLateGood
  BY DEF ReadInv, CleanRead
<1>2. (DataLeft' => DataLeft) /\ (DataOver => DataOver') /\ (Done => Done')
  BY OverStaysOver
<1>3. OneTransfer'
  BY <1>1, <1>2 DEF OneTransfer, NoNewData
<1>4. InStep'
  BY <1>1 DEF InStep, NoNewData, Holds
<1>5. StatusAfterData'
  BY <1>1, <1>2 DEF StatusAfterData
<1>6. NoLateGood'
  BY <1>1, <1>2 DEF NoLateGood
<1> QED BY <1>3, <1>4, <1>5, <1>6

(* A new read begins with nothing of its own.                              *)
LEMMA ReadBegun ==
  ASSUME TypeInv, NEW c, Begin(c), UNCHANGED <<chan, csw, serving>>
  PROVE  ReadInv'
<1> SUFFICES ASSUME CleanRead' PROVE (OneTransfer /\ InStep /\ StatusAfterData /\ NoLateGood)'
  BY DEF ReadInv
<1>1. /\ csw.tag \in Nat /\ serving.tag \in Nat /\ tag \in Nat
      /\ csw.tag <= tag /\ serving.tag <= tag
  BY TypeParts DEF Types, Servings, ScalarsOK, StatusOK
<1>2. tag' = tag + 1 /\ host' = "cbw" /\ finished' = FALSE /\ ~DataLeft
  BY DEF Begin, CleanRead
<1>3. csw'.tag # tag' /\ serving'.tag # tag'
  BY <1>1, <1>2
<1>4. \A g \in Channels : ~IsActive(g, "data")'
  BY <1>2 DEF DataLeft, IsActive
<1>5. OneTransfer'
  BY <1>4 DEF OneTransfer, DataLeft, IsActive
<1>6. InStep' /\ StatusAfterData' /\ NoLateGood'
  BY <1>2, <1>3 DEF InStep, StatusAfterData, NoLateGood
<1> QED BY <1>5, <1>6

(* The data transfer of a read is posted.                                  *)
LEMMA ReadPosted == ASSUME TypeInv, ReadInv, ReadData PROVE ReadInv'
<1> USE TypeParts
<1>1. /\ UNCHANGED <<cmd, tag, dst, csw, ret, device, stray>> /\ host = "data"
      /\ SizeOf(cmd) \in Nat /\ (cmd = "read" => SizeOf(cmd) = PACKETS)
  BY Sizes DEF ReadData, Types
<1>2. \/ host' = "panic" /\ UNCHANGED bus
      \/ \E h \in Channels : Posted(h, "data", SizeOf(cmd), "data_read")
  BY <1>1, PostCases DEF ReadData, Kinds, Types, ScalarsOK
<1>3. CASE host' = "panic" /\ UNCHANGED bus
  <2>1. NoNewData /\ host' \notin BeforeData
    BY <1>3 DEF NoNewData, IsActive, bus, BeforeData
  <2> QED BY <1>1, <1>3, <2>1, ReadKept DEF device
<1>4. ASSUME NEW h \in Channels, Posted(h, "data", SizeOf(cmd), "data_read") PROVE ReadInv'
  <2> SUFFICES ASSUME CleanRead' PROVE (OneTransfer /\ InStep /\ StatusAfterData /\ NoLateGood)'
    BY DEF ReadInv
  <2>1. CleanRead /\ OneTransfer /\ InStep /\ StatusAfterData /\ NoLateGood
    BY <1>1 DEF ReadInv, CleanRead
  <2>2. host \in BeforeData /\ ~DataLeft /\ ~DataOver /\ ~Done
    BY <1>1, <2>1 DEF OneTransfer, BeforeData, DataOver, Done
  <2>3. host' = "data_read" /\ host' \notin BeforeData
    BY <1>4 DEF Posted, BeforeData
  <2>4. \A g \in Channels : g # h => ~IsActive(g, "data")'
    BY <1>4, <2>2 DEF Posted, DataLeft, IsActive
  <2>5. chan'[h].size = PACKETS /\ chan'[h].got = 0
    BY <1>1, <1>4, <2>1 DEF Posted, CleanRead
  <2>6. OneTransfer'
    BY <2>3, <2>4, <2>5 DEF OneTransfer
  <2>7. InStep'
    <3> SUFFICES ASSUME serving.tag = tag, phase = "data"
                 PROVE  0 <= chan'[h].got /\ (serving.sent = chan'[h].got => Holds(serving.sent)') /\ serving.sent = 0
      BY <1>1, <2>3, <2>4 DEF InStep, device
    <3>1. serving.sent = 0
      BY <2>1, <2>2 DEF InStep
    <3> QED BY <1>1, <2>5, <3>1 DEF Holds, device
  <2>8. StatusAfterData' /\ NoLateGood'
    BY <1>1, <2>1, <2>2, <2>3 DEF StatusAfterData, NoLateGood, device
  <2> QED BY <2>6, <2>7, <2>8
<1> QED BY <1>2, <1>3, <1>4

(* The task.                                                               *)
LEMMA ReadHost == ASSUME TypeInv, ReadInv, Host \/ ControlHangs PROVE ReadInv'
<1> USE TypeParts
<1>1. ASSUME ControlHangs \/ RecoverIn \/ RecoverOut \/ CbwSent \/ DataRead PROVE ReadInv'
  <2>1. UNCHANGED <<cmd, tag, stray, dst, serving, phase, finished, chan, csw>>
    BY <1>1 DEF bus, device, ControlHangs, RecoverIn, RecoverOut, CbwSent, DataRead
  <2>2. /\ "in" \in halt => "in" \in halt'
        /\ host' \in BeforeData => host \in BeforeData
        /\ host' = "returned" => ret' = "retry"
    BY <1>1 DEF device, ControlHangs, RecoverIn, RecoverOut, CbwSent, DataRead, BeforeData
  <2>3. NoNewData
    BY <2>1 DEF NoNewData, IsActive
  <2> QED BY <2>1, <2>2, <2>3, ReadKept
<1>2. ASSUME CswRead PROVE ReadInv'
  <2>1. UNCHANGED <<cmd, tag, stray, dst, serving, phase, finished, chan, csw, halt>>
    BY <1>2 DEF CswRead, device
  <2>2. host' \notin BeforeData /\ (host' = "returned" => csw.tag = tag)
    BY <1>2 DEF CswRead, CswValid, BeforeData
  <2>3. NoNewData
    BY <2>1 DEF NoNewData, IsActive
  <2> QED BY <2>1, <2>2, <2>3, ReadKept
<1>3. ASSUME NEW kind \in {"cbw", "csw"}, NEW size \in Nat, NEW next \in {"cbw_sent", "csw_read"},
             Post(kind, size, next), host = "cbw" \/ next = "csw_read", tag > 0,
             UNCHANGED <<cmd, tag, dst, ret, device, stray>>, csw' = csw \/ csw' = NoStatus
      PROVE  ReadInv'
  <2>1. kind \in Kinds /\ chan \in [Channels -> Transfers] /\ tag \in Nat
    BY DEF Kinds, Types, ScalarsOK
  <2>2. \/ host' = "panic" /\ UNCHANGED bus
        \/ \E h \in Channels : Posted(h, kind, size, next)
    BY <1>3, <2>1, PostCases
  <2>3. NoNewData /\ host' \in {"panic", next}
    <3>1. CASE host' = "panic" /\ UNCHANGED bus
      BY <3>1 DEF bus, NoNewData, IsActive
    <3>2. ASSUME NEW h \in Channels, Posted(h, kind, size, next)
          PROVE  NoNewData /\ host' \in {"panic", next}
      BY <1>3, <3>2 DEF Posted, NoNewData, IsActive
    <3> QED BY <2>2, <3>1, <3>2
  <2>4. (host' \in BeforeData => host \in BeforeData) /\ host' # "returned"
    BY <1>3, <2>3 DEF BeforeData
  <2>5. csw' = csw \/ csw'.tag # tag
    BY <1>3, <2>1 DEF NoStatus
  <2> QED BY <1>3, <2>3, <2>4, <2>5, ReadKept DEF device
<1>4. ASSUME SendCbw PROVE ReadInv'
  <2>1. SizeOf(cmd) \in Nat /\ tag > 0
    BY <1>4, Sizes DEF Types, SendCbw, HostSound
  <2> QED BY <1>3, <1>4, <2>1 DEF SendCbw
<1>5. ASSUME ReadCsw PROVE ReadInv'
  <2>1. tag > 0
    BY <1>5 DEF ReadCsw, HostSound
  <2> QED BY <1>3, <1>5, <2>1 DEF ReadCsw
<1>6. ASSUME Setup \/ NextOfInit \/ NextRead PROVE ReadInv'
  <2>1. UNCHANGED <<bus, dst, csw, ret, phase, serving, halt>>
    BY <1>6 DEF Setup, NextOfInit, NextRead
  <2>2. CASE \E c \in Commands : Begin(c)
    BY <2>1, <2>2, ReadBegun DEF bus
  <2>3. CASE host' \in {"end", "spin"} /\ UNCHANGED <<cmd, tag, stray, finished>>
    <3>1. NoNewData /\ host' \notin BeforeData
      BY <2>1, <2>3 DEF NoNewData, IsActive, bus, BeforeData
    <3> QED BY <2>1, <2>3, <3>1, ReadKept
  <2>4. NextCmd \in Commands /\ "inquiry" \in Commands /\ "read" \in Commands
    BY DEF NextCmd, Commands
  <2> QED BY <1>6, <2>2, <2>3, <2>4 DEF Setup, NextOfInit, NextRead
<1> QED BY <1>1, <1>2, <1>4, <1>5, <1>6, ReadPosted DEF Host

(* Steps of the bus that move the device: what there is to show.           *)
LEMMA ReadBusFrom ==
  ASSUME ReadInv, UNCHANGED <<host, cmd, tag, stray>>,
         CleanRead /\ OneTransfer /\ InStep /\ StatusAfterData /\ NoLateGood =>
           (OneTransfer /\ InStep /\ StatusAfterData /\ NoLateGood)'
  PROVE  ReadInv'
BY DEF ReadInv, CleanRead

(* The end of a transfer is no new one.                                    *)
LEMMA RemovedNoNew == ASSUME NEW h, Removed(h) PROVE NoNewData /\ ~IsActive(h, "data")'
BY DEF Removed, NoNewData, IsActive

(* With fewer transfers OneTransfer still holds.                           *)
LEMMA OneTransferKept ==
  ASSUME OneTransfer, NoNewData, UNCHANGED host
  PROVE  OneTransfer'
BY OverStaysOver DEF OneTransfer, NoNewData

(* Transfers that die.                                                     *)
LEMMA ReadDied ==
  ASSUME TypeInv, ReadInv, NEW h \in Channels, Babble(h) \/ Stall(h) \/ XferError(h)
  PROVE  ReadInv'
<1>1. Die(h) /\ UNCHANGED <<host, cmd, tag, dst, csw, ret, device, stray>>
  BY DEF Babble, Stall, XferError
<1>2. NoNewData
  BY <1>1, DieRemoves, RemovedNoNew, TypeParts DEF Types
<1> QED BY <1>1, <1>2, ReadKept DEF device

(* The outcome changes, never to the better.                               *)
LEMMA ReadOutcome == ASSUME TypeInv, ReadInv, Outcome PROVE ReadInv'
<1>1. UNCHANGED <<host, cmd, tag, bus, dst, csw, ret, phase, halt, finished, stray>>
  BY DEF Outcome
<1>2. serving'.tag = serving.tag /\ serving'.status # "good" /\ phase = "status"
  BY TypeParts DEF Outcome, Types, Servings
<1>3. NoNewData
  BY <1>1 DEF NoNewData, IsActive, bus
<1>4. ASSUME CleanRead, OneTransfer, InStep, StatusAfterData, NoLateGood
      PROVE  (OneTransfer /\ InStep /\ StatusAfterData /\ NoLateGood)'
  <2>1. OneTransfer'
    BY <1>1, <1>3, <1>4, OneTransferKept
  <2>2. InStep'
    BY <1>1, <1>2 DEF InStep
  <2>3. (DataOver => DataOver') /\ (Done => Done')
    BY <1>1, <1>3, OverStaysOver
  <2>4. StatusAfterData' /\ NoLateGood'
    BY <1>1, <1>2, <1>4, <2>3 DEF StatusAfterData, NoLateGood
  <2> QED BY <2>1, <2>2, <2>4
<1> QED BY <1>1, <1>4, ReadBusFrom

(* The data ends early: with it the transfer of this read, or all that the *)
(* endpoint will ever send.                                                *)
LEMMA ReadEndEarly == ASSUME TypeInv, ReadInv, EndEarly PROVE ReadInv'
<1>1. UNCHANGED <<host, cmd, tag, dst, csw, ret, finished, stray>> /\ phase' = "status"
  BY DEF EndEarly
<1>2. serving'.tag = serving.tag /\ serving'.status = "failed"
  BY TypeParts DEF EndEarly, Types, Servings
<1>3. /\ NoNewData
      /\ \/ "in" \in halt'
         \/ \E h \in Channels : IsActive(h, "data") /\ Removed(h)
  <2>1. CASE halt' = halt \cup {"in"} /\ UNCHANGED bus
    BY <2>1 DEF NoNewData, IsActive, bus
  <2>2. ASSUME NEW h \in Channels, Active(h, {"data"}), Finish(h)
        PROVE  NoNewData /\ IsActive(h, "data") /\ Removed(h)
    BY <2>2, FinishRemoves, RemovedNoNew, TypeParts DEF Types, Active, IsActive
  <2> QED BY <2>1, <2>2 DEF EndEarly
<1>4. ASSUME CleanRead, OneTransfer, InStep, StatusAfterData, NoLateGood
      PROVE  (OneTransfer /\ InStep /\ StatusAfterData /\ NoLateGood)'
  <2>1. OneTransfer'
    BY <1>1, <1>3, <1>4, OneTransferKept
  <2>2. InStep'
    BY <1>1 DEF InStep
  <2>3. (DataOver => DataOver') /\ (Done => Done')
    BY <1>1, <1>3, OverStaysOver
  <2>4. DataOver' \/ "in" \in halt'
    <3> SUFFICES ASSUME NEW h \in Channels, IsActive(h, "data"), Removed(h) PROVE DataOver'
      BY <1>3
    <3>1. \A g \in Channels : IsActive(g, "data") => g = h
      BY <1>4 DEF OneTransfer
    <3>2. \A g \in Channels : ~IsActive(g, "data")'
      BY <3>1, RemovedNoNew DEF NoNewData
    <3>3. host \notin BeforeData
      BY <1>4 DEF OneTransfer, DataLeft, IsActive
    <3> QED BY <1>1, <3>2, <3>3 DEF DataOver, DataLeft, IsActive
  <2>5. StatusAfterData' /\ NoLateGood'
    BY <1>1, <1>2, <1>4, <2>3, <2>4 DEF StatusAfterData, NoLateGood
  <2> QED BY <2>1, <2>2, <2>5
<1> QED BY <1>1, <1>4, ReadBusFrom

(* A wrapper is taken: the device starts over, and has data to send first. *)
LEMMA ReadTaken ==
  ASSUME TypeInv, ServedInv, ReadInv, NEW h \in Channels, TakeCbw(h)
  PROVE  ReadInv'
<1> USE TypeParts
<1>1. /\ UNCHANGED <<host, cmd, tag, dst, csw, ret, finished, stray>>
      /\ IsActive(h, "cbw") /\ phase = "ready"
  BY DEF TakeCbw, Active, IsActive
<1>2. NoNewData
  BY FinishRemoves, RemovedNoNew DEF Types, TakeCbw
<1>3. ASSUME CleanRead, OneTransfer, InStep, StatusAfterData, NoLateGood
      PROVE  (OneTransfer /\ InStep /\ StatusAfterData /\ NoLateGood)'
  <2>1. OneTransfer'
    BY <1>1, <1>2, <1>3, OneTransferKept
  <2>2. (DataOver => DataOver') /\ (Done => Done')
    BY <1>1, <1>2, OverStaysOver
  <2>3. chan[h].size > 0 /\ SizeOf(cmd) > 0
    BY <1>1, <1>3, Sizes DEF ServedInv, LaterHaveData, Types, CleanRead
  <2>4. phase' # "status" /\ (phase' = "data" => serving'.sent = 0)
    BY <1>1, <2>3 DEF TakeCbw
  <2>5. \A g \in Channels : IsActive(g, "data")' => chan'[g].got \in Nat
    BY <1>2 DEF NoNewData, Types, Transfers
  <2>6. InStep'
    BY <2>4, <2>5 DEF InStep, Holds
  <2>7. StatusAfterData' /\ NoLateGood'
    BY <1>1, <1>3, <2>2, <2>4 DEF StatusAfterData, NoLateGood
  <2> QED BY <2>1, <2>6, <2>7
<1> QED BY <1>1, <1>3, ReadBusFrom

(* A packet arrives in the transfer of this read.  Either the device has   *)
(* sent the packets of this read only, and the last of them finishes the   *)
(* transfer, or the transfer is finished before the device is.             *)
LEMMA ReadPacket ==
  ASSUME TypeInv, ReadInv, NEW h \in Channels, SendPacket(h)
  PROVE  ReadInv'
<1> USE TypeParts
<1> DEFINE sent == serving.sent
           got == chan[h].got
<1>1. /\ UNCHANGED <<host, cmd, tag, csw, ret, halt, finished, stray>>
      /\ IsActive(h, "data") /\ "in" \notin halt
  BY DEF SendPacket, Active, IsActive
<1>2. /\ serving'.tag = serving.tag /\ serving'.size = serving.size
      /\ serving'.status = serving.status /\ serving'.sent = sent + 1
      /\ phase = "data" /\ phase' = IF sent + 1 = serving.size THEN "status" ELSE "data"
  BY PacketServed
<1>3. \/ got + 1 = chan[h].size /\ Removed(h)
      \/ got + 1 # chan[h].size /\ Advanced(h)
  BY PacketTaken DEF Types
<1>4. ASSUME CleanRead, OneTransfer, InStep, StatusAfterData, NoLateGood
      PROVE  (OneTransfer /\ InStep /\ StatusAfterData /\ NoLateGood)'
  <2>1. /\ sent \in Nat /\ got \in Nat /\ chan[h].size = PACKETS /\ got < PACKETS
        /\ host \notin BeforeData /\ cmd = "read"
    <3>1. ChanSound(chan[h], tag, cmd) /\ chan[h] \in Transfers /\ serving \in Servings
      BY DEF ChansOK, Types
    <3>2. sent \in Nat /\ got \in Nat
      BY <3>1 DEF Transfers, Servings
    <3>3. chan[h].size = PACKETS /\ host \notin BeforeData
      BY <1>1, <1>4 DEF OneTransfer, DataLeft, IsActive
    <3> QED BY <1>1, <1>4, <3>1, <3>2, <3>3 DEF ChanSound, IsActive, CleanRead
  <2>2. DataLeft /\ ~DataOver /\ ~Done /\ ~finished
    BY <1>1, <1>4 DEF DataLeft, IsActive, DataOver, Done, StatusAfterData
  <2>3. \A g \in Channels : g # h => ~IsActive(g, "data") /\ ~IsActive(g, "data")'
    BY <1>1, <1>3, <1>4 DEF OneTransfer, Removed, Advanced, IsActive
  <2>4. dst' = [dst EXCEPT ![got + 1] = [tag |-> serving.tag, packet |-> sent + 1]]
    BY <2>1 DEF SendPacket, Put
  <2>5. serving.tag = tag => serving.size = PACKETS /\ sent <= got
    <3>1. serving.tag = tag => serving.size = SizeOf(cmd)
      BY <1>2 DEF StatusOK
    <3>2. SizeOf(cmd) = PACKETS
      BY <2>1, Sizes DEF Types
    <3> QED BY <1>1, <1>2, <1>4, <3>1, <3>2 DEF InStep
  <2>6. ASSUME serving.tag = tag, sent = got
        PROVE  \A p \in 1..(sent + 1) : dst'[p] = [tag |-> tag, packet |-> p]
    <3>1. \A p \in 1..sent : dst[p] = [tag |-> tag, packet |-> p]
      BY <1>1, <1>2, <1>4, <2>6 DEF InStep, Holds
    <3>2. dst \in [1..PACKETS -> [tag : Nat, packet : Nat]] /\ got + 1 \in 1..PACKETS
      BY <2>1 DEF Types
    <3>3. dst'[sent + 1] = [tag |-> tag, packet |-> sent + 1]
      BY <2>4, <2>6, <3>2
    <3>4. ASSUME NEW p \in 1..sent PROVE dst'[p] = [tag |-> tag, packet |-> p]
      <4>1. p # got + 1 /\ p \in 1..PACKETS
        BY <2>1, <2>6
      <4> QED BY <2>4, <3>1, <3>2, <4>1
    <3>5. \A p \in 1..(sent + 1) : p = sent + 1 \/ p \in 1..sent
      BY <2>1
    <3> QED BY <3>3, <3>4, <3>5
  <2>7. OneTransfer'
    <3>1. IsActive(h, "data")' => chan'[h].size = PACKETS
      BY <1>3, <2>1 DEF Removed, Advanced, IsActive
    <3> QED BY <1>1, <2>1, <2>3, <3>1 DEF OneTransfer
  <2>8. CASE got + 1 = PACKETS
    <3>1. Removed(h)
      BY <1>3, <2>1, <2>8
    <3>2. \A g \in Channels : ~IsActive(g, "data")'
      BY <2>3, <3>1, RemovedNoNew
    <3>3. DataOver'
      BY <1>1, <2>1, <3>2 DEF DataOver, DataLeft, IsActive
    <3>4. InStep'
      BY <1>1, <2>1, <3>2 DEF InStep
    <3>5. serving.tag = tag /\ phase' = "status" => Done'
      <4> SUFFICES ASSUME serving.tag = tag, phase' = "status" PROVE Done'
        OBVIOUS
      <4>1. sent + 1 = PACKETS
        BY <1>2, <2>5
      <4>2. sent = got
        BY <2>1, <2>8, <4>1
      <4>3. Holds(PACKETS)'
        BY <1>1, <2>6, <4>1, <4>2 DEF Holds
      <4> QED BY <3>3, <4>3 DEF Done
    <3>6. StatusAfterData' /\ NoLateGood'
      BY <1>1, <1>2, <1>4, <2>2, <3>3, <3>5 DEF StatusAfterData, NoLateGood
    <3> QED BY <2>7, <3>4, <3>6
  <2>9. CASE got + 1 # PACKETS
    <3>1. Advanced(h)
      BY <1>3, <2>1, <2>9
    <3>2. serving.tag = tag => phase' = "data"
      BY <1>2, <2>1, <2>5, <2>9
    <3>3. InStep'
      <4> SUFFICES ASSUME serving.tag = tag
                   PROVE  sent + 1 <= got + 1 /\ (sent + 1 = got + 1 => Holds(serving.sent)')
        BY <1>1, <1>2, <2>1, <2>3, <3>1 DEF InStep, Advanced, Holds
      <4>1. sent + 1 = got + 1 => sent = got
        BY <2>1
      <4> QED BY <1>1, <1>2, <2>1, <2>5, <2>6, <4>1 DEF Holds
    <3>4. StatusAfterData' /\ NoLateGood'
      BY <1>1, <1>2, <1>4, <2>2, <3>2 DEF StatusAfterData, NoLateGood
    <3> QED BY <2>7, <3>3, <3>4
  <2> QED BY <2>8, <2>9
<1> QED BY <1>1, <1>4, ReadBusFrom

(* A status is sent.  After one of this read without all of its data none  *)
(* that is good follows, whoever's it is.                                  *)
LEMMA ReadStatus ==
  ASSUME TypeInv, FinishedInv, ReadInv, NEW h \in Channels, SendStatus(h)
  PROVE  ReadInv'
<1>1. /\ UNCHANGED <<host, cmd, tag, dst, ret, halt, stray>>
      /\ "in" \notin halt /\ phase = "status" /\ phase' = "ready"
  BY DEF SendStatus
<1>2. NoNewData
  BY FinishRemoves, RemovedNoNew, TypeParts DEF Types, SendStatus
<1>3. csw' = csw \/ (csw'.tag = serving.tag /\ csw'.status = serving.status)
  BY DEF SendStatus
<1>4. finished' <=> finished \/ serving.tag = tag
  BY DEF SendStatus
<1>5. ASSUME CleanRead, OneTransfer, InStep, StatusAfterData, NoLateGood
      PROVE  (OneTransfer /\ InStep /\ StatusAfterData /\ NoLateGood)'
  <2>1. OneTransfer' /\ InStep'
    BY <1>1, <1>2, <1>5, OneTransferKept DEF InStep
  <2>2. (DataOver => DataOver') /\ (Done => Done')
    BY <1>1, <1>2, OverStaysOver
  <2>3. StatusAfterData'
    BY <1>1, <1>4, <1>5, <2>2 DEF StatusAfterData
  <2>4. csw'.tag = tag /\ csw'.status = "good" => Done
    BY <1>1, <1>3, <1>5 DEF NoLateGood, StatusAfterData
  <2>5. host = "returned" /\ ret = "ok" /\ csw'.status = "good" => Done
    BY <1>1, <1>3, <1>5 DEF NoLateGood, FinishedInv, OkMeansFinished
  <2> QED BY <1>1, <2>1, <2>2, <2>3, <2>4, <2>5 DEF NoLateGood
<1> QED BY <1>1, <1>5, ReadBusFrom

(* A status that ends the data transfer of this read is not its own.       *)
LEMMA ReadStatusAsData ==
  ASSUME TypeInv, ReadInv, NEW h \in Channels, StatusAsData(h)
  PROVE  ReadInv'
<1>1. /\ UNCHANGED <<host, cmd, tag, csw, ret, halt, stray>>
      /\ "in" \notin halt /\ phase = "status" /\ phase' = "ready" /\ IsActive(h, "data")
  BY DEF StatusAsData, Active, IsActive
<1>2. NoNewData
  BY FinishRemoves, RemovedNoNew, TypeParts DEF Types, StatusAsData
<1>3. finished' <=> finished \/ serving.tag = tag
  BY DEF StatusAsData
<1>4. ASSUME CleanRead, OneTransfer, InStep, StatusAfterData, NoLateGood
      PROVE  (OneTransfer /\ InStep /\ StatusAfterData /\ NoLateGood)'
  <2>1. OneTransfer' /\ InStep'
    BY <1>1, <1>2, <1>4, OneTransferKept DEF InStep
  <2>2. ~DataOver /\ ~Done
    BY <1>1 DEF DataOver, Done, DataLeft, IsActive
  <2>3. ~finished'
    BY <1>1, <1>3, <1>4, <2>2 DEF StatusAfterData
  <2> QED BY <1>1, <1>4, <2>1, <2>2, <2>3 DEF StatusAfterData, NoLateGood
<1> QED BY <1>1, <1>4, ReadBusFrom

(* Every step keeps ReadInv.                                               *)
LEMMA ReadStep == TypeInv /\ FinishedInv /\ ServedInv /\ ReadInv /\ [Next]_vars => ReadInv'
<1> SUFFICES ASSUME TypeInv, FinishedInv, ServedInv, ReadInv, [Next]_vars PROVE ReadInv'
  OBVIOUS
<1>1. CASE UNCHANGED vars
  <2>1. NoNewData
    BY <1>1 DEF vars, bus, NoNewData, IsActive
  <2> QED BY <1>1, <2>1, ReadKept DEF vars, device
<1>2. CASE Next
  BY <1>2, ReadHost, ReadEndEarly, ReadOutcome, ReadTaken, ReadPacket, ReadDied, ReadStatus,
     ReadStatusAsData DEF Next, Bus, Serve
<1> QED BY <1>1, <1>2

----------------------------------------------------------------------------
(* The theorem.                                                            *)

(* The inductive invariant gives what the run checks.                      *)
LEMMA InvMeans == IInv => OkIsTrue
<1> SUFFICES ASSUME IInv PROVE OkIsTrue
  OBVIOUS
<1>1. TypeOK /\ OkMeansFinished /\ dst \in [1..PACKETS -> [tag : Nat, packet : Nat]]
  BY DEF IInv, TypeInv, FinishedInv, Types
<1>2. ASSUME host = "returned", ret = "ok", cmd = "read", csw.status = "good", ~stray
      PROVE  dst = [p \in 1..PACKETS |-> [tag |-> tag, packet |-> p]]
  <2>1. Done
    BY <1>2 DEF IInv, ReadInv, CleanRead, NoLateGood
  <2> QED BY <1>1, <2>1 DEF Done, Holds
<1> QED BY <1>1, <1>2 DEF OkIsTrue, OkMeansRead

(* Init satisfies the inductive invariant.                                 *)
LEMMA InitInv == Init => IInv
<1> SUFFICES ASSUME Init PROVE IInv
  OBVIOUS
<1>1. TypeInv
  BY InitTypes
<1>2. FinishedInv
  BY DEF Init, FinishedInv, StatusIsSent, OkMeansFinished
<1>3. FirstServedAlone /\ LaterHaveData
  BY DEF Init, FirstServedAlone, LaterHaveData, IsActive, Idle
<1>4. ReadInv
  BY DEF Init, ReadInv, CleanRead
<1> QED BY <1>1, <1>2, <1>3, <1>4 DEF IInv

(* ERR_OK of usb_cbw_transfer is true for any number of channels, packets, *)
(* reads and faults: the device has sent the status of this command, and a *)
(* read with a good status has its own data in the buffer, unless a data   *)
(* transfer of an earlier one was left on the bus when it began.           *)
THEOREM OkCanBeReliedOn == Spec => []OkIsTrue
<1>1. IInv /\ [Next]_vars => IInv'
  BY TypeStep, FinishedStep, ServedStep, ReadStep DEF IInv, ServedInv
<1> QED BY InitInv, <1>1, InvMeans, PTL DEF Spec
=============================================================================
