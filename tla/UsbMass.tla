------------------------------ MODULE UsbMass ------------------------------
(***************************************************************************)
(* Commands to a USB mass storage device (hcd_mass_storage.c): the task    *)
(* that has enumerated the devices sets the device up (usb_mass_init) and  *)
(* then does the reads of display_payload (tft_lcd.c).  A command is       *)
(* three bulk transfers: the wrapper with the command (CBW), its data, and *)
(* the device's status (CSW).                                              *)
(*                                                                         *)
(* hcd_transfer_bulk returns ERR_OK when the transfer is finished and when *)
(* it gives up, and then the transfer stays on its channel: the controller *)
(* may serve it during a later command, whose buffers are at the same      *)
(* addresses.  For this reason the retry branches of usb_cbw_transfer are  *)
(* never taken.  Module UsbXfer has the inside of a transfer; here it is   *)
(* on a channel until it is finished, and for good when it has died.       *)
(* Data toggles and cache maintenance are left out, and so is WRITE(10),   *)
(* which nobody calls.                                                     *)
(***************************************************************************)
EXTENDS Integers, FiniteSets

CONSTANTS
  NUM_CHANNELS,         \* channels of the controller, 6 in the code
  PACKETS,              \* packets of a read, of READ_SIZE in the code
  MAX_READS,            \* bound on the reads of display_payload
  MAX_FAULTS            \* bound on what goes wrong on the bus

ASSUME UsbMassAssumption ==
  /\ NUM_CHANNELS \in Nat \ {0} /\ PACKETS \in Nat \ {0, 1}
  /\ MAX_READS \in Nat \ {0} /\ MAX_FAULTS \in Nat

Channels == 1..NUM_CHANNELS
NoChannel == 0

(* Tags of commands count from 1; 0 is no tag of any.                      *)
Junk == [tag |-> 0, packet |-> 0]
NoStatus == [tag |-> 0, status |-> "good"]
Unemployed == [tag |-> 0, size |-> 0, sent |-> 0, status |-> "good"]
Idle == [kind |-> "none", tag |-> 0, size |-> 0, got |-> 0, state |-> "idle"]

VARIABLES
  host,                 \* where usb_cbw_transfer or its callers are
  cmd,                  \* the command under way
  tag,                  \* its tag
  chan,                 \* the transfer on each channel
  waits,                \* the channel of the transfer waited for
  completed,            \* the flag on the stack of hcd_transfer_bulk
  dst,                  \* the packets in the buffer of the reads
  csw,                  \* struct csw status, zero before the device writes to it
  ret,                  \* what usb_cbw_transfer returned last
  phase,                \* what the device is ready for
  serving,              \* the command it works on and what it has sent
  halt,                 \* the halted endpoints
  finished,             \* history: the device has sent the status of this command
  stray,                \* history: an older data transfer was left when this one began
  reads,                \* reads done
  faults

bus == <<chan, waits, completed>>
device == <<phase, serving, halt, finished>>
vars == <<host, cmd, tag, bus, dst, csw, ret, device, stray, reads, faults>>

Init ==
  /\ host = "setup" /\ cmd = "inquiry" /\ tag = 0
  /\ chan = [h \in Channels |-> Idle] /\ waits = NoChannel /\ completed = FALSE
  /\ dst = [p \in 1..PACKETS |-> Junk] /\ csw = NoStatus /\ ret = "none"
  /\ phase = "ready" /\ serving = Unemployed
  /\ halt = {} /\ finished = FALSE
  /\ stray = FALSE /\ reads = 0 /\ faults = 0

Fault == faults < MAX_FAULTS /\ faults' = faults + 1
Stopped == host \in {"end", "spin", "panic", "hung"}

(* Packets of the data of a command.                                       *)
SizeOf(c) == CASE c = "test" -> 0 [] c = "read" -> PACKETS [] OTHER -> 1

----------------------------------------------------------------------------
(* The host.                                                               *)

(* A control transfer has no timeout: when the device does not answer it,  *)
(* or answers with a stall, the caller waits for good.                     *)
ControlHangs ==
  /\ host \in {"setup", "recover_in", "recover_out"}
  /\ Fault
  /\ host' = "hung"
  /\ UNCHANGED <<cmd, tag, bus, dst, csw, ret, device, stray, reads>>

(* A data transfer is left on the bus.                                     *)
DataLeft == \E h \in Channels : chan[h].kind = "data" /\ chan[h].state = "active"

(* The next call of usb_cbw_transfer.                                      *)
Begin(c) ==
  /\ host' = "cbw" /\ cmd' = c /\ tag' = tag + 1
  /\ stray' = DataLeft /\ finished' = FALSE

(* usb_mass_init up to its first command: usb_mass_reset and               *)
(* usb_mass_get_max_lun.                                                   *)
Setup ==
  /\ host = "setup"
  /\ Begin("inquiry")
  /\ UNCHANGED <<bus, dst, csw, ret, phase, serving, halt, reads, faults>>

(* hcd_transfer_bulk up to its wait, on the first free channel; without    *)
(* one the queue stops the kernel.                                         *)
Post(kind, size, next) ==
  LET used == {h \in Channels : chan[h].state # "idle"}
      h == CHOOSE g \in Channels \ used : \A k \in Channels \ used : g <= k
  IN  IF used = Channels
        THEN host' = "panic" /\ UNCHANGED bus
        ELSE /\ chan' = [chan EXCEPT ![h] = [kind |-> kind, tag |-> tag, size |-> size,
                                             got |-> 0, state |-> "active"]]
             /\ waits' = h /\ completed' = FALSE
             /\ host' = next

SendCbw ==
  /\ host = "cbw"
  /\ Post("cbw", SizeOf(cmd), "cbw_sent")
  /\ UNCHANGED <<cmd, tag, dst, csw, ret, device, stray, reads, faults>>

ReadData ==
  /\ host = "data"
  /\ Post("data", SizeOf(cmd), "data_read")
  /\ UNCHANGED <<cmd, tag, dst, csw, ret, device, stray, reads, faults>>

(* The status is cleared, then read.                                       *)
ReadCsw ==
  /\ host = "csw"
  /\ Post("csw", 0, "csw_read")
  /\ csw' = NoStatus
  /\ UNCHANGED <<cmd, tag, dst, ret, device, stray, reads, faults>>

(* The wait of hcd_transfer_bulk is over, be the transfer finished or not. *)
WaitOver == completed \/ waits # NoChannel

CbwSent ==
  /\ host = "cbw_sent" /\ WaitOver
  /\ host' = IF SizeOf(cmd) > 0 THEN "data" ELSE "csw"
  /\ waits' = NoChannel
  /\ UNCHANGED <<cmd, tag, chan, completed, dst, csw, ret, device, stray, reads, faults>>

DataRead ==
  /\ host = "data_read" /\ WaitOver
  /\ host' = "csw"
  /\ waits' = NoChannel
  /\ UNCHANGED <<cmd, tag, chan, completed, dst, csw, ret, device, stray, reads, faults>>

(* Mutant: the tag of the status is not compared.                          *)
CswValidAnyTag == csw.tag # 0

(* is_csw_valid: the number of bytes is always that of a status.           *)
CswValid == csw.tag = tag

(* The status is looked at; one that is not valid, not meaningful or that  *)
(* reports a phase error starts the recovery.  "phase" stands for both of  *)
(* the latter.                                                             *)
CswRead ==
  /\ host = "csw_read" /\ WaitOver
  /\ waits' = NoChannel
  /\ IF CswValid /\ csw.status # "phase"
       THEN host' = "returned" /\ ret' = "ok"
       ELSE host' = "recover_in" /\ UNCHANGED ret
  /\ UNCHANGED <<cmd, tag, chan, completed, dst, csw, device, stray, reads, faults>>

(* usb_mass_reset_recovery.  An endpoint is named by its number, without   *)
(* its direction: the request for the endpoint IN is about the endpoint    *)
(* OUT of that number, or fails if there is none (ControlHangs).           *)
RecoverIn ==
  /\ host = "recover_in"
  /\ halt' = halt \ {"out"}
  /\ host' = "recover_out"
  /\ UNCHANGED <<cmd, tag, bus, dst, csw, ret, phase, serving, finished, stray, reads, faults>>

RecoverOut ==
  /\ host = "recover_out"
  /\ halt' = halt \ {"out"}
  /\ host' = "returned" /\ ret' = "retry"
  /\ UNCHANGED <<cmd, tag, bus, dst, csw, phase, serving, finished, stray, reads, faults>>

(* The commands of usb_mass_init in their order.  The result of REQUEST    *)
(* SENSE is overwritten.                                                   *)
NextCmd ==
  CASE cmd = "inquiry" -> "test"
    [] cmd = "test" -> IF csw.status = "failed" THEN "sense" ELSE "capacity"
    [] cmd = "sense" -> "capacity"
    [] OTHER -> "read"

(* usb_mass_init goes on; an error ends in its endless loop.               *)
NextOfInit ==
  /\ host = "returned" /\ cmd # "read"
  /\ IF ret = "retry" /\ cmd # "sense"
       THEN host' = "spin" /\ UNCHANGED <<cmd, tag, stray, finished>>
       ELSE Begin(NextCmd)
  /\ UNCHANGED <<bus, dst, csw, ret, phase, serving, halt, reads, faults>>

(* display_payload copies the buffer and goes on to the next read,         *)
(* whatever this one returned.                                             *)
NextRead ==
  /\ host = "returned" /\ cmd = "read"
  /\ reads' = reads + 1
  /\ IF reads + 1 = MAX_READS
       THEN host' = "end" /\ UNCHANGED <<cmd, tag, stray, finished>>
       ELSE Begin("read")
  /\ UNCHANGED <<bus, dst, csw, ret, phase, serving, halt, faults>>

Host ==
  \/ Setup \/ SendCbw \/ CbwSent \/ ReadData \/ DataRead \/ ReadCsw \/ CswRead
  \/ RecoverIn \/ RecoverOut \/ NextOfInit \/ NextRead

----------------------------------------------------------------------------
(* The controller and the device.                                          *)

Active(h, kinds) == ~Stopped /\ chan[h].state = "active" /\ chan[h].kind \in kinds

(* Mutant: the callback of hcd_transfer_bulk sets no flag.                 *)
FinishSilently(h) ==
  chan' = [chan EXCEPT ![h] = Idle] /\ UNCHANGED <<waits, completed>>

(* The transfer on h is finished and its chain retired.  The flag that is  *)
(* set is that of the call it belongs to: one that has given up may share  *)
(* its address with the call under way.                                    *)
Finish(h) ==
  /\ chan' = [chan EXCEPT ![h] = Idle]
  /\ IF h = waits THEN completed' = TRUE
                  ELSE completed' \in {completed, TRUE}
  /\ UNCHANGED waits

(* The transfer dies: its channel is halted, nobody hears of it.           *)
Die(h) ==
  /\ chan' = [chan EXCEPT ![h] = [Idle EXCEPT !.state = "dead"]]
  /\ UNCHANGED <<waits, completed>>

(* The device takes a wrapper: the one it was sent, what has come to be at *)
(* its address since then, or something that is none, which halts both     *)
(* endpoints.                                                              *)
TakeCbw(h) ==
  /\ Active(h, {"cbw"}) /\ phase = "ready" /\ "out" \notin halt
  /\ Finish(h)
  /\ \/ \E of \in {[tag |-> chan[h].tag, size |-> chan[h].size], [tag |-> tag, size |-> SizeOf(cmd)]} :
          /\ serving' = [tag |-> of.tag, size |-> of.size, sent |-> 0, status |-> "good"]
          /\ phase' = IF of.size > 0 THEN "data" ELSE "status"
          /\ UNCHANGED halt
     \/ /\ h # waits
        /\ halt' = {"in", "out"}
        /\ UNCHANGED <<phase, serving>>
  /\ UNCHANGED <<host, cmd, tag, dst, csw, ret, finished, stray, reads, faults>>

(* The buffer is the same in all reads; those of the other commands are    *)
(* not followed.                                                           *)
Put(h, packet) ==
  dst' = IF chan[h].size = PACKETS /\ cmd = "read"
           THEN [dst EXCEPT ![chan[h].got + 1] = packet] ELSE dst

(* The device sends a packet of data to a transfer that reads data.        *)
SendPacket(h) ==
  LET sent == serving.sent + 1 IN
  /\ Active(h, {"data"}) /\ phase = "data" /\ "in" \notin halt
  /\ Put(h, [tag |-> serving.tag, packet |-> sent])
  /\ serving' = [serving EXCEPT !.sent = sent]
  /\ phase' = IF sent = serving.size THEN "status" ELSE "data"
  /\ IF chan[h].got + 1 = chan[h].size
       THEN Finish(h)
       ELSE chan' = [chan EXCEPT ![h].got = @ + 1] /\ UNCHANGED <<waits, completed>>
  /\ UNCHANGED <<host, cmd, tag, csw, ret, halt, finished, stray, reads, faults>>

(* A packet is more than a transfer that reads a status has room for.      *)
Babble(h) ==
  /\ Active(h, {"csw"}) /\ phase = "data" /\ "in" \notin halt
  /\ Die(h)
  /\ UNCHANGED <<host, cmd, tag, dst, csw, ret, device, stray, reads, faults>>

(* The data ends early: the endpoint is halted, or the last packet is a    *)
(* short one.                                                              *)
EndEarly ==
  /\ ~Stopped /\ phase = "data" /\ Fault
  /\ phase' = "status" /\ serving' = [serving EXCEPT !.status = "failed"]
  /\ \/ halt' = halt \cup {"in"} /\ UNCHANGED bus
     \/ \E h \in Channels :
          Active(h, {"data"}) /\ "in" \notin halt /\ Finish(h) /\ UNCHANGED halt
  /\ UNCHANGED <<host, cmd, tag, dst, csw, ret, finished, stray, reads>>

(* The device changes its mind about the outcome.                          *)
Outcome ==
  /\ ~Stopped /\ phase = "status" /\ serving.status = "good" /\ Fault
  /\ \E s \in {"failed", "phase"} : serving' = [serving EXCEPT !.status = s]
  /\ UNCHANGED <<host, cmd, tag, bus, dst, csw, ret, phase, halt, finished, stray, reads>>

(* The device sends its status to a transfer that reads one.  That of an   *)
(* earlier command may share its buffer with the one under way.            *)
SendStatus(h) ==
  /\ Active(h, {"csw"}) /\ phase = "status" /\ "in" \notin halt
  /\ IF chan[h].tag = tag
       THEN csw' = [tag |-> serving.tag, status |-> serving.status]
       ELSE csw' \in {csw, [tag |-> serving.tag, status |-> serving.status]}
  /\ Finish(h)
  /\ phase' = "ready" /\ serving' = Unemployed
  /\ finished' = (finished \/ serving.tag = tag)
  /\ UNCHANGED <<host, cmd, tag, dst, ret, halt, stray, reads, faults>>

(* Or to one that reads data: a short packet ends that transfer.           *)
StatusAsData(h) ==
  /\ Active(h, {"data"}) /\ phase = "status" /\ "in" \notin halt
  /\ Put(h, Junk)
  /\ Finish(h)
  /\ phase' = "ready" /\ serving' = Unemployed
  /\ finished' = (finished \/ serving.tag = tag)
  /\ UNCHANGED <<host, cmd, tag, csw, ret, halt, stray, reads, faults>>

(* A transfer on a halted endpoint is answered with a stall.               *)
Stall(h) ==
  /\ \/ Active(h, {"data", "csw"}) /\ "in" \in halt
     \/ Active(h, {"cbw"}) /\ "out" \in halt
  /\ Die(h)
  /\ UNCHANGED <<host, cmd, tag, dst, csw, ret, device, stray, reads, faults>>

(* An error on the bus.                                                    *)
XferError(h) ==
  /\ Active(h, {"cbw", "data", "csw"}) /\ Fault
  /\ Die(h)
  /\ UNCHANGED <<host, cmd, tag, dst, csw, ret, device, stray, reads>>

(* The device answers a transfer it is ready for.                          *)
Serve ==
  \E h \in Channels :
    TakeCbw(h) \/ SendPacket(h) \/ Babble(h) \/ SendStatus(h) \/ StatusAsData(h) \/ Stall(h)

Bus == EndEarly \/ Outcome \/ Serve \/ \E h \in Channels : XferError(h)

Next == Host \/ ControlHangs \/ Bus

Spec == Init /\ [][Next]_vars

(* The task goes on when it does not wait or its flag is set: the thread   *)
(* that sets it returns to the task by an exception return, which is an    *)
(* event for wfe.  The time limit of the wait is looked at after a wfe     *)
(* too, and nothing has to wake that: it may end a wait, and need not.     *)
FairSpec ==
  /\ Spec
  /\ WF_vars(Host /\ (waits = NoChannel \/ completed))
  /\ WF_vars(Serve)

----------------------------------------------------------------------------
TypeOK ==
  /\ host \in {"setup", "cbw", "cbw_sent", "data", "data_read", "csw", "csw_read",
               "recover_in", "recover_out", "returned", "end", "spin", "panic", "hung"}
  /\ tag \in Nat /\ reads \in 0..MAX_READS /\ faults \in 0..MAX_FAULTS
  /\ waits \in Channels \cup {NoChannel}
  /\ halt \subseteq {"in", "out"}
  /\ \A h \in Channels : chan[h].got <= chan[h].size

(* usb_cbw_transfer returns ERR_OK only for a command whose status the     *)
(* device has sent, although waits end early or for another transfer and   *)
(* late transfers write to the buffers of this command.                    *)
OkMeansFinished == host = "returned" /\ ret = "ok" => finished

(* A read that returned ERR_OK with a good status has filled the buffer    *)
(* with its own data, packet by packet, unless a data transfer of an       *)
(* earlier read was left on the bus when it began (hcd_transfer_bulk gives *)
(* up without stopping the transfer).                                      *)
OkMeansRead ==
  host = "returned" /\ ret = "ok" /\ cmd = "read" /\ csw.status = "good" /\ ~stray =>
    dst = [p \in 1..PACKETS |-> [tag |-> tag, packet |-> p]]

(* ERR_OK of usb_cbw_transfer can be relied on, as far as the last two     *)
(* statements say.                                                         *)
OkIsTrue == TypeOK /\ OkMeansFinished /\ OkMeansRead

(* A transfer that nobody finishes: it died, or the device is ready for    *)
(* something else.                                                         *)
Unserved(h) ==
  \/ chan[h].state = "dead"
  \/ chan[h].kind = "cbw" /\ phase # "ready"
  \/ chan[h].kind \in {"data", "csw"} /\ phase = "ready"

(* Every command ends, and all reads are done, or the task stops at a      *)
(* known place: the loop of usb_mass_init, a control transfer without an   *)
(* answer, the BUG for a missing channel, or a bulk transfer that nobody   *)
(* finishes and whose time limit of 20 seconds it sleeps through           *)
(* (hcd_transfer_bulk).                                                    *)
ReadsEnd ==
  <>Stopped \/ <>[](waits # NoChannel /\ ~completed /\ Unserved(waits))
=============================================================================
