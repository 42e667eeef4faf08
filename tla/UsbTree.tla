------------------------------ MODULE UsbTree ------------------------------
(***************************************************************************)
(* Enumeration of the USB devices (hcd.c, hcd_hub.c, root_hub.c): from the *)
(* root hub down, port by port, every device is reset, read, addressed and *)
(* configured, and hubs are enumerated in turn.  One task does all of it;  *)
(* its nested calls are a stack.                                           *)
(*                                                                         *)
(* Control transfers are requests that are answered: module UsbXfer shows  *)
(* that they are reported complete or not at all.  A step fails where the  *)
(* code can see it: a descriptor of the wrong type, a device in the wrong  *)
(* state, a reset that is not seen to end, and the two functions that      *)
(* return an uninitialised err (usb_hub_port_clear_changed without a       *)
(* change, usb_hcd_configure_class of a device that is no hub and no HID). *)
(* A device has one interface; speeds and strings are left out.            *)
(***************************************************************************)
EXTENDS Integers, Sequences, FiniteSets, SequencesExt

CONSTANTS
  DEVICE_SLOTS,         \* slots of usb_hcd_device
  PORTS,                \* ports of a hub that is plugged in
  DEPTH,                \* bound on the hubs between a device and the root hub
  Leaves,               \* devices other than hubs that may be plugged in
  MAX_RESET_RETRIES,
  MAX_FAULTS            \* bound on what goes wrong

ASSUME UsbTreeAssumption ==
  /\ DEVICE_SLOTS \in Nat \ {0} /\ PORTS \in Nat \ {0} /\ DEPTH \in Nat \ {0}
  /\ MAX_RESET_RETRIES \in Nat /\ MAX_FAULTS \in Nat
  /\ Leaves \subseteq {"hid", "mass", "other"}

Slots == 1..DEVICE_SLOTS
Ports == 0..(PORTS - 1)

(* A place on the bus: the ports on the way from the root hub, which has   *)
(* one port.                                                               *)
Root == << >>
Paths == {<<0>> \o p : p \in UNION {[1..n -> Ports] : n \in 0..(DEPTH - 1)}}

VARIABLES
  plugged,              \* what is plugged in at each place, "?" while not looked at
  answers,              \* the address at which it answers, -1 if at none
  dev,                  \* usb_hcd_device, slot by slot
  free,                 \* the free slots, the next one to be taken first
  root_hub,             \* the slot of the root hub, 0 if it is not attached
  next_address,         \* usb_hcd_unique_device_address
  calls,                \* the calls of usb_hub_enumerate_port, innermost last
  status,               \* what usb_hcd_init has come to
  failed,               \* history: the places whose enumeration failed
  faults                \* what has gone wrong so far

vars == <<plugged, answers, dev, free, root_hub, next_address, calls, status, failed, faults>>

Device(at, iface0) ==
  [state |-> "ATTACHED", address |-> 0, at |-> at, class |-> "none",
   children |-> << >>, iface0 |-> iface0]

Init ==
  /\ plugged = [p \in Paths |-> "?"]
  /\ answers = [p \in Paths |-> -1]
  /\ dev = [s \in Slots |-> Device(Root, "none")]
  /\ free = [i \in Slots |-> DEVICE_SLOTS + 1 - i]
  /\ root_hub = 0
  /\ next_address = 1
  /\ calls = << >>
  /\ status = "start"
  /\ failed = {}
  /\ faults = 0

----------------------------------------------------------------------------
(* Devices and the stack of calls.                                         *)

Frame(hub, port) ==
  [hub |-> hub, port |-> port, step |-> "alloc", dev |-> 0, retries |-> 0,
   late |-> FALSE, err |-> "ok"]

Top == calls[Len(calls)]
Path == Append(dev[Top.hub].at, Top.port)
At(step) == status = "running" /\ Top.step = step
Goto(step) == calls' = [calls EXCEPT ![Len(calls)].step = step]
PortCount(s) == IF s = root_hub THEN 1 ELSE PORTS

(* The order in which usb_hcd_deallocate_device releases a device and what *)
(* hangs below it.                                                         *)
Released(slot) ==
  LET order[n \in 0..(DEPTH + 1)] ==
        [s \in Slots |-> IF n = 0 THEN << >>
           ELSE FlattenSeq([i \in 1..Len(dev[s].children) |-> order[n - 1][dev[s].children[i]]])
                  \o <<s>>]
  IN  order[DEPTH + 1][slot]

(* The slots go back; what is not set again when a slot is taken stays.    *)
Cleared(slots) ==
  [s \in Slots |-> IF s \in slots THEN Device(Root, dev[s].iface0) ELSE dev[s]]
Deallocate(order) == free' = Reverse(order) \o free /\ dev' = Cleared(Range(order))

(* Mutant: an error leaves the device allocated.                           *)
FailsKeepsDevice(err) ==
  /\ calls' = [calls EXCEPT ![Len(calls)].step = "end", ![Len(calls)].err = err]
  /\ failed' = failed \cup {Path}
  /\ UNCHANGED <<free, dev>>

Wrong == faults < MAX_FAULTS /\ faults' = faults + 1
Fine == UNCHANGED faults

(* out_err of usb_hub_enumerate_port: the port stays enabled.              *)
Fails(err) ==
  /\ calls' = [calls EXCEPT ![Len(calls)].step = "end", ![Len(calls)].err = err]
  /\ failed' = failed \cup {Path}
  /\ Deallocate(Released(Top.dev))

----------------------------------------------------------------------------
(* usb_hcd_attach_root_hub up to the ports of the root hub.                *)
AttachRootHub ==
  LET s == Head(free) IN
  /\ status = "start"
  /\ root_hub' = s
  /\ free' = Tail(free)
  /\ dev' = [dev EXCEPT ![s] = [Device(Root, "hub") EXCEPT
               !.state = "POWERED", !.address = next_address, !.class = "hub"]]
  /\ next_address' = next_address + 1
  /\ calls' = <<Frame(s, 0)>>
  /\ status' = "running"
  /\ UNCHANGED <<plugged, answers, failed, faults>>

(* usb_hcd_allocate_device returns an error pointer when all slots are     *)
(* taken, and its caller tests for a null pointer.  The count of           *)
(* interfaces of the slot's last device is not reset.                      *)
PortAlloc ==
  /\ At("alloc")
  /\ IF free = << >>
       THEN status' = "fault" /\ UNCHANGED <<free, dev, calls>>
       ELSE /\ free' = Tail(free)
            /\ dev' = [dev EXCEPT ![Head(free)] = Device(Path, dev[Head(free)].iface0)]
            /\ calls' = [calls EXCEPT ![Len(calls)].step = "debounce",
                                      ![Len(calls)].dev = Head(free)]
            /\ UNCHANGED status
  /\ UNCHANGED <<plugged, answers, root_hub, next_address, failed, faults>>

Pluggable(p) == Leaves \cup (IF Len(p) < DEPTH THEN {"hub"} ELSE {})

(* usb_hub_port_ensure_powered: an error, nothing is connected, or         *)
(* something is.                                                           *)
Debounce ==
  /\ At("debounce")
  /\ \/ Wrong /\ Fails("error") /\ UNCHANGED plugged
     \/ /\ plugged' = [plugged EXCEPT ![Path] = "none"]
        /\ Goto("end")
        /\ Deallocate(<<Top.dev>>)
        /\ Fine /\ UNCHANGED failed
     \/ /\ \E k \in Pluggable(Path) : plugged' = [plugged EXCEPT ![Path] = k]
        /\ dev' = [dev EXCEPT ![Top.dev].state = "POWERED"]
        /\ Goto("reset1")
        /\ Fine /\ UNCHANGED <<free, failed>>
  /\ UNCHANGED <<answers, root_hub, next_address, status>>

(* usb_hub_port_reset: the device has been reset when the hub says so, and *)
(* may have been otherwise.                                                *)
PortReset(result) ==
  \E a \in {answers[Path], 0} :
    /\ result = "success" => a = 0
    /\ answers' = [answers EXCEPT ![Path] = a]

(* handle_reset_timeout: both resets are retried from the first one.       *)
ResetTimeout ==
  IF Top.retries = MAX_RESET_RETRIES
    THEN Fails("timeout")
    ELSE /\ calls' = [calls EXCEPT ![Len(calls)].step = "reset1",
                                   ![Len(calls)].retries = @ + 1,
                                   ![Len(calls)].late = @ \/ Top.step = "reset2"]
         /\ UNCHANGED <<dev, free, failed>>

Reset(step, next) ==
  /\ At(step)
  /\ \/ Wrong /\ PortReset("error") /\ Fails("error")
     \/ Wrong /\ PortReset("timeout") /\ ResetTimeout
     \/ Fine /\ PortReset("success") /\ Goto(next) /\ UNCHANGED <<dev, free, failed>>
  /\ UNCHANGED <<plugged, root_hub, next_address, status>>

FirstReset == Reset("reset1", "desc1")
SecondReset == Reset("reset2", "address")

(* Mutant: a device in the wrong state is reset and read again.            *)
FirstDescriptorAgain ==
  /\ At("desc1")
  /\ IF dev[Top.dev].state # "POWERED"
       THEN Goto("reset1") /\ UNCHANGED dev
       ELSE dev' = [dev EXCEPT ![Top.dev].state = "DEFAULT"] /\ Goto("reset2")
  /\ UNCHANGED <<plugged, answers, free, root_hub, next_address, status, failed, faults>>

(* usb_hcd_get_descriptor_first, at the default address.                   *)
FirstDescriptor ==
  /\ At("desc1")
  /\ IF dev[Top.dev].state # "POWERED"
       THEN Fails("inval")
       ELSE /\ dev' = [dev EXCEPT ![Top.dev].state = "DEFAULT"]
            /\ Goto("reset2")
            /\ UNCHANGED <<free, failed>>
  /\ UNCHANGED <<plugged, answers, root_hub, next_address, status, faults>>

(* Mutant: the host keeps using the default address.                       *)
SetAddressForgets ==
  /\ At("address")
  /\ answers' = [p \in Paths |-> IF answers[p] = 0 THEN next_address ELSE answers[p]]
  /\ next_address' = next_address + 1
  /\ dev' = [dev EXCEPT ![Top.dev].state = "ADDRESSED"]
  /\ Goto("desc2")
  /\ UNCHANGED <<plugged, free, root_hub, status, failed, faults>>

(* usb_hcd_to_addressed_state: whatever answers at the default address     *)
(* takes the new one.  The device is in state DEFAULT here, so the test of *)
(* it has one outcome.                                                     *)
SetAddress ==
  /\ At("address")
  /\ answers' = [p \in Paths |-> IF answers[p] = 0 THEN next_address ELSE answers[p]]
  /\ next_address' = next_address + 1
  /\ dev' = [dev EXCEPT ![Top.dev].state = "ADDRESSED", ![Top.dev].address = next_address]
  /\ Goto("desc2")
  /\ UNCHANGED <<plugged, free, root_hub, status, failed, faults>>

(* usb_hcd_get_descriptor_second.                                          *)
SecondDescriptor ==
  /\ At("desc2")
  /\ \/ Wrong /\ Fails("error")
     \/ Fine /\ Goto("config") /\ UNCHANGED <<dev, free, failed>>
  /\ UNCHANGED <<plugged, answers, root_hub, next_address, status>>

(* usb_hcd_parse_configuration: the interface is added behind those that   *)
(* the slot has already.                                                   *)
Parsed(d) ==
  [d EXCEPT !.iface0 = IF @ = "none" THEN plugged[Path] ELSE @,
            !.class = IF plugged[Path] = "hid" THEN "hid" ELSE @]

(* usb_hcd_to_configured_state: it fails before or after the configuration *)
(* is parsed, and stays for good in a descriptor it does not know.         *)
Configure ==
  /\ At("config")
  /\ LET parsed == Parsed(dev[Top.dev]) IN
     \/ Wrong /\ Fails("error") /\ UNCHANGED status
     \/ /\ Wrong
        /\ calls' = [calls EXCEPT ![Len(calls)].step = "end", ![Len(calls)].err = "error"]
        /\ failed' = failed \cup {Path}
        /\ free' = <<Top.dev>> \o free
        /\ dev' = [dev EXCEPT ![Top.dev] = Device(Root, parsed.iface0)]
        /\ UNCHANGED status
     \/ /\ dev' = [dev EXCEPT ![Top.dev] = [parsed EXCEPT !.state = "CONFIGURED"]]
        /\ Goto("class")
        /\ Fine /\ UNCHANGED <<free, failed, status>>
     \/ Wrong /\ plugged[Path] = "other" /\ status' = "spin" /\ UNCHANGED <<dev, free, failed, calls>>
  /\ UNCHANGED <<plugged, answers, root_hub, next_address>>

----------------------------------------------------------------------------
(* usb_hcd_configure_class.                                                *)

(* usb_hub_enumerate up to its ports.                                      *)
EnumerateHub ==
  /\ At("class") /\ plugged[Path] = "hub"
  /\ \/ Wrong /\ Fails("error")
     \/ /\ Fine
        /\ dev' = [dev EXCEPT ![Top.dev].class = "hub"]
        /\ calls' = Append(calls, Frame(Top.dev, 0))
        /\ UNCHANGED <<free, failed>>
  /\ UNCHANGED <<plugged, answers, root_hub, next_address, status>>

(* usb_hid_enumerate.                                                      *)
EnumerateHid ==
  /\ At("class") /\ dev[Top.dev].class = "hid"
  /\ Goto("report")
  /\ UNCHANGED <<plugged, answers, dev, free, root_hub, next_address, status, failed, faults>>

(* What interface 0 of the slot says, be it of this device or not.         *)
IsMass(d) == d.iface0 = "mass"

(* usb_mass_init, which prints for ever when one of its commands fails;    *)
(* its result is not returned.                                             *)
EnumerateOther ==
  /\ At("class") /\ plugged[Path] # "hub" /\ dev[Top.dev].class # "hid"
  /\ \/ Wrong /\ Fails("error") /\ UNCHANGED status
     \/ /\ Fine
        /\ dev' = [dev EXCEPT ![Top.dev].class = IF IsMass(dev[Top.dev]) THEN "mass" ELSE "none"]
        /\ Goto("report")
        /\ UNCHANGED <<free, failed, status>>
     \/ Wrong /\ IsMass(dev[Top.dev]) /\ status' = "spin" /\ UNCHANGED <<dev, free, failed, calls>>
  /\ UNCHANGED <<plugged, answers, root_hub, next_address>>

ReportToTree ==
  /\ At("report")
  /\ dev' = [dev EXCEPT ![Top.hub].children = <<Top.dev>> \o @]
  /\ Goto("end")
  /\ UNCHANGED <<plugged, answers, free, root_hub, next_address, status, failed, faults>>

----------------------------------------------------------------------------
(* usb_hub_enumerate_ports.                                                *)

LastPort == Top.port + 1 >= PortCount(Top.hub)

NextPort ==
  /\ At("end") /\ ~LastPort
  /\ calls' = [calls EXCEPT ![Len(calls)] = Frame(Top.hub, Top.port + 1)]
  /\ UNCHANGED <<plugged, answers, dev, free, root_hub, next_address, status, failed, faults>>

(* Mutant: any failure below a hub counts against it.                      *)
HubErrorAnyPort ==
  IF \E p \in failed : Len(p) = Len(Path) /\ Front(p) = Front(Path) THEN "error" ELSE "ok"

(* What the loop over the ports returns: the result of the last port.      *)
HubError == IF Top.err = "timeout" THEN "ok" ELSE Top.err

(* usb_hub_enumerate returns.                                              *)
HubDone ==
  /\ At("end") /\ LastPort /\ HubError = "ok"
  /\ IF Len(calls) = 1
       THEN calls' = << >> /\ status' = "ready"
       ELSE /\ calls' = [Front(calls) EXCEPT ![Len(calls) - 1].step = "report"]
            /\ UNCHANGED status
  /\ UNCHANGED <<plugged, answers, dev, free, root_hub, next_address, failed, faults>>

(* The hub is destroyed with everything below it.  For the root hub USB is *)
(* switched off, but the device stays.                                     *)
HubFails ==
  /\ At("end") /\ LastPort /\ HubError # "ok"
  /\ IF Len(calls) = 1
       THEN /\ Deallocate(Front(Released(root_hub)))
            /\ calls' = << >> /\ status' = "off"
            /\ UNCHANGED failed
       ELSE /\ Deallocate(Released(Top.hub))
            /\ calls' = [Front(calls) EXCEPT ![Len(calls) - 1].step = "end",
                                             ![Len(calls) - 1].err = HubError]
            /\ failed' = failed \cup {dev[Top.hub].at}
            /\ UNCHANGED status
  /\ UNCHANGED <<plugged, answers, root_hub, next_address, faults>>

Next ==
  \/ AttachRootHub
  \/ PortAlloc \/ Debounce \/ FirstReset \/ FirstDescriptor \/ SecondReset
  \/ SetAddress \/ SecondDescriptor \/ Configure
  \/ EnumerateHub \/ EnumerateHid \/ EnumerateOther \/ ReportToTree
  \/ NextPort \/ HubDone \/ HubFails

Spec == Init /\ [][Next]_vars

(* The task goes on as long as its requests are answered.                  *)
FairSpec == Spec /\ WF_vars(Next)

----------------------------------------------------------------------------
TypeOK ==
  /\ answers \in [Paths -> Int] /\ next_address \in Nat
  /\ \A s \in Slots :
       /\ dev[s].state \in {"ATTACHED", "POWERED", "DEFAULT", "ADDRESSED", "CONFIGURED"}
       /\ dev[s].class \in {"none", "hub", "hid", "mass"}
       /\ dev[s].at \in Paths \cup {Root}
       /\ Range(dev[s].children) \subseteq Slots
  /\ root_hub \in 0..DEVICE_SLOTS
  /\ \A i \in 1..Len(calls) : calls[i].retries <= MAX_RESET_RETRIES
  /\ status \in {"start", "running", "ready", "off", "fault", "spin"}

Active == {i \in 1..Len(calls) : calls[i].step \notin {"alloc", "end"}}
Enumerating == {calls[i].dev : i \in Active}
Tree == IF root_hub = 0 THEN {} ELSE Range(Released(root_hub))

(* Every slot is free, in the tree or with a call that is enumerating it   *)
(* (or below such a hub), and in one of these only: no way out of          *)
(* usb_hub_enumerate_port and usb_hub_enumerate loses a device or releases *)
(* one twice.                                                              *)
SlotsAccounted ==
  LET queues == <<free>> \o (IF root_hub = 0 THEN << >> ELSE <<Released(root_hub)>>)
                  \o [i \in 1..Len(calls) |-> IF i \in Active THEN Released(calls[i].dev) ELSE << >>]
      all == FlattenSeq(queues)
  IN  Len(all) = DEVICE_SLOTS /\ Range(all) = Slots

(* A request goes to an address at which the device it is meant for        *)
(* answers: the default address up to SET_ADDRESS, its own from then on,   *)
(* whatever resets were tried before.                                      *)
RequestReachesDevice ==
  \A i \in Active :
    calls[i].step \in {"desc1", "address", "desc2", "config", "class", "report"} =>
      answers[dev[calls[i].dev].at] = dev[calls[i].dev].address

(* As long as no enumeration has failed, one device answers at an address, *)
(* the default address included ("We allocate a unique device address").   *)
AddressUniqueUnlessFailed ==
  failed = {} =>
    \A p, q \in Paths : answers[p] = answers[q] /\ answers[p] # -1 => p = q

(* The assertion on the states of a device (HCD_ASSERT_DEVICE_STATE_CHANGE)*)
(* fails only behind a timeout of the second reset.                        *)
AssertionFailsOnlyLate ==
  calls # << >> /\ Top.step = "end" /\ Top.err = "inval" =>
    Top.late \/ \E p \in failed : Len(p) > Len(Path)

(* A device is driven as mass storage if it is one, unless an earlier      *)
(* enumeration in its slot failed (num_interfaces is not reset).           *)
ClassFits ==
  \A s \in Tree \ {root_hub} :
    /\ dev[s].class = "mass" /\ failed = {} => plugged[dev[s].at] = "mass"
    /\ dev[s].class = "hub" <=> plugged[dev[s].at] = "hub"
    /\ dev[s].class = "hid" <=> plugged[dev[s].at] = "hid"

(* When all is done, every port of a hub of the tree has been looked at,   *)
(* and a device on it is in the tree at its port or has failed.            *)
PortsAccounted ==
  status = "ready" =>
    \A p \in Paths :
      (\E h \in Tree : dev[h].class = "hub" /\ dev[h].at = Front(p) /\ Last(p) < PortCount(h)) =>
        \/ p \in failed \/ plugged[p] = "none"
        \/ Cardinality({s \in Tree : dev[s].at = p}) = 1

(* The tree, the slots and the ports agree after every failure, and in the *)
(* end each device is in the tree, as what it is, or has failed.           *)
TreeSound == TypeOK /\ SlotsAccounted /\ PortsAccounted /\ ClassFits

(* Requests reach the device they are meant for and no other, and no       *)
(* assertion on its state fails, as far as earlier failures and late       *)
(* resets allow.                                                           *)
RequestsSound ==
  RequestReachesDevice /\ AddressUniqueUnlessFailed /\ AssertionFailsOnlyLate

(* A device that was added to its hub is lost only when the last port of a *)
(* hub above it fails: a failure of any other port is forgotten.           *)
LostByLastPortOnly ==
  [][\A s \in UNION {Range(dev[h].children) : h \in Slots} : dev'[s].at # dev[s].at =>
       /\ LastPort /\ Top.err \in {"error", "inval"}
       /\ Path \in failed]_vars

(* Enumeration ends, through any timeouts and failures.                    *)
EnumerationEnds == <>(status \notin {"start", "running"})
=============================================================================
