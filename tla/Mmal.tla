------------------------------- MODULE Mmal --------------------------------
(***************************************************************************)
(* The camera client of the VideoCore (vchiq_2835_arm.c above the slots):  *)
(* the task that connects, opens the services and runs the camera, the     *)
(* loop thread that dispatches what the VideoCore sends, and the io thread *)
(* that shows frames and hands the buffers back.                           *)
(*                                                                         *)
(* The two streams of messages are queues, which module VchiqSlots         *)
(* examines by itself.  The task's calls are a script: every function that *)
(* talks to the VideoCore is the sequence of the calls it makes, each with *)
(* what its caller does when the VideoCore answers with an error.  Formats *)
(* and parameter values are left out.  The VideoCore is external: it sends *)
(* one CONNECT, answers requests in order, may refuse any of the camera's, *)
(* fills buffers only while a capture is running, and signals every        *)
(* message it has written.                                                 *)
(***************************************************************************)
EXTENDS Integers, Sequences, FiniteSets, Lists

CONSTANTS
  NUM_BUFFERS,          \* twice minimum_buffer.num of the still port
  POOL_SIZE             \* MEMS_CONTEXT_POOL_SIZE

ASSUME MmalAssumption == NUM_BUFFERS \in Nat \ {0} /\ POOL_SIZE \in Nat \ {0}

Buffers == 1..NUM_BUFFERS
Services == {"mmal", "SMEM"}
Components == {"info", "camera"}

VARIABLES
  to_vc, to_arm,        \* the messages under way
  conn_state,           \* s->conn_state is CONNECTED
  state_waitflag,       \* s->state_waitflag
  opened,               \* service->opened
  data_callback,        \* service->data_callback is set
  at,                   \* the call of the script the task is in
  main,                 \* what the task is doing there
  answer,               \* what the context of each caller holds
  enabled,              \* c->enabled of the components
  port,                 \* enabled, zero_copy and buffers of the still port
  pool,                 \* mems_msg_context_pool
  counters,             \* mems_transaction_counter and vc_trans_id
  work,                 \* mmal_io_work_list
  work_waitflag,        \* mmal_io_work_waitflag
  io,                   \* what the io thread is doing
  loop,                 \* where the loop thread is
  fired,                \* the loop thread's event, state->local->trigger
  signal,               \* the VideoCore has yet to signal its last message
  vc                    \* what the VideoCore knows of the still port

callVars == <<conn_state, state_waitflag, opened, data_callback>>
taskVars == <<at, main, enabled, port, counters>>
ioVars == <<work, work_waitflag, io, loop>>
eventVars == <<fired, signal>>
vars == <<to_vc, to_arm, callVars, taskVars, answer, pool, ioVars, eventVars, vc>>

----------------------------------------------------------------------------
(* The script.  fail: "abort" leaves vchiq_camera_run, "ignore" goes on,   *)
(* "fault" uses the error as a pointer.                                    *)

Call(type, on, fail) == <<[type |-> type, on |-> on, fail |-> fail]>>

(* component_create: the component and its control, input and output ports.*)
component_create(c, outputs, fail) ==
  Call("COMPONENT_CREATE", c, fail)
    \o [i \in 1..(1 + outputs) |-> Call("PORT_INFO_GET", c, fail)[1]]

(* vchiq_mmal_get_cam_info: the result of component_create is not checked. *)
vchiq_mmal_get_cam_info ==
  component_create("info", 0, "fault")
    \o Call("PORT_PARAMETER_GET", "info", "abort")
    \o Call("COMPONENT_DISABLE", "info", "abort")
    \o Call("COMPONENT_DESTROY", "info", "abort")

(* mmal_set_camera_parameters looks at neither result.                     *)
mmal_set_camera_parameters ==
  Call("PORT_PARAMETER_SET", "camera", "ignore")
    \o Call("PORT_PARAMETER_GET", "camera", "ignore")

vchiq_mmal_port_set_format(p) ==
  Call("PORT_INFO_SET", p, "abort") \o Call("PORT_INFO_GET", p, "abort")

(* mmal_camera_enable does not look at the result of the second call.      *)
mmal_camera_enable ==
  Call("PORT_PARAMETER_SET", "camera", "abort") \o Call("COMPONENT_ENABLE", "camera", "ignore")

(* vchiq_mmal_port_enable asks for the port's state whether or not the     *)
(* port could be enabled, and returns the result of that.                  *)
vchiq_mmal_port_enable ==
  Call("PORT_ENABLE", "still", "ignore") \o Call("PORT_INFO_GET", "still", "abort")

(* mmal_alloc_port_buffers of a port with zero copy: every buffer is       *)
(* imported.  Nobody looks at the status in the result.                    *)
mmal_alloc_port_buffers == [b \in Buffers |-> [type |-> "IMPORT", on |-> b, fail |-> "ignore"]]

vchiq_camera_run ==
  vchiq_mmal_get_cam_info
    \o component_create("camera", 3, "abort")
    \o mmal_set_camera_parameters
    \o Call("PORT_PARAMETER_GET", "still", "abort")
    \o vchiq_mmal_port_set_format("still")
    \o vchiq_mmal_port_set_format("video")
    \o vchiq_mmal_port_set_format("preview")
    \o Call("ZERO_COPY", "still", "abort")
    \o mmal_camera_enable
    \o vchiq_mmal_port_enable
    \o mmal_alloc_port_buffers
    \o Call("SEND_ALL", "still", "abort")
    \o Call("CAPTURE", "still", "ignore")

(* vchiq_handmade after its threads have started.                          *)
Script ==
  Call("WAIT_CONNECT", "state", "ignore")
    \o Call("CONNECT", "state", "ignore")
    \o Call("OPEN", "mmal", "abort") \o Call("OPEN", "SMEM", "abort")
    \o vchiq_camera_run

Here == Script[at]

----------------------------------------------------------------------------
Init ==
  /\ to_vc = << >>
  /\ to_arm = <<[type |-> "CONNECT"]>>
  /\ conn_state = FALSE
  /\ state_waitflag = FALSE
  /\ opened = [s \in Services |-> FALSE]
  /\ data_callback = [s \in Services |-> FALSE]
  /\ at = 1
  /\ main = "call"
  /\ answer = [t \in {"main", "io"} |-> "none"]
  /\ enabled = [c \in Components |-> FALSE]
  /\ port = [enabled |-> FALSE, zero_copy |-> FALSE, buffers |-> << >>]
  /\ pool = [i \in 1..POOL_SIZE |-> [active |-> FALSE, trans_id |-> 0]]
  /\ counters = [mems |-> 0, vc |-> 0]
  /\ work = << >>
  /\ work_waitflag = FALSE
  /\ io = "sleep"
  /\ loop = "test"
  /\ fired = FALSE
  /\ signal = TRUE
  /\ vc \in [enabled : BOOLEAN, buffers : {{}}, capturing : {FALSE}]

Send(m) == to_vc' = Append(to_vc, m)

Request(task, type, on) == [type |-> type, on |-> on, ctx |-> task]

(* The task is done with this call and goes to the next one; behind the    *)
(* last it yields for ever in mmal_port_buffer_receive.                    *)
Advance(n) ==
  /\ at' = at + n
  /\ main' = IF at + n > Len(Script) THEN "receive" ELSE "call"

----------------------------------------------------------------------------
(* The task.                                                               *)

(* wait_on_waitflag(&s->state_waitflag) of vchiq_handmade.                 *)
WaitConnect ==
  /\ main = "call" /\ Here.type = "WAIT_CONNECT" /\ state_waitflag
  /\ state_waitflag' = FALSE
  /\ Advance(1)
  /\ UNCHANGED <<to_vc, to_arm, conn_state, opened, data_callback, answer, enabled,
                 port, counters, pool, ioVars, eventVars, vc>>

(* vchiq_handmade_connect: an error is not looked at.                      *)
Connect ==
  /\ main = "call" /\ Here.type = "CONNECT"
  /\ Send([type |-> "CONNECT"])
  /\ Advance(1)
  /\ UNCHANGED <<to_arm, callVars, answer, enabled, port, counters, pool, ioVars, eventVars, vc>>

(* vchiq_alloc_open_service up to its wait.                                *)
OpenService ==
  /\ main = "call" /\ Here.type = "OPEN"
  /\ opened' = [opened EXCEPT ![Here.on] = FALSE]
  /\ Send([type |-> "OPEN", on |-> Here.on])
  /\ main' = "wait"
  /\ UNCHANGED <<to_arm, conn_state, state_waitflag, data_callback, at, answer,
                 enabled, port, counters, pool, ioVars, eventVars, vc>>

(* The wait for the OPENACK ends: vchiq_open_service has a BUG if the      *)
(* service is not open, and the callback is set only now.                  *)
ServiceOpen ==
  /\ main = "wait" /\ Here.type = "OPEN" /\ state_waitflag
  /\ state_waitflag' = FALSE
  /\ IF opened[Here.on]
       THEN /\ data_callback' = [data_callback EXCEPT ![Here.on] = TRUE]
            /\ Advance(1)
       ELSE main' = "bug" /\ UNCHANGED <<data_callback, at>>
  /\ UNCHANGED <<to_vc, to_arm, conn_state, opened, answer, enabled, port, counters,
                 pool, ioVars, eventVars, vc>>

Synchronous ==
  {"COMPONENT_CREATE", "COMPONENT_DISABLE", "COMPONENT_DESTROY", "COMPONENT_ENABLE",
   "PORT_INFO_GET", "PORT_INFO_SET", "PORT_PARAMETER_SET", "PORT_PARAMETER_GET",
   "PORT_ENABLE", "ZERO_COPY", "CAPTURE"}

(* The BUGs of component_disable and component_destroy.                    *)
CallIsBug ==
  \/ Here.type = "COMPONENT_DISABLE" /\ ~enabled[Here.on]
  \/ Here.type = "COMPONENT_DESTROY" /\ enabled[Here.on]

(* Mutant: the answer is not waited for.                                   *)
AskDoesNotWait ==
  /\ main = "call" /\ Here.type \in Synchronous
  /\ ~(Here.type = "PORT_ENABLE" /\ port.enabled)
  /\ Advance(1) /\ Send(Request("main", Here.type, Here.on))
  /\ UNCHANGED <<to_arm, callVars, answer, enabled, port, counters, pool, ioVars, eventVars, vc>>

(* VCHIQ_MMAL_MSG_COMMUNICATE_SYNC up to its wait.                         *)
Ask ==
  /\ main = "call" /\ Here.type \in Synchronous
  /\ ~(Here.type = "PORT_ENABLE" /\ port.enabled)
  /\ IF CallIsBug
       THEN main' = "bug" /\ UNCHANGED to_vc
       ELSE main' = "wait" /\ Send(Request("main", Here.type, Here.on))
  /\ UNCHANGED <<to_arm, callVars, at, answer, enabled, port, counters, pool, ioVars, eventVars, vc>>

(* vchiq_mmal_port_enable of a port that is enabled returns at once.       *)
SkipEnable ==
  /\ main = "call" /\ Here.type = "PORT_ENABLE" /\ port.enabled
  /\ Advance(2)
  /\ UNCHANGED <<to_vc, to_arm, callVars, answer, enabled, port, counters, pool, ioVars, eventVars, vc>>

(* What a call notes down of a successful answer.                          *)
Note(type, on, is_enabled) ==
  /\ enabled' = CASE type = "COMPONENT_CREATE"  -> [enabled EXCEPT ![on] = TRUE]
                  [] type = "COMPONENT_DISABLE" -> [enabled EXCEPT ![on] = FALSE]
                  [] OTHER -> enabled
  /\ port' = CASE type = "PORT_ENABLE" -> [port EXCEPT !.enabled = TRUE]
               [] type = "PORT_INFO_GET" /\ on = "still" -> [port EXCEPT !.enabled = is_enabled]
               [] type = "ZERO_COPY" -> [port EXCEPT !.zero_copy = TRUE]
               [] OTHER -> port

(* The wait ends with a success.                                           *)
Answered ==
  /\ main = "wait" /\ Here.type \in Synchronous
  /\ answer["main"] \in {"ok", "enabled"}
  /\ Note(Here.type, Here.on, answer["main"] = "enabled")
  /\ answer' = [answer EXCEPT !["main"] = "none"]
  /\ Advance(1)
  /\ UNCHANGED <<to_vc, to_arm, callVars, counters, pool, ioVars, eventVars, vc>>

(* The wait ends with an error.  A task that leaves vchiq_camera_run stays *)
(* in the wfe loop of vchiq_handmade.                                      *)
Refused ==
  /\ main = "wait" /\ Here.type \in Synchronous /\ answer["main"] = "error"
  /\ answer' = [answer EXCEPT !["main"] = "none"]
  /\ CASE Here.fail = "ignore" -> Advance(1)
       [] Here.fail = "abort"  -> main' = "stopped" /\ UNCHANGED at
       [] Here.fail = "fault"  -> main' = "fault" /\ UNCHANGED at
  /\ UNCHANGED <<to_vc, to_arm, callVars, enabled, port, counters, pool, ioVars, eventVars, vc>>

FreeContexts == {i \in 1..POOL_SIZE : ~pool[i].active}
FirstFree == CHOOSE i \in FreeContexts : \A j \in FreeContexts : i <= j

(* vc_sm_cma_vchi_send_msg up to its wait: the context takes its number    *)
(* from one counter, the message from another.                             *)
Import ==
  /\ main = "call" /\ Here.type = "IMPORT" /\ port.zero_copy
  /\ IF FreeContexts = {}
       THEN main' = "stopped" /\ UNCHANGED <<to_vc, pool, counters>>
       ELSE /\ pool' = [pool EXCEPT ![FirstFree] =
                          [active |-> TRUE, trans_id |-> counters.mems]]
            /\ Send([type |-> "IMPORT", on |-> Here.on, trans_id |-> counters.vc])
            /\ counters' = [mems |-> counters.mems + 1, vc |-> counters.vc + 1]
            /\ main' = "wait"
  /\ UNCHANGED <<to_arm, callVars, at, answer, enabled, port, ioVars, eventVars, vc>>

(* The wait ends: the context is freed and the buffer joins the port.      *)
Imported ==
  /\ main = "wait" /\ Here.type = "IMPORT" /\ answer["main"] = "ok"
  /\ answer' = [answer EXCEPT !["main"] = "none"]
  /\ pool' = [i \in 1..POOL_SIZE |->
                IF pool[i].trans_id = counters.mems - 1
                  THEN [pool[i] EXCEPT !.active = FALSE] ELSE pool[i]]
  /\ port' = [port EXCEPT !.buffers = Append(@, Here.on)]
  /\ Advance(1)
  /\ UNCHANGED <<to_vc, to_arm, callVars, enabled, counters, ioVars, eventVars, vc>>

(* vchiq_mmal_buffer_from_host waits for no answer.  Its message carries    *)
(* the address of a context in its own frame, which is gone when it        *)
(* returns; called again by the same task it has the same address again.   *)
Frames == {"main_frame", "io_frame"}
BufferFromHost(frame, b) == [type |-> "BUFFER_FROM_HOST", on |-> b, ctx |-> frame]

(* mmal_port_buffer_send_all.                                              *)
SendAll ==
  /\ main = "call" /\ Here.type = "SEND_ALL"
  /\ IF port.buffers = << >>
       THEN main' = "stopped" /\ UNCHANGED <<to_vc, at>>
       ELSE /\ to_vc' = to_vc \o [i \in 1..Len(port.buffers) |->
                                   BufferFromHost("main_frame", port.buffers[i])]
            /\ Advance(1)
  /\ UNCHANGED <<to_arm, callVars, answer, enabled, port, counters, pool, ioVars, eventVars, vc>>

MainTask ==
  \/ WaitConnect \/ Connect \/ OpenService \/ ServiceOpen
  \/ Ask \/ SkipEnable \/ Answered \/ Refused
  \/ Import \/ Imported \/ SendAll

----------------------------------------------------------------------------
(* The loop thread waits for its event, vchiq_event_wait.  A signal that    *)
(* comes after it has found the event not fired and before it has armed    *)
(* the event rings no bell, and the thread waits all the same.             *)

LoopStep(from, to) ==
  /\ loop = from /\ loop' = to
  /\ UNCHANGED <<to_vc, to_arm, callVars, taskVars, answer, pool, work, work_waitflag,
                 io, signal, vc>>

LoopTest == LoopStep("test", IF fired THEN "woken" ELSE "arm") /\ UNCHANGED fired

LoopArm == LoopStep("arm", "asleep") /\ UNCHANGED fired

LoopWoken == LoopStep("woken", "parse") /\ fired' = FALSE

(* vchiq_parse_rx has read every message there is.                         *)
LoopAgain == to_arm = << >> /\ LoopStep("parse", "test") /\ UNCHANGED fired

(* vchiq_parse_rx_dispatch: one message.                                   *)
Arrives(type) ==
  /\ loop = "parse" /\ to_arm # << >> /\ Head(to_arm).type = type
  /\ to_arm' = Tail(to_arm)

(* Mutant: the waiting task is not told.                                   *)
DispatchConnectQuiet(err) ==
  /\ Arrives("CONNECT")
  /\ conn_state' = TRUE
  /\ loop' = IF err THEN "bug" ELSE "parse"
  /\ UNCHANGED <<to_vc, state_waitflag, opened, data_callback, taskVars, answer, pool,
                 work, work_waitflag, io, eventVars, vc>>

(* A CONNECT leaves the returned err uninitialised; the loop thread has a  *)
(* BUG for any value but zero.                                             *)
DispatchConnect(err) ==
  /\ Arrives("CONNECT")
  /\ conn_state' = TRUE
  /\ state_waitflag' = TRUE
  /\ loop' = IF err THEN "bug" ELSE "parse"
  /\ UNCHANGED <<to_vc, opened, data_callback, taskVars, answer, pool,
                 work, work_waitflag, io, eventVars, vc>>

(* vchiq_parse_msg_openack.                                                *)
DispatchOpenack ==
  /\ Arrives("OPENACK")
  /\ opened' = [opened EXCEPT ![Head(to_arm).on] = TRUE]
  /\ state_waitflag' = TRUE
  /\ UNCHANGED <<to_vc, conn_state, data_callback, taskVars, answer, pool, ioVars, eventVars, vc>>

(* vchiq_parse_msg_data and mmal_service_data_callback: the answer goes to *)
(* the context whose address the message carries.                          *)
DispatchReply ==
  /\ Arrives("REPLY") /\ Head(to_arm).ctx \notin Frames
  /\ answer' = [answer EXCEPT ![Head(to_arm).ctx] = Head(to_arm).status]
  /\ UNCHANGED <<to_vc, callVars, taskVars, pool, ioVars, eventVars, vc>>

(* The same where the call has returned: what is found at that address is   *)
(* no context.  If it passes for one of a buffer message, the loop thread  *)
(* writes to whatever is there now, which is not followed further.         *)
DispatchStale ==
  /\ Arrives("REPLY") /\ Head(to_arm).ctx \in Frames
  /\ loop' \in {"parse", "stray"}
  /\ UNCHANGED <<to_vc, callVars, taskVars, answer, pool, work, work_waitflag, io,
                 eventVars, vc>>

(* mems_msg_context_from_trans_id: the first context with that number.     *)
HasTransId(i, id) == pool[i].trans_id = id
Found(id) == {i \in 1..POOL_SIZE : HasTransId(i, id) /\ \A j \in 1..(i - 1) : ~HasTransId(j, id)}

(* mems_service_data_callback, with its BUG.                               *)
DispatchImported ==
  /\ Arrives("IMPORTED")
  /\ IF \E i \in Found(Head(to_arm).trans_id) : pool[i].active
       THEN answer' = [answer EXCEPT !["main"] = "ok"] /\ UNCHANGED main
       ELSE main' = "bug" /\ UNCHANGED answer
  /\ UNCHANGED <<to_vc, callVars, at, enabled, port, counters, pool, ioVars, eventVars, vc>>

(* Mutant: every buffer is sent again at once (mmal_port_buffer_send_all,  *)
(* as a comment in mmal_buffer_to_host_cb has it).                         *)
DispatchSendsAll ==
  /\ Arrives("BUFFER_TO_HOST")
  /\ to_vc' = to_vc \o [i \in 1..Len(port.buffers) |->
                          BufferFromHost("main_frame", port.buffers[i])]
  /\ UNCHANGED <<callVars, taskVars, answer, pool, ioVars, eventVars, vc>>

(* mmal_buffer_to_host_cb, which does not look at the status, and          *)
(* mmal_io_work_push.                                                      *)
DispatchBuffer ==
  /\ Arrives("BUFFER_TO_HOST")
  /\ work' = Append(work, [buffer |-> Head(to_arm).on, eos |-> Head(to_arm).eos])
  /\ work_waitflag' = TRUE
  /\ UNCHANGED <<to_vc, callVars, taskVars, answer, pool, io, loop, eventVars, vc>>

LoopThread ==
  \/ \E err \in BOOLEAN : DispatchConnect(err)
  \/ DispatchOpenack \/ DispatchReply \/ DispatchStale \/ DispatchImported \/ DispatchBuffer
  \/ LoopTest \/ LoopArm \/ LoopWoken \/ LoopAgain

----------------------------------------------------------------------------
(* The io thread, vchiq_io_thread.  It never wakes to an empty list        *)
(* (WakeFindsWork), so the test of the popped item has one outcome.        *)

IoWake ==
  /\ io = "sleep" /\ work_waitflag
  /\ work_waitflag' = FALSE
  /\ io' = "work"
  /\ UNCHANGED <<to_vc, to_arm, callVars, taskVars, answer, pool, work, loop, eventVars, vc>>

(* One item of work, mmal_port_buffer_io_work: the frame is shown, its     *)
(* buffer goes back, and after the last buffer of a frame the next capture *)
(* is asked for.                                                           *)
IoWork ==
  /\ io = "work" /\ work # << >>
  /\ work' = Tail(work)
  /\ LET b == Head(work).buffer IN
     IF b \notin Members(port.buffers)
       THEN io' = "bug" /\ UNCHANGED to_vc
       ELSE IF Head(work).eos
         THEN /\ io' = "wait"
              /\ to_vc' = to_vc \o <<BufferFromHost("io_frame", b),
                                   Request("io", "CAPTURE", "still")>>
         ELSE io' = "sleep" /\ Send(BufferFromHost("io_frame", b))
  /\ UNCHANGED <<to_arm, callVars, taskVars, answer, pool, work_waitflag, loop, eventVars, vc>>

(* The capture was answered; an error ends in mmal_port_buffer_io_work.    *)
IoAnswered ==
  /\ io = "wait" /\ answer["io"] # "none"
  /\ answer' = [answer EXCEPT !["io"] = "none"]
  /\ io' = "sleep"
  /\ UNCHANGED <<to_vc, to_arm, callVars, taskVars, pool, work, work_waitflag, loop, eventVars, vc>>

IoThread == IoWake \/ IoWork \/ IoAnswered

----------------------------------------------------------------------------
(* The VideoCore.                                                          *)

Takes(type) == to_vc # << >> /\ Head(to_vc).type = type /\ to_vc' = Tail(to_vc)

(* It writes a message, once it has signalled the one before.              *)
Tells(m) == ~signal /\ to_arm' = Append(to_arm, m) /\ signal' = TRUE /\ UNCHANGED fired

(* remote_event_signal: fired, and the bell if the event is armed.         *)
VcSignal ==
  /\ signal
  /\ signal' = FALSE
  /\ fired' = TRUE
  /\ loop' = IF loop = "asleep" THEN "woken" ELSE loop
  /\ UNCHANGED <<to_vc, to_arm, callVars, taskVars, answer, pool, work, work_waitflag, io, vc>>

VcConnect ==
  /\ Takes("CONNECT")
  /\ UNCHANGED <<to_arm, callVars, taskVars, answer, pool, ioVars, eventVars, vc>>

VcOpen ==
  /\ Takes("OPEN") /\ Tells([type |-> "OPENACK", on |-> Head(to_vc).on])
  /\ UNCHANGED <<callVars, taskVars, answer, pool, ioVars, vc>>

VcImport ==
  /\ Takes("IMPORT") /\ Tells([type |-> "IMPORTED", trans_id |-> Head(to_vc).trans_id])
  /\ UNCHANGED <<callVars, taskVars, answer, pool, ioVars, vc>>

VcBuffer ==
  /\ Takes("BUFFER_FROM_HOST")
  /\ vc' = [vc EXCEPT !.buffers = @ \cup {Head(to_vc).on}]
  /\ UNCHANGED <<to_arm, callVars, taskVars, answer, pool, ioVars, eventVars>>

(* It cannot use a buffer and returns it at once, with a status.           *)
VcReject ==
  /\ Takes("BUFFER_FROM_HOST")
  /\ Tells([type |-> "BUFFER_TO_HOST", on |-> Head(to_vc).on, eos |-> FALSE])
  /\ UNCHANGED <<callVars, taskVars, answer, pool, ioVars, vc>>

Answer(m, status) == [type |-> "REPLY", ctx |-> m.ctx, status |-> status]

VcReply ==
  /\ to_vc # << >> /\ Head(to_vc).type \in Synchronous /\ to_vc' = Tail(to_vc)
  /\ LET m == Head(to_vc) IN
     /\ Tells(Answer(m, IF m.type = "PORT_INFO_GET" /\ vc.enabled THEN "enabled" ELSE "ok"))
     /\ vc' = CASE m.type = "PORT_ENABLE" -> [vc EXCEPT !.enabled = TRUE]
                [] m.type = "CAPTURE" -> [vc EXCEPT !.capturing = TRUE]
                [] OTHER -> vc
  /\ UNCHANGED <<callVars, taskVars, answer, pool, ioVars>>

(* An error is the answer to any message that carries a context.           *)
VcRefuse ==
  /\ to_vc # << >> /\ to_vc' = Tail(to_vc)
  /\ Head(to_vc).type \in Synchronous \cup {"BUFFER_FROM_HOST"}
  /\ Tells(Answer(Head(to_vc), "error"))
  /\ UNCHANGED <<callVars, taskVars, answer, pool, ioVars, vc>>

(* A buffer is full; the last one of a frame ends the capture.             *)
VcReturn(b, eos) ==
  /\ vc.capturing /\ b \in vc.buffers
  /\ Tells([type |-> "BUFFER_TO_HOST", on |-> b, eos |-> eos])
  /\ vc' = [vc EXCEPT !.buffers = @ \ {b}, !.capturing = ~eos]
  /\ UNCHANGED <<to_vc, callVars, taskVars, answer, pool, ioVars>>

VideoCore ==
  \/ VcConnect \/ VcOpen \/ VcImport \/ VcBuffer \/ VcReject \/ VcReply \/ VcRefuse
  \/ VcSignal
  \/ \E b \in Buffers, eos \in BOOLEAN : VcReturn(b, eos)

Running == main \notin {"bug", "fault"} /\ io # "bug" /\ loop \notin {"bug", "stray"}

Next == Running /\ (MainTask \/ LoopThread \/ IoThread \/ VideoCore)

Spec == Init /\ [][Next]_vars

----------------------------------------------------------------------------
Messages == Members(to_vc) \cup Members(to_arm)
Count(q, P(_)) == Cardinality({i \in 1..Len(q) : P(q[i])})

TypeOK ==
  /\ at \in 1..(Len(Script) + 1)
  /\ main \in {"call", "wait", "receive", "stopped", "fault", "bug"}
  /\ io \in {"sleep", "work", "wait", "bug"}
  /\ loop \in {"test", "arm", "asleep", "woken", "parse", "bug", "stray"}
  /\ {fired, signal} \subseteq BOOLEAN
  /\ answer \in [{"main", "io"} -> {"none", "ok", "enabled", "error"}]
  /\ Members(port.buffers) \cup vc.buffers \subseteq Buffers
  /\ work \in Seq([buffer : Buffers, eos : BOOLEAN])
  /\ Len(work) <= NUM_BUFFERS

(* None of the BUGs on the way is hit: a service is open when its opener   *)
(* wakes although one waitflag serves the connection and every opening, an *)
(* import finds its active context although message and context take their *)
(* numbers from two counters, components are disabled and destroyed in     *)
(* order, and every returned buffer is one of the port.  The loop thread's *)
(* own BUG is apart: it is met where DispatchConnect has an err.            *)
NoBug == main # "bug" /\ io # "bug"

(* A synchronous request and its answer carry the address of a context on  *)
(* the stack of the caller: the caller is still waiting in that call, and  *)
(* no second message for the same context is under way.  The contexts of   *)
(* buffer messages are apart: they are in frames that are gone.            *)
ContextsAlive ==
  LET IsFor(t, m) == "ctx" \in DOMAIN m /\ m.ctx = t
      Under(t) == Count(to_vc, LAMBDA m : IsFor(t, m)) + Count(to_arm, LAMBDA m : IsFor(t, m))
  IN  /\ Under("main") > 0 => main = "wait" /\ Under("main") = 1 /\ answer["main"] = "none"
      /\ Under("io") > 0 => io = "wait" /\ Under("io") = 1 /\ answer["io"] = "none"

(* A buffer is in one place at a time: under way, with the VideoCore or in *)
(* the work list.  The VideoCore never gets one that is being shown.       *)
BufferInOnePlace ==
  \A b \in Buffers :
    LET IsFor(m) == m.type \in {"BUFFER_FROM_HOST", "BUFFER_TO_HOST"} /\ m.on = b
    IN  Count(to_vc, IsFor) + Count(to_arm, IsFor) + Count(work, LAMBDA w : w.buffer = b)
          + (IF b \in vc.buffers THEN 1 ELSE 0) <= 1

(* One capture at a time: the io thread asks for the next one only after   *)
(* the VideoCore has ended the last.                                       *)
OneCapture ==
  Count(to_vc, LAMBDA m : m.type = "CAPTURE") + (IF vc.capturing THEN 1 ELSE 0)
    + Count(to_arm, LAMBDA m : m.type = "BUFFER_TO_HOST" /\ m.eos)
    + Count(work, LAMBDA w : w.eos) <= 1

(* Data arrives only for services whose callback is set, although the      *)
(* opener sets it after the OPENACK has been handled.                      *)
DataFindsCallback ==
  \A m \in Members(to_arm) :
    /\ m.type \in {"REPLY", "BUFFER_TO_HOST"} => data_callback["mmal"]
    /\ m.type = "IMPORTED" => data_callback["SMEM"]

(* A sleeping io thread with no wake-up leaves at least one buffer out of  *)
(* the list, although it takes one item for each wake-up.                  *)
NotAllBuffersStuck ==
  (io = "sleep" /\ ~work_waitflag) => Len(work) < NUM_BUFFERS

(* A woken io thread finds an item: wake-ups never outnumber the items     *)
(* left.                                                                   *)
WakeFindsWork == (io = "work" \/ work_waitflag) => work # << >>

(* The scheduler runs a thread that can go on; the VideoCore takes and     *)
(* answers what it is sent, and finishes a signal.                         *)
FairSpec ==
  /\ Spec
  /\ WF_vars(Running /\ IoThread) /\ WF_vars(Running /\ LoopThread)
  /\ WF_vars(Running /\ MainTask) /\ WF_vars(Running /\ VcSignal)
  /\ WF_vars(Running /\ (VcConnect \/ VcOpen \/ VcImport \/ VcBuffer \/ VcReply))

(* The loop thread sleeps beside a message whose signal came while it was  *)
(* arming its event.                                                       *)
SignalLost == loop = "asleep" /\ to_arm # << >> /\ ~signal

(* Connecting, opening the services and setting up the camera end, whatever*)
(* the VideoCore refuses, unless the loop thread has met its BUG, written  *)
(* where no context is, or sleeps for good over a lost signal: only that   *)
(* lets a call wait for ever.                                              *)
SetupEnds ==
  \/ <>(main \in {"receive", "stopped", "fault"} \/ loop \in {"bug", "stray"})
  \/ <>[]SignalLost

(* Every answer to a call finds it waiting, and its context and callback,  *)
(* and the task and the io thread meet no BUG on the way.                  *)
CallsSound == TypeOK /\ NoBug /\ ContextsAlive /\ DataFindsCallback

(* The buffers circulate: each is in one place, at most one capture is     *)
(* going on, and the io thread is neither woken for nothing nor asleep on  *)
(* all of them (mmal_port_buffer_io_work, vchiq_io_thread).                *)
BuffersSound == BufferInOnePlace /\ OneCapture /\ NotAllBuffersStuck /\ WakeFindsWork
=============================================================================
