# TLA+ verification of arm64_os

arm64_os is a bare-metal kernel for the Raspberry Pi 3 (BCM2837, four
Cortex-A53): a scheduler, interrupt-driven drivers, a USB host stack, a client of
the VideoCore message queue, an SD card driver with FAT32, displays and a command
line. These modules model the parts in which interrupts, tasks and the hardware
meet, check them with TLC on small instances, and prove with TLAPS, for every number
of tasks, flags, CPUs, channels, bytes, slots and devices and every geometry of the card,
what the runs check of the scheduler, the spinlock, the semaphore, the byte ring and the
pipe, the USB transfer queue, USB enumeration, the mass storage commands, the slots of the
VideoCore message queue, the camera client on top of it and the image writer.

## 1. Inventory

### Parts, their state and their operations

| part | state | operations | what makes it correct |
|---|---|---|---|
| scheduler (`sched.c`) | run, timer-wait and flag-wait lists, `waitflag_is_set`, per task: state, ticks left, deadline, waitflag pointer | `yield`, `wait_on_waitflag`, `wakeup_waitflag`, `wait_on_timer_ms`, `task_create`, timer tick, `schedule` | a task is in one list, the one its state names; no wake-up is lost; runnable tasks run |
| byte ring (`ringbuf.c`) | cells, two pointers, `read_is_ahead` | write, read of any length | FIFO, no byte lost, copies stay inside the buffer |
| pipe (`pipe.c`, `uart/pl011_uart.c`) | a ring, a lock, a waitflag | push (interrupt), pop (I/O thread) | a woken reader finds a byte; bytes in order |
| semaphore (`semaphore.c`) | count, list of waiters on the stacks of tasks | init, down, up | no unit granted twice; a blocked down returns after an up |
| USB transfer queue (`usb/usb_xfer_queue.c`, `dwc2_channel.c`, static slots) | pending chains, running jobs, channel bitmap, a waitflag | enqueue, the thread's two passes, completion | no chain or completion forgotten, channels follow chains |
| USB transfers (`usb/hcd_transfer.c`, `dwc2.c`, `dwc2_transfer.c`) | a flag on the caller's stack, the controller's channel registers | control and bulk transfer, channel interrupt | a transfer is reported when, and only when, it is over |
| USB enumeration, hub, HID, `usbd` (`usb/hcd.c`, `hcd_hub.c`, `root_hub.c`) | device slots, device tree, the next address | attach the root hub, enumerate a hub's ports, reset, address, configure | no slot lost or released twice, requests reach their device, enumeration ends |
| USB mass storage commands (`usb/hcd_mass_storage.c`, read by `tft_lcd.c`) | the tag, the command and status wrappers on the stack, the buffer of the reads | set-up commands, read, recovery | a command reported good was carried out and its data is its own; the sequence ends |
| VideoCore slots and events (`vchiq_2835_arm.c`) | two streams of messages in shared slots, queues of slots, events (`armed`, `fired`) | write and read a message, release and recycle slots, signal, wait | messages in order and intact, no slot lost, no armed signal lost |
| VideoCore services and camera (`vchiq_2835_arm.c`) | connection, services, contexts of calls, buffers, list of I/O work | connect, open, call, import and hand over buffers, show frames | no answer to a call that is over, a buffer in one place, set-up ends unless a signal is lost |
| SD card and FAT32 (`emmc/`, `fs/`) | state of card and controller, sectors of the card, a walk along a cluster chain | reset and identify, read and write a block, look a file up, write an image over it | only the file's sectors are written; ERR_OK means written; the call ends |
| kernel heap, DMA memory | bitmaps per size, free and busy lists | alloc, free | an address belongs to one owner; free undoes alloc |
| spinlock and atomics (`armv8_lock.S`) | lock word, exclusive monitor, event register | lock, unlock, compare-and-swap | mutual exclusion, a waiter wakes |
| task creation, start of other CPUs | task, stack and pid counters, per-CPU jump address | `task_create`, `run_on_cpu` | every task has its own stack |
| exceptions, interrupt table, timers | tables of callbacks | register, dispatch | bounds of the tables |
| mailbox, command line | request buffer; line buffer | blocking requests; dispatch | one request at a time |
| consoles, displays, SPI, I2C, GPIO, PWM, clocks, DMA engine, MMU, string library | registers, frame buffers | register programming, pure functions | mostly sequential |

`PROJECT.json` lists every part with its files under `components`.

### How the parts interact

Everything meets in the waitflag, one machine word per condition. Interrupt
handlers (UART receive, USB channel, VideoCore doorbell) store 1 to it through
`wakeup_waitflag`, which also counts the wake-up in the scheduler of its CPU.
Tasks call `wait_on_waitflag`. A pipe, a semaphore waiter, the USB queue and the
VideoCore threads each own one. The scheduler looks at the flags of its waiters
only inside `schedule()`.

### What is hard here

* Interrupts between any two instructions of a task, in places without a lock:
  `pipe_pop`, `wait_on_waitflag`, the walk over `jobs_running`.
* A waitflag holds one signal, while the things signalled (bytes, chains, work
  items) come in numbers.
* Objects on the stack of a task that others keep pointers to: semaphore waiters,
  the `completed` word of a USB transfer, its request.
* Hardware that answers late, negatively or not at all, and a bulk transfer that
  gives up waiting.
* Pointers that run to the end of a buffer, unsigned counters at zero.
* Memory shared with a second processor that reads and writes while the ARM does,
  and a store that other CPUs see late.
* One thing is persisted, the image on the SD card, and it is written over the file
  in place: power may be lost between two sectors, and the card is found in
  whatever state the last program left it.

The list at line level is `hazards` in `PROJECT.json`, with the properties that
cover each one, or the reason why none does yet.

## 2. Modules

| module | models | rests on |
|---|---|---|
| `Lists` | intrusive lists as sequences (`list.h`): `Members`, `Unlink`, `Keep`, `IsLinkedOnce` | |
| `EventFlag` | abstract specification of waitflags | |
| `Sched` | `sched.c`, one CPU | `Lists`, instance of `EventFlag` |
| `MCSched` | symmetry for TLC | `Sched` |
| `ListTheorems`, `SchedProofs` | lemmas about lists and division; the scheduler's invariant, order and refinement | `Lists`, `Sched` |
| `RingBuf` | the ring of `ringbuf.c` and its two operations | |
| `RingBufFifo` | the ring as a queue | `RingBuf` |
| `Pipe` | `pipe.c`, the UART's handler and its reader | `RingBuf` |
| `QueueProofs` | the invariants and the order of the ring, the pipe and the VideoCore slots | `RingBufFifo`, `Pipe`, `VchiqSlots`, `ListTheorems` |
| `Semaphore` | `semaphore.c` | |
| `Spinlock` | the lock of `armv8_lock.S` | |
| `MCLocks` | semaphore and spinlock in one instance for TLC | `Semaphore`, `Spinlock` |
| `LockProofs` | the invariants of spinlock and semaphore | `Spinlock`, `Semaphore` |
| `UsbXfer` | tasks, transfer queue, channel interrupt | `Lists` |
| `MCUsbXfer` | symmetry for TLC | `UsbXfer` |
| `UsbTree` | enumeration at start-up | |
| `UsbProofs` | the invariant of the transfer queue; that of tree, slots, ports and addresses | `UsbXfer`, `UsbTree`, `ListTheorems` |
| `UsbMass` | commands of a mass storage device over bulk transfers | |
| `UsbMassProofs` | the invariant of a command and its transfers | `UsbMass`, `ListTheorems` |
| `VchiqSlots` | transport of the VideoCore messages, its threads and interrupt | |
| `MCQueues` | ring and slots in one instance for TLC | `RingBufFifo`, `VchiqSlots` |
| `Mmal` | services and camera client on top of the transport | `Lists` |
| `MmalProofs` | what is under way between camera client and VideoCore | `Mmal`, `ListTheorems` |
| `SdImage` | card set-up, block commands, FAT32 walks, the image writer | |
| `SdImageProofs` | the image writer's invariants | `SdImage`, `ListTheorems` |

`Pipe`, `Semaphore` and `UsbXfer` use a waitflag as `EventFlag` describes it: a
Boolean that a wait takes in one step. That is what `ImplementsEventFlag` shows of
the cooperative scheduler.

### Sched

The variables have the names of the C fields. A task's position inside a wait call
is `pc[t]`. One action is a stretch that no interrupt can split: a section with
IRQs off, the SVC and timer handlers, or a single access to a waitflag. `Schedule`
is `schedule()` whole: the previous task is requeued, expired timer waiters and
then woken flag waiters are appended, the head of the run list is taken and gets a
new quantum. `Woken` is the result of the loop over `flag_waiting`, which clears a
flag for the first task that waits for it. `Wakeup` is enabled at every moment,
since handlers and tasks call it. `Tick` exists only when `PREEMPTION_BY_TIMER`
holds. The `BUG` conditions of the code appear as invariants.

`StackFlags` are the waitflags in the frames of tasks inside `semaphore_down`.
`waitflag_init` assigns to its own parameter, so such a flag begins with any value:
`StackFlag` puts 0, 1 or another one there, and `uncounted` remembers how many began
set. No task of the kernel as built waits in `semaphore_down` (its only callers are
in vendored `vchiq` files, through entry points that nothing calls); that kernel is the
instance `StackFlags = {}`. The model lets any task wait for such a flag, and
`semaphore_up` set it at any time.

* `wfe` in the idle and init tasks is no wait in the model: the return from an
  exception sets the event register, so it never blocks after one.
* `ticks_total` and the debug output have no influence on scheduling and are left
  out. `MAX_TIME` bounds the clock, `MAX_SET` the wake-ups not yet consumed.
* `Create` is `task_create` followed by `sched_queue_runnable_task`, as all
  callers do it. The shared counters of several CPUs are not modelled.
* One CPU. `wakeup_waitflag` counts in the scheduler of the CPU it runs on; a
  wake-up from another CPU would not reach this scheduler's counter. The other
  CPUs run an idle task of their own and nothing else.

### RingBuf, RingBufFifo and Pipe

`RingBuf` declares the ring and computes what one call of `ringbuf_write` or `ringbuf_read` does to the
pointers, lead and cells, including the branch that copies with the reader ahead
and leaves `write_ptr` alone. `RingBufFifo` numbers the bytes and remembers the set
of those the ring reported as written and did not return yet (`owed`); the numbers
give their order. `Pipe` splits
the `ringbuf_read` of `pipe_pop` at its memory accesses, because interrupts land
between them; `min` is a macro, so the difference is computed twice. `pipe_push`
holds the lock with interrupts disabled and is part of one interrupt step.

### Semaphore

Each stretch under the semaphore's lock is one action. The waitflag on the stack
starts with an arbitrary value (`garbage`), because `waitflag_init` assigns to its
own parameter. Waiters are never unlinked, so ups after a return write to a dead
stack frame; in the model such a write has no effect, in the kernel it may have
one. A task that would link a second waiter while its first is linked is cut off.
`down_trylock` has no caller and is left out.

### UsbXfer

A chain is pending, running or free, and its remaining jobs are the sequence of
their directions: nothing else about a job matters to the queue and the interrupt
handler. The thread's loop over `jobs_running` uses `list_for_each_entry_safe`, so
its position is the list `todo` of jobs still to visit: a job that is moved to the
tail is met again unless the loop had fetched its end. Channel interrupts are
separate actions for success, for a halt without split mode, for a halt in split
mode, and for a channel that was released. A task of `Bulk` does bulk and control
transfers, as the mass storage task does when it clears a halt. The flag of a wait is
on the stack, so the callback of a bulk transfer that was given up writes to a frame
its task has left: that may be the flag of the next wait, of either kind, or not
(`RetireChain`). The history variable `late` says that a transfer given up was on its way
when the wait under way began. `wait_msec` and log output are left out,
as are the retry branches of the queue: only status values that no control or bulk
job gets lead there. Allocation of jobs and chains is one step, although the slot
lists have no lock (a listed hazard). Tasks interleave with the thread, which needs
timer preemption or another CPU: as shipped, the `wfe` loop of
`hcd_transfer_control` starves the thread (section 5).

### UsbTree

One task enumerates everything; the nested calls of `usb_hub_enumerate_port` and
`usb_hub_enumerate` are a stack of frames, each with the step it is at. What is
plugged in at a port is decided when the port is first looked at, so all small
topologies are covered without enumerating them in `Init`. A device answers at an
address; a reset puts it back to address 0, and a SET_ADDRESS is taken by whatever
answers at 0. The result of a function that returns an uninitialised `err` is
either value. Control transfers are single steps here; `UsbXfer` has their inside.

### UsbMass

`usb_mass_init` and the reads of `display_payload`, with each `usb_cbw_transfer` as
its three bulk transfers. A transfer has a channel until it is finished; the wait of
`hcd_transfer_bulk` may end at any time (`WaitOver`), and then the transfer stays and
can be served during a later command. The buffers of successive commands are at the
same addresses (the stack, and one fixed address for the reads), so what a late
transfer brings may end up in those of the command under way; where the overlap
depends on the compiler's frame layout both outcomes are possible. The controller and
the device are external: the device takes a wrapper, sends packets, ends early, sends a
status or halts, and each transfer may fail. `stray` and `finished` are history
variables for the properties. `Channels` is smaller than the six of the code, so that
dead transfers use them up.

### VchiqSlots and Mmal

`VchiqSlots` is the transport: positions, padding at the end of a slot, the queue
in which slots come back, the two remote events with their `armed` and `fired`
words, the threads that wait for them and the doorbell interrupt. A cell of memory
holds a header or a piece of a payload, and payloads overwrite what stood there, so
that a pointer kept too long or a late walk over a slot may find one where it looks for a header.
The publication of `tx_pos` and the stores of size, identifier and payload are
separate steps, as the VideoCore may read in between: it then reads the place as it
stands (`torn`), and if that says padding or another length it has lost its place
(`adrift`) and is not followed further. Clients let go of what they hold in any order,
as the io thread keeps frames while later answers come and go.

`Mmal` stands on top and takes the two streams as queues, which is what
`ReceivedInOrder` and `ReadInOrder` say of the transport when no message is read while
it is filled. The task's calls are data, a script with one entry per request and what its
caller does with an error; the handlers of the loop thread and the io thread are actions.
The wait of the loop thread is in the model with its test and its arming (`loop`,
`fired`, `signal`), so that a signal may be lost between them. A buffer message carries
the address of a context in the frame of a call that has returned (`Frames`); an
answer to one finds no context there, and what the loop thread does next is not followed
if it takes what it finds for one (`"stray"`). A CONNECT leaves the loop thread with
an uninitialised `err`, which is either value. The VideoCore is external in both: what
it may do is limited to what the code answers to, and it may refuse any message that
carries a context, those of buffers included.

### SdImage

`write_image_to_sd` from the reset of the controller to the last sector. `at` is
the place in the code; the commands of the set-up are a table of the card states
in which each is answered. `Transfer` is a block command with all its outcomes: an
error reported with or without data moved, lines left inhibited, and the command
that is not started because the lines are inhibited and whose status indexes a
table at -1, so that it may be reported as good. The commands of the set-up up to CMD7
find the lines free, as every failure ends `emmc_reset`; an error while the card is busy
after CMD7 is not looked at, and the three commands behind it may not be sent (`Unsent`).
Lines that are inhibited are taken to stay so until they are reset. `ReadOutside` is the
load outside a table that may abort instead of finding a word: `sd_acommands` with bit 31
of the command in the index, and `errors[-1]`. The FAT and the directory are
those of a freshly formatted card whose layout is chosen when the boot sector is
first read; a sector holds the number of the sector of the image written to it, so
an overwritten sector of the FAT is noticed and yields any entry. `lost` records
what the code did not notice (a transfer that never started, a failed read of the
FAT, an absent file); the properties say exactly what still holds in each case.
Restarts happen while the file is written and after the call, on cards
whose structures are intact; `emmc_is_initialized` matters only to a second call
in one boot, which no caller makes.

### Spinlock

One action per instruction that touches the lock, the monitor or the event
register. The protected counter and the delay of its store (`pending`) are there
for the question whether the unlock orders the critical section before it. Wake-ups
come from `sev`, from a lost monitor and from the return of an interrupt. A task
takes the lock with interrupts off, a handler as it is, as the comment in
`spinlock.h` prescribes.

## 3. Runs

| run | outcome | shows |
|---|---|---|
| `sched_preempt` | holds | lists match states, the counter covers the set flags but those that began set, the CPU is held by a runnable task, waiters have flags, run-list order is kept, under preemption |
| `sched_coop` | holds | refinement of `EventFlag`; runnable tasks run, set flags are consumed, timer waits end |
| `sched_stack` | violation | an uninitialised waitflag of a semaphore takes `waitflag_is_set` below zero, where the `BUG` of `sched.c:338` is |
| `pipe_order` | holds | interrupts inside an unlocked read never repeat or swap bytes or leave the pointers crossed; only they make a pop copy a negative size |
| `queues` | holds | of the ring: pointers stay ordered, writes take what fits, reads are in order and never repeat, only writes behind a reader that is ahead lose what they report; of the slots: messages arrive in order, slots are conserved, messages a client points to stay intact and the walk over a slot ends at its end until the slot is used again, a signal given while its event is armed leads to work |
| `locks` | holds | of the semaphore: no unit is granted twice, none is kept beside a waiter; of the spinlock: exclusion, no sleep beside a free lock, no handler waiting for its own CPU, progress, and an update is lost only through a late store |
| `semaphore_up` | violation | an up for every blocked down does not end the downs |
| `usb_queue` | holds | no pending chain or completion is forgotten, channels match running chains, a wait ends by its time limit or with its chain retired unless a transfer given up was on its way, high-speed jobs are reported only when finished |
| `usb_tree` | holds | device slots are accounted for, requests reach the device they are meant for, ports are accounted for, only a failing last port takes devices with it, enumeration ends |
| `usb_mass` | holds | a command reported good was finished by the device and a read reported good holds its own data, unless a data transfer was left behind before it; the sequence of commands ends, stops at a known place or sleeps beside a transfer that nobody finishes |
| `mmal_camera` | holds | the task and the io thread meet none of their BUGs, no answer goes to a synchronous call that is over, a buffer is in one place, one capture at a time; the set-up ends whatever is refused, and only a signal lost while the loop thread arms its event keeps a call waiting |
| `sd_image` | holds | the card is selected before data, an image lands in its file unless an error went unnoticed, `ERR_OK` means written as far as the chain is walked, the call returns, aborts at a load outside a table or hangs in the ACMD41 loop |

The components of `queues` and those of `locks` share no variable, so a state of the one
says nothing about the other: `MCQueues` and `MCLocks` let one of the two take its steps
while the other stays as it began, and reach what two runs would.

Facts about one structure that are only worth having together are checked as one named
conjunction, whose parts have names and comments of their own in the module:

| conjunction | parts |
|---|---|
| `Sched!WaitsEnd` | `SetFlagIsConsumed`, `TimerWaitEnds` |
| `Pipe!PipeInv` | `PipeTypeOK`, `QuiescentOrdered`, `CorruptOnlyByInterrupt` |
| `RingBufFifo!RingInv` | `TypeOK`, `PointersOrdered`, `WriteTakesWhatFits` |
| `Semaphore!UnitsConserved` | `SemaphoreTypeOK`, `NoOverGrant`, `NoUnitBesideWaiter` |
| `UsbXfer!NothingForgotten` | `PendingIsNotForgotten`, `CompletionIsNotForgotten` |
| `UsbXfer!ReportedWhenDone` | `EndsRetired`, `HighSpeedReportedWhenDone` |
| `UsbXfer!QueueInv` | `XferTypeOK`, `ChannelsMatchRunning` |
| `UsbTree!TreeSound` | `TypeOK`, `SlotsAccounted`, `PortsAccounted`, `ClassFits` |
| `UsbTree!RequestsSound` | `RequestReachesDevice`, `AddressUniqueUnlessFailed`, `AssertionFailsOnlyLate` |
| `UsbMass!OkIsTrue` | `TypeOK`, `OkMeansFinished`, `OkMeansRead` |
| `VchiqSlots!MessagesInOrder` | `ReceivedInOrder`, `ReadInOrder`, `HeldIntact` |
| `VchiqSlots!SlotsSound` | `SlotsTypeOK`, `SlotsConserved`, `WritesFreeSlots`, `WalkEndsAtSlotEnd` |
| `Mmal!CallsSound` | `TypeOK`, `NoBug`, `ContextsAlive`, `DataFindsCallback` |
| `Mmal!BuffersSound` | `BufferInOnePlace`, `OneCapture`, `NotAllBuffersStuck`, `WakeFindsWork` |
| `SdImage!SetupSound` | `TypeOK`, `SelectedBeforeData`, `SetupFindsLinesFree` |
| `SdImage!ImageWritten` | `FirstSectorFound`, `WrittenFromStart`, `OkMeansWritten` |

Every property of a run that holds has a mutant: an operator next to the original
that makes a plausible mistake (its comment starts with "Mutant"), under which TLC
finds the property violated.

### Bounds

* `Sched`: three tasks are idle, init and one created. That lets one task wait on
  a flag and another on the timer or on the same flag while idle runs. Two flags
  of drivers distinguish "a flag is set" from "my flag is set"; one more is a
  semaphore's, which may begin set once (`MAX_UNCOUNTED` 1). A quantum of two ticks has a
  first, a middle and a last tick. `MAX_SET` 2 lets the counter exceed the number
  of set flags. `sched_coop` has no symmetry, since it checks liveness.
* `RingBufFifo`: three cells and operations of up to four bytes: shorter than,
  equal to and longer than the buffer. Nine bytes wrap the ring twice and more.
* `Pipe`: the buffer has 8 bytes and an interrupt pushes up to 5 (error marks
  and the character); 3 and 2 keep the proportion. `IRQS_PER_READ = 1`: at
  115200 baud characters are 87 microseconds apart, and a read takes less than
  one. What the proportion is good for is the hypothesis of `PipeInOrder` (section 4).
* `Semaphore`: three tasks with two downs each and four ups reach ups in every
  gap between wake-up and recheck. `COUNT_MOD` stands for 2^32; no run reaches the
  wrap. `semaphore_up` has two tasks, no unit and two ups.
* `UsbXfer`: a control task behind a split-mode device and a task on a high-speed one
  that does both kinds, 3 chains, 2 channels, 4 transfers. A bulk transfer that times out
  leaves a chain behind and submits the next one, so both channels can be held by
  dead transfers and the `BUG` for a missing channel is reached.
* `UsbTree`: five slots, hubs of two ports, three levels below the root hub, two
  faults: slots run out, hubs nest, a failed port has devices below and beside it.
  `MAX_RESET_RETRIES` 1 for the code's 3.
* `UsbMass`: four channels, reads of two packets (a first and a last one), two reads,
  so that the leftovers of the set-up and of a read meet a later read. One fault, beside
  the timeouts, of which there may be one in every transfer.
* `VchiqSlots`: two slots of four headers a side, messages of two and three, so that
  slots end with and without padding; three messages, of one side or of both, wrap the queue of slots and
  come back to a slot that was used. `TX_INFLIGHT` is what the ARM's callers leave
  unanswered: one, as they wait.
* `Mmal`: three buffers (the port's minimum is two) and a pool of two contexts,
  which the imports use up one at a time.
* `SdImage`: a chain of up to two clusters in any order, a directory of one or two
  clusters, the file at every place of it, split over sectors too, images shorter
  and longer than the file. The FAT has two sectors so that some entries lie behind
  the limit that `fat32_get_next_cluster_num` takes for its end. One fault
  (`MAX_FAULTS`) and one restart (`MAX_BOOTS` 2), anywhere.
* `Spinlock`: three CPUs (a holder, a waiter and one that steals), two critical
  sections, one monitor lost for a reason of its own.

Runs with `CHECK_DEADLOCK FALSE` stop when their bounded calls are used up, or in
a `BUG`. The others never stop.

### Fairness

* `CooperativeSpec`: a task inside a wait call gets through it (weak fairness; it
  is on the CPU and straight-line code), every task keeps returning to a call that
  yields (strong fairness of `Yield`, as wake-ups and fast waits may intervene), and
  the counter advances. The first and last are facts of the hardware. The second is
  what a cooperative kernel asks of its tasks, and what the findings show some tasks
  do not do.
* `SemaphoreFairSpec`: a task whose flag is set, or that was woken, runs on.
* `UsbTree!FairSpec`: the one task goes on; its requests are answered.
* `UsbMass!FairSpec`: the task goes on when it does not wait or its flag is set (the
  thread that sets the flag leaves the CPU by an exception return, which ends a `wfe`), and
  the device answers what it is ready for. The time limit of a wait is not fair: the
  loop that counts it sleeps in `wfe`, no tick is armed, and a dead transfer is no event.
* `VchiqSlots!SlotsFairness`, `Mmal!FairSpec`: the scheduler runs a thread that can go on
  (`RunnableRuns`, as these threads wait in `wait_on_waitflag`), a message begun is
  written, the interrupt is taken, and the VideoCore finishes a signal and, in `Mmal`,
  answers. That a message is also noticed is not assumed: the loop thread takes one only
  after a signal it has seen, and the case in which it has not is `SignalLost`.
* `SdImage!FairSpec`: the processor goes on, and a card that is asked again and again
  while it is idle is ready at some time. The lines may be left inhibited, or the answer
  of the card that it is ready be lost: these are the cases in which the call hangs.
* `Spinlock!Fairness`: a CPU executes its next instruction, a store becomes visible.

## 4. Proofs

`SchedProofs` proves, for every `NTASKS >= 2`, every finite set of flags, every
quantum of at least one tick, any delays and bounds, with and without preemption:

* `Invariance`: `Spec => []IInv`; and from it `TypeCorrect`, `ListsAlwaysMatch`,
  `CounterAlwaysCovers`, `CpuAlwaysHeld` and `WaitersAlwaysHaveFlag`, one for each
  invariant of `sched_preempt`, and `QuantumAlwaysBounded` (`ticks_left` stays between
  0 and the quantum), which no run repeats.
* `NoUnderflowWithoutSemaphores`: with `StackFlags = {}` the counter is never below
  zero. In general it is not (`sched_stack`).

`IInv` is the conjunction of those invariants, of `DriverFlagsOK` (nothing is uncounted
while no waitflag lies on a stack) and of `PointsOK`, which relates a
task's `pc` to its data: a task at `"flagwait"` has recorded its flag, a task at
`"clear"` knows the flag it will store to, a task inside a wait call that has not
queued itself yet is runnable, and idle is never inside one. It is needed because no
invariant alone is inductive: the wake-up loop dereferences a pointer that was stored several steps
before, possibly with preemptions in between.

The step that carries the weight is `Schedule`. `RunListFacts` shows that the new
run list has no duplicates and which tasks it has; `ScheduleCounter` that the
counter loses exactly the flags that are cleared, through the cardinality of
`Consumed`; `ScheduleWaitLists` that the wait lists keep the rest. Each action has
its own lemma `...Inv`. `ListTheorems` proves what `Unlink`, `Keep`, appending and
concatenation do to `Members` and `IsLinkedOnce`; where an argument goes by
induction over a length it is phrased as a set or a least counterexample.

`NeverOvertaken` proves the action property of `sched_preempt` from the same
invariant: in the run list of the next state, whichever of the four ways it came
about (`RunListSteps`), two tasks that both stay keep their order
(`RunListPlaces`, on `KeepPlaces` of `ListTheorems`).

`CooperativeImplementsEventFlag` proves the refinement step by step for the kernel as
it is built, with `PREEMPTION_BY_TIMER` false and no waitflag on a stack: `StepImplements` has one lemma per
action that says which step of `EventFlag` it is (`WakeupSignals`, `SlowBlocks`,
`ClearTakes`, `YieldReleases`) or that it stutters. It needs one more invariant,
`OthersAtRun`: a task that is not on the CPU is not in the middle of a wait call,
so the flag the mapping calls taken is the one the current task is about to store to.

`LockProofs` proves of the spinlock, for every finite set of CPUs, that the lock excludes
(`SpinlockExcludes`), that nobody sleeps beside a free lock (`SpinlockWakes`), that
no handler waits for its own CPU (`SpinlockNoSelfWait`), how an update can be lost
(`SpinlockLoss`), and types. Its `IInv` adds to the types: `LockWord` (whoever is
past the exclusive store has the lock word at 1, and a CPU before it whose monitor
is still set has it at 0, so at most one store succeeds), `IrqsOff` (interrupts are
on only outside) and `Watched` (a CPU asleep without an event has its monitor on a
taken lock; one whose monitor was lost before the exclusive store has an event
waiting). Exclusion needs `LockWord` and `IrqsOff` together, since a handler is a
second customer on the same CPU. `SpinlockLoss` follows from a second induction,
`CounterStep`, over the counter and the pending stores.

Of the semaphore it proves `UnitsAlwaysConserved` for any
number of tasks, units and calls. `NoOverGrant` is not inductive: a blocked down
returns for a flag that an up has set after the task was woken, so the unit under way
to it must be counted (`UnitsCounted`), and there must be at most one such unit.
`ServedIsFirst` gives that: a flag set for a woken task is set by `semaphore_up`,
which always picks the first waiter, and waiters stay linked. The garbage in a new
waitflag grants nothing, since the wait clears it before the task looks again.

`QueueProofs` proves `RingAlwaysSound`, `AlwaysReadInOrder` and
`AlwaysKeptUnlessWrapped` for every size of the buffer and every length of the calls.
`IInv` adds to the ordered pointers that the unread bytes are owed to the reader and
ascend (`UnreadOwed`), where the i-th unread byte is found i - 1 cells behind the read
pointer, around the end of the buffer (`Cell`). Without it a read could not be known
to return what was written. `WriteMoves` and `ReadMoves` say what a call does to
those positions, for both values of `read_is_ahead` and with and without a second copy.

The same module proves of the pipe `PipeSound` (`[]PipeInv`) and `PipeInOrder`
(`PoppedInOrder`), for every number of bytes an interrupt pushes and of interrupts in a
read. `PipeIInv` says for each point inside the unlocked `ringbuf_read` what an
interrupt cannot have undone since the reader looked (`PopPoint`: the lead is only
given up by the reader, a byte it has seen stays), and what it can rely on if there was
none (`Undisturbed`). The loop of pushes in the handler is a function over its count; `Pushes`
carries a set of reachable rings along it in place of an induction. For the order,
`PopOrder` keeps, beside the cells still to be read, that they have ascending numbers
above all that was popped; while the reader stands at the end of the buffer and has
given up its lead (`"wrapped"`), the pointers do not tell full from empty, and only the
hypothesis `ReadIsShort` helps: the interrupts of one read push less than the buffer
holds. In the code that is five bytes against eight; without it the writer could
go all the way round, and bytes would come twice.

The last part of `QueueProofs` proves `MessagesAlwaysInOrder` and `SlotsAlwaysSound`, the
invariants of the slots in `queues`, for any number and size of the slots, any length of the queue
they come back in and any lengths of messages. `SlotsIInv` says the same of the two
directions:

* Slots are used in turn. `vchiq_release_slot` puts the slot the reader leaves behind the
  others, so `slot_queue_recycle` is the number of slots the reader has left plus `SLOTS`,
  and a position alone tells its slot (`QueueSound`, `InTurn`). `SlotsConserved` follows:
  `SLOTS` turns in a row meet every slot once.
* The messages of every slot the writer has not entered again, taken or not, are in
  their cells, headers and payloads, and each leads to the next, directly or over a padding
  header (`HeadersSound`); of the message being filled only as much holds as has been
  stored. The reader's position leads to the first that is not taken (`ReaderSound`).
  `SendHeaders` and `FillHeaders` show that a new message overwrites none of the others.
  That needs the slot it goes to to be less than `SLOTS` ahead of the reader.
* What the clients hold are messages taken, in any selection, where they were written
  (`HeldSound`), although their slots have been given back, and until the VideoCore
  enters those slots again.
* Every slot begins with a message (`SlotsBegun`), and no header reaches over the end of
  its slot (`MemorySound`). A slot that came back is therefore a chain of headers up to its
  end (`WalkedPlaces`), until the ARM enters it again and payloads take the places of headers.

Both theorems have the hypothesis `CallersWait`: callers leave fewer messages unanswered
than the ARM has slots. Nothing in `vchiq_prep_next_header_tx` looks whether a slot has
come back. Each message starts at most one slot after the one before, so the number of
messages bounds how far the writer is ahead; without the bound the invariants are false.
The VideoCore waits for a free slot and needs no such hypothesis.

`UsbProofs` proves of the transfer queue `QueueAlwaysSound`, `NothingEverForgotten` and
`AlwaysReportedWhenDone` for any sets of tasks and chains and any number of channels.
The invariants of the run become inductive (`XferIInv`) with `ListsSound` (no chain is linked
twice, and the rest of the loop over `jobs_running` is a part of it),
`FreeIsEmpty` and `WaitOwns` (a task that waits owns no chain but the one it waits
for, unless it had given one up before), and `WorkAhead`, which
extends `PendingIsNotForgotten` over the loop over `jobs_running`: one waitflag
stands for pending chains and for completions, so a chain can wait without a
wake-up as long as some running job is yet to report.

Of enumeration it proves `RequestsReachTheirDevice`, `TreeAlwaysSound` and
`DevicesLostByLastPort`, all that `usb_tree` checks but its end, for any number of slots,
ports, levels, faults and retries. `EnumerationInvariant` establishes `IInv`, in three layers:

* `Structure`: the devices are a forest in which a child is one port further down
  the bus than its hub (`Forest`), so places order it and no two used slots have one
  place; the calls are a path down from the root hub (`Stack`); a free slot has
  nothing below it and nobody points to it, and every other one is the root hub, at a
  call or a child (`FreeSlots`). The release of a device with everything below it is a function on the
  tree; what it returns (`Releases`) is shown level by level from the leaves.
* `Progress`: a port that the loop of its hub is past has a child, is empty or has
  failed (`PortsPast`), the children of a hub are at ports already dealt with (`Kids`), and
  an error on its way up is that of a failed place (`FailureNoted`).
* `Contents`: class, address and state of the devices at each step (`Class`,
  `Addresses`, `Lateness`). As long as nothing has failed only the device at the
  innermost call answers at address 0.

Of `TreeSound`, `SlotsAccounted` counts the slots reached from the roots. That every
used slot is reached follows from a least slot in the order of the places that would
not be; that none is reached twice, from the places. The slots are therefore as many as
the list of free ones and the trees together hold.

`UsbMassProofs` proves `OkCanBeReliedOn` (`[]OkIsTrue`) for any number of channels, packets,
reads and faults. The difficulty is that a transfer outlives the command that has
stopped waiting for it, and can be served during a later one. `IInv` follows two lines:
a status with the tag of the command under way was sent for it (`StatusIsSent`); and for
a read that began without a stray data transfer (`ReadInv`) there is one transfer that
can write to its buffer, the device's packets are in step with it or behind it, and
every status comes after the data. A good status without data would break
this; only a command without data has one, the second of the set-up, and
`FirstServedAlone` and `LaterHaveData` show that it has left no wrapper behind when
the later commands run, since `usb_mass_init` stops where it fails.

`MmalProofs` proves `CallsAlwaysSound` and `BuffersAlwaysSound` for any number of buffers and
of contexts in the pool. `CallsSound` says what must not happen when a message arrives; what
makes it inductive says where everything is:

* `ScriptAlwaysFits`: what the script has at each place (`Fits`): one connect, the two
  services, the create, disable and destroy of the info component, an import for each
  buffer, the hand-over, the first capture. Its length depends on the number of buffers;
  the rest of the proof uses `Fits` and nothing else of it.
* `MainAwaited`: what the task waits for is in exactly one of four places, a request
  under way, its answer, the context of the call, or `state_waitflag`; and in none when
  the task does not wait. `AnswersFit` adds that it belongs to the call the task is in: the right
  service, the transaction number the context was given, the right kind. `IoAwaited` is
  the same of the io thread. Neither holds of a call that could time out, and none does.
* `PoolSound`: only the first context of the pool is ever taken, by the import under way,
  and the two counters are in step.
* `Placed` and `PortFilled`: what has been opened, enabled and imported at each place
  of the script; `data_callback` is set before anything that could be answered with data.
* `BuffersKept` and `CapturesKept`: each buffer, and the one capture, counted over the two
  streams, the list of work and the VideoCore.
* `WakeUps`: an item for every wake-up of the io thread, and without one fewer items than
  buffers. The second part needs that items are of different buffers, and counts them
  (`WorkFits`); it is what `NotAllBuffersStuck` rests on.

`CallsSound` is about synchronous calls, the task and the io thread. Answers to buffer
messages wake nobody (`DispatchStaleInv`); that they too find the service's callback
set needs a second induction (`StaleLate`), as they come only after the hand-over. The BUG
of the loop thread is not in `NoBug`, since it can be hit (section 5); the
invariants hold up to it.

`SdImageProofs` proves the three invariants of `sd_image` for every geometry (start,
reserved sectors, number and size of the FATs, sectors per cluster, slots per
sector) with FATs of fewer than 65536 sectors, of whose number the code reads 16 bits, every chain of the file, every length of file and image and any number of
faults and restarts, in three layers, each resting on the ones before:

* `SetupAlwaysSound`, from `SetupReached` (how far the set-up has come at each
  command; behind CMD7 the lines need not be free, and then no block is moved), `FormatKnown` and `Bookkeeping` (nothing is lost before the directory is
  read; a lost transfer leaves the lines inhibited).
* `StrayAlwaysExplained`. `FileWalk` is the heart: while a file is written either
  one of the recorded losses has happened, or the walk is in the k-th cluster of the
  file with `src` and `left` in step with it (`OnTrack`). `DirWalk` says the same of
  the directory. `NextOnTrack` is the step along the chain: as long as no stray
  sector lies in the FAT its entries are those of the formatted card (`FatClean`).
  The arithmetic of places is in `OneSector`, `FileSectorAt` and
  `FileSectorsDiffer`.
* `ImageAlwaysWritten`. That `ERR_OK` means written *no further* than the chain is
  walked needs `Unreached`: no earlier attempt has written an unreachable sector of
  the file. A walk that starts at a garbage cluster threatens it; `Adrift` bounds
  such a walk to two sectors and shows that it gets to an unreachable sector of the
  file only by having overwritten the FAT, after which the card is not used again.

The assumptions are the named `ASSUME`s of `Sched`, `Spinlock`, `Semaphore`,
`RingBuf`, `RingBufFifo`, `Pipe`, `VchiqSlots`, `Mmal`, `UsbXfer`, `UsbTree`, `UsbMass` and
`SdImage`, which TLC evaluates in their runs, `ReadIsShort` for the order of the pipe and
`CallersWait` for the VideoCore slots.
They ask for numbers that are not negative or not zero where the code has sizes, for a
`NONE` that is neither task nor chain, for a read of at least two packets, for two
VideoCore slots or more and messages shorter than a slot, and of the card for at least two
data clusters, at least two slots in a sector of the directory and a FAT with an entry for every cluster, in fewer than 65536 sectors.

Only model-checked: liveness and fairness, which the prover does not handle. Every safety
property of a run that holds is the subject of a theorem.
`ImplementsEventFlag` is stated for cooperative tasks. With preemption and two
consumers of one flag the second store of the fast path can wipe out a signal meant
for the other, and the mapping fails; every waitflag in the tree is waited for by one task.

## 5. Where the code and its comments part

Disagreements that came up while modelling, with the property that bounds what
remains true:

* The BUG of `pipe.c:16` says that `pipe_pop` "should wait until char appears in buf".
  `pipe_push` raises the waitflag also for a byte the ring dropped, and an interrupt
  inside the unlocked `ringbuf_read` changes the pointers under it, so a woken pop can
  find nothing and panic, or hand `ring_memcpy` a negative size (`PipeInv`,
  `PoppedInOrder`).
* `sched.c:35` calls the scheduler preemptive; `SCHED_REARM_TIMER` is commented out
  in `scheduler_init` and `preemption_by_timer` is false. A task that does not yield
  keeps the CPU, so `RunnableRuns` is checked for tasks that do.
* `sched.h:47` says a task is rescheduled when `ticks_left` is 0, but the fast path of
  `wait_on_waitflag` takes a flag without decrementing `waitflag_is_set`, and once the
  counter stays raised every tick preempts. `CounterCoversSetFlags` says it is never
  too low, which is what the waiters need.
* `sched.c:338` asserts "waitflag_is_set value below 0" never to be. The waitflag of a
  semaphore is not initialised, and one that begins set is taken for a wake-up that
  nobody counted (`CounterNotBelowZero` is violated in `sched_stack`).
* `ringbuf_write` with the reader ahead reports bytes it does not keep
  (`KeptUnlessWrapped`).
* `__semaphore_down` tests its waitflag after `wait_on_waitflag` has cleared it, so a
  single up does not end a blocked down, and its waiter stays linked, so that later ups
  go to a dead frame. `vchiq_core.c:1588` expects one up to do (`UpEndsDown` is violated
  in `semaphore_up`); what remains is that no unit is handed out twice (`NoOverGrant`).
* `dwc2.c:679` says a transfer is reported when it is complete; in split mode the
  handlers of NAK and NYET fall through to the report (`HighSpeedReportedWhenDone`
  holds without split mode).
* `hcd_transfer.c:413` gives up after 200 rounds of 100 ms, but each round sleeps in `wfe`
  with no tick armed: beside a dead transfer the limit need never be looked at
  (`ReadsEnd` allows that sleep, and no other).
* `hcd_transfer_bulk` reports a transfer that timed out as `ERR_OK`, so the retries of
  `usb_cbw_transfer` never happen; `usb_mass_reset_recovery` clears the halt of the
  endpoint OUT twice and of the endpoint IN never, and sends no reset; and
  `usb_mass_read10` does not look at the status "failed". `OkMeansRead` is for reads
  with status good and no data transfer left behind.
* `vchiq_event_wait` tests `fired` before it stores `armed` and not again: a signal in
  between is seen with the next one only. `ArmedSignalServed` is for signals after the
  event is armed; `SetupEnds` has the lost signal as its one wait without end.
* `vchiq_2835_arm.c:417` says that the new position is made visible when the message is
  prepared; `vchiq_prep_next_header_tx` stores it (l.342) before size, identifier and
  payload, and the VideoCore may read what stood there before (`VcReceive` of a message being
  filled; `ReadInOrder` holds for all other messages).
* `vchiq_process_free_queue` walks over a slot that was given back some time ago. If the
  ARM has come round to it since, the walk may take a payload for a header and meet the BUG of l.2046
  (`WalkEndsAtSlotEnd` says how long it holds).
* `mmal-msg.h:94` speaks of a context number for each message; `vchiq_mmal_buffer_from_host`
  sends the address of a context in its own frame and returns, with several such
  messages under way at once. `ContextsAlive` holds for the calls that wait.
* `vchiq_2835_arm.c:1985` returns an `err` that a CONNECT never sets, and the loop thread has
  a BUG for any value but zero. The model takes either value, and `NoBug` leaves that BUG out.
* `vchiq_io_thread` takes one item for each wake-up, while two pushes may raise one:
  the last buffer of a frame can stay in the list and the camera stops. That is not
  stated as a property; `NotAllBuffersStuck` and `WakeFindsWork` bound it.
* `fat32_lookup` returns 0 for an absent file, `fat32_get_next_cluster_num` returns an
  error as a cluster number, and compares a sector of the partition with the length
  of the FAT (`StrayOnlyWhenLost`, `OkMeansWritten`). `fat32_get_sectors_per_fat` reads 16
  bits of a 32-bit field.
* `emmc_do_issue_cmd` does not look at the error bit while the card is busy after CMD7, so
  `emmc_reset` may report success with lines inhibited and the two ends on different data
  lines; the first block is then not moved (`SelectedBeforeData`).
* `__armv8_spinlock_unlock` has its barrier behind the store that unlocks
  (`LostOnlyByLateStore`).

## 6. Not modelled

The parts without a module in section 2, for the reasons `components` gives. In
short: third-party code (most of vchiq, the camera driver, their headers, which make
up the larger part of the repository's lines), tables of register addresses
and bits, register programming of single devices, drawing, and what section 7
plans. `main()` of this commit stops in a loop right after `init1()`; the modules
describe the kernel that the code behind that loop starts.

Hazards of unmodelled code that came up while reading, beside those in `hazards`:

* `semaphore.c:64`: `down_trylock` at zero wraps the count (it has no caller).
* `usb_xfer_queue.c:46`: with all chains in use the allocator returns NULL, which
  `IS_ERR` does not recognise; dead bulk transfers get there after 64 timeouts.
* `include/memory/static_slot.h:21`: allocation and release without a lock.
* `sched.c:150`: two CPUs that create tasks at once can take the same task, stack or
  pid from plain counters.
* `kmalloc.c:41`, `kmalloc.c:143`, `kmalloc.c:26`: `kfree` shifts the offset the wrong
  way and looks for the size class beyond the address; the bitmap has no lock.
* `tft_lcd.c:302`: the last copy of `READ_SIZE` of a frame runs past the frame, for the
  last frame past `tft_lcd_canvas`.
* `dma_memory.c:77`, `:120`: an address at the start of an area is taken for one of
  the area before; an empty free list is not noticed.
* `exception.c:118`: the count of another table is tested.

## 7. Plan

Done, in this order: scheduler, its abstract specification and its proof; ring and
pipe; semaphore; USB transfers; VideoCore slots and camera client; USB enumeration
and mass storage commands; the image writer down to the SD commands; spinlock and its proof; the semaphore's
proof; the proofs of the ring, the USB transfer queue, the refinement of `EventFlag` and
the image writer; those of the pipe, USB enumeration, the mass storage commands, the
VideoCore slots and the camera client.

Next:

1. `Kmalloc` and `DmaMemory`: size classes, bitmap, address arithmetic of free; an
   abstract allocator (disjoint live blocks, free undoes alloc) that both are
   measured against.
2. `SmpBoot`: task creation on several CPUs.
3. The slot allocator below `UsbXfer` without its atomicity.
4. Mailbox, command line, and pure functions against reference definitions.
