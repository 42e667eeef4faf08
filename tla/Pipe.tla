-------------------------------- MODULE Pipe --------------------------------
(***************************************************************************)
(* The receive path of the UART: the interrupt handler pushes bytes into a *)
(* pipe, the I/O thread pops them one by one.  pipe_push holds the pipe's  *)
(* lock with interrupts disabled; pipe_pop takes no lock, so an interrupt  *)
(* may land between any two memory accesses of its ringbuf_read.  The      *)
(* waitflag is the event flag of module EventFlag.  Bytes are numbered in  *)
(* the order in which they are pushed.                                     *)
(***************************************************************************)
EXTENDS RingBuf

CONSTANTS
  MAX_PUSH,             \* bytes one interrupt pushes: error marks, then data
  IRQS_PER_READ         \* bound on the interrupts during one ringbuf_read

ASSUME PipeAssumption == MAX_PUSH \in Nat \ {0} /\ IRQS_PER_READ \in Nat

VARIABLES
  flag,                 \* p->waitflag
  pushed,               \* the number of bytes pushed so far
  pc,                   \* where the I/O thread is in pipe_pop
  io_sz,                \* the io_sz of its ringbuf_read
  popped,               \* the byte the last pipe_pop returned, 0 for none
  irqs                  \* interrupts since its ringbuf_read began

pipeVars == <<ring, flag, pushed, pc, io_sz, popped, irqs>>

(* "wait" in wait_on_waitflag; "branch" before ringbuf_read looks at       *)
(* read_is_ahead; "ahead", "wrapped", "compare", "again" and "copy" inside *)
(* it; "panic" in the BUG of pipe_pop, "corrupt" once ring_memcpy was      *)
(* handed a size the destination does not have.                            *)
Points == {"wait", "branch", "ahead", "wrapped", "compare", "again", "copy",
           "panic", "corrupt"}
InRead == {"ahead", "wrapped", "compare", "again", "copy"}
Halted == pc \in {"panic", "corrupt"}

(* pipe_init.                                                              *)
PipeInit ==
  /\ ring = ringbuf_init
  /\ flag = FALSE
  /\ pushed = 0
  /\ pc = "wait"
  /\ io_sz = 0
  /\ popped = 0
  /\ irqs = 0

(* The ring after k calls of pipe_push.                                    *)
PushAll(k) ==
  LET after[i \in 0..k] ==
        IF i = 0 THEN ring ELSE ringbuf_write(after[i - 1], <<pushed + i>>)
  IN  after[k]

(* pl011_uart_handle_interrupt: every push writes one byte and wakes the   *)
(* waitflag, whether or not the ring took the byte.                        *)
Irq(k) ==
  /\ ~Halted
  /\ pushed + k <= MAX_BYTES
  /\ pc \in InRead => irqs < IRQS_PER_READ
  /\ irqs' = IF pc \in InRead THEN irqs + 1 ELSE 0
  /\ ring' = PushAll(k)
  /\ flag' = TRUE
  /\ pushed' = pushed + k
  /\ UNCHANGED <<pc, io_sz, popped>>

(* pipe_pop: wait_on_waitflag returns and has cleared the flag.            *)
PopTake ==
  /\ pc = "wait" /\ flag
  /\ flag' = FALSE
  /\ pc' = "branch"
  /\ UNCHANGED <<ring, pushed, io_sz, popped, irqs>>

(* ringbuf_read loads read_is_ahead.                                       *)
PopBranch ==
  /\ pc = "branch"
  /\ pc' = IF ring.read_is_ahead THEN "ahead" ELSE "compare"
  /\ irqs' = 0
  /\ UNCHANGED <<ring, flag, pushed, io_sz, popped>>

Return(byte) == popped' = byte /\ pc' = "wait"

(* The reader is ahead and not at the end: one byte, and nothing is left   *)
(* to read for the second copy.                                            *)
PopAhead ==
  /\ pc = "ahead" /\ ring.read_ptr < SZ
  /\ Return(ring.cells[ring.read_ptr])
  /\ ring' = [ring EXCEPT !.read_ptr = @ + 1]
  /\ UNCHANGED <<flag, pushed, io_sz, irqs>>

(* Mutant: the reader keeps its lead when it wraps.                        *)
PopUnwrapAhead ==
  /\ pc = "ahead" /\ ring.read_ptr = SZ
  /\ pc' = IF ring.write_ptr # 0 THEN "wrapped" ELSE "panic"
  /\ UNCHANGED <<ring, flag, pushed, io_sz, popped, irqs>>

(* The reader is ahead and at the end: it gives up its lead first, and     *)
(* copies the byte at the start and moves read_ptr after that.             *)
PopUnwrap ==
  /\ pc = "ahead" /\ ring.read_ptr = SZ
  /\ IF ring.write_ptr # 0
       THEN ring' = [ring EXCEPT !.read_is_ahead = FALSE] /\ pc' = "wrapped"
       ELSE pc' = "panic" /\ UNCHANGED ring
  /\ UNCHANGED <<flag, pushed, io_sz, popped, irqs>>

PopWrapped ==
  /\ pc = "wrapped"
  /\ Return(ring.cells[0])
  /\ ring' = [ring EXCEPT !.read_ptr = 1]
  /\ UNCHANGED <<flag, pushed, io_sz, irqs>>

(* min(write_ptr - read_ptr, sz) with sz = 1, a macro: the difference is   *)
(* computed to be compared and, when it is the smaller one, once more to   *)
(* be used.                                                                *)
PopCompare ==
  /\ pc = "compare"
  /\ IF ring.write_ptr - ring.read_ptr < 1
       THEN pc' = "again" /\ UNCHANGED io_sz
       ELSE pc' = "copy" /\ io_sz' = 1
  /\ UNCHANGED <<ring, flag, pushed, popped, irqs>>

PopAgain ==
  /\ pc = "again"
  /\ io_sz' = ring.write_ptr - ring.read_ptr
  /\ pc' = "copy"
  /\ UNCHANGED <<ring, flag, pushed, popped, irqs>>

(* Mutant: read_ptr wraps by itself at the end of the buffer.              *)
PopCopyWraps ==
  /\ pc = "copy"
  /\ IF io_sz = 1
       THEN /\ Return(ring.cells[ring.read_ptr])
            /\ ring' = [ring EXCEPT !.read_ptr = IF @ + 1 = SZ THEN 0 ELSE @ + 1]
       ELSE /\ pc' = IF io_sz = 0 THEN "panic" ELSE "corrupt"
            /\ UNCHANGED <<ring, popped>>
  /\ UNCHANGED <<flag, pushed, io_sz, irqs>>

(* The copy into the one byte of pipe_pop, and its BUG when ringbuf_read   *)
(* returned something other than 1.                                        *)
PopCopy ==
  /\ pc = "copy"
  /\ IF io_sz = 1
       THEN /\ Return(ring.cells[ring.read_ptr])
            /\ ring' = [ring EXCEPT !.read_ptr = @ + 1]
       ELSE /\ pc' = IF io_sz = 0 THEN "panic" ELSE "corrupt"
            /\ UNCHANGED <<ring, popped>>
  /\ UNCHANGED <<flag, pushed, io_sz, irqs>>

Pop == \/ PopTake \/ PopBranch \/ PopAhead \/ PopUnwrap \/ PopWrapped
       \/ PopCompare \/ PopAgain \/ PopCopy

PipeNext == Pop \/ \E k \in 1..MAX_PUSH : Irq(k)

PipeSpec == PipeInit /\ [][PipeNext]_pipeVars

PipeTypeOK ==
  /\ ring.write_ptr \in 0..SZ /\ ring.read_ptr \in 0..SZ
  /\ ring.read_is_ahead \in BOOLEAN
  /\ ring.cells \in [0..(SZ - 1) -> 1..MAX_BYTES \cup {NOBYTE}]
  /\ flag \in BOOLEAN
  /\ pushed \in 0..MAX_BYTES
  /\ pc \in Points
  /\ io_sz \in Int
  /\ popped \in 0..MAX_BYTES
  /\ irqs \in 0..IRQS_PER_READ

(* However the interrupts fall into an unlocked ringbuf_read, the pointers *)
(* it leaves behind are in the order read_is_ahead says.                   *)
QuiescentOrdered ==
  pc = "wait" => IF ring.read_is_ahead THEN ring.write_ptr <= ring.read_ptr
                                       ELSE ring.read_ptr <= ring.write_ptr

(* pipe_pop copies a size it has no room for only when an interrupt came   *)
(* between its look at read_is_ahead and its computation of the size; an   *)
(* undisturbed pop that finds nothing ends in its BUG.                     *)
CorruptOnlyByInterrupt == pc = "corrupt" => irqs > 0

(* The two with the types: no interrupt inside ringbuf_read drives a       *)
(* pointer out of the buffer.                                              *)
PipeInv == PipeTypeOK /\ QuiescentOrdered /\ CorruptOnlyByInterrupt

(* pipe_pop returns every byte at most once and in the order the interrupt *)
(* handler pushed them; bytes may be missing, never repeated or swapped.   *)
PoppedInOrder ==
  [][(pc # "wait" /\ pc' = "wait") => popped' > popped]_pipeVars
=============================================================================
