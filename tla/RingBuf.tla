------------------------------ MODULE RingBuf ------------------------------
(***************************************************************************)
(* The byte ring of ringbuf.c: its state and operators on it.  A ring is a *)
(* record of the cells, the two pointers as offsets from buf, and          *)
(* read_is_ahead.  A pointer ranges over 0..SZ: SZ is buf_end, one past    *)
(* the last cell.                                                          *)
(***************************************************************************)
EXTENDS Integers, Sequences

CONSTANTS
  SZ,                   \* the size of the buffer
  NOBYTE,               \* what a cell holds before anything is written
  MAX_BYTES             \* bound on the bytes written to the ring

ASSUME SizeAssumption == SZ \in Nat \ {0} /\ MAX_BYTES \in Nat

VARIABLE ring           \* the ringbuf_t

Smaller(a, b) == IF a < b THEN a ELSE b

(* Mutant: the second copy starts from the beginning of the source again.  *)
StoreFromStart(cells, at, src, from, n) ==
  [c \in 0..(SZ - 1) |-> IF c \in at..(at + n - 1) THEN src[1 + (c - at)] ELSE cells[c]]

(* ring_memcpy: n bytes of src, from its byte from + 1 on, go to the cells *)
(* at and onwards.                                                         *)
Store(cells, at, src, from, n) ==
  [c \in 0..(SZ - 1) |->
     IF c \in at..(at + n - 1) THEN src[from + 1 + (c - at)] ELSE cells[c]]

(* ring_memcpy out of the ring: the n cells at and onwards.                *)
Load(cells, at, n) == [i \in 1..n |-> cells[at + i - 1]]

ringbuf_init ==
  [cells |-> [c \in 0..(SZ - 1) |-> NOBYTE], write_ptr |-> 0, read_ptr |-> 0,
   read_is_ahead |-> FALSE]

(* The two copies ringbuf_write makes.  With the reader ahead it makes one *)
(* copy and leaves write_ptr alone.                                        *)
WriteFirst(r, n) ==
  Smaller(IF r.read_is_ahead THEN r.read_ptr - r.write_ptr
                             ELSE SZ - r.write_ptr, n)
(* The copy to the start of the buffer, up to the reader.                  *)
WriteWrapped(r, n) ==
  IF r.read_is_ahead THEN 0 ELSE Smaller(r.read_ptr, n - WriteFirst(r, n))

(* The bytes ringbuf_write says it has written.                            *)
WriteProgress(r, n) == WriteFirst(r, n) + WriteWrapped(r, n)

(* Where ringbuf_write leaves write_ptr.                                   *)
WritePtr(r, n) ==
  IF WriteWrapped(r, n) # 0 THEN WriteWrapped(r, n)
  ELSE IF r.read_is_ahead THEN r.write_ptr
  ELSE r.write_ptr + WriteFirst(r, n)

ringbuf_write(r, src) ==
  LET n == Len(src)
      first == WriteFirst(r, n)
      wrapped == WriteWrapped(r, n)
      copied == Store(r.cells, r.write_ptr, src, 0, first)
  IN  [cells |-> Store(copied, 0, src, first, wrapped),
       write_ptr |-> WritePtr(r, n),
       read_ptr |-> r.read_ptr,
       read_is_ahead |-> r.read_is_ahead \/ wrapped # 0]

(* The two copies ringbuf_read makes of at most n bytes.                   *)
ReadFirst(r, n) ==
  Smaller(IF r.read_is_ahead THEN SZ - r.read_ptr
                             ELSE r.write_ptr - r.read_ptr, n)
ReadWrapped(r, n) ==
  IF r.read_is_ahead THEN Smaller(r.write_ptr, n - ReadFirst(r, n)) ELSE 0

(* The bytes ringbuf_read returns.                                         *)
ReadBytes(r, n) ==
  Load(r.cells, r.read_ptr, ReadFirst(r, n)) \o Load(r.cells, 0, ReadWrapped(r, n))

(* Mutant: the reader wraps without giving up its lead.                    *)
AheadKept(r, n) == r.read_is_ahead

(* read_is_ahead after ringbuf_read.                                       *)
AheadAfter(r, n) == r.read_is_ahead /\ ReadWrapped(r, n) = 0

(* Mutant: the reader wraps to the start instead of behind what it read.   *)
ReadPtrToStart(r, n) ==
  IF ReadWrapped(r, n) # 0 THEN 0 ELSE r.read_ptr + ReadFirst(r, n)

(* Where ringbuf_read leaves read_ptr.                                     *)
ReadPtr(r, n) ==
  IF ReadWrapped(r, n) # 0 THEN ReadWrapped(r, n) ELSE r.read_ptr + ReadFirst(r, n)

ringbuf_read(r, n) ==
  [r EXCEPT !.read_ptr = ReadPtr(r, n), !.read_is_ahead = AheadAfter(r, n)]

(* The unread bytes, oldest first.                                         *)
Unread(r) == ReadBytes(r, SZ)
=============================================================================
