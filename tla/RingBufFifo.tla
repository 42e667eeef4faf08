---------------------------- MODULE RingBufFifo ----------------------------
(***************************************************************************)
(* The ring used as a queue: writes and reads of any length.  Bytes are    *)
(* numbered in the order in which the callers hand them over.              *)
(***************************************************************************)
EXTENDS RingBuf

CONSTANT MAX_IO         \* the longest read or write

ASSUME LengthAssumption == MAX_IO \in Nat

VARIABLES
  handed,               \* the number of the last byte handed over
  owed,                 \* bytes reported as written and not read yet
  got                   \* the bytes the last read returned

vars == <<ring, handed, owed, got>>

Init ==
  /\ ring = ringbuf_init
  /\ handed = 0
  /\ owed = {}
  /\ got = << >>

(* ringbuf_write of n bytes; the caller sees how many were taken.          *)
Write(n) ==
  LET src == [i \in 1..n |-> handed + i]
  IN  /\ handed + n <= MAX_BYTES
      /\ ring' = ringbuf_write(ring, src)
      /\ handed' = handed + n
      /\ owed' = owed \cup {src[i] : i \in 1..WriteProgress(ring, n)}
      /\ got' = << >>

(* ringbuf_read of up to n bytes.                                          *)
Read(n) ==
  /\ ring' = ringbuf_read(ring, n)
  /\ got' = ReadBytes(ring, n)
  /\ owed' = {b \in owed : \A i \in 1..Len(got') : b > got'[i]}
  /\ UNCHANGED handed

Next == \E n \in 1..MAX_IO : Write(n) \/ Read(n)

Spec == Init /\ [][Next]_vars

TypeOK ==
  /\ ring.write_ptr \in 0..SZ /\ ring.read_ptr \in 0..SZ
  /\ ring.read_is_ahead \in BOOLEAN
  /\ ring.cells \in [0..(SZ - 1) -> 1..MAX_BYTES \cup {NOBYTE}]
  /\ handed \in 0..MAX_BYTES /\ owed \subseteq 1..handed

(* The lengths that ringbuf_read and ringbuf_write hand to ring_memcpy are *)
(* differences of pointers that must not be negative: the writer is never  *)
(* past a reader that is ahead, nor the reader past a writer that is.      *)
PointersOrdered ==
  IF ring.read_is_ahead THEN ring.write_ptr <= ring.read_ptr
                        ELSE ring.read_ptr <= ring.write_ptr

(* A read returns bytes that were reported as written and not returned     *)
(* before, in the order they were written, and never a cell that was not   *)
(* written: whatever wrapping, partial writes and partial reads came       *)
(* before.                                                                 *)
ReadsInOrder ==
  [][\A n \in 1..MAX_IO : Read(n) =>
       /\ \A i \in 1..Len(got') : got'[i] \in owed
       /\ \A i \in 1..(Len(got') - 1) : got'[i] < got'[i + 1]]_vars

(* What ringbuf_write takes is all that fits: a write is cut short only    *)
(* when the cells that hold unread bytes leave no room.                    *)
WriteTakesWhatFits ==
  \A n \in 1..MAX_IO : WriteProgress(ring, n) = Smaller(n, SZ - Len(Unread(ring)))

(* The pointers stay inside the buffer and in order, and the room a write  *)
(* finds is the room there is, after any sequence of ringbuf_read and      *)
(* ringbuf_write.                                                          *)
RingInv == TypeOK /\ PointersOrdered /\ WriteTakesWhatFits

(* Every byte reported as written is there to be read, in its place, as    *)
(* long as the reader is not ahead; a write behind a reader that is ahead  *)
(* adds nothing, whatever it reports, and spoils nothing (ringbuf_write).  *)
KeptUnlessWrapped ==
  [][\A n \in 1..MAX_IO : Write(n) =>
       Unread(ring') = Unread(ring) \o
         (IF ring.read_is_ahead THEN << >> ELSE [i \in 1..WriteProgress(ring, n) |-> handed + i])]_vars
=============================================================================
