---------------------------- MODULE QueueProofs ----------------------------
(***************************************************************************)
(* The byte ring for any size of the buffer and any sequence of reads and  *)
(* writes, and the pipe on it, whose reads are interrupted by writes.      *)
(*                                                                         *)
(* The proofs look at the unread bytes through their positions: the i-th   *)
(* one is i - 1 cells after the read pointer, around the end of the        *)
(* buffer.  A write leaves these cells alone and fills the next ones, a    *)
(* read moves the first position on.                                       *)
(*                                                                         *)
(* A read of the pipe has looked at the ring before an interrupt changed   *)
(* it.  What it found is still true of the reader's side, which interrupts *)
(* leave alone, and the bytes it is going to copy are old ones as long as  *)
(* the interrupts have not filled the whole buffer in the meantime.        *)
(*                                                                         *)
(* The last part is about the slots the ARM and the VideoCore exchange     *)
(* messages in.  A slot that is given back goes behind the others in the   *)
(* queue, so slots are used in turn and a position alone tells its slot.   *)
(* The reader gives back as many slots as it has left, which is why a      *)
(* writer less than SLOTS slots ahead of it overwrites no message that has *)
(* not been taken.  Payloads overwrite old headers, so the headers that    *)
(* lead through a slot are those of the messages after its last beginning. *)
(***************************************************************************)
EXTENDS RingBufFifo, Pipe, VchiqSlots, ListTheorems

Bytes == 1..MAX_BYTES \cup {NOBYTE}
Cells == [0..(SZ - 1) -> Bytes]
Rings == [cells : Cells, write_ptr : 0..SZ, read_ptr : 0..SZ, read_is_ahead : BOOLEAN]

(* PointersOrdered for any ring.                                           *)
Ordered(r) ==
  IF r.read_is_ahead THEN r.write_ptr <= r.read_ptr ELSE r.read_ptr <= r.write_ptr

(* How many bytes are unread, and the cell that holds the i-th of them.    *)
Count(r) == IF r.read_is_ahead THEN SZ - r.read_ptr + r.write_ptr
                               ELSE r.write_ptr - r.read_ptr
Cell(r, i) == IF r.read_ptr + i <= SZ THEN r.read_ptr + i - 1 ELSE r.read_ptr + i - 1 - SZ

(* The unread bytes are owed to the reader, in the order of their numbers. *)
UnreadOwed ==
  /\ \A i \in 1..Count(ring) : ring.cells[Cell(ring, i)] \in owed
  /\ \A i, j \in 1..Count(ring) :
       i < j => ring.cells[Cell(ring, i)] < ring.cells[Cell(ring, j)]

IInv ==
  /\ ring \in Rings /\ Ordered(ring)
  /\ handed \in 0..MAX_BYTES /\ owed \subseteq 1..handed
  /\ UnreadOwed

USE SizeAssumption, LengthAssumption

----------------------------------------------------------------------------
(* A function on 1..n is a sequence of length n.                           *)
LEMMA FunctionIsSeq ==
  ASSUME NEW T, NEW n \in Nat, NEW s \in [1..n -> T]
  PROVE  s \in Seq(T) /\ Len(s) = n
<1>1. s \in Seq(T)
  BY SeqDef
<1>2. Len(s) \in Nat /\ DOMAIN s = 1..Len(s) /\ DOMAIN s = 1..n
  BY <1>1, LenProperties
<1> QED
  BY <1>1, <1>2

(* ring_memcpy out of the ring copies the cells it is told to.             *)
LEMMA LoadFacts ==
  ASSUME NEW cells \in Cells, NEW at \in Nat, NEW n \in Nat, n = 0 \/ at + n <= SZ
  PROVE  /\ Load(cells, at, n) \in Seq(Bytes) /\ Len(Load(cells, at, n)) = n
         /\ \A i \in 1..n : Load(cells, at, n)[i] = cells[at + i - 1]
<1>1. \A i \in 1..n : at + i - 1 \in 0..(SZ - 1)
  OBVIOUS
<1>2. Load(cells, at, n) \in [1..n -> Bytes]
  BY <1>1 DEF Load, Cells
<1>3. \A i \in 1..n : Load(cells, at, n)[i] = cells[at + i - 1]
  BY DEF Load
<1> HIDE DEF Load
<1> QED
  BY <1>2, <1>3, FunctionIsSeq

(* The lengths ringbuf_read computes.                                      *)
LEMMA ReadLengths ==
  ASSUME NEW r \in Rings, Ordered(r), NEW n \in Nat
  PROVE  /\ ReadFirst(r, n) \in Nat /\ ReadWrapped(r, n) \in Nat /\ Count(r) \in 0..SZ
         /\ ReadFirst(r, n) + ReadWrapped(r, n) = Smaller(n, Count(r))
         /\ r.read_ptr + ReadFirst(r, n) <= SZ /\ ReadWrapped(r, n) <= r.write_ptr
         /\ ReadWrapped(r, n) # 0 => r.read_is_ahead /\ r.read_ptr + ReadFirst(r, n) = SZ
<1>1. r.read_ptr \in 0..SZ /\ r.write_ptr \in 0..SZ /\ r.read_is_ahead \in BOOLEAN
  BY DEF Rings
<1>2. CASE r.read_is_ahead
  BY <1>1, <1>2 DEF Ordered, ReadFirst, ReadWrapped, Count, Smaller
<1>3. CASE ~r.read_is_ahead
  BY <1>1, <1>3 DEF Ordered, ReadFirst, ReadWrapped, Count, Smaller
<1> QED
  BY <1>2, <1>3

(* ringbuf_read returns the first unread bytes, as many as it is asked for *)
(* and has.                                                                *)
LEMMA ReadBytesFacts ==
  ASSUME NEW r \in Rings, Ordered(r), NEW n \in Nat
  PROVE  /\ ReadBytes(r, n) \in Seq(Bytes) /\ Len(ReadBytes(r, n)) = Smaller(n, Count(r))
         /\ \A i \in 1..Smaller(n, Count(r)) : ReadBytes(r, n)[i] = r.cells[Cell(r, i)]
<1> DEFINE a == ReadFirst(r, n)
           b == ReadWrapped(r, n)
           c == r.cells
           p == r.read_ptr
           k == Smaller(n, Count(r))
           s == Load(c, p, a)
           u == Load(c, 0, b)
<1>1. c \in Cells /\ p \in Nat
  BY DEF Rings
<1>2. /\ a \in Nat /\ b \in Nat /\ a + b = k
      /\ p + a <= SZ /\ b <= SZ /\ (b # 0 => p + a = SZ)
  <2>1. r.write_ptr \in 0..SZ
    BY DEF Rings
  <2> QED
    BY <2>1, ReadLengths
<1>3. ReadBytes(r, n) = s \o u
  BY DEF ReadBytes
<1>4. \A i \in 1..k : Cell(r, i) = IF p + i <= SZ THEN p + i - 1 ELSE p + i - 1 - SZ
  BY DEF Cell
<1> HIDE DEF a, b, c, p, k
<1>5. /\ s \in Seq(Bytes) /\ Len(s) = a
      /\ \A i \in 1..a : s[i] = c[p + i - 1]
  BY <1>1, <1>2, LoadFacts
<1>6. /\ u \in Seq(Bytes) /\ Len(u) = b
      /\ \A i \in 1..b : u[i] = c[0 + i - 1]
  BY <1>1, <1>2, LoadFacts
<1> HIDE DEF s, u
<1>7. /\ s \o u \in Seq(Bytes) /\ Len(s \o u) = a + b
      /\ \A i \in 1..(a + b) : (s \o u)[i] = IF i <= a THEN s[i] ELSE u[i - a]
  BY <1>5, <1>6, ConcatProperties
<1>8. ASSUME NEW i \in 1..k PROVE (s \o u)[i] = c[Cell(r, i)]
  <2>0. i \in 1..(a + b)
    BY <1>2
  <2>1. CASE i <= a
    <3>1. i \in 1..a /\ p + i <= SZ
      BY <1>1, <1>2, <2>1
    <3> QED
      BY <1>4, <1>5, <1>7, <2>0, <2>1, <3>1
  <2>2. CASE ~(i <= a)
    <3>1. b # 0 /\ i - a \in 1..b
      BY <1>2, <2>0, <2>2
    <3>2. p + a = SZ
      BY <1>2, <3>1
    <3>3. ~(p + i <= SZ) /\ 0 + (i - a) - 1 = p + i - 1 - SZ
      BY <1>1, <1>2, <2>0, <2>2, <3>2
    <3>4. u[i - a] = c[0 + (i - a) - 1]
      BY <1>6, <3>1
    <3>5. Cell(r, i) = 0 + (i - a) - 1
      BY <1>4, <3>3
    <3> QED
      BY <1>7, <2>0, <2>2, <3>4, <3>5
  <2> QED
    BY <2>1, <2>2
<1> QED
  BY <1>2, <1>3, <1>7, <1>8 DEF c, k

(* The unread bytes after ringbuf_read are the ones behind those it        *)
(* returned, and the pointers stay in order.                               *)
LEMMA ReadMoves ==
  ASSUME NEW r \in Rings, Ordered(r), NEW n \in Nat
  PROVE  LET k == Smaller(n, Count(r))
             w == ringbuf_read(r, n)
         IN
         /\ w \in Rings /\ Ordered(w) /\ w.cells = r.cells
         /\ k \in 0..Count(r) /\ Count(w) = Count(r) - k
         /\ \A i \in 1..Count(w) : Cell(w, i) = Cell(r, i + k)
<1> DEFINE k == Smaller(n, Count(r))
           w == ringbuf_read(r, n)
           a == ReadFirst(r, n)
           b == ReadWrapped(r, n)
           p == r.read_ptr
           q == r.write_ptr
<1>1. p \in 0..SZ /\ q \in 0..SZ /\ r.read_is_ahead \in BOOLEAN
  BY DEF Rings
<1>2. /\ a \in Nat /\ b \in Nat /\ Count(r) \in 0..SZ /\ a + b = k
      /\ p + a <= SZ /\ b <= q /\ (b # 0 => r.read_is_ahead /\ p + a = SZ)
  BY ReadLengths
<1>3. /\ w.cells = r.cells /\ w.write_ptr = q
      /\ w.read_ptr = (IF b # 0 THEN b ELSE p + a)
      /\ w.read_is_ahead = (r.read_is_ahead /\ b = 0)
  BY DEF ringbuf_read, ReadPtr, AheadAfter, Rings
<1>4. k \in 0..Count(r)
  BY <1>1, <1>2 DEF Smaller
<1>5. Count(r) = (IF r.read_is_ahead THEN SZ - p + q ELSE q - p)
  BY DEF Count
<1>6. IF r.read_is_ahead THEN q <= p ELSE p <= q
  BY DEF Ordered
<1>7. /\ Ordered(w) <=> (IF r.read_is_ahead /\ b = 0 THEN q <= w.read_ptr ELSE w.read_ptr <= q)
      /\ Count(w) = (IF r.read_is_ahead /\ b = 0 THEN SZ - w.read_ptr + q ELSE q - w.read_ptr)
  BY <1>3 DEF Ordered, Count
<1>8. w \in Rings
  <2>1. w.read_ptr \in 0..SZ
    BY <1>1, <1>2, <1>3
  <2>2. w = [r EXCEPT !.read_ptr = w.read_ptr, !.read_is_ahead = w.read_is_ahead]
    BY DEF ringbuf_read, Rings
  <2>3. w.read_is_ahead \in BOOLEAN
    BY <1>3
  <2> QED
    BY <2>1, <2>2, <2>3 DEF Rings
<1>9. \A i \in Nat : /\ Cell(w, i) = (IF w.read_ptr + i <= SZ THEN w.read_ptr + i - 1
                                                    ELSE w.read_ptr + i - 1 - SZ)
             /\ Cell(r, i + k) = (IF p + (i + k) <= SZ THEN p + (i + k) - 1
                                                       ELSE p + (i + k) - 1 - SZ)
  BY DEF Cell
<1> HIDE DEF a, b, p, q, k, w
<1>10. CASE b # 0
  <2>1. w.read_ptr = b /\ r.read_is_ahead /\ p + a = SZ
    BY <1>2, <1>3, <1>10
  <2>2. Ordered(w) /\ Count(w) = q - b /\ Count(w) = Count(r) - k
    BY <1>1, <1>2, <1>5, <1>7, <1>10, <2>1
  <2>3. ASSUME NEW i \in 1..Count(w) PROVE Cell(w, i) = Cell(r, i + k)
    <3>1. b + i <= SZ /\ ~(p + (i + k) <= SZ) /\ b + i - 1 = p + (i + k) - 1 - SZ
      BY <1>1, <1>2, <1>10, <2>1, <2>2
    <3> QED
      BY <1>9, <2>1, <3>1
  <2> QED
    BY <1>3, <1>4, <1>8, <2>2, <2>3 DEF k, w
<1>11. CASE b = 0
  <2>1. w.read_ptr = p + a /\ k = a
    BY <1>2, <1>3, <1>11
  <2>2. Count(w) = Count(r) - k
    BY <1>1, <1>2, <1>5, <1>7, <1>11, <2>1
  <2>3. Ordered(w)
    BY <1>1, <1>2, <1>4, <1>5, <1>6, <1>7, <1>11, <2>1
  <2>4. ASSUME NEW i \in 1..Count(w) PROVE Cell(w, i) = Cell(r, i + k)
    <3>1. i \in Nat /\ p + a + i = p + (i + k)
      BY <1>1, <1>2, <1>4, <2>1, <2>2
    <3>2. Cell(w, i) = IF p + a + i <= SZ THEN p + a + i - 1 ELSE p + a + i - 1 - SZ
      BY <1>9, <2>1, <3>1
    <3>3. Cell(r, i + k) = IF p + (i + k) <= SZ THEN p + (i + k) - 1 ELSE p + (i + k) - 1 - SZ
      BY <1>9, <3>1
    <3> QED
      BY <1>1, <1>2, <3>1, <3>2, <3>3
  <2> QED
    BY <1>3, <1>4, <1>8, <2>2, <2>3, <2>4 DEF k, w
<1> QED
  BY <1>10, <1>11 DEF k, w

(* The lengths ringbuf_write computes.                                     *)
LEMMA WriteLengths ==
  ASSUME NEW r \in Rings, Ordered(r), NEW n \in Nat
  PROVE  /\ WriteFirst(r, n) \in Nat /\ WriteWrapped(r, n) \in Nat
         /\ WriteProgress(r, n) = Smaller(n, SZ - Count(r)) /\ WriteProgress(r, n) \in 0..n
         /\ r.write_ptr + WriteFirst(r, n) <= SZ /\ WriteWrapped(r, n) <= r.read_ptr
         /\ r.read_is_ahead => /\ WriteWrapped(r, n) = 0
                               /\ r.write_ptr + WriteFirst(r, n) <= r.read_ptr
         /\ WriteWrapped(r, n) # 0 => r.write_ptr + WriteFirst(r, n) = SZ
<1>1. r.read_ptr \in 0..SZ /\ r.write_ptr \in 0..SZ /\ r.read_is_ahead \in BOOLEAN
  BY DEF Rings
<1>2. CASE r.read_is_ahead
  BY <1>1, <1>2 DEF Ordered, WriteFirst, WriteWrapped, WriteProgress, Count, Smaller
<1>3. CASE ~r.read_is_ahead
  BY <1>1, <1>3 DEF Ordered, WriteFirst, WriteWrapped, WriteProgress, Count, Smaller
<1> QED
  BY <1>2, <1>3

(* ringbuf_write keeps the unread bytes and, unless the reader is ahead,   *)
(* puts what it reports as written behind them.                            *)
LEMMA WriteMoves ==
  ASSUME NEW r \in Rings, Ordered(r), NEW n \in Nat, NEW src \in [1..n -> 1..MAX_BYTES]
  PROVE  LET m == WriteProgress(r, n)
             w == ringbuf_write(r, src)
         IN
         /\ w \in Rings /\ Ordered(w) /\ Count(r) \in Nat /\ m \in 0..n
         /\ Count(w) = IF r.read_is_ahead THEN Count(r) ELSE Count(r) + m
         /\ \A i \in Nat : Cell(w, i) = Cell(r, i)
         /\ \A i \in 1..Count(r) : w.cells[Cell(r, i)] = r.cells[Cell(r, i)]
         /\ ~r.read_is_ahead => \A i \in 1..m : w.cells[Cell(r, Count(r) + i)] = src[i]
<1> DEFINE m == WriteProgress(r, n)
           w == ringbuf_write(r, src)
           a == WriteFirst(r, n)
           b == WriteWrapped(r, n)
           p == r.read_ptr
           q == r.write_ptr
<1>0. Len(src) = n
  BY FunctionIsSeq
<1>1. p \in 0..SZ /\ q \in 0..SZ /\ r.read_is_ahead \in BOOLEAN /\ r.cells \in Cells
  BY DEF Rings
<1>2. /\ a \in Nat /\ b \in Nat /\ m = a + b /\ m \in 0..n /\ q + a <= SZ /\ b <= p
      /\ r.read_is_ahead => b = 0 /\ q + a <= p
      /\ b # 0 => q + a = SZ
  BY WriteLengths DEF WriteProgress
<1>3. w = [cells |-> Store(Store(r.cells, q, src, 0, a), 0, src, a, b),
           write_ptr |-> WritePtr(r, n), read_ptr |-> p,
           read_is_ahead |-> r.read_is_ahead \/ b # 0]
  BY <1>0 DEF ringbuf_write
<1>4. /\ w.read_ptr = p /\ w.read_is_ahead = (r.read_is_ahead \/ b # 0)
      /\ w.write_ptr = (IF b # 0 THEN b ELSE IF r.read_is_ahead THEN q ELSE q + a)
      /\ w.cells = Store(Store(r.cells, q, src, 0, a), 0, src, a, b)
  BY <1>3 DEF WritePtr
<1>5. \A c \in 0..(SZ - 1) :
        w.cells[c] = IF c \in 0..(b - 1) THEN src[a + 1 + c]
                     ELSE IF c \in q..(q + a - 1) THEN src[1 + (c - q)] ELSE r.cells[c]
  <2>1. \A c \in 0..(SZ - 1) : a + 1 + (c - 0) = a + 1 + c /\ 0 + 1 + (c - q) = 1 + (c - q)
    BY <1>1, <1>2
  <2>2. 0 + b - 1 = b - 1
    BY <1>2
  <2> HIDE DEF a, b, p, q
  <2> QED
    BY <1>4, <2>1, <2>2 DEF Store
<1>6. /\ Count(r) = (IF r.read_is_ahead THEN SZ - p + q ELSE q - p)
      /\ IF r.read_is_ahead THEN q <= p ELSE p <= q
      /\ \A i \in Nat : Cell(r, i) = (IF p + i <= SZ THEN p + i - 1 ELSE p + i - 1 - SZ)
      /\ \A i \in Nat : Cell(w, i) = (IF w.read_ptr + i <= SZ THEN w.read_ptr + i - 1
                                                     ELSE w.read_ptr + i - 1 - SZ)
      /\ Count(w) = (IF w.read_is_ahead THEN SZ - w.read_ptr + w.write_ptr
                                        ELSE w.write_ptr - w.read_ptr)
      /\ Ordered(w) <=> (IF w.read_is_ahead THEN w.write_ptr <= w.read_ptr
                                             ELSE w.read_ptr <= w.write_ptr)
  BY DEF Count, Ordered, Cell
<1> HIDE DEF a, b, p, q, m, w
<1>7. Count(r) \in Nat
  BY <1>1, <1>6
<1>8. \A i \in Nat : Cell(w, i) = Cell(r, i)
  BY <1>4, <1>6
<1>9. Ordered(w) /\ Count(w) = IF r.read_is_ahead THEN Count(r) ELSE Count(r) + m
  <2>1. CASE r.read_is_ahead
    BY <1>1, <1>2, <1>4, <1>6, <2>1
  <2>2. CASE ~r.read_is_ahead /\ b = 0
    <3>1. w.read_is_ahead = FALSE /\ w.write_ptr = q + a /\ w.read_ptr = p
      BY <1>4, <2>2
    <3> QED
      BY <1>1, <1>2, <1>6, <2>2, <3>1
  <2>3. CASE ~r.read_is_ahead /\ b # 0
    <3>1. w.read_is_ahead = TRUE /\ w.write_ptr = b /\ w.read_ptr = p /\ q + a = SZ
      BY <1>2, <1>4, <2>3
    <3> QED
      BY <1>1, <1>2, <1>6, <2>3, <3>1
  <2> QED
    BY <2>1, <2>2, <2>3
<1>10. ASSUME NEW i \in 1..Count(r) PROVE w.cells[Cell(r, i)] = r.cells[Cell(r, i)]
  <2> DEFINE c == Cell(r, i)
  <2>1. c \in 0..(SZ - 1) /\ c \notin 0..(b - 1) /\ c \notin q..(q + a - 1)
    <3>0. i \in Nat /\ c = IF p + i <= SZ THEN p + i - 1 ELSE p + i - 1 - SZ
      BY <1>6, <1>7
    <3> HIDE DEF c
    <3>1. CASE r.read_is_ahead
      BY <1>1, <1>2, <1>6, <3>0, <3>1
    <3>2. CASE ~r.read_is_ahead
      BY <1>1, <1>2, <1>6, <3>0, <3>2
    <3> QED
      BY <3>1, <3>2
  <2> HIDE DEF c
  <2>2. w.cells[c] = r.cells[c]
    BY <1>5, <2>1
  <2> QED
    BY <2>2 DEF c
<1>11. ASSUME ~r.read_is_ahead, NEW i \in 1..m PROVE w.cells[Cell(r, Count(r) + i)] = src[i]
  <2> DEFINE c == Cell(r, Count(r) + i)
  <2>1. c = IF q + i <= SZ THEN q + i - 1 ELSE q + i - 1 - SZ
    <3>1. p + (Count(r) + i) = q + i /\ Count(r) + i \in Nat
      BY <1>1, <1>2, <1>6, <1>7, <1>11
    <3>2. c = IF p + (Count(r) + i) <= SZ THEN p + (Count(r) + i) - 1
                                          ELSE p + (Count(r) + i) - 1 - SZ
      BY <1>6, <3>1
    <3> QED
      BY <1>1, <1>7, <3>1, <3>2
  <2> HIDE DEF c
  <2>2. CASE i <= a
    <3>1. /\ c = q + i - 1 /\ c \in 0..(SZ - 1) /\ c \notin 0..(b - 1) /\ c \in q..(q + a - 1)
          /\ 1 + (c - q) = i
      BY <1>1, <1>2, <1>6, <1>11, <2>1, <2>2
    <3> QED
      BY <1>5, <3>1 DEF c
  <2>3. CASE ~(i <= a)
    <3>1. b # 0 /\ q + a = SZ
      BY <1>2, <2>3
    <3>2. c = i - 1 - a /\ c \in 0..(SZ - 1) /\ c \in 0..(b - 1) /\ a + 1 + c = i
      BY <1>1, <1>2, <2>1, <2>3, <3>1
    <3> QED
      BY <1>5, <3>2 DEF c
  <2> QED
    BY <2>2, <2>3
<1>12. w \in Rings
  <2>1. w.cells \in Cells
    <3>1. ASSUME NEW c \in 0..(SZ - 1) PROVE w.cells[c] \in Bytes
      <4>1. CASE c \in 0..(b - 1)
        <5>1. a + 1 + c \in 1..n
          BY <1>2, <4>1
        <5> QED
          BY <1>5, <4>1, <5>1 DEF Bytes
      <4>2. CASE c \notin 0..(b - 1) /\ c \in q..(q + a - 1)
        <5>1. 1 + (c - q) \in 1..n
          BY <1>1, <1>2, <4>2
        <5> QED
          BY <1>5, <4>2, <5>1 DEF Bytes
      <4>3. CASE c \notin 0..(b - 1) /\ c \notin q..(q + a - 1)
        BY <1>1, <1>5, <4>3 DEF Cells
      <4> QED
        BY <4>1, <4>2, <4>3
    <3>2. w.cells = [c \in 0..(SZ - 1) |-> w.cells[c]]
      BY <1>4 DEF Store
    <3> QED
      BY <3>1, <3>2 DEF Cells
  <2>2. w.write_ptr \in 0..SZ
    BY <1>1, <1>2, <1>4
  <2>3. w.read_is_ahead \in BOOLEAN
    BY <1>4
  <2>4. w = [cells |-> w.cells, write_ptr |-> w.write_ptr, read_ptr |-> p,
             read_is_ahead |-> w.read_is_ahead]
    BY <1>3
  <2> QED
    BY <1>1, <2>1, <2>2, <2>3, <2>4 DEF Rings
<1> QED
  BY <1>2, <1>7, <1>8, <1>9, <1>10, <1>11, <1>12 DEF m, w

----------------------------------------------------------------------------
(* What a write makes of the unread bytes: they keep their places, and     *)
(* the bytes it takes follow, unless the reader is ahead.                  *)
LEMMA WriteUnread ==
  ASSUME IInv, NEW n \in 1..MAX_IO, Write(n), NEW m, m = WriteProgress(ring, n),
         NEW k, k = Count(ring), NEW new, new = (IF ring.read_is_ahead THEN 0 ELSE m)
  PROVE  /\ ring' \in Rings /\ Ordered(ring') /\ k \in Nat /\ m \in 0..n /\ new \in 0..m
         /\ Count(ring') = k + new /\ handed' = handed + n
         /\ owed' = owed \cup {handed + i : i \in 1..m}
         /\ \A i \in 1..k : ring'.cells[Cell(ring', i)] = ring.cells[Cell(ring, i)]
         /\ \A i \in 1..new : ring'.cells[Cell(ring', k + i)] = handed + i
<1> DEFINE src == [i \in 1..n |-> handed + i]
<1>1. n \in Nat /\ handed \in Nat /\ handed + n <= MAX_BYTES
  BY DEF IInv, Write
<1>2. src \in [1..n -> 1..MAX_BYTES]
  BY <1>1
<1>3. /\ ring' = ringbuf_write(ring, src) /\ handed' = handed + n
      /\ owed' = owed \cup {src[i] : i \in 1..m}
  BY DEF Write
<1>4. \A i \in 1..n : src[i] = handed + i
  OBVIOUS
<1> HIDE DEF src
<1>5. /\ ring' \in Rings /\ Ordered(ring') /\ k \in Nat /\ m \in 0..n
      /\ Count(ring') = IF ring.read_is_ahead THEN k ELSE k + m
      /\ \A i \in Nat : Cell(ring', i) = Cell(ring, i)
      /\ \A i \in 1..k : ring'.cells[Cell(ring, i)] = ring.cells[Cell(ring, i)]
      /\ ~ring.read_is_ahead => \A i \in 1..m : ring'.cells[Cell(ring, k + i)] = src[i]
  <2>1. ring \in Rings /\ Ordered(ring)
    BY DEF IInv
  <2> DEFINE w == ring'
             r == ring
  <2>2. w = ringbuf_write(r, src) /\ r \in Rings /\ Ordered(r) /\ m = WriteProgress(r, n)
        /\ k = Count(r)
    BY <1>3, <2>1
  <2> HIDE DEF w, r
  <2>3. /\ w \in Rings /\ Ordered(w) /\ Count(r) \in Nat /\ m \in 0..n
        /\ Count(w) = IF r.read_is_ahead THEN Count(r) ELSE Count(r) + m
        /\ \A i \in Nat : Cell(w, i) = Cell(r, i)
        /\ \A i \in 1..Count(r) : w.cells[Cell(r, i)] = r.cells[Cell(r, i)]
        /\ ~r.read_is_ahead => \A i \in 1..m : w.cells[Cell(r, Count(r) + i)] = src[i]
    <3>1. r \in Rings /\ Ordered(r) /\ n \in Nat /\ src \in [1..n -> 1..MAX_BYTES]
      BY <1>1, <1>2, <2>2
    <3>2. w = ringbuf_write(r, src) /\ m = WriteProgress(r, n)
      BY <2>2
    <3> DEFINE x == ringbuf_write(r, src)
               y == WriteProgress(r, n)
    <3>3. /\ x \in Rings /\ Ordered(x) /\ Count(r) \in Nat /\ y \in 0..n
          /\ Count(x) = IF r.read_is_ahead THEN Count(r) ELSE Count(r) + y
          /\ \A i \in Nat : Cell(x, i) = Cell(r, i)
          /\ \A i \in 1..Count(r) : x.cells[Cell(r, i)] = r.cells[Cell(r, i)]
          /\ ~r.read_is_ahead => \A i \in 1..y : x.cells[Cell(r, Count(r) + i)] = src[i]
      BY Zenon, <3>1, WriteMoves
    <3>4. w = x /\ m = y
      BY <3>2
    <3> HIDE DEF x, y
    <3> QED BY <3>3, <3>4
  <2> QED
    BY <2>2, <2>3 DEF w, r
<1>6. \A i \in 1..m : i \in 1..n
  BY <1>1, <1>5
<1>7. owed' = owed \cup {handed + i : i \in 1..m}
  BY <1>3, <1>4, <1>6
<1>8. new \in 0..m /\ Count(ring') = k + new
  BY <1>5
<1>9. \A i \in 1..k : ring'.cells[Cell(ring', i)] = ring.cells[Cell(ring, i)]
  BY <1>5
<1>10. ASSUME NEW i \in 1..new PROVE ring'.cells[Cell(ring', k + i)] = handed + i
  <2>1. ~ring.read_is_ahead /\ i \in 1..m /\ k + i \in Nat /\ i \in 1..n
    BY <1>5, <1>6
  <2> QED
    BY <1>4, <1>5, <2>1
<1> QED
  BY <1>3, <1>5, <1>7, <1>8, <1>9, <1>10

(* Writes preserve the invariant.                                          *)
LEMMA WriteInv ==
  ASSUME IInv, NEW n \in 1..MAX_IO, Write(n)
  PROVE  IInv'
<1> DEFINE m == WriteProgress(ring, n)
           k == Count(ring)
           new == IF ring.read_is_ahead THEN 0 ELSE m
           Old(i) == ring.cells[Cell(ring, i)]
           New(i) == ring'.cells[Cell(ring', i)]
<1>1. /\ ring' \in Rings /\ Ordered(ring') /\ k \in Nat /\ m \in 0..n /\ new \in 0..m
      /\ Count(ring') = k + new /\ handed' = handed + n
      /\ owed' = owed \cup {handed + i : i \in 1..m}
      /\ \A i \in 1..k : New(i) = Old(i)
      /\ \A i \in 1..new : New(k + i) = handed + i
  BY WriteUnread
<1>2. n \in Nat /\ handed \in Nat /\ handed + n <= MAX_BYTES /\ owed \subseteq 1..handed
  BY DEF IInv, Write
<1>3. /\ \A i \in 1..k : Old(i) \in owed
      /\ \A i, j \in 1..k : i < j => Old(i) < Old(j)
  BY DEF IInv, UnreadOwed
<1>4. UnreadOwed' <=> /\ \A i \in 1..Count(ring') : New(i) \in owed'
                      /\ \A i, j \in 1..Count(ring') : i < j => New(i) < New(j)
  BY DEF UnreadOwed, Count, Cell
<1>5. IInv' <=> /\ ring' \in Rings /\ Ordered(ring') /\ handed' \in 0..MAX_BYTES
                /\ owed' \subseteq 1..handed' /\ UnreadOwed'
  BY DEF IInv, Ordered
<1> HIDE DEF m, k, new, Old, New
<1>6. \A i \in 1..(k + new) :
        \/ i \in 1..k /\ New(i) = Old(i)
        \/ i - k \in 1..new /\ New(i) = handed + (i - k)
  <2> TAKE i \in 1..(k + new)
  <2>1. CASE i <= k
    BY <1>1, <2>1
  <2>2. CASE ~(i <= k)
    <3>1. i - k \in 1..new /\ k + (i - k) = i
      BY <1>1, <2>2
    <3>2. New(k + (i - k)) = handed + (i - k)
      BY <1>1, <3>1
    <3> QED
      BY <3>1, <3>2
  <2> QED
    BY <2>1, <2>2
<1>7. \A i \in 1..(k + new) : New(i) \in owed'
  <2> TAKE i \in 1..(k + new)
  <2>1. CASE i \in 1..k /\ New(i) = Old(i)
    BY <1>1, <1>3, <2>1
  <2>2. CASE i - k \in 1..new /\ New(i) = handed + (i - k)
    <3>1. i - k \in 1..m
      BY <1>1, <2>2
    <3> QED
      BY <1>1, <2>2, <3>1
  <2> QED
    BY <1>6, <2>1, <2>2
<1>8. ASSUME NEW i \in 1..(k + new), NEW j \in 1..(k + new), i < j PROVE New(i) < New(j)
  <2>1. CASE j \in 1..k /\ New(j) = Old(j)
    <3>1. i \in 1..k
      BY <1>1, <1>8, <2>1
    <3>2. New(i) = Old(i)
      BY <1>1, <3>1
    <3> QED
      BY <1>3, <1>8, <2>1, <3>1, <3>2
  <2>2. CASE j - k \in 1..new /\ New(j) = handed + (j - k)
    <3>1. CASE i \in 1..k /\ New(i) = Old(i)
      <4>1. Old(i) \in 1..handed
        BY <1>2, <1>3, <3>1
      <4> QED
        BY <1>1, <1>2, <2>2, <3>1, <4>1
    <3>2. CASE i - k \in 1..new /\ New(i) = handed + (i - k)
      BY <1>1, <1>2, <1>8, <2>2, <3>2
    <3> QED
      BY <1>6, <3>1, <3>2
  <2> QED
    BY <1>6, <2>1, <2>2
<1>9. owed' \subseteq 1..handed' /\ handed' \in 0..MAX_BYTES
  <2>1. \A b \in 1..handed : b \in 1..(handed + n)
    BY <1>2
  <2>2. \A i \in 1..m : handed + i \in 1..(handed + n)
    BY <1>1, <1>2
  <2>3. handed + n \in 0..MAX_BYTES
    BY <1>2
  <2> QED
    BY <1>1, <1>2, <2>1, <2>2, <2>3
<1> QED
  BY <1>1, <1>4, <1>5, <1>7, <1>8, <1>9

(* What a read makes of the unread bytes.                                  *)
LEMMA ReadUnread ==
  ASSUME IInv, NEW n \in 1..MAX_IO, Read(n), NEW k, k = Len(got')
  PROVE  /\ ring' \in Rings /\ Ordered(ring') /\ Count(ring) \in Nat /\ k \in 0..Count(ring)
         /\ Count(ring') = Count(ring) - k
         /\ \A i \in 1..k : got'[i] = ring.cells[Cell(ring, i)]
         /\ \A i \in 1..Count(ring') :
              ring'.cells[Cell(ring', i)] = ring.cells[Cell(ring, i + k)]
<1>1. n \in Nat /\ ring \in Rings /\ Ordered(ring) /\ ring' = ringbuf_read(ring, n)
      /\ got' = ReadBytes(ring, n)
  BY DEF IInv, Read
<1>2. /\ k = Smaller(n, Count(ring))
      /\ \A i \in 1..k : got'[i] = ring.cells[Cell(ring, i)]
  BY <1>1, ReadBytesFacts
<1>3. Count(ring) \in Nat
  BY <1>1, ReadLengths
<1>4. /\ ring' \in Rings /\ Ordered(ring') /\ ring'.cells = ring.cells
      /\ k \in 0..Count(ring) /\ Count(ring') = Count(ring) - k
      /\ \A i \in 1..Count(ring') : Cell(ring', i) = Cell(ring, i + k)
  <2> DEFINE w == ring'
             r == ring
  <2>1. w = ringbuf_read(r, n) /\ r \in Rings /\ Ordered(r) /\ k = Smaller(n, Count(r))
    BY <1>1, <1>2
  <2> HIDE DEF w, r
  <2>2. /\ w \in Rings /\ Ordered(w) /\ w.cells = r.cells
        /\ k \in 0..Count(r) /\ Count(w) = Count(r) - k
        /\ \A i \in 1..Count(w) : Cell(w, i) = Cell(r, i + k)
    BY <1>1, <2>1, ReadMoves
  <2> QED
    BY <2>2 DEF w, r
<1> QED
  BY <1>2, <1>3, <1>4

(* Reads preserve the invariant.                                           *)
LEMMA ReadInv ==
  ASSUME IInv, NEW n \in 1..MAX_IO, Read(n)
  PROVE  IInv'
<1> DEFINE k == Len(got')
           Old(i) == ring.cells[Cell(ring, i)]
           New(i) == ring'.cells[Cell(ring', i)]
<1>1. /\ ring' \in Rings /\ Ordered(ring') /\ Count(ring) \in Nat /\ k \in 0..Count(ring)
      /\ Count(ring') = Count(ring) - k
      /\ \A i \in 1..k : got'[i] = Old(i)
      /\ \A i \in 1..Count(ring') : New(i) = Old(i + k)
  BY ReadUnread
<1>2. /\ handed' = handed /\ owed' = {b \in owed : \A i \in 1..k : b > got'[i]}
      /\ handed \in 0..MAX_BYTES /\ owed \subseteq 1..handed
  BY DEF IInv, Read
<1>3. /\ \A i \in 1..Count(ring) : Old(i) \in owed
      /\ \A i, j \in 1..Count(ring) : i < j => Old(i) < Old(j)
  BY DEF IInv, UnreadOwed
<1>4. UnreadOwed' <=> /\ \A i \in 1..Count(ring') : New(i) \in owed'
                      /\ \A i, j \in 1..Count(ring') : i < j => New(i) < New(j)
  BY DEF UnreadOwed, Count, Cell
<1>5. IInv' <=> /\ ring' \in Rings /\ Ordered(ring') /\ handed' \in 0..MAX_BYTES
                /\ owed' \subseteq 1..handed' /\ UnreadOwed'
  BY DEF IInv, Ordered
<1> HIDE DEF k, Old, New
<1>6. \A i \in 1..Count(ring') : i + k \in 1..Count(ring) /\ k < i + k
  BY <1>1
<1>7. ASSUME NEW i \in 1..Count(ring') PROVE New(i) \in owed'
  <2>1. Old(i + k) \in owed
    BY <1>3, <1>6
  <2>2. ASSUME NEW j \in 1..k PROVE Old(i + k) > got'[j]
    <3>1. j \in 1..Count(ring) /\ j < i + k
      BY <1>1, <1>6
    <3>2. Old(j) < Old(i + k)
      BY <1>3, <1>6, <3>1
    <3>3. Old(j) \in Nat /\ Old(i + k) \in Nat
      <4>1. Old(j) \in owed
        BY <1>3, <3>1
      <4>2. \A b \in owed : b \in Nat
        BY <1>2
      <4> QED
        BY <2>1, <4>1, <4>2
    <3> QED
      BY <1>1, <3>2, <3>3
  <2> QED
    BY <1>1, <1>2, <2>1, <2>2
<1>8. ASSUME NEW i \in 1..Count(ring'), NEW j \in 1..Count(ring'), i < j
      PROVE  New(i) < New(j)
  <2>1. i + k < j + k
    BY <1>1, <1>8
  <2>2. Old(i + k) < Old(j + k)
    BY <1>3, <1>6, <2>1
  <2> QED
    BY <1>1, <2>2
<1> QED
  BY <1>1, <1>2, <1>4, <1>5, <1>7, <1>8

(* ringbuf_init establishes the invariant.                                 *)
LEMMA InitInv == Init => IInv
<1> SUFFICES ASSUME Init PROVE IInv
  OBVIOUS
<1>1. ring \in Rings
  BY DEF Init, ringbuf_init, Rings, Cells, Bytes
<1>2. Ordered(ring) /\ Count(ring) = 0
  BY DEF Init, ringbuf_init, Ordered, Count
<1> QED
  BY <1>1, <1>2 DEF Init, IInv, UnreadOwed

(* The inductive invariant holds in every reachable state.                 *)
LEMMA NextInv == IInv /\ [Next]_vars => IInv'
<1> SUFFICES ASSUME IInv, [Next]_vars PROVE IInv'
  OBVIOUS
<1>1. CASE UNCHANGED vars
  BY <1>1 DEF vars, IInv, UnreadOwed, Ordered, Count, Cell
<1>2. CASE Next
  BY <1>2, WriteInv, ReadInv DEF Next
<1> QED
  BY <1>1, <1>2

(* The inductive invariant is an invariant.                                *)
LEMMA AlwaysIInv == Spec => []IInv
BY InitInv, NextInv, PTL DEF Spec

(* For a buffer of any size, the pointers of ringbuf_t stay inside it and  *)
(* in order, so no length handed to ring_memcpy is negative, and           *)
(* ringbuf_write takes all that fits beside the unread bytes.              *)
THEOREM RingAlwaysSound == Spec => []RingInv
<1>1. ASSUME IInv PROVE TypeOK /\ PointersOrdered
  BY <1>1 DEF IInv, Rings, Cells, Bytes, Ordered, TypeOK, PointersOrdered
<1>2. ASSUME IInv, NEW n \in 1..MAX_IO
      PROVE  WriteProgress(ring, n) = Smaller(n, SZ - Len(Unread(ring)))
  <2>1. ring \in Rings /\ Ordered(ring) /\ n \in Nat /\ SZ \in Nat
    BY <1>2 DEF IInv
  <2>2. Len(Unread(ring)) = Smaller(SZ, Count(ring)) /\ Count(ring) \in 0..SZ
    BY <2>1, ReadBytesFacts, ReadLengths DEF Unread
  <2>3. Len(Unread(ring)) = Count(ring)
    BY <2>2 DEF Smaller
  <2> QED
    BY <2>1, <2>3, WriteLengths
<1>3. IInv => RingInv
  BY <1>1, <1>2 DEF RingInv, WriteTakesWhatFits
<1> QED
  BY <1>3, AlwaysIInv, PTL

(* ringbuf_read returns only bytes that ringbuf_write reported and no read *)
(* returned before, in the order they were written.                        *)
THEOREM AlwaysReadInOrder == Spec => ReadsInOrder
<1> DEFINE A == \A n \in 1..MAX_IO : Read(n) =>
                  /\ \A i \in 1..Len(got') : got'[i] \in owed
                  /\ \A i \in 1..(Len(got') - 1) : got'[i] < got'[i + 1]
<1>1. ASSUME IInv PROVE A
  <2> SUFFICES ASSUME NEW n \in 1..MAX_IO, Read(n)
               PROVE  /\ \A i \in 1..Len(got') : got'[i] \in owed
                      /\ \A i \in 1..(Len(got') - 1) : got'[i] < got'[i + 1]
    OBVIOUS
  <2> DEFINE k == Len(got')
             Old(i) == ring.cells[Cell(ring, i)]
  <2>1. /\ Count(ring) \in Nat /\ k \in 0..Count(ring)
        /\ \A i \in 1..k : got'[i] = Old(i)
    BY <1>1, ReadUnread
  <2>2. /\ \A i \in 1..Count(ring) : Old(i) \in owed
        /\ \A i, j \in 1..Count(ring) : i < j => Old(i) < Old(j)
    BY <1>1 DEF IInv, UnreadOwed
  <2> HIDE DEF k, Old
  <2>3. \A i \in 1..k : i \in 1..Count(ring)
    BY <2>1
  <2>4. \A i \in 1..k : got'[i] \in owed
    BY <2>1, <2>2, <2>3
  <2>5. \A i \in 1..(k - 1) : i \in 1..k /\ i + 1 \in 1..k /\ i < i + 1
    BY <2>1
  <2>6. \A i \in 1..(k - 1) : got'[i] < got'[i + 1]
    BY <2>1, <2>2, <2>3, <2>5
  <2> QED
    BY <2>4, <2>6 DEF k
<1> HIDE DEF A
<1>2. IInv /\ [Next]_vars => [A]_vars
  BY <1>1
<1>3. Spec => [][A]_vars
  BY <1>2, AlwaysIInv, PTL DEF Spec
<1> QED
  BY <1>3 DEF ReadsInOrder, A

(* ringbuf_write moves and spoils no unread byte, and what it reports is   *)
(* there to be read behind them unless the reader is ahead.                *)
THEOREM AlwaysKeptUnlessWrapped == Spec => KeptUnlessWrapped
<1> DEFINE Taken(n) == IF ring.read_is_ahead THEN << >>
                       ELSE [i \in 1..WriteProgress(ring, n) |-> handed + i]
           A == \A n \in 1..MAX_IO : Write(n) => Unread(ring') = Unread(ring) \o Taken(n)
<1>1. ASSUME IInv, IInv' PROVE A
  <2> SUFFICES ASSUME NEW n \in 1..MAX_IO, Write(n)
               PROVE  Unread(ring') = Unread(ring) \o Taken(n)
    OBVIOUS
  <2> DEFINE m == WriteProgress(ring, n)
             k == Count(ring)
             new == IF ring.read_is_ahead THEN 0 ELSE m
             T == Bytes \cup Nat
             s == Unread(ring)
             u == Taken(n)
             v == Unread(ring')
  <2>1. /\ ring' \in Rings /\ Ordered(ring') /\ k \in Nat /\ m \in 0..n /\ new \in 0..m
        /\ Count(ring') = k + new
        /\ \A i \in 1..k : ring'.cells[Cell(ring', i)] = ring.cells[Cell(ring, i)]
        /\ \A i \in 1..new : ring'.cells[Cell(ring', k + i)] = handed + i
    BY <1>1, WriteUnread
  <2>2. ring \in Rings /\ Ordered(ring) /\ SZ \in Nat /\ handed \in Nat
    BY <1>1 DEF IInv
  <2>3. k <= SZ /\ Count(ring') \in 0..SZ
    BY <2>1, <2>2, ReadLengths
  <2>4. /\ s \in Seq(Bytes) /\ Len(s) = k
        /\ \A i \in 1..k : s[i] = ring.cells[Cell(ring, i)]
    <3>1. Smaller(SZ, k) = k
      BY <2>1, <2>2, <2>3 DEF Smaller
    <3> QED
      BY <2>2, <3>1, ReadBytesFacts DEF Unread
  <2>5. /\ v \in Seq(Bytes) /\ Len(v) = k + new
        /\ \A i \in 1..(k + new) : v[i] = ring'.cells[Cell(ring', i)]
    <3>1. Smaller(SZ, Count(ring')) = Count(ring')
      BY <2>2, <2>3 DEF Smaller
    <3> DEFINE w == ring'
               z == k + new
    <3>2. w \in Rings /\ Ordered(w) /\ Smaller(SZ, Count(w)) = z /\ v = ReadBytes(w, SZ)
      BY <2>1, <3>1 DEF Unread
    <3> HIDE DEF w, z, v
    <3>3. /\ v \in Seq(Bytes) /\ Len(v) = z
          /\ \A i \in 1..z : v[i] = w.cells[Cell(w, i)]
      BY <2>2, <3>2, ReadBytesFacts
    <3> QED
      BY <3>3 DEF w, z
  <2>6. u \in Seq(Nat) /\ Len(u) = new /\ \A i \in 1..new : u[i] = handed + i
    <3>1. CASE ring.read_is_ahead
      BY <3>1
    <3>2. CASE ~ring.read_is_ahead
      <4>1. u = [i \in 1..new |-> handed + i]
        BY <3>2
      <4>2. u \in [1..new -> Nat] /\ new \in Nat
        BY <2>1, <2>2, <4>1
      <4> HIDE DEF u, new
      <4> QED
        BY <4>1, <4>2, FunctionIsSeq
    <3> QED
      BY <3>1, <3>2
  <2> HIDE DEF m, k, new, s, u, v
  <2>7. s \in Seq(T) /\ u \in Seq(T) /\ v \in Seq(T)
    <3> HIDE DEF Taken
    <3> QED
      BY <2>4, <2>5, <2>6, SeqMonotonic
  <2> HIDE DEF T
  <2>8. /\ s \o u \in Seq(T) /\ Len(s \o u) = k + new
        /\ \A i \in 1..(k + new) : (s \o u)[i] = IF i <= k THEN s[i] ELSE u[i - k]
    BY <2>4, <2>6, <2>7, ConcatProperties
  <2>9. ASSUME NEW i \in 1..(k + new) PROVE v[i] = (s \o u)[i]
    <3>1. CASE i <= k
      <4>1. i \in 1..k
        BY <2>1, <3>1
      <4> QED
        BY <2>1, <2>4, <2>5, <2>8, <3>1, <4>1
    <3>2. CASE ~(i <= k)
      <4>1. i - k \in 1..new /\ k + (i - k) = i
        BY <2>1, <3>2
      <4>2. ring'.cells[Cell(ring', k + (i - k))] = handed + (i - k)
        BY <2>1, <4>1
      <4> QED
        BY <2>5, <2>6, <2>8, <3>2, <4>1, <4>2
    <3> QED
      BY <3>1, <3>2
  <2>10. v = s \o u
    BY <2>5, <2>7, <2>8, <2>9, SeqEqual
  <2> QED
    BY <2>10 DEF s, u, v
<1>2. ASSUME IInv, [Next]_vars PROVE [A]_vars
  BY <1>1, <1>2, NextInv
<1> HIDE DEF A
<1>3. Spec => [][A]_vars
  BY <1>2, AlwaysIInv, PTL DEF Spec
<1> QED
  BY <1>3 DEF KeptUnlessWrapped, A

----------------------------------------------------------------------------
(* The pipe on top of the ring (module Pipe).  It is proved here because   *)
(* it shares the ring and its facts.                                       *)

USE PipeAssumption

(* What follows from k writes of one byte each, whatever G says of the     *)
(* ring and of the number of writes so far.                                *)
LEMMA Pushes ==
  ASSUME NEW k \in Nat, NEW G, <<ring, 0>> \in G,
         \A r : \A i \in 1..k :
           <<r, i - 1>> \in G => <<ringbuf_write(r, <<pushed + i>>), i>> \in G
  PROVE  <<PushAll(k), k>> \in G
<1> DEFINE Pushed(g, i) == IF i = 0 THEN ring ELSE ringbuf_write(g[i - 1], <<pushed + i>>)
           K(n, g) == g = [i \in 0..n |-> Pushed(g, i)]
           Q == {n \in 0..k : \E g : K(n, g)}
<1>1. 0 \in Q
  <2> DEFINE g == [i \in 0..0 |-> ring]
  <2>1. K(0, g)
    OBVIOUS
  <2> HIDE DEF K
  <2> QED BY <2>1
<1>2. \A n \in 1..k : n - 1 \in Q => n \in Q
  <2> SUFFICES ASSUME NEW n \in 1..k, n - 1 \in Q PROVE n \in Q
    OBVIOUS
  <2>1. PICK g : K(n - 1, g)
    OBVIOUS
  <2> DEFINE h == [i \in 0..n |-> IF i < n THEN g[i] ELSE ringbuf_write(g[n - 1], <<pushed + n>>)]
  <2>2. n \in Nat /\ n # 0 /\ n \in 0..k
    OBVIOUS
  <2>3. \A i \in 0..(n - 1) : h[i] = g[i]
    BY <2>2
  <2>4. h[n] = Pushed(h, n)
    BY <2>2, <2>3
  <2>5. ASSUME NEW i \in 0..(n - 1) PROVE h[i] = Pushed(h, i)
    <3>1. g[i] = Pushed(g, i)
      BY <2>1
    <3>2. i = 0 \/ i - 1 \in 0..(n - 1)
      BY <2>2
    <3> HIDE DEF h
    <3> QED BY <2>3, <3>1, <3>2
  <2>6. \A i \in 0..n : h[i] = Pushed(h, i)
    <3> HIDE DEF h, Pushed
    <3> QED BY <2>2, <2>4, <2>5
  <2>7. h = [i \in 0..n |-> h[i]]
    OBVIOUS
  <2> HIDE DEF h, Pushed
  <2>8. K(n, h)
    BY <2>6, <2>7
  <2> QED BY <2>2, <2>8
<1>3. k \in Q
  <2> HIDE DEF Q
  <2> QED BY <1>1, <1>2, SetInduction
<1> DEFINE after == CHOOSE g : K(k, g)
<1>4. K(k, after)
  <2> HIDE DEF K
  <2> QED BY <1>3
<1>5. PushAll(k) = after[k]
  BY DEF PushAll
<1>6. \A i \in 0..k : after[i] = Pushed(after, i)
  BY <1>4
<1> HIDE DEF after, K, Q
<1> DEFINE S == {i \in 0..k : <<after[i], i>> \in G}
<1>7. 0 \in S
  <2>1. 0 \in 0..k
    OBVIOUS
  <2>2. Pushed(after, 0) = ring
    OBVIOUS
  <2> HIDE DEF Pushed
  <2>3. after[0] = ring
    BY <1>6, <2>1, <2>2
  <2> QED BY <2>1, <2>3
<1>8. ASSUME NEW i \in 1..k, i - 1 \in S PROVE i \in S
  <2>1. i \in 0..k /\ i # 0
    OBVIOUS
  <2>2. after[i] = ringbuf_write(after[i - 1], <<pushed + i>>)
    BY <1>6, <2>1
  <2>3. <<ringbuf_write(after[i - 1], <<pushed + i>>), i>> \in G
    BY <1>8
  <2>4. <<after[i], i>> \in G
    BY <2>2, <2>3
  <2> QED BY <2>1, <2>4
<1> HIDE DEF S, Pushed
<1>9. 0..k \subseteq S
  BY <1>7, <1>8, SetInduction
<1> QED BY <1>5, <1>9 DEF S

(* The ring w is r after pipe_push has offered it the byte b.  A ring with *)
(* the reader ahead keeps its pointers, whatever is pushed.                *)
PushedOne(r, b, w) ==
  /\ w \in Rings /\ w.read_ptr = r.read_ptr
  /\ \/ /\ r.read_is_ahead /\ w.read_is_ahead /\ w.write_ptr = r.write_ptr
        /\ \A c \in 0..(SZ - 1) :
             w.cells[c] = IF c = r.write_ptr /\ r.write_ptr < r.read_ptr THEN b ELSE r.cells[c]
     \/ /\ ~r.read_is_ahead /\ r.write_ptr < SZ
        /\ ~w.read_is_ahead /\ w.write_ptr = r.write_ptr + 1
        /\ \A c \in 0..(SZ - 1) : w.cells[c] = IF c = r.write_ptr THEN b ELSE r.cells[c]
     \/ /\ ~r.read_is_ahead /\ r.write_ptr = SZ /\ r.read_ptr > 0
        /\ w.read_is_ahead /\ w.write_ptr = 1
        /\ \A c \in 0..(SZ - 1) : w.cells[c] = IF c = 0 THEN b ELSE r.cells[c]
     \/ /\ ~r.read_is_ahead /\ r.write_ptr = SZ /\ r.read_ptr = 0
        /\ ~w.read_is_ahead /\ w.write_ptr = r.write_ptr
        /\ \A c \in 0..(SZ - 1) : w.cells[c] = r.cells[c]

(* ringbuf_write of one byte.                                              *)
LEMMA PushOne ==
  ASSUME NEW r \in Rings, NEW b \in Bytes
  PROVE  PushedOne(r, b, ringbuf_write(r, <<b>>))
<1> DEFINE w == ringbuf_write(r, <<b>>)
           first == WriteFirst(r, 1)
           wrapped == WriteWrapped(r, 1)
           wp == r.write_ptr
           rp == r.read_ptr
           copied == Store(r.cells, wp, <<b>>, 0, first)
<1>1. wp \in 0..SZ /\ rp \in 0..SZ /\ r.read_is_ahead \in BOOLEAN /\ r.cells \in Cells
  BY DEF Rings
<1>2. Len(<<b>>) = 1 /\ <<b>>[1] = b
  OBVIOUS
<1>3. w = [cells |-> Store(copied, 0, <<b>>, first, wrapped),
           write_ptr |-> WritePtr(r, 1), read_ptr |-> rp,
           read_is_ahead |-> r.read_is_ahead \/ wrapped # 0]
  BY <1>2 DEF ringbuf_write
<1>4. /\ first = (IF r.read_is_ahead THEN IF rp - wp < 1 THEN rp - wp ELSE 1
                                     ELSE IF wp < SZ THEN 1 ELSE 0)
      /\ wrapped = (IF r.read_is_ahead \/ wp < SZ \/ rp = 0 THEN 0 ELSE 1)
  BY <1>1 DEF WriteFirst, WriteWrapped, Smaller
<1>5. WritePtr(r, 1) = IF wrapped # 0 THEN wrapped ELSE IF r.read_is_ahead THEN wp ELSE wp + first
  BY DEF WritePtr
<1>6. \A c \in 0..(SZ - 1) :
        copied[c] = IF first = 1 /\ c = wp THEN b ELSE r.cells[c]
  <2>1. first \in Int /\ first <= 1
    BY <1>1, <1>4
  <2>2. copied = [c \in 0..(SZ - 1) |-> IF c \in wp..(wp + first - 1) THEN <<b>>[0 + 1 + (c - wp)] ELSE r.cells[c]]
    BY DEF Store
  <2> HIDE DEF first, copied
  <2>3. \A c \in 0..(SZ - 1) : c \in wp..(wp + first - 1) <=> first = 1 /\ c = wp
    BY <1>1, <2>1
  <2>4. \A c \in 0..(SZ - 1) : c = wp => 0 + 1 + (c - wp) = 1
    BY <1>1
  <2> QED BY <1>2, <2>2, <2>3, <2>4
<1>7. \A c \in 0..(SZ - 1) :
        w.cells[c] = IF wrapped = 1 /\ c = 0 THEN b ELSE copied[c]
  <2>1. wrapped \in {0, 1} /\ (wrapped = 1 => first = 0)
    BY <1>1, <1>4
  <2>2. w.cells = [c \in 0..(SZ - 1) |-> IF c \in 0..(0 + wrapped - 1) THEN <<b>>[first + 1 + (c - 0)] ELSE copied[c]]
    BY <1>3 DEF Store
  <2> HIDE DEF first, wrapped, copied, w
  <2>3. \A c \in 0..(SZ - 1) : c \in 0..(0 + wrapped - 1) <=> wrapped = 1 /\ c = 0
    BY <2>1
  <2>4. wrapped = 1 => first + 1 + (0 - 0) = 1
    BY <2>1
  <2> QED BY <1>2, <2>2, <2>3, <2>4
<1>8. w.cells \in Cells
  <2>1. \A c \in 0..(SZ - 1) : w.cells[c] \in Bytes
    BY <1>1, <1>6, <1>7 DEF Cells
  <2>2. w.cells = [c \in 0..(SZ - 1) |-> w.cells[c]]
    BY <1>3 DEF Store
  <2> HIDE DEF w
  <2> QED BY <2>1, <2>2 DEF Cells
<1>9. /\ w.write_ptr = WritePtr(r, 1) /\ w.read_ptr = rp
      /\ w.read_is_ahead = (r.read_is_ahead \/ wrapped # 0)
  BY <1>3
<1>10. w \in Rings
  <2>1. w.write_ptr \in 0..SZ /\ w.read_is_ahead \in BOOLEAN
    <3> HIDE DEF w, first, wrapped
    <3>1. w.write_ptr \in 0..SZ
      BY <1>1, <1>4, <1>5, <1>9
    <3>2. (r.read_is_ahead \/ wrapped # 0) \in BOOLEAN
      OBVIOUS
    <3> QED BY <1>9, <3>1, <3>2
  <2>2. w = [cells |-> w.cells, write_ptr |-> w.write_ptr, read_ptr |-> w.read_ptr,
             read_is_ahead |-> w.read_is_ahead]
    BY <1>3
  <2> HIDE DEF w
  <2> QED BY <1>1, <1>8, <1>9, <2>1, <2>2 DEF Rings
<1> HIDE DEF w, first, wrapped, copied
<1> SUFFICES PushedOne(r, b, w)
  BY DEF w
<1>11. CASE r.read_is_ahead
  <2>1. wrapped = 0 /\ w.write_ptr = wp /\ (first = 1 <=> wp < rp)
    BY <1>1, <1>4, <1>5, <1>9, <1>11
  <2>2. w.read_is_ahead
    BY Zenon, <1>9, <1>11
  <2>3. \A c \in 0..(SZ - 1) : w.cells[c] = IF c = wp /\ wp < rp THEN b ELSE r.cells[c]
    BY <1>6, <1>7, <2>1
  <2> QED BY <1>9, <1>10, <1>11, <2>1, <2>2, <2>3 DEF PushedOne
<1>12. CASE ~r.read_is_ahead /\ wp < SZ
  BY <1>1, <1>4, <1>5, <1>6, <1>7, <1>9, <1>10, <1>12 DEF PushedOne
<1>13. CASE ~r.read_is_ahead /\ wp = SZ /\ rp > 0
  <2>1. wrapped = 1 /\ wrapped # 0 /\ w.write_ptr = 1 /\ first = 0
    BY <1>1, <1>4, <1>5, <1>9, <1>13
  <2>2. w.read_is_ahead
    BY Zenon, <1>9, <2>1
  <2>3. \A c \in 0..(SZ - 1) : w.cells[c] = IF c = 0 THEN b ELSE r.cells[c]
    BY <1>6, <1>7, <2>1
  <2> QED BY <1>9, <1>10, <1>13, <2>1, <2>2, <2>3 DEF PushedOne
<1>14. CASE ~r.read_is_ahead /\ wp = SZ /\ rp = 0
  BY <1>1, <1>4, <1>5, <1>6, <1>7, <1>9, <1>10, <1>14 DEF PushedOne
<1> QED BY <1>1, <1>11, <1>12, <1>13, <1>14

(* A ring whose first n bytes were pushed one by one: the writer is one    *)
(* cell past the start while the reader is ahead, and the cells it has     *)
(* passed hold bytes.                                                      *)
Filled(r, n) ==
  /\ r \in Rings
  /\ r.read_is_ahead => r.write_ptr = 1
  /\ \A c \in 0..(SZ - 1) : r.read_is_ahead \/ c < r.write_ptr => r.cells[c] \in 1..n

(* There is a byte at the reader.                                          *)
HasByte(r) == r.read_ptr < SZ /\ (r.read_is_ahead \/ r.read_ptr < r.write_ptr)

(* What pushes never take back.                                            *)
Later(r, w) ==
  /\ w.read_ptr = r.read_ptr
  /\ Ordered(r) => Ordered(w)
  /\ r.read_is_ahead => w.read_is_ahead
  /\ HasByte(r) => HasByte(w)
  /\ r.write_ptr >= 1 => w.write_ptr >= 1

(* One push.                                                               *)
LEMMA PushOneLater ==
  ASSUME NEW r, NEW n \in Nat, NEW w, Filled(r, n), PushedOne(r, n + 1, w)
  PROVE  Filled(w, n + 1) /\ Later(r, w)
<1>1. /\ r.write_ptr \in 0..SZ /\ r.read_ptr \in 0..SZ /\ w \in Rings
      /\ w.write_ptr \in 0..SZ /\ w.read_ptr = r.read_ptr
  BY DEF Filled, Rings, PushedOne
<1>2. \A c \in 0..(SZ - 1) : r.cells[c] \in 1..n => r.cells[c] \in 1..(n + 1)
  OBVIOUS
<1>3. CASE r.read_is_ahead /\ w.read_is_ahead /\ w.write_ptr = r.write_ptr
  <2>1. \A c \in 0..(SZ - 1) : w.cells[c] = n + 1 \/ w.cells[c] = r.cells[c]
    BY <1>3 DEF PushedOne
  <2>2. Filled(w, n + 1)
    BY <1>1, <1>2, <1>3, <2>1 DEF Filled
  <2> QED BY <1>1, <1>3, <2>2 DEF Later, Ordered, HasByte
<1>4. CASE /\ ~r.read_is_ahead /\ r.write_ptr < SZ
           /\ ~w.read_is_ahead /\ w.write_ptr = r.write_ptr + 1
  <2>1. \A c \in 0..(SZ - 1) : w.cells[c] = IF c = r.write_ptr THEN n + 1 ELSE r.cells[c]
    BY <1>1, <1>4 DEF PushedOne
  <2>2. \A c \in 0..(SZ - 1) : c < w.write_ptr => c = r.write_ptr \/ c < r.write_ptr
    BY <1>1, <1>4
  <2>3. Filled(w, n + 1)
    BY <1>1, <1>2, <1>4, <2>1, <2>2 DEF Filled
  <2> QED BY <1>1, <1>4, <2>3 DEF Later, Ordered, HasByte
<1>5. CASE /\ ~r.read_is_ahead /\ r.write_ptr = SZ /\ r.read_ptr > 0
           /\ w.read_is_ahead /\ w.write_ptr = 1
  <2>1. \A c \in 0..(SZ - 1) : w.cells[c] = n + 1 \/ w.cells[c] = r.cells[c]
    BY <1>5 DEF PushedOne
  <2>2. Filled(w, n + 1)
    BY <1>1, <1>2, <1>5, <2>1 DEF Filled
  <2> QED BY <1>1, <1>5, <2>2 DEF Later, Ordered, HasByte
<1>6. CASE /\ ~r.read_is_ahead /\ r.write_ptr = SZ /\ r.read_ptr = 0
           /\ ~w.read_is_ahead /\ w.write_ptr = r.write_ptr
  <2>1. \A c \in 0..(SZ - 1) : w.cells[c] = r.cells[c]
    BY <1>6 DEF PushedOne
  <2>2. Filled(w, n + 1)
    BY <1>1, <1>2, <1>6, <2>1 DEF Filled
  <2> QED BY <1>1, <1>6, <2>2 DEF Later, Ordered, HasByte
<1> QED BY <1>3, <1>4, <1>5, <1>6 DEF PushedOne

(* All pushes of an interrupt.                                             *)
LEMMA PushAllLater ==
  ASSUME NEW k \in Nat, Filled(ring, pushed), pushed \in Nat, pushed + k <= MAX_BYTES
  PROVE  Filled(PushAll(k), pushed + k) /\ Later(ring, PushAll(k))
<1> DEFINE G == {x \in Rings \X (0..k) : Filled(x[1], pushed + x[2]) /\ Later(ring, x[1])}
<1>1. <<ring, 0>> \in G
  <2>1. Later(ring, ring)
    BY DEF Later
  <2>2. ring \in Rings /\ 0 \in 0..k /\ pushed + 0 = pushed
    BY DEF Filled
  <2> QED BY <2>1, <2>2
<1>2. ASSUME NEW r, NEW i \in 1..k, <<r, i - 1>> \in G
      PROVE  <<ringbuf_write(r, <<pushed + i>>), i>> \in G
  <2> DEFINE w == ringbuf_write(r, <<pushed + i>>)
             n == pushed + (i - 1)
  <2>1. r \in Rings /\ Filled(r, n) /\ Later(ring, r)
    BY <1>2
  <2>2. n \in Nat /\ n + 1 = pushed + i /\ pushed + i \in Bytes /\ i \in 0..k
    BY DEF Bytes
  <2>3. PushedOne(r, n + 1, w)
    BY <2>1, <2>2, PushOne
  <2> HIDE DEF w, n
  <2>4. Filled(w, n + 1) /\ Later(r, w)
    BY <2>1, <2>2, <2>3, PushOneLater
  <2>5. Later(ring, w)
    BY <2>1, <2>4 DEF Later
  <2>6. w \in Rings
    BY <2>4 DEF Filled
  <2>7. <<w, i>> \in G
    BY <2>2, <2>4, <2>5, <2>6
  <2> QED BY <2>7 DEF w
<1> HIDE DEF G
<1>3. <<PushAll(k), k>> \in G
  BY <1>1, <1>2, Pushes
<1> QED BY <1>3 DEF G

(* The inductive invariant of the pipe: at each point of ringbuf_read what *)
(* it found when it looked still holds, as far as interrupts let it.       *)
PopPoint ==
  /\ pc # "wrapped" => Ordered(ring)
  /\ pc = "ahead" => ring.read_is_ahead
  /\ pc = "wrapped" => ring.read_ptr = SZ /\ ring.write_ptr >= 1
  /\ pc = "copy" /\ io_sz = 1 => HasByte(ring)

(* Without an interrupt it has seen a ring that stood still.               *)
Undisturbed ==
  irqs = 0 =>
    /\ pc = "compare" => ~ring.read_is_ahead
    /\ pc = "again" => ~ring.read_is_ahead /\ ring.write_ptr = ring.read_ptr
    /\ pc = "copy" => io_sz \in {0, 1}
    /\ pc # "corrupt"

PipeTypes ==
  /\ Filled(ring, pushed)
  /\ flag \in BOOLEAN /\ pushed \in 0..MAX_BYTES /\ pc \in Points
  /\ io_sz \in Int /\ popped \in 0..MAX_BYTES /\ irqs \in 0..IRQS_PER_READ

PipeIInv == PipeTypes /\ PopPoint /\ Undisturbed

(* The fields of the ring, and the byte at the reader.                     *)
LEMMA FilledFields ==
  ASSUME NEW r, NEW n \in 0..MAX_BYTES, Filled(r, n)
  PROVE  /\ r.write_ptr \in 0..SZ /\ r.read_ptr \in 0..SZ /\ r.read_is_ahead \in BOOLEAN
         /\ r.cells \in [0..(SZ - 1) -> Bytes]
         /\ HasByte(r) => r.cells[r.read_ptr] \in 1..MAX_BYTES
<1>1. /\ r.write_ptr \in 0..SZ /\ r.read_ptr \in 0..SZ /\ r.read_is_ahead \in BOOLEAN
      /\ r.cells \in [0..(SZ - 1) -> Bytes]
  BY DEF Filled, Rings, Cells
<1>2. ASSUME HasByte(r) PROVE r.cells[r.read_ptr] \in 1..MAX_BYTES
  <2>1. r.read_ptr \in 0..(SZ - 1)
    BY <1>1, <1>2 DEF HasByte
  <2>2. r.cells[r.read_ptr] \in 1..n
    BY <1>2, <2>1 DEF HasByte, Filled
  <2> QED BY <2>2
<1> QED BY <1>1, <1>2

(* The reader moves on by one cell.                                        *)
LEMMA ReaderMoves ==
  ASSUME NEW r, NEW n, Filled(r, n), NEW p \in 0..SZ
  PROVE  LET w == [r EXCEPT !.read_ptr = p] IN
         /\ Filled(w, n) /\ w.read_ptr = p /\ w.write_ptr = r.write_ptr
         /\ w.read_is_ahead = r.read_is_ahead /\ w.cells = r.cells
<1> DEFINE w == [r EXCEPT !.read_ptr = p]
<1>1. r \in Rings
  BY DEF Filled
<1>2. /\ w \in Rings /\ w.read_ptr = p /\ w.write_ptr = r.write_ptr
      /\ w.read_is_ahead = r.read_is_ahead /\ w.cells = r.cells
  BY <1>1 DEF Rings
<1> HIDE DEF w
<1>3. Filled(w, n)
  BY <1>2 DEF Filled
<1> QED BY <1>2, <1>3 DEF w

(* An interrupt.                                                           *)
LEMMA PipeIrq ==
  ASSUME PipeIInv, NEW k \in 1..MAX_PUSH, Irq(k)
  PROVE  PipeIInv'
<1>1. k \in Nat /\ pushed \in Nat /\ pushed + k <= MAX_BYTES /\ Filled(ring, pushed)
  BY DEF PipeIInv, PipeTypes, Irq
<1>2. Filled(ring', pushed + k) /\ Later(ring, ring')
  BY <1>1, PushAllLater DEF Irq
<1>3. /\ UNCHANGED <<pc, io_sz, popped>> /\ flag' = TRUE /\ pushed' = pushed + k
      /\ pc \notin {"panic", "corrupt"}
      /\ pc \in InRead => irqs' = irqs + 1 /\ irqs < IRQS_PER_READ
      /\ pc \notin InRead => irqs' = 0
  BY DEF Irq, Halted
<1>4. irqs \in 0..IRQS_PER_READ
  BY DEF PipeIInv, PipeTypes
<1>5. PipeTypes'
  BY <1>1, <1>2, <1>3, <1>4 DEF PipeIInv, PipeTypes
<1>6. PopPoint'
  BY <1>2, <1>3 DEF PipeIInv, PopPoint, Later
<1>7. Undisturbed'
  BY <1>3, <1>4 DEF Undisturbed, InRead
<1> QED BY <1>5, <1>6, <1>7 DEF PipeIInv

(* The steps of pipe_pop.                                                  *)
LEMMA PipePop == ASSUME PipeIInv, Pop PROVE PipeIInv'
<1>1. /\ ring.write_ptr \in 0..SZ /\ ring.read_ptr \in 0..SZ /\ ring.read_is_ahead \in BOOLEAN
      /\ Filled(ring, pushed) /\ pushed \in 0..MAX_BYTES
      /\ HasByte(ring) => ring.cells[ring.read_ptr] \in 1..MAX_BYTES
  BY FilledFields DEF PipeIInv, PipeTypes
<1>2. ring.read_is_ahead => ring.write_ptr = 1
  BY <1>1 DEF Filled
<1>3. ASSUME PopTake \/ PopBranch PROVE PipeIInv'
  <2>1. /\ UNCHANGED <<ring, pushed, io_sz, popped>> /\ pc' \in Points
        /\ irqs' \in 0..IRQS_PER_READ
    BY <1>3 DEF PopTake, PopBranch, Points, PipeIInv, PipeTypes
  <2>2. PipeTypes'
    <3>1. flag' \in BOOLEAN
      BY <1>3 DEF PopTake, PopBranch, PipeIInv, PipeTypes
    <3> QED BY <2>1, <3>1 DEF PipeIInv, PipeTypes
  <2>3. PopPoint' /\ Undisturbed'
    BY <1>1, <1>3 DEF PipeIInv, PopPoint, Undisturbed, PopTake, PopBranch
  <2> QED BY <2>2, <2>3 DEF PipeIInv
<1>4. ASSUME PopCompare \/ PopAgain PROVE PipeIInv'
  <2>1. ring' = ring /\ pushed' = pushed /\ pc \in {"compare", "again"} /\ Ordered(ring)
    BY <1>4 DEF PopCompare, PopAgain, PipeIInv, PopPoint
  <2>2. PipeTypes'
    BY <1>1, <1>4 DEF PipeIInv, PipeTypes, PopCompare, PopAgain, Points
  <2>3. PopPoint'
    BY <1>1, <1>2, <1>4, <2>1 DEF PopPoint, PopCompare, PopAgain, HasByte, Ordered
  <2>4. Undisturbed'
    BY <1>1, <1>4, <2>1 DEF PipeIInv, Undisturbed, PopCompare, PopAgain, Ordered
  <2> QED BY <2>2, <2>3, <2>4 DEF PipeIInv
<1>5. ASSUME PopUnwrap PROVE PipeIInv'
  <2>1. /\ pc = "ahead" /\ ring.read_is_ahead /\ ring.read_ptr = SZ /\ ring.write_ptr = 1
        /\ ring' = [ring EXCEPT !.read_is_ahead = FALSE] /\ pc' = "wrapped"
        /\ UNCHANGED <<flag, pushed, io_sz, popped, irqs>>
    BY <1>2, <1>5 DEF PopUnwrap, PipeIInv, PopPoint
  <2>2. /\ ring' \in Rings /\ ring'.read_ptr = SZ /\ ring'.write_ptr = 1
        /\ ~ring'.read_is_ahead /\ ring'.cells = ring.cells
    BY <1>1, <2>1 DEF Filled, Rings
  <2>3. Filled(ring', pushed)
    BY <1>1, <2>1, <2>2 DEF Filled
  <2>4. PipeTypes'
    BY <2>1, <2>3 DEF PipeIInv, PipeTypes, Points
  <2>5. PopPoint' /\ Undisturbed'
    BY <2>1, <2>2 DEF PopPoint, Undisturbed
  <2> QED BY <2>4, <2>5 DEF PipeIInv
<1>6. ASSUME NEW p \in 0..SZ, NEW b \in 0..MAX_BYTES, ring' = [ring EXCEPT !.read_ptr = p],
             popped' = b, pc' = "wait", UNCHANGED <<flag, pushed, io_sz, irqs>>,
             IF ring.read_is_ahead THEN ring.write_ptr <= p ELSE p <= ring.write_ptr
      PROVE  PipeIInv'
  <2>1. /\ Filled(ring', pushed) /\ ring'.read_ptr = p /\ ring'.write_ptr = ring.write_ptr
        /\ ring'.read_is_ahead = ring.read_is_ahead
    BY <1>1, <1>6, ReaderMoves
  <2>2. PipeTypes'
    BY <1>6, <2>1 DEF PipeIInv, PipeTypes, Points
  <2>3. PopPoint' /\ Undisturbed'
    BY <1>1, <1>6, <2>1 DEF PopPoint, Undisturbed, Ordered
  <2> QED BY <2>2, <2>3 DEF PipeIInv
<1>7. ASSUME PopAhead PROVE PipeIInv'
  <2>1. ring.read_is_ahead /\ ring.read_ptr < SZ /\ ring.write_ptr <= ring.read_ptr /\ HasByte(ring)
    BY <1>7 DEF PopAhead, PipeIInv, PopPoint, Ordered, HasByte
  <2>2. ring.read_ptr + 1 \in 0..SZ /\ ring.write_ptr <= ring.read_ptr + 1
    BY <1>1, <2>1
  <2>3. /\ ring' = [ring EXCEPT !.read_ptr = ring.read_ptr + 1]
        /\ popped' = ring.cells[ring.read_ptr] /\ pc' = "wait" /\ UNCHANGED <<flag, pushed, io_sz, irqs>>
    BY <1>7 DEF PopAhead, Return
  <2>4. ring.cells[ring.read_ptr] \in 0..MAX_BYTES
    BY <1>1, <2>1
  <2> QED BY <1>6, <2>1, <2>2, <2>3, <2>4
<1>8. ASSUME PopWrapped PROVE PipeIInv'
  <2>1. ring.read_ptr = SZ /\ ring.write_ptr >= 1 /\ 1 \in 0..SZ
    BY <1>8 DEF PopWrapped, PipeIInv, PopPoint
  <2>2. ring.cells[0] \in 0..MAX_BYTES
    <3>1. 0 \in 0..(SZ - 1) /\ 0 < ring.write_ptr
      BY <1>1, <2>1
    <3>2. ring.cells[0] \in 1..pushed
      BY <1>1, <3>1 DEF Filled
    <3> QED BY <1>1, <3>2
  <2>3. /\ ring' = [ring EXCEPT !.read_ptr = 1] /\ popped' = ring.cells[0] /\ pc' = "wait"
        /\ UNCHANGED <<flag, pushed, io_sz, irqs>>
    BY <1>8 DEF PopWrapped, Return
  <2>4. IF ring.read_is_ahead THEN ring.write_ptr <= 1 ELSE 1 <= ring.write_ptr
    BY <1>1, <1>2, <2>1
  <2> QED BY <1>6, <2>1, <2>2, <2>3, <2>4
<1>9. ASSUME PopCopy PROVE PipeIInv'
  <2>1. CASE io_sz = 1
    <3>1. HasByte(ring) /\ Ordered(ring)
      BY <1>9, <2>1 DEF PopCopy, PipeIInv, PopPoint
    <3>2. /\ ring.read_ptr + 1 \in 0..SZ
          /\ IF ring.read_is_ahead THEN ring.write_ptr <= ring.read_ptr + 1
                                   ELSE ring.read_ptr + 1 <= ring.write_ptr
      BY <1>1, <3>1 DEF HasByte, Ordered
    <3>3. /\ ring' = [ring EXCEPT !.read_ptr = ring.read_ptr + 1]
          /\ popped' = ring.cells[ring.read_ptr] /\ pc' = "wait" /\ UNCHANGED <<flag, pushed, io_sz, irqs>>
      BY <1>9, <2>1 DEF PopCopy, Return
    <3>4. ring.cells[ring.read_ptr] \in 0..MAX_BYTES
      BY <1>1, <3>1
    <3> QED BY <1>6, <3>2, <3>3, <3>4
  <2>2. CASE io_sz # 1
    <3>1. /\ pc = "copy" /\ pc' = IF io_sz = 0 THEN "panic" ELSE "corrupt"
          /\ UNCHANGED <<ring, popped, flag, pushed, io_sz, irqs>>
      BY <1>9, <2>2 DEF PopCopy
    <3>2. PipeTypes'
      BY <3>1 DEF PipeIInv, PipeTypes, Points
    <3>3. PopPoint' /\ Undisturbed'
      BY <2>2, <3>1 DEF PipeIInv, PopPoint, Undisturbed
    <3> QED BY <3>2, <3>3 DEF PipeIInv
  <2> QED BY <2>1, <2>2
<1> QED BY <1>3, <1>4, <1>5, <1>7, <1>8, <1>9 DEF Pop

(* The inductive invariant of the pipe holds throughout.                   *)
LEMMA AlwaysPipeIInv == PipeSpec => []PipeIInv
<1>1. PipeInit => PipeIInv
  <2> SUFFICES ASSUME PipeInit PROVE PipeIInv
    OBVIOUS
  <2>1. ring = [cells |-> [c \in 0..(SZ - 1) |-> NOBYTE], write_ptr |-> 0, read_ptr |-> 0,
                read_is_ahead |-> FALSE]
    BY DEF PipeInit, ringbuf_init
  <2>2. /\ ring \in Rings /\ ~ring.read_is_ahead /\ ring.write_ptr = 0 /\ ring.read_ptr = 0
    BY <2>1 DEF Rings, Cells, Bytes
  <2>3. Filled(ring, 0) /\ Ordered(ring)
    BY <2>2 DEF Filled, Ordered
  <2>4. PipeTypes
    <3>1. /\ pushed = 0 /\ flag = FALSE /\ pc = "wait" /\ io_sz = 0 /\ popped = 0 /\ irqs = 0
      BY DEF PipeInit
    <3>2. flag \in BOOLEAN
      BY <3>1
    <3>3. Filled(ring, pushed) /\ pc \in Points
      BY <2>3, <3>1 DEF Points
    <3>4. pushed \in 0..MAX_BYTES /\ io_sz \in Int /\ popped \in 0..MAX_BYTES /\ irqs \in 0..IRQS_PER_READ
      BY <3>1
    <3> QED BY <3>2, <3>3, <3>4 DEF PipeTypes
  <2>5. PopPoint /\ Undisturbed
    BY <2>3 DEF PipeInit, PopPoint, Undisturbed
  <2> QED BY <2>4, <2>5 DEF PipeIInv
<1>2. PipeIInv /\ [PipeNext]_pipeVars => PipeIInv'
  <2> SUFFICES ASSUME PipeIInv, [PipeNext]_pipeVars PROVE PipeIInv'
    OBVIOUS
  <2>1. CASE UNCHANGED pipeVars
    BY <2>1 DEF pipeVars, PipeIInv, PipeTypes, PopPoint, Undisturbed
  <2>2. CASE PipeNext
    BY <2>2, PipeIrq, PipePop DEF PipeNext
  <2> QED BY <2>1, <2>2
<1> QED BY <1>1, <1>2, PTL DEF PipeSpec

(* However interrupts fall into an unlocked ringbuf_read, and however many *)
(* of them do, the pointers stay inside the buffer and are in order when   *)
(* pipe_pop returns; it copies a size it has no room for only after an     *)
(* interrupt, and what it returns was pushed.                              *)
THEOREM PipeSound == PipeSpec => []PipeInv
<1>1. PipeIInv => PipeInv
  <2> SUFFICES ASSUME PipeIInv PROVE PipeInv
    OBVIOUS
  <2>1. /\ ring.write_ptr \in 0..SZ /\ ring.read_ptr \in 0..SZ /\ ring.read_is_ahead \in BOOLEAN
        /\ ring.cells \in [0..(SZ - 1) -> Bytes]
    BY FilledFields DEF PipeIInv, PipeTypes
  <2>2. PipeTypeOK
    BY <2>1 DEF PipeIInv, PipeTypes, PipeTypeOK, Bytes
  <2>3. QuiescentOrdered
    BY DEF PipeIInv, PopPoint, Ordered, QuiescentOrdered
  <2>4. CorruptOnlyByInterrupt
    BY DEF PipeIInv, PipeTypes, Undisturbed, CorruptOnlyByInterrupt
  <2> QED BY <2>2, <2>3, <2>4 DEF PipeInv
<1> QED BY <1>1, AlwaysPipeIInv, PTL

----------------------------------------------------------------------------
(* The order of the bytes pipe_pop returns.                                *)

(* The unread bytes are younger than q and get younger with their place.   *)
Fresh(r, q) ==
  IF r.read_is_ahead
    THEN /\ q < r.cells[0]
         /\ \A c \in r.read_ptr..(SZ - 1) : q < r.cells[c] /\ r.cells[c] < r.cells[0]
         /\ \A c, d \in r.read_ptr..(SZ - 1) : c < d => r.cells[c] < r.cells[d]
    ELSE /\ \A c \in r.read_ptr..(r.write_ptr - 1) : q < r.cells[c]
         /\ \A c, d \in r.read_ptr..(r.write_ptr - 1) : c < d => r.cells[c] < r.cells[d]

(* The same for the reader that has given up its lead and not moved yet:   *)
(* its byte is the one at the start.                                       *)
Window(r, q) ==
  /\ ~r.read_is_ahead /\ r.write_ptr >= 1 /\ q < r.cells[0]
  /\ \A c, d \in 0..(r.write_ptr - 1) : c < d => r.cells[c] < r.cells[d]

(* One push is younger than all that is unread.                            *)
LEMMA PushOneFresh ==
  ASSUME NEW r, NEW n \in Nat, NEW w, Filled(r, n), PushedOne(r, n + 1, w),
         NEW q \in 0..n, Ordered(r), Fresh(r, q)
  PROVE  Fresh(w, q)
<1> DEFINE wp == r.write_ptr
           rp == r.read_ptr
<1>1. wp \in 0..SZ /\ rp \in 0..SZ /\ w.read_ptr = rp
  BY DEF Filled, Rings, PushedOne
<1>2. \A c \in 0..(SZ - 1) : r.read_is_ahead \/ c < wp => r.cells[c] \in 1..n
  BY DEF Filled
<1>3. CASE r.read_is_ahead /\ w.read_is_ahead /\ w.write_ptr = wp
  <2>1. wp = 1 /\ rp >= 1
    BY <1>1, <1>3 DEF Filled, Ordered
  <2>2. w.cells[0] = r.cells[0] /\ \A c \in rp..(SZ - 1) : w.cells[c] = r.cells[c]
    <3>1. \A c \in 0..(SZ - 1) : w.cells[c] = IF c = wp /\ wp < rp THEN n + 1 ELSE r.cells[c]
      BY <1>3 DEF PushedOne
    <3> QED BY <1>1, <2>1, <3>1
  <2> QED BY <1>1, <1>3, <2>2 DEF Fresh
<1>4. CASE ~r.read_is_ahead /\ wp < SZ /\ ~w.read_is_ahead /\ w.write_ptr = wp + 1
  <2>1. \A c \in 0..(SZ - 1) : w.cells[c] = IF c = wp THEN n + 1 ELSE r.cells[c]
    BY <1>1, <1>4 DEF PushedOne
  <2>2. w.cells[wp] = n + 1
    BY <1>1, <1>4, <2>1
  <2>3. \A c \in rp..(wp - 1) : w.cells[c] = r.cells[c] /\ r.cells[c] \in 1..n
    BY <1>1, <1>2, <1>4, <2>1
  <2>4. \A c \in rp..(w.write_ptr - 1) : c \in rp..(wp - 1) \/ c = wp
    BY <1>1, <1>4
  <2>5. \A c \in rp..(w.write_ptr - 1) : q < w.cells[c]
    BY <1>4, <2>2, <2>3, <2>4 DEF Fresh
  <2>6. ASSUME NEW c \in rp..(w.write_ptr - 1), NEW d \in rp..(w.write_ptr - 1), c < d
        PROVE  w.cells[c] < w.cells[d]
    <3>1. c \in rp..(wp - 1)
      BY <1>1, <1>4, <2>6
    <3>2. CASE d = wp
      BY <2>2, <2>3, <3>1, <3>2
    <3>3. CASE d \in rp..(wp - 1)
      BY <1>4, <2>3, <2>6, <3>1, <3>3 DEF Fresh
    <3> QED BY <2>4, <3>2, <3>3
  <2> QED BY <1>1, <1>4, <2>5, <2>6 DEF Fresh
<1>5. CASE ~r.read_is_ahead /\ wp = SZ /\ rp > 0 /\ w.read_is_ahead
  <2>1. \A c \in 0..(SZ - 1) : w.cells[c] = IF c = 0 THEN n + 1 ELSE r.cells[c]
    BY <1>5 DEF PushedOne
  <2>2. w.cells[0] = n + 1 /\ \A c \in rp..(SZ - 1) : w.cells[c] = r.cells[c] /\ r.cells[c] \in 1..n
    BY <1>1, <1>2, <1>5, <2>1
  <2> QED BY <1>1, <1>5, <2>2 DEF Fresh
<1>6. CASE ~r.read_is_ahead /\ wp = SZ /\ rp = 0 /\ ~w.read_is_ahead /\ w.write_ptr = wp
  <2>1. \A c \in 0..(SZ - 1) : w.cells[c] = r.cells[c]
    BY <1>1, <1>6 DEF PushedOne
  <2> QED BY <1>1, <1>6, <2>1 DEF Fresh
<1> QED BY <1>3, <1>4, <1>5, <1>6 DEF PushedOne

(* All pushes of an interrupt.                                             *)
LEMMA PushAllFresh ==
  ASSUME NEW k \in Nat, Filled(ring, pushed), pushed \in Nat, pushed + k <= MAX_BYTES,
         NEW q \in 0..pushed, Ordered(ring), Fresh(ring, q)
  PROVE  Fresh(PushAll(k), q)
<1> DEFINE G == {x \in Rings \X (0..k) : /\ Filled(x[1], pushed + x[2]) /\ Ordered(x[1])
                                         /\ Fresh(x[1], q)}
<1>1. <<ring, 0>> \in G
  <2>1. ring \in Rings /\ 0 \in 0..k /\ pushed + 0 = pushed
    BY DEF Filled
  <2> QED BY <2>1
<1>2. ASSUME NEW r, NEW i \in 1..k, <<r, i - 1>> \in G
      PROVE  <<ringbuf_write(r, <<pushed + i>>), i>> \in G
  <2> DEFINE w == ringbuf_write(r, <<pushed + i>>)
             n == pushed + (i - 1)
  <2>1. r \in Rings /\ Filled(r, n) /\ Ordered(r) /\ Fresh(r, q)
    BY <1>2
  <2>2. n \in Nat /\ n + 1 = pushed + i /\ pushed + i \in Bytes /\ i \in 0..k /\ q \in 0..n
    BY DEF Bytes
  <2>3. PushedOne(r, n + 1, w)
    BY <2>1, <2>2, PushOne
  <2> HIDE DEF w, n
  <2>4. Filled(w, n + 1) /\ Later(r, w)
    BY <2>1, <2>2, <2>3, PushOneLater
  <2>5. Fresh(w, q)
    BY <2>1, <2>2, <2>3, PushOneFresh
  <2>6. w \in Rings /\ Ordered(w)
    BY <2>1, <2>4 DEF Filled, Later
  <2>7. <<w, i>> \in G
    BY <2>2, <2>4, <2>5, <2>6
  <2> QED BY <2>7 DEF w
<1> HIDE DEF G
<1>3. <<PushAll(k), k>> \in G
  BY <1>1, <1>2, Pushes
<1> QED BY <1>3 DEF G

(* One push behind a reader that has given up its lead, while the writer   *)
(* is not at the end of the buffer.                                        *)
LEMMA PushOneWindow ==
  ASSUME NEW r, NEW n \in Nat, NEW w, Filled(r, n), PushedOne(r, n + 1, w),
         NEW q \in 0..n, Window(r, q), r.write_ptr < SZ
  PROVE  Window(w, q) /\ w.write_ptr = r.write_ptr + 1
<1> DEFINE wp == r.write_ptr
<1>1. wp \in 1..(SZ - 1) /\ ~r.read_is_ahead
  BY DEF Filled, Rings, Window
<1>2. ~w.read_is_ahead /\ w.write_ptr = wp + 1
  BY <1>1 DEF PushedOne
<1>3. \A c \in 0..(SZ - 1) : w.cells[c] = IF c = wp THEN n + 1 ELSE r.cells[c]
  BY <1>1 DEF PushedOne
<1>4. w.cells[wp] = n + 1 /\ w.cells[0] = r.cells[0]
  BY <1>1, <1>3
<1>5. \A c \in 0..(wp - 1) : w.cells[c] = r.cells[c] /\ r.cells[c] \in 1..n
  BY <1>1, <1>3 DEF Filled
<1>6. ASSUME NEW c \in 0..wp, NEW d \in 0..wp, c < d PROVE w.cells[c] < w.cells[d]
  <2>1. c \in 0..(wp - 1)
    BY <1>1, <1>6
  <2>2. CASE d = wp
    BY <1>4, <1>5, <2>1, <2>2
  <2>3. CASE d \in 0..(wp - 1)
    BY <1>5, <1>6, <2>1, <2>3 DEF Window
  <2> QED BY <1>1, <2>2, <2>3
<1>7. q < w.cells[0]
  BY <1>4 DEF Window
<1> HIDE DEF wp
<1>8. w.write_ptr >= 1 /\ w.write_ptr - 1 = wp
  BY <1>1, <1>2
<1> QED BY <1>2, <1>6, <1>7, <1>8 DEF Window, wp

(* All pushes of an interrupt that ends before the end of the buffer.      *)
LEMMA PushAllWindow ==
  ASSUME NEW k \in Nat, Filled(ring, pushed), pushed \in Nat, pushed + k <= MAX_BYTES,
         NEW q \in 0..pushed, Window(ring, q), ring.write_ptr + k <= SZ
  PROVE  Window(PushAll(k), q) /\ PushAll(k).write_ptr = ring.write_ptr + k
<1> DEFINE G == {x \in Rings \X (0..k) : /\ Filled(x[1], pushed + x[2]) /\ Window(x[1], q)
                                         /\ x[1].write_ptr = ring.write_ptr + x[2]}
<1>1. ring.write_ptr \in 0..SZ
  BY DEF Filled, Rings
<1>2. <<ring, 0>> \in G
  <2>1. ring \in Rings /\ 0 \in 0..k /\ pushed + 0 = pushed /\ ring.write_ptr + 0 = ring.write_ptr
    BY <1>1 DEF Filled
  <2> QED BY <2>1
<1>3. ASSUME NEW r, NEW i \in 1..k, <<r, i - 1>> \in G
      PROVE  <<ringbuf_write(r, <<pushed + i>>), i>> \in G
  <2> DEFINE w == ringbuf_write(r, <<pushed + i>>)
             n == pushed + (i - 1)
  <2>1. /\ r \in Rings /\ Filled(r, n) /\ Window(r, q)
        /\ r.write_ptr = ring.write_ptr + (i - 1)
    BY <1>3
  <2>2. n \in Nat /\ n + 1 = pushed + i /\ pushed + i \in Bytes /\ i \in 0..k /\ q \in 0..n
    BY DEF Bytes
  <2>3. PushedOne(r, n + 1, w)
    BY <2>1, <2>2, PushOne
  <2> HIDE DEF w, n
  <2>4. Filled(w, n + 1)
    BY <2>1, <2>2, <2>3, PushOneLater
  <2>5. r.write_ptr < SZ
    BY <1>1, <2>1
  <2>6. Window(w, q) /\ w.write_ptr = r.write_ptr + 1
    BY <2>1, <2>2, <2>3, <2>5, PushOneWindow
  <2>7. w \in Rings /\ w.write_ptr = ring.write_ptr + i
    BY <1>1, <2>1, <2>4, <2>6 DEF Filled
  <2>8. <<w, i>> \in G
    BY <2>2, <2>4, <2>6, <2>7
  <2> QED BY <2>8 DEF w
<1> HIDE DEF G
<1>4. <<PushAll(k), k>> \in G
  BY <1>2, <1>3, Pushes
<1> QED BY <1>4 DEF G

(* The interrupts of one ringbuf_read push less than the buffer holds.  In *)
(* the code one interrupt pushes at most five bytes and the buffer has     *)
(* eight; were there room for a full round the writer could pass the       *)
(* reader that has given up its lead, and bytes would come twice.          *)
ReadIsShort == MAX_PUSH * IRQS_PER_READ < SZ

(* Every unread byte is younger than the one returned last.                *)
PopOrder ==
  /\ popped <= pushed
  /\ IF pc = "wrapped" THEN Window(ring, popped) /\ ring.write_ptr <= 1 + MAX_PUSH * irqs
                       ELSE Fresh(ring, popped)

(* The room one more interrupt needs.                                      *)
LEMMA OneMoreFits ==
  ASSUME ReadIsShort, NEW i \in Nat, i < IRQS_PER_READ, NEW k \in 1..MAX_PUSH,
         NEW w \in Nat, w <= 1 + MAX_PUSH * i
  PROVE  w + k <= 1 + MAX_PUSH * (i + 1) /\ w + k <= SZ
<1>1. MAX_PUSH \in Nat /\ IRQS_PER_READ \in Nat /\ MAX_PUSH * IRQS_PER_READ < SZ
  BY DEF ReadIsShort
<1>2. MAX_PUSH * (i + 1) = MAX_PUSH * i + MAX_PUSH /\ MAX_PUSH * i \in Nat
  BY <1>1
<1>3. \A m \in Nat, a \in Nat, b \in Nat : a <= b => m * a <= m * b
  OBVIOUS
<1>4. MAX_PUSH * (i + 1) <= MAX_PUSH * IRQS_PER_READ
  BY <1>1, <1>3
<1>5. MAX_PUSH * IRQS_PER_READ \in Nat
  BY <1>1
<1> QED BY <1>1, <1>2, <1>4, <1>5

(* An interrupt.                                                           *)
LEMMA OrderIrq ==
  ASSUME ReadIsShort, PipeIInv, PopOrder, NEW k \in 1..MAX_PUSH, Irq(k)
  PROVE  PopOrder'
<1>1. /\ k \in Nat /\ pushed \in Nat /\ pushed + k <= MAX_BYTES /\ Filled(ring, pushed)
      /\ popped \in 0..pushed /\ irqs \in Nat /\ ring.write_ptr \in Nat
  BY DEF ReadIsShort, PipeIInv, PipeTypes, PopOrder, Irq, Filled, Rings
<1>2. /\ UNCHANGED <<pc, popped>> /\ pushed' = pushed + k /\ ring' = PushAll(k)
      /\ pc \in InRead => irqs' = irqs + 1 /\ irqs < IRQS_PER_READ
  BY DEF Irq
<1>3. CASE pc = "wrapped"
  <2>1. /\ Window(ring, popped) /\ ring.write_ptr <= 1 + MAX_PUSH * irqs
        /\ irqs' = irqs + 1 /\ irqs < IRQS_PER_READ
    BY <1>2, <1>3 DEF PopOrder, InRead
  <2>2. ring.write_ptr + k <= 1 + MAX_PUSH * (irqs + 1) /\ ring.write_ptr + k <= SZ
    BY <1>1, <2>1, OneMoreFits
  <2>3. Window(ring', popped) /\ ring'.write_ptr = ring.write_ptr + k
    BY <1>1, <1>2, <2>1, <2>2, PushAllWindow
  <2>4. popped' <= pushed' /\ ring'.write_ptr <= 1 + MAX_PUSH * irqs'
    BY <1>1, <1>2, <2>1, <2>2, <2>3
  <2> QED BY <1>2, <1>3, <2>3, <2>4 DEF PopOrder
<1>4. CASE pc # "wrapped"
  <2>1. Fresh(ring, popped) /\ Ordered(ring)
    BY <1>4 DEF PopOrder, PipeIInv, PopPoint
  <2>2. Fresh(ring', popped)
    BY <1>1, <1>2, <2>1, PushAllFresh
  <2>3. popped' <= pushed'
    BY <1>1, <1>2
  <2> QED BY <1>2, <1>4, <2>2, <2>3 DEF PopOrder
<1> QED BY <1>3, <1>4

(* The steps of pipe_pop, and what it returns.                             *)
LEMMA OrderPop ==
  ASSUME ReadIsShort, PipeIInv, PopOrder, Pop
  PROVE  PopOrder' /\ (pc # "wait" /\ pc' = "wait" => popped' > popped)
<1> DEFINE Goal == PopOrder' /\ (pc # "wait" /\ pc' = "wait" => popped' > popped)
<1>1. /\ ring.write_ptr \in 0..SZ /\ ring.read_ptr \in 0..SZ /\ ring.read_is_ahead \in BOOLEAN
      /\ Filled(ring, pushed) /\ pushed \in 0..MAX_BYTES /\ ring \in Rings
      /\ \A c \in 0..(SZ - 1) : ring.read_is_ahead \/ c < ring.write_ptr => ring.cells[c] \in 1..pushed
  BY FilledFields DEF PipeIInv, PipeTypes, Filled
<1>2. ring.read_is_ahead => ring.write_ptr = 1
  BY <1>1 DEF Filled
<1>3. ASSUME UNCHANGED <<ring, pushed, popped>>, pc # "wrapped", pc' \notin {"wrapped", "wait"}
      PROVE  Goal
  BY <1>3 DEF PopOrder
<1>4. ASSUME PopTake \/ PopBranch \/ PopCompare \/ PopAgain PROVE Goal
  <2>1. UNCHANGED <<ring, pushed, popped>> /\ pc # "wrapped" /\ pc' \notin {"wrapped", "wait"}
    BY <1>4 DEF PopTake, PopBranch, PopCompare, PopAgain
  <2> QED BY <1>3, <2>1
<1>5. ASSUME PopUnwrap PROVE Goal
  <2>1. /\ pc = "ahead" /\ ring.read_is_ahead /\ ring.read_ptr = SZ /\ ring.write_ptr = 1
        /\ ring' = [ring EXCEPT !.read_is_ahead = FALSE] /\ pc' = "wrapped"
        /\ UNCHANGED <<pushed, popped, irqs>> /\ irqs \in Nat /\ MAX_PUSH \in Nat
    BY <1>2, <1>5 DEF PopUnwrap, PipeIInv, PipeTypes, PopPoint, ReadIsShort
  <2>2. ring'.write_ptr = 1 /\ ~ring'.read_is_ahead /\ ring'.cells = ring.cells
    BY <1>1, <2>1 DEF Rings
  <2>3. popped < ring.cells[0] /\ popped <= pushed
    BY <2>1 DEF PopOrder, Fresh
  <2>4. Window(ring', popped)
    BY <2>2, <2>3 DEF Window
  <2>5. MAX_PUSH * irqs \in Nat
    BY <2>1
  <2>6. ring'.write_ptr <= 1 + MAX_PUSH * irqs
    BY <2>2, <2>5
  <2> QED BY <2>1, <2>3, <2>4, <2>6 DEF PopOrder
<1>6. ASSUME NEW p \in 0..SZ, NEW b \in 1..pushed, ring' = [ring EXCEPT !.read_ptr = p],
             popped' = b, pc' = "wait", pushed' = pushed, popped < b,
             Fresh([ring EXCEPT !.read_ptr = p], b)
      PROVE  Goal
  BY <1>1, <1>6 DEF PopOrder
<1>7. ASSUME HasByte(ring), Ordered(ring), pc \in {"ahead", "copy"}, pushed' = pushed, pc' = "wait",
             ring' = [ring EXCEPT !.read_ptr = ring.read_ptr + 1],
             popped' = ring.cells[ring.read_ptr]
      PROVE  Goal
  <2> DEFINE p == ring.read_ptr + 1
             b == ring.cells[ring.read_ptr]
             w == [ring EXCEPT !.read_ptr = p]
  <2>1. p \in 0..SZ /\ ring.read_ptr \in 0..(SZ - 1)
    BY <1>1, <1>7 DEF HasByte
  <2>2. b \in 1..pushed
    BY <1>1, <1>7, <2>1 DEF HasByte
  <2>3. Fresh(ring, popped)
    BY <1>7 DEF PopOrder
  <2>4. /\ w.read_ptr = p /\ w.write_ptr = ring.write_ptr
        /\ w.read_is_ahead = ring.read_is_ahead /\ w.cells = ring.cells
    BY <1>1, <2>1 DEF Rings
  <2> HIDE DEF w
  <2>5. CASE ring.read_is_ahead
    <3>1. ring.read_ptr \in ring.read_ptr..(SZ - 1) /\ \A c \in p..(SZ - 1) : c \in ring.read_ptr..(SZ - 1)
      BY <2>1
    <3>2. popped < b /\ b < ring.cells[0]
      BY <2>3, <2>5, <3>1 DEF Fresh
    <3>3. \A c \in p..(SZ - 1) : b < ring.cells[c] /\ ring.cells[c] < ring.cells[0]
      BY <2>1, <2>3, <2>5, <3>1 DEF Fresh
    <3>4. \A c, d \in p..(SZ - 1) : c < d => ring.cells[c] < ring.cells[d]
      BY <2>3, <2>5, <3>1 DEF Fresh
    <3>5. Fresh(w, b)
      BY <2>4, <2>5, <3>2, <3>3, <3>4 DEF Fresh
    <3> QED BY <1>6, <1>7, <2>1, <2>2, <3>2, <3>5 DEF w
  <2>6. CASE ~ring.read_is_ahead
    <3>1. /\ ring.read_ptr \in ring.read_ptr..(ring.write_ptr - 1)
          /\ \A c \in p..(ring.write_ptr - 1) : c \in ring.read_ptr..(ring.write_ptr - 1)
      BY <1>1, <1>7, <2>1, <2>6 DEF HasByte
    <3>2. popped < b
      BY <2>3, <2>6, <3>1 DEF Fresh
    <3>3. \A c \in p..(ring.write_ptr - 1) : b < ring.cells[c]
      BY <1>1, <2>1, <2>3, <2>6, <3>1 DEF Fresh
    <3>4. \A c, d \in p..(ring.write_ptr - 1) : c < d => ring.cells[c] < ring.cells[d]
      BY <2>3, <2>6, <3>1 DEF Fresh
    <3>5. Fresh(w, b)
      BY <2>4, <2>6, <3>3, <3>4 DEF Fresh
    <3> QED BY <1>6, <1>7, <2>1, <2>2, <3>2, <3>5 DEF w
  <2> QED BY <2>5, <2>6
<1>8. ASSUME PopAhead PROVE Goal
  <2>1. HasByte(ring) /\ Ordered(ring)
    BY <1>8 DEF PopAhead, PipeIInv, PopPoint, HasByte
  <2>2. /\ pc = "ahead" /\ pushed' = pushed /\ pc' = "wait"
        /\ ring' = [ring EXCEPT !.read_ptr = ring.read_ptr + 1]
        /\ popped' = ring.cells[ring.read_ptr]
    BY <1>8 DEF PopAhead, Return
  <2> QED BY <1>7, <2>1, <2>2
<1>9. ASSUME PopCopy PROVE Goal
  <2>1. CASE io_sz = 1
    <3>1. HasByte(ring) /\ Ordered(ring)
      BY <1>9, <2>1 DEF PopCopy, PipeIInv, PopPoint
    <3>2. /\ pc = "copy" /\ pushed' = pushed /\ pc' = "wait"
          /\ ring' = [ring EXCEPT !.read_ptr = ring.read_ptr + 1]
          /\ popped' = ring.cells[ring.read_ptr]
      BY <1>9, <2>1 DEF PopCopy, Return
    <3> QED BY <1>7, <3>1, <3>2
  <2>2. CASE io_sz # 1
    <3>1. UNCHANGED <<ring, pushed, popped>> /\ pc # "wrapped" /\ pc' \notin {"wrapped", "wait"}
      BY <1>9, <2>2 DEF PopCopy
    <3> QED BY <1>3, <3>1
  <2> QED BY <2>1, <2>2
<1>10. ASSUME PopWrapped PROVE Goal
  <2> DEFINE b == ring.cells[0]
             w == [ring EXCEPT !.read_ptr = 1]
  <2>1. Window(ring, popped) /\ ring' = w /\ popped' = b /\ pc' = "wait" /\ pushed' = pushed
    BY <1>10 DEF PopWrapped, Return, PopOrder
  <2>2. 0 \in 0..(SZ - 1) /\ 1 \in 0..SZ /\ 0 < ring.write_ptr /\ ~ring.read_is_ahead
    BY <1>1, <2>1 DEF Window
  <2>3. b \in 1..pushed /\ popped < b
    BY <1>1, <2>1, <2>2 DEF Window
  <2>4. /\ w.read_ptr = 1 /\ w.write_ptr = ring.write_ptr
        /\ w.read_is_ahead = ring.read_is_ahead /\ w.cells = ring.cells
    BY <1>1 DEF Rings
  <2> HIDE DEF w
  <2>5. \A c \in 1..(ring.write_ptr - 1) : c \in 0..(ring.write_ptr - 1) /\ 0 \in 0..(ring.write_ptr - 1)
    BY <1>1
  <2>6. \A c \in 1..(ring.write_ptr - 1) : b < ring.cells[c]
    BY <2>1, <2>5 DEF Window
  <2>7. \A c, d \in 1..(ring.write_ptr - 1) : c < d => ring.cells[c] < ring.cells[d]
    BY <2>1, <2>5 DEF Window
  <2>8. Fresh(w, b)
    BY <2>2, <2>4, <2>6, <2>7 DEF Fresh
  <2> QED BY <1>6, <2>1, <2>2, <2>3, <2>8 DEF w
<1> QED BY <1>4, <1>5, <1>8, <1>9, <1>10 DEF Pop

(* pipe_pop returns every byte at most once and in the order in which the  *)
(* interrupt handler pushed them, for every size of the buffer, when the   *)
(* interrupts of one ringbuf_read push less than the buffer holds.         *)
THEOREM PipeInOrder == ASSUME ReadIsShort PROVE PipeSpec => PoppedInOrder
<1> DEFINE A == (pc # "wait" /\ pc' = "wait") => popped' > popped
<1>1. PipeInit => PopOrder
  <2> SUFFICES ASSUME PipeInit PROVE PopOrder
    OBVIOUS
  <2>1. ring.write_ptr = 0 /\ ring.read_ptr = 0 /\ ~ring.read_is_ahead
    BY DEF PipeInit, ringbuf_init
  <2>2. Fresh(ring, popped)
    BY <2>1 DEF Fresh
  <2> QED BY <2>2 DEF PipeInit, PopOrder
<1>2. PipeIInv /\ PopOrder /\ [PipeNext]_pipeVars => PopOrder' /\ [A]_pipeVars
  <2> SUFFICES ASSUME PipeIInv, PopOrder, [PipeNext]_pipeVars PROVE PopOrder' /\ [A]_pipeVars
    OBVIOUS
  <2>1. CASE UNCHANGED pipeVars
    BY <2>1 DEF pipeVars, PopOrder
  <2>2. ASSUME NEW k \in 1..MAX_PUSH, Irq(k) PROVE PopOrder' /\ A
    BY <2>2, OrderIrq DEF Irq
  <2>3. CASE Pop
    BY <2>3, OrderPop
  <2> QED BY <2>1, <2>2, <2>3 DEF PipeNext
<1>3. PipeSpec => [][A]_pipeVars
  BY <1>1, <1>2, AlwaysPipeIInv, PTL DEF PipeSpec
<1> QED BY <1>3 DEF PoppedInOrder


----------------------------------------------------------------------------
(* The slots of the VideoCore's message queue.  The inductive invariant    *)
(* says the same of both sides: a stream is                                *)
(* its memory m, the starts st of its messages, the positions tx and rx,   *)
(* its queue of slots q, the count rec of slots given back, the number g   *)
(* of messages taken, the message f that is not filled yet and the store v *)
(* that comes next in it.                                                  *)

(* How many slots were used before the one of position p.                  *)
Index(p) == p \div SLOT_SIZE
(* Where the slot of position p ends.                                      *)
SlotEnd(p) == p + SlotSpace(p)

(* Slots are used in turn, so this is where position p is.                 *)
Turn(i) == (i % SLOTS) + 1
HeaderIn(m, p) == m[Turn(Index(p))][Offset(p)]

(* Where the queue has the i-th slot used.                                 *)
Entry(i) == i % QUEUE

(* The contents of the slots.                                              *)
Headers == [id : Garbage..MAX_MSGS, stride : 0..SLOT_SIZE]
Memories == [Slots -> [Offsets -> Headers]]

(* No header reaches beyond the end of its slot.                           *)
MemorySound(m) ==
  m \in Memories /\ \A n \in Slots, o \in Offsets : o + m[n][o].stride <= SLOT_SIZE

(* Where messages were written: one after the other, each in the slot of   *)
(* the one before or in the next.                                          *)
StartsSound(st, tx) ==
  /\ st \in Seq(Nat) /\ tx \in Nat
  /\ \A i, j \in 1..Len(st) :
       i < j => st[i] < st[j] /\ Index(st[j]) <= Index(st[i]) + (j - i)
  /\ Len(st) > 0 => /\ st[Len(st)] < tx /\ tx <= SlotEnd(st[Len(st)])
                    /\ tx - st[Len(st)] \in Strides
  /\ Len(st) = 0 => tx = 0

(* Every slot begins with a message.                                       *)
SlotsBegun(st) ==
  Len(st) > 0 => \A k \in 0..Index(st[Len(st)]) : \E i \in 1..Len(st) : st[i] = k * SLOT_SIZE

(* The reader is before the first message it has not taken.                *)
ReaderSound(st, tx, rx, g) ==
  /\ rx \in Nat /\ g \in 0..Len(st)
  /\ g = Len(st) => rx = tx
  /\ g < Len(st) => rx <= st[g + 1] /\ Index(st[g + 1]) <= Index(rx) + 1

(* The queue has the slots in turn, from the one the reader has left last  *)
(* to the last one given back.                                             *)
QueueSound(q, rec, rx) ==
  /\ q \in [0..(QUEUE - 1) -> 0..SLOTS]
  /\ rec = Index(rx) + SLOTS
  /\ \A i \in 0..(rec - 1) :
       /\ q[Entry(i)] \in Slots
       /\ Index(rx) <= i + 1 => q[Entry(i)] = Turn(i)

(* The message at p, or a padding header before it.                        *)
Leads(m, p, to) ==
  \/ to = p
  \/ /\ to = SlotEnd(p) /\ Offset(p) # 0
     /\ HeaderIn(m, p) = [id |-> Padding, stride |-> SlotSpace(p)]

(* The writer has not entered the slot of position p again.                *)
Standing(p, tx) == tx <= (Index(p) + SLOTS) * SLOT_SIZE

(* The header of message i says where the next one starts.                 *)
Linked(m, st, tx, i) ==
  LET d == HeaderIn(m, st[i]).stride
  IN  /\ d \in Strides
      /\ IF i = Len(st) THEN tx = st[i] + d ELSE Leads(m, st[i] + d, st[i + 1])

(* The places of the payload of a message.                                 *)
Behind(a, d) == (a + 1)..(a + d - 1)

(* Message i is in its cells.                                              *)
Complete(m, st, i) ==
  /\ HeaderIn(m, st[i]).id = i
  /\ \A p \in Behind(st[i], HeaderIn(m, st[i]).stride) : HeaderIn(m, p) = PayloadCell(i)

(* The messages not yet taken are less than a round ahead of the reader;   *)
(* the messages of slots not entered again, taken or not, are intact and   *)
(* lead from one to the next.                                              *)
HeadersSound(m, st, tx, rx, g, f, v) ==
  /\ \A i \in (g + 1)..Len(st) : Index(st[i]) < Index(rx) + SLOTS
  /\ \A i \in 1..Len(st) : Standing(st[i], tx) =>
       /\ i # f \/ v # "size" => Linked(m, st, tx, i)
       /\ i # f => Complete(m, st, i)
       /\ v = "payload" => HeaderIn(m, st[i]).id = i
  /\ g < Len(st) => Leads(m, rx, st[g + 1])

(* All of this for one stream.                                             *)
StreamSound(m, st, tx, rx, q, rec, g, f, v) ==
  /\ MemorySound(m) /\ StartsSound(st, tx) /\ SlotsBegun(st) /\ ReaderSound(st, tx, rx, g)
  /\ QueueSound(q, rec, rx) /\ HeadersSound(m, st, tx, rx, g, f, v)

(* One side's stream in the current state.                                 *)
Stream(s) ==
  StreamSound(mem[s], starts[s], tx_pos[s], rx_pos[s], slot_queue[s],
              slot_queue_recycle[s], Len(taken[s]), IF s = "arm" THEN filling ELSE 0,
              IF s = "arm" THEN next_store ELSE "none")

(* What the clients hold are messages taken, whose lengths are as they     *)
(* were until the writer enters their slots again.                         *)
HeldSound(h, m, st, tx) ==
  \A x \in h :
    /\ x.id \in 1..Len(st) /\ x.at = st[x.id] /\ x.slot = Turn(Index(x.at)) /\ x.stride \in Nat
    /\ x = [id |-> x.id, slot |-> x.slot, at |-> x.at, stride |-> x.stride]
    /\ Standing(x.at, tx) => HeaderIn(m, x.at).stride = x.stride

(* Only the message prepared last may still be empty.                      *)
FillingSound ==
  /\ filling \in {0, Len(starts["arm"])} /\ filling <= MAX_MSGS
  /\ next_store \in {"none", "size", "msgid", "payload"}
  /\ filling = 0 <=> next_store = "none"

(* What both sides have taken so far is in order.                          *)
Records ==
  /\ taken = [s \in Sides |-> taken[s]]
  /\ taken["vc"] \in Seq(Nat) /\ taken["arm"] \in Seq([id : Nat, torn : BOOLEAN])
  /\ ReceivedInOrder /\ ReadInOrder

(* The two sides are all there is.                                         *)
Shapes ==
  /\ mem = [s \in Sides |-> mem[s]] /\ starts = [s \in Sides |-> starts[s]]
  /\ tx_pos = [s \in Sides |-> tx_pos[s]] /\ rx_pos = [s \in Sides |-> rx_pos[s]]
  /\ slot_queue = [s \in Sides |-> slot_queue[s]]
  /\ slot_queue_recycle = [s \in Sides |-> slot_queue_recycle[s]]

(* The types of the events and of the threads that wait for them.          *)
EventsSound ==
  /\ slot_queue_available \in Nat /\ slot_queue_available >= SLOTS /\ adrift \in BOOLEAN
  /\ armed \in [Events -> BOOLEAN] /\ fired \in [Events -> BOOLEAN]
  /\ waitflag \in [Events -> BOOLEAN]
  /\ thread_pc \in [Events -> {"ready", "test", "arm", "wait", "disarm", "clear", "work", "bug"}]
  /\ ringing \in [Events -> {"no", "fire", "ring"}]

(* Callers leave fewer messages unanswered than there are slots: nothing   *)
(* else keeps vchiq_prep_next_header_tx from slots not given back.         *)
CallersWait == TX_INFLIGHT < SLOTS

(* The inductive invariant of the slots.                                   *)
SlotsIInv ==
  /\ Stream("arm") /\ Stream("vc")
  /\ HeldSound(held, mem["vc"], starts["vc"], tx_pos["vc"])
  /\ FillingSound /\ Records /\ Shapes /\ EventsSound

HIDE SizeAssumption
HIDE LengthAssumption
HIDE PipeAssumption
USE SlotsAssumption

----------------------------------------------------------------------------
(* Positions.                                                              *)

(* A message is shorter than a slot and not empty.                         *)
LEMMA StrideFacts ==
  ASSUME NEW d \in Strides PROVE d \in Nat /\ d > 0 /\ d < SLOT_SIZE
OBVIOUS

(* A position is the number of slots used before it, SLOT_SIZE times over, *)
(* and an offset in its slot.                                              *)
LEMMA PlaceFacts ==
  ASSUME NEW p \in Nat
  PROVE  /\ Index(p) \in Nat /\ Offset(p) \in Offsets /\ SlotSpace(p) \in 1..SLOT_SIZE
         /\ p = Index(p) * SLOT_SIZE + Offset(p)
         /\ SlotEnd(p) \in Nat /\ SlotEnd(p) > p
<1>1. /\ Index(p) \in Nat /\ Offset(p) \in 0..(SLOT_SIZE - 1)
      /\ p = Index(p) * SLOT_SIZE + Offset(p)
  BY Parts DEF Index, Offset
<1>2. SlotSpace(p) \in 1..SLOT_SIZE
  BY <1>1 DEF SlotSpace
<1> QED BY <1>1, <1>2 DEF SlotEnd, Offsets

(* A step that stays in a slot or goes to its end.                         *)
LEMMA Advance ==
  ASSUME NEW p \in Nat, NEW d \in Nat, d <= SlotSpace(p)
  PROVE  IF d < SlotSpace(p) THEN Index(p + d) = Index(p) /\ Offset(p + d) = Offset(p) + d
                             ELSE Index(p + d) = Index(p) + 1 /\ Offset(p + d) = 0
<1> DEFINE i == Index(p)
           o == Offset(p)
<1>1. i \in Nat /\ o \in 0..(SLOT_SIZE - 1) /\ p = i * SLOT_SIZE + o
  BY PlaceFacts DEF Offsets
<1>2. SlotSpace(p) = SLOT_SIZE - o
  BY DEF SlotSpace
<1> HIDE DEF i, o
<1>3. CASE d < SlotSpace(p)
  <2>1. o + d \in 0..(SLOT_SIZE - 1) /\ p + d = i * SLOT_SIZE + (o + d)
    BY <1>1, <1>2, <1>3
  <2> DEFINE u == o + d
  <2>2. u \in 0..(SLOT_SIZE - 1) /\ p + d = i * SLOT_SIZE + u
    BY <2>1
  <2> HIDE DEF u
  <2>3. (i * SLOT_SIZE + u) \div SLOT_SIZE = i /\ (i * SLOT_SIZE + u) % SLOT_SIZE = u
    BY <1>1, <2>2, PartsOf
  <2>4. Index(p + d) = i /\ Offset(p + d) = o + d
    BY <2>2, <2>3 DEF Index, Offset, u
  <2> QED BY <1>3, <2>4 DEF i, o
<1>4. CASE d = SlotSpace(p)
  <2>1. p + d = (i + 1) * SLOT_SIZE + 0 /\ 0 \in 0..(SLOT_SIZE - 1) /\ i + 1 \in Nat
    BY <1>1, <1>2, <1>4
  <2> DEFINE k == i + 1
             u == 0
  <2>2. p + d = k * SLOT_SIZE + u /\ u \in 0..(SLOT_SIZE - 1) /\ k \in Nat
    BY <2>1
  <2> HIDE DEF k, u
  <2>3. (k * SLOT_SIZE + u) \div SLOT_SIZE = k /\ (k * SLOT_SIZE + u) % SLOT_SIZE = u
    BY <2>2, PartsOf
  <2>4. Index(p + d) = i + 1 /\ Offset(p + d) = 0
    BY <2>2, <2>3 DEF Index, Offset, k, u
  <2> QED BY <1>2, <1>4, <2>4 DEF i, o
<1>5. SlotSpace(p) \in Nat
  BY PlaceFacts
<1> QED BY <1>3, <1>4, <1>5

(* A later position is in the same slot, at another offset, or in a later  *)
(* one.                                                                    *)
LEMMA IndexGrows ==
  ASSUME NEW p \in Nat, NEW q \in Nat, p <= q
  PROVE  Index(p) <= Index(q) /\ (Index(p) = Index(q) /\ p # q => Offset(p) # Offset(q))
<1>1. /\ Index(p) \in Nat /\ Offset(p) \in 0..(SLOT_SIZE - 1)
      /\ p = Index(p) * SLOT_SIZE + Offset(p)
      /\ Index(q) \in Nat /\ Offset(q) \in 0..(SLOT_SIZE - 1)
      /\ q = Index(q) * SLOT_SIZE + Offset(q)
  BY PlaceFacts DEF Offsets
<1>2. CASE Index(q) < Index(p)
  <2>1. Index(q) * SLOT_SIZE + SLOT_SIZE <= Index(p) * SLOT_SIZE
    BY <1>1, <1>2, Multiples
  <2>2. Index(q) * SLOT_SIZE \in Nat /\ Index(p) * SLOT_SIZE \in Nat
    BY <1>1
  <2> QED BY <1>1, <2>1, <2>2
<1>3. CASE Index(p) <= Index(q)
  BY <1>1, <1>3
<1> QED BY <1>1, <1>2, <1>3

(* Up to the end of a slot is in it, or the end.                           *)
LEMMA WithinSlot ==
  ASSUME NEW p \in Nat, NEW q \in Nat, p <= q, q <= SlotEnd(p)
  PROVE  /\ Index(q) \in {Index(p), Index(p) + 1}
         /\ q < SlotEnd(p) => Index(q) = Index(p)
         /\ q = SlotEnd(p) => Index(q) = Index(p) + 1 /\ Offset(q) = 0
         /\ Offset(q) # 0 => Index(q) = Index(p)
<1>1. q - p \in Nat /\ q - p <= SlotSpace(p) /\ p + (q - p) = q /\ SlotSpace(p) \in Nat
  BY PlaceFacts DEF SlotEnd
<1>2. IF q - p < SlotSpace(p) THEN Index(q) = Index(p) ELSE Index(q) = Index(p) + 1 /\ Offset(q) = 0
  BY <1>1, Advance
<1>3. q - p < SlotSpace(p) <=> q < SlotEnd(p)
  BY <1>1 DEF SlotEnd
<1>4. SlotEnd(p) \in Nat
  BY PlaceFacts
<1> QED BY <1>2, <1>3, <1>4

(* Numbers less than n apart have different remainders.                    *)
LEMMA RemaindersDiffer ==
  ASSUME NEW n \in Nat \ {0}, NEW i \in Nat, NEW j \in Nat, i < j, j < i + n
  PROVE  i % n # j % n
<1>1. /\ i \div n \in Nat /\ i % n \in 0..(n - 1) /\ i = (i \div n) * n + (i % n)
      /\ j \div n \in Nat /\ j % n \in 0..(n - 1) /\ j = (j \div n) * n + (j % n)
  BY Parts
<1> DEFINE a == i \div n
           b == j \div n
           o == i % n
           u == j % n
<1>2. /\ a \in Nat /\ o \in 0..(n - 1) /\ i = a * n + o
      /\ b \in Nat /\ u \in 0..(n - 1) /\ j = b * n + u
  BY <1>1
<1> HIDE DEF a, b, o, u
<1> SUFFICES ASSUME o = u PROVE FALSE
  BY DEF o, u
<1>3. CASE a < b
  <2>1. a * n + n <= b * n /\ a * n \in Int /\ b * n \in Int
    BY <1>2, <1>3, Multiples
  <2> QED BY <1>2, <2>1
<1>4. CASE b < a
  <2>1. b * n + n <= a * n /\ a * n \in Int /\ b * n \in Int
    BY <1>2, <1>4, Multiples
  <2> QED BY <1>2, <2>1
<1>5. CASE a = b
  BY <1>2, <1>5
<1> QED BY <1>2, <1>3, <1>4, <1>5

(* n further on the remainder is the same.                                 *)
LEMMA RemainderAgain ==
  ASSUME NEW n \in Nat \ {0}, NEW i \in Nat
  PROVE  (i + n) % n = i % n
<1>1. i \div n \in Nat /\ i % n \in 0..(n - 1) /\ i = (i \div n) * n + (i % n)
  BY Parts
<1> DEFINE a == i \div n
           o == i % n
<1>2. a \in Nat /\ o \in 0..(n - 1) /\ i = a * n + o
  BY <1>1
<1> HIDE DEF a, o
<1>3. i + n = (a + 1) * n + o /\ a + 1 \in Nat
  BY <1>2
<1>4. (i + n) % n = o
  BY <1>2, <1>3, PartsOf
<1> QED BY <1>4 DEF o

(* Each turn is one of the slots, and it comes again after SLOTS turns.    *)
LEMMA TurnFacts ==
  ASSUME NEW i \in Nat
  PROVE  Turn(i) \in Slots /\ Turn(i + SLOTS) = Turn(i)
<1>1. SLOTS \in Nat \ {0} /\ i % SLOTS \in 0..(SLOTS - 1)
  BY Parts
<1>2. (i + SLOTS) % SLOTS = i % SLOTS
  BY <1>1, RemainderAgain
<1> QED BY <1>1, <1>2 DEF Turn, Slots

(* The same slot does not come twice within SLOTS turns.                   *)
LEMMA TurnsDiffer ==
  ASSUME NEW i \in Nat, NEW j \in Nat, i < j, j < i + SLOTS
  PROVE  Turn(i) # Turn(j)
<1>1. SLOTS \in Nat \ {0}
  OBVIOUS
<1>2. i % SLOTS # j % SLOTS
  BY <1>1, RemaindersDiffer
<1>3. i % SLOTS \in Nat /\ j % SLOTS \in Nat
  BY <1>1, Parts
<1> QED BY <1>2, <1>3 DEF Turn

(* Two positions less than all slots apart are different places.           *)
LEMMA CellsDiffer ==
  ASSUME NEW p \in Nat, NEW q \in Nat, p < q, Index(q) < Index(p) + SLOTS
  PROVE  Turn(Index(p)) # Turn(Index(q)) \/ Offset(p) # Offset(q)
<1>1. Index(p) \in Nat /\ Index(q) \in Nat
  BY PlaceFacts
<1>2. Index(p) <= Index(q) /\ (Index(p) = Index(q) => Offset(p) # Offset(q))
  BY IndexGrows
<1>3. CASE Index(p) < Index(q)
  BY <1>1, <1>3, TurnsDiffer
<1> QED BY <1>1, <1>2, <1>3

(* The end of a slot is where the next one begins.                         *)
LEMMA EndOfSlot ==
  ASSUME NEW p \in Nat
  PROVE  SlotEnd(p) = (Index(p) + 1) * SLOT_SIZE
<1>1. Index(p) \in Nat /\ Offset(p) \in Nat /\ p = Index(p) * SLOT_SIZE + Offset(p)
  BY PlaceFacts DEF Offsets
<1> DEFINE i == Index(p)
           o == Offset(p)
<1>2. SlotEnd(p) = p + (SLOT_SIZE - o)
  BY DEF SlotEnd, SlotSpace
<1> HIDE DEF i, o
<1>3. i \in Nat /\ o \in Nat /\ p = i * SLOT_SIZE + o
  BY <1>1 DEF i, o
<1>4. (i + 1) * SLOT_SIZE = i * SLOT_SIZE + SLOT_SIZE /\ i * SLOT_SIZE \in Nat
  BY <1>3
<1>5. SlotEnd(p) = (i + 1) * SLOT_SIZE
  BY <1>2, <1>3, <1>4
<1> QED BY <1>5 DEF i

(* It is in that one.                                                      *)
LEMMA NextSlot ==
  ASSUME NEW p \in Nat
  PROVE  Index(SlotEnd(p)) = Index(p) + 1 /\ Offset(SlotEnd(p)) = 0
<1>1. SlotSpace(p) \in Nat
  BY PlaceFacts
<1> QED BY <1>1, Advance DEF SlotEnd

(* A position before the k-th slot used is in an earlier one.              *)
LEMMA IndexBelow ==
  ASSUME NEW p \in Nat, NEW k \in Nat
  PROVE  /\ p < k * SLOT_SIZE => Index(p) < k
         /\ Index(p) < k => p < k * SLOT_SIZE /\ SlotEnd(p) <= k * SLOT_SIZE
<1>1. /\ Index(p) \in Nat /\ Offset(p) \in 0..(SLOT_SIZE - 1)
      /\ p = Index(p) * SLOT_SIZE + Offset(p) /\ SlotEnd(p) \in Nat /\ p < SlotEnd(p)
  BY PlaceFacts DEF Offsets
<1> DEFINE i == Index(p)
           o == Offset(p)
<1>2. i \in Nat /\ o \in 0..(SLOT_SIZE - 1) /\ p = i * SLOT_SIZE + o
  BY <1>1
<1>3. SlotEnd(p) = (i + 1) * SLOT_SIZE
  BY EndOfSlot
<1> HIDE DEF i, o
<1>4. k * SLOT_SIZE \in Nat /\ i * SLOT_SIZE \in Nat
  BY <1>2
<1>5. CASE i < k
  <2>1. i * SLOT_SIZE + SLOT_SIZE <= k * SLOT_SIZE
    BY <1>2, <1>5, Multiples
  <2>2. (i + 1) * SLOT_SIZE = i * SLOT_SIZE + SLOT_SIZE
    BY <1>2
  <2> QED BY <1>1, <1>3, <1>4, <1>5, <2>1, <2>2 DEF i
<1>6. CASE i = k
  BY <1>2, <1>4, <1>6 DEF i
<1>7. CASE k < i
  <2>1. k * SLOT_SIZE + SLOT_SIZE <= i * SLOT_SIZE
    BY <1>2, <1>7, Multiples
  <2> QED BY <1>2, <1>4, <1>7, <2>1 DEF i
<1> QED BY <1>2, <1>5, <1>6, <1>7

(* Greater factors make greater products.                                  *)
LEMMA SlotsOrdered ==
  ASSUME NEW i \in Nat, NEW k \in Nat, i <= k
  PROVE  i * SLOT_SIZE <= k * SLOT_SIZE /\ i * SLOT_SIZE \in Nat /\ k * SLOT_SIZE \in Nat
<1>1. i * SLOT_SIZE \in Nat /\ k * SLOT_SIZE \in Nat
  OBVIOUS
<1>2. CASE i = k
  BY <1>1, <1>2
<1>3. CASE i < k
  <2>1. i * SLOT_SIZE + SLOT_SIZE <= k * SLOT_SIZE
    BY <1>3, Multiples
  <2> QED BY <1>1, <2>1
<1> QED BY <1>1, <1>2, <1>3

(* The places of a message that fits in its slot.                          *)
LEMMA MessagePlaces ==
  ASSUME NEW a \in Nat, NEW d \in Nat, d > 0, d <= SlotSpace(a)
  PROVE  /\ \A p \in a..(a + d - 1) : p \in Nat /\ Index(p) = Index(a) /\ Offset(p) = Offset(a) + (p - a)
         /\ PayloadOf(a, d) \subseteq Offsets /\ Offset(a) \in Offsets
         /\ a + d \in Nat /\ a < a + d /\ a + d <= SlotEnd(a)
<1>1. SlotSpace(a) \in Nat /\ SlotSpace(a) = SLOT_SIZE - Offset(a) /\ Offset(a) \in 0..(SLOT_SIZE - 1)
  BY PlaceFacts DEF SlotSpace, Offsets
<1>2. ASSUME NEW p \in a..(a + d - 1)
      PROVE  p \in Nat /\ Index(p) = Index(a) /\ Offset(p) = Offset(a) + (p - a)
  <2> DEFINE e == p - a
  <2>1. e \in Nat /\ e < SlotSpace(a) /\ a + e = p /\ p \in Nat
    BY <1>1
  <2> HIDE DEF e
  <2>2. Index(a + e) = Index(a) /\ Offset(a + e) = Offset(a) + e
    BY <1>1, <2>1, Advance
  <2>3. Index(p) = Index(a) /\ Offset(p) = Offset(a) + e
    BY <2>1, <2>2
  <2> QED BY <2>1, <2>3 DEF e
<1>3. PayloadOf(a, d) \subseteq Offsets /\ Offset(a) \in Offsets
  BY <1>1 DEF PayloadOf, Offsets
<1>4. a + d \in Nat /\ a < a + d /\ a + d <= SlotEnd(a)
  BY <1>1 DEF SlotEnd
<1> QED BY <1>2, <1>3, <1>4

(* What is written from a on is not the place of an earlier position that  *)
(* is less than all slots away.                                            *)
LEMMA EarlierPlace ==
  ASSUME NEW p \in Nat, NEW a \in Nat, p < a, Index(a) < Index(p) + SLOTS
  PROVE  Turn(Index(p)) # Turn(Index(a)) \/ Offset(p) < Offset(a)
<1>1. Index(p) \in Nat /\ Index(a) \in Nat /\ Index(p) <= Index(a)
  BY PlaceFacts, IndexGrows
<1>2. CASE Index(p) < Index(a)
  BY <1>1, <1>2, TurnsDiffer
<1>3. CASE Index(p) = Index(a)
  <2>1. /\ p = Index(p) * SLOT_SIZE + Offset(p) /\ a = Index(a) * SLOT_SIZE + Offset(a)
        /\ Offset(p) \in Nat /\ Offset(a) \in Nat
    BY PlaceFacts DEF Offsets
  <2> DEFINE z == Index(p) * SLOT_SIZE
  <2>2. p = z + Offset(p) /\ a = z + Offset(a) /\ z \in Nat
    BY <1>1, <1>3, <2>1
  <2> HIDE DEF z
  <2> QED BY <2>1, <2>2
<1> QED BY <1>1, <1>2, <1>3

(* A slot not entered again is less than all slots away from what is       *)
(* written.                                                                *)
LEMMA StandingNear ==
  ASSUME NEW p \in Nat, NEW tx \in Nat, NEW a \in Nat, a < tx, Standing(p, tx)
  PROVE  Index(a) < Index(p) + SLOTS
<1>1. Index(p) + SLOTS \in Nat
  BY PlaceFacts
<1>2. (Index(p) + SLOTS) * SLOT_SIZE \in Nat
  BY <1>1
<1>3. a < (Index(p) + SLOTS) * SLOT_SIZE
  BY <1>2 DEF Standing
<1> QED BY <1>1, <1>3, IndexBelow

----------------------------------------------------------------------------
(* Sending.                                                                *)

(* Where the next message starts.                                          *)
LEMMA StartFacts ==
  ASSUME NEW tx \in Nat, NEW stride \in Strides
  PROVE  LET at == Start(tx, stride)
         IN  /\ at \in Nat /\ tx <= at /\ at <= SlotEnd(tx) /\ stride \in 1..(SLOT_SIZE - 1)
             /\ Offset(at) + stride <= SLOT_SIZE /\ stride <= SlotSpace(at)
             /\ at # tx => at = SlotEnd(tx) /\ Offset(tx) # 0 /\ Offset(at) = 0
             /\ Index(tx) <= Index(at) /\ Index(at) <= Index(tx) + 1
<1> DEFINE at == Start(tx, stride)
<1>1. stride \in 1..(SLOT_SIZE - 1) /\ stride \in Nat
  OBVIOUS
<1>2. /\ SlotSpace(tx) \in 1..SLOT_SIZE /\ Offset(tx) \in 0..(SLOT_SIZE - 1)
      /\ SlotSpace(tx) = SLOT_SIZE - Offset(tx) /\ SlotEnd(tx) = tx + SlotSpace(tx)
      /\ SlotEnd(tx) \in Nat /\ SlotEnd(tx) > tx /\ Index(tx) \in Nat
  BY PlaceFacts DEF SlotSpace, SlotEnd, Offsets
<1>3. CASE SlotSpace(tx) < stride
  <2>1. at = SlotEnd(tx)
    BY <1>3 DEF Start, SlotEnd
  <2>2. Index(at) = Index(tx) + 1 /\ Offset(at) = 0
    BY <1>2, <2>1, WithinSlot
  <2>3. Offset(tx) # 0
    BY <1>1, <1>2, <1>3
  <2>4. SlotSpace(at) = SLOT_SIZE
    BY <2>2 DEF SlotSpace
  <2> HIDE DEF at
  <2>5. /\ at \in Nat /\ tx <= at /\ at <= SlotEnd(tx) /\ stride \in 1..(SLOT_SIZE - 1)
        /\ Offset(at) + stride <= SLOT_SIZE /\ stride <= SlotSpace(at)
        /\ at # tx => at = SlotEnd(tx) /\ Offset(tx) # 0 /\ Offset(at) = 0
        /\ Index(tx) <= Index(at) /\ Index(at) <= Index(tx) + 1
    BY <1>1, <1>2, <2>1, <2>2, <2>3, <2>4
  <2> QED BY <2>5 DEF at
<1>4. CASE ~(SlotSpace(tx) < stride)
  <2>1. at = tx
    BY <1>4 DEF Start
  <2> HIDE DEF at
  <2>2. /\ at \in Nat /\ tx <= at /\ at <= SlotEnd(tx) /\ stride \in 1..(SLOT_SIZE - 1)
        /\ Offset(at) + stride <= SLOT_SIZE /\ stride <= SlotSpace(at)
        /\ at # tx => at = SlotEnd(tx) /\ Offset(tx) # 0 /\ Offset(at) = 0
        /\ Index(tx) <= Index(at) /\ Index(at) <= Index(tx) + 1
    BY <1>1, <1>2, <1>4, <2>1
  <2> QED BY <2>2 DEF at
<1> QED BY <1>3, <1>4

(* WithCells, where the slots are used in turn.                                *)
Put(m, p, os, c) ==
  [m EXCEPT ![Turn(Index(p))] = [o \in Offsets |-> IF o \in os THEN c ELSE @[o]]]

(* Cells of one slot written.                                              *)
LEMMA PutFacts ==
  ASSUME NEW m, MemorySound(m), NEW p \in Nat, NEW os \in SUBSET Offsets, NEW c \in Headers,
         \A o \in os : o + c.stride <= SLOT_SIZE
  PROVE  LET w == Put(m, p, os, c)
         IN  /\ MemorySound(w)
             /\ \A q \in Nat : Turn(Index(q)) = Turn(Index(p)) /\ Offset(q) \in os => HeaderIn(w, q) = c
             /\ \A q \in Nat : Turn(Index(q)) # Turn(Index(p)) \/ Offset(q) \notin os =>
                  HeaderIn(w, q) = HeaderIn(m, q)
<1> DEFINE t == Turn(Index(p))
           w == Put(m, p, os, c)
<1>1. t \in Slots
  BY PlaceFacts, TurnFacts
<1>2. /\ m \in [Slots -> [Offsets -> Headers]]
      /\ \A n \in Slots, u \in Offsets : u + m[n][u].stride <= SLOT_SIZE
      /\ w = [m EXCEPT ![t] = [o \in Offsets |-> IF o \in os THEN c ELSE m[t][o]]]
  BY DEF MemorySound, Memories, Put
<1>3. ASSUME NEW q \in Nat PROVE Turn(Index(q)) \in Slots /\ Offset(q) \in Offsets
  BY PlaceFacts, TurnFacts
<1> HIDE DEF t, w
<1>4. /\ w \in [Slots -> [Offsets -> Headers]]
      /\ \A u \in Offsets : w[t][u] = IF u \in os THEN c ELSE m[t][u]
      /\ \A n \in Slots : n # t => w[n] = m[n]
  BY <1>1, <1>2
<1>5. \A n \in Slots, u \in Offsets : u + w[n][u].stride <= SLOT_SIZE
  <2> SUFFICES ASSUME NEW n \in Slots, NEW u \in Offsets PROVE u + w[n][u].stride <= SLOT_SIZE
    OBVIOUS
  <2>1. CASE n = t /\ u \in os
    BY <1>4, <2>1
  <2>2. CASE ~(n = t /\ u \in os)
    <3>1. w[n][u] = m[n][u]
      BY <1>4, <2>2
    <3> QED BY <1>2, <3>1
  <2> QED BY <2>1, <2>2
<1>6. MemorySound(w)
  BY <1>4, <1>5 DEF MemorySound, Memories
<1>7. \A q \in Nat : Turn(Index(q)) = Turn(Index(p)) /\ Offset(q) \in os => HeaderIn(w, q) = c
  BY <1>3, <1>4 DEF HeaderIn, t
<1>8. \A q \in Nat : Turn(Index(q)) # Turn(Index(p)) \/ Offset(q) \notin os =>
         HeaderIn(w, q) = HeaderIn(m, q)
  BY <1>3, <1>4 DEF HeaderIn, t
<1> QED BY <1>6, <1>7, <1>8 DEF w

(* Padded, where the slots are used in turn.                               *)
WithPad(m, tx, at) ==
  IF at = tx THEN m ELSE Put(m, tx, {Offset(tx)}, HeaderCell(Padding, SlotSpace(tx)))

(* vchiq_prep_next_header_tx writes a padding header when the rest of the  *)
(* slot is too short; earlier positions keep their cells unless they are a *)
(* whole round behind.                                                     *)
LEMMA PadFacts ==
  ASSUME NEW m, MemorySound(m), NEW tx \in Nat, NEW at
  PROVE  LET w == WithPad(m, tx, at)
         IN  /\ MemorySound(w)
             /\ at # tx => HeaderIn(w, tx) = HeaderCell(Padding, SlotSpace(tx))
             /\ \A p \in Nat : p < tx /\ Index(tx) < Index(p) + SLOTS => HeaderIn(w, p) = HeaderIn(m, p)
<1> DEFINE pad == HeaderCell(Padding, SlotSpace(tx))
           w == Put(m, tx, {Offset(tx)}, pad)
<1>1. CASE at = tx
  BY <1>1 DEF WithPad
<1>2. CASE at # tx
  <2>1. /\ SlotSpace(tx) \in 1..SLOT_SIZE /\ Offset(tx) + SlotSpace(tx) <= SLOT_SIZE
        /\ Offset(tx) \in Offsets
    BY PlaceFacts DEF SlotSpace, Offsets
  <2>2. pad \in Headers /\ pad.stride = SlotSpace(tx)
    BY <2>1 DEF HeaderCell, Headers, Padding, Garbage
  <2> HIDE DEF pad
  <2>3. {Offset(tx)} \in SUBSET Offsets /\ \A o \in {Offset(tx)} : o + pad.stride <= SLOT_SIZE
    BY <2>1, <2>2
  <2>4. /\ MemorySound(w) /\ HeaderIn(w, tx) = pad
        /\ \A q \in Nat : Turn(Index(q)) # Turn(Index(tx)) \/ Offset(q) # Offset(tx) =>
             HeaderIn(w, q) = HeaderIn(m, q)
    BY <2>2, <2>3, PutFacts
  <2> HIDE DEF w
  <2>5. \A p \in Nat : p < tx /\ Index(tx) < Index(p) + SLOTS => HeaderIn(w, p) = HeaderIn(m, p)
    BY <2>4, CellsDiffer
  <2> QED BY <1>2, <2>4, <2>5 DEF WithPad, w, pad
<1> QED BY <1>1, <1>2

(* Cells written from a on leave earlier positions alone, unless they are  *)
(* a whole round behind.                                                   *)
LEMMA PutBehind ==
  ASSUME NEW m, MemorySound(m), NEW a \in Nat, NEW d \in Nat, d > 0, d <= SlotSpace(a),
         NEW os, NEW c \in Headers,
         \/ os = {Offset(a)} /\ Offset(a) + c.stride <= SLOT_SIZE
         \/ os = PayloadOf(a, d) /\ c.stride = 0
  PROVE  LET w == Put(m, a, os, c)
         IN  /\ MemorySound(w)
             /\ os = {Offset(a)} => HeaderIn(w, a) = c
             /\ os # {Offset(a)} => HeaderIn(w, a) = HeaderIn(m, a)
             /\ os # {Offset(a)} => \A p \in Behind(a, d) : HeaderIn(w, p) = c
             /\ os = {Offset(a)} => \A p \in Behind(a, d) : HeaderIn(w, p) = HeaderIn(m, p)
             /\ \A p \in Nat : p < a /\ Index(a) < Index(p) + SLOTS => HeaderIn(w, p) = HeaderIn(m, p)
<1> DEFINE w == Put(m, a, os, c)
<1>1. /\ \A p \in a..(a + d - 1) : p \in Nat /\ Index(p) = Index(a) /\ Offset(p) = Offset(a) + (p - a)
      /\ PayloadOf(a, d) \subseteq Offsets /\ Offset(a) \in Offsets
  BY MessagePlaces
<1>2. Offset(a) \in 0..(SLOT_SIZE - 1)
  BY <1>1 DEF Offsets
<1>3. os \in SUBSET Offsets /\ \A o \in os : o + c.stride <= SLOT_SIZE
  <2>1. CASE os = {Offset(a)} /\ Offset(a) + c.stride <= SLOT_SIZE
    BY <1>1, <2>1
  <2>2. CASE os = PayloadOf(a, d) /\ c.stride = 0
    BY <1>1, <2>2 DEF Offsets
  <2> QED BY <2>1, <2>2
<1>4. /\ MemorySound(w)
      /\ \A q \in Nat : Turn(Index(q)) = Turn(Index(a)) /\ Offset(q) \in os => HeaderIn(w, q) = c
      /\ \A q \in Nat : Turn(Index(q)) # Turn(Index(a)) \/ Offset(q) \notin os =>
           HeaderIn(w, q) = HeaderIn(m, q)
  BY <1>3, PutFacts
<1> HIDE DEF w
<1>5. \A o \in os : o >= Offset(a)
  BY <1>2 DEF PayloadOf
<1>6. \A p \in Nat : p < a /\ Index(a) < Index(p) + SLOTS => HeaderIn(w, p) = HeaderIn(m, p)
  <2> SUFFICES ASSUME NEW p \in Nat, p < a, Index(a) < Index(p) + SLOTS
               PROVE  HeaderIn(w, p) = HeaderIn(m, p)
    OBVIOUS
  <2>1. Turn(Index(p)) # Turn(Index(a)) \/ Offset(p) < Offset(a)
    BY EarlierPlace
  <2>2. Offset(p) < Offset(a) => Offset(p) \notin os
    <3>1. Offset(p) \in Nat /\ Offset(a) \in Nat
      BY PlaceFacts DEF Offsets
    <3> QED BY <1>5, <3>1
  <2> QED BY <1>4, <2>1, <2>2
<1>7. ASSUME NEW p \in Behind(a, d)
      PROVE  /\ p \in Nat /\ Turn(Index(p)) = Turn(Index(a))
             /\ Offset(p) \in PayloadOf(a, d) /\ Offset(p) # Offset(a)
  <2>1. p \in a..(a + d - 1) /\ p - a \in 1..(d - 1)
    BY DEF Behind
  <2>2. Offset(p) = Offset(a) + (p - a)
    BY <1>1, <2>1
  <2>3. Offset(p) \in PayloadOf(a, d) /\ Offset(p) # Offset(a)
    BY <1>2, <2>1, <2>2 DEF PayloadOf
  <2> QED BY <1>1, <2>1, <2>3
<1>8. CASE os = {Offset(a)}
  BY <1>4, <1>6, <1>7, <1>8 DEF w
<1>9. CASE os # {Offset(a)}
  <2>1. os = PayloadOf(a, d)
    BY <1>9
  <2>2. Offset(a) \notin os
    BY <1>2, <2>1 DEF PayloadOf
  <2> QED BY <1>4, <1>6, <1>7, <1>9, <2>1, <2>2 DEF w
<1> QED BY <1>8, <1>9

(* The starts of the messages not yet taken lie between the positions of   *)
(* reader and writer.                                                      *)
LEMMA LiveBetween ==
  ASSUME NEW st, NEW tx, NEW rx, NEW g, StartsSound(st, tx), ReaderSound(st, tx, rx, g),
         NEW i \in (g + 1)..Len(st)
  PROVE  /\ i \in 1..Len(st) /\ st[i] \in Nat /\ rx <= st[i] /\ st[i] < tx
         /\ Index(rx) <= Index(st[i]) /\ Index(rx) \in Nat /\ Index(st[i]) \in Nat
<1>1. /\ st \in Seq(Nat) /\ tx \in Nat /\ rx \in Nat /\ g \in 0..Len(st) /\ Len(st) \in Nat
      /\ g + 1 \in 1..Len(st) /\ Len(st) \in 1..Len(st) /\ i \in 1..Len(st) /\ g < Len(st)
  BY DEF StartsSound, ReaderSound
<1>2. \A k \in 1..Len(st) : st[k] \in Nat
  BY <1>1
<1>3. /\ \A k, j \in 1..Len(st) : k < j => st[k] < st[j]
      /\ st[Len(st)] < tx /\ rx <= st[g + 1]
  BY <1>1 DEF StartsSound, ReaderSound
<1>4. st[g + 1] <= st[i]
  <2>1. CASE i = g + 1
    BY <1>1, <1>2, <2>1
  <2>2. CASE g + 1 < i
    BY <1>1, <1>2, <1>3, <2>2
  <2> QED BY <1>1, <2>1, <2>2
<1>5. st[i] <= st[Len(st)]
  <2>1. CASE i = Len(st)
    BY <1>1, <1>2, <2>1
  <2>2. CASE i < Len(st)
    BY <1>1, <1>2, <1>3, <2>2
  <2> QED BY <1>1, <2>1, <2>2
<1>6. st[i] \in Nat /\ rx <= st[i] /\ st[i] < tx
  BY <1>1, <1>2, <1>3, <1>4, <1>5
<1> QED BY <1>1, <1>6, PlaceFacts, IndexGrows

(* A message sent starts where the one before ends, or at the next slot.   *)
LEMMA SendStarts ==
  ASSUME NEW st, NEW tx, StartsSound(st, tx), NEW stride \in Strides,
         NEW at, at = Start(tx, stride)
  PROVE  StartsSound(Append(st, at), at + stride)
<1> DEFINE n == Len(st)
           z == Append(st, at)
<1>1. /\ st \in Seq(Nat) /\ tx \in Nat /\ n \in Nat
      /\ \A i, j \in 1..n : i < j => st[i] < st[j] /\ Index(st[j]) <= Index(st[i]) + (j - i)
      /\ n > 0 => st[n] < tx /\ tx <= SlotEnd(st[n])
  BY DEF StartsSound
<1>2. /\ at \in Nat /\ tx <= at /\ stride \in 1..(SLOT_SIZE - 1) /\ stride <= SlotSpace(at)
      /\ at # tx => Offset(tx) # 0
      /\ Index(tx) <= Index(at) /\ Index(at) <= Index(tx) + 1
  BY <1>1, StartFacts
<1>3. /\ z \in Seq(Nat) /\ Len(z) = n + 1 /\ z[n + 1] = at /\ \A i \in 1..n : z[i] = st[i]
  BY <1>1, <1>2
<1>4. ASSUME NEW i \in 1..n PROVE st[i] \in Nat /\ Index(st[i]) \in Nat
  <2>1. st[i] \in Nat
    BY <1>1
  <2> QED BY <2>1, PlaceFacts
<1>5. Index(tx) \in Nat /\ Index(at) \in Nat
  BY <1>1, <1>2, PlaceFacts
<1>6. n > 0 => Index(at) <= Index(st[n]) + 1
  <2> SUFFICES ASSUME n > 0 PROVE Index(at) <= Index(st[n]) + 1
    OBVIOUS
  <2>1. st[n] \in Nat /\ Index(st[n]) \in Nat /\ st[n] <= tx /\ tx <= SlotEnd(st[n])
    BY <1>1, <1>4
  <2>2. /\ Index(tx) \in {Index(st[n]), Index(st[n]) + 1}
        /\ Offset(tx) # 0 => Index(tx) = Index(st[n])
    BY <1>1, <2>1, WithinSlot
  <2>3. CASE at = tx
    BY <2>1, <2>2, <2>3
  <2>4. CASE at # tx
    BY <1>2, <1>5, <2>1, <2>2, <2>4
  <2> QED BY <2>3, <2>4
<1> HIDE DEF n, z
<1>7. ASSUME NEW i \in 1..(n + 1), NEW j \in 1..(n + 1), i < j
      PROVE  z[i] < z[j] /\ Index(z[j]) <= Index(z[i]) + (j - i)
  <2>1. i \in 1..n /\ z[i] = st[i] /\ st[i] \in Nat /\ Index(st[i]) \in Nat
    BY <1>1, <1>3, <1>4, <1>7
  <2>2. CASE j \in 1..n
    BY <1>1, <1>3, <1>7, <2>1, <2>2
  <2>3. CASE j = n + 1
    <3>1. n > 0 /\ n \in 1..n /\ st[n] \in Nat /\ Index(st[n]) \in Nat
      BY <1>1, <1>4, <2>1
    <3>2. st[i] <= st[n] /\ Index(st[n]) <= Index(st[i]) + (n - i)
      <4>1. CASE i = n
        BY <1>1, <2>1, <4>1
      <4>2. CASE i < n
        <5>1. st[i] < st[n] /\ Index(st[n]) <= Index(st[i]) + (n - i)
          BY <1>1, <2>1, <3>1, <4>2
        <5> QED BY <2>1, <3>1, <5>1
      <4> QED BY <1>1, <2>1, <4>1, <4>2
    <3>3. st[n] < tx /\ Index(at) <= Index(st[n]) + 1 /\ z[j] = at
      BY <1>1, <1>3, <1>6, <2>3, <3>1
    <3>4. st[i] < at
      BY <1>1, <1>2, <2>1, <3>1, <3>2, <3>3
    <3>5. Index(at) <= Index(st[i]) + (j - i)
      BY <1>1, <1>5, <2>1, <2>3, <3>1, <3>2, <3>3
    <3> QED BY <2>1, <3>3, <3>4, <3>5
  <2> QED BY <1>1, <2>2, <2>3
<1>8. /\ at < at + stride /\ at + stride <= SlotEnd(at) /\ at + stride \in Nat
      /\ (at + stride) - at \in Strides
  <2>1. (at + stride) - at = stride
    BY <1>2
  <2> QED BY <1>2, <2>1, PlaceFacts DEF SlotEnd
<1>9. StartsSound(z, at + stride)
  BY <1>1, <1>3, <1>7, <1>8 DEF StartsSound
<1> QED BY <1>9 DEF z

(* A message sent into a slot nothing was written to starts there.         *)
LEMMA SendBegins ==
  ASSUME NEW st, NEW tx, StartsSound(st, tx), SlotsBegun(st), NEW stride \in Strides,
         NEW at, at = Start(tx, stride)
  PROVE  SlotsBegun(Append(st, at))
<1> DEFINE n == Len(st)
           z == Append(st, at)
<1>1. /\ st \in Seq(Nat) /\ tx \in Nat /\ n \in Nat
      /\ n > 0 => st[n] < tx /\ tx <= SlotEnd(st[n])
      /\ n = 0 => tx = 0
  BY DEF StartsSound
<1>2. /\ at \in Nat /\ tx <= at
      /\ at # tx => at = SlotEnd(tx) /\ Offset(tx) # 0
  BY <1>1, StartFacts
<1>3. /\ Len(z) = n + 1 /\ z[n + 1] = at /\ \A i \in 1..n : z[i] = st[i]
      /\ n + 1 \in 1..(n + 1) /\ \A i \in 1..n : i \in 1..(n + 1)
  BY <1>1, <1>2
<1>4. Index(at) \in Nat /\ at = Index(at) * SLOT_SIZE + Offset(at)
  BY <1>2, PlaceFacts
<1> HIDE DEF z
<1>5. ASSUME NEW k \in 0..Index(at) PROVE \E i \in 1..(n + 1) : z[i] = k * SLOT_SIZE
  <2>1. CASE n = 0
    <3>1. tx = 0 /\ Offset(tx) = 0 /\ Index(tx) = 0
      <4>1. 0 = 0 * SLOT_SIZE + 0 /\ 0 \in Nat /\ 0 \in 0..(SLOT_SIZE - 1)
        OBVIOUS
      <4>2. (0 * SLOT_SIZE + 0) \div SLOT_SIZE = 0 /\ (0 * SLOT_SIZE + 0) % SLOT_SIZE = 0
        BY <4>1, PartsOf
      <4> QED BY <1>1, <2>1, <4>1, <4>2 DEF Index, Offset
    <3>2. at = 0 /\ Index(at) = 0
      BY <1>2, <3>1
    <3>3. k = 0 /\ k * SLOT_SIZE = 0
      BY <3>2
    <3> QED BY <1>3, <3>2, <3>3
  <2>2. CASE n > 0
    <3>1. n \in 1..n /\ st[n] \in Nat
      BY <1>1, <2>2
    <3>2. Index(st[n]) \in Nat /\ SlotEnd(st[n]) = (Index(st[n]) + 1) * SLOT_SIZE
      BY <3>1, PlaceFacts, EndOfSlot
    <3>3. CASE k <= Index(st[n])
      <4>1. k \in 0..Index(st[n])
        BY <3>2, <3>3
      <4>2. PICK i \in 1..n : st[i] = k * SLOT_SIZE
        BY <2>2, <4>1 DEF SlotsBegun
      <4> QED BY <1>3, <4>2
    <3>4. CASE k > Index(st[n])
      <4>1. Index(st[n]) < Index(at)
        BY <1>4, <3>2, <3>4
      <4>2. at = SlotEnd(st[n])
        <5>1. CASE at = tx
          <6>1. tx < SlotEnd(st[n]) => Index(tx) = Index(st[n])
            BY <1>1, <2>2, <3>1, WithinSlot
          <6>2. SlotEnd(st[n]) \in Nat
            BY <3>1, PlaceFacts
          <6> QED BY <1>1, <2>2, <3>2, <4>1, <5>1, <6>1, <6>2
        <5>2. CASE at # tx
          <6>1. Index(tx) = Index(st[n])
            BY <1>1, <1>2, <2>2, <3>1, <5>2, WithinSlot
          <6>2. SlotEnd(tx) = (Index(tx) + 1) * SLOT_SIZE
            BY <1>1, EndOfSlot
          <6> QED BY <1>2, <3>2, <5>2, <6>1, <6>2
        <5> QED BY <5>1, <5>2
      <4>3. Index(at) = Index(st[n]) + 1
        <5>1. Index(SlotEnd(st[n])) = Index(st[n]) + 1
          BY <3>1, NextSlot
        <5> QED BY <4>2, <5>1
      <4>4. k = Index(st[n]) + 1
        BY <1>4, <3>2, <3>4, <4>3
      <4> QED BY <1>3, <3>2, <4>2, <4>4
    <3> QED BY <3>2, <3>3, <3>4
  <2> QED BY <1>1, <2>1, <2>2
<1>6. SlotsBegun(z)
  BY <1>3, <1>5 DEF SlotsBegun
<1> QED BY <1>6 DEF z

(* Sending leaves the reader before the first message it has not taken.    *)
LEMMA SendReader ==
  ASSUME NEW st, NEW tx, NEW rx, NEW g, StartsSound(st, tx), ReaderSound(st, tx, rx, g),
         NEW stride \in Strides, NEW at, at = Start(tx, stride)
  PROVE  ReaderSound(Append(st, at), at + stride, rx, g)
<1> DEFINE n == Len(st)
           z == Append(st, at)
<1>1. /\ st \in Seq(Nat) /\ tx \in Nat /\ n \in Nat /\ rx \in Nat /\ g \in 0..n
      /\ g = n => rx = tx
      /\ g < n => rx <= st[g + 1] /\ Index(st[g + 1]) <= Index(rx) + 1
  BY DEF StartsSound, ReaderSound
<1>2. at \in Nat /\ tx <= at /\ Index(at) <= Index(tx) + 1
  BY <1>1, StartFacts
<1>3. Len(z) = n + 1 /\ z[n + 1] = at /\ \A i \in 1..n : z[i] = st[i]
  BY <1>1, <1>2
<1> HIDE DEF n, z
<1>4. CASE g = n
  BY <1>1, <1>2, <1>3, <1>4 DEF ReaderSound, z
<1>5. CASE g < n
  <2>1. g + 1 \in 1..n
    BY <1>1, <1>5
  <2> QED BY <1>1, <1>3, <1>5, <2>1 DEF ReaderSound, z
<1> QED BY <1>1, <1>4, <1>5

(* A message ends in its slot or where that ends.                          *)
LEMMA LinkedFacts ==
  ASSUME NEW m, MemorySound(m), NEW a \in Nat, NEW d, d = HeaderIn(m, a).stride, d \in Strides
  PROVE  /\ d \in Nat /\ d > 0 /\ d <= SlotSpace(a) /\ a + d \in Nat /\ a < a + d
         /\ a + d <= SlotEnd(a)
         /\ \A p \in Behind(a, d) : p \in Nat /\ Index(p) = Index(a) /\ a < p /\ p < a + d
<1>1. d \in Nat /\ d > 0
  BY StrideFacts
<1>2. d <= SlotSpace(a)
  <2>1. Turn(Index(a)) \in Slots /\ Offset(a) \in Offsets
    BY PlaceFacts, TurnFacts
  <2>2. Offset(a) + d <= SLOT_SIZE
    BY <2>1 DEF MemorySound, HeaderIn
  <2> QED BY <1>1, <2>1, <2>2 DEF SlotSpace, Offsets
<1>3. /\ \A p \in a..(a + d - 1) : p \in Nat /\ Index(p) = Index(a)
      /\ a + d \in Nat /\ a < a + d /\ a + d <= SlotEnd(a)
  BY <1>1, <1>2, MessagePlaces
<1>4. \A p \in Behind(a, d) : p \in a..(a + d - 1) /\ a < p /\ p < a + d
  BY <1>1 DEF Behind
<1> QED BY <1>1, <1>2, <1>3, <1>4

(* A memory that is the same up to a position, in one slot.                *)
Agree(m, w, k, lim) ==
  \A p \in Nat : Index(p) = k /\ p < lim => HeaderIn(w, p) = HeaderIn(m, p)

(* The message at a is d long and ends at e.                               *)
Extends(m, a, d, e) == d = HeaderIn(m, a).stride /\ d \in Strides /\ e = a + d

(* A message before that position, and the way to the next, stay.          *)
LEMMA KeptMessage ==
  ASSUME NEW m, NEW w, MemorySound(m), NEW a \in Nat, NEW d, NEW e, Extends(m, a, d, e),
         NEW to \in Nat, NEW lim \in Nat, to <= lim,
         Leads(m, e, to), Agree(m, w, Index(a), lim)
  PROVE  /\ HeaderIn(w, a) = HeaderIn(m, a) /\ Leads(w, e, to)
         /\ \A p \in Behind(a, d) : HeaderIn(w, p) = HeaderIn(m, p)
<1>1. /\ d \in Nat /\ d > 0 /\ d <= SlotSpace(a) /\ a + d \in Nat /\ a < a + d
      /\ a + d <= SlotEnd(a)
      /\ \A p \in Behind(a, d) : p \in Nat /\ Index(p) = Index(a) /\ a < p /\ p < a + d
  BY LinkedFacts DEF Extends
<1>2. /\ e \in Nat /\ a < e /\ e <= SlotEnd(a) /\ Leads(m, e, to)
      /\ \A p \in Behind(a, d) : p \in Nat /\ Index(p) = Index(a) /\ p < e
  BY <1>1 DEF Extends
<1>3. SlotEnd(e) \in Nat /\ e < SlotEnd(e)
  BY <1>2, PlaceFacts
<1>4. e <= to
  BY <1>2, <1>3 DEF Leads
<1>5. HeaderIn(w, a) = HeaderIn(m, a)
  BY <1>2, <1>4 DEF Agree
<1>6. \A p \in Behind(a, d) : HeaderIn(w, p) = HeaderIn(m, p)
  BY <1>2, <1>4 DEF Agree
<1>7. Leads(w, e, to)
  <2>1. CASE to = e
    BY <2>1 DEF Leads
  <2>2. CASE to # e
    <3>1. to = SlotEnd(e) /\ Offset(e) # 0 /\ HeaderIn(m, e) = [id |-> Padding, stride |-> SlotSpace(e)]
      BY <1>2, <2>2 DEF Leads
    <3>2. Index(e) = Index(a)
      BY <1>2, <3>1, WithinSlot
    <3>3. HeaderIn(w, e) = HeaderIn(m, e)
      BY <1>2, <1>3, <3>1, <3>2 DEF Agree
    <3> QED BY <3>1, <3>3 DEF Leads
  <2> QED BY <2>1, <2>2
<1> QED BY <1>5, <1>6, <1>7

(* The messages not taken are in slots not entered again.                  *)
LEMMA LiveStanding ==
  ASSUME NEW st, NEW tx, NEW rx, NEW g, StartsSound(st, tx), ReaderSound(st, tx, rx, g),
         \A i \in (g + 1)..Len(st) : Index(st[i]) < Index(rx) + SLOTS,
         NEW i \in (g + 1)..Len(st)
  PROVE  Standing(st[i], tx)
<1> DEFINE n == Len(st)
<1>1. /\ n \in (g + 1)..n /\ n \in 1..n /\ n > 0 /\ st \in Seq(Nat) /\ tx \in Nat
      /\ tx <= SlotEnd(st[n])
  BY DEF StartsSound, ReaderSound
<1>2. /\ st[i] \in Nat /\ Index(rx) <= Index(st[i]) /\ Index(rx) \in Nat /\ Index(st[i]) \in Nat
      /\ st[n] \in Nat /\ Index(st[n]) \in Nat
  BY <1>1, LiveBetween
<1>3. Index(st[n]) < Index(st[i]) + SLOTS
  BY <1>1, <1>2
<1> DEFINE k == Index(st[i]) + SLOTS
           b == st[n]
<1>4. k \in Nat /\ Index(st[n]) < k
  BY <1>2, <1>3
<1>5. b \in Nat /\ Index(b) < k /\ tx <= SlotEnd(b) /\ tx \in Nat
  BY <1>1, <1>2, <1>4
<1> HIDE DEF k, b
<1>7. SlotEnd(b) <= k * SLOT_SIZE
  BY <1>4, <1>5, IndexBelow
<1>8. SlotEnd(b) \in Nat /\ k * SLOT_SIZE \in Nat
  BY <1>4, <1>5, PlaceFacts
<1>6. tx <= k * SLOT_SIZE
  BY <1>5, <1>7, <1>8
<1> QED BY <1>6 DEF Standing, k

(* Sending keeps the messages of slots not entered again as they are and   *)
(* links the new one to the last of them, if the slot it is written to has *)
(* been given back.                                                        *)
LEMMA SendHeaders ==
  ASSUME NEW m, NEW w, NEW st, NEW tx, NEW rx, NEW g, NEW f, NEW v,
         MemorySound(m), StartsSound(st, tx),
         ReaderSound(st, tx, rx, g), HeadersSound(m, st, tx, rx, g, 0, "none"),
         NEW stride \in Strides, NEW at, at = Start(tx, stride),
         Index(at) < Index(rx) + SLOTS,
         at # tx => HeaderIn(w, tx) = HeaderCell(Padding, SlotSpace(tx)),
         \A p \in Nat : p < tx /\ Index(at) < Index(p) + SLOTS => HeaderIn(w, p) = HeaderIn(m, p),
         \/ f = Len(st) + 1 /\ v = "size"
         \/ /\ f = 0 /\ v = "none" /\ HeaderIn(w, at) = HeaderCell(Len(st) + 1, stride)
            /\ \A p \in Behind(at, stride) : HeaderIn(w, p) = PayloadCell(Len(st) + 1)
  PROVE  HeadersSound(w, Append(st, at), at + stride, rx, g, f, v)
<1> DEFINE n == Len(st)
           z == Append(st, at)
           ty == at + stride
<1>1. /\ st \in Seq(Nat) /\ tx \in Nat /\ n \in Nat /\ rx \in Nat /\ g \in 0..n
      /\ g = n => rx = tx
      /\ \A i, j \in 1..n : i < j => st[i] < st[j]
      /\ n > 0 => st[n] < tx
      /\ \A i \in 1..n : st[i] \in Nat
  BY DEF StartsSound, ReaderSound
<1>2. /\ at \in Nat /\ tx <= at /\ Index(at) \in Nat /\ Index(rx) \in Nat
      /\ at # tx => at = SlotEnd(tx) /\ Offset(tx) # 0
      /\ stride \in Nat /\ stride > 0
  BY <1>1, StartFacts, PlaceFacts, StrideFacts
<1>3. Len(z) = n + 1 /\ z[n + 1] = at /\ \A i \in 1..n : z[i] = st[i]
  BY <1>1, <1>2
<1>4. Leads(w, tx, at)
  BY <1>2 DEF Leads, HeaderCell
<1>5. ty \in Nat /\ at < ty /\ tx < ty
  BY <1>1, <1>2
<1>6. ASSUME NEW p \in Nat, Index(at) < Index(p) + SLOTS PROVE Agree(m, w, Index(p), tx)
  BY <1>6 DEF Agree
<1>7. ASSUME NEW p \in Nat, Standing(p, ty)
      PROVE  Standing(p, tx) /\ Index(at) < Index(p) + SLOTS /\ Agree(m, w, Index(p), tx)
  <2>1. Index(at) < Index(p) + SLOTS
    BY <1>2, <1>5, <1>7, StandingNear
  <2>2. (Index(p) + SLOTS) * SLOT_SIZE \in Nat
    <3>1. Index(p) \in Nat
      BY PlaceFacts
    <3> QED BY <3>1
  <2>3. Standing(p, tx)
    BY <1>1, <1>5, <1>7, <2>2 DEF Standing
  <2> QED BY <1>6, <2>1, <2>3
<1> HIDE DEF n, z, ty
<1>8. ASSUME NEW i \in 1..n, Standing(st[i], ty)
      PROVE  Linked(w, z, ty, i) /\ Complete(w, z, i)
  <2> DEFINE a == st[i]
             d == HeaderIn(m, a).stride
             to == IF i = n THEN tx ELSE st[i + 1]
  <2>1. a \in Nat /\ i # 0
    BY <1>1 DEF n
  <2>2. Standing(a, tx) /\ Agree(m, w, Index(a), tx)
    BY <1>7, <1>8, <2>1
  <2>3. Linked(m, st, tx, i) /\ Complete(m, st, i)
    BY <2>1, <2>2 DEF HeadersSound, n
  <2>4. d \in Strides /\ d \in Nat /\ a + d \in Nat
    <3>1. d \in Strides
      BY <2>3 DEF Linked
    <3> HIDE DEF a, d
    <3> QED BY <2>1, <3>1, StrideFacts
  <2>5. to \in Nat /\ to <= tx /\ Leads(m, a + d, to)
    <3>1. CASE i = n
      BY <1>1, <2>3, <3>1 DEF Linked, Leads, n
    <3>2. CASE i # n
      <4>1. i + 1 \in 1..n /\ n \in 1..n /\ n > 0
        BY <1>1, <3>2
      <4>2. st[i + 1] \in Nat /\ st[n] \in Nat /\ st[n] < tx /\ (i + 1 < n => st[i + 1] < st[n])
        BY <1>1, <4>1
      <4>3. st[i + 1] <= tx
        <5>1. CASE i + 1 = n
          BY <1>1, <4>2, <5>1
        <5>2. CASE i + 1 # n
          BY <1>1, <4>1, <4>2, <5>2
        <5> QED BY <5>1, <5>2
      <4> QED BY <2>3, <3>2, <4>2, <4>3 DEF Linked, n
    <3> QED BY <3>1, <3>2
  <2> HIDE DEF to, d, a
  <2>6. /\ HeaderIn(w, a) = HeaderIn(m, a) /\ Leads(w, a + d, to)
        /\ \A p \in Behind(a, d) : HeaderIn(w, p) = HeaderIn(m, p)
    <3> DEFINE e == a + d
    <3>1. MemorySound(m) /\ tx \in Nat /\ Extends(m, a, d, e) /\ Leads(m, e, to)
      BY <1>1, <2>4, <2>5 DEF Extends, d
    <3> HIDE DEF e
    <3>2. /\ HeaderIn(w, a) = HeaderIn(m, a) /\ Leads(w, e, to)
          /\ \A p \in Behind(a, d) : HeaderIn(w, p) = HeaderIn(m, p)
      BY <2>1, <2>2, <2>4, <2>5, <3>1, KeptMessage
    <3> QED BY <3>2 DEF e
  <2>7. Leads(w, a + d, z[i + 1]) /\ z[i] = a
    <3>1. CASE i = n
      <4>1. tx = a + d /\ z[i + 1] = at
        BY <1>3, <2>3, <3>1 DEF Linked, n, a, d
      <4> QED BY <1>3, <1>4, <4>1 DEF a
    <3>2. CASE i # n
      <4>1. i + 1 \in 1..n
        BY <1>1, <3>2
      <4> QED BY <1>3, <2>6, <3>2, <4>1 DEF to, a
    <3> QED BY <3>1, <3>2
  <2>8. i # Len(z)
    BY <1>1, <1>3
  <2>9. Linked(w, z, ty, i)
    BY <2>4, <2>6, <2>7, <2>8 DEF Linked, d
  <2>10. Complete(w, z, i)
    BY <2>3, <2>6, <2>7 DEF Complete, d, a
  <2> QED BY <2>9, <2>10
<1>9. ASSUME f = 0 /\ v = "none" PROVE Linked(w, z, ty, n + 1) /\ Complete(w, z, n + 1)
  <2>1. /\ HeaderIn(w, at) = [id |-> n + 1, stride |-> stride]
        /\ \A p \in Behind(at, stride) : HeaderIn(w, p) = PayloadCell(n + 1)
    BY <1>1, <1>9 DEF n, HeaderCell
  <2>2. HeaderIn(w, at).id = n + 1 /\ HeaderIn(w, at).stride = stride
    BY <2>1
  <2> QED BY <1>3, <2>1, <2>2 DEF Linked, Complete, ty
<1>10. ASSUME NEW i \in 1..Len(z), Standing(z[i], ty)
       PROVE  /\ i # f \/ v # "size" => Linked(w, z, ty, i)
              /\ i # f => Complete(w, z, i)
              /\ v = "payload" => HeaderIn(w, z[i]).id = i
  <2>1. CASE i = n + 1
    BY <1>9, <2>1 DEF n
  <2>2. CASE i # n + 1
    <3>1. i \in 1..n /\ z[i] = st[i]
      BY <1>1, <1>3, <2>2
    <3> QED BY <1>8, <1>10, <3>1
  <2> QED BY <2>1, <2>2
<1>11. \A i \in (g + 1)..Len(z) : Index(z[i]) < Index(rx) + SLOTS
  <2> SUFFICES ASSUME NEW i \in (g + 1)..(n + 1) PROVE Index(z[i]) < Index(rx) + SLOTS
    BY <1>3
  <2>1. CASE i = n + 1
    BY <1>3, <2>1
  <2>2. CASE i # n + 1
    <3>1. i \in (g + 1)..n /\ i \in 1..n
      BY <1>1, <2>2
    <3> QED BY <1>3, <3>1 DEF HeadersSound, n
  <2> QED BY <2>1, <2>2
<1>12. Leads(w, rx, z[g + 1])
  <2>1. CASE g = n
    BY <1>1, <1>3, <1>4, <2>1
  <2>2. CASE g < n
    <3> DEFINE to == st[g + 1]
    <3>1. g + 1 \in (g + 1)..n /\ g + 1 \in 1..n
      BY <1>1, <2>2
    <3>2. Leads(m, rx, to) /\ z[g + 1] = to
      BY <1>3, <2>2, <3>1 DEF HeadersSound, n
    <3>3. to \in Nat /\ to < tx
      BY <3>1, LiveBetween DEF n
    <3> HIDE DEF to
    <3>4. SlotEnd(rx) \in Nat /\ rx < SlotEnd(rx)
      BY <1>1, PlaceFacts
    <3>5. CASE to = rx
      BY <3>2, <3>5 DEF Leads
    <3>6. CASE to # rx
      <4>1. to = SlotEnd(rx) /\ Offset(rx) # 0 /\ HeaderIn(m, rx) = [id |-> Padding, stride |-> SlotSpace(rx)]
        BY <3>2, <3>6 DEF Leads
      <4>2. HeaderIn(w, rx) = HeaderIn(m, rx)
        BY <1>1, <3>3, <3>4, <4>1
      <4> QED BY <3>2, <4>1, <4>2 DEF Leads
    <3> QED BY <3>5, <3>6
  <2> QED BY <1>1, <2>1, <2>2
<1>13. HeadersSound(w, z, ty, rx, g, f, v)
  BY <1>10, <1>11, <1>12 DEF HeadersSound
<1> QED BY <1>13 DEF z, ty

(* A message sent.                                                         *)
LEMMA SendStream ==
  ASSUME NEW m, NEW w, NEW st, NEW tx, NEW rx, NEW q, NEW rec, NEW g, NEW f, NEW v,
         StreamSound(m, st, tx, rx, q, rec, g, 0, "none"), MemorySound(w),
         NEW stride \in Strides, NEW at, at = Start(tx, stride),
         Index(at) < Index(rx) + SLOTS,
         at # tx => HeaderIn(w, tx) = HeaderCell(Padding, SlotSpace(tx)),
         \A p \in Nat : p < tx /\ Index(at) < Index(p) + SLOTS => HeaderIn(w, p) = HeaderIn(m, p),
         \/ f = Len(st) + 1 /\ v = "size"
         \/ /\ f = 0 /\ v = "none" /\ HeaderIn(w, at) = HeaderCell(Len(st) + 1, stride)
            /\ \A p \in Behind(at, stride) : HeaderIn(w, p) = PayloadCell(Len(st) + 1)
  PROVE  StreamSound(w, Append(st, at), at + stride, rx, q, rec, g, f, v)
<1>1. /\ MemorySound(m) /\ StartsSound(st, tx) /\ SlotsBegun(st) /\ ReaderSound(st, tx, rx, g)
      /\ HeadersSound(m, st, tx, rx, g, 0, "none") /\ QueueSound(q, rec, rx)
  BY DEF StreamSound
<1>2. StartsSound(Append(st, at), at + stride) /\ SlotsBegun(Append(st, at))
  BY <1>1, SendStarts, SendBegins
<1>3. ReaderSound(Append(st, at), at + stride, rx, g)
  BY <1>1, SendReader
<1>4. HeadersSound(w, Append(st, at), at + stride, rx, g, f, v)
  BY <1>1, SendHeaders
<1> QED BY <1>1, <1>2, <1>3, <1>4 DEF StreamSound

(* A whole message written.                                                *)
LEMMA WholeMessage ==
  ASSUME NEW m, MemorySound(m), NEW tx \in Nat, NEW stride \in Strides,
         NEW at, at = Start(tx, stride), NEW id \in 1..MAX_MSGS
  PROVE  LET x == Put(WithPad(m, tx, at), at, {Offset(at)}, HeaderCell(id, stride))
             w == Put(x, at, PayloadOf(at, stride), PayloadCell(id))
         IN  /\ MemorySound(w)
             /\ at # tx => HeaderIn(w, tx) = HeaderCell(Padding, SlotSpace(tx))
             /\ \A p \in Nat : p < tx /\ Index(at) < Index(p) + SLOTS =>
                  HeaderIn(w, p) = HeaderIn(m, p)
             /\ HeaderIn(w, at) = HeaderCell(id, stride)
             /\ \A p \in Behind(at, stride) : HeaderIn(w, p) = PayloadCell(id)
<1> DEFINE y == WithPad(m, tx, at)
           hd == HeaderCell(id, stride)
           pl == PayloadCell(id)
           x == Put(y, at, {Offset(at)}, hd)
           w == Put(x, at, PayloadOf(at, stride), pl)
<1>1. /\ at \in Nat /\ tx <= at /\ stride \in Nat /\ stride > 0 /\ stride <= SlotSpace(at)
      /\ stride < SLOT_SIZE /\ Offset(at) + stride <= SLOT_SIZE
      /\ Index(tx) <= Index(at) /\ Index(at) <= Index(tx) + 1
  BY StartFacts, StrideFacts
<1>2. Index(tx) \in Nat /\ Index(at) \in Nat /\ Offset(at) \in Offsets
  BY <1>1, PlaceFacts
<1>3. /\ MemorySound(y) /\ (at # tx => HeaderIn(y, tx) = HeaderCell(Padding, SlotSpace(tx)))
      /\ \A p \in Nat : p < tx /\ Index(tx) < Index(p) + SLOTS => HeaderIn(y, p) = HeaderIn(m, p)
  BY PadFacts
<1>4. hd \in Headers /\ Offset(at) + hd.stride <= SLOT_SIZE /\ pl \in Headers /\ pl.stride = 0
  BY <1>1 DEF HeaderCell, PayloadCell, Headers, Garbage
<1> HIDE DEF y, hd, pl
<1>5. /\ MemorySound(x) /\ HeaderIn(x, at) = hd
      /\ \A p \in Nat : p < at /\ Index(at) < Index(p) + SLOTS => HeaderIn(x, p) = HeaderIn(y, p)
  BY <1>1, <1>3, <1>4, PutBehind
<1>6. PayloadOf(at, stride) # {Offset(at)}
  BY <1>2 DEF PayloadOf, Offsets
<1> HIDE DEF x
<1>7. /\ MemorySound(w) /\ HeaderIn(w, at) = HeaderIn(x, at)
      /\ \A p \in Behind(at, stride) : HeaderIn(w, p) = pl
      /\ \A p \in Nat : p < at /\ Index(at) < Index(p) + SLOTS => HeaderIn(w, p) = HeaderIn(x, p)
  BY <1>1, <1>4, <1>5, <1>6, PutBehind
<1> HIDE DEF w
<1>8. at # tx => HeaderIn(w, tx) = HeaderIn(y, tx)
  <2> SUFFICES ASSUME at # tx PROVE HeaderIn(w, tx) = HeaderIn(y, tx)
    OBVIOUS
  <2>1. tx < at /\ Index(at) < Index(tx) + SLOTS
    BY <1>1, <1>2
  <2> QED BY <1>5, <1>7, <2>1
<1>9. ASSUME NEW p \in Nat, p < tx, Index(at) < Index(p) + SLOTS
      PROVE  HeaderIn(w, p) = HeaderIn(m, p)
  <2>1. p < at /\ Index(tx) < Index(p) + SLOTS
    BY <1>1, <1>2, <1>9, PlaceFacts
  <2> QED BY <1>3, <1>5, <1>7, <1>9, <2>1
<1>10. /\ MemorySound(w)
       /\ at # tx => HeaderIn(w, tx) = HeaderCell(Padding, SlotSpace(tx))
       /\ \A p \in Nat : p < tx /\ Index(at) < Index(p) + SLOTS => HeaderIn(w, p) = HeaderIn(m, p)
       /\ HeaderIn(w, at) = hd
       /\ \A p \in Behind(at, stride) : HeaderIn(w, p) = pl
  BY <1>3, <1>5, <1>7, <1>8, <1>9
<1> QED BY <1>10 DEF w, x, y, hd, pl

(* The message sent last is in a slot near the reader's, not entered       *)
(* again, and ends where the writer goes on.                               *)
LEMMA LastMessage ==
  ASSUME NEW st, NEW tx, NEW rx, NEW g, StartsSound(st, tx), ReaderSound(st, tx, rx, g),
         \A i \in (g + 1)..Len(st) : Index(st[i]) < Index(rx) + SLOTS,
         NEW n, n = Len(st), n > 0
  PROVE  /\ n \in 1..n /\ st[n] \in Nat /\ st[n] < tx /\ tx \in Nat /\ Standing(st[n], tx)
         /\ tx - st[n] \in Strides /\ st[n] + (tx - st[n]) = tx
         /\ tx - st[n] <= SlotSpace(st[n])
         /\ Index(rx) <= Index(st[n]) + 1 /\ Index(st[n]) < Index(rx) + SLOTS
<1> DEFINE a == st[n]
<1>1. /\ st \in Seq(Nat) /\ tx \in Nat /\ rx \in Nat /\ n \in Nat /\ g \in 0..n /\ n \in 1..n
      /\ g = n => rx = tx
      /\ a < tx /\ tx <= SlotEnd(a) /\ tx - a \in Strides
  BY DEF StartsSound, ReaderSound
<1>2. a \in Nat /\ Index(a) \in Nat /\ Index(rx) \in Nat /\ SlotSpace(a) \in Nat
  <2>1. a \in Nat
    BY <1>1
  <2> HIDE DEF a
  <2>2. Index(a) \in Nat /\ SlotSpace(a) \in 1..SLOT_SIZE
    BY <2>1, PlaceFacts
  <2>3. Index(rx) \in Nat
    BY <1>1, PlaceFacts
  <2> QED BY <2>1, <2>2, <2>3
<1>3. Index(rx) <= Index(a) + 1 /\ Index(a) < Index(rx) + SLOTS
  <2>1. CASE g = n
    <3>1. Index(tx) \in {Index(a), Index(a) + 1}
      <4>1. a \in Nat /\ tx \in Nat /\ a <= tx /\ tx <= SlotEnd(a)
        BY <1>1, <1>2
      <4> HIDE DEF a
      <4> QED BY <4>1, WithinSlot
    <3> QED BY <1>1, <1>2, <2>1, <3>1
  <2>2. CASE g < n
    <3>1. n \in (g + 1)..Len(st)
      BY <1>1, <2>2
    <3>2. Index(rx) <= Index(a)
      BY <3>1, LiveBetween
    <3>3. Index(a) < Index(rx) + SLOTS
      BY <3>1
    <3> QED BY <1>2, <3>2, <3>3
  <2> QED BY <1>1, <2>1, <2>2
<1> HIDE DEF a
<1>4. tx - a <= SlotSpace(a) /\ a + (tx - a) = tx
  BY <1>1, <1>2 DEF SlotEnd
<1>5. Standing(a, tx)
  <2> DEFINE k == Index(a) + 1
             j == Index(a) + SLOTS
  <2>1. k \in Nat /\ j \in Nat /\ k <= j /\ SlotEnd(a) = k * SLOT_SIZE
    BY <1>2, EndOfSlot
  <2> HIDE DEF k, j
  <2>2. k * SLOT_SIZE <= j * SLOT_SIZE /\ k * SLOT_SIZE \in Nat /\ j * SLOT_SIZE \in Nat
    BY <2>1, SlotsOrdered
  <2>3. tx <= j * SLOT_SIZE
    BY <1>1, <2>1, <2>2
  <2> QED BY <2>3 DEF Standing, j
<1> QED BY <1>1, <1>2, <1>3, <1>4, <1>5 DEF a

(* A store into the last message leaves the others as they are.            *)
LEMMA FillHeaders ==
  ASSUME NEW m, NEW w, NEW st, NEW tx, NEW rx, NEW g, NEW f, NEW v, NEW n, NEW u,
         n = Len(st), n > 0,
         MemorySound(m), StartsSound(st, tx), ReaderSound(st, tx, rx, g),
         HeadersSound(m, st, tx, rx, g, n, u),
         \A p \in Nat : p < st[n] /\ Index(st[n]) < Index(p) + SLOTS =>
           HeaderIn(w, p) = HeaderIn(m, p),
         v # "size", Linked(w, st, tx, n), f = n \/ Complete(w, st, n),
         v = "payload" => HeaderIn(w, st[n]).id = n
  PROVE  HeadersSound(w, st, tx, rx, g, f, v)
<1> DEFINE a == st[n]
<1>1. /\ st \in Seq(Nat) /\ tx \in Nat /\ rx \in Nat /\ n \in Nat /\ g \in 0..n /\ n \in 1..n
      /\ \A i, j \in 1..n : i < j => st[i] < st[j]
      /\ \A i \in 1..n : st[i] \in Nat
  BY DEF StartsSound, ReaderSound
<1>2. /\ \A i \in (g + 1)..Len(st) : Index(st[i]) < Index(rx) + SLOTS
      /\ \A i \in 1..n : Standing(st[i], tx) /\ i # n => Linked(m, st, tx, i) /\ Complete(m, st, i)
      /\ g < n => Leads(m, rx, st[g + 1])
  BY DEF HeadersSound
<1>3. a \in Nat /\ a < tx
  BY <1>1, <1>2, LastMessage
<1>4. ASSUME NEW i \in 1..n, i # n, Standing(st[i], tx)
      PROVE  Linked(w, st, tx, i) /\ Complete(w, st, i)
  <2> DEFINE b == st[i]
             d == HeaderIn(m, b).stride
             e == b + d
             to == st[i + 1]
  <2>1. b \in Nat /\ i + 1 \in 1..n /\ to \in Nat /\ to <= a
    <3>1. i + 1 \in 1..n
      BY <1>1, <1>4
    <3>2. to <= a
      <4>1. CASE i + 1 = n
        BY <1>3, <4>1
      <4>2. CASE i + 1 # n
        BY <1>1, <3>1, <4>2
      <4> QED BY <4>1, <4>2
    <3> QED BY <1>1, <3>1, <3>2
  <2>2. Linked(m, st, tx, i) /\ Complete(m, st, i)
    BY <1>2, <1>4
  <2>3. Extends(m, b, d, e) /\ Leads(m, e, to)
    BY <1>4, <2>2 DEF Linked, Extends
  <2>4. Agree(m, w, Index(b), a)
    <3>1. Index(a) < Index(b) + SLOTS
      BY <1>1, <1>3, <1>4, <2>1, StandingNear
    <3> QED BY <3>1 DEF Agree
  <2> HIDE DEF a, b, d, e, to
  <2>5. /\ HeaderIn(w, b) = HeaderIn(m, b) /\ Leads(w, e, to)
        /\ \A p \in Behind(b, d) : HeaderIn(w, p) = HeaderIn(m, p)
    BY <1>3, <2>1, <2>3, <2>4, KeptMessage
  <2>6. Linked(w, st, tx, i)
    BY <1>4, <2>2, <2>5 DEF Linked, b, d, e, to
  <2>7. Complete(w, st, i)
    BY <2>2, <2>5 DEF Complete, b, d
  <2> QED BY <2>6, <2>7
<1>5. \A i \in 1..n : Standing(st[i], tx) =>
        Linked(w, st, tx, i) /\ (i # f => Complete(w, st, i)) /\ (v = "payload" => HeaderIn(w, st[i]).id = i)
  BY <1>4 DEF Complete
<1>6. g < n => Leads(w, rx, st[g + 1])
  <2> SUFFICES ASSUME g < n PROVE Leads(w, rx, st[g + 1])
    OBVIOUS
  <2> DEFINE to == st[g + 1]
  <2>1. g + 1 \in 1..n /\ n \in (g + 1)..n /\ (g + 1 # n => g + 1 < n)
    BY <1>1
  <2>2. Leads(m, rx, to) /\ to \in Nat /\ to <= a
    <3>1. CASE g + 1 = n
      BY <1>1, <1>2, <1>3, <3>1
    <3>2. CASE g + 1 # n
      BY <1>1, <1>2, <1>3, <2>1, <3>2
    <3> QED BY <3>1, <3>2
  <2>3. Index(a) < Index(rx) + SLOTS
    BY <1>2, <2>1
  <2> HIDE DEF a, to
  <2>4. CASE to = rx
    BY <2>4 DEF Leads, to
  <2>5. CASE to # rx
    <3>1. to = SlotEnd(rx) /\ Offset(rx) # 0 /\ HeaderIn(m, rx) = [id |-> Padding, stride |-> SlotSpace(rx)]
      BY <2>2, <2>5 DEF Leads
    <3>2. rx < SlotEnd(rx)
      BY <1>1, PlaceFacts
    <3>3. HeaderIn(w, rx) = HeaderIn(m, rx)
      BY <1>1, <1>3, <2>2, <2>3, <3>1, <3>2 DEF a
    <3> QED BY <3>1, <3>3 DEF Leads, to
  <2> QED BY <2>4, <2>5
<1> QED BY <1>2, <1>5, <1>6 DEF HeadersSound

----------------------------------------------------------------------------
(* Taking.                                                                 *)

(* vchiq_release_slot, where the slots are used in turn.                   *)
(* The queue after the reader went on from slot number from to slot number *)
(* to.                                                                     *)
Given(q, rec, from, to) ==
  IF Turn(to) = Turn(from) THEN q ELSE [q EXCEPT ![Entry(rec)] = Turn(from)]
(* The count of slots given back after the same step.                      *)
Recycled(rec, from, to) == IF Turn(to) = Turn(from) THEN rec ELSE rec + 1

(* Giving back the slot the reader leaves keeps the queue in turn: the     *)
(* slot goes behind the others, where its turn comes again.                *)
LEMMA GiveBack ==
  ASSUME NEW q, NEW rec, NEW rx \in Nat, NEW next \in Nat, QueueSound(q, rec, rx),
         Index(next) \in {Index(rx), Index(rx) + 1}
  PROVE  QueueSound(Given(q, rec, Index(rx), Index(next)),
                    Recycled(rec, Index(rx), Index(next)), next)
<1> DEFINE r == Index(rx)
           w == [q EXCEPT ![Entry(rec)] = Turn(r)]
<1>1. /\ q \in [0..(QUEUE - 1) -> 0..SLOTS] /\ r \in Nat
      /\ rec = r + SLOTS /\ rec \in Nat
      /\ \A i \in 0..(rec - 1) :
           /\ q[Entry(i)] \in Slots
           /\ r <= i + 1 => q[Entry(i)] = Turn(i)
  <2>1. r \in Nat
    BY PlaceFacts
  <2> HIDE DEF r
  <2> QED BY <2>1 DEF QueueSound, r
<1>2. CASE Index(next) = r
  BY <1>2 DEF Given, Recycled, QueueSound
<1>3. CASE Index(next) = r + 1
  <2>1. Turn(r + 1) # Turn(r) /\ Turn(r) \in Slots /\ Turn(rec) = Turn(r)
    BY <1>1, TurnFacts, TurnsDiffer
  <2>2. QUEUE \in Nat \ {0}
    OBVIOUS
  <2>3. \A i \in Nat : Entry(i) \in 0..(QUEUE - 1)
    BY <2>2, Parts DEF Entry
  <2> HIDE DEF r
  <2>4. /\ w \in [0..(QUEUE - 1) -> 0..SLOTS] /\ w[Entry(rec)] = Turn(r)
        /\ \A k \in 0..(QUEUE - 1) : k # Entry(rec) => w[k] = q[k]
    <3>1. Entry(rec) \in 0..(QUEUE - 1) /\ Turn(r) \in 0..SLOTS
      BY <1>1, <2>1, <2>3 DEF Slots
    <3> QED BY <1>1, <3>1
  <2> HIDE DEF w
  <2>5. ASSUME NEW i \in 0..rec
        PROVE  w[Entry(i)] \in Slots /\ (r + 1 <= i + 1 => w[Entry(i)] = Turn(i))
    <3>1. CASE i = rec
      BY <2>1, <2>4, <3>1
    <3>2. CASE i # rec
      <4>1. i \in 0..(rec - 1) /\ i \in Nat /\ i < rec /\ Entry(i) \in 0..(QUEUE - 1)
        <5>1. i \in 0..(rec - 1) /\ i \in Nat /\ i < rec
          BY <1>1, <3>2
        <5> QED BY <2>3, <5>1
      <4>2. w[Entry(i)] \in Slots
        BY <1>1, <2>1, <2>4, <4>1
      <4>3. ASSUME r <= i PROVE w[Entry(i)] = Turn(i)
        <5>1. CASE Entry(i) # Entry(rec)
          BY <1>1, <2>4, <4>1, <4>3, <5>1
        <5>2. CASE Entry(i) = Entry(rec)
          <6>1. ~(rec < i + QUEUE)
            BY <1>1, <2>2, <4>1, <5>2, RemaindersDiffer DEF Entry
          <6>2. i = r
            BY <1>1, <4>1, <4>3, <6>1
          <6> QED BY <2>4, <5>2, <6>2
        <5> QED BY <5>1, <5>2
      <4> QED BY <1>1, <4>1, <4>2, <4>3
    <3> QED BY <3>1, <3>2
  <2>6. Given(q, rec, r, Index(next)) = w /\ Recycled(rec, r, Index(next)) = rec + 1
    BY <1>3, <2>1 DEF Given, Recycled, w
  <2>7. rec + 1 = Index(next) + SLOTS /\ (rec + 1) - 1 = rec
    BY <1>1, <1>3
  <2>8. QueueSound(w, rec + 1, next)
    BY <1>3, <2>4, <2>5, <2>7 DEF QueueSound
  <2> QED BY <2>6, <2>8 DEF r
<1> QED BY <1>2, <1>3

(* Where the message after the g-th one ends.                              *)
NextPlace(m, st, tx, g) ==
  IF g + 1 = Len(st) THEN tx ELSE st[g + 1] + HeaderIn(m, st[g + 1]).stride

(* The next message, where it ends and which slot is left.                 *)
LEMMA TakeStream ==
  ASSUME NEW m, NEW st, NEW tx, NEW rx, NEW q, NEW rec, NEW g, NEW f, NEW v,
         StreamSound(m, st, tx, rx, q, rec, g, f, v), g < Len(st), f \in {0, Len(st)},
         NEW next, next = NextPlace(m, st, tx, g)
  PROVE  /\ Index(next) \in {Index(rx), Index(rx) + 1} /\ next \in Nat
         /\ StreamSound(m, st, tx, next, Given(q, rec, Index(rx), Index(next)),
                        Recycled(rec, Index(rx), Index(next)), g + 1, f, v)
<1> DEFINE n == Len(st)
           to == st[g + 1]
           d == next - to
<1>1. /\ tx \in Nat /\ rx \in Nat /\ g \in 0..n /\ n \in Nat
      /\ g + 1 \in (g + 1)..n /\ g + 1 \in 1..n
      /\ MemorySound(m) /\ StartsSound(st, tx) /\ ReaderSound(st, tx, rx, g) /\ SlotsBegun(st)
      /\ HeadersSound(m, st, tx, rx, g, f, v) /\ QueueSound(q, rec, rx)
  BY DEF StreamSound, StartsSound, ReaderSound
<1>2. /\ \A i \in (g + 1)..Len(st) : Index(st[i]) < Index(rx) + SLOTS
      /\ Leads(m, rx, to)
      /\ \A i \in 1..n : Standing(st[i], tx) /\ i # f => Linked(m, st, tx, i)
  BY <1>1 DEF HeadersSound
<1>3. /\ to \in Nat /\ rx <= to /\ to < tx /\ Index(rx) <= Index(to) /\ Index(rx) \in Nat
      /\ Standing(to, tx)
  BY <1>1, <1>2, LiveBetween, LiveStanding
<1> HIDE DEF n
<1>4. /\ d \in Strides /\ d \in Nat /\ d > 0 /\ d < SLOT_SIZE /\ d <= SlotSpace(to)
      /\ next = to + d /\ next \in Nat
      /\ g + 1 < n => Leads(m, next, st[(g + 1) + 1])
  <2>1. CASE g + 1 = n
    <3>1. next = tx
      BY <2>1 DEF NextPlace, n
    <3>2. /\ tx - to \in Strides /\ to + (tx - to) = tx /\ tx - to <= SlotSpace(to)
      BY <1>1, <1>2, <2>1, LastMessage DEF n
    <3>3. (tx - to) \in Nat /\ tx - to > 0 /\ tx - to < SLOT_SIZE
      BY <3>2, StrideFacts
    <3> QED BY <1>1, <1>3, <2>1, <3>1, <3>2, <3>3
  <2>2. CASE g + 1 # n
    <3> DEFINE c == HeaderIn(m, to).stride
    <3>1. next = to + c
      BY <2>2 DEF NextPlace, n
    <3>2. g + 1 # f
      BY <1>1, <2>2 DEF n
    <3>3. c \in Strides /\ Leads(m, to + c, st[(g + 1) + 1])
      BY <1>1, <1>2, <1>3, <2>2, <3>2 DEF Linked, n
    <3>4. c \in Nat /\ c > 0 /\ c < SLOT_SIZE
      BY <3>3, StrideFacts
    <3>5. c <= SlotSpace(to)
      <4> HIDE DEF to
      <4> QED BY <1>1, <1>3, <3>3, LinkedFacts
    <3> HIDE DEF c, to
    <3>6. next - to = c /\ next \in Nat
      BY <1>3, <3>1, <3>4
    <3> QED BY <3>1, <3>3, <3>4, <3>5, <3>6
  <2> QED BY <2>1, <2>2
<1> HIDE DEF d
<1>5. IF d < SlotSpace(to) THEN Index(next) = Index(to) ELSE Index(next) = Index(to) + 1
  <2> HIDE DEF to
  <2> QED BY <1>3, <1>4, Advance
<1>6. Index(next) \in {Index(rx), Index(rx) + 1} /\ Index(to) <= Index(next)
  <2>1. CASE to = rx
    BY <1>3, <1>5, <2>1
  <2>2. CASE to # rx
    <3>1. to = SlotEnd(rx)
      BY <1>2, <2>2 DEF Leads
    <3>2. Index(to) = Index(rx) + 1 /\ Offset(to) = 0
      BY <1>1, <3>1, NextSlot
    <3>3. SlotSpace(to) = SLOT_SIZE
      BY <3>2 DEF SlotSpace
    <3> QED BY <1>3, <1>4, <1>5, <3>2, <3>3
  <2> QED BY <2>1, <2>2
<1>7. QueueSound(Given(q, rec, Index(rx), Index(next)), Recycled(rec, Index(rx), Index(next)), next)
  BY <1>1, <1>4, <1>6, GiveBack
<1>8. ReaderSound(st, tx, next, g + 1)
  <2>1. CASE g + 1 = n
    <3>1. next = tx
      BY <2>1 DEF NextPlace, n
    <3> QED BY <1>1, <1>4, <2>1, <3>1 DEF ReaderSound, n
  <2>2. CASE g + 1 < n
    <3> DEFINE y == st[(g + 1) + 1]
    <3>1. (g + 1) + 1 \in (g + 1)..n /\ (g + 1) + 1 \in 1..n /\ g + 1 < (g + 1) + 1
      BY <1>1, <2>2
    <3>2. /\ y \in Nat /\ Index(y) \in Nat /\ Index(y) <= Index(to) + 1 /\ Index(to) \in Nat
      <4>1. y \in Nat /\ Index(y) \in Nat /\ Index(to) \in Nat
        BY <1>1, <1>3, <3>1, LiveBetween, PlaceFacts DEF n
      <4>2. Index(y) <= Index(to) + (((g + 1) + 1) - (g + 1))
        BY <1>1, <3>1 DEF StartsSound, n
      <4>3. ((g + 1) + 1) - (g + 1) = 1
        BY <1>1
      <4> QED BY <4>1, <4>2, <4>3
    <3>3. Leads(m, next, y)
      BY <1>4, <2>2
    <3> HIDE DEF y
    <3>4. next <= y
      <4>1. y = next \/ y = SlotEnd(next)
        BY <3>3 DEF Leads
      <4>2. next < SlotEnd(next)
        BY <1>4, PlaceFacts
      <4> QED BY <1>4, <3>2, <4>1, <4>2
    <3>5. Index(next) \in Nat
      BY <1>4, PlaceFacts
    <3> QED BY <1>1, <1>4, <1>6, <2>2, <3>1, <3>2, <3>4, <3>5 DEF ReaderSound, n, y
  <2> QED BY <1>1, <2>1, <2>2
<1>9. \A i \in ((g + 1) + 1)..n : Index(st[i]) < Index(next) + SLOTS
  <2> SUFFICES ASSUME NEW i \in ((g + 1) + 1)..n PROVE Index(st[i]) < Index(next) + SLOTS
    OBVIOUS
  <2>1. i \in (g + 1)..n
    BY <1>1
  <2>2. Index(st[i]) \in Nat /\ Index(st[i]) < Index(rx) + SLOTS
    BY <1>1, <1>2, <2>1, LiveBetween DEF n
  <2> QED BY <1>3, <1>6, <2>2
<1>10. HeadersSound(m, st, tx, next, g + 1, f, v)
  BY <1>1, <1>4, <1>9 DEF HeadersSound, n
<1> QED BY <1>1, <1>4, <1>6, <1>7, <1>8, <1>10 DEF StreamSound

----------------------------------------------------------------------------
(* The streams of the model.                                               *)

(* The reader is not ahead of the writer, and has met it exactly when      *)
(* every message is taken.                                                 *)
LEMMA StreamFacts ==
  ASSUME NEW s \in Sides, Stream(s)
  PROVE  /\ rx_pos[s] \in Nat /\ tx_pos[s] \in Nat /\ Index(rx_pos[s]) \in Nat
         /\ rx_pos[s] <= tx_pos[s] /\ Index(rx_pos[s]) <= Index(tx_pos[s])
         /\ Len(starts[s]) \in Nat /\ Len(taken[s]) \in 0..Len(starts[s])
         /\ Len(taken[s]) < Len(starts[s]) <=> rx_pos[s] # tx_pos[s]
<1> DEFINE st == starts[s]
           tx == tx_pos[s]
           rx == rx_pos[s]
           g == Len(taken[s])
<1>1. StartsSound(st, tx) /\ ReaderSound(st, tx, rx, g)
  BY DEF Stream, StreamSound
<1>2. /\ st \in Seq(Nat) /\ tx \in Nat /\ rx \in Nat /\ Len(st) \in Nat /\ g \in 0..Len(st)
      /\ g = Len(st) => rx = tx
  BY <1>1 DEF StartsSound, ReaderSound
<1>3. g < Len(st) => rx < tx
  <2> SUFFICES ASSUME g < Len(st) PROVE rx < tx
    OBVIOUS
  <2>1. g + 1 \in (g + 1)..Len(st)
    BY <1>2
  <2>2. st[g + 1] \in Nat /\ rx <= st[g + 1] /\ st[g + 1] < tx
    BY <1>1, <2>1, LiveBetween
  <2> QED BY <1>2, <2>2
<1> HIDE DEF st, tx, rx, g
<1>4. rx <= tx /\ (g < Len(st) <=> rx # tx)
  BY <1>2, <1>3
<1>5. Index(rx) \in Nat /\ Index(rx) <= Index(tx)
  BY <1>2, <1>4, PlaceFacts, IndexGrows
<1> QED BY <1>2, <1>4, <1>5 DEF st, tx, rx, g

(* What the queue of slots says of a position near the reader's.           *)
LEMMA InTurn ==
  ASSUME NEW s \in Sides, Stream(s), NEW p \in Nat,
         Index(rx_pos[s]) <= Index(p) + 1, Index(p) < Index(rx_pos[s]) + SLOTS
  PROVE  SlotAt(s, p) = Turn(Index(p)) /\ Header(s, p) = HeaderIn(mem[s], p)
<1>1. QueueSound(slot_queue[s], slot_queue_recycle[s], rx_pos[s])
  BY DEF Stream, StreamSound
<1>2. Index(p) \in Nat /\ Index(rx_pos[s]) \in Nat
  BY PlaceFacts, StreamFacts
<1>3. Index(p) \in 0..(slot_queue_recycle[s] - 1)
  BY <1>1, <1>2 DEF QueueSound
<1>4. slot_queue[s][Entry(Index(p))] = Turn(Index(p))
  BY <1>1, <1>3 DEF QueueSound
<1>5. SlotAt(s, p) = Turn(Index(p))
  BY <1>4 DEF SlotAt, Entry, Index
<1> QED BY <1>5 DEF Header, HeaderIn

(* The memory is written where the slots in turn say.                      *)
LEMMA WriteInTurn ==
  ASSUME NEW s \in Sides, Stream(s), NEW p \in Nat, NEW m, NEW os, NEW c,
         Index(rx_pos[s]) <= Index(p) + 1, Index(p) < Index(rx_pos[s]) + SLOTS
  PROVE  WithCells(s, m, p, os, c) = Put(m, p, os, c)
<1>1. SlotAt(s, p) = Turn(Index(p))
  BY InTurn
<1> QED BY <1>1 DEF WithCells, Put

(* So is a padding header.                                                 *)
LEMMA PaddedInTurn ==
  ASSUME NEW s \in Sides, Stream(s), NEW stride \in Strides,
         NEW at, at = Start(tx_pos[s], stride), Index(at) < Index(rx_pos[s]) + SLOTS
  PROVE  /\ Padded(s, at) = WithPad(mem[s], tx_pos[s], at)
         /\ at \in Nat /\ Index(rx_pos[s]) <= Index(at) + 1
<1>1. /\ rx_pos[s] \in Nat /\ tx_pos[s] \in Nat /\ Index(rx_pos[s]) \in Nat
      /\ Index(rx_pos[s]) <= Index(tx_pos[s])
  BY StreamFacts
<1>2. at \in Nat /\ Index(tx_pos[s]) <= Index(at)
  BY <1>1, StartFacts
<1>3. Index(at) \in Nat /\ Index(tx_pos[s]) \in Nat
  BY <1>1, <1>2, PlaceFacts
<1>4. Index(rx_pos[s]) <= Index(at) + 1 /\ Index(rx_pos[s]) <= Index(tx_pos[s]) + 1
      /\ Index(tx_pos[s]) < Index(rx_pos[s]) + SLOTS
  BY <1>1, <1>2, <1>3
<1>5. WithCells(s, mem[s], tx_pos[s], {Offset(tx_pos[s])}, HeaderCell(Padding, SlotSpace(tx_pos[s])))
        = Put(mem[s], tx_pos[s], {Offset(tx_pos[s])}, HeaderCell(Padding, SlotSpace(tx_pos[s])))
  BY <1>1, <1>4, WriteInTurn
<1> QED BY <1>2, <1>4, <1>5 DEF Padded, WithPad

(* Which message of a stream is not filled, and what comes next in it.     *)
FillingOf(s) == IF s = "arm" THEN filling ELSE 0
StoreOf(s) == IF s = "arm" THEN next_store ELSE "none"

(* The message to be taken next, if it is filled, and where it ends.       *)
LEMMA NextInTurn ==
  ASSUME NEW s \in Sides, Stream(s), rx_pos[s] # tx_pos[s]
  PROVE  LET i == Len(taken[s]) + 1
             to == starts[s][i]
         IN  /\ to \in Nat /\ SlotAt(s, to) = Turn(Index(to))
             /\ Header(s, to) = HeaderIn(mem[s], to)
             /\ i # FillingOf(s) =>
                  /\ NextHeader(s) = to /\ HeaderIn(mem[s], to).id = i
                  /\ HeaderIn(mem[s], to).stride \in Strides
                  /\ to + HeaderIn(mem[s], to).stride
                       = NextPlace(mem[s], starts[s], tx_pos[s], Len(taken[s]))
<1> DEFINE i == Len(taken[s]) + 1
           to == starts[s][i]
           rx == rx_pos[s]
           m == mem[s]
<1>1. /\ rx \in Nat /\ Index(rx) \in Nat /\ Len(starts[s]) \in Nat
      /\ Len(taken[s]) < Len(starts[s]) /\ Len(taken[s]) \in 0..Len(starts[s])
  BY StreamFacts
<1>2. /\ StartsSound(starts[s], tx_pos[s]) /\ ReaderSound(starts[s], tx_pos[s], rx, Len(taken[s]))
      /\ HeadersSound(m, starts[s], tx_pos[s], rx, Len(taken[s]), FillingOf(s), StoreOf(s))
  BY DEF Stream, StreamSound, FillingOf, StoreOf
<1>3. i \in (Len(taken[s]) + 1)..Len(starts[s]) /\ i > 0 /\ i \in Nat /\ i \in 1..Len(starts[s])
  BY <1>1
<1>4. /\ \A j \in (Len(taken[s]) + 1)..Len(starts[s]) : Index(starts[s][j]) < Index(rx) + SLOTS
      /\ Leads(m, rx, to)
  BY <1>1, <1>2 DEF HeadersSound
<1>5. to \in Nat /\ Index(rx) <= Index(to) /\ Index(to) \in Nat /\ Standing(to, tx_pos[s])
  BY <1>2, <1>3, <1>4, LiveBetween, LiveStanding
<1>6. i # FillingOf(s) => Linked(m, starts[s], tx_pos[s], i) /\ Complete(m, starts[s], i)
  BY <1>2, <1>3, <1>5 DEF HeadersSound
<1>7. Index(to) < Index(rx) + SLOTS
  BY <1>3, <1>4
<1>8. i # FillingOf(s) =>
        /\ HeaderIn(m, to).id = i /\ HeaderIn(m, to).stride \in Strides
        /\ to + HeaderIn(m, to).stride = NextPlace(m, starts[s], tx_pos[s], Len(taken[s]))
  BY <1>6 DEF Linked, Complete, NextPlace
<1> HIDE DEF i, to, m
<1>9. SlotAt(s, to) = Turn(Index(to)) /\ Header(s, to) = HeaderIn(m, to)
  BY <1>1, <1>5, <1>7, InTurn DEF m
<1>10. Header(s, rx) = HeaderIn(m, rx)
  BY <1>1, InTurn DEF m
<1>11. ASSUME HeaderIn(m, to).id = i PROVE NextHeader(s) = to
  <2>1. CASE to = rx
    BY <1>3, <1>10, <1>11, <2>1 DEF NextHeader, Padding
  <2>2. CASE to # rx
    <3>1. /\ to = rx + SlotSpace(rx)
          /\ HeaderIn(m, rx) = [id |-> Padding, stride |-> SlotSpace(rx)]
      BY <1>4, <2>2 DEF Leads, SlotEnd
    <3>2. HeaderIn(m, rx).id = Padding /\ HeaderIn(m, rx).stride = SlotSpace(rx)
      BY <3>1
    <3> QED BY <1>10, <3>1, <3>2 DEF NextHeader
  <2> QED BY <2>1, <2>2
<1> QED BY <1>5, <1>8, <1>9, <1>11 DEF i, to, m

(* The slot left is given back.                                            *)
LEMMA ReleaseInTurn ==
  ASSUME NEW s \in Sides, Stream(s), Shapes, NEW next \in Nat, ReleaseSlot(s, rx_pos[s], next),
         Index(next) \in {Index(rx_pos[s]), Index(rx_pos[s]) + 1}
  PROVE  LET a == Index(rx_pos[s])
             b == Index(next)
         IN  /\ slot_queue' = [slot_queue EXCEPT ![s] =
                                 Given(slot_queue[s], slot_queue_recycle[s], a, b)]
             /\ slot_queue_recycle' = [slot_queue_recycle EXCEPT ![s] =
                                 Recycled(slot_queue_recycle[s], a, b)]
<1> DEFINE a == Index(rx_pos[s])
           b == Index(next)
<1>1. /\ slot_queue = [x \in Sides |-> slot_queue[x]]
      /\ slot_queue_recycle = [x \in Sides |-> slot_queue_recycle[x]]
  BY DEF Shapes
<1>2. rx_pos[s] \in Nat /\ a \in Nat /\ b \in Nat
  BY StreamFacts, PlaceFacts
<1>3. SlotAt(s, rx_pos[s]) = Turn(a) /\ SlotAt(s, next) = Turn(b)
  BY <1>2, InTurn
<1> HIDE DEF a, b
<1>4. CASE Turn(b) = Turn(a)
  <2>1. /\ slot_queue' = slot_queue /\ slot_queue_recycle' = slot_queue_recycle
        /\ Given(slot_queue[s], slot_queue_recycle[s], a, b) = slot_queue[s]
        /\ Recycled(slot_queue_recycle[s], a, b) = slot_queue_recycle[s]
    BY <1>3, <1>4 DEF ReleaseSlot, Given, Recycled
  <2> QED BY <1>1, <2>1 DEF a, b
<1>5. CASE Turn(b) # Turn(a)
  <2>1. /\ slot_queue' = [slot_queue EXCEPT ![s][slot_queue_recycle[s] % QUEUE] = Turn(a)]
        /\ slot_queue_recycle' = [slot_queue_recycle EXCEPT ![s] = @ + 1]
        /\ Given(slot_queue[s], slot_queue_recycle[s], a, b) =
             [slot_queue[s] EXCEPT ![slot_queue_recycle[s] % QUEUE] = Turn(a)]
        /\ Recycled(slot_queue_recycle[s], a, b) = slot_queue_recycle[s] + 1
    BY <1>3, <1>5 DEF ReleaseSlot, Given, Recycled, Entry
  <2> QED BY <1>1, <2>1 DEF a, b
<1> QED BY <1>4, <1>5

----------------------------------------------------------------------------
(* What clients hold.                                                      *)

(* A message sent leaves what the clients hold as it is in slots it does   *)
(* not enter.                                                              *)
LEMMA HeldKept ==
  ASSUME NEW h, NEW m, NEW w, NEW st, NEW tx, HeldSound(h, m, st, tx),
         StartsSound(st, tx), NEW stride \in Strides, NEW at, at = Start(tx, stride),
         \A p \in Nat : p < tx /\ Index(at) < Index(p) + SLOTS => HeaderIn(w, p) = HeaderIn(m, p)
  PROVE  HeldSound(h, w, Append(st, at), at + stride)
<1> DEFINE n == Len(st)
           z == Append(st, at)
           ty == at + stride
<1>1. /\ st \in Seq(Nat) /\ tx \in Nat /\ n \in Nat
      /\ \A i, j \in 1..n : i < j => st[i] < st[j]
      /\ n > 0 => st[n] < tx
      /\ \A i \in 1..n : st[i] \in Nat
  BY DEF StartsSound
<1>2. at \in Nat /\ tx <= at /\ stride \in Nat /\ stride > 0
  BY <1>1, StartFacts, StrideFacts
<1>3. Len(z) = n + 1 /\ \A i \in 1..n : z[i] = st[i] /\ i \in 1..(n + 1)
  BY <1>1, <1>2
<1>4. ty \in Nat /\ tx < ty /\ at < ty
  BY <1>1, <1>2
<1> HIDE DEF z, ty, n
<1>5. ASSUME NEW x \in h
      PROVE  /\ x.id \in 1..Len(z) /\ x.at = z[x.id] /\ x.slot = Turn(Index(x.at)) /\ x.stride \in Nat
             /\ x = [id |-> x.id, slot |-> x.slot, at |-> x.at, stride |-> x.stride]
             /\ Standing(x.at, ty) => HeaderIn(w, x.at).stride = x.stride
  <2>1. /\ x.id \in 1..n /\ x.at = st[x.id] /\ x.slot = Turn(Index(x.at)) /\ x.stride \in Nat
        /\ x = [id |-> x.id, slot |-> x.slot, at |-> x.at, stride |-> x.stride]
        /\ Standing(x.at, tx) => HeaderIn(m, x.at).stride = x.stride
    BY DEF HeldSound, n
  <2>2. x.at \in Nat /\ x.at < tx
    <3>1. n \in 1..n /\ (x.id = n \/ x.id < n)
      BY <1>1, <2>1
    <3>2. x.at \in Nat /\ st[n] \in Nat /\ tx \in Nat /\ st[n] < tx
      BY <1>1, <2>1, <3>1
    <3>3. CASE x.id = n
      BY <2>1, <3>2, <3>3
    <3>4. CASE x.id < n
      <4>1. st[x.id] < st[n]
        BY <1>1, <2>1, <3>1, <3>4
      <4>2. x.at < st[n]
        BY <2>1, <4>1
      <4> QED BY <3>2, <4>2
    <3> QED BY <3>1, <3>3, <3>4
  <2>3. ASSUME Standing(x.at, ty) PROVE HeaderIn(w, x.at).stride = x.stride
    <3>1. Index(at) < Index(x.at) + SLOTS
      BY <1>2, <1>4, <2>2, <2>3, StandingNear
    <3>2. Standing(x.at, tx)
      <4>1. Index(x.at) + SLOTS \in Nat
        BY <2>2, PlaceFacts
      <4>2. (Index(x.at) + SLOTS) * SLOT_SIZE \in Nat
        BY <4>1
      <4> QED BY <1>1, <1>4, <2>3, <4>2 DEF Standing
    <3> QED BY <2>1, <2>2, <3>1, <3>2
  <2> QED BY <1>3, <2>1, <2>3
<1>6. HeldSound(h, w, z, ty)
  BY <1>5 DEF HeldSound
<1> QED BY <1>6 DEF z, ty

----------------------------------------------------------------------------
(* The actions.                                                            *)

(* What concerns one side stays as it is.                                  *)
LEMMA StreamKept ==
  ASSUME NEW s \in Sides, Stream(s), mem'[s] = mem[s], starts'[s] = starts[s],
         tx_pos'[s] = tx_pos[s], rx_pos'[s] = rx_pos[s], slot_queue'[s] = slot_queue[s],
         slot_queue_recycle'[s] = slot_queue_recycle[s], taken'[s] = taken[s],
         s = "arm" => filling' = filling /\ next_store' = next_store
  PROVE  Stream(s)'
BY DEF Stream

(* Only the threads and the events move.                                   *)
LEMMA QuietStep ==
  ASSUME SlotsIInv, UNCHANGED <<streamVars, sendVars, taken, held>>, EventsSound'
  PROVE  SlotsIInv'
<1>1. /\ mem' = mem /\ starts' = starts /\ tx_pos' = tx_pos /\ rx_pos' = rx_pos
      /\ slot_queue' = slot_queue /\ slot_queue_recycle' = slot_queue_recycle
      /\ filling' = filling /\ next_store' = next_store /\ taken' = taken /\ held' = held
  BY DEF streamVars, sendVars
<1>2. Stream("arm")' /\ Stream("vc")'
  BY <1>1 DEF SlotsIInv, Stream
<1>3. HeldSound(held, mem["vc"], starts["vc"], tx_pos["vc"])'
  BY <1>1 DEF SlotsIInv
<1>4. FillingSound' /\ Shapes'
  BY <1>1 DEF SlotsIInv, FillingSound, Shapes
<1>5. Records'
  BY <1>1 DEF SlotsIInv, Records, ReceivedInOrder, ReadInOrder
<1> QED BY <1>2, <1>3, <1>4, <1>5 DEF SlotsIInv

(* The event protocol, the interrupt and the walk over recycled slots      *)
(* leave the messages alone.                                               *)
LEMMA QuietActions ==
  ASSUME SlotsIInv,
         \/ \E e \in Events : EventWait(e) \/ VcFire(e) \/ VcRing(e)
         \/ VchiqIrq \/ LoopAgain \/ WalkSlot \/ RecycleAgain
  PROVE  SlotsIInv'
<1> DEFINE Quiet == UNCHANGED <<streamVars, sendVars, taken, held>> /\ EventsSound'
<1> USE DEF EventsSound, readVars
<1>1. EventsSound /\ "trigger" \in Events /\ "recycle" \in Events
  BY DEF SlotsIInv, Events
<1>2. ASSUME NEW e \in Events, EventWait(e)
      PROVE  Quiet
  <2>1. CASE Resume(e)
    BY <1>1, <2>1 DEF Resume, Step
  <2>2. CASE EventSeen(e)
    BY <1>1, <2>2 DEF EventSeen, Step
  <2>3. CASE EventMissed(e)
    BY <1>1, <2>3 DEF EventMissed, Step
  <2>4. CASE Arm(e)
    BY <1>1, <2>4 DEF Arm, Step
  <2>5. CASE Wake(e)
    BY <1>1, <2>5 DEF Wake, Step
  <2>6. CASE Disarm(e)
    BY <1>1, <2>6 DEF Disarm, Step
  <2>7. CASE Clear(e)
    BY <1>1, <2>7 DEF Clear, Step
  <2> QED BY <1>2, <2>1, <2>2, <2>3, <2>4, <2>5, <2>6, <2>7 DEF EventWait
<1>3. ASSUME NEW e \in Events, VcFire(e) \/ VcRing(e)
      PROVE  Quiet
  <2>1. CASE VcFire(e)
    BY <1>1, <2>1 DEF VcFire
  <2>2. CASE VcRing(e)
    BY <1>1, <2>2 DEF VcRing
  <2> QED BY <1>3, <2>1, <2>2
<1>4. ASSUME VchiqIrq PROVE Quiet
  BY <1>1, <1>4 DEF VchiqIrq
<1>5. ASSUME LoopAgain PROVE Quiet
  BY <1>1, <1>5 DEF LoopAgain, Step
<1>6. ASSUME WalkSlot PROVE Quiet
  BY <1>1, <1>6 DEF WalkSlot
<1>7. ASSUME RecycleAgain PROVE Quiet
  BY <1>1, <1>7 DEF RecycleAgain, Step
<1> QED BY <1>2, <1>3, <1>4, <1>5, <1>6, <1>7, QuietStep

(* Of two counts with a sum below c, each may grow by one.                 *)
LEMMA OneMore ==
  ASSUME NEW a \in Nat, NEW b \in Nat, NEW c \in Nat, a + b < c
  PROVE  a + 1 \in 0..c /\ b + 1 \in 0..c
OBVIOUS

(* The ARM's callers leave room.                                           *)
LEMMA PrepHasRoom ==
  ASSUME CallersWait, Stream("arm"), Pending("arm") < TX_INFLIGHT, NEW stride \in Strides
  PROVE  Index(Start(tx_pos["arm"], stride)) < Index(rx_pos["arm"]) + SLOTS
<1> DEFINE st == starts["arm"]
           tx == tx_pos["arm"]
           rx == rx_pos["arm"]
           g == Len(taken["arm"])
           n == Len(st)
           at == Start(tx, stride)
           z == Append(st, at)
<1>1. StartsSound(st, tx) /\ ReaderSound(st, tx, rx, g)
  BY DEF Stream, StreamSound
<1>2. /\ st \in Seq(Nat) /\ tx \in Nat /\ rx \in Nat /\ n \in Nat /\ g \in 0..n
      /\ g = n => rx = tx
      /\ g < n => Index(st[g + 1]) <= Index(rx) + 1
  BY <1>1 DEF StartsSound, ReaderSound
<1>3. at \in Nat /\ Index(at) <= Index(tx) + 1
  BY <1>2, StartFacts
<1>4. Index(tx) \in Nat /\ Index(rx) \in Nat /\ Index(at) \in Nat
  BY <1>2, <1>3, PlaceFacts
<1>5. n - g < TX_INFLIGHT /\ TX_INFLIGHT < SLOTS
  BY DEF Pending, CallersWait
<1>6. StartsSound(z, at + stride)
  BY <1>1, SendStarts
<1>7. Len(z) = n + 1 /\ z[n + 1] = at /\ \A i \in 1..n : z[i] = st[i]
  BY <1>2, <1>3
<1> HIDE DEF st, tx, rx, g, n, at, z
<1>8. CASE g = n
  BY <1>2, <1>3, <1>4, <1>8 DEF at, tx, rx
<1>9. CASE g < n
  <2>1. /\ g + 1 \in 1..n /\ g + 1 \in 1..(n + 1) /\ n + 1 \in 1..(n + 1) /\ g + 1 < n + 1
        /\ st[g + 1] \in Nat /\ z[g + 1] = st[g + 1]
    <3>1. g + 1 \in 1..n /\ g + 1 \in 1..(n + 1) /\ n + 1 \in 1..(n + 1) /\ g + 1 < n + 1
      BY <1>2, <1>9
    <3> QED BY <1>2, <1>7, <3>1 DEF n
  <2>2. Index(at) <= Index(st[g + 1]) + ((n + 1) - (g + 1))
    BY <1>6, <1>7, <2>1 DEF StartsSound
  <2>3. Index(st[g + 1]) \in Nat
    BY <2>1, PlaceFacts
  <2>4. Index(at) < Index(rx) + SLOTS
    BY <1>2, <1>4, <1>5, <1>9, <2>2, <2>3
  <2> QED BY <2>4 DEF at, tx, rx
<1> QED BY <1>2, <1>8, <1>9

(* vchiq_prep_next_header_tx up to the store of tx_pos keeps the           *)
(* invariant.                                                              *)
LEMMA PrepInv ==
  ASSUME CallersWait, SlotsIInv, NEW stride \in Strides, Prep(stride)
  PROVE  SlotsIInv'
<1> DEFINE s == "arm"
           st == starts[s]
           tx == tx_pos[s]
           at == Start(tx, stride)
           w == WithPad(mem[s], tx, at)
<1>1. /\ Stream("arm") /\ Stream("vc") /\ Shapes /\ Records /\ FillingSound /\ EventsSound
      /\ HeldSound(held, mem["vc"], starts["vc"], tx_pos["vc"])
  BY DEF SlotsIInv
<1>2. /\ filling = 0 /\ Sent < MAX_MSGS /\ Pending(s) < TX_INFLIGHT
      /\ mem' = [mem EXCEPT ![s] = Padded(s, at)]
      /\ starts' = [starts EXCEPT ![s] = Append(@, at)]
      /\ tx_pos' = [tx_pos EXCEPT ![s] = at + stride]
      /\ filling' = Len(st) + 1 /\ next_store' = "size"
      /\ UNCHANGED <<rx_pos, slot_queue, slot_queue_recycle, slot_queue_available,
                     taken, adrift, held, eventVars>>
  BY DEF Prep, readVars
<1>3. s \in Sides /\ "vc" \in Sides /\ "vc" # s
  BY DEF Sides
<1>4. Index(at) < Index(rx_pos[s]) + SLOTS
  BY <1>1, <1>2, PrepHasRoom
<1>5. Padded(s, at) = w /\ at \in Nat
  BY <1>1, <1>3, <1>4, PaddedInTurn
<1>6. StreamSound(mem[s], st, tx, rx_pos[s], slot_queue[s], slot_queue_recycle[s],
                  Len(taken[s]), 0, "none")
  BY <1>1, <1>2 DEF Stream, FillingSound
<1>7. /\ mem'[s] = w /\ starts'[s] = Append(st, at)
      /\ tx_pos'[s] = at + stride
      /\ mem'["vc"] = mem["vc"] /\ starts'["vc"] = starts["vc"] /\ tx_pos'["vc"] = tx_pos["vc"]
      /\ Shapes'
  BY <1>1, <1>2, <1>3, <1>5 DEF Shapes
<1>8. /\ MemorySound(w)
      /\ at # tx => HeaderIn(w, tx) = HeaderCell(Padding, SlotSpace(tx))
      /\ \A p \in Nat : p < tx /\ Index(at) < Index(p) + SLOTS => HeaderIn(w, p) = HeaderIn(mem[s], p)
  <2>1. MemorySound(mem[s]) /\ tx \in Nat
    BY <1>6 DEF StreamSound, StartsSound
  <2>2. /\ MemorySound(w)
        /\ at # tx => HeaderIn(w, tx) = HeaderCell(Padding, SlotSpace(tx))
        /\ \A p \in Nat : p < tx /\ Index(tx) < Index(p) + SLOTS => HeaderIn(w, p) = HeaderIn(mem[s], p)
    BY <2>1, PadFacts
  <2>3. Index(tx) \in Nat /\ Index(at) \in Nat /\ Index(tx) <= Index(at)
    BY <1>5, <2>1, PlaceFacts, StartFacts
  <2>4. ASSUME NEW p \in Nat, Index(at) < Index(p) + SLOTS PROVE Index(tx) < Index(p) + SLOTS
    BY <2>3, <2>4, PlaceFacts
  <2> QED BY <2>2, <2>4
<1> HIDE DEF at, w
<1>9. StreamSound(w, Append(st, at), at + stride, rx_pos[s],
                  slot_queue[s], slot_queue_recycle[s], Len(taken[s]), Len(st) + 1, "size")
  BY <1>4, <1>6, <1>8, SendStream DEF at
<1>10. Stream("arm")'
  BY <1>2, <1>7, <1>9 DEF Stream
<1>11. Stream("vc")'
  BY <1>1, <1>2, <1>3, <1>7, StreamKept
<1>12. FillingSound'
  <2>1. Len(starts["arm"]) \in Nat /\ Len(starts["vc"]) \in Nat /\ st \in Seq(Nat)
    <3>1. Len(starts["arm"]) \in Nat /\ Len(starts["vc"]) \in Nat
      BY <1>1, <1>3, StreamFacts
    <3>2. st \in Seq(Nat)
      BY <1>6 DEF StreamSound, StartsSound
    <3> QED BY <3>1, <3>2
  <2>2. Len(st) + 1 <= MAX_MSGS
    <3>1. Len(starts["arm"]) + Len(starts["vc"]) < MAX_MSGS
      BY <1>2 DEF Sent
    <3>2. MAX_MSGS \in Nat
      OBVIOUS
    <3>3. Len(st) + 1 \in 0..MAX_MSGS
      BY <2>1, <3>1, <3>2, OneMore
    <3> QED BY <3>3
  <2>3. Len(Append(st, at)) = Len(st) + 1 /\ Len(st) + 1 # 0
    BY <1>5, <2>1
  <2> QED BY <1>2, <1>7, <2>2, <2>3 DEF FillingSound
<1>13. EventsSound'
  BY <1>1, <1>2 DEF EventsSound, eventVars
<1>14. Records'
  BY <1>1, <1>2 DEF Records, ReceivedInOrder, ReadInOrder
<1>15. HeldSound(held, mem["vc"], starts["vc"], tx_pos["vc"])'
  BY <1>1, <1>2, <1>7
<1> QED BY <1>7, <1>10, <1>11, <1>12, <1>13, <1>14, <1>15 DEF SlotsIInv

(* A message of the VideoCore keeps the invariant.                         *)
LEMMA VcSendInv ==
  ASSUME SlotsIInv, NEW stride \in Strides, VcSend(stride)
  PROVE  SlotsIInv'
<1> DEFINE s == "vc"
           st == starts[s]
           tx == tx_pos[s]
           at == Start(tx, stride)
           id == Len(st) + 1
           hd == HeaderCell(id, stride)
           pl == PayloadCell(id)
           w == Put(Put(WithPad(mem[s], tx, at), at, {Offset(at)}, hd), at, PayloadOf(at, stride), pl)
<1>1. /\ Stream("arm") /\ Stream("vc") /\ Shapes /\ Records /\ FillingSound /\ EventsSound
      /\ HeldSound(held, mem[s], st, tx)
  BY DEF SlotsIInv
<1>2. /\ Sent < MAX_MSGS
      /\ at \div SLOT_SIZE < slot_queue_recycle[s]
      /\ mem' = [mem EXCEPT ![s] = WithCells(s, WithCells(s, Padded(s, at), at, {Offset(at)}, hd),
                                         at, PayloadOf(at, stride), pl)]
      /\ starts' = [starts EXCEPT ![s] = Append(@, at)]
      /\ tx_pos' = [tx_pos EXCEPT ![s] = at + stride]
      /\ ringing' = [ringing EXCEPT !["trigger"] = "fire"]
      /\ UNCHANGED <<rx_pos, slot_queue, slot_queue_recycle, slot_queue_available,
                     filling, next_store, taken, adrift, held, armed, fired, waitflag, bell,
                     thread_pc>>
  BY DEF VcSend, sendVars, readVars
<1>3. s \in Sides /\ "arm" \in Sides /\ "arm" # s
  BY DEF Sides
<1>4. Index(at) < Index(rx_pos[s]) + SLOTS
  BY <1>1, <1>2 DEF Stream, StreamSound, QueueSound, Index
<1>5. Padded(s, at) = WithPad(mem[s], tx, at) /\ at \in Nat /\ Index(rx_pos[s]) <= Index(at) + 1
  BY <1>1, <1>3, <1>4, PaddedInTurn
<1>6. StreamSound(mem[s], st, tx, rx_pos[s], slot_queue[s], slot_queue_recycle[s],
                  Len(taken[s]), 0, "none")
  BY <1>1, <1>3 DEF Stream
<1>7. /\ Len(starts["arm"]) \in Nat /\ Len(st) \in Nat
  BY <1>1, <1>3, StreamFacts
<1>8. id \in 1..MAX_MSGS
  <2>1. Len(starts["arm"]) + Len(starts["vc"]) < MAX_MSGS
    BY <1>2 DEF Sent
  <2>2. MAX_MSGS \in Nat
    OBVIOUS
  <2>3. id \in 0..MAX_MSGS
    BY <1>7, <2>1, <2>2, OneMore
  <2> QED BY <1>7, <2>3
<1>9. mem' = [mem EXCEPT ![s] = w]
  <2> DEFINE x == WithPad(mem[s], tx, at)
  <2>1. mem' = [mem EXCEPT ![s] = WithCells(s, WithCells(s, x, at, {Offset(at)}, hd),
                                        at, PayloadOf(at, stride), pl)]
    BY <1>2, <1>5
  <2> HIDE DEF x, hd, pl, at
  <2>2. WithCells(s, x, at, {Offset(at)}, hd) = Put(x, at, {Offset(at)}, hd)
    BY <1>1, <1>3, <1>4, <1>5, WriteInTurn
  <2> DEFINE y == Put(x, at, {Offset(at)}, hd)
  <2> HIDE DEF y
  <2>3. WithCells(s, y, at, PayloadOf(at, stride), pl) = Put(y, at, PayloadOf(at, stride), pl)
    BY <1>1, <1>3, <1>4, <1>5, WriteInTurn
  <2> QED BY <2>1, <2>2, <2>3 DEF x, y
<1>10. MemorySound(mem[s]) /\ tx \in Nat /\ StartsSound(st, tx)
  BY <1>6 DEF StreamSound, StartsSound
<1>11. /\ MemorySound(w)
       /\ at # tx => HeaderIn(w, tx) = HeaderCell(Padding, SlotSpace(tx))
       /\ \A p \in Nat : p < tx /\ Index(at) < Index(p) + SLOTS =>
            HeaderIn(w, p) = HeaderIn(mem[s], p)
       /\ HeaderIn(w, at) = HeaderCell(id, stride)
       /\ \A p \in Behind(at, stride) : HeaderIn(w, p) = PayloadCell(id)
  <2> DEFINE m == mem[s]
  <2>1. id \in 1..MAX_MSGS /\ MemorySound(m) /\ tx \in Nat
    BY <1>8, <1>10
  <2> HIDE DEF id, m, tx
  <2>2. /\ MemorySound(w)
        /\ at # tx => HeaderIn(w, tx) = HeaderCell(Padding, SlotSpace(tx))
        /\ \A p \in Nat : p < tx /\ Index(at) < Index(p) + SLOTS =>
             HeaderIn(w, p) = HeaderIn(m, p)
        /\ HeaderIn(w, at) = HeaderCell(id, stride)
        /\ \A p \in Behind(at, stride) : HeaderIn(w, p) = PayloadCell(id)
    BY <2>1, WholeMessage DEF m
  <2> QED BY <2>2 DEF m
<1> HIDE DEF w
<1>12. /\ mem'[s] = w /\ starts'[s] = Append(st, at)
       /\ tx_pos'[s] = at + stride
       /\ mem'["arm"] = mem["arm"] /\ starts'["arm"] = starts["arm"]
       /\ tx_pos'["arm"] = tx_pos["arm"] /\ Shapes'
  BY <1>1, <1>2, <1>3, <1>9 DEF Shapes
<1>13. StreamSound(w, Append(st, at), at + stride, rx_pos[s],
                   slot_queue[s], slot_queue_recycle[s], Len(taken[s]), 0, "none")
  <2> HIDE DEF at
  <2> QED BY <1>4, <1>6, <1>11, SendStream DEF at
<1>14. Stream("vc")'
  BY <1>2, <1>3, <1>12, <1>13 DEF Stream
<1>15. Stream("arm")'
  BY <1>1, <1>2, <1>3, <1>12, StreamKept
<1>16. FillingSound'
  BY <1>1, <1>2, <1>12 DEF FillingSound
<1>17. EventsSound'
  BY <1>1, <1>2 DEF EventsSound, Events
<1>18. Records'
  BY <1>1, <1>2 DEF Records, ReceivedInOrder, ReadInOrder
<1>19. HeldSound(held, mem["vc"], starts["vc"], tx_pos["vc"])'
  <2>1. HeldSound(held, w, Append(st, at), at + stride)
    BY <1>1, <1>10, <1>11, HeldKept
  <2> QED BY <1>2, <1>12, <2>1
<1> QED BY <1>12, <1>14, <1>15, <1>16, <1>17, <1>18, <1>19 DEF SlotsIInv

(* A store into the message prepared last keeps the invariant.             *)
LEMMA StoreInv ==
  ASSUME SlotsIInv, NEW this, NEW next, NEW os, NEW cell \in Headers,
         StoreInto(this, next, os, cell),
         this \in {"size", "msgid", "payload"}, next \in {"msgid", "payload", "none"},
         \/ /\ os = {Offset(FillingAt)} /\ cell.stride = FillingStride /\ next # "none"
            /\ filling' = filling /\ (next = "payload" => cell.id = filling)
         \/ /\ os = PayloadOf(FillingAt, FillingStride) /\ cell = PayloadCell(filling)
            /\ this = "payload" /\ next = "none" /\ filling' = 0
  PROVE  SlotsIInv'
<1> DEFINE s == "arm"
           st == starts[s]
           n == Len(st)
           tx == tx_pos[s]
           rx == rx_pos[s]
           g == Len(taken[s])
           m == mem[s]
           a == st[n]
           d == tx - a
           w == Put(m, a, os, cell)
           f == IF next = "none" THEN 0 ELSE n
<1>1. /\ Stream("arm") /\ Stream("vc") /\ Shapes /\ Records /\ FillingSound /\ EventsSound
      /\ HeldSound(held, mem["vc"], starts["vc"], tx_pos["vc"])
  BY DEF SlotsIInv
<1>2. /\ next_store = this /\ next_store' = next
      /\ mem' = [mem EXCEPT ![s] = WithCells(s, @, FillingAt, os, cell)]
      /\ UNCHANGED <<starts, tx_pos, rx_pos, slot_queue, slot_queue_recycle,
                     slot_queue_available, taken, adrift, held, eventVars>>
  BY DEF StoreInto, readVars
<1>3. s \in Sides /\ "vc" \in Sides /\ "vc" # s
  BY DEF Sides
<1>4. filling = n /\ n > 0 /\ n <= MAX_MSGS /\ n \in Nat
  <2>1. n \in Nat
    BY <1>1, <1>3, StreamFacts
  <2>2. filling # 0
    BY <1>1, <1>2 DEF FillingSound
  <2> QED BY <1>1, <2>1, <2>2 DEF FillingSound
<1>5. FillingAt = a /\ FillingStride = d
  BY <1>4 DEF FillingAt, FillingStride
<1>6. StreamSound(m, st, tx, rx, slot_queue[s], slot_queue_recycle[s], g, n, this)
  BY <1>1, <1>2, <1>4 DEF Stream
<1>7. /\ MemorySound(m) /\ StartsSound(st, tx) /\ SlotsBegun(st) /\ ReaderSound(st, tx, rx, g)
      /\ QueueSound(slot_queue[s], slot_queue_recycle[s], rx)
      /\ HeadersSound(m, st, tx, rx, g, n, this)
  BY <1>6 DEF StreamSound
<1>8. /\ n \in 1..n /\ a \in Nat /\ a < tx /\ tx \in Nat /\ Standing(a, tx)
      /\ d \in Strides /\ a + d = tx /\ d <= SlotSpace(a)
      /\ Index(rx) <= Index(a) + 1 /\ Index(a) < Index(rx) + SLOTS
  <2>1. \A i \in (g + 1)..Len(st) : Index(st[i]) < Index(rx) + SLOTS
    BY <1>7 DEF HeadersSound
  <2> QED BY <1>4, <1>7, <2>1, LastMessage
<1>9. d \in Nat /\ d > 0 /\ d < SLOT_SIZE
  BY <1>8, StrideFacts
<1>10. /\ this # "size" => Linked(m, st, tx, n)
       /\ this = "payload" => HeaderIn(m, a).id = n
  BY <1>7, <1>8 DEF HeadersSound
<1>11. \/ /\ os = {Offset(a)} /\ cell.stride = d /\ next # "none"
          /\ filling' = n /\ (next = "payload" => cell.id = n)
       \/ /\ os = PayloadOf(a, d) /\ cell = PayloadCell(n)
          /\ this = "payload" /\ next = "none" /\ filling' = 0
  BY <1>4, <1>5
<1> HIDE DEF d, n
<1>12. mem'[s] = w /\ mem'["vc"] = mem["vc"] /\ Shapes'
  <2>1. WithCells(s, mem[s], a, os, cell) = w
    <3> HIDE DEF a
    <3> QED BY <1>1, <1>3, <1>8, WriteInTurn
  <2> QED BY <1>1, <1>2, <1>3, <1>5, <2>1 DEF Shapes
<1> HIDE DEF a
<1>13. Offset(a) \in Offsets /\ Offset(a) \notin PayloadOf(a, d) /\ Offset(a) + d <= SLOT_SIZE
  <2>1. Offset(a) \in Offsets
    BY <1>8, PlaceFacts
  <2> QED BY <1>8, <1>9, <2>1 DEF PayloadOf, Offsets, SlotSpace
<1>14. /\ MemorySound(w)
       /\ os = {Offset(a)} => HeaderIn(w, a) = cell
       /\ os # {Offset(a)} => HeaderIn(w, a) = HeaderIn(m, a)
       /\ os # {Offset(a)} => \A p \in Behind(a, d) : HeaderIn(w, p) = cell
       /\ \A p \in Nat : p < a /\ Index(a) < Index(p) + SLOTS => HeaderIn(w, p) = HeaderIn(m, p)
  <2>1. \/ os = {Offset(a)} /\ Offset(a) + cell.stride <= SLOT_SIZE
        \/ os = PayloadOf(a, d) /\ cell.stride = 0
    BY <1>11, <1>13 DEF PayloadCell
  <2> HIDE DEF m, w
  <2> QED BY <1>7, <1>8, <1>9, <2>1, PutBehind DEF w
<1> HIDE DEF w, m
<1>15. Linked(w, st, tx, n) /\ (next = "none" => Complete(w, st, n))
       /\ (next = "payload" => HeaderIn(w, a).id = n)
  <2>1. CASE os = {Offset(a)} /\ next # "none"
    <3>1. HeaderIn(w, a) = cell /\ cell.stride = d /\ (next = "payload" => cell.id = n)
      BY <1>11, <1>14, <2>1
    <3> QED BY <1>8, <2>1, <3>1 DEF Linked, a, n
  <2>2. CASE os = PayloadOf(a, d) /\ next = "none"
    <3>1. os # {Offset(a)} /\ cell = PayloadCell(n) /\ this = "payload"
      BY <1>11, <1>13, <2>2
    <3>2. HeaderIn(w, a) = HeaderIn(m, a) /\ \A p \in Behind(a, d) : HeaderIn(w, p) = PayloadCell(n)
      BY <1>14, <3>1
    <3>3. HeaderIn(m, a).stride \in Strides /\ tx = a + HeaderIn(m, a).stride /\ HeaderIn(m, a).id = n
      BY <1>10, <3>1 DEF Linked, a, n
    <3>4. HeaderIn(m, a).stride = d
      <4>1. HeaderIn(m, a).stride \in Nat
        BY <3>3, StrideFacts
      <4> QED BY <1>8, <1>9, <3>3, <4>1
    <3>5. Linked(w, st, tx, n)
      BY <3>2, <3>3 DEF Linked, a, n
    <3>6. Complete(w, st, n)
      BY <3>2, <3>3, <3>4 DEF Complete, a
    <3> QED BY <2>2, <3>5, <3>6
  <2> QED BY <1>11, <2>1, <2>2
<1>16. HeadersSound(w, st, tx, rx, g, f, next)
  <2>1. /\ next # "size" /\ (f = n \/ Complete(w, st, n)) /\ n = Len(st)
        /\ \A p \in Nat : p < st[n] /\ Index(st[n]) < Index(p) + SLOTS =>
             HeaderIn(w, p) = HeaderIn(m, p)
        /\ (next = "payload" => HeaderIn(w, st[n]).id = n)
    BY <1>14, <1>15 DEF a, n
  <2> HIDE DEF f, st, tx, rx, g
  <2> QED BY <1>4, <1>7, <1>15, <2>1, FillHeaders DEF m
<1>17. StreamSound(w, st, tx, rx, slot_queue[s], slot_queue_recycle[s], g, f, next)
  BY <1>7, <1>14, <1>16 DEF StreamSound
<1>18. filling' = f
  BY <1>11
<1>19. Stream("arm")'
  BY <1>2, <1>12, <1>17, <1>18 DEF Stream
<1>20. Stream("vc")'
  BY <1>1, <1>2, <1>3, <1>12, StreamKept
<1>21. FillingSound'
  BY <1>2, <1>4, <1>18 DEF FillingSound, n
<1>22. EventsSound'
  BY <1>1, <1>2 DEF EventsSound, eventVars
<1>23. Records'
  BY <1>1, <1>2 DEF Records, ReceivedInOrder, ReadInOrder
<1>24. HeldSound(held, mem["vc"], starts["vc"], tx_pos["vc"])'
  BY <1>1, <1>2, <1>12
<1> QED BY <1>12, <1>19, <1>20, <1>21, <1>22, <1>23, <1>24 DEF SlotsIInv

(* What the stores need of the message being written.                      *)
LEMMA FillingFacts ==
  ASSUME SlotsIInv, filling # 0
  PROVE  /\ filling \in 1..MAX_MSGS /\ FillingStride \in 1..SLOT_SIZE
         /\ Header("arm", FillingAt) \in Headers
<1> DEFINE s == "arm"
           st == starts[s]
           n == Len(st)
           tx == tx_pos[s]
           rx == rx_pos[s]
           g == Len(taken[s])
           a == st[n]
<1>1. Stream(s) /\ FillingSound /\ s \in Sides
  BY DEF SlotsIInv, Sides
<1>2. filling = n /\ n > 0 /\ n <= MAX_MSGS /\ n \in Nat
  <2>1. n \in Nat
    BY <1>1, StreamFacts
  <2> QED BY <1>1, <2>1 DEF FillingSound
<1>3. /\ StartsSound(st, tx) /\ ReaderSound(st, tx, rx, g) /\ MemorySound(mem[s])
      /\ \A i \in (g + 1)..Len(st) : Index(st[i]) < Index(rx) + SLOTS
  BY <1>1 DEF Stream, StreamSound, HeadersSound
<1>4. /\ a \in Nat /\ tx - a \in Strides
      /\ Index(rx) <= Index(a) + 1 /\ Index(a) < Index(rx) + SLOTS
  BY <1>2, <1>3, LastMessage
<1>5. FillingAt = a /\ FillingStride = tx - a
  BY <1>2 DEF FillingAt, FillingStride
<1> HIDE DEF a
<1>6. Header(s, a) = HeaderIn(mem[s], a)
  BY <1>1, <1>4, InTurn
<1>7. HeaderIn(mem[s], a) \in Headers
  <2>1. Turn(Index(a)) \in Slots /\ Offset(a) \in Offsets
    BY <1>4, PlaceFacts, TurnFacts
  <2> QED BY <1>3, <2>1 DEF MemorySound, Memories, HeaderIn
<1> QED BY <1>2, <1>4, <1>5, <1>6, <1>7, StrideFacts

(* The stores of a caller into the message it prepared keep the invariant. *)
LEMMA FillInv ==
  ASSUME SlotsIInv, PutSize \/ PutMsgid \/ PutPayload
  PROVE  SlotsIInv'
<1>1. /\ next_store # "none" => filling # 0
  BY DEF SlotsIInv, FillingSound
<1>2. CASE PutSize
  <2> DEFINE old == Header("arm", FillingAt)
             id == IF IsPayload(old) THEN Garbage ELSE old.id
             cell == HeaderCell(id, FillingStride)
  <2>1. StoreInto("size", "msgid", {Offset(FillingAt)}, cell) /\ filling' = filling
    BY <1>2 DEF PutSize
  <2>2. filling # 0
    BY <1>1, <2>1 DEF StoreInto
  <2>3. old \in Headers /\ FillingStride \in 1..SLOT_SIZE /\ MAX_MSGS \in Nat
    BY <2>2, FillingFacts
  <2> HIDE DEF old
  <2>4. id \in Garbage..MAX_MSGS
    BY <2>3 DEF Headers, Garbage
  <2> HIDE DEF id
  <2>5. cell \in Headers /\ cell.stride = FillingStride
    BY <2>3, <2>4 DEF HeaderCell, Headers
  <2> HIDE DEF cell
  <2> QED BY <2>1, <2>5, StoreInv
<1>3. CASE PutMsgid
  <2> DEFINE cell == HeaderCell(filling, FillingStride)
  <2>1. StoreInto("msgid", "payload", {Offset(FillingAt)}, cell) /\ filling' = filling
    BY <1>3 DEF PutMsgid
  <2>2. filling # 0
    BY <1>1, <2>1 DEF StoreInto
  <2>3. filling \in 1..MAX_MSGS /\ FillingStride \in 1..SLOT_SIZE
    BY <2>2, FillingFacts
  <2>4. cell \in Headers /\ cell.stride = FillingStride /\ cell.id = filling
    BY <2>3 DEF HeaderCell, Headers, Garbage
  <2> HIDE DEF cell
  <2> QED BY <2>1, <2>4, StoreInv
<1>4. CASE PutPayload
  <2> DEFINE cell == PayloadCell(filling)
  <2>1. StoreInto("payload", "none", PayloadOf(FillingAt, FillingStride), cell) /\ filling' = 0
    BY <1>4 DEF PutPayload
  <2>2. filling # 0
    BY <1>1, <2>1 DEF StoreInto
  <2>3. filling \in 1..MAX_MSGS
    BY <2>2, FillingFacts
  <2>4. cell \in Headers
    BY <2>3 DEF PayloadCell, Headers, Garbage
  <2> QED BY <2>1, <2>4, StoreInv
<1> QED BY <1>2, <1>3, <1>4

(* A client that is done with a message keeps the invariant.               *)
LEMMA LetGoInv ==
  ASSUME SlotsIInv, LetGo
  PROVE  SlotsIInv'
<1>1. /\ Stream("arm") /\ Stream("vc") /\ Shapes /\ Records /\ FillingSound /\ EventsSound
      /\ HeldSound(held, mem["vc"], starts["vc"], tx_pos["vc"])
  BY DEF SlotsIInv
<1>2. /\ held' \subseteq held
      /\ mem' = mem /\ starts' = starts /\ tx_pos' = tx_pos /\ rx_pos' = rx_pos
      /\ slot_queue' = slot_queue /\ slot_queue_recycle' = slot_queue_recycle
      /\ UNCHANGED <<slot_queue_available, filling, next_store, taken, adrift, eventVars>>
  BY DEF LetGo, streamVars, sendVars
<1>3. HeldSound(held, mem["vc"], starts["vc"], tx_pos["vc"])'
  BY <1>1, <1>2 DEF HeldSound
<1>4. Stream("arm")' /\ Stream("vc")'
  BY <1>1, <1>2 DEF Stream
<1>5. FillingSound' /\ Shapes' /\ EventsSound'
  BY <1>1, <1>2 DEF FillingSound, Shapes, EventsSound, eventVars
<1>6. Records'
  BY <1>1, <1>2 DEF Records, ReceivedInOrder, ReadInOrder
<1> QED BY <1>3, <1>4, <1>5, <1>6 DEF SlotsIInv

(* A reader takes the next message.                                        *)
LEMMA TakeSide ==
  ASSUME NEW s \in Sides, SlotsIInv, rx_pos[s] # tx_pos[s], NEW next,
         next = NextPlace(mem[s], starts[s], tx_pos[s], Len(taken[s])),
         rx_pos' = [rx_pos EXCEPT ![s] = next], ReleaseSlot(s, rx_pos[s], next),
         NEW x, taken' = [taken EXCEPT ![s] = Append(@, x)],
         UNCHANGED <<mem, starts, tx_pos, sendVars>>
  PROVE  Stream("arm")' /\ Stream("vc")' /\ Shapes'
<1> DEFINE g == Len(taken[s])
           f == FillingOf(s)
           v == StoreOf(s)
           a == Index(rx_pos[s])
           b == Index(next)
           q == Given(slot_queue[s], slot_queue_recycle[s], a, b)
           rec == Recycled(slot_queue_recycle[s], a, b)
<1>1. Stream("arm") /\ Stream("vc") /\ Stream(s) /\ Shapes /\ Records
  BY DEF SlotsIInv, Sides
<1>2. g < Len(starts[s]) /\ g \in Nat
  BY <1>1, StreamFacts
<1>3. StreamSound(mem[s], starts[s], tx_pos[s], rx_pos[s], slot_queue[s],
                  slot_queue_recycle[s], g, f, v)
  BY <1>1 DEF Stream, FillingOf, StoreOf
<1>4. /\ b \in {a, a + 1} /\ next \in Nat
      /\ StreamSound(mem[s], starts[s], tx_pos[s], next, q, rec, g + 1, f, v)
  <2>1. f \in {0, Len(starts[s])}
    BY DEF SlotsIInv, FillingSound, FillingOf
  <2> QED BY <1>2, <1>3, <2>1, TakeStream
<1>5. /\ slot_queue' = [slot_queue EXCEPT ![s] = q]
      /\ slot_queue_recycle' = [slot_queue_recycle EXCEPT ![s] = rec]
  BY <1>1, <1>4, ReleaseInTurn
<1> HIDE DEF q, rec, f, v
<1>6. /\ slot_queue'[s] = q /\ slot_queue_recycle'[s] = rec /\ rx_pos'[s] = next /\ Shapes'
      /\ \A t \in Sides : t # s =>
           /\ slot_queue'[t] = slot_queue[t] /\ slot_queue_recycle'[t] = slot_queue_recycle[t]
           /\ rx_pos'[t] = rx_pos[t]
  BY <1>1, <1>5 DEF Shapes
<1>7. /\ taken'[s] = Append(taken[s], x) /\ \A t \in Sides : t # s => taken'[t] = taken[t]
  BY <1>1 DEF Records
<1>8. Len(taken'[s]) = g + 1
  <2>1. \E T : taken[s] \in Seq(T)
    BY <1>1 DEF Records, Sides
  <2>2. PICK T : taken[s] \in Seq(T)
    BY <2>1
  <2>3. taken[s] \in Seq(T \cup {x}) /\ x \in T \cup {x}
    BY <2>2
  <2> QED BY <1>7, <2>3
<1>9. Stream(s)'
  BY <1>4, <1>6, <1>8 DEF Stream, f, v, FillingOf, StoreOf, sendVars
<1>10. ASSUME NEW t \in Sides, t # s PROVE Stream(t)'
  <2>1. Stream(t)
    BY <1>1 DEF Sides
  <2> QED BY <1>6, <1>7, <1>10, <2>1, StreamKept DEF sendVars
<1>11. "arm" \in Sides /\ "vc" \in Sides
  BY DEF Sides
<1> QED BY <1>6, <1>9, <1>10, <1>11

(* One message taken by vchiq_parse_rx keeps the invariant.                *)
LEMMA ReceiveInv ==
  ASSUME SlotsIInv, Receive
  PROVE  SlotsIInv'
<1> DEFINE s == "vc"
           g == Len(taken[s])
           to == starts[s][g + 1]
           d == HeaderIn(mem[s], to).stride
           next == to + d
           x == [id |-> g + 1, slot |-> Turn(Index(to)), at |-> to, stride |-> d]
<1>1. /\ Stream(s) /\ Shapes /\ Records /\ FillingSound /\ EventsSound /\ s \in Sides
      /\ HeldSound(held, mem[s], starts[s], tx_pos[s])
  BY DEF SlotsIInv, Sides
<1>2. rx_pos[s] # tx_pos[s]
  BY DEF Receive
<1>3. g < Len(starts[s]) /\ g \in 0..Len(starts[s]) /\ starts[s] \in Seq(Nat) /\ g + 1 \in Nat
      /\ g + 1 \in 1..Len(starts[s]) /\ g + 1 # 0
  <2>1. g < Len(starts[s]) /\ g \in 0..Len(starts[s])
    BY <1>1, <1>2, StreamFacts
  <2>2. starts[s] \in Seq(Nat)
    BY <1>1 DEF Stream, StreamSound, StartsSound
  <2> QED BY <2>1, <2>2
<1>4. /\ to \in Nat /\ SlotAt(s, to) = Turn(Index(to)) /\ Header(s, to) = HeaderIn(mem[s], to)
      /\ NextHeader(s) = to /\ HeaderIn(mem[s], to).id = g + 1 /\ d \in Strides
      /\ next = NextPlace(mem[s], starts[s], tx_pos[s], g)
  <2>1. g + 1 # FillingOf(s)
    BY <1>3 DEF FillingOf
  <2> QED BY <1>1, <1>2, <2>1, NextInTurn
<1>5. /\ taken' = [taken EXCEPT ![s] = Append(@, g + 1)]
      /\ held' = held \cup {x}
      /\ rx_pos' = [rx_pos EXCEPT ![s] = next]
      /\ ReleaseSlot(s, rx_pos[s], next)
      /\ UNCHANGED <<mem, starts, tx_pos, slot_queue_available, sendVars, adrift, eventVars>>
  BY <1>4 DEF Receive
<1>6. HeldSound(held \cup {x}, mem[s], starts[s], tx_pos[s])
  <2>1. /\ x.id = g + 1 /\ x.at = to /\ x.slot = Turn(Index(to)) /\ x.stride = d /\ d \in Nat
        /\ x = [id |-> x.id, slot |-> x.slot, at |-> x.at, stride |-> x.stride]
    BY <1>4, StrideFacts
  <2> HIDE DEF x
  <2> QED BY <1>1, <1>3, <2>1 DEF HeldSound
<1> HIDE DEF x, next
<1>7. Stream("arm")' /\ Stream("vc")' /\ Shapes'
  BY <1>1, <1>2, <1>4, <1>5, TakeSide
<1>8. /\ taken'[s] \in Seq(Nat) /\ Len(taken'[s]) = g + 1 /\ taken'[s][g + 1] = g + 1
      /\ \A i \in 1..g : taken'[s][i] = taken[s][i]
      /\ taken'["arm"] = taken["arm"] /\ taken' = [t \in Sides |-> taken'[t]]
  <2>1. taken'[s] = Append(taken[s], g + 1) /\ taken'["arm"] = taken["arm"]
        /\ taken' = [t \in Sides |-> taken'[t]]
    BY <1>1, <1>5 DEF Records, Sides
  <2>2. taken[s] \in Seq(Nat)
    BY <1>1 DEF Records
  <2> QED BY <1>3, <2>1, <2>2
<1>9. Records'
  <2>1. ReceivedInOrder'
    <3>1. ASSUME NEW i \in 1..Len(taken'[s]) PROVE taken'[s][i] = i
      <4>1. CASE i = g + 1
        BY <1>8, <4>1
      <4>2. CASE i \in 1..g
        BY <1>1, <1>8, <4>2 DEF Records, ReceivedInOrder
      <4> QED BY <1>3, <1>8, <4>1, <4>2
    <3> QED BY <3>1 DEF ReceivedInOrder
  <2>2. ReadInOrder'
    BY <1>1, <1>8 DEF Records, ReadInOrder
  <2> QED BY <1>1, <1>8, <2>1, <2>2 DEF Records
<1>10. HeldSound(held, mem["vc"], starts["vc"], tx_pos["vc"])'
  BY <1>5, <1>6
<1>11. FillingSound' /\ EventsSound'
  BY <1>1, <1>5 DEF FillingSound, EventsSound, eventVars, sendVars
<1> QED BY <1>7, <1>9, <1>10, <1>11 DEF SlotsIInv

(* One message taken by the VideoCore keeps the invariant, and so does     *)
(* losing its place.                                                       *)
LEMMA VcReceiveInv ==
  ASSUME SlotsIInv, VcReceive
  PROVE  SlotsIInv'
<1> DEFINE s == "arm"
           g == Len(taken[s])
           to == starts[s][g + 1]
           torn == filling = g + 1
           m == mem[s]
           cell == HeaderIn(m, to)
<1>1. /\ Stream(s) /\ Shapes /\ Records /\ FillingSound /\ EventsSound /\ s \in Sides
      /\ HeldSound(held, mem["vc"], starts["vc"], tx_pos["vc"])
  BY DEF SlotsIInv, Sides
<1>2. rx_pos[s] # tx_pos[s]
  BY DEF VcReceive
<1>3. /\ to \in Nat /\ Header(s, to) = cell
      /\ filling # g + 1 => /\ NextHeader(s) = to /\ cell.id = g + 1 /\ cell.stride \in Strides
                            /\ to + cell.stride = NextPlace(m, starts[s], tx_pos[s], g)
  BY <1>1, <1>2, NextInTurn DEF FillingOf
<1>4. g \in Nat
  BY <1>1 DEF Records
<1>5. torn => FillingAt = to /\ tx_pos[s] = NextPlace(m, starts[s], tx_pos[s], g)
  <2> SUFFICES ASSUME torn PROVE FillingAt = to /\ tx_pos[s] = NextPlace(m, starts[s], tx_pos[s], g)
    OBVIOUS
  <2>1. g + 1 = Len(starts[s])
    BY <1>1, <1>4 DEF FillingSound
  <2> QED BY <2>1 DEF FillingAt, NextPlace
<1>6. cell \in Headers
  <2>1. Turn(Index(to)) \in Slots /\ Offset(to) \in Offsets
    BY <1>3, PlaceFacts, TurnFacts
  <2>2. m \in Memories
    BY <1>1 DEF Stream, StreamSound, MemorySound
  <2> HIDE DEF m, to
  <2> QED BY <2>1, <2>2 DEF Memories, HeaderIn
<1>7. (IF torn THEN FillingAt ELSE NextHeader(s)) = to
  BY <1>3, <1>5
<1>8. PICK h \in MayRead(to) :
        LET next == to + h.stride IN
        IF torn /\ (h.id = Padding \/ next # tx_pos[s])
          THEN adrift' = TRUE /\ UNCHANGED <<taken, rx_pos, slot_queue, slot_queue_recycle, ringing>>
          ELSE /\ taken' = [taken EXCEPT ![s] = Append(@, [id |-> h.id, torn |-> torn])]
               /\ rx_pos' = [rx_pos EXCEPT ![s] = next]
               /\ ReleaseSlot(s, rx_pos[s], next)
               /\ ringing' = [ringing EXCEPT !["recycle"] =
                                IF SlotAt(s, next) = SlotAt(s, rx_pos[s]) THEN "no" ELSE "fire"]
               /\ UNCHANGED adrift
  BY <1>7 DEF VcReceive
<1>9. UNCHANGED <<mem, starts, tx_pos, slot_queue_available, sendVars, held,
                  armed, fired, waitflag, bell, thread_pc>>
  BY DEF VcReceive
<1> DEFINE next == to + h.stride
           x == [id |-> h.id, torn |-> torn]
<1>10. CASE torn /\ (h.id = Padding \/ next # tx_pos[s])
  <2>1. adrift' = TRUE /\ UNCHANGED <<taken, rx_pos, slot_queue, slot_queue_recycle, ringing>>
    BY <1>8, <1>10
  <2>2. UNCHANGED <<streamVars, sendVars, taken, held>>
    BY <1>9, <2>1 DEF streamVars
  <2>3. EventsSound'
    BY <1>1, <1>9, <2>1 DEF EventsSound
  <2> QED BY <2>2, <2>3, QuietStep
<1>11. CASE ~(torn /\ (h.id = Padding \/ next # tx_pos[s]))
  <2>1. /\ taken' = [taken EXCEPT ![s] = Append(@, x)]
        /\ rx_pos' = [rx_pos EXCEPT ![s] = next]
        /\ ReleaseSlot(s, rx_pos[s], next)
        /\ ringing' = [ringing EXCEPT !["recycle"] =
                         IF SlotAt(s, next) = SlotAt(s, rx_pos[s]) THEN "no" ELSE "fire"]
        /\ UNCHANGED adrift
    BY <1>8, <1>11
  <2>2. ringing' \in [Events -> {"no", "fire", "ring"}]
    BY <1>1, <2>1 DEF EventsSound
  <2>3. h.id \in Nat /\ (torn \/ h = cell)
    <3>1. ~torn => h = cell
      <4> SUFFICES ASSUME ~torn PROVE h = cell
        OBVIOUS
      <4>1. cell.id # Garbage /\ cell.stride # 0
        <5>1. cell.stride \in Nat /\ cell.stride > 0
          BY <1>3, StrideFacts
        <5> QED BY <1>3, <1>4, <5>1 DEF Garbage
      <4> HIDE DEF cell
      <4> QED BY <1>3, <4>1 DEF MayRead, IsPayload
    <3>2. h.id \in Nat
      <4> HIDE DEF cell
      <4>1. MAX_MSGS \in Nat
        OBVIOUS
      <4> QED BY <1>3, <1>6, <4>1 DEF MayRead, Headers, Garbage
    <3> QED BY <3>1, <3>2
  <2>4. next = NextPlace(m, starts[s], tx_pos[s], g)
    BY <1>3, <1>5, <1>11, <2>3
  <2>5. x \in [id : Nat, torn : BOOLEAN] /\ (x.torn \/ x.id = g + 1)
    BY <1>3, <2>3
  <2> HIDE DEF x, next
  <2>6. Stream("arm")' /\ Stream("vc")' /\ Shapes'
    BY <1>1, <1>2, <1>9, <2>1, <2>4, TakeSide
  <2>7. /\ taken'[s] \in Seq([id : Nat, torn : BOOLEAN]) /\ Len(taken'[s]) = g + 1
        /\ taken'[s][g + 1] = x /\ \A i \in 1..g : taken'[s][i] = taken[s][i]
        /\ taken'["vc"] = taken["vc"] /\ taken' = [t \in Sides |-> taken'[t]]
    <3>1. taken'[s] = Append(taken[s], x) /\ taken'["vc"] = taken["vc"]
          /\ taken' = [t \in Sides |-> taken'[t]]
      BY <1>1, <2>1 DEF Records, Sides
    <3>2. taken[s] \in Seq([id : Nat, torn : BOOLEAN])
      BY <1>1 DEF Records
    <3> DEFINE T == [id : Nat, torn : BOOLEAN]
    <3>3. taken[s] \in Seq(T) /\ x \in T
      BY <2>5, <3>2
    <3> HIDE DEF T
    <3>4. /\ taken'[s] \in Seq(T) /\ Len(taken'[s]) = g + 1
          /\ taken'[s][g + 1] = x /\ \A i \in 1..g : taken'[s][i] = taken[s][i]
      BY <3>1, <3>3
    <3> QED BY <3>1, <3>4 DEF T
  <2>8. Records'
    <3>1. ReadInOrder'
      <4>1. ASSUME NEW i \in 1..Len(taken'[s]) PROVE taken'[s][i].torn \/ taken'[s][i].id = i
        <5>1. CASE i = g + 1
          BY <2>5, <2>7, <5>1
        <5>2. CASE i \in 1..g
          BY <1>1, <2>7, <5>2 DEF Records, ReadInOrder
        <5> QED BY <1>4, <2>7, <5>1, <5>2
      <4> QED BY <4>1 DEF ReadInOrder
    <3>2. ReceivedInOrder'
      BY <1>1, <2>7 DEF Records, ReceivedInOrder
    <3> QED BY <1>1, <2>7, <3>1, <3>2 DEF Records
  <2>9. HeldSound(held, mem["vc"], starts["vc"], tx_pos["vc"])'
    BY <1>1, <1>9
  <2>10. FillingSound' /\ EventsSound'
    BY <1>1, <1>9, <2>1, <2>2 DEF FillingSound, EventsSound, sendVars
  <2> QED BY <2>6, <2>8, <2>9, <2>10 DEF SlotsIInv
<1> QED BY <1>10, <1>11

----------------------------------------------------------------------------
(* The theorems.                                                           *)

(* vchiq_init_slots sets the invariant up: every slot is in the queue.     *)
LEMMA SlotsInitInv == SlotsInit => SlotsIInv
<1> SUFFICES ASSUME SlotsInit PROVE SlotsIInv
  OBVIOUS
<1> DEFINE m == [n \in Slots |-> [o \in Offsets |-> HeaderCell(Padding, 1)]]
           q == [i \in 0..(QUEUE - 1) |-> IF i < SLOTS THEN i + 1 ELSE 0]
<1>1. /\ mem = [s \in Sides |-> m] /\ starts = [s \in Sides |-> << >>]
      /\ tx_pos = [s \in Sides |-> 0] /\ rx_pos = [s \in Sides |-> 0]
      /\ slot_queue = [s \in Sides |-> q] /\ slot_queue_recycle = [s \in Sides |-> SLOTS]
      /\ taken = [s \in Sides |-> << >>] /\ held = {} /\ filling = 0
      /\ next_store = "none" /\ adrift = FALSE
  BY DEF SlotsInit
<1>2. MemorySound(m)
  <2>1. HeaderCell(Padding, 1) \in Headers
    BY DEF Padding, HeaderCell, Headers, Garbage
  <2>2. \A n \in Slots, o \in Offsets : o + m[n][o].stride <= SLOT_SIZE
    BY DEF Offsets, HeaderCell
  <2> QED BY <2>1, <2>2 DEF MemorySound, Memories
<1>3. StartsSound(<< >>, 0) /\ ReaderSound(<< >>, 0, 0, 0) /\ SlotsBegun(<< >>)
  BY DEF StartsSound, ReaderSound, SlotsBegun
<1>4. Index(0) = 0
  <2>1. 0 = 0 * SLOT_SIZE + 0 /\ 0 \in Nat /\ 0 \in 0..(SLOT_SIZE - 1)
    OBVIOUS
  <2>2. (0 * SLOT_SIZE + 0) \div SLOT_SIZE = 0
    BY <2>1, PartsOf
  <2> QED BY <2>1, <2>2 DEF Index
<1>5. QueueSound(q, SLOTS, 0)
  <2>1. q \in [0..(QUEUE - 1) -> 0..SLOTS]
    OBVIOUS
  <2>2. ASSUME NEW i \in 0..(SLOTS - 1) PROVE Entry(i) = i /\ Turn(i) = i + 1
    <3>1. 0 * QUEUE + i = i /\ 0 * SLOTS + i = i /\ i \in 0..(QUEUE - 1) /\ QUEUE \in Nat \ {0}
          /\ SLOTS \in Nat \ {0} /\ 0 \in Nat
      OBVIOUS
    <3>2. (0 * QUEUE + i) % QUEUE = i /\ (0 * SLOTS + i) % SLOTS = i
      BY <3>1, PartsOf
    <3> QED BY <3>1, <3>2 DEF Entry, Turn
  <2>3. ASSUME NEW i \in 0..(SLOTS - 1) PROVE q[i] = i + 1 /\ i + 1 \in Slots
    BY DEF Slots
  <2> HIDE DEF q
  <2> QED BY <1>4, <2>1, <2>2, <2>3 DEF QueueSound
<1>6. HeadersSound(m, << >>, 0, 0, 0, 0, "none")
  BY DEF HeadersSound
<1>7. StreamSound(m, << >>, 0, 0, q, SLOTS, 0, 0, "none")
  BY <1>2, <1>3, <1>5, <1>6 DEF StreamSound
<1> HIDE DEF m, q
<1>8. Stream("arm") /\ Stream("vc")
  BY <1>1, <1>7 DEF Stream, Sides
<1>9. HeldSound(held, mem["vc"], starts["vc"], tx_pos["vc"])
  BY <1>1 DEF HeldSound, Sides
<1>10. FillingSound /\ Shapes
  BY <1>1 DEF FillingSound, Shapes
<1>11. Records
  BY <1>1 DEF Records, ReceivedInOrder, ReadInOrder, Sides
<1>12. slot_queue_available \in Nat /\ slot_queue_available >= SLOTS
  BY DEF SlotsInit
<1>13. EventsSound
  BY <1>12 DEF SlotsInit, EventsSound
<1> QED BY <1>8, <1>9, <1>10, <1>11, <1>13 DEF SlotsIInv

(* Every step of the ARM or the VideoCore keeps the invariant.             *)
LEMMA SlotsStepInv ==
  ASSUME CallersWait, SlotsIInv, [SlotsNext]_slotsVars
  PROVE  SlotsIInv'
<1>1. ASSUME NEW n \in Strides, Prep(n) PROVE SlotsIInv'
  BY <1>1, PrepInv
<1>2. ASSUME NEW n \in Strides, VcSend(n) PROVE SlotsIInv'
  BY <1>2, VcSendInv
<1>3. CASE PutSize \/ PutMsgid \/ PutPayload
  BY <1>3, FillInv
<1>4. CASE LetGo
  BY <1>4, LetGoInv
<1>5. CASE Receive
  BY <1>5, ReceiveInv
<1>6. CASE VcReceive
  BY <1>6, VcReceiveInv
<1>7. CASE \/ \E e \in Events : EventWait(e) \/ VcFire(e) \/ VcRing(e)
           \/ VchiqIrq \/ LoopAgain \/ WalkSlot \/ RecycleAgain
  BY <1>7, QuietActions
<1>8. CASE UNCHANGED slotsVars
  <2>1. UNCHANGED <<streamVars, sendVars, taken, held>> /\ EventsSound'
    BY <1>8 DEF slotsVars, eventVars, readVars, SlotsIInv, EventsSound
  <2> QED BY <2>1, QuietStep
<1>9. "trigger" \in Events /\ "recycle" \in Events
  BY DEF Events
<1> QED BY <1>1, <1>2, <1>3, <1>4, <1>5, <1>6, <1>7, <1>8, <1>9
        DEF SlotsNext, LoopThread, RecycleThread

(* Whatever the number and size of the slots and the length of the         *)
(* messages, the slots of both sides are used in turn, and in the slots    *)
(* not entered again the messages are intact and lead one to the next.     *)
THEOREM SlotsInvariance == ASSUME CallersWait PROVE SlotsSpec => []SlotsIInv
<1>1. SlotsInit => SlotsIInv
  BY SlotsInitInv
<1>2. SlotsIInv /\ [SlotsNext]_slotsVars => SlotsIInv'
  BY SlotsStepInv
<1> QED BY <1>1, <1>2, PTL DEF SlotsSpec

(* What a client holds is found where it points to, until the slot is      *)
(* entered again.                                                          *)
LEMMA HeldIsIntact == SlotsIInv => HeldIntact
<1> SUFFICES ASSUME SlotsIInv, NEW x \in held,
                    tx_pos["vc"] <= (x.at \div SLOT_SIZE + SLOTS) * SLOT_SIZE
             PROVE  IsIntact(x)
  BY DEF HeldIntact
<1> DEFINE m == mem["vc"]
           st == starts["vc"]
           tx == tx_pos["vc"]
           a == x.at
           d == x.stride
<1>1. /\ x.id \in 1..Len(st) /\ a = st[x.id] /\ x.slot = Turn(Index(a)) /\ d \in Nat
      /\ Standing(a, tx) => HeaderIn(m, a).stride = d
  BY DEF SlotsIInv, HeldSound
<1>2. /\ MemorySound(m) /\ st \in Seq(Nat)
      /\ HeadersSound(m, st, tx, rx_pos["vc"], Len(taken["vc"]), 0, "none")
  BY DEF SlotsIInv, Stream, StreamSound, StartsSound
<1>3. Standing(a, tx)
  BY DEF Standing, Index
<1>4. Linked(m, st, tx, x.id) /\ Complete(m, st, x.id) /\ HeaderIn(m, a).stride = d /\ a \in Nat
  BY <1>1, <1>2, <1>3 DEF HeadersSound
<1>5. /\ d \in Strides /\ HeaderIn(m, a).id = x.id
      /\ \A p \in Behind(a, d) : HeaderIn(m, p) = PayloadCell(x.id)
  BY <1>1, <1>4 DEF Linked, Complete
<1> HIDE DEF a, d, m, st, tx
<1>6. d > 0 /\ d <= SlotSpace(a)
  BY <1>2, <1>4, <1>5, LinkedFacts
<1>7. /\ \A p \in a..(a + d - 1) : p \in Nat /\ Index(p) = Index(a) /\ Offset(p) = Offset(a) + (p - a)
      /\ Offset(a) \in Offsets
  BY <1>1, <1>4, <1>6, MessagePlaces
<1>8. HeaderIn(m, a) = HeaderCell(x.id, d)
  <2>1. Turn(Index(a)) \in Slots
    BY <1>4, PlaceFacts, TurnFacts
  <2>2. HeaderIn(m, a) \in Headers
    BY <1>2, <1>7, <2>1 DEF MemorySound, Memories, HeaderIn
  <2> QED BY <1>4, <1>5, <2>2 DEF Headers, HeaderCell
<1>9. ASSUME NEW o \in 0..(d - 1)
      PROVE  m[x.slot][Offset(a) + o] =
               IF o = 0 THEN HeaderCell(x.id, d) ELSE PayloadCell(x.id)
  <2> DEFINE p == a + o
  <2>1. p \in a..(a + d - 1) /\ p - a = o /\ (o # 0 => p \in Behind(a, d))
    BY <1>1, <1>4 DEF Behind
  <2>2. Index(p) = Index(a) /\ Offset(p) = Offset(a) + o
    BY <1>7, <2>1
  <2>3. HeaderIn(m, p) = m[x.slot][Offset(a) + o]
    BY <1>1, <2>2 DEF HeaderIn
  <2>4. CASE o = 0
    <3>1. p = a
      BY <1>4, <2>4
    <3> QED BY <1>8, <2>3, <2>4, <3>1
  <2>5. CASE o # 0
    BY <1>5, <2>1, <2>3, <2>5
  <2> QED BY <2>4, <2>5
<1> QED BY <1>9 DEF IsIntact, a, d, m

(* Both sides take the messages in the order they were sent, none twice    *)
(* and none skipped, one the ARM is still writing excepted, and a message  *)
(* a client points to stays until the VideoCore enters its slot again, for *)
(* any number and size of slots.                                           *)
THEOREM MessagesAlwaysInOrder == ASSUME CallersWait PROVE SlotsSpec => []MessagesInOrder
<1>1. SlotsIInv => MessagesInOrder
  BY HeldIsIntact DEF SlotsIInv, Records, MessagesInOrder
<1>2. SlotsSpec => []SlotsIInv
  BY SlotsInvariance
<1> QED BY <1>1, <1>2, PTL

(* As many turns as there are slots meet every slot.                       *)
LEMMA TurnsCover ==
  ASSUME NEW k \in Nat, NEW n \in Slots
  PROVE  \E i \in k..(k + SLOTS - 1) : Turn(i) = n
<1> DEFINE a == k \div SLOTS
           o == k % SLOTS
           u == n - 1
<1>1. a \in Nat /\ o \in 0..(SLOTS - 1) /\ k = a * SLOTS + o /\ SLOTS \in Nat \ {0}
  <2>1. SLOTS \in Nat \ {0}
    OBVIOUS
  <2> QED BY <2>1, Parts
<1>2. u \in 0..(SLOTS - 1) /\ u + 1 = n
  BY DEF Slots
<1> HIDE DEF a, o, u
<1>3. CASE o <= u
  <2>1. a * SLOTS + u \in k..(k + SLOTS - 1)
    BY <1>1, <1>2, <1>3
  <2>2. (a * SLOTS + u) % SLOTS = u
    BY <1>1, <1>2, PartsOf
  <2> QED BY <1>2, <2>1, <2>2 DEF Turn
<1>4. CASE u < o
  <2> DEFINE b == a + 1
  <2>1. b \in Nat /\ b * SLOTS = a * SLOTS + SLOTS /\ a * SLOTS \in Nat
    BY <1>1
  <2> HIDE DEF b
  <2>2. b * SLOTS + u \in k..(k + SLOTS - 1)
    BY <1>1, <1>2, <1>4, <2>1
  <2>3. (b * SLOTS + u) % SLOTS = u
    BY <1>1, <1>2, <2>1, PartsOf
  <2> QED BY <1>2, <2>2, <2>3 DEF Turn
<1> QED BY <1>1, <1>2, <1>3, <1>4

(* From the slot the reader is in to the last one given back every slot is *)
(* in the queue once.                                                      *)
LEMMA ConservedSlots == SlotsIInv => SlotsConserved
<1> SUFFICES ASSUME SlotsIInv, NEW s \in Sides
             PROVE  LET ahead == (rx_pos[s] \div SLOT_SIZE)..(slot_queue_recycle[s] - 1)
                    IN  /\ {slot_queue[s][i % QUEUE] : i \in ahead} = Slots
                        /\ \A i, j \in ahead :
                             slot_queue[s][i % QUEUE] = slot_queue[s][j % QUEUE] => i = j
  BY DEF SlotsConserved
<1> DEFINE k == Index(rx_pos[s])
           ahead == k..(slot_queue_recycle[s] - 1)
<1>1. Stream(s)
  BY DEF SlotsIInv, Sides
<1>2. k \in Nat
  BY <1>1, StreamFacts
<1>3. slot_queue_recycle[s] = k + SLOTS
  BY <1>1 DEF Stream, StreamSound, QueueSound
<1>4. ASSUME NEW i \in ahead
      PROVE  slot_queue[s][i % QUEUE] = Turn(i) /\ i \in Nat /\ k <= i /\ i < k + SLOTS
  <2>1. i \in 0..(slot_queue_recycle[s] - 1) /\ k <= i + 1 /\ i \in Nat /\ k <= i /\ i < k + SLOTS
    BY <1>2, <1>3
  <2>2. slot_queue[s][Entry(i)] = Turn(i)
    BY <1>1, <2>1 DEF Stream, StreamSound, QueueSound
  <2> QED BY <2>1, <2>2 DEF Entry
<1>5. ASSUME NEW i \in k..(k + SLOTS - 1)
      PROVE  i \in ahead
  <2> HIDE DEF k
  <2>1. i \in k..(slot_queue_recycle[s] - 1)
    BY <1>2, <1>3, <1>5, SlotsAssumption
  <2> QED BY <2>1
<1> HIDE DEF ahead
<1>6. \A i \in ahead : Turn(i) \in Slots
  BY <1>4, TurnFacts
<1>7. \A n \in Slots : \E i \in ahead : Turn(i) = n
  BY <1>2, <1>5, TurnsCover
<1>8. {slot_queue[s][i % QUEUE] : i \in ahead} = Slots
  BY <1>4, <1>6, <1>7
<1>9. ASSUME NEW i \in ahead, NEW j \in ahead, slot_queue[s][i % QUEUE] = slot_queue[s][j % QUEUE]
      PROVE  i = j
  <2>1. /\ i \in Nat /\ k <= i /\ i < k + SLOTS /\ j \in Nat /\ k <= j /\ j < k + SLOTS
        /\ Turn(i) = Turn(j)
    BY <1>4, <1>9
  <2>2. ~(i < j)
    BY <1>2, <2>1, TurnsDiffer
  <2>3. ~(j < i)
    BY <1>2, <2>1, TurnsDiffer
  <2> QED BY <2>1, <2>2, <2>3
<1> QED BY <1>8, <1>9 DEF ahead, Index

(* The last byte sent is in a slot that has been given back.               *)
LEMMA WrittenIsFree == SlotsIInv => WritesFreeSlots
<1> SUFFICES ASSUME SlotsIInv, tx_pos["arm"] > 0
             PROVE  (tx_pos["arm"] - 1) \div SLOT_SIZE < slot_queue_recycle["arm"]
  BY DEF WritesFreeSlots
<1> DEFINE st == starts["arm"]
           n == Len(st)
           tx == tx_pos["arm"]
           rx == rx_pos["arm"]
           g == Len(taken["arm"])
           p == tx - 1
<1>1. Stream("arm") /\ "arm" \in Sides
  BY DEF SlotsIInv, Sides
<1>2. /\ tx \in Nat /\ rx \in Nat /\ n \in Nat /\ g \in 0..n /\ Index(rx) \in Nat /\ p \in Nat
      /\ (g < n <=> rx # tx)
  BY <1>1, StreamFacts
<1>3. slot_queue_recycle["arm"] = Index(rx) + SLOTS
  BY <1>1 DEF Stream, StreamSound, QueueSound
<1> HIDE DEF p
<1>4. CASE g = n
  <2>1. p <= rx
    BY <1>2, <1>4 DEF p
  <2>2. Index(p) <= Index(rx) /\ Index(p) \in Nat
    BY <1>2, <2>1, IndexGrows, PlaceFacts
  <2> QED BY <1>2, <1>3, <2>2 DEF Index, p
<1>5. CASE g < n
  <2>1. n \in (g + 1)..n /\ n \in 1..n /\ n > 0
    BY <1>2, <1>5
  <2>2. /\ st \in Seq(Nat) /\ st[n] < tx /\ tx <= SlotEnd(st[n])
        /\ Index(st[n]) < Index(rx) + SLOTS
    BY <1>1, <2>1 DEF Stream, StreamSound, StartsSound, HeadersSound
  <2>3. st[n] \in Nat
    BY <2>1, <2>2
  <2>4. SlotEnd(st[n]) \in Nat
    BY <2>3, PlaceFacts
  <2>5. st[n] <= p /\ p < SlotEnd(st[n])
    BY <1>2, <2>2, <2>3, <2>4 DEF p
  <2>6. Index(p) = Index(st[n])
    BY <1>2, <2>3, <2>4, <2>5, WithinSlot
  <2> QED BY <1>3, <2>2, <2>6 DEF Index, p
<1> QED BY <1>2, <1>4, <1>5

(* In a slot the reader has left and the writer has not entered again the  *)
(* places of messages and of padding lead from one to the next and to the  *)
(* end.                                                                    *)
LEMMA WalkedPlaces ==
  ASSUME NEW m, NEW st, NEW tx, NEW rx, NEW q, NEW rec, NEW g,
         StreamSound(m, st, tx, rx, q, rec, g, 0, "none"), rx <= tx,
         NEW k \in Nat, k < Index(rx), tx <= (k + SLOTS) * SLOT_SIZE
  PROVE  \E places \in SUBSET (0..SLOT_SIZE) :
           /\ 0 \in places
           /\ \A o \in places \ {SLOT_SIZE} :
                ~IsPayload(m[Turn(k)][o]) /\ o + m[Turn(k)][o].stride \in places
<1> DEFINE n == Len(st)
           z == k * SLOT_SIZE
           Meets(p) == \E j \in 1..n : /\ Index(st[j]) = k
                                       /\ p = st[j] \/ p = st[j] + HeaderIn(m, st[j]).stride
           places == {o \in 0..SLOT_SIZE : o = SLOT_SIZE \/ Meets(z + o)}
<1>1. /\ MemorySound(m) /\ StartsSound(st, tx) /\ SlotsBegun(st)
      /\ HeadersSound(m, st, tx, rx, g, 0, "none")
      /\ st \in Seq(Nat) /\ tx \in Nat /\ rx \in Nat /\ n \in Nat
      /\ n = 0 => tx = 0
      /\ n > 0 => st[n] < tx /\ tx <= SlotEnd(st[n])
      /\ \A i \in 1..n : st[i] \in Nat
  BY DEF StreamSound, StartsSound, ReaderSound
<1>2. z \in Nat /\ Index(rx) \in Nat /\ Index(tx) \in Nat /\ Index(rx) <= Index(tx)
  <2>1. z \in Nat
    OBVIOUS
  <2>2. Index(rx) \in Nat /\ Index(tx) \in Nat
    BY <1>1, PlaceFacts
  <2>3. Index(rx) <= Index(tx)
    BY <1>1, IndexGrows
  <2> QED BY <2>1, <2>2, <2>3
<1>3. ASSUME NEW o \in 0..(SLOT_SIZE - 1)
      PROVE  z + o \in Nat /\ Index(z + o) = k /\ Offset(z + o) = o /\ o \in Offsets
             /\ HeaderIn(m, z + o) = m[Turn(k)][o]
  <2>1. (k * SLOT_SIZE + o) \div SLOT_SIZE = k /\ (k * SLOT_SIZE + o) % SLOT_SIZE = o
    BY PartsOf
  <2>2. Index(z + o) = k /\ Offset(z + o) = o
    BY <2>1 DEF Index, Offset
  <2>3. z + o \in Nat /\ o \in Offsets
    BY <1>2 DEF Offsets
  <2> QED BY <2>2, <2>3 DEF HeaderIn
<1>4. ASSUME NEW j \in 1..n, Index(st[j]) = k
      PROVE  Linked(m, st, tx, j)
  <2>1. Standing(st[j], tx)
    BY <1>4 DEF Standing
  <2> QED BY <1>1, <1>4, <2>1 DEF HeadersSound
<1>5. Meets(z)
  <2>1. n > 0
    <3> SUFFICES ASSUME n = 0 PROVE FALSE
      BY <1>1
    <3>1. tx = 0 /\ rx = 0
      BY <1>1
    <3>2. Index(0) < 1
      BY <1>1, IndexBelow, SlotsAssumption
    <3> QED BY <1>2, <3>1, <3>2
  <2>2. n \in 1..n /\ st[n] \in Nat
    BY <1>1, <2>1
  <2>3. k <= Index(st[n]) /\ Index(st[n]) \in Nat
    <3> DEFINE a == st[n]
    <3>1. a \in Nat /\ a <= tx /\ tx <= SlotEnd(a)
      BY <1>1, <2>1, <2>2
    <3> HIDE DEF a
    <3>2. Index(tx) \in {Index(a), Index(a) + 1} /\ Index(a) \in Nat
      BY <1>1, <3>1, WithinSlot, PlaceFacts
    <3>3. k <= Index(a)
      BY <1>2, <3>2
    <3> QED BY <3>2, <3>3 DEF a
  <2>4. PICK j \in 1..n : st[j] = z
    BY <1>1, <2>1, <2>3 DEF SlotsBegun
  <2>5. 0 \in 0..(SLOT_SIZE - 1) /\ z + 0 = z
    BY <1>2
  <2>6. Index(z) = k
    BY <1>3, <2>5
  <2> QED BY <2>4, <2>6
<1> HIDE DEF z, n
<1>6. ASSUME NEW o \in 0..(SLOT_SIZE - 1), Meets(z + o)
      PROVE  /\ HeaderIn(m, z + o).stride \in Nat /\ HeaderIn(m, z + o).stride > 0
             /\ \/ o + HeaderIn(m, z + o).stride = SLOT_SIZE
                \/ Meets(z + (o + HeaderIn(m, z + o).stride))
  <2> DEFINE p == z + o
             c == HeaderIn(m, p).stride
  <2>1. p \in Nat /\ Index(p) = k /\ Offset(p) = o
    BY <1>3
  <2>2. ASSUME NEW j \in 1..n, Index(st[j]) = k, p = st[j]
        PROVE  c \in Nat /\ c > 0 /\ Meets(z + (o + c))
    <3>1. c \in Strides
      BY <1>4, <2>2 DEF Linked
    <3> HIDE DEF c
    <3>2. c \in Nat /\ c > 0
      BY <3>1, StrideFacts
    <3>3. z + (o + c) = st[j] + c
      BY <1>2, <2>2, <3>2
    <3> QED BY <2>2, <3>2, <3>3 DEF c
  <2>3. ASSUME NEW j \in 1..n, Index(st[j]) = k, p = st[j] + HeaderIn(m, st[j]).stride
        PROVE  /\ c \in Nat /\ c > 0
               /\ o + c = SLOT_SIZE \/ Meets(z + (o + c))
    <3>1. Linked(m, st, tx, j)
      BY <1>4, <2>3
    <3>2. CASE j = n
      <4>1. p = tx
        BY <2>3, <3>1, <3>2 DEF Linked, n
      <4> QED BY <1>2, <2>1, <4>1
    <3>3. CASE j # n
      <4>1. Leads(m, p, st[j + 1]) /\ j + 1 \in 1..n
        BY <1>1, <2>3, <3>1, <3>3 DEF Linked, n
      <4>2. CASE st[j + 1] = p
        BY <2>1, <2>2, <4>1, <4>2
      <4>3. CASE st[j + 1] # p
        <5>1. HeaderIn(m, p) = [id |-> Padding, stride |-> SlotSpace(p)]
          BY <4>1, <4>3 DEF Leads
        <5>2. c = SLOT_SIZE - o
          BY <2>1, <5>1 DEF SlotSpace
        <5> HIDE DEF c
        <5> QED BY <5>2
      <4> QED BY <4>2, <4>3
    <3> QED BY <3>2, <3>3
  <2> QED BY <1>6, <2>2, <2>3
<1> HIDE DEF Meets
<1>7. 0 \in places
  BY <1>2, <1>5
<1>8. ASSUME NEW o \in places \ {SLOT_SIZE}
      PROVE  ~IsPayload(m[Turn(k)][o]) /\ o + m[Turn(k)][o].stride \in places
  <2>1. o \in 0..(SLOT_SIZE - 1) /\ Meets(z + o)
    BY <1>8
  <2> DEFINE c == m[Turn(k)][o].stride
  <2>2. c \in Nat /\ c > 0 /\ (o + c = SLOT_SIZE \/ Meets(z + (o + c)))
    BY <1>3, <1>6, <2>1
  <2>3. o + c <= SLOT_SIZE
    <3>1. o \in Offsets /\ Turn(k) \in Slots
      BY <1>3, <2>1, TurnFacts
    <3> QED BY <1>1, <3>1 DEF MemorySound
  <2> HIDE DEF c
  <2>4. o + c \in places
    BY <2>1, <2>2, <2>3
  <2> QED BY <2>2, <2>4 DEF IsPayload, c
<1>9. places \in SUBSET (0..SLOT_SIZE)
  OBVIOUS
<1> HIDE DEF places
<1> QED BY <1>7, <1>8, <1>9

(* The walk of the recycle thread over a slot given back ends at its end,  *)
(* as long as the ARM has not entered the slot again.                      *)
LEMMA WalksEndAtSlotEnd == SlotsIInv => WalkEndsAtSlotEnd
<1> SUFFICES ASSUME SlotsIInv, filling = 0,
                    NEW i \in slot_queue_available..(slot_queue_recycle["arm"] - 1),
                    tx_pos["arm"] <= i * SLOT_SIZE
             PROVE  WalkEnds(slot_queue["arm"][i % QUEUE])
  BY DEF WalkEndsAtSlotEnd
<1> DEFINE rx == rx_pos["arm"]
           tx == tx_pos["arm"]
           rec == slot_queue_recycle["arm"]
           k == i - SLOTS
<1>1. /\ Stream("arm") /\ "arm" \in Sides
      /\ slot_queue_available \in Nat /\ slot_queue_available >= SLOTS
  BY DEF SlotsIInv, EventsSound, Sides
<1>2. /\ rx \in Nat /\ tx \in Nat /\ rx <= tx /\ Index(rx) \in Nat /\ Index(rx) <= Index(tx)
  BY <1>1, StreamFacts
<1>3. rec = Index(rx) + SLOTS
  BY <1>1 DEF Stream, StreamSound, QueueSound
<1> HIDE DEF rx, tx, rec
<1>4. i \in 0..(rec - 1) /\ i \in Nat /\ k \in Nat /\ k < Index(rx) /\ k + SLOTS = i
  <2>1. i \in slot_queue_available..(rec - 1)
    BY DEF rec
  <2> QED BY <1>1, <1>2, <1>3, <2>1
<1>5. Index(rx) <= i + 1
  <2>1. Index(rx) <= i
    <3> SUFFICES ASSUME i < Index(rx) PROVE FALSE
      BY <1>2, <1>4
    <3>1. SlotEnd(i * SLOT_SIZE) \in Nat /\ i * SLOT_SIZE \in Nat
      <4>1. i * SLOT_SIZE \in Nat
        BY <1>4
      <4> QED BY <4>1, PlaceFacts
    <3>2. tx <= i * SLOT_SIZE
      BY DEF tx
    <3>3. i + 1 \in Nat /\ i < i + 1
      BY <1>4
    <3>4. Index(rx) <= Index(i * SLOT_SIZE)
      <4>1. rx <= i * SLOT_SIZE
        BY <1>2, <3>1, <3>2
      <4> QED BY <1>2, <3>1, <4>1, IndexGrows
    <3>5. Index(i * SLOT_SIZE) = i
      <4>1. (i * SLOT_SIZE + 0) \div SLOT_SIZE = i
        BY <1>4, PartsOf
      <4>2. i * SLOT_SIZE + 0 = i * SLOT_SIZE
        BY <3>1
      <4> QED BY <4>1, <4>2 DEF Index
    <3> QED BY <1>2, <1>4, <3>4, <3>5
  <2> QED BY <1>2, <1>4, <2>1
<1>6. slot_queue["arm"][i % QUEUE] = Turn(k)
  <2>1. slot_queue["arm"][Entry(i)] = Turn(i)
    BY <1>1, <1>4, <1>5 DEF Stream, StreamSound, QueueSound, rec, rx
  <2> HIDE DEF k
  <2>2. Turn(k + SLOTS) = Turn(k)
    BY <1>4, TurnFacts
  <2> QED BY <1>4, <2>1, <2>2 DEF Entry
<1>7. StreamSound(mem["arm"], starts["arm"], tx, rx, slot_queue["arm"], rec,
                  Len(taken["arm"]), 0, "none")
  BY <1>1 DEF Stream, SlotsIInv, FillingSound, tx, rx, rec
<1>8. tx <= (k + SLOTS) * SLOT_SIZE
  BY <1>4 DEF tx
<1> HIDE DEF k
<1> QED BY <1>2, <1>4, <1>6, <1>7, <1>8, WalkedPlaces DEF WalkEnds

(* The invariant implies the types.                                        *)
LEMMA SlotsTypes == SlotsIInv => SlotsTypeOK
<1> SUFFICES ASSUME SlotsIInv PROVE SlotsTypeOK
  OBVIOUS
<1>1. Shapes /\ EventsSound /\ FillingSound
  BY DEF SlotsIInv
<1>2. ASSUME NEW s \in Sides
      PROVE  /\ mem[s] \in Memories
             /\ \A n \in Slots, o \in Offsets : o + mem[s][n][o].stride <= SLOT_SIZE
             /\ tx_pos[s] \in Nat /\ rx_pos[s] \in Nat
             /\ slot_queue[s] \in [0..(QUEUE - 1) -> 0..SLOTS]
             /\ slot_queue_recycle[s] \in Nat /\ Len(starts[s]) \in Nat
  <2>1. Stream(s)
    BY DEF SlotsIInv, Sides
  <2>2. /\ tx_pos[s] \in Nat /\ rx_pos[s] \in Nat /\ Index(rx_pos[s]) \in Nat
        /\ Len(starts[s]) \in Nat
    BY <2>1, StreamFacts
  <2>3. MemorySound(mem[s]) /\ QueueSound(slot_queue[s], slot_queue_recycle[s], rx_pos[s])
    BY <2>1 DEF Stream, StreamSound
  <2> QED BY <2>2, <2>3 DEF MemorySound, QueueSound
<1>3. mem \in [Sides -> Memories]
  BY <1>1, <1>2 DEF Shapes
<1>4. /\ tx_pos \in [Sides -> Nat] /\ rx_pos \in [Sides -> Nat]
      /\ slot_queue \in [Sides -> [0..(QUEUE - 1) -> 0..SLOTS]]
      /\ slot_queue_recycle \in [Sides -> Nat]
  BY <1>1, <1>2 DEF Shapes
<1>5. filling \in 0..MAX_MSGS
  <2>1. Len(starts["arm"]) \in Nat
    BY <1>2 DEF Sides
  <2> QED BY <1>1, <2>1 DEF FillingSound
<1>6. {armed, fired, waitflag} \subseteq [Events -> BOOLEAN]
  BY <1>1 DEF EventsSound
<1> QED BY <1>1, <1>2, <1>3, <1>4, <1>5, <1>6 DEF SlotsTypeOK, EventsSound, Memories, Headers, FillingSound

(* The ARM writes only to slots the VideoCore has given back, no slot is   *)
(* lost or given back twice, and the walk over a slot given back ends at   *)
(* its end if it is done before the ARM enters the slot again, for any     *)
(* number and size of slots.                                               *)
THEOREM SlotsAlwaysSound == ASSUME CallersWait PROVE SlotsSpec => []SlotsSound
<1>1. SlotsIInv => SlotsSound
  BY SlotsTypes, ConservedSlots, WrittenIsFree, WalksEndAtSlotEnd DEF SlotsSound
<1>2. SlotsSpec => []SlotsIInv
  BY SlotsInvariance
<1> QED BY <1>1, <1>2, PTL
=============================================================================
