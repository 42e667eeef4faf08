----------------------------- MODULE MmalProofs -----------------------------
(***************************************************************************)
(* The camera client for any number of buffers and of import contexts and  *)
(* whatever the VideoCore refuses.                                         *)
(*                                                                         *)
(* A caller that waits is answered once: what it waits for is in one       *)
(* place, a request under way, its answer, or what the loop thread has     *)
(* noted for it, and nothing is in any of them when it does not wait.      *)
(* Buffers and captures are counted the same way over both streams, the    *)
(* list of work and the VideoCore.  Which answer it is, which buffers      *)
(* there are and which callbacks are set follow from the task's place in   *)
(* the script, of which the proofs use what Fits says of each call.        *)
(***************************************************************************)
EXTENDS Mmal, ListTheorems, FiniteSetTheorems

(* Where the messages of S are in the queue q, and how many.               *)
Places(q, S) == {i \in 1..Len(q) : q[i] \in S}
CountIn(q, S) == Cardinality(Places(q, S))

(* Moving a set of places does not change how many they are.               *)
LEMMA ShiftedCard ==
  ASSUME NEW A \in SUBSET Int, NEW B \in SUBSET Int, NEW k \in Int, IsFiniteSet(A),
         \A i \in Int : i \in A <=> i + k \in B
  PROVE  IsFiniteSet(B) /\ Cardinality(B) = Cardinality(A)
<1> DEFINE f == [i \in A |-> i + k]
<1>1. f \in [A -> B]
  OBVIOUS
<1>2. f \in Injection(A, B)
  BY <1>1 DEF Injection, IsInjective
<1>3. \A j \in B : j - k \in A /\ f[j - k] = j
  OBVIOUS
<1>4. f \in Surjection(A, B)
  BY <1>1, <1>3 DEF Surjection
<1>5. ExistsBijection(A, B)
  BY <1>2, <1>4 DEF Bijection, ExistsBijection
<1> QED BY <1>5, FS_Bijection

(* A count is a number, and 0 if and only if there is no such message.     *)
LEMMA CountFacts ==
  ASSUME NEW T, NEW q \in Seq(T), NEW S
  PROVE  /\ IsFiniteSet(Places(q, S)) /\ CountIn(q, S) \in Nat
         /\ CountIn(q, S) = 0 <=> Members(q) \cap S = {}
<1> DEFINE A == Places(q, S)
<1>1. Len(q) \in Nat
  OBVIOUS
<1>2. IsFiniteSet(1..Len(q)) /\ A \in SUBSET (1..Len(q))
  BY <1>1, FS_Interval DEF Places
<1>3. IsFiniteSet(A)
  BY <1>2, FS_Subset
<1>4. A = {} <=> Members(q) \cap S = {}
  BY DEF Members, Places
<1> HIDE DEF A
<1>5. Cardinality(A) \in Nat
  BY <1>3, FS_CardinalityType
<1>6. Cardinality(A) = 0 <=> A = {}
  BY <1>3, FS_EmptySet
<1> QED BY <1>3, <1>4, <1>5, <1>6 DEF CountIn, A

(* No message is in an empty queue.                                        *)
LEMMA CountEmpty == \A S : CountIn(<< >>, S) = 0
<1> TAKE S
<1>1. Places(<< >>, S) = {}
  BY DEF Places
<1> QED BY <1>1, FS_EmptySet DEF CountIn

(* The message at the front of a queue is taken.                           *)
LEMMA CountTail ==
  ASSUME NEW T, NEW q \in Seq(T), q # << >>, NEW S
  PROVE  CountIn(Tail(q), S) = CountIn(q, S) - (IF Head(q) \in S THEN 1 ELSE 0)
<1> DEFINE A == Places(q, S)
           B == Places(Tail(q), S)
           C == A \ {1}
<1>1. /\ Len(q) \in Nat /\ Len(q) >= 1 /\ Head(q) = q[1]
      /\ Tail(q) \in Seq(T) /\ Len(Tail(q)) = Len(q) - 1
      /\ \A i \in 1..(Len(q) - 1) : Tail(q)[i] = q[i + 1]
  OBVIOUS
<1>2. IsFiniteSet(A)
  BY <1>1, CountFacts
<1>3. 1 \in A <=> Head(q) \in S
  BY <1>1 DEF Places
<1>4. \A i \in Int : i \in C <=> i + (-1) \in B
  BY <1>1 DEF Places
<1>5. C \in SUBSET Int /\ B \in SUBSET Int
  BY <1>1 DEF Places
<1>6. Cardinality(A) \in Nat
  BY CountFacts DEF CountIn
<1> HIDE DEF A, B
<1>7. IsFiniteSet(C) /\ Cardinality(C) = IF 1 \in A THEN Cardinality(A) - 1 ELSE Cardinality(A)
  BY <1>2, FS_RemoveElement
<1> HIDE DEF C
<1>8. Cardinality(B) = Cardinality(C)
  <2>1. -1 \in Int
    OBVIOUS
  <2> QED BY <1>4, <1>5, <1>7, <2>1, ShiftedCard
<1> QED BY <1>3, <1>6, <1>7, <1>8 DEF CountIn, A, B

(* Two queues one after the other.                                         *)
LEMMA CountConcat ==
  ASSUME NEW T, NEW q \in Seq(T), NEW r \in Seq(T), NEW S
  PROVE  CountIn(q \o r, S) = CountIn(q, S) + CountIn(r, S)
<1> DEFINE A == Places(q, S)
           B == Places(r, S)
           D == {i \in (Len(q) + 1)..(Len(q) + Len(r)) : (q \o r)[i] \in S}
           C == Places(q \o r, S)
<1>1. /\ Len(q) \in Nat /\ Len(r) \in Nat /\ Len(q \o r) = Len(q) + Len(r)
      /\ \A i \in 1..(Len(q) + Len(r)) :
           (q \o r)[i] = IF i <= Len(q) THEN q[i] ELSE r[i - Len(q)]
  BY ConcatProperties
<1>2. IsFiniteSet(A) /\ IsFiniteSet(B) /\ Cardinality(A) \in Nat /\ Cardinality(B) \in Nat
  BY CountFacts DEF CountIn
<1>3. \A i \in Int : i \in B <=> i + Len(q) \in D
  BY <1>1 DEF Places
<1>4. B \in SUBSET Int /\ D \in SUBSET Int /\ Len(q) \in Int
  BY <1>1 DEF Places
<1>5. A \cap D = {} /\ C = A \cup D
  BY <1>1 DEF Places
<1> HIDE DEF A, B, C, D
<1>6. IsFiniteSet(D) /\ Cardinality(D) = Cardinality(B)
  BY <1>2, <1>3, <1>4, ShiftedCard
<1>7. Cardinality(A \cup D) = Cardinality(A) + Cardinality(D) - Cardinality(A \cap D)
  BY <1>2, <1>6, FS_Union
<1>8. Cardinality(A \cap D) = 0
  BY <1>5, FS_EmptySet
<1> QED BY <1>2, <1>5, <1>6, <1>7, <1>8 DEF CountIn, A, B, C

(* One message more.                                                       *)
LEMMA CountAppend ==
  ASSUME NEW T, NEW q \in Seq(T), NEW e \in T, NEW S
  PROVE  CountIn(Append(q, e), S) = CountIn(q, S) + (IF e \in S THEN 1 ELSE 0)
<1> DEFINE A == Places(q, S)
           C == Places(Append(q, e), S)
           n == Len(q) + 1
<1>1. /\ Len(q) \in Nat /\ Len(Append(q, e)) = n
      /\ \A i \in 1..Len(q) : Append(q, e)[i] = q[i]
      /\ Append(q, e)[n] = e
  BY AppendProperties
<1>2. IsFiniteSet(A) /\ Cardinality(A) \in Nat
  BY CountFacts DEF CountIn
<1>3. n \notin A
  BY <1>1 DEF Places
<1>4. e \in S => C = A \cup {n}
  BY <1>1 DEF Places
<1>5. e \notin S => C = A
  BY <1>1 DEF Places
<1> HIDE DEF A, C, n
<1>6. Cardinality(A \cup {n}) = IF n \in A THEN Cardinality(A) ELSE Cardinality(A) + 1
  BY <1>2, FS_AddElement
<1>7. Cardinality(C) = Cardinality(A) + (IF e \in S THEN 1 ELSE 0)
  <2>1. CASE e \in S
    BY <1>2, <1>3, <1>4, <1>6, <2>1
  <2>2. CASE e \notin S
    BY <1>2, <1>5, <2>2
  <2> QED BY <2>1, <2>2
<1> QED BY <1>7 DEF CountIn, A, C

(* Places that tell the messages of S apart.                               *)
LEMMA CountOnce ==
  ASSUME NEW T, NEW q \in Seq(T), NEW S
  PROVE  CountIn(q, S) <= 1 <=> \A i, j \in 1..Len(q) : q[i] \in S /\ q[j] \in S => i = j
<1> DEFINE A == Places(q, S)
<1>1. IsFiniteSet(A) /\ Cardinality(A) \in Nat
  BY CountFacts DEF CountIn
<1> HIDE DEF A
<1>2. ASSUME NEW i \in A, NEW j \in A, i # j PROVE Cardinality(A) >= 2
  <2> DEFINE E == {i}
             F == E \cup {j}
  <2>1. IsFiniteSet(E) /\ Cardinality(E) = 1 /\ j \notin E /\ F \in SUBSET A
    BY <1>2, FS_Singleton
  <2> HIDE DEF E
  <2>2. Cardinality(F) = IF j \in E THEN Cardinality(E) ELSE Cardinality(E) + 1
    BY <2>1, FS_AddElement
  <2> HIDE DEF F
  <2>3. Cardinality(F) <= Cardinality(A)
    BY <1>1, <2>1, FS_Subset
  <2> QED BY <1>1, <2>1, <2>2, <2>3
<1>3. ASSUME \A i, j \in A : i = j PROVE Cardinality(A) <= 1
  <2>1. CASE A = {}
    <3>1. Cardinality(A) = 0
      BY <2>1, FS_EmptySet
    <3> QED BY <3>1
  <2>2. CASE A # {}
    <3>1. PICK x \in A : TRUE
      BY <2>2
    <3>2. A = {x}
      BY <1>3
    <3>3. Cardinality(A) = 1
      BY <3>2, FS_Singleton
    <3> QED BY <3>3
  <2> QED BY <2>1, <2>2
<1>4. Cardinality(A) <= 1 <=> \A i, j \in A : i = j
  BY <1>1, <1>2, <1>3
<1> QED BY <1>4 DEF CountIn, A, Places

----------------------------------------------------------------------------
(* The inductive invariant.                                                *)

CallTypes == Synchronous \cup {"WAIT_CONNECT", "CONNECT", "OPEN", "IMPORT", "SEND_ALL"}
Objects == Buffers \cup Services \cup Components \cup {"state", "still", "video", "preview"}
Fails == {"abort", "ignore", "fault"}
Calls == [type : CallTypes, on : Objects, fail : Fails]

(* Where the imports of the script start, where it hands the buffers over  *)
(* and where it asks for the first capture.                                *)
LAST_SETUP == 28
SENDS == LAST_SETUP + NUM_BUFFERS + 1
CAPTURES == LAST_SETUP + NUM_BUFFERS + 2

(* What the proofs need to know of the i-th call of the script.            *)
Fits(c, i) ==
  /\ c \in Calls
  /\ c.type = "WAIT_CONNECT" <=> i = 1
  /\ c.type = "CONNECT" <=> i = 2
  /\ c.type = "OPEN" <=> i \in {3, 4}
  /\ i = 3 => c.on = "mmal"
  /\ i = 4 => c.on = "SMEM"
  /\ i = 5 => c.type = "COMPONENT_CREATE" /\ c.on = "info" /\ c.fail = "fault"
  /\ i \in 6..7 => c.type # "COMPONENT_CREATE"
  /\ c.type = "COMPONENT_DISABLE" <=> i = 8
  /\ c.type = "COMPONENT_DESTROY" <=> i = 9
  /\ i \in {8, 9} => c.on = "info" /\ c.fail = "abort"
  /\ c.type = "COMPONENT_CREATE" => c.on \in Components
  /\ c.type = "PORT_ENABLE" => i = LAST_SETUP - 1
  /\ c.type = "IMPORT" <=> i \in (LAST_SETUP + 1)..(LAST_SETUP + NUM_BUFFERS)
  /\ c.type = "IMPORT" => c.on = i - LAST_SETUP
  /\ c.type = "SEND_ALL" <=> i = SENDS
  /\ c.type = "CAPTURE" <=> i = CAPTURES

ScriptFits ==
  Script \in Seq(Calls) /\ Len(Script) = CAPTURES /\ \A i \in 1..CAPTURES : Fits(Script[i], i)

(* What is under way.                                                      *)
Callers == {"main", "io"}
ToVc == [type : {"CONNECT"}] \cup [type : {"OPEN"}, on : Services]
          \cup [type : Synchronous, on : Objects, ctx : Callers]
          \cup [type : {"IMPORT"}, on : Buffers, trans_id : Nat]
          \cup [type : {"BUFFER_FROM_HOST"}, on : Buffers, ctx : Frames]
ToArm == [type : {"CONNECT"}] \cup [type : {"OPENACK"}, on : Services]
           \cup [type : {"REPLY"}, ctx : Callers \cup Frames, status : {"ok", "enabled", "error"}]
           \cup [type : {"IMPORTED"}, trans_id : Nat]
           \cup [type : {"BUFFER_TO_HOST"}, on : Buffers, eos : BOOLEAN]
Works == [buffer : Buffers, eos : BOOLEAN]
Loops == {"test", "arm", "asleep", "woken", "parse", "bug", "stray"}

Typed ==
  /\ to_vc \in Seq(ToVc) /\ to_arm \in Seq(ToArm) /\ work \in Seq(Works)
  /\ state_waitflag \in BOOLEAN /\ work_waitflag \in BOOLEAN
  /\ opened \in [Services -> BOOLEAN] /\ data_callback \in [Services -> BOOLEAN]
  /\ main \in {"call", "wait", "receive", "stopped", "fault"}
  /\ io \in {"sleep", "work", "wait"} /\ loop \in Loops
  /\ answer \in [Callers -> {"none", "ok", "enabled", "error"}]
  /\ enabled \in [Components -> BOOLEAN]
  /\ port \in [enabled : BOOLEAN, zero_copy : BOOLEAN, buffers : Seq(Buffers)]
  /\ vc \in [enabled : BOOLEAN, buffers : SUBSET Buffers, capturing : BOOLEAN]

(* How far the task is, and what it has by then.                           *)
Placed ==
  /\ at \in 1..(CAPTURES + 1)
  /\ main \in {"call", "wait"} => at <= CAPTURES
  /\ main = "wait" => Here.type \in Synchronous \cup {"OPEN", "IMPORT"}
  /\ at > 3 => data_callback["mmal"]
  /\ at > 4 => data_callback["SMEM"]
  /\ at \in 6..8 => enabled["info"]
  /\ at = 9 => ~enabled["info"]

(* The buffers imported so far, in their order.                            *)
Imports == IF at <= LAST_SETUP THEN 0 ELSE IF at < SENDS THEN at - LAST_SETUP - 1 ELSE NUM_BUFFERS
PortFilled == Len(port.buffers) = Imports /\ \A i \in 1..Imports : port.buffers[i] = i

(* One context of the pool is ever used, for the import under way.         *)
Importing == main = "wait" /\ Here.type = "IMPORT"
PoolSound ==
  /\ counters.mems \in Nat /\ counters = [mems |-> counters.mems, vc |-> counters.mems]
  /\ pool \in [1..POOL_SIZE -> [active : BOOLEAN, trans_id : Nat]]
  /\ \A i \in 2..POOL_SIZE : ~pool[i].active
  /\ pool[1].active <=> Importing
  /\ Importing => counters.mems > 0 /\ pool[1].trans_id = counters.mems - 1

(* What the task waits for is in one place: a request, its answer, or what *)
(* the loop thread has noted down.                                         *)
MainVc == {m \in ToVc : m.type \in {"OPEN", "IMPORT"} \/ (m.type \in Synchronous /\ m.ctx = "main")}
MainArm == {m \in ToArm : m.type \in {"CONNECT", "OPENACK", "IMPORTED"}
                            \/ (m.type = "REPLY" /\ m.ctx = "main")}
One(b) == IF b THEN 1 ELSE 0
Waits == main = "wait" \/ (main = "call" /\ at = 1)
MainAwaited ==
  CountIn(to_vc, MainVc) + CountIn(to_arm, MainArm) + One(answer["main"] # "none")
    + One(state_waitflag) = One(Waits)

(* It is the answer to the call the task is in.                            *)
VcFit(m, call, id) ==
  /\ m.type = "OPEN" => call.type = "OPEN" /\ m.on = call.on
  /\ m.type = "IMPORT" => call.type = "IMPORT" /\ m.trans_id = id - 1
  /\ m.type \in Synchronous /\ m.ctx = "main" => call.type \in Synchronous
ArmFit(m, call, id, n) ==
  /\ m.type = "CONNECT" => n = 1
  /\ m.type = "OPENACK" => call.type = "OPEN" /\ m.on = call.on
  /\ m.type = "IMPORTED" => call.type = "IMPORT" /\ m.trans_id = id - 1
  /\ m.type = "REPLY" /\ m.ctx = "main" => call.type \in Synchronous
VcKind(m) == VcFit(m, Here, counters.vc)
ArmKind(m) == ArmFit(m, Here, counters.vc, at)
AnswersFit ==
  /\ \A m \in Members(to_vc) : VcKind(m)
  /\ \A m \in Members(to_arm) : ArmKind(m)
  /\ state_waitflag => at = 1 \/ (Here.type = "OPEN" /\ opened[Here.on])
  /\ answer["main"] # "none" => Here.type \in Synchronous \cup {"IMPORT"}

(* The same of the io thread and its capture.                              *)
IoVc == {m \in ToVc : m.type \in Synchronous /\ m.ctx = "io"}
IoArm == {m \in ToArm : m.type = "REPLY" /\ m.ctx = "io"}
IoAwaited ==
  CountIn(to_vc, IoVc) + CountIn(to_arm, IoArm) + One(answer["io"] # "none") = One(io = "wait")

(* Nothing circulates before the buffers are handed over.                  *)
BufVc(b) == {m \in ToVc : m.type = "BUFFER_FROM_HOST" /\ m.on = b}
BufArm(b) == {m \in ToArm : m.type = "BUFFER_TO_HOST" /\ m.on = b}
BufWork(b) == {w \in Works : w.buffer = b}
PlacesOf(b) ==
  CountIn(to_vc, BufVc(b)) + CountIn(to_arm, BufArm(b)) + CountIn(work, BufWork(b))
    + One(b \in vc.buffers)
BuffersKept == \A b \in Buffers : PlacesOf(b) <= IF at > SENDS THEN 1 ELSE 0

(* Captures asked for, under way or ended with the end of a frame.         *)
CapVc == {m \in ToVc : m.type = "CAPTURE"}
EosArm == {m \in ToArm : m.type = "BUFFER_TO_HOST" /\ m.eos}
EosWork == {w \in Works : w.eos}
Captures ==
  CountIn(to_vc, CapVc) + One(vc.capturing) + CountIn(to_arm, EosArm) + CountIn(work, EosWork)
CapturesKept ==
  Captures <= IF at > CAPTURES \/ (at = CAPTURES /\ main # "call") THEN 1 ELSE 0

(* The io thread's wake-ups and items.                                     *)
WakeUps ==
  /\ One(io = "work") + One(work_waitflag) <= Len(work)
  /\ io # "work" /\ ~work_waitflag => Len(work) < NUM_BUFFERS
  /\ io = "wait" => at > SENDS

IInv ==
  /\ Typed /\ Placed /\ PortFilled /\ PoolSound
  /\ MainAwaited /\ AnswersFit /\ IoAwaited
  /\ BuffersKept /\ CapturesKept /\ WakeUps

----------------------------------------------------------------------------
(* The script.                                                             *)

Item(type, on, fail) == [type |-> type, on |-> on, fail |-> fail]

(* One call.                                                               *)
LEMMA OneCall ==
  ASSUME NEW type \in CallTypes, NEW on \in Objects, NEW fail \in Fails
  PROVE  /\ Item(type, on, fail) \in Calls
         /\ Call(type, on, fail) \in Seq(Calls) /\ Len(Call(type, on, fail)) = 1
         /\ Call(type, on, fail)[1] = Item(type, on, fail)
<1>1. Item(type, on, fail) \in Calls
  BY DEF Item, Calls
<1> HIDE DEF Calls
<1>2. Call(type, on, fail) = <<Item(type, on, fail)>>
  BY DEF Call, Item
<1> QED BY <1>1, <1>2

(* The calls of s are those of the script from the k-th on.                *)
FitFrom(s, k, n) == s \in Seq(Calls) /\ Len(s) = n /\ \A i \in 1..n : Fits(s[i], k + i)

(* One call in its place.                                                  *)
LEMMA FitsOne ==
  ASSUME NEW type \in CallTypes, NEW on \in Objects, NEW fail \in Fails, NEW k \in Nat,
         Fits(Item(type, on, fail), k + 1)
  PROVE  FitFrom(Call(type, on, fail), k, 1)
<1>1. /\ Call(type, on, fail) \in Seq(Calls) /\ Len(Call(type, on, fail)) = 1
      /\ Call(type, on, fail)[1] = Item(type, on, fail)
  BY OneCall
<1> DEFINE s == Call(type, on, fail)
<1> HIDE DEF s
<1>2. \A i \in 1..1 : Fits(s[i], k + i)
  BY <1>1 DEF s
<1> QED BY <1>1, <1>2 DEF s, FitFrom

(* Two parts of the script, one after the other.                           *)
LEMMA FitsJoined ==
  ASSUME NEW s, NEW t, NEW k \in Nat, NEW n \in Nat, NEW m \in Nat, NEW j, NEW l,
         FitFrom(s, k, n), j = k + n, FitFrom(t, j, m), l = n + m
  PROVE  FitFrom(s \o t, k, l)
<1>1. /\ s \in Seq(Calls) /\ Len(s) = n /\ \A i \in 1..n : Fits(s[i], k + i)
      /\ t \in Seq(Calls) /\ Len(t) = m /\ \A i \in 1..m : Fits(t[i], (k + n) + i)
  BY DEF FitFrom
<1>2. /\ s \o t \in Seq(Calls) /\ Len(s \o t) = n + m
      /\ \A i \in 1..n : (s \o t)[i] = s[i]
      /\ \A i \in 1..m : (s \o t)[n + i] = t[i]
  <2>1. s \in Seq(Calls) /\ t \in Seq(Calls) /\ Len(s) = n /\ Len(t) = m
    BY <1>1
  <2>2. /\ s \o t \in Seq(Calls) /\ Len(s \o t) = Len(s) + Len(t)
        /\ \A i \in 1..(Len(s) + Len(t)) :
             (s \o t)[i] = IF i <= Len(s) THEN s[i] ELSE t[i - Len(s)]
    BY <2>1, ConcatProperties, Zenon
  <2> DEFINE v == s \o t
  <2> HIDE DEF v
  <2>3. /\ v \in Seq(Calls) /\ Len(v) = n + m
        /\ \A i \in 1..(n + m) : v[i] = IF i <= n THEN s[i] ELSE t[i - n]
    BY <2>1, <2>2 DEF v
  <2>4. /\ \A i \in 1..n : v[i] = s[i]
        /\ \A i \in 1..m : v[n + i] = t[i]
    BY <2>3
  <2> QED BY <2>3, <2>4 DEF v
<1> DEFINE u == s \o t
<1> HIDE DEF u
<1>3. ASSUME NEW i \in 1..(n + m) PROVE Fits(u[i], k + i)
  <2>1. CASE i \in 1..n
    BY <1>1, <1>2, <2>1 DEF u
  <2>2. CASE i \in (n + 1)..(n + m)
    <3> DEFINE d == i - n
    <3>1. d \in 1..m /\ n + d = i /\ (k + n) + d = k + i
      BY <2>2
    <3>2. u[n + d] = t[d] /\ Fits(t[d], (k + n) + d)
      BY <1>1, <1>2, <3>1 DEF u
    <3> QED BY <3>1, <3>2
  <2> QED BY <2>1, <2>2
<1> QED BY <1>2, <1>3 DEF FitFrom, u

PlainTypes == {"PORT_INFO_GET", "PORT_INFO_SET", "PORT_PARAMETER_SET", "PORT_PARAMETER_GET",
               "ZERO_COPY", "COMPONENT_ENABLE"}
PlainPlaces == 6..7 \cup 10..(LAST_SETUP - 2) \cup {LAST_SETUP}

(* A call that is none of the marked ones fits where none is due.          *)
LEMMA PlainFits ==
  ASSUME NEW type \in PlainTypes, NEW on \in Objects, NEW fail \in Fails,
         NEW i \in PlainPlaces
  PROVE  type \in CallTypes /\ Fits(Item(type, on, fail), i)
<1>1. type \in CallTypes
  BY DEF PlainTypes, CallTypes, Synchronous
<1>2. Item(type, on, fail) \in Calls
  BY <1>1, OneCall
<1> DEFINE c == Item(type, on, fail)
<1>3. c.type = type /\ c.on = on /\ c.fail = fail
  BY DEF Item
<1> HIDE DEF c
<1>4. i \in Nat /\ i > 5 /\ i # 8 /\ i # 9 /\ i # LAST_SETUP - 1 /\ i <= LAST_SETUP
  BY DEF PlainPlaces, LAST_SETUP
<1>5. c \in Calls
  BY <1>2 DEF c
<1> HIDE DEF Calls
<1>6. Fits(c, i)
  BY <1>3, <1>4, <1>5, MmalAssumption DEF Fits, LAST_SETUP, SENDS, CAPTURES, PlainTypes
<1> QED BY <1>1, <1>6 DEF c

(* A function on 1..n is a sequence of that length.                        *)
LEMMA GivenEach ==
  ASSUME NEW T, NEW n \in Nat, NEW f \in [1..n -> T]
  PROVE  f \in Seq(T) /\ Len(f) = n
<1>1. f \in Seq(T)
  BY SeqDef
<1>2. Len(f) \in Nat /\ DOMAIN f = 1..Len(f) /\ DOMAIN f = 1..n
  BY <1>1, LenProperties
<1> QED BY <1>1, <1>2

(* Calls given one by one.                                                 *)
LEMMA FitsEach ==
  ASSUME NEW n \in Nat, NEW f \in [1..n -> Calls], NEW k \in Nat,
         \A i \in 1..n : Fits(f[i], k + i)
  PROVE  FitFrom(f, k, n)
<1>1. f \in Seq(Calls) /\ Len(f) = n
  BY GivenEach
<1> QED BY <1>1 DEF FitFrom

(* component_create.                                                       *)
LEMMA CreateFits ==
  ASSUME NEW c \in Components, NEW outputs \in Nat, NEW fail \in Fails, NEW k \in Nat,
         Fits(Item("COMPONENT_CREATE", c, fail), k + 1),
         \A i \in 1..(1 + outputs) : (k + 1) + i \in PlainPlaces, NEW n, n = 2 + outputs
  PROVE  FitFrom(component_create(c, outputs, fail), k, n)
<1> DEFINE a == Call("COMPONENT_CREATE", c, fail)
           x == Call("PORT_INFO_GET", c, fail)[1]
           b == [i \in 1..(1 + outputs) |-> x]
<1>1. "COMPONENT_CREATE" \in CallTypes /\ "PORT_INFO_GET" \in PlainTypes /\ c \in Objects
      /\ "PORT_INFO_GET" \in CallTypes
  BY DEF CallTypes, Synchronous, PlainTypes, Objects
<1>2. FitFrom(a, k, 1)
  BY <1>1, FitsOne
<1>3. x = Item("PORT_INFO_GET", c, fail) /\ x \in Calls
  BY <1>1, OneCall
<1> HIDE DEF a, x, Calls
<1>4. \A i \in 1..(1 + outputs) : Fits(x, (k + 1) + i)
  BY <1>1, <1>3, PlainFits
<1>5. FitFrom(b, k + 1, 1 + outputs)
  <2>1. b \in [1..(1 + outputs) -> Calls] /\ \A i \in 1..(1 + outputs) : b[i] = x
    BY <1>3
  <2> HIDE DEF b
  <2> DEFINE m == 1 + outputs
             j == k + 1
  <2>2. m \in Nat /\ j \in Nat
    OBVIOUS
  <2>3. b \in [1..m -> Calls] /\ \A i \in 1..m : Fits(b[i], j + i)
    BY <1>4, <2>1
  <2> HIDE DEF m, j
  <2>4. FitFrom(b, j, m)
    BY <2>2, <2>3, FitsEach
  <2> QED BY <2>4 DEF m, j
<1>6. component_create(c, outputs, fail) = a \o b
  BY DEF component_create, a, x
<1> HIDE DEF b
<1>7. FitFrom(a \o b, k, n)
  <2> DEFINE m == 1 + outputs
             j == k + 1
  <2>1. m \in Nat /\ j = k + 1 /\ n = 1 + m /\ 1 \in Nat /\ FitFrom(b, j, m)
    BY <1>5
  <2> HIDE DEF m, j
  <2> QED BY <1>2, <2>1, FitsJoined
<1> QED BY <1>6, <1>7

(* vchiq_mmal_get_cam_info: the component is created, asked, disabled and  *)
(* destroyed.                                                              *)
LEMMA InfoFits == FitFrom(vchiq_mmal_get_cam_info, 4, 5)
<1> DEFINE a == component_create("info", 0, "fault")
           b == Call("PORT_PARAMETER_GET", "info", "abort")
           c == Call("COMPONENT_DISABLE", "info", "abort")
           d == Call("COMPONENT_DESTROY", "info", "abort")
<1>1. /\ "info" \in Objects /\ "info" \in Components /\ {"abort", "fault"} \subseteq Fails
      /\ {"COMPONENT_CREATE", "COMPONENT_DISABLE", "COMPONENT_DESTROY"} \subseteq CallTypes
      /\ "PORT_PARAMETER_GET" \in PlainTypes
  BY DEF Objects, Components, Fails, CallTypes, Synchronous, PlainTypes
<1>2. Fits(Item("COMPONENT_CREATE", "info", "fault"), 5)
  <2> DEFINE x == Item("COMPONENT_CREATE", "info", "fault")
  <2>1. x.type = "COMPONENT_CREATE" /\ x.on = "info" /\ x.fail = "fault" /\ x \in Calls
    BY <1>1, OneCall DEF Item
  <2> HIDE DEF x, Calls
  <2>2. Fits(x, 5)
    BY <1>1, <2>1, MmalAssumption DEF Fits, LAST_SETUP, SENDS, CAPTURES
  <2> QED BY <2>2 DEF x
<1>3. Fits(Item("COMPONENT_DISABLE", "info", "abort"), 8)
  <2> DEFINE x == Item("COMPONENT_DISABLE", "info", "abort")
  <2>1. x.type = "COMPONENT_DISABLE" /\ x.on = "info" /\ x.fail = "abort" /\ x \in Calls
    BY <1>1, OneCall DEF Item
  <2> HIDE DEF x, Calls
  <2>2. Fits(x, 8)
    BY <1>1, <2>1, MmalAssumption DEF Fits, LAST_SETUP, SENDS, CAPTURES
  <2> QED BY <2>2 DEF x
<1>4. Fits(Item("COMPONENT_DESTROY", "info", "abort"), 9)
  <2> DEFINE x == Item("COMPONENT_DESTROY", "info", "abort")
  <2>1. x.type = "COMPONENT_DESTROY" /\ x.on = "info" /\ x.fail = "abort" /\ x \in Calls
    BY <1>1, OneCall DEF Item
  <2> HIDE DEF x, Calls
  <2>2. Fits(x, 9)
    BY <1>1, <2>1, MmalAssumption DEF Fits, LAST_SETUP, SENDS, CAPTURES
  <2> QED BY <2>2 DEF x
<1>5. FitFrom(a, 4, 2)
  <2>1. /\ 0 \in Nat /\ 4 \in Nat /\ 4 + 1 = 5 /\ 2 = 2 + 0
        /\ \A i \in 1..(1 + 0) : (4 + 1) + i \in PlainPlaces
    BY DEF PlainPlaces
  <2>2. Fits(Item("COMPONENT_CREATE", "info", "fault"), 4 + 1)
    BY <1>2
  <2> QED BY <1>1, <2>1, <2>2, CreateFits
<1>6. FitFrom(b, 6, 1)
  <2>1. 6 + 1 \in PlainPlaces
    BY DEF PlainPlaces
  <2> QED BY <1>1, <2>1, PlainFits, FitsOne
<1>7. FitFrom(c, 7, 1)
  <2>1. Fits(Item("COMPONENT_DISABLE", "info", "abort"), 7 + 1)
    BY <1>3
  <2> QED BY <1>1, <2>1, FitsOne
<1>8. FitFrom(d, 8, 1)
  <2>1. Fits(Item("COMPONENT_DESTROY", "info", "abort"), 8 + 1)
    BY <1>4
  <2> QED BY <1>1, <2>1, FitsOne
<1> HIDE DEF a, b, c, d
<1>9. FitFrom(a \o b, 4, 3)
  BY <1>5, <1>6, FitsJoined
<1>10. FitFrom((a \o b) \o c, 4, 4)
  BY <1>7, <1>9, FitsJoined
<1>11. FitFrom(((a \o b) \o c) \o d, 4, 5)
  BY <1>8, <1>10, FitsJoined
<1> QED BY <1>11 DEF vchiq_mmal_get_cam_info, a, b, c, d

(* Two calls of the set-up.                                                *)
LEMMA PlainPair ==
  ASSUME NEW a \in PlainTypes, NEW b \in PlainTypes, NEW x \in Objects, NEW y \in Objects,
         NEW f \in Fails, NEW g \in Fails, NEW k \in Nat,
         k + 1 \in PlainPlaces, (k + 1) + 1 \in PlainPlaces
  PROVE  FitFrom(Call(a, x, f) \o Call(b, y, g), k, 2)
<1> DEFINE j == k + 1
<1>1. j \in Nat /\ j = k + 1 /\ 1 \in Nat /\ 2 = 1 + 1
  OBVIOUS
<1>2. FitFrom(Call(a, x, f), k, 1)
  BY PlainFits, FitsOne
<1>3. FitFrom(Call(b, y, g), j, 1)
  BY <1>1, PlainFits, FitsOne
<1> HIDE DEF j
<1> DEFINE s == Call(a, x, f)
           u == Call(b, y, g)
<1>4. FitFrom(s, k, 1) /\ FitFrom(u, j, 1)
  BY <1>2, <1>3
<1> HIDE DEF s, u
<1>5. FitFrom(s \o u, k, 2)
  BY <1>1, <1>4, FitsJoined
<1> QED BY <1>5 DEF s, u

(* One call of the set-up.                                                 *)
LEMMA PlainOne ==
  ASSUME NEW a \in PlainTypes, NEW x \in Objects, NEW f \in Fails, NEW k \in Nat,
         k + 1 \in PlainPlaces
  PROVE  FitFrom(Call(a, x, f), k, 1)
BY PlainFits, FitsOne

(* The calls of mmal_alloc_port_buffers import the buffers in turn.        *)
LEMMA ImportsFit == FitFrom(mmal_alloc_port_buffers, LAST_SETUP, NUM_BUFFERS)
<1> DEFINE f == mmal_alloc_port_buffers
           n == NUM_BUFFERS
           k == LAST_SETUP
<1>1. n \in Nat /\ k \in Nat
  BY MmalAssumption DEF LAST_SETUP
<1>2. ASSUME NEW i \in 1..n PROVE f[i] \in Calls /\ Fits(f[i], k + i)
  <2> DEFINE c == f[i]
  <2>1. f[i] = Item("IMPORT", i, "ignore")
    BY DEF mmal_alloc_port_buffers, Buffers, Item
  <2>2. i \in Objects /\ "IMPORT" \in CallTypes /\ "ignore" \in Fails
    BY DEF Objects, Buffers, CallTypes, Fails
  <2>3. c \in Calls /\ c.type = "IMPORT" /\ c.on = i
    BY <2>1, <2>2, OneCall DEF Item
  <2> HIDE DEF c, Calls
  <2>4. i \in Nat /\ i >= 1 /\ i <= NUM_BUFFERS
    BY <1>1
  <2>5. Fits(c, k + i)
    BY <2>3, <2>4, MmalAssumption DEF Fits, LAST_SETUP, SENDS, CAPTURES
  <2> QED BY <2>3, <2>5 DEF c
<1>3. f = [i \in 1..n |-> f[i]]
  BY DEF mmal_alloc_port_buffers, Buffers
<1> HIDE DEF f, n, k, Calls
<1>4. f \in [1..n -> Calls] /\ \A i \in 1..n : Fits(f[i], k + i)
  BY <1>2, <1>3
<1>5. FitFrom(f, k, n)
  BY <1>1, <1>4, FitsEach
<1> QED BY <1>5 DEF f, n, k

(* vchiq_camera_run.                                                       *)
LEMMA CameraFits == FitFrom(vchiq_camera_run, 4, NUM_BUFFERS + 26)
<1> DEFINE s1 == vchiq_mmal_get_cam_info
           s2 == component_create("camera", 3, "abort")
           s3 == mmal_set_camera_parameters
           s4 == Call("PORT_PARAMETER_GET", "still", "abort")
           s5 == vchiq_mmal_port_set_format("still")
           s6 == vchiq_mmal_port_set_format("video")
           s7 == vchiq_mmal_port_set_format("preview")
           s8 == Call("ZERO_COPY", "still", "abort")
           s9 == mmal_camera_enable
           s10 == vchiq_mmal_port_enable
           s11 == mmal_alloc_port_buffers
           s12 == Call("SEND_ALL", "still", "abort")
           s13 == Call("CAPTURE", "still", "ignore")
<1>1. /\ {"camera", "still", "video", "preview"} \subseteq Objects /\ "camera" \in Components
      /\ {"abort", "ignore"} \subseteq Fails
      /\ {"COMPONENT_CREATE", "PORT_ENABLE", "SEND_ALL", "CAPTURE"} \subseteq CallTypes
  BY DEF Objects, Components, Fails, CallTypes, Synchronous
<1>2. /\ {"PORT_PARAMETER_SET", "PORT_PARAMETER_GET", "PORT_INFO_SET", "PORT_INFO_GET",
          "ZERO_COPY", "COMPONENT_ENABLE"} \subseteq PlainTypes
      /\ \A i \in 10..26 : i \in PlainPlaces
      /\ 28 \in PlainPlaces
  BY DEF PlainTypes, PlainPlaces, LAST_SETUP
<1>3. NUM_BUFFERS \in Nat /\ NUM_BUFFERS >= 1
  BY MmalAssumption
<1>a. FitFrom(s1, 4, 5)
  BY InfoFits
<1>b. FitFrom(s2, 9, 5)
  <2> DEFINE x == Item("COMPONENT_CREATE", "camera", "abort")
  <2>1. x.type = "COMPONENT_CREATE" /\ x.on = "camera" /\ x.fail = "abort" /\ x \in Calls
    BY <1>1, OneCall DEF Item
  <2>2. Fits(x, 9 + 1)
    <3> HIDE DEF x, Calls
    <3> QED BY <1>1, <1>3, <2>1 DEF Fits, LAST_SETUP, SENDS, CAPTURES
  <2>3. \A i \in 1..(1 + 3) : (9 + 1) + i \in PlainPlaces
    BY <1>2
  <2>4. 3 \in Nat /\ 9 \in Nat /\ 5 = 2 + 3 /\ "camera" \in Components /\ "abort" \in Fails
    BY <1>1
  <2> HIDE DEF s2
  <2>5. FitFrom(component_create("camera", 3, "abort"), 9, 5)
    BY <2>2, <2>3, <2>4, CreateFits
  <2> QED BY <2>5 DEF s2
<1>c. FitFrom(s3, 14, 2)
  <2>1. 14 + 1 \in PlainPlaces /\ (14 + 1) + 1 \in PlainPlaces
    BY <1>2
  <2> QED BY <1>1, <1>2, <2>1, PlainPair DEF mmal_set_camera_parameters
<1>d. FitFrom(s4, 16, 1)
  <2>1. 16 + 1 \in PlainPlaces
    BY <1>2
  <2> QED BY <1>1, <1>2, <2>1, PlainOne
<1>e. FitFrom(s5, 17, 2)
  <2>1. 17 + 1 \in PlainPlaces /\ (17 + 1) + 1 \in PlainPlaces
    BY <1>2
  <2> QED BY <1>1, <1>2, <2>1, PlainPair DEF vchiq_mmal_port_set_format
<1>f. FitFrom(s6, 19, 2)
  <2>1. 19 + 1 \in PlainPlaces /\ (19 + 1) + 1 \in PlainPlaces
    BY <1>2
  <2> QED BY <1>1, <1>2, <2>1, PlainPair DEF vchiq_mmal_port_set_format
<1>g. FitFrom(s7, 21, 2)
  <2>1. 21 + 1 \in PlainPlaces /\ (21 + 1) + 1 \in PlainPlaces
    BY <1>2
  <2> QED BY <1>1, <1>2, <2>1, PlainPair DEF vchiq_mmal_port_set_format
<1>h. FitFrom(s8, 23, 1)
  <2>1. 23 + 1 \in PlainPlaces
    BY <1>2
  <2> QED BY <1>1, <1>2, <2>1, PlainOne
<1>i. FitFrom(s9, 24, 2)
  <2>1. 24 + 1 \in PlainPlaces /\ (24 + 1) + 1 \in PlainPlaces
    BY <1>2
  <2> QED BY <1>1, <1>2, <2>1, PlainPair DEF mmal_camera_enable
<1>j. FitFrom(s10, 26, 2)
  <2> DEFINE x == Item("PORT_ENABLE", "still", "ignore")
             u == Call("PORT_ENABLE", "still", "ignore")
             v == Call("PORT_INFO_GET", "still", "abort")
  <2>1. x.type = "PORT_ENABLE" /\ x.on = "still" /\ x.fail = "ignore" /\ x \in Calls
    BY <1>1, OneCall DEF Item
  <2>2. Fits(x, 26 + 1)
    <3> HIDE DEF x, Calls
    <3> QED BY <1>3, <2>1 DEF Fits, LAST_SETUP, SENDS, CAPTURES
  <2>3. FitFrom(u, 26, 1)
    BY <1>1, <2>2, FitsOne
  <2>4. 27 + 1 \in PlainPlaces
    BY <1>2
  <2>5. FitFrom(v, 27, 1)
    BY <1>1, <1>2, <2>4, PlainOne
  <2> HIDE DEF u, v
  <2>6. FitFrom(u \o v, 26, 2)
    BY <2>3, <2>5, FitsJoined
  <2> QED BY <2>6 DEF vchiq_mmal_port_enable, u, v
<1>k. FitFrom(s11, 28, NUM_BUFFERS)
  BY ImportsFit DEF LAST_SETUP
<1>l. FitFrom(s12, NUM_BUFFERS + 28, 1)
  <2> DEFINE x == Item("SEND_ALL", "still", "abort")
             k == NUM_BUFFERS + 28
  <2>1. x.type = "SEND_ALL" /\ x.on = "still" /\ x.fail = "abort" /\ x \in Calls
    BY <1>1, OneCall DEF Item
  <2>2. Fits(x, k + 1) /\ k \in Nat
    <3> HIDE DEF x, Calls
    <3> QED BY <1>3, <2>1 DEF Fits, LAST_SETUP, SENDS, CAPTURES
  <2> HIDE DEF k
  <2>3. FitFrom(s12, k, 1)
    BY <1>1, <2>2, FitsOne
  <2> QED BY <2>3 DEF k
<1>m. FitFrom(s13, NUM_BUFFERS + 29, 1)
  <2> DEFINE x == Item("CAPTURE", "still", "ignore")
             k == NUM_BUFFERS + 29
  <2>1. x.type = "CAPTURE" /\ x.on = "still" /\ x.fail = "ignore" /\ x \in Calls
    BY <1>1, OneCall DEF Item
  <2>2. Fits(x, k + 1) /\ k \in Nat
    <3> HIDE DEF x, Calls
    <3> QED BY <1>3, <2>1 DEF Fits, LAST_SETUP, SENDS, CAPTURES
  <2> HIDE DEF k
  <2>3. FitFrom(s13, k, 1)
    BY <1>1, <2>2, FitsOne
  <2> QED BY <2>3 DEF k
<1>4. vchiq_camera_run = s1 \o s2 \o s3 \o s4 \o s5 \o s6 \o s7 \o s8 \o s9 \o s10 \o s11 \o s12 \o s13
  BY DEF vchiq_camera_run
<1> HIDE DEF s1, s2, s3, s4, s5, s6, s7, s8, s9, s10, s11, s12, s13
<1> DEFINE t2 == s1 \o s2
           t3 == t2 \o s3
           t4 == t3 \o s4
           t5 == t4 \o s5
           t6 == t5 \o s6
           t7 == t6 \o s7
           t8 == t7 \o s8
           t9 == t8 \o s9
           t10 == t9 \o s10
           t11 == t10 \o s11
           t12 == t11 \o s12
           t13 == t12 \o s13
<1>5. vchiq_camera_run = t13
  BY <1>4
<1>12. FitFrom(t2, 4, 10)
  BY <1>a, <1>b, FitsJoined
<1> HIDE DEF t2
<1>13. FitFrom(t3, 4, 12)
  BY <1>12, <1>c, FitsJoined
<1> HIDE DEF t3
<1>14. FitFrom(t4, 4, 13)
  BY <1>13, <1>d, FitsJoined
<1> HIDE DEF t4
<1>15. FitFrom(t5, 4, 15)
  BY <1>14, <1>e, FitsJoined
<1> HIDE DEF t5
<1>16. FitFrom(t6, 4, 17)
  BY <1>15, <1>f, FitsJoined
<1> HIDE DEF t6
<1>17. FitFrom(t7, 4, 19)
  BY <1>16, <1>g, FitsJoined
<1> HIDE DEF t7
<1>18. FitFrom(t8, 4, 20)
  BY <1>17, <1>h, FitsJoined
<1> HIDE DEF t8
<1>19. FitFrom(t9, 4, 22)
  BY <1>18, <1>i, FitsJoined
<1> HIDE DEF t9
<1>20. FitFrom(t10, 4, 24)
  BY <1>19, <1>j, FitsJoined
<1> HIDE DEF t10
<1>21. FitFrom(t11, 4, NUM_BUFFERS + 24)
  <2>1. 28 = 4 + 24 /\ NUM_BUFFERS + 24 = 24 + NUM_BUFFERS
    BY <1>3
  <2> QED BY <1>3, <1>20, <1>k, <2>1, FitsJoined
<1> HIDE DEF t11
<1>22. FitFrom(t12, 4, NUM_BUFFERS + 25)
  <2>1. NUM_BUFFERS + 28 = 4 + (NUM_BUFFERS + 24) /\ NUM_BUFFERS + 25 = (NUM_BUFFERS + 24) + 1
        /\ NUM_BUFFERS + 24 \in Nat
    BY <1>3
  <2> QED BY <1>21, <1>l, <2>1, FitsJoined
<1> HIDE DEF t12
<1>23. FitFrom(t13, 4, NUM_BUFFERS + 26)
  <2>1. NUM_BUFFERS + 29 = 4 + (NUM_BUFFERS + 25) /\ NUM_BUFFERS + 26 = (NUM_BUFFERS + 25) + 1
        /\ NUM_BUFFERS + 25 \in Nat
    BY <1>3
  <2> QED BY <1>22, <1>m, <2>1, FitsJoined
<1> HIDE DEF t13
<1> QED BY <1>5, <1>23

(* The script as the proofs see it.                                        *)
LEMMA ScriptAlwaysFits == ScriptFits
<1> DEFINE s1 == Call("WAIT_CONNECT", "state", "ignore")
           s2 == Call("CONNECT", "state", "ignore")
           s3 == Call("OPEN", "mmal", "abort")
           s4 == Call("OPEN", "SMEM", "abort")
           s5 == vchiq_camera_run
<1>1. /\ {"state", "mmal", "SMEM"} \subseteq Objects /\ {"abort", "ignore"} \subseteq Fails
      /\ {"WAIT_CONNECT", "CONNECT", "OPEN"} \subseteq CallTypes
  BY DEF Objects, Services, Fails, CallTypes
<1>2. NUM_BUFFERS \in Nat /\ NUM_BUFFERS >= 1
  BY MmalAssumption
<1>3. ASSUME NEW type \in CallTypes, NEW on \in Objects, NEW fail \in Fails, NEW k \in 0..3,
             k = 0 => type = "WAIT_CONNECT", k = 1 => type = "CONNECT",
             k \in {2, 3} => type = "OPEN", k = 2 => on = "mmal", k = 3 => on = "SMEM"
      PROVE  FitFrom(Call(type, on, fail), k, 1)
  <2> DEFINE x == Item(type, on, fail)
  <2>1. x.type = type /\ x.on = on /\ x.fail = fail /\ x \in Calls
    BY OneCall DEF Item
  <2>2. Fits(x, k + 1) /\ k \in Nat
    <3> HIDE DEF x, Calls, CallTypes
    <3> QED BY <1>2, <1>3, <2>1 DEF Fits, LAST_SETUP, SENDS, CAPTURES
  <2> QED BY <2>2, FitsOne
<1>4. FitFrom(s1, 0, 1)
  BY <1>1, <1>3
<1>5. FitFrom(s2, 1, 1)
  BY <1>1, <1>3
<1>6. FitFrom(s3, 2, 1)
  BY <1>1, <1>3
<1>7. FitFrom(s4, 3, 1)
  BY <1>1, <1>3
<1>8. FitFrom(s5, 4, NUM_BUFFERS + 26)
  BY CameraFits
<1> HIDE DEF s1, s2, s3, s4, s5
<1>9. FitFrom(s1 \o s2, 0, 2)
  BY <1>4, <1>5, FitsJoined
<1>10. FitFrom((s1 \o s2) \o s3, 0, 3)
  BY <1>6, <1>9, FitsJoined
<1>11. FitFrom(((s1 \o s2) \o s3) \o s4, 0, 4)
  BY <1>7, <1>10, FitsJoined
<1>12. FitFrom((((s1 \o s2) \o s3) \o s4) \o s5, 0, NUM_BUFFERS + 30)
  <2>1. NUM_BUFFERS + 26 \in Nat /\ NUM_BUFFERS + 30 = 4 + (NUM_BUFFERS + 26)
    BY <1>2
  <2> QED BY <1>8, <1>11, <2>1, FitsJoined
<1>13. FitFrom(Script, 0, NUM_BUFFERS + 30)
  BY <1>12 DEF Script, s1, s2, s3, s4, s5
<1>14. CAPTURES = NUM_BUFFERS + 30
  BY <1>2 DEF CAPTURES, LAST_SETUP
<1>15. \A i \in 1..CAPTURES : 0 + i = i
  BY <1>2, <1>14
<1> QED BY <1>13, <1>14, <1>15 DEF FitFrom, ScriptFits

----------------------------------------------------------------------------
(* Messages.                                                               *)

USE DEF One

(* What a message to the VideoCore is like.                                *)
LEMMA VcFacts ==
  ASSUME NEW m \in ToVc
  PROVE  /\ m.type \in Synchronous \cup {"CONNECT", "OPEN", "IMPORT", "BUFFER_FROM_HOST"}
         /\ m.type = "OPEN" => m.on \in Services
         /\ m.type \in Synchronous => m.on \in Objects /\ m.ctx \in Callers
         /\ m.type = "IMPORT" => m.trans_id \in Nat
         /\ m.type = "BUFFER_FROM_HOST" => m.on \in Buffers /\ m.ctx \in Frames
         /\ "ctx" \in DOMAIN m <=> m.type \in Synchronous \cup {"BUFFER_FROM_HOST"}
<1>1. CASE m \in [type : {"CONNECT"}]
  BY <1>1 DEF Synchronous
<1>2. CASE m \in [type : {"OPEN"}, on : Services]
  BY <1>2 DEF Synchronous
<1>3. CASE m \in [type : Synchronous, on : Objects, ctx : Callers]
  BY <1>3 DEF Synchronous
<1>4. CASE m \in [type : {"IMPORT"}, on : Buffers, trans_id : Nat]
  BY <1>4 DEF Synchronous
<1>5. CASE m \in [type : {"BUFFER_FROM_HOST"}, on : Buffers, ctx : Frames]
  BY <1>5 DEF Synchronous
<1> QED BY <1>1, <1>2, <1>3, <1>4, <1>5 DEF ToVc

(* What a message to the ARM is like.                                      *)
LEMMA ArmFacts ==
  ASSUME NEW m \in ToArm
  PROVE  /\ m.type \in {"CONNECT", "OPENACK", "REPLY", "IMPORTED", "BUFFER_TO_HOST"}
         /\ m.type = "OPENACK" => m.on \in Services
         /\ m.type = "REPLY" => m.ctx \in Callers \cup Frames /\ m.status \in {"ok", "enabled", "error"}
         /\ m.type = "IMPORTED" => m.trans_id \in Nat
         /\ m.type = "BUFFER_TO_HOST" => m.on \in Buffers /\ m.eos \in BOOLEAN
         /\ "ctx" \in DOMAIN m <=> m.type = "REPLY"
<1>1. CASE m \in [type : {"CONNECT"}]
  BY <1>1
<1>2. CASE m \in [type : {"OPENACK"}, on : Services]
  BY <1>2
<1>3. CASE m \in [type : {"REPLY"}, ctx : Callers \cup Frames, status : {"ok", "enabled", "error"}]
  BY <1>3
<1>4. CASE m \in [type : {"IMPORTED"}, trans_id : Nat]
  BY <1>4
<1>5. CASE m \in [type : {"BUFFER_TO_HOST"}, on : Buffers, eos : BOOLEAN]
  BY <1>5
<1> QED BY <1>1, <1>2, <1>3, <1>4, <1>5 DEF ToArm

(* A message at the end of a queue.                                        *)
LEMMA Queued ==
  ASSUME NEW T, NEW q \in Seq(T), NEW m \in T
  PROVE  /\ Append(q, m) \in Seq(T) /\ Members(Append(q, m)) = Members(q) \cup {m}
         /\ Len(Append(q, m)) = Len(q) + 1
         /\ \A S : CountIn(Append(q, m), S) = CountIn(q, S) + One(m \in S)
<1>1. \A S : CountIn(Append(q, m), S) = CountIn(q, S) + One(m \in S)
  BY CountAppend
<1>2. Append(q, m) \in Seq(T) /\ Len(Append(q, m)) = Len(q) + 1
  OBVIOUS
<1>3. Members(Append(q, m)) = Members(q) \cup {m}
  BY AppendMembers
<1> QED BY <1>1, <1>2, <1>3

(* The message at the front of a queue.                                    *)
LEMMA Dequeued ==
  ASSUME NEW T, NEW q \in Seq(T), q # << >>
  PROVE  /\ Tail(q) \in Seq(T) /\ Members(Tail(q)) \subseteq Members(q)
         /\ Head(q) \in T /\ Head(q) \in Members(q)
         /\ Len(q) \in Nat /\ Len(q) >= 1 /\ Len(Tail(q)) = Len(q) - 1
         /\ \A S : CountIn(Tail(q), S) = CountIn(q, S) - One(Head(q) \in S)
<1>1. \A S : CountIn(Tail(q), S) = CountIn(q, S) - One(Head(q) \in S)
  BY CountTail
<1>2. /\ Tail(q) \in Seq(T) /\ Head(q) \in T /\ Len(q) \in Nat /\ Len(q) >= 1
      /\ Len(Tail(q)) = Len(q) - 1 /\ Head(q) = q[1]
      /\ \A i \in 1..(Len(q) - 1) : Tail(q)[i] = q[i + 1]
  OBVIOUS
<1>3. Head(q) \in Members(q)
  BY <1>2 DEF Members
<1>4. ASSUME NEW x \in Members(Tail(q)) PROVE x \in Members(q)
  <2>1. PICK i \in 1..Len(Tail(q)) : x = Tail(q)[i]
    BY DEF Members
  <2>2. i + 1 \in 1..Len(q) /\ x = q[i + 1]
    BY <1>2, <2>1
  <2> QED BY <2>2 DEF Members
<1> QED BY <1>1, <1>2, <1>3, <1>4

(* Counts of the three queues.                                             *)
LEMMA Counting ==
  ASSUME Typed
  PROVE  /\ \A S : CountIn(to_vc, S) \in Nat /\ (CountIn(to_vc, S) = 0 <=> Members(to_vc) \cap S = {})
         /\ \A S : CountIn(to_arm, S) \in Nat /\ (CountIn(to_arm, S) = 0 <=> Members(to_arm) \cap S = {})
         /\ \A S : CountIn(work, S) \in Nat /\ (CountIn(work, S) = 0 <=> Members(work) \cap S = {})
<1>1. to_vc \in Seq(ToVc) /\ to_arm \in Seq(ToArm) /\ work \in Seq(Works)
  BY DEF Typed
<1> QED BY <1>1, CountFacts

(* The numbers of the script's calls.                                      *)
LEMMA Numbers ==
  /\ NUM_BUFFERS \in Nat /\ NUM_BUFFERS >= 1 /\ LAST_SETUP = 28
  /\ SENDS = NUM_BUFFERS + 29 /\ CAPTURES = NUM_BUFFERS + 30 /\ Len(Script) = CAPTURES
BY MmalAssumption, ScriptAlwaysFits DEF SENDS, CAPTURES, LAST_SETUP, ScriptFits

(* The call the task is in.                                                *)
LEMMA HereFits ==
  ASSUME Placed, main \in {"call", "wait"}
  PROVE  at \in 1..CAPTURES /\ at \in Nat /\ Fits(Here, at)
<1>1. at \in 1..CAPTURES /\ at \in Nat
  BY Numbers DEF Placed
<1> QED BY <1>1, ScriptAlwaysFits DEF ScriptFits, Here

(* Going on to the next call.                                              *)
LEMMA Advances ==
  ASSUME NEW n \in Nat, at \in Nat, Advance(n)
  PROVE  /\ at' = at + n
         /\ main' = IF at + n > CAPTURES THEN "receive" ELSE "call"
BY Numbers DEF Advance

(* With nothing under way for the task there is nothing to fit.            *)
LEMMA NothingAwaited ==
  ASSUME Typed', CountIn(to_vc', MainVc) = 0, CountIn(to_arm', MainArm) = 0,
         answer'["main"] = "none", ~state_waitflag', ~Waits'
  PROVE  MainAwaited' /\ AnswersFit'
<1>1. MainAwaited'
  BY DEF MainAwaited, Typed
<1>2. to_vc' \in Seq(ToVc) /\ to_arm' \in Seq(ToArm)
  BY DEF Typed
<1>3. Members(to_vc') \cap MainVc = {} /\ Members(to_arm') \cap MainArm = {}
  BY <1>2, CountFacts
<1>4. Members(to_vc') \subseteq ToVc /\ Members(to_arm') \subseteq ToArm
  BY <1>2, MembersType
<1>5. ASSUME NEW m \in Members(to_vc') PROVE VcKind(m)'
  <2>1. m \in ToVc /\ m \notin MainVc
    BY <1>3, <1>4
  <2>2. m.type # "OPEN" /\ m.type # "IMPORT" /\ ~(m.type \in Synchronous /\ m.ctx = "main")
    BY <2>1 DEF MainVc
  <2> QED BY <2>2 DEF VcKind, VcFit
<1>6. ASSUME NEW m \in Members(to_arm') PROVE ArmKind(m)'
  <2>1. m \in ToArm /\ m \notin MainArm
    BY <1>3, <1>4
  <2>2. /\ m.type # "CONNECT" /\ m.type # "OPENACK" /\ m.type # "IMPORTED"
        /\ ~(m.type = "REPLY" /\ m.ctx = "main")
    BY <2>1 DEF MainArm
  <2> QED BY <2>2 DEF ArmKind, ArmFit
<1>7. AnswersFit'
  BY <1>5, <1>6 DEF AnswersFit
<1> QED BY <1>1, <1>7

(* A task that does not wait has nothing under way.                        *)
LEMMA NotWaiting ==
  ASSUME Typed, MainAwaited, ~Waits
  PROVE  /\ CountIn(to_vc, MainVc) = 0 /\ CountIn(to_arm, MainArm) = 0
         /\ answer["main"] = "none" /\ state_waitflag = FALSE
<1>1. CountIn(to_vc, MainVc) \in Nat /\ CountIn(to_arm, MainArm) \in Nat
  BY Counting
<1>2. state_waitflag \in BOOLEAN
  BY DEF Typed
<1> QED BY <1>1, <1>2 DEF MainAwaited

(* Only the task has moved: what circulates is as before.                  *)
LEMMA FlowKept ==
  ASSUME IInv, at' \in Nat, at' >= at, at' > at \/ main' # "call" \/ main' = main,
         UNCHANGED <<work, work_waitflag, io, vc>>, answer'["io"] = answer["io"],
         CountIn(to_vc', IoVc) = CountIn(to_vc, IoVc),
         CountIn(to_vc', CapVc) = CountIn(to_vc, CapVc),
         \A b \in Buffers : CountIn(to_vc', BufVc(b)) = CountIn(to_vc, BufVc(b)),
         CountIn(to_arm', IoArm) = CountIn(to_arm, IoArm),
         CountIn(to_arm', EosArm) = CountIn(to_arm, EosArm),
         \A b \in Buffers : CountIn(to_arm', BufArm(b)) = CountIn(to_arm, BufArm(b))
  PROVE  IoAwaited' /\ BuffersKept' /\ CapturesKept' /\ WakeUps'
<1>1. Typed /\ at \in Nat /\ IoAwaited /\ BuffersKept /\ CapturesKept /\ WakeUps
  BY DEF IInv, Placed
<1>2. SENDS \in Nat /\ CAPTURES \in Nat
  BY Numbers
<1>3. IoAwaited'
  BY <1>1 DEF IoAwaited
<1>4. ASSUME NEW b \in Buffers PROVE PlacesOf(b)' <= IF at' > SENDS THEN 1 ELSE 0
  <2>1. PlacesOf(b)' = PlacesOf(b) /\ PlacesOf(b) <= IF at > SENDS THEN 1 ELSE 0
    BY <1>1 DEF PlacesOf, BuffersKept
  <2>2. PlacesOf(b) \in Nat
    BY <1>1, Counting DEF PlacesOf
  <2> QED BY <1>1, <1>2, <2>1, <2>2
<1>5. BuffersKept'
  BY <1>4 DEF BuffersKept
<1>6. Captures' = Captures /\ Captures \in Nat
  BY <1>1, Counting DEF Captures
<1>7. CapturesKept'
  BY <1>1, <1>2, <1>6 DEF CapturesKept
<1>8. WakeUps'
  BY <1>1, <1>2 DEF WakeUps
<1> QED BY <1>3, <1>5, <1>7, <1>8

(* The task has not moved: its call is as before, and so is what was under *)
(* way for it; what is new for it is the answer to its call.               *)
LEMMA CallKept ==
  ASSUME IInv, Typed', UNCHANGED <<taskVars, pool, data_callback>>,
         \A m \in Members(to_vc') : m \in Members(to_vc) \/ m \notin MainVc,
         \A m \in Members(to_arm') :
           m \in Members(to_arm) \/ m \notin MainArm \/ ArmFit(m, Here, counters.vc, at),
         state_waitflag' => at = 1 \/ (Here.type = "OPEN" /\ opened'[Here.on]),
         answer'["main"] # "none" => Here.type \in Synchronous \cup {"IMPORT"}
  PROVE  Placed' /\ PortFilled' /\ PoolSound' /\ AnswersFit'
<1>1. Placed /\ PortFilled /\ PoolSound /\ AnswersFit
  BY DEF IInv
<1>2. /\ at' = at /\ main' = main /\ enabled' = enabled /\ port' = port /\ counters' = counters
      /\ pool' = pool /\ data_callback' = data_callback /\ Here' = Here
  BY DEF taskVars, Here
<1>3. Placed' /\ PortFilled' /\ PoolSound'
  BY <1>1, <1>2 DEF Placed, PortFilled, Imports, PoolSound, Importing
<1>4. Members(to_vc') \subseteq ToVc /\ Members(to_arm') \subseteq ToArm
  BY MembersType DEF Typed
<1>5. ASSUME NEW m \in Members(to_vc') PROVE VcKind(m)'
  <2>1. VcFit(m, Here, counters.vc)
    <3>1. CASE m \in Members(to_vc)
      BY <1>1, <3>1 DEF AnswersFit, VcKind
    <3>2. CASE m \notin MainVc
      BY <1>4, <3>2 DEF MainVc, VcFit
    <3> QED BY <3>1, <3>2
  <2> QED BY <1>2, <2>1 DEF VcKind
<1>6. ASSUME NEW m \in Members(to_arm') PROVE ArmKind(m)'
  <2>1. ArmFit(m, Here, counters.vc, at)
    <3>1. CASE m \in Members(to_arm)
      BY <1>1, <3>1 DEF AnswersFit, ArmKind
    <3>2. CASE m \notin MainArm
      BY <1>4, <3>2 DEF MainArm, ArmFit
    <3> QED BY <3>1, <3>2
  <2> QED BY <1>2, <2>1 DEF ArmKind
<1>7. AnswersFit'
  BY <1>1, <1>2, <1>5, <1>6 DEF AnswersFit
<1> QED BY <1>3, <1>7

(* Only what circulates has moved: the task's call is as before.           *)
LEMMA TaskKept ==
  ASSUME IInv, Typed', UNCHANGED <<taskVars, pool, state_waitflag, opened, data_callback>>,
         answer'["main"] = answer["main"],
         CountIn(to_vc', MainVc) = CountIn(to_vc, MainVc),
         CountIn(to_arm', MainArm) = CountIn(to_arm, MainArm),
         \A m \in Members(to_vc') : m \in Members(to_vc) \/ m \notin MainVc,
         \A m \in Members(to_arm') : m \in Members(to_arm) \/ m \notin MainArm
  PROVE  Placed' /\ PortFilled' /\ PoolSound' /\ MainAwaited' /\ AnswersFit'
<1>1. MainAwaited /\ AnswersFit
  BY DEF IInv
<1>2. MainAwaited'
  BY <1>1 DEF MainAwaited, Waits, taskVars
<1>3. /\ state_waitflag' => at = 1 \/ (Here.type = "OPEN" /\ opened'[Here.on])
      /\ answer'["main"] # "none" => Here.type \in Synchronous \cup {"IMPORT"}
  BY <1>1 DEF AnswersFit
<1> QED BY <1>2, <1>3, CallKept

(* The answer the task waited for has been noted down.                     *)
LEMMA WaitOver ==
  ASSUME Typed, MainAwaited, main = "wait", answer["main"] # "none", Typed',
         UNCHANGED <<to_vc, to_arm, state_waitflag>>, answer'["main"] = "none", ~Waits'
  PROVE  MainAwaited' /\ AnswersFit'
<1>1. CountIn(to_vc, MainVc) \in Nat /\ CountIn(to_arm, MainArm) \in Nat
  BY Counting
<1>2. state_waitflag \in BOOLEAN
  BY DEF Typed
<1>3. CountIn(to_vc, MainVc) = 0 /\ CountIn(to_arm, MainArm) = 0 /\ ~state_waitflag
  BY <1>1, <1>2 DEF MainAwaited, Waits
<1> QED BY <1>3, NothingAwaited

----------------------------------------------------------------------------
(* The task.                                                               *)

(* wait_on_waitflag of vchiq_handmade ends for the CONNECT.                *)
LEMMA WaitConnectInv == ASSUME IInv, WaitConnect PROVE IInv'
<1>1. /\ Typed /\ Placed /\ PortFilled /\ PoolSound /\ MainAwaited /\ AnswersFit
  BY DEF IInv
<1>2. /\ main = "call" /\ Here.type = "WAIT_CONNECT" /\ state_waitflag /\ state_waitflag' = FALSE
      /\ UNCHANGED <<to_vc, to_arm, opened, data_callback, answer, enabled, port, counters,
                     pool, work, work_waitflag, io, loop, vc>>
  BY DEF WaitConnect, ioVars
<1>3. at = 1
  BY <1>1, <1>2, HereFits DEF Fits
<1>4. at' = 2 /\ main' = "call"
  <2>1. Advance(1)
    BY DEF WaitConnect
  <2> QED BY <1>3, <2>1, Advances, Numbers
<1>5. Typed'
  BY <1>1, <1>2, <1>4 DEF Typed
<1>6. Placed'
  BY <1>1, <1>2, <1>4, Numbers DEF Placed
<1>7. PortFilled'
  BY <1>1, <1>2, <1>3, <1>4, Numbers DEF PortFilled, Imports
<1>8. PoolSound'
  BY <1>1, <1>2, <1>4 DEF PoolSound, Importing
<1>9. MainAwaited' /\ AnswersFit'
  <2>1. CountIn(to_vc, MainVc) \in Nat /\ CountIn(to_arm, MainArm) \in Nat
    BY <1>1, Counting
  <2>2. CountIn(to_vc, MainVc) = 0 /\ CountIn(to_arm, MainArm) = 0 /\ answer["main"] = "none"
    BY <1>1, <1>2, <2>1 DEF MainAwaited, Waits
  <2>3. ~Waits'
    BY <1>4 DEF Waits
  <2> QED BY <1>2, <1>5, <2>2, <2>3, NothingAwaited
<1>10. IoAwaited' /\ BuffersKept' /\ CapturesKept' /\ WakeUps'
  BY <1>2, <1>3, <1>4, FlowKept
<1> QED BY <1>5, <1>6, <1>7, <1>8, <1>9, <1>10 DEF IInv

(* vchiq_handmade_connect.                                                 *)
LEMMA ConnectInv == ASSUME IInv, Connect PROVE IInv'
<1> DEFINE m == [type |-> "CONNECT"]
<1>1. /\ Typed /\ Placed /\ PortFilled /\ PoolSound /\ MainAwaited /\ AnswersFit
  BY DEF IInv
<1>2. /\ main = "call" /\ Here.type = "CONNECT" /\ to_vc' = Append(to_vc, m)
      /\ UNCHANGED <<to_arm, state_waitflag, opened, data_callback, answer, enabled, port,
                     counters, pool, work, work_waitflag, io, loop, vc>>
  BY DEF Connect, ioVars, callVars, Send
<1>3. at = 2
  BY <1>1, <1>2, HereFits DEF Fits
<1>4. at' = 3 /\ main' = "call"
  <2>1. Advance(1)
    BY DEF Connect
  <2> QED BY <1>3, <2>1, Advances, Numbers
<1>5. /\ m \in ToVc /\ m \notin MainVc /\ m \notin IoVc /\ m \notin CapVc
      /\ \A b \in Buffers : m \notin BufVc(b)
  BY DEF ToVc, MainVc, IoVc, CapVc, BufVc, Synchronous
<1> HIDE DEF m
<1>6. /\ to_vc' \in Seq(ToVc)
      /\ \A S : CountIn(to_vc', S) = CountIn(to_vc, S) + One(m \in S)
  BY <1>1, <1>2, <1>5, Queued DEF Typed
<1>7. /\ CountIn(to_vc', MainVc) = CountIn(to_vc, MainVc)
      /\ CountIn(to_vc', IoVc) = CountIn(to_vc, IoVc)
      /\ CountIn(to_vc', CapVc) = CountIn(to_vc, CapVc)
      /\ \A b \in Buffers : CountIn(to_vc', BufVc(b)) = CountIn(to_vc, BufVc(b))
  BY <1>1, <1>5, <1>6, Counting
<1>8. Typed'
  BY <1>1, <1>2, <1>4, <1>6 DEF Typed
<1>9. Placed'
  BY <1>1, <1>2, <1>4, Numbers DEF Placed
<1>10. PortFilled'
  BY <1>1, <1>2, <1>3, <1>4, Numbers DEF PortFilled, Imports
<1>11. PoolSound'
  BY <1>1, <1>2, <1>4 DEF PoolSound, Importing
<1>12. MainAwaited' /\ AnswersFit'
  <2>1. ~Waits /\ ~Waits'
    BY <1>2, <1>3, <1>4 DEF Waits
  <2> QED BY <1>1, <1>2, <1>7, <1>8, <2>1, NotWaiting, NothingAwaited
<1>13. IoAwaited' /\ BuffersKept' /\ CapturesKept' /\ WakeUps'
  BY <1>2, <1>3, <1>4, <1>7, FlowKept
<1> QED BY <1>8, <1>9, <1>10, <1>11, <1>12, <1>13 DEF IInv

(* The task's request is the one thing under way for it.                   *)
LEMMA RequestAwaited ==
  ASSUME Typed, MainAwaited, ~Waits, Typed', NEW m \in MainVc, to_vc' = Append(to_vc, m),
         to_arm' = to_arm, answer' = answer, state_waitflag' = state_waitflag,
         main' = "wait", VcFit(m, Here', counters'.vc)
  PROVE  MainAwaited' /\ AnswersFit'
<1>1. /\ CountIn(to_vc, MainVc) = 0 /\ CountIn(to_arm, MainArm) = 0
      /\ answer["main"] = "none" /\ state_waitflag = FALSE
  BY NotWaiting
<1>2. m \in ToVc /\ to_vc \in Seq(ToVc) /\ to_arm \in Seq(ToArm)
  BY DEF MainVc, Typed
<1>3. CountIn(to_vc', MainVc) = 1 /\ Members(to_vc') = Members(to_vc) \cup {m}
  <2>1. /\ CountIn(Append(to_vc, m), MainVc) = CountIn(to_vc, MainVc) + One(m \in MainVc)
        /\ Members(Append(to_vc, m)) = Members(to_vc) \cup {m}
    BY <1>2, Queued
  <2> QED BY <1>1, <2>1
<1>4. MainAwaited'
  BY <1>1, <1>3 DEF MainAwaited, Waits
<1>5. Members(to_vc) \cap MainVc = {} /\ Members(to_arm) \cap MainArm = {}
  BY <1>1, <1>2, CountFacts
<1>6. Members(to_vc) \subseteq ToVc /\ Members(to_arm) \subseteq ToArm
  BY <1>2, MembersType
<1>7. ASSUME NEW x \in Members(to_vc') PROVE VcKind(x)'
  <2>1. CASE x = m
    BY <2>1 DEF VcKind
  <2>2. CASE x \in Members(to_vc)
    <3>1. x \in ToVc /\ x \notin MainVc
      BY <1>5, <1>6, <2>2
    <3> QED BY <3>1 DEF MainVc, VcKind, VcFit
  <2> QED BY <1>3, <2>1, <2>2
<1>8. ASSUME NEW x \in Members(to_arm') PROVE ArmKind(x)'
  <2>1. x \in ToArm /\ x \notin MainArm
    BY <1>5, <1>6
  <2> QED BY <2>1 DEF MainArm, ArmKind, ArmFit
<1>9. AnswersFit'
  BY <1>1, <1>7, <1>8 DEF AnswersFit
<1> QED BY <1>4, <1>9

(* vchiq_alloc_open_service.                                               *)
LEMMA OpenServiceInv == ASSUME IInv, OpenService PROVE IInv'
<1> DEFINE m == [type |-> "OPEN", on |-> Here.on]
<1>1. /\ Typed /\ Placed /\ PortFilled /\ PoolSound /\ MainAwaited /\ AnswersFit
  BY DEF IInv
<1>2. /\ main = "call" /\ Here.type = "OPEN" /\ to_vc' = Append(to_vc, m) /\ main' = "wait"
      /\ opened' = [opened EXCEPT ![Here.on] = FALSE]
      /\ UNCHANGED <<to_arm, state_waitflag, data_callback, at, answer, enabled, port,
                     counters, pool, work, work_waitflag, io, loop, vc>>
  BY DEF OpenService, ioVars, callVars, Send
<1>3. at \in {3, 4} /\ Here.on \in Services /\ Here' = Here
  <2>1. Fits(Here, at)
    BY <1>1, <1>2, HereFits
  <2> QED BY <1>2, <2>1 DEF Fits, Services, Here
<1>4. /\ m \in ToVc /\ m \in MainVc /\ m \notin IoVc /\ m \notin CapVc /\ m.type = "OPEN"
      /\ \A b \in Buffers : m \notin BufVc(b)
  BY <1>3 DEF ToVc, MainVc, IoVc, CapVc, BufVc, Synchronous
<1>5. VcFit(m, Here', counters'.vc)
  BY <1>2, <1>3 DEF VcFit, Synchronous
<1> HIDE DEF m
<1>6. /\ to_vc' \in Seq(ToVc)
      /\ \A S : CountIn(to_vc', S) = CountIn(to_vc, S) + One(m \in S)
  BY <1>1, <1>2, <1>4, Queued DEF Typed
<1>7. /\ CountIn(to_vc', IoVc) = CountIn(to_vc, IoVc)
      /\ CountIn(to_vc', CapVc) = CountIn(to_vc, CapVc)
      /\ \A b \in Buffers : CountIn(to_vc', BufVc(b)) = CountIn(to_vc, BufVc(b))
  BY <1>1, <1>4, <1>6, Counting
<1>8. Typed'
  BY <1>1, <1>2, <1>6 DEF Typed
<1>9. Placed'
  BY <1>1, <1>2, <1>3, Numbers DEF Placed
<1>10. PortFilled'
  BY <1>1, <1>2 DEF PortFilled, Imports
<1>11. PoolSound'
  BY <1>1, <1>2, <1>3 DEF PoolSound, Importing
<1>12. MainAwaited' /\ AnswersFit'
  <2>1. ~Waits
    BY <1>2, <1>3 DEF Waits
  <2> QED BY <1>1, <1>2, <1>4, <1>5, <1>8, <2>1, RequestAwaited
<1>13. IoAwaited' /\ BuffersKept' /\ CapturesKept' /\ WakeUps'
  BY <1>2, <1>3, <1>7, FlowKept
<1> QED BY <1>8, <1>9, <1>10, <1>11, <1>12, <1>13 DEF IInv

(* The wait of vchiq_open_service ends with the service open.              *)
LEMMA ServiceOpenInv == ASSUME IInv, ServiceOpen PROVE IInv'
<1>1. /\ Typed /\ Placed /\ PortFilled /\ PoolSound /\ MainAwaited /\ AnswersFit
  BY DEF IInv
<1>2. /\ main = "wait" /\ Here.type = "OPEN" /\ state_waitflag /\ state_waitflag' = FALSE
      /\ UNCHANGED <<to_vc, to_arm, opened, answer, enabled, port, counters,
                     pool, work, work_waitflag, io, loop, vc>>
  BY DEF ServiceOpen, ioVars
<1>3. at \in {3, 4} /\ Here.on = IF at = 3 THEN "mmal" ELSE "SMEM"
  <2>1. Fits(Here, at)
    BY <1>1, <1>2, HereFits
  <2> QED BY <1>2, <2>1 DEF Fits
<1>4. opened[Here.on]
  BY <1>1, <1>2, <1>3 DEF AnswersFit
<1>5. data_callback' = [data_callback EXCEPT ![Here.on] = TRUE] /\ Advance(1)
  BY <1>4 DEF ServiceOpen
<1>6. at' = at + 1 /\ main' = "call"
  BY <1>3, <1>5, Advances, Numbers
<1>7. Typed'
  BY <1>1, <1>2, <1>5, <1>6 DEF Typed
<1>8. Placed'
  <2>1. Here.on \in Services /\ {"mmal", "SMEM"} = Services
    BY <1>3 DEF Services
  <2>2. /\ at = 3 => data_callback'["mmal"]
        /\ at = 4 => data_callback'["mmal"] /\ data_callback'["SMEM"]
    BY <1>1, <1>3, <1>5, <2>1 DEF Placed, Typed
  <2> QED BY <1>1, <1>2, <1>3, <1>6, <2>2, Numbers DEF Placed
<1>9. PortFilled'
  BY <1>1, <1>2, <1>3, <1>6, Numbers DEF PortFilled, Imports
<1>10. PoolSound'
  BY <1>1, <1>2, <1>6 DEF PoolSound, Importing
<1>11. MainAwaited' /\ AnswersFit'
  <2>1. CountIn(to_vc, MainVc) \in Nat /\ CountIn(to_arm, MainArm) \in Nat
    BY <1>1, Counting
  <2>2. CountIn(to_vc, MainVc) = 0 /\ CountIn(to_arm, MainArm) = 0 /\ answer["main"] = "none"
    BY <1>1, <1>2, <2>1 DEF MainAwaited, Waits
  <2>3. ~Waits'
    BY <1>3, <1>6 DEF Waits
  <2> QED BY <1>2, <1>7, <2>2, <2>3, NothingAwaited
<1>12. IoAwaited' /\ BuffersKept' /\ CapturesKept' /\ WakeUps'
  BY <1>2, <1>3, <1>6, FlowKept
<1> QED BY <1>7, <1>8, <1>9, <1>10, <1>11, <1>12 DEF IInv

(* A synchronous call: where it may stand in the script.                   *)
LEMMA SynchronousPlace ==
  ASSUME Placed, main \in {"call", "wait"}, Here.type \in Synchronous
  PROVE  /\ at \in Nat /\ at > 4 /\ (at <= LAST_SETUP \/ at = CAPTURES)
         /\ at \in Nat /\ at <= CAPTURES /\ at > 4
         /\ Here.type = "CAPTURE" <=> at = CAPTURES
         /\ Here.on \in Objects /\ Here.fail \in Fails
         /\ Here.type \notin {"OPEN", "IMPORT"}
<1> DEFINE c == Here
<1>1. Fits(c, at) /\ at \in 1..CAPTURES /\ at \in Nat
  BY HereFits
<1> HIDE DEF c
<1>2. c.on \in Objects /\ c.fail \in Fails
  BY <1>1 DEF Fits, Calls
<1>3. c.type \notin {"WAIT_CONNECT", "CONNECT", "OPEN", "IMPORT", "SEND_ALL"}
  BY DEF Synchronous, c
<1>4. at \notin {1, 2, 3, 4} /\ at # SENDS /\ ~(at \in (LAST_SETUP + 1)..(LAST_SETUP + NUM_BUFFERS))
  BY <1>1, <1>3 DEF Fits
<1>5. c.type = "CAPTURE" <=> at = CAPTURES
  BY <1>1 DEF Fits
<1>6. at > 4 /\ (at <= LAST_SETUP \/ at = CAPTURES)
  BY <1>1, <1>4, Numbers
<1> QED BY <1>1, <1>2, <1>3, <1>5, <1>6 DEF c

(* VCHIQ_MMAL_MSG_COMMUNICATE_SYNC up to its wait.  Neither BUG is met, and *)
(* the first capture is the first.                                         *)
LEMMA AskInv == ASSUME IInv, Ask PROVE IInv'
<1> DEFINE m == Request("main", Here.type, Here.on)
<1>1. /\ Typed /\ Placed /\ PortFilled /\ PoolSound /\ MainAwaited /\ AnswersFit
      /\ IoAwaited /\ BuffersKept /\ CapturesKept /\ WakeUps
  BY DEF IInv
<1>2. main = "call" /\ Here.type \in Synchronous
  BY DEF Ask
<1>3. /\ at \in Nat /\ at > 4 /\ at <= CAPTURES /\ Here.on \in Objects
      /\ Here.type = "CAPTURE" <=> at = CAPTURES
  BY <1>1, <1>2, SynchronousPlace
<1>4. ~CallIsBug
  <2>1. Fits(Here, at)
    BY <1>1, <1>2, HereFits
  <2>2. Here.type = "COMPONENT_DISABLE" => at = 8 /\ Here.on = "info"
    BY <2>1 DEF Fits
  <2>3. Here.type = "COMPONENT_DESTROY" => at = 9 /\ Here.on = "info"
    BY <2>1 DEF Fits
  <2> QED BY <1>1, <2>2, <2>3 DEF CallIsBug, Placed
<1>5. /\ to_vc' = Append(to_vc, m) /\ main' = "wait"
      /\ UNCHANGED <<to_arm, state_waitflag, opened, data_callback, at, answer, enabled, port,
                     counters, pool, work, work_waitflag, io, loop, vc>>
  BY <1>4 DEF Ask, ioVars, callVars, Send
<1>6. Here' = Here
  BY <1>5 DEF Here
<1>7. m.type = Here.type /\ m.ctx = "main" /\ m \in ToVc
  BY <1>2, <1>3 DEF Request, ToVc, Callers
<1> HIDE DEF m
<1>8. /\ m \in MainVc /\ m \notin IoVc /\ (m \in CapVc <=> at = CAPTURES)
      /\ \A b \in Buffers : m \notin BufVc(b)
  BY <1>2, <1>3, <1>7 DEF MainVc, IoVc, CapVc, BufVc, Synchronous
<1>9. VcFit(m, Here', counters'.vc)
  BY <1>2, <1>6, <1>7 DEF VcFit, Synchronous
<1>10. /\ to_vc' \in Seq(ToVc)
       /\ \A S : CountIn(to_vc', S) = CountIn(to_vc, S) + One(m \in S)
  BY <1>1, <1>5, <1>7, Queued DEF Typed
<1>11. Typed'
  BY <1>1, <1>5, <1>10 DEF Typed
<1>12. Placed'
  BY <1>1, <1>2, <1>3, <1>5, <1>6 DEF Placed
<1>13. PortFilled'
  BY <1>1, <1>5 DEF PortFilled, Imports
<1>14. PoolSound'
  BY <1>1, <1>2, <1>5, <1>6 DEF PoolSound, Importing, Synchronous
<1>15. MainAwaited' /\ AnswersFit'
  <2>1. ~Waits
    BY <1>2, <1>3 DEF Waits
  <2> QED BY <1>1, <1>5, <1>8, <1>9, <1>11, <2>1, RequestAwaited
<1>16. /\ CountIn(to_vc', IoVc) = CountIn(to_vc, IoVc)
       /\ CountIn(to_vc', CapVc) = CountIn(to_vc, CapVc) + One(at = CAPTURES)
       /\ \A b \in Buffers : CountIn(to_vc', BufVc(b)) = CountIn(to_vc, BufVc(b))
  BY <1>1, <1>8, <1>10, Counting
<1>17. IoAwaited' /\ BuffersKept' /\ CapturesKept' /\ WakeUps'
  <2>1. CASE at # CAPTURES
    <3>1. CountIn(to_vc', CapVc) = CountIn(to_vc, CapVc)
      BY <1>1, <1>16, <2>1, Counting
    <3> QED BY <1>3, <1>5, <1>16, <3>1, FlowKept
  <2>2. CASE at = CAPTURES
    <3>1. IoAwaited'
      BY <1>1, <1>5, <1>16 DEF IoAwaited
    <3>2. BuffersKept'
      BY <1>1, <1>5, <1>16 DEF BuffersKept, PlacesOf
    <3>3. Captures \in Nat /\ Captures' = Captures + 1
      BY <1>1, <1>5, <1>16, <2>2, Counting DEF Captures
    <3>4. Captures = 0
      BY <1>1, <1>2, <2>2, <3>3, Numbers DEF CapturesKept
    <3>5. CapturesKept'
      BY <1>5, <2>2, <3>3, <3>4 DEF CapturesKept
    <3>6. WakeUps'
      BY <1>1, <1>5 DEF WakeUps
    <3> QED BY <3>1, <3>2, <3>5, <3>6
  <2> QED BY <2>1, <2>2
<1> QED BY <1>11, <1>12, <1>13, <1>14, <1>15, <1>17 DEF IInv

(* The task has gone on: what the pool and the port hold stands.           *)
LEMMA MovedOn ==
  ASSUME PoolSound, PortFilled, UNCHANGED <<pool, counters>>, ~Importing, main' # "wait",
         port'.buffers = port.buffers, Imports' = Imports
  PROVE  PoolSound' /\ PortFilled'
<1>1. PoolSound'
  BY DEF PoolSound, Importing
<1>2. PortFilled'
  BY DEF PortFilled
<1> QED BY <1>1, <1>2

(* vchiq_mmal_port_enable of a port that is enabled.                       *)
LEMMA SkipEnableInv == ASSUME IInv, SkipEnable PROVE IInv'
<1>1. /\ Typed /\ Placed /\ PortFilled /\ PoolSound /\ MainAwaited /\ AnswersFit
  BY DEF IInv
<1>2. /\ main = "call" /\ Here.type = "PORT_ENABLE"
      /\ UNCHANGED <<to_vc, to_arm, state_waitflag, opened, data_callback, answer, enabled, port,
                     counters, pool, work, work_waitflag, io, loop, vc>>
  BY DEF SkipEnable, ioVars, callVars
<1>3. at = LAST_SETUP - 1 /\ at = 27
  BY <1>1, <1>2, HereFits, Numbers DEF Fits
<1>4. at' = 29 /\ main' = "call"
  <2>1. Advance(2)
    BY DEF SkipEnable
  <2> QED BY <1>3, <2>1, Advances, Numbers
<1>5. Typed'
  BY <1>1, <1>2, <1>4 DEF Typed
<1>6. Placed'
  BY <1>1, <1>2, <1>3, <1>4, Numbers DEF Placed
<1>7. PoolSound' /\ PortFilled'
  <2>1. Imports' = Imports
    BY <1>3, <1>4, Numbers DEF Imports
  <2>2. ~Importing
    BY <1>2 DEF Importing
  <2> QED BY <1>1, <1>2, <1>4, <2>1, <2>2, MovedOn
<1>8. MainAwaited' /\ AnswersFit'
  <2>1. ~Waits /\ ~Waits'
    BY <1>2, <1>3, <1>4 DEF Waits
  <2> QED BY <1>1, <1>2, <1>5, <2>1, NotWaiting, NothingAwaited
<1>9. IoAwaited' /\ BuffersKept' /\ CapturesKept' /\ WakeUps'
  BY <1>2, <1>3, <1>4, FlowKept
<1> QED BY <1>5, <1>6, <1>7, <1>8, <1>9 DEF IInv

(* The end of a synchronous call, whatever the answer was.                 *)
LEMMA CallEnds ==
  ASSUME IInv, main = "wait", Here.type \in Synchronous, answer["main"] # "none",
         answer' = [answer EXCEPT !["main"] = "none"], Typed',
         UNCHANGED <<to_vc, to_arm, callVars, counters, pool, ioVars, vc>>,
         port'.buffers = port.buffers,
         \/ at' = at + 1 /\ main' = IF at + 1 > CAPTURES THEN "receive" ELSE "call"
         \/ at' = at /\ main' \in {"stopped", "fault"},
         at' \in 6..8 => enabled'["info"], at' = 9 => ~enabled'["info"]
  PROVE  IInv'
<1>1. /\ Typed /\ Placed /\ PortFilled /\ PoolSound /\ MainAwaited /\ AnswersFit
  BY DEF IInv
<1>2. /\ at \in Nat /\ at > 4 /\ at <= CAPTURES /\ (at <= LAST_SETUP \/ at = CAPTURES)
      /\ Here.type # "IMPORT"
  BY <1>1, SynchronousPlace
<1>3. at' \in {at, at + 1} /\ main' # "wait" /\ (main' = "call" => at' <= CAPTURES)
      /\ (at' > at \/ main' # "call") /\ at' \in Nat
  BY <1>2, Numbers
<1>4. UNCHANGED <<to_vc, to_arm, state_waitflag, opened, data_callback, counters, pool, work,
                  work_waitflag, io, loop, vc>>
  BY DEF callVars, ioVars
<1>5. Placed'
  BY <1>1, <1>2, <1>3, <1>4, Numbers DEF Placed
<1>6. PoolSound' /\ PortFilled'
  <2>1. Imports' = Imports
    <3>1. CASE at <= LAST_SETUP
      BY <1>2, <1>3, <3>1, Numbers DEF Imports
    <3>2. CASE at = CAPTURES
      <4>1. ~(at <= LAST_SETUP) /\ ~(at < SENDS)
        BY <3>2, Numbers
      <4>2. ~(at' <= LAST_SETUP) /\ ~(at' < SENDS)
        BY <1>3, <3>2, Numbers
      <4> QED BY <4>1, <4>2 DEF Imports, SENDS, LAST_SETUP
    <3> QED BY <1>2, <3>1, <3>2
  <2>2. ~Importing
    BY <1>2 DEF Importing
  <2> QED BY <1>1, <1>3, <1>4, <2>1, <2>2, MovedOn
<1>7. answer'["main"] = "none" /\ answer'["io"] = answer["io"]
  BY <1>1 DEF Typed, Callers
<1>8. MainAwaited' /\ AnswersFit'
  <2>1. ~Waits'
    BY <1>2, <1>3 DEF Waits
  <2> QED BY <1>1, <1>4, <1>7, <2>1, WaitOver
<1>9. IoAwaited' /\ BuffersKept' /\ CapturesKept' /\ WakeUps'
  <2>1. at' \in Nat /\ at' >= at
    BY <1>2, <1>3
  <2> QED BY <1>3, <1>4, <1>7, <2>1, FlowKept
<1> QED BY <1>5, <1>6, <1>8, <1>9 DEF IInv

(* The wait ends with a success: the component of vchiq_mmal_get_cam_info  *)
(* is enabled from its creation until it is disabled.                      *)
LEMMA AnsweredInv == ASSUME IInv, Answered PROVE IInv'
<1>1. Typed /\ Placed
  BY DEF IInv
<1>2. /\ main = "wait" /\ Here.type \in Synchronous /\ answer["main"] \in {"ok", "enabled"}
      /\ Note(Here.type, Here.on, answer["main"] = "enabled")
      /\ answer' = [answer EXCEPT !["main"] = "none"] /\ Advance(1)
      /\ UNCHANGED <<to_vc, to_arm, callVars, counters, pool, ioVars, vc>>
  BY DEF Answered
<1>3. at \in Nat /\ at > 4 /\ at <= CAPTURES
  BY <1>1, <1>2, SynchronousPlace
<1>4. at' = at + 1 /\ main' = IF at + 1 > CAPTURES THEN "receive" ELSE "call"
  BY <1>2, <1>3, Advances
<1> DEFINE type == Here.type
           on == Here.on
           e == answer["main"] = "enabled"
<1>5. Fits(Here, at)
  BY <1>1, <1>2, HereFits
<1>6. /\ type = "COMPONENT_CREATE" => on \in Components
      /\ at = 5 => type = "COMPONENT_CREATE" /\ on = "info"
      /\ at \in 6..7 => type # "COMPONENT_CREATE"
      /\ type = "COMPONENT_DISABLE" <=> at = 8
      /\ at = 8 => on = "info"
  BY <1>5 DEF Fits
<1>7. Note(type, on, e) /\ e \in BOOLEAN
  BY <1>2
<1> HIDE DEF type, on, e
<1>8. /\ enabled' = CASE type = "COMPONENT_CREATE"  -> [enabled EXCEPT ![on] = TRUE]
                      [] type = "COMPONENT_DISABLE" -> [enabled EXCEPT ![on] = FALSE]
                      [] OTHER -> enabled
      /\ port' = CASE type = "PORT_ENABLE" -> [port EXCEPT !.enabled = TRUE]
                   [] type = "PORT_INFO_GET" /\ on = "still" -> [port EXCEPT !.enabled = e]
                   [] type = "ZERO_COPY" -> [port EXCEPT !.zero_copy = TRUE]
                   [] OTHER -> port
  BY <1>7 DEF Note
<1>9. enabled \in [Components -> BOOLEAN]
      /\ port \in [enabled : BOOLEAN, zero_copy : BOOLEAN, buffers : Seq(Buffers)]
  BY <1>1 DEF Typed
<1>10. port' \in [enabled : BOOLEAN, zero_copy : BOOLEAN, buffers : Seq(Buffers)]
       /\ port'.buffers = port.buffers
  <2>1. CASE type = "PORT_ENABLE"
    BY <1>8, <1>9, <2>1
  <2>2. CASE type = "PORT_INFO_GET" /\ on = "still"
    BY <1>7, <1>8, <1>9, <2>2
  <2>3. CASE type = "ZERO_COPY"
    BY <1>8, <1>9, <2>3
  <2>4. CASE ~(type = "PORT_ENABLE") /\ ~(type = "PORT_INFO_GET" /\ on = "still") /\ ~(type = "ZERO_COPY")
    BY <1>8, <1>9, <2>4
  <2> QED BY <2>1, <2>2, <2>3, <2>4
<1>11. enabled' \in [Components -> BOOLEAN]
       /\ (at' \in 6..8 => enabled'["info"]) /\ (at' = 9 => ~enabled'["info"])
  <2>0. "info" \in Components
    BY DEF Components
  <2>1. CASE type = "COMPONENT_CREATE"
    <3>1. enabled' = [enabled EXCEPT ![on] = TRUE]
      BY <1>8, <2>1
    <3>2. at' = 9 => FALSE
      BY <1>3, <1>4, <1>6, <2>1
    <3>3. at' \in 6..8 => at = 5
      BY <1>3, <1>4, <1>6, <2>1
    <3> QED BY <1>6, <1>9, <2>0, <2>1, <3>1, <3>2, <3>3
  <2>2. CASE type = "COMPONENT_DISABLE"
    <3>1. enabled' = [enabled EXCEPT ![on] = FALSE]
      BY <1>8, <2>2
    <3>2. at = 8 /\ at' = 9 /\ on = "info"
      BY <1>3, <1>4, <1>6, <2>2
    <3> QED BY <1>9, <2>0, <3>1, <3>2
  <2>3. CASE type # "COMPONENT_CREATE" /\ type # "COMPONENT_DISABLE"
    <3>1. enabled' = enabled
      BY <1>8, <2>3
    <3>2. at # 5 /\ at # 8
      BY <1>6, <2>3
    <3>3. at' \in 6..8 => at \in 6..8
      BY <1>3, <1>4, <3>2
    <3>4. at' # 9
      BY <1>3, <1>4, <3>2
    <3> QED BY <1>1, <1>9, <3>1, <3>3, <3>4 DEF Placed
  <2> QED BY <2>1, <2>2, <2>3
<1>12. answer' \in [Callers -> {"none", "ok", "enabled", "error"}]
  BY <1>1, <1>2 DEF Typed
<1>13. main' \in {"call", "wait", "receive", "stopped", "fault"}
  BY <1>4
<1>14. Typed'
  BY <1>1, <1>2, <1>10, <1>11, <1>12, <1>13 DEF Typed, callVars, ioVars
<1> QED BY <1>2, <1>4, <1>10, <1>11, <1>14, CallEnds

(* The wait ends with an error.                                            *)
LEMMA RefusedInv == ASSUME IInv, Refused PROVE IInv'
<1>1. Typed /\ Placed
  BY DEF IInv
<1>2. /\ main = "wait" /\ Here.type \in Synchronous /\ answer["main"] = "error"
      /\ answer' = [answer EXCEPT !["main"] = "none"]
      /\ UNCHANGED <<to_vc, to_arm, callVars, enabled, port, counters, pool, ioVars, vc>>
  BY DEF Refused
<1>3. at \in Nat /\ at > 4 /\ at <= CAPTURES /\ Here.fail \in Fails
  BY <1>1, <1>2, SynchronousPlace
<1>4. \/ Here.fail = "ignore" /\ at' = at + 1 /\ main' = IF at + 1 > CAPTURES THEN "receive" ELSE "call"
      \/ at' = at /\ main' \in {"stopped", "fault"}
  <2>1. CASE Here.fail = "ignore"
    <3>1. Advance(1)
      BY <2>1 DEF Refused
    <3> QED BY <1>3, <2>1, <3>1, Advances
  <2>2. CASE Here.fail = "abort"
    BY <2>2 DEF Refused
  <2>3. CASE Here.fail = "fault"
    BY <2>3 DEF Refused
  <2> QED BY <1>3, <2>1, <2>2, <2>3 DEF Fails
<1>5. Fits(Here, at)
  BY <1>1, <1>2, HereFits
<1>6. Here.fail = "ignore" => at # 5 /\ at # 8
  BY <1>5 DEF Fits
<1>7. (at' \in 6..8 => enabled'["info"]) /\ (at' = 9 => ~enabled'["info"])
  BY <1>1, <1>2, <1>3, <1>4, <1>6 DEF Placed
<1>8. answer' \in [Callers -> {"none", "ok", "enabled", "error"}]
  BY <1>1, <1>2 DEF Typed
<1>9. main' \in {"call", "wait", "receive", "stopped", "fault"}
  BY <1>4
<1>10. Typed'
  BY <1>1, <1>2, <1>8, <1>9 DEF Typed, callVars, ioVars
<1> QED BY <1>2, <1>4, <1>7, <1>10, CallEnds

(* An import: where it stands in the script.                               *)
LEMMA ImportPlace ==
  ASSUME Placed, main \in {"call", "wait"}, Here.type = "IMPORT"
  PROVE  /\ at \in Nat /\ at > LAST_SETUP /\ at < SENDS
         /\ Here.on = at - LAST_SETUP /\ Here.on \in Buffers
<1> DEFINE c == Here
<1>1. Fits(c, at) /\ at \in Nat /\ c.type = "IMPORT"
  BY HereFits
<1> HIDE DEF c
<1>2. at \in (LAST_SETUP + 1)..(LAST_SETUP + NUM_BUFFERS) /\ c.on = at - LAST_SETUP
  BY <1>1 DEF Fits
<1>3. at > LAST_SETUP /\ at < SENDS /\ at - LAST_SETUP \in 1..NUM_BUFFERS
  BY <1>1, <1>2, Numbers
<1> QED BY <1>1, <1>2, <1>3 DEF c, Buffers

(* vc_sm_cma_vchi_send_msg up to its wait: the first context is free, and  *)
(* the two counters agree.                                                 *)
LEMMA ImportInv == ASSUME IInv, Import PROVE IInv'
<1> DEFINE id == counters.vc
           m == [type |-> "IMPORT", on |-> Here.on, trans_id |-> id]
<1>1. /\ Typed /\ Placed /\ PortFilled /\ PoolSound /\ MainAwaited /\ AnswersFit
  BY DEF IInv
<1>2. main = "call" /\ Here.type = "IMPORT"
  BY DEF Import
<1>3. /\ at \in Nat /\ at > LAST_SETUP /\ at < SENDS /\ Here.on \in Buffers
  BY <1>1, <1>2, ImportPlace
<1>4. id \in Nat /\ counters.mems = id /\ counters.mems + 1 > 0 /\ (counters.mems + 1) - 1 = id
  BY <1>1 DEF PoolSound
<1>5. 1 \in FreeContexts /\ FirstFree = 1
  <2>1. 1 \in 1..POOL_SIZE /\ ~Importing
    BY <1>2, MmalAssumption DEF Importing
  <2>2. 1 \in FreeContexts
    BY <1>1, <2>1 DEF FreeContexts, PoolSound
  <2>3. \A j \in FreeContexts : j \in Int /\ 1 <= j
    BY DEF FreeContexts
  <2>4. FirstFree \in FreeContexts /\ \A j \in FreeContexts : FirstFree <= j
    BY <2>2, <2>3 DEF FirstFree
  <2>5. FirstFree <= 1 /\ 1 <= FirstFree /\ FirstFree \in Int
    BY <2>2, <2>3, <2>4
  <2> QED BY <2>2, <2>5
<1>6. /\ pool' = [pool EXCEPT ![1] = [active |-> TRUE, trans_id |-> counters.mems]]
      /\ to_vc' = Append(to_vc, m) /\ main' = "wait"
      /\ counters' = [mems |-> counters.mems + 1, vc |-> counters.vc + 1]
  BY <1>5 DEF Import, Send
<1>7. UNCHANGED <<to_arm, state_waitflag, opened, data_callback, at, answer, enabled, port,
                  work, work_waitflag, io, loop, vc>>
  BY DEF Import, ioVars, callVars
<1>8. Here' = Here
  BY <1>7 DEF Here
<1>9. m \in ToVc /\ m.type = "IMPORT" /\ m.trans_id = id
  BY <1>3, <1>4 DEF ToVc
<1> HIDE DEF m
<1>10. /\ m \in MainVc /\ m \notin IoVc /\ m \notin CapVc /\ \A b \in Buffers : m \notin BufVc(b)
  BY <1>9 DEF MainVc, IoVc, CapVc, BufVc, Synchronous
<1>11. VcFit(m, Here', counters'.vc)
  <2>1. counters'.vc - 1 = id
    BY <1>4, <1>6
  <2> QED BY <1>2, <1>8, <1>9, <2>1 DEF VcFit, Synchronous
<1>12. /\ to_vc' \in Seq(ToVc)
       /\ \A S : CountIn(to_vc', S) = CountIn(to_vc, S) + One(m \in S)
  BY <1>1, <1>6, <1>9, Queued DEF Typed
<1>13. Typed'
  BY <1>1, <1>6, <1>7, <1>12 DEF Typed
<1>14. Placed'
  BY <1>1, <1>2, <1>6, <1>7, <1>8 DEF Placed
<1>15. PortFilled'
  BY <1>1, <1>7 DEF PortFilled, Imports
<1>16. PoolSound'
  <2> DEFINE k == counters.mems
  <2>1. k \in Nat /\ pool \in [1..POOL_SIZE -> [active : BOOLEAN, trans_id : Nat]]
        /\ (\A i \in 2..POOL_SIZE : ~pool[i].active) /\ counters.vc = k
    BY <1>1, <1>4 DEF PoolSound
  <2> HIDE DEF k
  <2>2. 1 \in 1..POOL_SIZE /\ POOL_SIZE \in Nat /\ \A i \in 2..POOL_SIZE : i \in 1..POOL_SIZE /\ i # 1
    BY MmalAssumption
  <2>3. /\ pool' \in [1..POOL_SIZE -> [active : BOOLEAN, trans_id : Nat]]
        /\ pool'[1] = [active |-> TRUE, trans_id |-> k]
        /\ \A i \in 2..POOL_SIZE : pool'[i] = pool[i]
    BY <1>6, <2>1, <2>2 DEF k
  <2>4. counters' = [mems |-> k + 1, vc |-> k + 1]
    BY <1>6, <2>1 DEF k
  <2>5. counters'.mems = k + 1 /\ counters'.mems \in Nat /\ counters'.mems > 0
        /\ counters'.mems - 1 = k
        /\ counters' = [mems |-> counters'.mems, vc |-> counters'.mems]
    BY <2>1, <2>4
  <2>6. Importing'
    BY <1>2, <1>6, <1>8 DEF Importing
  <2>7. pool'[1].active /\ pool'[1].trans_id = k
    BY <2>3
  <2> QED BY <2>1, <2>3, <2>5, <2>6, <2>7 DEF PoolSound
<1>17. MainAwaited' /\ AnswersFit'
  <2>1. ~Waits
    BY <1>2, <1>3, Numbers DEF Waits
  <2> QED BY <1>1, <1>6, <1>7, <1>10, <1>11, <1>13, <2>1, RequestAwaited
<1>18. /\ CountIn(to_vc', IoVc) = CountIn(to_vc, IoVc)
       /\ CountIn(to_vc', CapVc) = CountIn(to_vc, CapVc)
       /\ \A b \in Buffers : CountIn(to_vc', BufVc(b)) = CountIn(to_vc, BufVc(b))
  BY <1>1, <1>10, <1>12, Counting
<1>19. IoAwaited' /\ BuffersKept' /\ CapturesKept' /\ WakeUps'
  BY <1>3, <1>6, <1>7, <1>18, FlowKept
<1> QED BY <1>13, <1>14, <1>15, <1>16, <1>17, <1>19 DEF IInv

(* The wait for an import ends: its context is free again, and its buffer  *)
(* is the next one of the port.                                            *)
LEMMA ImportedInv == ASSUME IInv, Imported PROVE IInv'
<1>1. /\ Typed /\ Placed /\ PortFilled /\ PoolSound /\ MainAwaited /\ AnswersFit
  BY DEF IInv
<1>2. /\ main = "wait" /\ Here.type = "IMPORT" /\ answer["main"] = "ok"
      /\ answer' = [answer EXCEPT !["main"] = "none"]
      /\ pool' = [i \in 1..POOL_SIZE |->
                    IF pool[i].trans_id = counters.mems - 1
                      THEN [pool[i] EXCEPT !.active = FALSE] ELSE pool[i]]
      /\ port' = [port EXCEPT !.buffers = Append(@, Here.on)]
      /\ Advance(1)
      /\ UNCHANGED <<to_vc, to_arm, state_waitflag, opened, data_callback, enabled, counters,
                     work, work_waitflag, io, loop, vc>>
  BY DEF Imported, callVars, ioVars
<1>3. /\ at \in Nat /\ at > LAST_SETUP /\ at < SENDS
      /\ Here.on = at - LAST_SETUP /\ Here.on \in Buffers
  BY <1>1, <1>2, ImportPlace
<1>4. at' = at + 1 /\ main' = "call" /\ at + 1 <= SENDS /\ at + 1 <= CAPTURES
  BY <1>2, <1>3, Advances, Numbers
<1>5. port'.buffers = Append(port.buffers, Here.on) /\ port.buffers \in Seq(Buffers)
  BY <1>1, <1>2 DEF Typed
<1>6. port' \in [enabled : BOOLEAN, zero_copy : BOOLEAN, buffers : Seq(Buffers)]
  <2>1. port'.buffers \in Seq(Buffers)
    BY <1>3, <1>5
  <2> QED BY <1>1, <1>2, <2>1 DEF Typed
<1>7. /\ answer' \in [Callers -> {"none", "ok", "enabled", "error"}]
      /\ answer'["main"] = "none" /\ answer'["io"] = answer["io"]
  BY <1>1, <1>2 DEF Typed, Callers
<1>8. Typed'
  BY <1>1, <1>2, <1>4, <1>6, <1>7 DEF Typed
<1>9. Placed'
  BY <1>1, <1>2, <1>3, <1>4, Numbers DEF Placed
<1>10. PortFilled'
  <2> DEFINE n == at - LAST_SETUP - 1
             p == port.buffers
  <2>1. Imports = n /\ n \in Nat /\ Here.on = n + 1
    BY <1>3, Numbers DEF Imports
  <2>2. Imports' = n + 1
    <3>1. CASE at + 1 < SENDS
      BY <1>3, <1>4, <3>1, Numbers DEF Imports
    <3>2. CASE at + 1 = SENDS
      BY <1>3, <1>4, <3>2, Numbers DEF Imports
    <3> QED BY <1>3, <1>4, <3>1, <3>2, Numbers
  <2>3. Len(p) = n /\ (\A i \in 1..n : p[i] = i) /\ p \in Seq(Buffers)
    BY <1>1, <1>5, <2>1 DEF PortFilled
  <2> HIDE DEF n, p
  <2>4. port'.buffers = Append(p, n + 1)
    BY <1>5, <2>1 DEF p
  <2>5. n + 1 \in Buffers
    BY <1>3, <2>1
  <2>6. /\ Len(Append(p, n + 1)) = n + 1
        /\ \A i \in 1..(n + 1) : Append(p, n + 1)[i] = i
    BY <2>1, <2>3, <2>5, AppendProperties
  <2> QED BY <2>2, <2>4, <2>6 DEF PortFilled
<1>11. PoolSound'
  <2> DEFINE k == counters.mems
  <2>1. /\ k \in Nat /\ pool \in [1..POOL_SIZE -> [active : BOOLEAN, trans_id : Nat]]
        /\ \A i \in 2..POOL_SIZE : ~pool[i].active
        /\ counters = [mems |-> k, vc |-> k]
        /\ pool[1].trans_id = k - 1
    BY <1>1, <1>2 DEF PoolSound, Importing
  <2>2. 1 \in 1..POOL_SIZE /\ POOL_SIZE \in Nat /\ \A i \in 2..POOL_SIZE : i \in 1..POOL_SIZE /\ i # 1
    BY MmalAssumption
  <2>3. pool' = [i \in 1..POOL_SIZE |->
                   IF pool[i].trans_id = k - 1 THEN [pool[i] EXCEPT !.active = FALSE] ELSE pool[i]]
    BY <1>2
  <2> HIDE DEF k
  <2>4. pool' \in [1..POOL_SIZE -> [active : BOOLEAN, trans_id : Nat]]
    BY <2>1, <2>3
  <2>5. \A i \in 1..POOL_SIZE : pool'[i].active => pool[i].active /\ pool[i].trans_id # k - 1
    BY <2>1, <2>3
  <2>6. ~Importing'
    BY <1>4 DEF Importing
  <2>7. counters'.mems \in Nat /\ counters' = [mems |-> counters'.mems, vc |-> counters'.mems]
    BY <1>2, <2>1 DEF k
  <2> QED BY <2>1, <2>2, <2>4, <2>5, <2>6, <2>7 DEF PoolSound
<1>12. MainAwaited' /\ AnswersFit'
  <2>1. ~Waits'
    BY <1>3, <1>4, Numbers DEF Waits
  <2> QED BY <1>1, <1>2, <1>7, <1>8, <2>1, WaitOver
<1>13. IoAwaited' /\ BuffersKept' /\ CapturesKept' /\ WakeUps'
  <2>1. at' \in Nat /\ at' > at
    BY <1>3, <1>4
  <2> QED BY <1>2, <1>3, <1>4, <1>7, <2>1, FlowKept
<1> QED BY <1>8, <1>9, <1>10, <1>11, <1>12, <1>13 DEF IInv

(* mmal_port_buffer_send_all: every buffer goes out, each once.            *)
LEMMA SendAllInv == ASSUME IInv, SendAll PROVE IInv'
<1> DEFINE p == port.buffers
           f == [i \in 1..Len(p) |-> BufferFromHost("main_frame", p[i])]
<1>1. /\ Typed /\ Placed /\ PortFilled /\ PoolSound /\ MainAwaited /\ AnswersFit
      /\ IoAwaited /\ BuffersKept /\ CapturesKept /\ WakeUps
  BY DEF IInv
<1>2. main = "call" /\ Here.type = "SEND_ALL"
  BY DEF SendAll
<1>3. at = SENDS /\ at \in Nat /\ at > LAST_SETUP
  BY <1>1, <1>2, HereFits, Numbers DEF Fits
<1>4. Len(p) = NUM_BUFFERS /\ (\A i \in 1..NUM_BUFFERS : p[i] = i)
  BY <1>1, <1>3, Numbers DEF PortFilled, Imports
<1>5. p # << >>
  BY <1>4, Numbers
<1>6. /\ to_vc' = to_vc \o f /\ Advance(1)
      /\ UNCHANGED <<to_arm, state_waitflag, opened, data_callback, answer, enabled, port,
                     counters, pool, work, work_waitflag, io, loop, vc>>
  BY <1>5 DEF SendAll, callVars, ioVars
<1>7. at' = CAPTURES /\ main' = "call"
  BY <1>3, <1>6, Advances, Numbers
<1>8. f = [i \in 1..NUM_BUFFERS |-> [type |-> "BUFFER_FROM_HOST", on |-> i, ctx |-> "main_frame"]]
  BY <1>4 DEF BufferFromHost
<1> HIDE DEF f, p
<1>9. /\ f \in Seq(ToVc) /\ Len(f) = NUM_BUFFERS
      /\ \A i \in 1..NUM_BUFFERS :
           f[i] = [type |-> "BUFFER_FROM_HOST", on |-> i, ctx |-> "main_frame"]
  <2>1. f \in [1..NUM_BUFFERS -> ToVc]
    BY <1>8 DEF ToVc, Buffers, Frames
  <2>2. f \in Seq(ToVc) /\ Len(f) = NUM_BUFFERS
    BY <2>1, Numbers, GivenEach
  <2> QED BY <1>8, <2>2
<1>10. ASSUME NEW m \in Members(f)
       PROVE  m \notin MainVc /\ m \notin IoVc /\ m \notin CapVc
  <2>1. PICK i \in 1..NUM_BUFFERS :
          m = [type |-> "BUFFER_FROM_HOST", on |-> i, ctx |-> "main_frame"]
    BY <1>9 DEF Members
  <2>2. m.type = "BUFFER_FROM_HOST"
    BY <2>1
  <2> QED BY <2>2 DEF MainVc, IoVc, CapVc, Synchronous
<1>11. CountIn(f, MainVc) = 0 /\ CountIn(f, IoVc) = 0 /\ CountIn(f, CapVc) = 0
  <2>1. Members(f) \cap MainVc = {} /\ Members(f) \cap IoVc = {} /\ Members(f) \cap CapVc = {}
    BY <1>10
  <2> QED BY <1>9, <2>1, CountFacts
<1>12. ASSUME NEW b \in Buffers PROVE CountIn(f, BufVc(b)) <= 1 /\ CountIn(f, BufVc(b)) \in Nat
  <2>1. \A i \in 1..Len(f) : f[i] \in BufVc(b) => i = b
    <3> TAKE i \in 1..Len(f)
    <3>1. f[i].on = i
      BY <1>9
    <3> QED BY <3>1 DEF BufVc
  <2>2. \A i, j \in 1..Len(f) : f[i] \in BufVc(b) /\ f[j] \in BufVc(b) => i = j
    BY <2>1
  <2> QED BY <1>9, <2>2, CountOnce, CountFacts
<1>13. /\ to_vc' \in Seq(ToVc)
       /\ \A S : CountIn(to_vc', S) = CountIn(to_vc, S) + CountIn(f, S)
  <2>1. to_vc \in Seq(ToVc)
    BY <1>1 DEF Typed
  <2>2. to_vc \o f \in Seq(ToVc)
    BY <1>9, <2>1
  <2>3. \A S : CountIn(to_vc \o f, S) = CountIn(to_vc, S) + CountIn(f, S)
    BY <1>9, <2>1, CountConcat
  <2> QED BY <1>6, <2>2, <2>3
<1>14. Typed'
  BY <1>1, <1>6, <1>7, <1>13 DEF Typed
<1>15. Placed'
  BY <1>1, <1>3, <1>6, <1>7, Numbers DEF Placed
<1>16. PoolSound' /\ PortFilled'
  <2>1. Imports = NUM_BUFFERS
    BY <1>3, Numbers DEF Imports
  <2>2. Imports' = NUM_BUFFERS
    BY <1>7, Numbers DEF Imports
  <2>3. ~Importing
    BY <1>2 DEF Importing
  <2>4. main' # "wait" /\ port'.buffers = port.buffers
    BY <1>6, <1>7
  <2> QED BY <1>1, <1>6, <2>1, <2>2, <2>3, <2>4, MovedOn
<1>17. MainAwaited' /\ AnswersFit'
  <2>1. ~Waits /\ ~Waits'
    BY <1>2, <1>3, <1>7, Numbers DEF Waits
  <2>2. CountIn(to_vc', MainVc) = CountIn(to_vc, MainVc)
    BY <1>1, <1>11, <1>13, Counting
  <2> QED BY <1>1, <1>6, <1>14, <2>1, <2>2, NotWaiting, NothingAwaited
<1>18. CountIn(to_vc', IoVc) = CountIn(to_vc, IoVc) /\ CountIn(to_vc', CapVc) = CountIn(to_vc, CapVc)
  BY <1>1, <1>11, <1>13, Counting
<1>19. IoAwaited'
  BY <1>1, <1>6, <1>18 DEF IoAwaited
<1>20. BuffersKept'
  <2>1. ASSUME NEW b \in Buffers PROVE PlacesOf(b)' <= 1
    <3>1. PlacesOf(b) \in Nat
      BY <1>1, Counting DEF PlacesOf
    <3>2. PlacesOf(b) <= 0
      BY <1>1, <1>3 DEF BuffersKept
    <3>3. PlacesOf(b)' = PlacesOf(b) + CountIn(f, BufVc(b))
      BY <1>1, <1>6, <1>12, <1>13, Counting DEF PlacesOf
    <3> QED BY <1>12, <3>1, <3>2, <3>3
  <2> QED BY <1>7, <2>1, Numbers DEF BuffersKept
<1>21. CapturesKept'
  <2>1. Captures' = Captures
    BY <1>6, <1>18 DEF Captures
  <2>2. Captures <= 0
    BY <1>1, <1>3, Numbers DEF CapturesKept
  <2> QED BY <1>7, <2>1, <2>2, Numbers DEF CapturesKept
<1>22. WakeUps'
  BY <1>1, <1>3, <1>6, <1>7, Numbers DEF WakeUps
<1> QED BY <1>14, <1>15, <1>16, <1>17, <1>19, <1>20, <1>21, <1>22 DEF IInv

----------------------------------------------------------------------------
(* The loop thread.                                                        *)

(* A message is taken from the queue to the ARM.                           *)
LEMMA Arrived ==
  ASSUME Typed, NEW type, Arrives(type)
  PROVE  /\ Head(to_arm) \in ToArm /\ Head(to_arm) \in Members(to_arm) /\ Head(to_arm).type = type
         /\ to_arm' = Tail(to_arm) /\ to_arm' \in Seq(ToArm)
         /\ Members(to_arm') \subseteq Members(to_arm)
         /\ \A S : /\ CountIn(to_arm, S) \in Nat /\ CountIn(to_arm', S) \in Nat
                   /\ CountIn(to_arm', S) = CountIn(to_arm, S) - One(Head(to_arm) \in S)
<1>1. to_arm # << >> /\ Head(to_arm).type = type /\ to_arm' = Tail(to_arm) /\ to_arm \in Seq(ToArm)
  BY DEF Arrives, Typed
<1>2. /\ Tail(to_arm) \in Seq(ToArm) /\ Members(Tail(to_arm)) \subseteq Members(to_arm)
      /\ Head(to_arm) \in ToArm /\ Head(to_arm) \in Members(to_arm)
      /\ \A S : CountIn(Tail(to_arm), S) = CountIn(to_arm, S) - One(Head(to_arm) \in S)
  BY <1>1, Dequeued
<1>3. \A S : CountIn(to_arm, S) \in Nat /\ CountIn(Tail(to_arm), S) \in Nat
  BY <1>1, <1>2, CountFacts
<1> QED BY <1>1, <1>2, <1>3

(* The answer to a message for the task is noted down.                     *)
LEMMA MainTold ==
  ASSUME IInv, UNCHANGED <<to_vc, at, main>>, Head(to_arm) \in MainArm,
         CountIn(to_arm, MainArm) \in Nat, CountIn(to_arm', MainArm) \in Nat,
         CountIn(to_arm', MainArm) = CountIn(to_arm, MainArm) - One(Head(to_arm) \in MainArm),
         \/ answer' = answer /\ state_waitflag' = TRUE
         \/ answer'["main"] # "none" /\ state_waitflag' = state_waitflag
  PROVE  MainAwaited' /\ Waits
<1>1. Typed /\ MainAwaited
  BY DEF IInv
<1>2. CountIn(to_vc, MainVc) \in Nat /\ state_waitflag \in BOOLEAN
  BY <1>1, Counting DEF Typed
<1>3. /\ CountIn(to_vc, MainVc) = 0 /\ CountIn(to_arm, MainArm) = 1 /\ answer["main"] = "none"
      /\ state_waitflag = FALSE /\ Waits
  BY <1>1, <1>2 DEF MainAwaited
<1>4. CountIn(to_arm', MainArm) = 0 /\ Waits'
  BY <1>3 DEF Waits
<1> QED BY <1>3, <1>4 DEF MainAwaited

(* The CONNECT wakes the task.                                             *)
LEMMA DispatchConnectInv == ASSUME IInv, NEW err \in BOOLEAN, DispatchConnect(err) PROVE IInv'
<1> DEFINE m == Head(to_arm)
<1>1. Typed /\ AnswersFit /\ Placed
  BY DEF IInv
<1>2. /\ Arrives("CONNECT") /\ state_waitflag' = TRUE /\ loop' \in Loops
      /\ UNCHANGED <<to_vc, opened, data_callback, at, main, enabled, port, counters, answer,
                     pool, work, work_waitflag, io, vc>>
  BY DEF DispatchConnect, taskVars, Loops
<1>3. /\ m \in ToArm /\ m \in Members(to_arm) /\ m.type = "CONNECT"
      /\ to_arm' \in Seq(ToArm) /\ Members(to_arm') \subseteq Members(to_arm)
      /\ \A S : /\ CountIn(to_arm, S) \in Nat /\ CountIn(to_arm', S) \in Nat
                /\ CountIn(to_arm', S) = CountIn(to_arm, S) - One(m \in S)
  BY <1>1, <1>2, Arrived
<1>4. Typed'
  BY <1>1, <1>2, <1>3 DEF Typed
<1>5. /\ m \in MainArm /\ m \notin IoArm /\ m \notin EosArm /\ \A b \in Buffers : m \notin BufArm(b)
  BY <1>3 DEF MainArm, IoArm, EosArm, BufArm
<1>6. at = 1
  BY <1>1, <1>3 DEF AnswersFit, ArmKind, ArmFit
<1> HIDE DEF m
<1>7. MainAwaited'
  BY <1>2, <1>3, <1>5, MainTold DEF m
<1>8. Placed' /\ PortFilled' /\ PoolSound' /\ AnswersFit'
  <2>1. answer'["main"] # "none" => Here.type \in Synchronous \cup {"IMPORT"}
    BY <1>1, <1>2 DEF AnswersFit
  <2>2. UNCHANGED <<taskVars, pool, data_callback>>
    BY <1>2 DEF taskVars
  <2> QED BY <1>2, <1>3, <1>4, <1>6, <2>1, <2>2, CallKept
<1>9. /\ CountIn(to_arm', IoArm) = CountIn(to_arm, IoArm)
      /\ CountIn(to_arm', EosArm) = CountIn(to_arm, EosArm)
      /\ \A b \in Buffers : CountIn(to_arm', BufArm(b)) = CountIn(to_arm, BufArm(b))
  BY <1>3, <1>5
<1>10. IoAwaited' /\ BuffersKept' /\ CapturesKept' /\ WakeUps'
  BY <1>2, <1>6, <1>9, FlowKept
<1> QED BY <1>4, <1>7, <1>8, <1>10 DEF IInv

(* vchiq_parse_msg_openack: the service that is opened is the one the task *)
(* waits for.                                                              *)
LEMMA DispatchOpenackInv == ASSUME IInv, DispatchOpenack PROVE IInv'
<1> DEFINE m == Head(to_arm)
<1>1. Typed /\ AnswersFit /\ Placed
  BY DEF IInv
<1>2. /\ Arrives("OPENACK") /\ state_waitflag' = TRUE /\ opened' = [opened EXCEPT ![m.on] = TRUE]
      /\ UNCHANGED <<to_vc, data_callback, at, main, enabled, port, counters, answer,
                     pool, work, work_waitflag, io, loop, vc>>
  BY DEF DispatchOpenack, taskVars, ioVars
<1>3. /\ m \in ToArm /\ m \in Members(to_arm) /\ m.type = "OPENACK"
      /\ to_arm' \in Seq(ToArm) /\ Members(to_arm') \subseteq Members(to_arm)
      /\ \A S : /\ CountIn(to_arm, S) \in Nat /\ CountIn(to_arm', S) \in Nat
                /\ CountIn(to_arm', S) = CountIn(to_arm, S) - One(m \in S)
  BY <1>1, <1>2, Arrived
<1>4. m.on \in Services
  BY <1>3, ArmFacts
<1>5. opened' \in [Services -> BOOLEAN] /\ opened'[m.on] = TRUE
  BY <1>1, <1>2, <1>4 DEF Typed
<1>6. Typed'
  BY <1>1, <1>2, <1>3, <1>5 DEF Typed
<1>7. /\ m \in MainArm /\ m \notin IoArm /\ m \notin EosArm /\ \A b \in Buffers : m \notin BufArm(b)
  BY <1>3 DEF MainArm, IoArm, EosArm, BufArm
<1>8. Here.type = "OPEN" /\ m.on = Here.on
  BY <1>1, <1>3 DEF AnswersFit, ArmKind, ArmFit
<1> HIDE DEF m
<1>9. MainAwaited'
  BY <1>2, <1>3, <1>7, MainTold DEF m
<1>10. Placed' /\ PortFilled' /\ PoolSound' /\ AnswersFit'
  <2>1. answer'["main"] # "none" => Here.type \in Synchronous \cup {"IMPORT"}
    BY <1>1, <1>2 DEF AnswersFit
  <2>2. UNCHANGED <<taskVars, pool, data_callback>>
    BY <1>2 DEF taskVars
  <2>3. opened'[Here.on]
    BY <1>5, <1>8
  <2> QED BY <1>2, <1>3, <1>6, <1>8, <2>1, <2>2, <2>3, CallKept
<1>11. /\ CountIn(to_arm', IoArm) = CountIn(to_arm, IoArm)
       /\ CountIn(to_arm', EosArm) = CountIn(to_arm, EosArm)
       /\ \A b \in Buffers : CountIn(to_arm', BufArm(b)) = CountIn(to_arm, BufArm(b))
  BY <1>3, <1>7
<1>12. IoAwaited' /\ BuffersKept' /\ CapturesKept' /\ WakeUps'
  <2>1. at \in Nat
    BY <1>1 DEF Placed
  <2> QED BY <1>2, <1>11, <2>1, FlowKept
<1> QED BY <1>6, <1>9, <1>10, <1>12 DEF IInv

(* mmal_service_data_callback: the answer reaches the one who waits.       *)
LEMMA DispatchReplyInv == ASSUME IInv, DispatchReply PROVE IInv'
<1> DEFINE m == Head(to_arm)
<1>1. Typed /\ AnswersFit /\ Placed /\ MainAwaited /\ IoAwaited
  BY DEF IInv
<1>2. /\ Arrives("REPLY") /\ m.ctx \notin Frames /\ answer' = [answer EXCEPT ![m.ctx] = m.status]
      /\ UNCHANGED <<to_vc, state_waitflag, opened, data_callback, at, main, enabled, port, counters,
                     pool, work, work_waitflag, io, loop, vc>>
  BY DEF DispatchReply, taskVars, ioVars, callVars
<1>3. /\ m \in ToArm /\ m \in Members(to_arm) /\ m.type = "REPLY"
      /\ to_arm' \in Seq(ToArm) /\ Members(to_arm') \subseteq Members(to_arm)
      /\ \A S : /\ CountIn(to_arm, S) \in Nat /\ CountIn(to_arm', S) \in Nat
                /\ CountIn(to_arm', S) = CountIn(to_arm, S) - One(m \in S)
  BY <1>1, <1>2, Arrived
<1>4. m.ctx \in Callers /\ m.status \in {"ok", "enabled", "error"}
  BY <1>2, <1>3, ArmFacts
<1>5. m.ctx = "main" => Here.type \in Synchronous
  BY <1>1, <1>3 DEF AnswersFit, ArmKind, ArmFit
<1>6. /\ m \in MainArm <=> m.ctx = "main"
      /\ m \in IoArm <=> m.ctx = "io"
      /\ m \notin EosArm /\ \A b \in Buffers : m \notin BufArm(b)
  BY <1>3 DEF MainArm, IoArm, EosArm, BufArm
<1> HIDE DEF m
<1>7. /\ answer' \in [Callers -> {"none", "ok", "enabled", "error"}]
      /\ \A t \in Callers : answer'[t] = IF t = m.ctx THEN m.status ELSE answer[t]
  BY <1>1, <1>2, <1>4 DEF Typed
<1>8. Typed'
  BY <1>1, <1>2, <1>3, <1>7 DEF Typed
<1>9. /\ CountIn(to_arm', EosArm) = CountIn(to_arm, EosArm)
      /\ \A b \in Buffers : CountIn(to_arm', BufArm(b)) = CountIn(to_arm, BufArm(b))
  BY <1>3, <1>6
<1>10. UNCHANGED <<taskVars, pool, data_callback, state_waitflag, opened>> /\ at \in Nat
  BY <1>1, <1>2 DEF taskVars, Placed
<1>11. CASE m.ctx = "main"
  <2>1. answer'["main"] # "none" /\ answer'["io"] = answer["io"]
    BY <1>4, <1>7, <1>11 DEF Callers
  <2>2. MainAwaited'
    BY <1>2, <1>3, <1>6, <1>11, <2>1, MainTold DEF m
  <2>3. state_waitflag' => at = 1 \/ (Here.type = "OPEN" /\ opened'[Here.on])
    BY <1>1, <1>2 DEF AnswersFit
  <2>4. Placed' /\ PortFilled' /\ PoolSound' /\ AnswersFit'
    BY <1>2, <1>3, <1>5, <1>8, <1>10, <1>11, <2>3, CallKept
  <2>5. CountIn(to_arm', IoArm) = CountIn(to_arm, IoArm)
    BY <1>3, <1>6, <1>11
  <2>6. IoAwaited' /\ BuffersKept' /\ CapturesKept' /\ WakeUps'
    BY <1>2, <1>9, <1>10, <2>1, <2>5, FlowKept
  <2> QED BY <1>8, <2>2, <2>4, <2>6 DEF IInv
<1>12. CASE m.ctx = "io"
  <2>1. answer'["main"] = answer["main"] /\ answer'["io"] # "none"
    BY <1>4, <1>7, <1>12 DEF Callers
  <2>2. CountIn(to_arm', MainArm) = CountIn(to_arm, MainArm)
    BY <1>3, <1>6, <1>12
  <2>3. Placed' /\ PortFilled' /\ PoolSound' /\ MainAwaited' /\ AnswersFit'
    BY <1>2, <1>3, <1>8, <1>10, <2>1, <2>2, TaskKept
  <2>4. CountIn(to_arm', IoArm) = CountIn(to_arm, IoArm) - 1 /\ CountIn(to_vc, IoVc) \in Nat
        /\ CountIn(to_arm, IoArm) \in Nat /\ CountIn(to_arm', IoArm) \in Nat
    BY <1>1, <1>3, <1>6, <1>12, Counting
  <2>5. IoAwaited'
    BY <1>1, <1>2, <2>1, <2>4 DEF IoAwaited
  <2>6. BuffersKept' /\ CapturesKept' /\ WakeUps'
    <3>1. BuffersKept /\ CapturesKept /\ WakeUps
      BY DEF IInv
    <3>2. \A b \in Buffers : PlacesOf(b)' = PlacesOf(b)
      BY <1>2, <1>9 DEF PlacesOf
    <3>3. Captures' = Captures
      BY <1>2, <1>9 DEF Captures
    <3> QED BY <1>2, <3>1, <3>2, <3>3 DEF BuffersKept, CapturesKept, WakeUps
  <2> QED BY <1>8, <2>3, <2>5, <2>6 DEF IInv
<1> QED BY <1>4, <1>11, <1>12 DEF Callers

(* An answer for a call that has returned is noted down nowhere.           *)
LEMMA DispatchStaleInv == ASSUME IInv, DispatchStale PROVE IInv'
<1> DEFINE m == Head(to_arm)
<1>1. Typed /\ Placed
  BY DEF IInv
<1>2. /\ Arrives("REPLY") /\ m.ctx \in Frames /\ loop' \in Loops
      /\ UNCHANGED <<to_vc, state_waitflag, opened, data_callback, at, main, enabled, port, counters,
                     answer, pool, work, work_waitflag, io, vc>>
  BY DEF DispatchStale, taskVars, callVars, Loops
<1>3. /\ m.type = "REPLY" /\ to_arm' \in Seq(ToArm) /\ Members(to_arm') \subseteq Members(to_arm)
      /\ \A S : /\ CountIn(to_arm, S) \in Nat /\ CountIn(to_arm', S) \in Nat
                /\ CountIn(to_arm', S) = CountIn(to_arm, S) - One(m \in S)
  BY <1>1, <1>2, Arrived
<1>4. Typed'
  BY <1>1, <1>2, <1>3 DEF Typed
<1>5. /\ m \notin MainArm /\ m \notin IoArm /\ m \notin EosArm
      /\ \A b \in Buffers : m \notin BufArm(b)
  BY <1>2, <1>3 DEF MainArm, IoArm, EosArm, BufArm, Frames
<1> HIDE DEF m
<1>6. /\ CountIn(to_arm', MainArm) = CountIn(to_arm, MainArm)
      /\ CountIn(to_arm', IoArm) = CountIn(to_arm, IoArm)
      /\ CountIn(to_arm', EosArm) = CountIn(to_arm, EosArm)
      /\ \A b \in Buffers : CountIn(to_arm', BufArm(b)) = CountIn(to_arm, BufArm(b))
  BY <1>3, <1>5
<1>7. Placed' /\ PortFilled' /\ PoolSound' /\ MainAwaited' /\ AnswersFit'
  <2>1. UNCHANGED <<taskVars, pool, state_waitflag, opened, data_callback>>
    BY <1>2 DEF taskVars
  <2> QED BY <1>2, <1>3, <1>4, <1>6, <2>1, TaskKept
<1>8. IoAwaited' /\ BuffersKept' /\ CapturesKept' /\ WakeUps'
  <2>1. at \in Nat
    BY <1>1 DEF Placed
  <2> QED BY <1>2, <1>6, <2>1, FlowKept
<1> QED BY <1>4, <1>7, <1>8 DEF IInv

(* Steps that move the loop thread and its event only.                     *)
LEMMA LoopMoved ==
  ASSUME IInv, loop' \in Loops,
         UNCHANGED <<to_vc, to_arm, callVars, taskVars, answer, pool, work, work_waitflag, io, vc>>
  PROVE  IInv'
<1>1. UNCHANGED <<to_vc, to_arm, state_waitflag, opened, data_callback, at, main, enabled, port,
                  counters, answer, pool, work, work_waitflag, io, vc>>
  BY DEF callVars, taskVars
<1>2. Typed' /\ Placed' /\ PortFilled' /\ PoolSound'
  BY <1>1 DEF IInv, Typed, Placed, Here, PortFilled, Imports, PoolSound, Importing
<1>3. MainAwaited' /\ IoAwaited' /\ WakeUps'
  BY <1>1 DEF IInv, MainAwaited, Waits, IoAwaited, WakeUps
<1>4. AnswersFit'
  BY <1>1 DEF IInv, AnswersFit, VcKind, ArmKind, Here
<1>5. BuffersKept' /\ CapturesKept'
  BY <1>1 DEF IInv, BuffersKept, PlacesOf, CapturesKept, Captures
<1> QED BY <1>2, <1>3, <1>4, <1>5 DEF IInv

(* vchiq_event_wait and its end.                                           *)
LEMMA LoopWaitInv ==
  ASSUME IInv, LoopTest \/ LoopArm \/ LoopWoken \/ LoopAgain
  PROVE  IInv'
<1>1. /\ loop' \in Loops
      /\ UNCHANGED <<to_vc, to_arm, callVars, taskVars, answer, pool, work, work_waitflag, io, vc>>
  BY DEF LoopTest, LoopArm, LoopWoken, LoopAgain, LoopStep, Loops
<1> QED BY <1>1, LoopMoved

(* mems_service_data_callback: the context is found, and it is active.     *)
LEMMA DispatchImportedInv == ASSUME IInv, DispatchImported PROVE IInv'
<1> DEFINE m == Head(to_arm)
<1>1. Typed /\ AnswersFit /\ Placed /\ PoolSound /\ MainAwaited
  BY DEF IInv
<1>2. /\ Arrives("IMPORTED")
      /\ UNCHANGED <<to_vc, state_waitflag, opened, data_callback, at, enabled, port, counters,
                     pool, work, work_waitflag, io, loop, vc>>
  BY DEF DispatchImported, ioVars, callVars
<1>3. /\ m \in ToArm /\ m \in Members(to_arm) /\ m.type = "IMPORTED"
      /\ to_arm' \in Seq(ToArm) /\ Members(to_arm') \subseteq Members(to_arm)
      /\ \A S : /\ CountIn(to_arm, S) \in Nat /\ CountIn(to_arm', S) \in Nat
                /\ CountIn(to_arm', S) = CountIn(to_arm, S) - One(m \in S)
  BY <1>1, <1>2, Arrived
<1>4. Here.type = "IMPORT" /\ m.trans_id = counters.vc - 1
  BY <1>1, <1>3 DEF AnswersFit, ArmKind, ArmFit
<1>5. /\ m \in MainArm /\ m \notin IoArm /\ m \notin EosArm /\ \A b \in Buffers : m \notin BufArm(b)
  BY <1>3 DEF MainArm, IoArm, EosArm, BufArm
<1>6. Importing
  <2>1. CountIn(to_arm, MainArm) >= 1 /\ CountIn(to_vc, MainVc) \in Nat
    BY <1>1, <1>3, <1>5, Counting
  <2>2. Waits
    BY <1>1, <1>3, <2>1 DEF MainAwaited
  <2>3. main = "call" => at > LAST_SETUP
    BY <1>1, <1>4, ImportPlace
  <2> QED BY <1>4, <2>2, <2>3, Numbers DEF Waits, Importing
<1>7. \E i \in Found(m.trans_id) : pool[i].active
  <2>1. pool[1].active /\ pool[1].trans_id = m.trans_id
    BY <1>1, <1>4, <1>6 DEF PoolSound
  <2>2. 1 \in 1..POOL_SIZE /\ 1..(1 - 1) = {}
    BY MmalAssumption
  <2>3. 1 \in Found(m.trans_id)
    BY <2>1, <2>2 DEF Found, HasTransId
  <2> QED BY <2>1, <2>3
<1>8. answer' = [answer EXCEPT !["main"] = "ok"] /\ main' = main
  BY <1>7 DEF DispatchImported
<1> HIDE DEF m
<1>9. /\ answer' \in [Callers -> {"none", "ok", "enabled", "error"}]
      /\ answer'["main"] = "ok" /\ answer'["io"] = answer["io"]
  BY <1>1, <1>8 DEF Typed, Callers
<1>10. Typed'
  BY <1>1, <1>2, <1>3, <1>8, <1>9 DEF Typed
<1>11. UNCHANGED <<taskVars, pool, data_callback>> /\ at \in Nat
  BY <1>1, <1>2, <1>8 DEF taskVars, Placed
<1>12. MainAwaited'
  <2>1. UNCHANGED <<to_vc, at, main>> /\ answer'["main"] # "none" /\ state_waitflag' = state_waitflag
    BY <1>2, <1>8, <1>9
  <2> QED BY <1>3, <1>5, <2>1, MainTold DEF m
<1>13. Placed' /\ PortFilled' /\ PoolSound' /\ AnswersFit'
  <2>1. state_waitflag' => at = 1 \/ (Here.type = "OPEN" /\ opened'[Here.on])
    BY <1>1, <1>2 DEF AnswersFit
  <2> QED BY <1>2, <1>3, <1>4, <1>10, <1>11, <2>1, CallKept
<1>14. /\ CountIn(to_arm', IoArm) = CountIn(to_arm, IoArm)
       /\ CountIn(to_arm', EosArm) = CountIn(to_arm, EosArm)
       /\ \A b \in Buffers : CountIn(to_arm', BufArm(b)) = CountIn(to_arm, BufArm(b))
  BY <1>3, <1>5
<1>15. IoAwaited' /\ BuffersKept' /\ CapturesKept' /\ WakeUps'
  BY <1>2, <1>8, <1>9, <1>11, <1>14, FlowKept
<1> QED BY <1>10, <1>12, <1>13, <1>15 DEF IInv

(* mmal_buffer_to_host_cb and mmal_io_work_push.                           *)
LEMMA DispatchBufferInv == ASSUME IInv, DispatchBuffer PROVE IInv'
<1> DEFINE m == Head(to_arm)
           w == [buffer |-> m.on, eos |-> m.eos]
<1>1. Typed /\ AnswersFit /\ Placed /\ IoAwaited /\ BuffersKept /\ CapturesKept /\ WakeUps
  BY DEF IInv
<1>2. /\ Arrives("BUFFER_TO_HOST") /\ work' = Append(work, w) /\ work_waitflag' = TRUE
      /\ UNCHANGED <<to_vc, state_waitflag, opened, data_callback, at, main, enabled, port, counters,
                     answer, pool, io, loop, vc>>
  BY DEF DispatchBuffer, callVars, taskVars
<1>3. /\ m \in ToArm /\ m \in Members(to_arm) /\ m.type = "BUFFER_TO_HOST"
      /\ to_arm' \in Seq(ToArm) /\ Members(to_arm') \subseteq Members(to_arm)
      /\ \A S : /\ CountIn(to_arm, S) \in Nat /\ CountIn(to_arm', S) \in Nat
                /\ CountIn(to_arm', S) = CountIn(to_arm, S) - One(m \in S)
  BY <1>1, <1>2, Arrived
<1>4. m.on \in Buffers /\ m.eos \in BOOLEAN
  BY <1>3, ArmFacts
<1>5. w \in Works /\ w.buffer = m.on /\ w.eos = m.eos
  BY <1>4 DEF Works
<1>6. /\ m \notin MainArm /\ m \notin IoArm
      /\ m \in EosArm <=> w \in EosWork
      /\ \A b \in Buffers : m \in BufArm(b) <=> w \in BufWork(b)
  BY <1>3, <1>5 DEF MainArm, IoArm, EosArm, BufArm, EosWork, BufWork
<1> HIDE DEF m, w
<1>7. /\ work' \in Seq(Works) /\ Len(work') = Len(work) + 1 /\ Len(work) \in Nat
      /\ \A S : CountIn(work', S) = CountIn(work, S) + One(w \in S)
  <2>1. work \in Seq(Works)
    BY <1>1 DEF Typed
  <2>2. Len(work) \in Nat
    BY <2>1
  <2> QED BY <1>2, <1>5, <2>1, <2>2, Queued
<1>8. Typed'
  BY <1>1, <1>2, <1>3, <1>7 DEF Typed
<1>9. Placed' /\ PortFilled' /\ PoolSound' /\ MainAwaited' /\ AnswersFit'
  <2>1. UNCHANGED <<taskVars, pool, state_waitflag, opened, data_callback>>
    BY <1>2 DEF taskVars
  <2>2. CountIn(to_arm', MainArm) = CountIn(to_arm, MainArm)
    BY <1>3, <1>6
  <2> QED BY <1>2, <1>3, <1>8, <2>1, <2>2, TaskKept
<1>10. IoAwaited'
  <2>1. CountIn(to_arm', IoArm) = CountIn(to_arm, IoArm)
    BY <1>3, <1>6
  <2> QED BY <1>1, <1>2, <2>1 DEF IoAwaited
<1>11. BuffersKept'
  <2>1. ASSUME NEW b \in Buffers PROVE PlacesOf(b)' = PlacesOf(b)
    <3>1. /\ CountIn(to_arm, BufArm(b)) \in Nat /\ CountIn(work, BufWork(b)) \in Nat
          /\ CountIn(to_vc, BufVc(b)) \in Nat
          /\ CountIn(to_arm', BufArm(b)) = CountIn(to_arm, BufArm(b)) - One(w \in BufWork(b))
          /\ CountIn(work', BufWork(b)) = CountIn(work, BufWork(b)) + One(w \in BufWork(b))
      BY <1>1, <1>3, <1>6, <1>7, Counting
    <3> QED BY <1>2, <3>1 DEF PlacesOf
  <2> QED BY <1>1, <1>2, <2>1 DEF BuffersKept
<1>12. CapturesKept'
  <2>1. Captures' = Captures
    <3>1. /\ CountIn(to_arm, EosArm) \in Nat /\ CountIn(work, EosWork) \in Nat
          /\ CountIn(to_vc, CapVc) \in Nat
          /\ CountIn(to_arm', EosArm) = CountIn(to_arm, EosArm) - One(w \in EosWork)
          /\ CountIn(work', EosWork) = CountIn(work, EosWork) + One(w \in EosWork)
      BY <1>1, <1>3, <1>6, <1>7, Counting
    <3> DEFINE c == One(vc.capturing)
    <3>2. c \in Nat /\ One(vc'.capturing) = c /\ to_vc' = to_vc
      BY <1>2
    <3> HIDE DEF c
    <3>3. Captures = CountIn(to_vc, CapVc) + c + CountIn(to_arm, EosArm) + CountIn(work, EosWork)
      BY DEF Captures, c
    <3>4. Captures' = CountIn(to_vc', CapVc) + c + CountIn(to_arm', EosArm) + CountIn(work', EosWork)
      BY <3>2 DEF Captures
    <3> QED BY <3>1, <3>2, <3>3, <3>4
  <2> QED BY <1>1, <1>2, <2>1 DEF CapturesKept
<1>13. WakeUps'
  BY <1>1, <1>2, <1>7 DEF WakeUps
<1> QED BY <1>8, <1>9, <1>10, <1>11, <1>12, <1>13 DEF IInv

----------------------------------------------------------------------------
(* The io thread.                                                          *)

(* The sums, each of its terms a number.                                   *)
LEMMA Sums ==
  ASSUME Typed
  PROVE  /\ \A b \in Buffers :
              /\ CountIn(to_vc, BufVc(b)) \in Nat /\ CountIn(to_arm, BufArm(b)) \in Nat
              /\ CountIn(work, BufWork(b)) \in Nat /\ One(b \in vc.buffers) \in Nat
              /\ PlacesOf(b) \in Nat
         /\ CountIn(to_vc, CapVc) \in Nat /\ CountIn(to_arm, EosArm) \in Nat
         /\ CountIn(work, EosWork) \in Nat /\ One(vc.capturing) \in Nat /\ Captures \in Nat
BY Counting DEF PlacesOf, Captures

(* A buffer that circulates is one of the port's, and the script is past   *)
(* handing the buffers over.                                               *)
LEMMA Circulates ==
  ASSUME IInv, NEW b \in Buffers, PlacesOf(b) > 0
  PROVE  at > SENDS /\ at \in Nat /\ b \in Members(port.buffers)
<1>1. Typed /\ Placed /\ PortFilled /\ BuffersKept
  BY DEF IInv
<1>2. at > SENDS /\ at \in Nat
  <2>1. PlacesOf(b) \in Nat /\ PlacesOf(b) <= IF at > SENDS THEN 1 ELSE 0
    BY <1>1, Sums DEF BuffersKept
  <2> QED BY <1>1, <2>1 DEF Placed
<1>3. Imports = NUM_BUFFERS
  BY <1>2, Numbers DEF Imports
<1>4. b \in 1..Len(port.buffers) /\ port.buffers[b] = b
  BY <1>1, <1>3 DEF PortFilled, Buffers
<1>5. b \in Members(port.buffers)
  BY <1>4 DEF Members
<1> QED BY <1>2, <1>5

(* The list of work never holds more than all the buffers.                 *)
LEMMA WorkFits ==
  ASSUME Typed, BuffersKept
  PROVE  Len(work) \in Nat /\ Len(work) <= NUM_BUFFERS
<1>1. work \in Seq(Works) /\ Len(work) \in Nat
  BY DEF Typed
<1> DEFINE n == Len(work)
           f == [i \in 1..n |-> work[i].buffer]
<1>2. \A i \in 1..n : work[i] \in Works /\ work[i].buffer \in Buffers
  <2>1. \A i \in 1..n : work[i] \in Works
    BY <1>1
  <2> QED BY <2>1 DEF Works
<1>3. ASSUME NEW i \in 1..n, NEW j \in 1..n, work[i].buffer = work[j].buffer PROVE i = j
  <2> DEFINE b == work[i].buffer
  <2>1. b \in Buffers /\ work[i] \in BufWork(b) /\ work[j] \in BufWork(b)
    BY <1>2, <1>3 DEF BufWork
  <2> HIDE DEF b
  <2>2. CountIn(work, BufWork(b)) <= 1
    <3>1. PlacesOf(b) <= 1
      BY <2>1, Sums DEF BuffersKept
    <3> QED BY <2>1, <3>1, Sums DEF PlacesOf
  <2> QED BY <1>1, <2>1, <2>2, CountOnce
<1> HIDE DEF n
<1>4. f \in Injection(1..n, Buffers)
  BY <1>2, <1>3 DEF Injection, IsInjective
<1>5. n \in Int /\ NUM_BUFFERS \in Int /\ n \in Nat
  BY <1>1, Numbers DEF n
<1>6. IsFiniteSet(Buffers) /\ Cardinality(Buffers) = NUM_BUFFERS
  <2>1. IsFiniteSet(1..NUM_BUFFERS)
        /\ Cardinality(1..NUM_BUFFERS) = IF 1 > NUM_BUFFERS THEN 0 ELSE NUM_BUFFERS - 1 + 1
    BY <1>5, FS_Interval
  <2> QED BY <2>1, Numbers DEF Buffers
<1>7. Cardinality(1..n) = n
  <2>1. Cardinality(1..n) = IF 1 > n THEN 0 ELSE n - 1 + 1
    BY <1>5, FS_Interval
  <2> QED BY <1>5, <2>1
<1> HIDE DEF f
<1>8. Cardinality(1..n) <= Cardinality(Buffers)
  BY <1>4, <1>6, FS_Injection
<1> QED BY <1>1, <1>6, <1>7, <1>8 DEF n

(* The buffers and the captures have moved, and have not become more.      *)
LEMMA FlowMoved ==
  ASSUME BuffersKept, CapturesKept, UNCHANGED <<at, main>>, Typed, Typed',
         \A b \in Buffers : PlacesOf(b)' <= PlacesOf(b), Captures' <= Captures
  PROVE  BuffersKept' /\ CapturesKept'
<1>1. /\ Captures \in Nat /\ \A b \in Buffers : PlacesOf(b) \in Nat
  BY Sums
<1>2. Captures' \in Int /\ \A b \in Buffers : PlacesOf(b)' \in Int
  <2>1. to_vc' \in Seq(ToVc) /\ to_arm' \in Seq(ToArm) /\ work' \in Seq(Works)
    BY DEF Typed
  <2>2. \A S : CountIn(to_vc', S) \in Nat /\ CountIn(to_arm', S) \in Nat /\ CountIn(work', S) \in Nat
    BY <2>1, CountFacts
  <2> QED BY <2>2 DEF Captures, PlacesOf
<1>3. BuffersKept'
  BY <1>1, <1>2 DEF BuffersKept
<1>4. CapturesKept'
  BY <1>1, <1>2 DEF CapturesKept
<1> QED BY <1>3, <1>4

(* vchiq_io_thread wakes up.                                               *)
LEMMA IoWakeInv == ASSUME IInv, IoWake PROVE IInv'
<1>1. /\ Typed /\ Placed /\ IoAwaited /\ BuffersKept /\ CapturesKept /\ WakeUps
  BY DEF IInv
<1>2. /\ io = "sleep" /\ work_waitflag /\ work_waitflag' = FALSE /\ io' = "work"
      /\ UNCHANGED <<to_vc, to_arm, state_waitflag, opened, data_callback, at, main, enabled, port,
                     counters, answer, pool, work, loop, vc>>
  BY DEF IoWake, callVars, taskVars
<1>3. Typed'
  BY <1>1, <1>2 DEF Typed
<1>4. Placed' /\ PortFilled' /\ PoolSound' /\ MainAwaited' /\ AnswersFit'
  <2>1. UNCHANGED <<taskVars, pool, state_waitflag, opened, data_callback>>
    BY <1>2 DEF taskVars
  <2> QED BY <1>2, <1>3, <2>1, TaskKept
<1>5. IoAwaited'
  BY <1>1, <1>2 DEF IoAwaited
<1>6. BuffersKept' /\ CapturesKept'
  BY <1>1, <1>2 DEF BuffersKept, PlacesOf, CapturesKept, Captures
<1>7. WakeUps'
  BY <1>1, <1>2 DEF WakeUps
<1> QED BY <1>3, <1>4, <1>5, <1>6, <1>7 DEF IInv

(* Two messages at the end of a queue.                                     *)
LEMMA QueuedTwo ==
  ASSUME NEW T, NEW q \in Seq(T), NEW a \in T, NEW b \in T
  PROVE  /\ q \o <<a, b>> \in Seq(T) /\ Members(q \o <<a, b>>) = Members(q) \cup {a, b}
         /\ \A S : CountIn(q \o <<a, b>>, S) = CountIn(q, S) + One(a \in S) + One(b \in S)
<1> DEFINE p == Append(q, a)
<1>1. <<a>> \in Seq(T) /\ <<b>> \in Seq(T) /\ <<a, b>> = <<a>> \o <<b>>
  <2>1. <<a>> \in Seq(T) /\ <<b>> \in Seq(T)
    OBVIOUS
  <2>2. Append(<<a>>, b) = <<a, b>>
    <3> DEFINE u == Append(<<a>>, b)
               v == <<a, b>>
    <3>1. u \in Seq(T) /\ Len(u) = 2 /\ u[1] = a /\ u[2] = b
      BY <2>1, AppendProperties
    <3>2. v \in Seq(T) /\ Len(v) = 2 /\ v[1] = a /\ v[2] = b
      OBVIOUS
    <3> HIDE DEF u, v
    <3>3. \A i \in 1..2 : u[i] = v[i]
      BY <3>1, <3>2
    <3>4. u = v
      BY <3>1, <3>2, <3>3, SeqEqual
    <3> QED BY <3>4 DEF u, v
  <2>3. Append(<<a>>, b) = <<a>> \o <<b>>
    BY <2>1, AppendIsConcat
  <2> QED BY <2>1, <2>2, <2>3
<1>2. p = q \o <<a>>
  BY AppendIsConcat
<1>3. p \in Seq(T) /\ Members(p) = Members(q) \cup {a}
      /\ \A S : CountIn(p, S) = CountIn(q, S) + One(a \in S)
  BY Queued
<1>4. q \o <<a, b>> = p \o <<b>>
  BY <1>1, <1>2, ConcatAssociative
<1> HIDE DEF p
<1>5. p \o <<b>> = Append(p, b)
  BY <1>3, AppendIsConcat
<1>6. Append(p, b) \in Seq(T) /\ Members(Append(p, b)) = Members(p) \cup {b}
      /\ \A S : CountIn(Append(p, b), S) = CountIn(p, S) + One(b \in S)
  BY <1>3, Queued
<1>7. Members(q) \cup {a} \cup {b} = Members(q) \cup {a, b}
  OBVIOUS
<1> QED BY <1>3, <1>4, <1>5, <1>6, <1>7

(* mmal_port_buffer_io_work: the buffer is one of the port's and goes back; *)
(* behind the last one of a frame, a capture is asked for.                 *)
LEMMA IoWorkInv == ASSUME IInv, IoWork PROVE IInv'
<1> DEFINE w == Head(work)
           b == w.buffer
           x == BufferFromHost("io_frame", b)
           y == Request("io", "CAPTURE", "still")
<1>1. /\ Typed /\ Placed /\ IoAwaited /\ BuffersKept /\ CapturesKept /\ WakeUps
  BY DEF IInv
<1>2. /\ io = "work" /\ work # << >> /\ work' = Tail(work)
      /\ UNCHANGED <<to_arm, state_waitflag, opened, data_callback, at, main, enabled, port,
                     counters, answer, pool, work_waitflag, loop, vc>>
  BY DEF IoWork, callVars, taskVars
<1>3. /\ work' \in Seq(Works) /\ w \in Works /\ Len(work) \in Nat /\ Len(work) >= 1
      /\ Len(work') = Len(work) - 1
      /\ \A S : CountIn(work', S) = CountIn(work, S) - One(w \in S)
      /\ \A S : CountIn(work', S) \in Nat
  <2>1. work \in Seq(Works)
    BY <1>1 DEF Typed
  <2>2. /\ work' \in Seq(Works) /\ w \in Works /\ Len(work) \in Nat /\ Len(work) >= 1
        /\ Len(work') = Len(work) - 1
        /\ \A S : CountIn(work', S) = CountIn(work, S) - One(w \in S)
    BY <1>2, <2>1, Dequeued
  <2>3. \A S : CountIn(work', S) \in Nat
    BY <2>2, CountFacts
  <2> QED BY <2>2, <2>3
<1>4. b \in Buffers /\ w.eos \in BOOLEAN
  BY <1>3 DEF Works
<1>5. /\ \A c \in Buffers : w \in BufWork(c) <=> c = b
      /\ w \in EosWork <=> w.eos
  BY <1>3 DEF BufWork, EosWork
<1>6. /\ x \in ToVc /\ x \notin MainVc /\ x \notin IoVc /\ x \notin CapVc
      /\ \A c \in Buffers : x \in BufVc(c) <=> c = b
  BY <1>4 DEF ToVc, BufferFromHost, Frames, MainVc, IoVc, CapVc, BufVc, Synchronous
<1>7. y.type = "CAPTURE" /\ y.ctx = "io" /\ y \in ToVc
  BY DEF Request, ToVc, Callers, Synchronous, Objects
<1> HIDE DEF w, b, x, y
<1>8. /\ y \notin MainVc /\ y \in IoVc /\ y \in CapVc /\ \A c \in Buffers : y \notin BufVc(c)
  BY <1>7 DEF MainVc, IoVc, CapVc, BufVc, Synchronous
<1>9. at > SENDS /\ at \in Nat /\ b \in Members(port.buffers)
  <2>1. CountIn(work, BufWork(b)) >= 1
    <3>1. CountIn(work', BufWork(b)) = CountIn(work, BufWork(b)) - 1
      BY <1>3, <1>4, <1>5
    <3> QED BY <1>1, <1>3, <1>4, <3>1, Sums
  <2>2. PlacesOf(b) > 0
    BY <1>1, <1>4, <2>1, Sums DEF PlacesOf
  <2> QED BY <1>4, <2>2, Circulates
<1>10. IF w.eos THEN io' = "wait" /\ to_vc' = to_vc \o <<x, y>>
                ELSE io' = "sleep" /\ to_vc' = Append(to_vc, x)
  BY <1>9 DEF IoWork, Send, w, b, x, y
<1>11. /\ to_vc' \in Seq(ToVc) /\ Members(to_vc') \subseteq Members(to_vc) \cup {x, y}
       /\ \A S : CountIn(to_vc, S) \in Nat
       /\ \A S : CountIn(to_vc', S) =
                   CountIn(to_vc, S) + One(x \in S) + (IF w.eos THEN One(y \in S) ELSE 0)
  <2>0. to_vc \in Seq(ToVc) /\ \A S : CountIn(to_vc, S) \in Nat
    BY <1>1, Counting DEF Typed
  <2>1. CASE w.eos
    <3>1. /\ to_vc \o <<x, y>> \in Seq(ToVc) /\ Members(to_vc \o <<x, y>>) = Members(to_vc) \cup {x, y}
          /\ \A S : CountIn(to_vc \o <<x, y>>, S) = CountIn(to_vc, S) + One(x \in S) + One(y \in S)
      BY <1>6, <1>7, <2>0, QueuedTwo
    <3>2. to_vc' = to_vc \o <<x, y>>
      BY <1>10, <2>1
    <3> QED BY <2>0, <2>1, <3>1, <3>2
  <2>2. CASE ~w.eos
    <3>1. /\ Append(to_vc, x) \in Seq(ToVc) /\ Members(Append(to_vc, x)) = Members(to_vc) \cup {x}
          /\ \A S : CountIn(Append(to_vc, x), S) = CountIn(to_vc, S) + One(x \in S)
      BY <1>6, <2>0, Queued
    <3>2. to_vc' = Append(to_vc, x)
      BY <1>10, <2>2
    <3> QED BY <2>0, <2>2, <3>1, <3>2
  <2> QED BY <2>1, <2>2
<1>12. io' = IF w.eos THEN "wait" ELSE "sleep"
  BY <1>10
<1>13. Typed'
  BY <1>1, <1>2, <1>3, <1>11, <1>12 DEF Typed
<1>14. Placed' /\ PortFilled' /\ PoolSound' /\ MainAwaited' /\ AnswersFit'
  <2>1. UNCHANGED <<taskVars, pool, state_waitflag, opened, data_callback>>
    BY <1>2 DEF taskVars
  <2>2. CountIn(to_vc', MainVc) = CountIn(to_vc, MainVc)
    BY <1>6, <1>8, <1>11
  <2>3. \A m \in Members(to_vc') : m \in Members(to_vc) \/ m \notin MainVc
    BY <1>6, <1>8, <1>11
  <2> QED BY <1>2, <1>13, <2>1, <2>2, <2>3, TaskKept
<1>15. IoAwaited'
  <2>1. CountIn(to_vc, IoVc) = 0 /\ CountIn(to_arm, IoArm) = 0 /\ answer["io"] = "none"
    BY <1>1, <1>2, Counting DEF IoAwaited
  <2>2. CountIn(to_vc', IoVc) = IF w.eos THEN 1 ELSE 0
    <3>1. CountIn(to_vc', IoVc) =
            CountIn(to_vc, IoVc) + One(x \in IoVc) + (IF w.eos THEN One(y \in IoVc) ELSE 0)
      BY <1>11
    <3> QED BY <1>6, <1>8, <2>1, <3>1
  <2> QED BY <1>2, <1>12, <2>1, <2>2 DEF IoAwaited
<1>16. ASSUME NEW c \in Buffers PROVE PlacesOf(c)' <= PlacesOf(c)
  <2>1. /\ CountIn(to_vc', BufVc(c)) = CountIn(to_vc, BufVc(c)) + One(c = b)
        /\ CountIn(work', BufWork(c)) = CountIn(work, BufWork(c)) - One(c = b)
    BY <1>3, <1>5, <1>6, <1>8, <1>11
  <2>2. /\ CountIn(to_vc, BufVc(c)) \in Nat /\ CountIn(to_arm, BufArm(c)) \in Nat
        /\ CountIn(work, BufWork(c)) \in Nat
    BY <1>1, Sums
  <2> QED BY <1>2, <2>1, <2>2 DEF PlacesOf
<1>17. Captures' <= Captures
  <2> DEFINE d == One(vc.capturing)
             e == One(w.eos)
  <2>1. d \in Nat /\ One(vc'.capturing) = d /\ e \in Nat /\ to_arm' = to_arm
    BY <1>2
  <2>2. /\ CountIn(to_vc', CapVc) = CountIn(to_vc, CapVc) + e
        /\ CountIn(work', EosWork) = CountIn(work, EosWork) - e
    BY <1>3, <1>5, <1>6, <1>8, <1>11
  <2>3. /\ CountIn(to_vc, CapVc) \in Nat /\ CountIn(to_arm, EosArm) \in Nat
        /\ CountIn(work, EosWork) \in Nat
    BY <1>1, Sums
  <2>4. Captures = CountIn(to_vc, CapVc) + d + CountIn(to_arm, EosArm) + CountIn(work, EosWork)
    BY DEF Captures
  <2> HIDE DEF d, e
  <2>5. Captures' = CountIn(to_vc', CapVc) + d + CountIn(to_arm', EosArm) + CountIn(work', EosWork)
    BY <2>1 DEF Captures
  <2> QED BY <2>1, <2>2, <2>3, <2>4, <2>5
<1>18. BuffersKept' /\ CapturesKept'
  BY <1>1, <1>2, <1>13, <1>16, <1>17, FlowMoved
<1>19. WakeUps'
  <2>1. Len(work) <= NUM_BUFFERS /\ NUM_BUFFERS \in Nat
    BY <1>1, WorkFits, Numbers
  <2>2. 1 + One(work_waitflag) <= Len(work)
    BY <1>1, <1>2 DEF WakeUps
  <2>3. io' # "work" /\ at' > SENDS /\ work_waitflag' = work_waitflag
    BY <1>2, <1>9, <1>12
  <2>4. Len(work') = Len(work) - 1 /\ Len(work) \in Nat
    BY <1>3
  <2> QED BY <2>1, <2>2, <2>3, <2>4 DEF WakeUps
<1> QED BY <1>13, <1>14, <1>15, <1>18, <1>19 DEF IInv

(* The io thread's capture was answered.                                   *)
LEMMA IoAnsweredInv == ASSUME IInv, IoAnswered PROVE IInv'
<1>1. /\ Typed /\ Placed /\ IoAwaited /\ BuffersKept /\ CapturesKept /\ WakeUps
  BY DEF IInv
<1>2. /\ io = "wait" /\ answer["io"] # "none" /\ answer' = [answer EXCEPT !["io"] = "none"]
      /\ io' = "sleep"
      /\ UNCHANGED <<to_vc, to_arm, state_waitflag, opened, data_callback, at, main, enabled, port,
                     counters, pool, work, work_waitflag, loop, vc>>
  BY DEF IoAnswered, callVars, taskVars
<1>3. /\ answer' \in [Callers -> {"none", "ok", "enabled", "error"}]
      /\ answer'["io"] = "none" /\ answer'["main"] = answer["main"]
  BY <1>1, <1>2 DEF Typed, Callers
<1>4. Typed'
  BY <1>1, <1>2, <1>3 DEF Typed
<1>5. Placed' /\ PortFilled' /\ PoolSound' /\ MainAwaited' /\ AnswersFit'
  <2>1. UNCHANGED <<taskVars, pool, state_waitflag, opened, data_callback>>
    BY <1>2 DEF taskVars
  <2> QED BY <1>2, <1>3, <1>4, <2>1, TaskKept
<1>6. IoAwaited'
  <2>1. CountIn(to_vc, IoVc) = 0 /\ CountIn(to_arm, IoArm) = 0
    BY <1>1, <1>2, Counting DEF IoAwaited
  <2> QED BY <1>2, <1>3, <2>1 DEF IoAwaited
<1>7. BuffersKept' /\ CapturesKept'
  BY <1>1, <1>2 DEF BuffersKept, PlacesOf, CapturesKept, Captures
<1>8. WakeUps'
  BY <1>1, <1>2 DEF WakeUps
<1> QED BY <1>4, <1>5, <1>6, <1>7, <1>8 DEF IInv

----------------------------------------------------------------------------
(* The VideoCore.                                                          *)

VcStates == [enabled : BOOLEAN, buffers : SUBSET Buffers, capturing : BOOLEAN]

(* A message is taken from the queue to the VideoCore.                     *)
LEMMA Taken ==
  ASSUME Typed, to_vc # << >>, to_vc' = Tail(to_vc)
  PROVE  /\ Head(to_vc) \in ToVc /\ Head(to_vc) \in Members(to_vc)
         /\ to_vc' \in Seq(ToVc) /\ Members(to_vc') \subseteq Members(to_vc)
         /\ \A S : /\ CountIn(to_vc, S) \in Nat /\ CountIn(to_vc', S) \in Nat
                   /\ CountIn(to_vc', S) = CountIn(to_vc, S) - One(Head(to_vc) \in S)
<1>1. to_vc \in Seq(ToVc)
  BY DEF Typed
<1>2. /\ Tail(to_vc) \in Seq(ToVc) /\ Members(Tail(to_vc)) \subseteq Members(to_vc)
      /\ Head(to_vc) \in ToVc /\ Head(to_vc) \in Members(to_vc)
      /\ \A S : CountIn(Tail(to_vc), S) = CountIn(to_vc, S) - One(Head(to_vc) \in S)
  BY <1>1, Dequeued
<1>3. \A S : CountIn(to_vc, S) \in Nat /\ CountIn(Tail(to_vc), S) \in Nat
  BY <1>1, <1>2, CountFacts
<1> QED BY <1>2, <1>3

(* A message is put into the queue to the ARM.                             *)
LEMMA Told ==
  ASSUME Typed, NEW r \in ToArm, to_arm' = Append(to_arm, r)
  PROVE  /\ to_arm' \in Seq(ToArm) /\ Members(to_arm') = Members(to_arm) \cup {r}
         /\ \A S : /\ CountIn(to_arm, S) \in Nat
                   /\ CountIn(to_arm', S) = CountIn(to_arm, S) + One(r \in S)
<1>1. to_arm \in Seq(ToArm)
  BY DEF Typed
<1>2. /\ Append(to_arm, r) \in Seq(ToArm) /\ Members(Append(to_arm, r)) = Members(to_arm) \cup {r}
      /\ \A S : CountIn(Append(to_arm, r), S) = CountIn(to_arm, S) + One(r \in S)
  BY <1>1, Queued
<1>3. \A S : CountIn(to_arm, S) \in Nat
  BY <1>1, CountFacts
<1> QED BY <1>2, <1>3

(* A request is answered with r, which is for the one who asked.           *)
LEMMA VcAnswers ==
  ASSUME IInv, to_vc # << >>, to_vc' = Tail(to_vc), NEW r \in ToArm, to_arm' = Append(to_arm, r),
         UNCHANGED <<callVars, taskVars, answer, pool, ioVars>>, vc' \in VcStates,
         vc'.buffers = vc.buffers,
         vc'.capturing => vc.capturing \/ Head(to_vc) \in CapVc,
         Head(to_vc) \in MainVc <=> r \in MainArm, Head(to_vc) \in IoVc <=> r \in IoArm,
         r \in MainArm => ArmFit(r, Here, counters.vc, at),
         r.type # "BUFFER_TO_HOST"
  PROVE  IInv'
<1> DEFINE m == Head(to_vc)
<1>1. /\ Typed /\ Placed /\ MainAwaited /\ AnswersFit /\ IoAwaited
      /\ BuffersKept /\ CapturesKept /\ WakeUps
  BY DEF IInv
<1>2. UNCHANGED <<state_waitflag, opened, data_callback, at, main, enabled, port, counters,
                  answer, pool, work, work_waitflag, io, loop>>
  BY DEF callVars, taskVars, ioVars
<1>3. /\ m \in ToVc /\ to_vc' \in Seq(ToVc) /\ Members(to_vc') \subseteq Members(to_vc)
      /\ \A S : /\ CountIn(to_vc, S) \in Nat /\ CountIn(to_vc', S) \in Nat
                /\ CountIn(to_vc', S) = CountIn(to_vc, S) - One(m \in S)
  BY <1>1, Taken
<1>4. /\ to_arm' \in Seq(ToArm) /\ Members(to_arm') = Members(to_arm) \cup {r}
      /\ \A S : /\ CountIn(to_arm, S) \in Nat
                /\ CountIn(to_arm', S) = CountIn(to_arm, S) + One(r \in S)
  BY <1>1, Told
<1>5. Typed'
  BY <1>1, <1>2, <1>3, <1>4 DEF Typed, VcStates
<1>6. r \notin EosArm /\ \A b \in Buffers : r \notin BufArm(b)
  BY DEF EosArm, BufArm
<1>7. Placed' /\ PortFilled' /\ PoolSound' /\ AnswersFit'
  <2>1. /\ state_waitflag' => at = 1 \/ (Here.type = "OPEN" /\ opened'[Here.on])
        /\ answer'["main"] # "none" => Here.type \in Synchronous \cup {"IMPORT"}
    BY <1>1, <1>2 DEF AnswersFit
  <2>2. UNCHANGED <<taskVars, pool, data_callback>>
    BY <1>2 DEF taskVars
  <2>3. \A x \in Members(to_arm') :
          x \in Members(to_arm) \/ x \notin MainArm \/ ArmFit(x, Here, counters.vc, at)
    BY <1>4
  <2> QED BY <1>3, <1>5, <2>1, <2>2, <2>3, CallKept
<1> HIDE DEF m
<1>8. MainAwaited'
  <2>1. /\ CountIn(to_vc', MainVc) = CountIn(to_vc, MainVc) - One(r \in MainArm)
        /\ CountIn(to_arm', MainArm) = CountIn(to_arm, MainArm) + One(r \in MainArm)
        /\ CountIn(to_vc, MainVc) \in Nat /\ CountIn(to_arm, MainArm) \in Nat
    BY <1>3, <1>4 DEF m
  <2> QED BY <1>1, <1>2, <2>1 DEF MainAwaited, Waits
<1>9. IoAwaited'
  <2>1. /\ CountIn(to_vc', IoVc) = CountIn(to_vc, IoVc) - One(r \in IoArm)
        /\ CountIn(to_arm', IoArm) = CountIn(to_arm, IoArm) + One(r \in IoArm)
        /\ CountIn(to_vc, IoVc) \in Nat /\ CountIn(to_arm, IoArm) \in Nat
    BY <1>3, <1>4 DEF m
  <2> QED BY <1>1, <1>2, <2>1 DEF IoAwaited
<1>10. ASSUME NEW b \in Buffers PROVE PlacesOf(b)' <= PlacesOf(b)
  <2>1. /\ CountIn(to_vc', BufVc(b)) \in Nat /\ CountIn(to_vc, BufVc(b)) \in Nat
        /\ CountIn(to_vc', BufVc(b)) <= CountIn(to_vc, BufVc(b))
    BY <1>3
  <2>2. /\ CountIn(to_arm, BufArm(b)) \in Nat /\ CountIn(work, BufWork(b)) \in Nat
        /\ CountIn(to_arm', BufArm(b)) = CountIn(to_arm, BufArm(b))
    BY <1>1, <1>4, <1>6, Sums
  <2> QED BY <1>2, <2>1, <2>2 DEF PlacesOf
<1>11. Captures' <= Captures
  <2> DEFINE d == One(vc.capturing)
             e == One(vc'.capturing)
  <2>1. /\ d \in Nat /\ e \in Nat /\ e <= d + One(m \in CapVc) /\ work' = work
    BY <1>2 DEF m
  <2>2. CountIn(to_vc', CapVc) = CountIn(to_vc, CapVc) - One(m \in CapVc)
    BY <1>3
  <2>3. /\ CountIn(to_vc, CapVc) \in Nat /\ CountIn(to_arm, EosArm) \in Nat
        /\ CountIn(work, EosWork) \in Nat
        /\ CountIn(to_arm', EosArm) = CountIn(to_arm, EosArm)
    BY <1>1, <1>4, <1>6, Sums
  <2>4. Captures = CountIn(to_vc, CapVc) + d + CountIn(to_arm, EosArm) + CountIn(work, EosWork)
    BY DEF Captures
  <2>5. Captures' = CountIn(to_vc', CapVc) + e + CountIn(to_arm', EosArm) + CountIn(work', EosWork)
    BY DEF Captures
  <2> HIDE DEF d, e
  <2> QED BY <2>1, <2>2, <2>3, <2>4, <2>5
<1>12. BuffersKept' /\ CapturesKept'
  BY <1>1, <1>2, <1>5, <1>10, <1>11, FlowMoved
<1>13. WakeUps'
  BY <1>1, <1>2 DEF WakeUps
<1> QED BY <1>5, <1>7, <1>8, <1>9, <1>12, <1>13 DEF IInv

(* The VideoCore is connected: no answer.                                  *)
LEMMA VcConnectInv == ASSUME IInv, VcConnect PROVE IInv'
<1> DEFINE m == Head(to_vc)
<1>1. /\ Typed /\ Placed /\ IoAwaited /\ BuffersKept /\ CapturesKept /\ WakeUps
  BY DEF IInv
<1>2. /\ to_vc # << >> /\ m.type = "CONNECT" /\ to_vc' = Tail(to_vc)
      /\ UNCHANGED <<to_arm, state_waitflag, opened, data_callback, at, main, enabled, port, counters,
                     answer, pool, work, work_waitflag, io, loop, vc>>
  BY DEF VcConnect, Takes, callVars, taskVars, ioVars
<1>3. /\ m \in ToVc /\ to_vc' \in Seq(ToVc) /\ Members(to_vc') \subseteq Members(to_vc)
      /\ \A S : /\ CountIn(to_vc, S) \in Nat /\ CountIn(to_vc', S) \in Nat
                /\ CountIn(to_vc', S) = CountIn(to_vc, S) - One(m \in S)
  BY <1>1, <1>2, Taken
<1>4. /\ m \notin MainVc /\ m \notin IoVc /\ m \notin CapVc /\ \A b \in Buffers : m \notin BufVc(b)
  BY <1>2 DEF MainVc, IoVc, CapVc, BufVc, Synchronous
<1> HIDE DEF m
<1>5. Typed'
  BY <1>1, <1>2, <1>3 DEF Typed
<1>6. /\ CountIn(to_vc', MainVc) = CountIn(to_vc, MainVc)
      /\ CountIn(to_vc', IoVc) = CountIn(to_vc, IoVc)
      /\ CountIn(to_vc', CapVc) = CountIn(to_vc, CapVc)
      /\ \A b \in Buffers : CountIn(to_vc', BufVc(b)) = CountIn(to_vc, BufVc(b))
  BY <1>3, <1>4
<1>7. Placed' /\ PortFilled' /\ PoolSound' /\ MainAwaited' /\ AnswersFit'
  <2>1. UNCHANGED <<taskVars, pool, state_waitflag, opened, data_callback>>
    BY <1>2 DEF taskVars
  <2> QED BY <1>2, <1>3, <1>5, <1>6, <2>1, TaskKept
<1>8. IoAwaited' /\ BuffersKept' /\ CapturesKept' /\ WakeUps'
  <2>1. at \in Nat
    BY <1>1 DEF Placed
  <2> QED BY <1>2, <1>6, <2>1, FlowKept
<1> QED BY <1>5, <1>7, <1>8 DEF IInv

(* The OPENACK names the service that was to be opened.                    *)
LEMMA VcOpenInv == ASSUME IInv, VcOpen PROVE IInv'
<1> DEFINE m == Head(to_vc)
           r == [type |-> "OPENACK", on |-> m.on]
<1>1. Typed /\ AnswersFit
  BY DEF IInv
<1>2. /\ to_vc # << >> /\ m.type = "OPEN" /\ to_vc' = Tail(to_vc) /\ to_arm' = Append(to_arm, r)
      /\ UNCHANGED <<callVars, taskVars, answer, pool, ioVars>> /\ vc' = vc
  BY DEF VcOpen, Takes, Tells
<1>3. m \in ToVc /\ m \in Members(to_vc)
  BY <1>1, <1>2, Taken
<1>4. m.on \in Services
  BY <1>2, <1>3, VcFacts
<1>5. r \in ToArm /\ r.type = "OPENACK" /\ r.on = m.on
  BY <1>4 DEF ToArm
<1>6. Here.type = "OPEN" /\ m.on = Here.on
  BY <1>1, <1>2, <1>3 DEF AnswersFit, VcKind, VcFit
<1>7. m \in MainVc /\ m \notin IoVc
  BY <1>2, <1>3 DEF MainVc, IoVc, Synchronous
<1> HIDE DEF r
<1>8. r \in MainArm /\ r \notin IoArm /\ r.type # "BUFFER_TO_HOST"
  BY <1>5 DEF MainArm, IoArm
<1>9. ArmFit(r, Here, counters.vc, at)
  BY <1>5, <1>6 DEF ArmFit
<1>10. vc' \in VcStates /\ vc'.buffers = vc.buffers /\ (vc'.capturing => vc.capturing)
  BY <1>1, <1>2 DEF Typed, VcStates
<1> QED BY <1>2, <1>5, <1>7, <1>8, <1>9, <1>10, VcAnswers

(* The answer to an import carries the number of its request.              *)
LEMMA VcImportInv == ASSUME IInv, VcImport PROVE IInv'
<1> DEFINE m == Head(to_vc)
           r == [type |-> "IMPORTED", trans_id |-> m.trans_id]
<1>1. Typed /\ AnswersFit
  BY DEF IInv
<1>2. /\ to_vc # << >> /\ m.type = "IMPORT" /\ to_vc' = Tail(to_vc) /\ to_arm' = Append(to_arm, r)
      /\ UNCHANGED <<callVars, taskVars, answer, pool, ioVars>> /\ vc' = vc
  BY DEF VcImport, Takes, Tells
<1>3. m \in ToVc /\ m \in Members(to_vc)
  BY <1>1, <1>2, Taken
<1>4. m.trans_id \in Nat
  BY <1>2, <1>3, VcFacts
<1>5. r \in ToArm /\ r.type = "IMPORTED" /\ r.trans_id = m.trans_id
  BY <1>4 DEF ToArm
<1>6. Here.type = "IMPORT" /\ m.trans_id = counters.vc - 1
  BY <1>1, <1>2, <1>3 DEF AnswersFit, VcKind, VcFit
<1>7. m \in MainVc /\ m \notin IoVc
  BY <1>2, <1>3 DEF MainVc, IoVc, Synchronous
<1> HIDE DEF r
<1>8. r \in MainArm /\ r \notin IoArm /\ r.type # "BUFFER_TO_HOST"
  BY <1>5 DEF MainArm, IoArm
<1>9. ArmFit(r, Here, counters.vc, at)
  BY <1>5, <1>6 DEF ArmFit
<1>10. vc' \in VcStates /\ vc'.buffers = vc.buffers /\ (vc'.capturing => vc.capturing)
  BY <1>1, <1>2 DEF Typed, VcStates
<1> QED BY <1>2, <1>5, <1>7, <1>8, <1>9, <1>10, VcAnswers

(* A synchronous request is answered, one way or the other.                *)
LEMMA SynchronousAnswered ==
  ASSUME IInv, to_vc # << >>, Head(to_vc).type \in Synchronous, to_vc' = Tail(to_vc),
         NEW status \in {"ok", "enabled", "error"}, to_arm' = Append(to_arm, Answer(Head(to_vc), status)),
         UNCHANGED <<callVars, taskVars, answer, pool, ioVars>>, vc' \in VcStates,
         vc'.buffers = vc.buffers,
         vc'.capturing => vc.capturing \/ Head(to_vc).type = "CAPTURE"
  PROVE  IInv'
<1> DEFINE m == Head(to_vc)
           r == Answer(m, status)
<1>1. Typed /\ AnswersFit
  BY DEF IInv
<1>2. m \in ToVc /\ m \in Members(to_vc)
  BY <1>1, Taken
<1>3. m.ctx \in Callers
  BY <1>2, VcFacts
<1>4. r \in ToArm /\ r.type = "REPLY" /\ r.ctx = m.ctx
  BY <1>3 DEF ToArm, Answer
<1>5. m.ctx = "main" => Here.type \in Synchronous
  BY <1>1, <1>2 DEF AnswersFit, VcKind, VcFit
<1>6. /\ m \in MainVc <=> m.ctx = "main"
      /\ m \in IoVc <=> m.ctx = "io"
      /\ m.type = "CAPTURE" => m \in CapVc
  BY <1>2 DEF MainVc, IoVc, CapVc, Synchronous
<1>7. to_arm' = Append(to_arm, r)
  OBVIOUS
<1> HIDE DEF r
<1>8. /\ r \in MainArm <=> m.ctx = "main"
      /\ r \in IoArm <=> m.ctx = "io"
      /\ r.type # "BUFFER_TO_HOST"
  BY <1>4 DEF MainArm, IoArm
<1>9. r \in MainArm => ArmFit(r, Here, counters.vc, at)
  BY <1>4, <1>5, <1>8 DEF ArmFit
<1> QED BY <1>4, <1>6, <1>7, <1>8, <1>9, VcAnswers

(* The VideoCore does what it is asked.                                    *)
LEMMA VcReplyInv == ASSUME IInv, VcReply PROVE IInv'
<1> DEFINE m == Head(to_vc)
           status == IF m.type = "PORT_INFO_GET" /\ vc.enabled THEN "enabled" ELSE "ok"
<1>1. vc \in VcStates
  BY DEF IInv, Typed, VcStates
<1>2. /\ to_vc # << >> /\ m.type \in Synchronous /\ to_vc' = Tail(to_vc)
      /\ to_arm' = Append(to_arm, Answer(m, status))
      /\ vc' = CASE m.type = "PORT_ENABLE" -> [vc EXCEPT !.enabled = TRUE]
                 [] m.type = "CAPTURE" -> [vc EXCEPT !.capturing = TRUE]
                 [] OTHER -> vc
      /\ UNCHANGED <<callVars, taskVars, answer, pool, ioVars>>
  BY DEF VcReply, Tells
<1>3. status \in {"ok", "enabled", "error"}
  OBVIOUS
<1>4. /\ vc' \in VcStates /\ vc'.buffers = vc.buffers
      /\ vc'.capturing => vc.capturing \/ m.type = "CAPTURE"
  <2>1. CASE m.type = "PORT_ENABLE"
    BY <1>1, <1>2, <2>1 DEF VcStates
  <2>2. CASE m.type = "CAPTURE"
    BY <1>1, <1>2, <2>2 DEF VcStates
  <2>3. CASE m.type # "PORT_ENABLE" /\ m.type # "CAPTURE"
    BY <1>1, <1>2, <2>3 DEF VcStates
  <2> QED BY <2>1, <2>2, <2>3
<1> HIDE DEF status
<1> QED BY <1>2, <1>3, <1>4, SynchronousAnswered

(* The VideoCore refuses a request, or a buffer: then the answer is for a  *)
(* call that has returned.                                                 *)
LEMMA VcRefuseInv == ASSUME IInv, VcRefuse PROVE IInv'
<1> DEFINE m == Head(to_vc)
           r == Answer(m, "error")
<1>1. Typed /\ vc \in VcStates
  BY DEF IInv, Typed, VcStates
<1>2. /\ to_vc # << >> /\ m.type \in Synchronous \cup {"BUFFER_FROM_HOST"}
      /\ to_vc' = Tail(to_vc) /\ to_arm' = Append(to_arm, r) /\ vc' = vc
      /\ UNCHANGED <<callVars, taskVars, answer, pool, ioVars>>
  BY DEF VcRefuse, Tells
<1>3. "error" \in {"ok", "enabled", "error"}
  OBVIOUS
<1>4. CASE m.type \in Synchronous
  BY <1>1, <1>2, <1>3, <1>4, SynchronousAnswered
<1>5. CASE m.type = "BUFFER_FROM_HOST"
  <2>1. m \in ToVc
    BY <1>1, <1>2, Taken
  <2>2. m.ctx \in Frames
    BY <1>5, <2>1, VcFacts
  <2>3. r \in ToArm /\ r.type = "REPLY" /\ r.ctx \in Frames
    BY <2>2 DEF ToArm, Answer
  <2>4. m \notin MainVc /\ m \notin IoVc
    BY <1>5 DEF MainVc, IoVc, Synchronous
  <2> HIDE DEF m, r
  <2>5. r \notin MainArm /\ r \notin IoArm /\ r.type # "BUFFER_TO_HOST"
    BY <2>3 DEF MainArm, IoArm, Frames
  <2> QED BY <1>1, <1>2, <2>3, <2>4, <2>5, VcAnswers DEF m
<1> QED BY <1>2, <1>4, <1>5

(* The VideoCore has signalled what it wrote.                              *)
LEMMA VcSignalInv == ASSUME IInv, VcSignal PROVE IInv'
<1>1. loop \in Loops
  BY DEF IInv, Typed
<1>2. /\ loop' \in Loops
      /\ UNCHANGED <<to_vc, to_arm, callVars, taskVars, answer, pool, work, work_waitflag, io, vc>>
  BY <1>1 DEF VcSignal, Loops
<1> QED BY <1>2, LoopMoved

(* A buffer comes back at once.                                            *)
LEMMA VcRejectInv == ASSUME IInv, VcReject PROVE IInv'
<1> DEFINE m == Head(to_vc)
           r == [type |-> "BUFFER_TO_HOST", on |-> m.on, eos |-> FALSE]
<1>1. /\ Typed /\ Placed /\ IoAwaited /\ BuffersKept /\ CapturesKept /\ WakeUps
  BY DEF IInv
<1>2. /\ to_vc # << >> /\ m.type = "BUFFER_FROM_HOST" /\ to_vc' = Tail(to_vc)
      /\ to_arm' = Append(to_arm, r)
      /\ UNCHANGED <<state_waitflag, opened, data_callback, at, main, enabled, port, counters,
                     answer, pool, work, work_waitflag, io, loop, vc>>
  BY DEF VcReject, Takes, Tells, callVars, taskVars, ioVars
<1>3. /\ m \in ToVc /\ to_vc' \in Seq(ToVc) /\ Members(to_vc') \subseteq Members(to_vc)
      /\ \A S : /\ CountIn(to_vc, S) \in Nat /\ CountIn(to_vc', S) \in Nat
                /\ CountIn(to_vc', S) = CountIn(to_vc, S) - One(m \in S)
  BY <1>1, <1>2, Taken
<1>4. m.on \in Buffers
  BY <1>2, <1>3, VcFacts
<1>5. /\ m \notin MainVc /\ m \notin IoVc /\ m \notin CapVc
      /\ \A b \in Buffers : m \in BufVc(b) <=> b = m.on
  BY <1>2, <1>3 DEF MainVc, IoVc, CapVc, BufVc, Synchronous
<1>6. r \in ToArm /\ r.type = "BUFFER_TO_HOST" /\ r.on = m.on /\ r.eos = FALSE
  BY <1>4 DEF ToArm
<1> HIDE DEF m, r
<1>7. /\ to_arm' \in Seq(ToArm) /\ Members(to_arm') = Members(to_arm) \cup {r}
      /\ \A S : /\ CountIn(to_arm, S) \in Nat
                /\ CountIn(to_arm', S) = CountIn(to_arm, S) + One(r \in S)
  BY <1>1, <1>2, <1>6, Told
<1>8. /\ r \notin MainArm /\ r \notin IoArm /\ r \notin EosArm
      /\ \A b \in Buffers : r \in BufArm(b) <=> b = m.on
  BY <1>6 DEF MainArm, IoArm, EosArm, BufArm
<1>9. Typed'
  BY <1>1, <1>2, <1>3, <1>7 DEF Typed
<1>10. /\ CountIn(to_vc', MainVc) = CountIn(to_vc, MainVc)
       /\ CountIn(to_vc', IoVc) = CountIn(to_vc, IoVc)
       /\ CountIn(to_vc', CapVc) = CountIn(to_vc, CapVc)
       /\ CountIn(to_arm', MainArm) = CountIn(to_arm, MainArm)
       /\ CountIn(to_arm', IoArm) = CountIn(to_arm, IoArm)
       /\ CountIn(to_arm', EosArm) = CountIn(to_arm, EosArm)
  BY <1>3, <1>5, <1>7, <1>8
<1>11. Placed' /\ PortFilled' /\ PoolSound' /\ MainAwaited' /\ AnswersFit'
  <2>1. UNCHANGED <<taskVars, pool, state_waitflag, opened, data_callback>>
    BY <1>2 DEF taskVars
  <2>2. \A x \in Members(to_arm') : x \in Members(to_arm) \/ x \notin MainArm
    BY <1>7, <1>8
  <2> QED BY <1>2, <1>3, <1>9, <1>10, <2>1, <2>2, TaskKept
<1>12. IoAwaited'
  BY <1>1, <1>2, <1>10 DEF IoAwaited
<1>13. ASSUME NEW b \in Buffers PROVE PlacesOf(b)' <= PlacesOf(b)
  <2> DEFINE d == One(b \in vc.buffers)
  <2>1. /\ CountIn(to_vc', BufVc(b)) = CountIn(to_vc, BufVc(b)) - One(b = m.on)
        /\ CountIn(to_arm', BufArm(b)) = CountIn(to_arm, BufArm(b)) + One(b = m.on)
    BY <1>3, <1>5, <1>7, <1>8
  <2>2. /\ CountIn(to_vc, BufVc(b)) \in Nat /\ CountIn(to_arm, BufArm(b)) \in Nat
        /\ CountIn(work, BufWork(b)) \in Nat
    BY <1>1, Sums
  <2>3. d \in Nat /\ One(b \in vc'.buffers) = d /\ work' = work
    BY <1>2
  <2>4. PlacesOf(b) = CountIn(to_vc, BufVc(b)) + CountIn(to_arm, BufArm(b)) + CountIn(work, BufWork(b)) + d
    BY DEF PlacesOf
  <2> HIDE DEF d
  <2>5. PlacesOf(b)' = CountIn(to_vc', BufVc(b)) + CountIn(to_arm', BufArm(b)) + CountIn(work', BufWork(b)) + d
    BY <2>3 DEF PlacesOf
  <2> QED BY <2>1, <2>2, <2>3, <2>4, <2>5
<1>14. Captures' <= Captures
  <2>1. Captures' = Captures /\ Captures \in Nat
    BY <1>1, <1>2, <1>10, Sums DEF Captures
  <2> QED BY <2>1
<1>15. BuffersKept' /\ CapturesKept'
  BY <1>1, <1>2, <1>9, <1>13, <1>14, FlowMoved
<1>16. WakeUps'
  BY <1>1, <1>2 DEF WakeUps
<1> QED BY <1>9, <1>11, <1>12, <1>15, <1>16 DEF IInv

(* A buffer is with the VideoCore.                                         *)
LEMMA VcBufferInv == ASSUME IInv, VcBuffer PROVE IInv'
<1> DEFINE m == Head(to_vc)
<1>1. /\ Typed /\ Placed /\ IoAwaited /\ BuffersKept /\ CapturesKept /\ WakeUps
  BY DEF IInv
<1>2. /\ to_vc # << >> /\ m.type = "BUFFER_FROM_HOST" /\ to_vc' = Tail(to_vc)
      /\ vc' = [vc EXCEPT !.buffers = @ \cup {m.on}]
      /\ UNCHANGED <<to_arm, state_waitflag, opened, data_callback, at, main, enabled, port, counters,
                     answer, pool, work, work_waitflag, io, loop>>
  BY DEF VcBuffer, Takes, callVars, taskVars, ioVars
<1>3. /\ m \in ToVc /\ to_vc' \in Seq(ToVc) /\ Members(to_vc') \subseteq Members(to_vc)
      /\ \A S : /\ CountIn(to_vc, S) \in Nat /\ CountIn(to_vc', S) \in Nat
                /\ CountIn(to_vc', S) = CountIn(to_vc, S) - One(m \in S)
  BY <1>1, <1>2, Taken
<1>4. m.on \in Buffers
  BY <1>2, <1>3, VcFacts
<1>5. /\ m \notin MainVc /\ m \notin IoVc /\ m \notin CapVc
      /\ \A b \in Buffers : m \in BufVc(b) <=> b = m.on
  BY <1>2, <1>3 DEF MainVc, IoVc, CapVc, BufVc, Synchronous
<1> HIDE DEF m
<1>6. /\ vc' \in VcStates /\ vc'.buffers = vc.buffers \cup {m.on} /\ vc'.capturing = vc.capturing
  BY <1>1, <1>2, <1>4 DEF Typed, VcStates
<1>7. Typed'
  BY <1>1, <1>2, <1>3, <1>6 DEF Typed, VcStates
<1>8. /\ CountIn(to_vc', MainVc) = CountIn(to_vc, MainVc)
      /\ CountIn(to_vc', IoVc) = CountIn(to_vc, IoVc)
      /\ CountIn(to_vc', CapVc) = CountIn(to_vc, CapVc)
  BY <1>3, <1>5
<1>9. Placed' /\ PortFilled' /\ PoolSound' /\ MainAwaited' /\ AnswersFit'
  <2>1. UNCHANGED <<taskVars, pool, state_waitflag, opened, data_callback>>
    BY <1>2 DEF taskVars
  <2> QED BY <1>2, <1>3, <1>7, <1>8, <2>1, TaskKept
<1>10. IoAwaited'
  BY <1>1, <1>2, <1>8 DEF IoAwaited
<1>11. ASSUME NEW b \in Buffers PROVE PlacesOf(b)' <= PlacesOf(b)
  <2> DEFINE d == One(b \in vc.buffers)
             e == One(b \in vc'.buffers)
  <2>1. CountIn(to_vc', BufVc(b)) = CountIn(to_vc, BufVc(b)) - One(b = m.on)
    BY <1>3, <1>5
  <2>2. /\ CountIn(to_vc, BufVc(b)) \in Nat /\ CountIn(to_arm, BufArm(b)) \in Nat
        /\ CountIn(work, BufWork(b)) \in Nat
    BY <1>1, Sums
  <2>3. d \in Nat /\ e \in Nat /\ e <= d + One(b = m.on) /\ to_arm' = to_arm /\ work' = work
    BY <1>2, <1>6
  <2>4. PlacesOf(b) = CountIn(to_vc, BufVc(b)) + CountIn(to_arm, BufArm(b)) + CountIn(work, BufWork(b)) + d
    BY DEF PlacesOf
  <2>5. PlacesOf(b)' = CountIn(to_vc', BufVc(b)) + CountIn(to_arm', BufArm(b)) + CountIn(work', BufWork(b)) + e
    BY DEF PlacesOf
  <2> HIDE DEF d, e
  <2> QED BY <2>1, <2>2, <2>3, <2>4, <2>5
<1>12. Captures' <= Captures
  <2>1. Captures' = Captures /\ Captures \in Nat
    BY <1>1, <1>2, <1>6, <1>8, Sums DEF Captures
  <2> QED BY <2>1
<1>13. BuffersKept' /\ CapturesKept'
  BY <1>1, <1>2, <1>7, <1>11, <1>12, FlowMoved
<1>14. WakeUps'
  BY <1>1, <1>2 DEF WakeUps
<1> QED BY <1>7, <1>9, <1>10, <1>13, <1>14 DEF IInv

(* A buffer comes back; the last one of a frame ends the capture.          *)
LEMMA VcReturnInv ==
  ASSUME IInv, NEW b \in Buffers, NEW eos \in BOOLEAN, VcReturn(b, eos)
  PROVE  IInv'
<1> DEFINE r == [type |-> "BUFFER_TO_HOST", on |-> b, eos |-> eos]
<1>1. /\ Typed /\ Placed /\ IoAwaited /\ BuffersKept /\ CapturesKept /\ WakeUps
  BY DEF IInv
<1>2. /\ vc.capturing /\ b \in vc.buffers /\ to_arm' = Append(to_arm, r)
      /\ vc' = [vc EXCEPT !.buffers = @ \ {b}, !.capturing = ~eos]
      /\ UNCHANGED <<to_vc, state_waitflag, opened, data_callback, at, main, enabled, port, counters,
                     answer, pool, work, work_waitflag, io, loop>>
  BY DEF VcReturn, Tells, callVars, taskVars, ioVars
<1>3. r \in ToArm /\ r.type = "BUFFER_TO_HOST" /\ r.on = b /\ r.eos = eos
  BY DEF ToArm
<1> HIDE DEF r
<1>4. /\ to_arm' \in Seq(ToArm) /\ Members(to_arm') = Members(to_arm) \cup {r}
      /\ \A S : /\ CountIn(to_arm, S) \in Nat
                /\ CountIn(to_arm', S) = CountIn(to_arm, S) + One(r \in S)
  BY <1>1, <1>2, <1>3, Told
<1>5. /\ r \notin MainArm /\ r \notin IoArm /\ (r \in EosArm <=> eos)
      /\ \A c \in Buffers : r \in BufArm(c) <=> c = b
  BY <1>3 DEF MainArm, IoArm, EosArm, BufArm
<1>6. /\ vc' \in VcStates /\ vc'.buffers = vc.buffers \ {b} /\ vc'.capturing = ~eos
  BY <1>1, <1>2 DEF Typed, VcStates
<1>7. Typed'
  BY <1>1, <1>2, <1>4, <1>6 DEF Typed, VcStates
<1>8. /\ CountIn(to_arm', MainArm) = CountIn(to_arm, MainArm)
      /\ CountIn(to_arm', IoArm) = CountIn(to_arm, IoArm)
  BY <1>4, <1>5
<1>9. Placed' /\ PortFilled' /\ PoolSound' /\ MainAwaited' /\ AnswersFit'
  <2>1. UNCHANGED <<taskVars, pool, state_waitflag, opened, data_callback>>
    BY <1>2 DEF taskVars
  <2>2. \A m \in Members(to_arm') : m \in Members(to_arm) \/ m \notin MainArm
    BY <1>4, <1>5
  <2> QED BY <1>2, <1>7, <1>8, <2>1, <2>2, TaskKept
<1>10. IoAwaited'
  BY <1>1, <1>2, <1>8 DEF IoAwaited
<1>11. ASSUME NEW c \in Buffers PROVE PlacesOf(c)' <= PlacesOf(c)
  <2> DEFINE d == One(c \in vc.buffers)
             e == One(c \in vc'.buffers)
  <2>1. CountIn(to_arm', BufArm(c)) = CountIn(to_arm, BufArm(c)) + One(c = b)
    BY <1>4, <1>5
  <2>2. /\ CountIn(to_vc, BufVc(c)) \in Nat /\ CountIn(to_arm, BufArm(c)) \in Nat
        /\ CountIn(work, BufWork(c)) \in Nat
    BY <1>1, Sums
  <2>3. d \in Nat /\ e \in Nat /\ e + One(c = b) <= d /\ to_vc' = to_vc /\ work' = work
    BY <1>2, <1>6
  <2>4. PlacesOf(c) = CountIn(to_vc, BufVc(c)) + CountIn(to_arm, BufArm(c)) + CountIn(work, BufWork(c)) + d
    BY DEF PlacesOf
  <2>5. PlacesOf(c)' = CountIn(to_vc', BufVc(c)) + CountIn(to_arm', BufArm(c)) + CountIn(work', BufWork(c)) + e
    BY DEF PlacesOf
  <2> HIDE DEF d, e
  <2> QED BY <2>1, <2>2, <2>3, <2>4, <2>5
<1>12. Captures' <= Captures
  <2> DEFINE d == One(vc.capturing)
             e == One(vc'.capturing)
  <2>1. CountIn(to_arm', EosArm) = CountIn(to_arm, EosArm) + One(eos)
    BY <1>4, <1>5
  <2>2. /\ CountIn(to_vc, CapVc) \in Nat /\ CountIn(to_arm, EosArm) \in Nat
        /\ CountIn(work, EosWork) \in Nat
    BY <1>1, Sums
  <2>3. d \in Nat /\ e \in Nat /\ e + One(eos) = d /\ to_vc' = to_vc /\ work' = work
    <3>1. d = 1
      BY <1>2
    <3>2. e = IF eos THEN 0 ELSE 1
      <4>1. CASE eos
        <5>1. vc'.capturing = FALSE
          BY <1>6, <4>1
        <5> QED BY <4>1, <5>1
      <4>2. CASE ~eos
        <5>1. vc'.capturing = TRUE
          BY <1>6, <4>2
        <5> QED BY <4>2, <5>1
      <4> QED BY <4>1, <4>2
    <3> HIDE DEF d, e
    <3> QED BY <1>2, <3>1, <3>2
  <2>4. Captures = CountIn(to_vc, CapVc) + d + CountIn(to_arm, EosArm) + CountIn(work, EosWork)
    BY DEF Captures
  <2>5. Captures' = CountIn(to_vc', CapVc) + e + CountIn(to_arm', EosArm) + CountIn(work', EosWork)
    BY DEF Captures
  <2> HIDE DEF d, e
  <2> QED BY <2>1, <2>2, <2>3, <2>4, <2>5
<1>13. BuffersKept' /\ CapturesKept'
  BY <1>1, <1>2, <1>7, <1>11, <1>12, FlowMoved
<1>14. WakeUps'
  BY <1>1, <1>2 DEF WakeUps
<1> QED BY <1>7, <1>9, <1>10, <1>13, <1>14 DEF IInv

----------------------------------------------------------------------------
(* The invariant holds.                                                    *)

(* In the beginning the CONNECT of the VideoCore is under way.             *)
LEMMA InitInv == ASSUME Init PROVE IInv
<1> DEFINE m == [type |-> "CONNECT"]
<1>1. m \in ToArm /\ m.type = "CONNECT"
  BY DEF ToArm
<1>2. /\ to_vc = << >> /\ to_arm = <<m>> /\ state_waitflag = FALSE /\ at = 1 /\ main = "call"
      /\ opened = [s \in Services |-> FALSE] /\ data_callback = [s \in Services |-> FALSE]
      /\ answer = [t \in Callers |-> "none"] /\ enabled = [c \in Components |-> FALSE]
      /\ port = [enabled |-> FALSE, zero_copy |-> FALSE, buffers |-> << >>]
      /\ pool = [i \in 1..POOL_SIZE |-> [active |-> FALSE, trans_id |-> 0]]
      /\ counters = [mems |-> 0, vc |-> 0]
      /\ work = << >> /\ work_waitflag = FALSE /\ io = "sleep" /\ loop = "test"
      /\ vc \in [enabled : BOOLEAN, buffers : {{}}, capturing : {FALSE}]
  BY DEF Init, Callers
<1> HIDE DEF m
<1>3. /\ to_arm \in Seq(ToArm) /\ Members(to_arm) = {m}
      /\ \A S : CountIn(to_arm, S) = One(m \in S)
  <2>1. << >> \in Seq(ToArm) /\ Append(<< >>, m) = <<m>> /\ Members(<< >>) = {}
    BY <1>1 DEF Members
  <2>2. /\ Append(<< >>, m) \in Seq(ToArm) /\ Members(Append(<< >>, m)) = Members(<< >>) \cup {m}
        /\ \A S : CountIn(Append(<< >>, m), S) = CountIn(<< >>, S) + One(m \in S)
    BY <1>1, <2>1, Queued
  <2> QED BY <1>2, <2>1, <2>2, CountEmpty
<1>4. /\ \A S : CountIn(to_vc, S) = 0 /\ CountIn(work, S) = 0
      /\ Members(to_vc) = {} /\ Len(work) = 0
  BY <1>2, CountEmpty DEF Members
<1>5. /\ m \in MainArm /\ m \notin IoArm /\ m \notin EosArm /\ \A b \in Buffers : m \notin BufArm(b)
  BY <1>1 DEF MainArm, IoArm, EosArm, BufArm
<1>6. vc.buffers = {} /\ vc.capturing = FALSE
      /\ vc \in [enabled : BOOLEAN, buffers : SUBSET Buffers, capturing : BOOLEAN]
  BY <1>2
<1>7. Typed
  <2>1. to_vc \in Seq(ToVc) /\ work \in Seq(Works)
    BY <1>2
  <2>2. port \in [enabled : BOOLEAN, zero_copy : BOOLEAN, buffers : Seq(Buffers)]
    BY <1>2
  <2>3. /\ opened \in [Services -> BOOLEAN] /\ data_callback \in [Services -> BOOLEAN]
        /\ enabled \in [Components -> BOOLEAN]
        /\ answer \in [Callers -> {"none", "ok", "enabled", "error"}]
    BY <1>2
  <2>4. /\ state_waitflag \in BOOLEAN /\ work_waitflag \in BOOLEAN
        /\ main \in {"call", "wait", "receive", "stopped", "fault"}
        /\ io \in {"sleep", "work", "wait"} /\ loop \in Loops
    BY <1>2 DEF Loops
  <2> QED BY <1>3, <1>6, <2>1, <2>2, <2>3, <2>4 DEF Typed
<1>8. Placed
  BY <1>2, Numbers DEF Placed
<1>9. PortFilled
  <2>1. Imports = 0 /\ port.buffers = << >>
    BY <1>2, Numbers DEF Imports
  <2> QED BY <2>1 DEF PortFilled
<1>10. PoolSound
  <2>1. ~Importing
    BY <1>2 DEF Importing
  <2>2. 1 \in 1..POOL_SIZE /\ \A i \in 2..POOL_SIZE : i \in 1..POOL_SIZE
    BY MmalAssumption
  <2> QED BY <1>2, <2>1, <2>2 DEF PoolSound
<1>11. MainAwaited
  <2>1. answer["main"] = "none" /\ Waits
    BY <1>2 DEF Callers, Waits
  <2> QED BY <1>2, <1>3, <1>4, <1>5, <2>1 DEF MainAwaited
<1>12. AnswersFit
  <2>1. ArmKind(m)
    BY <1>1, <1>2 DEF ArmKind, ArmFit
  <2> QED BY <1>2, <1>3, <1>4, <2>1 DEF AnswersFit, Callers
<1>13. IoAwaited
  BY <1>2, <1>3, <1>4, <1>5 DEF IoAwaited, Callers
<1>14. BuffersKept
  <2>1. \A b \in Buffers : PlacesOf(b) = 0
    BY <1>3, <1>4, <1>5, <1>6 DEF PlacesOf
  <2>2. ~(at > SENDS)
    BY <1>2, Numbers
  <2> QED BY <2>1, <2>2 DEF BuffersKept
<1>15. CapturesKept
  <2>1. Captures = 0
    BY <1>3, <1>4, <1>5, <1>6 DEF Captures
  <2>2. ~(at > CAPTURES) /\ at # CAPTURES
    BY <1>2, Numbers
  <2> QED BY <2>1, <2>2 DEF CapturesKept
<1>16. WakeUps
  BY <1>2, <1>4, Numbers DEF WakeUps
<1> QED BY <1>7, <1>8, <1>9, <1>10, <1>11, <1>12, <1>13, <1>14, <1>15, <1>16 DEF IInv

(* Every step keeps it.                                                    *)
LEMMA StepInv == ASSUME IInv, [Next]_vars PROVE IInv'
<1>1. CASE MainTask
  BY <1>1, WaitConnectInv, ConnectInv, OpenServiceInv, ServiceOpenInv, AskInv, SkipEnableInv,
     AnsweredInv, RefusedInv, ImportInv, ImportedInv, SendAllInv DEF MainTask
<1>2. CASE LoopThread
  BY <1>2, DispatchConnectInv, DispatchOpenackInv, DispatchReplyInv, DispatchStaleInv,
     DispatchImportedInv, DispatchBufferInv, LoopWaitInv DEF LoopThread
<1>3. CASE IoThread
  BY <1>3, IoWakeInv, IoWorkInv, IoAnsweredInv DEF IoThread
<1>4. CASE VideoCore
  BY <1>4, VcConnectInv, VcOpenInv, VcImportInv, VcBufferInv, VcRejectInv, VcReplyInv,
     VcRefuseInv, VcSignalInv, VcReturnInv DEF VideoCore
<1>5. CASE UNCHANGED vars
  <2>1. /\ loop' \in Loops
        /\ UNCHANGED <<to_vc, to_arm, callVars, taskVars, answer, pool, work, work_waitflag, io, vc>>
    BY <1>5 DEF vars, ioVars, IInv, Typed
  <2> QED BY <2>1, LoopMoved
<1> QED BY <1>1, <1>2, <1>3, <1>4, <1>5 DEF Next

(* The loop thread's event and the VideoCore's signal.                     *)
EventsTyped == fired \in BOOLEAN /\ signal \in BOOLEAN

(* An answer for a call that has returned finds the callback set: the      *)
(* script is past handing the buffers over.                                *)
StaleLate ==
  \A m \in Members(to_arm) : m.type = "REPLY" /\ m.ctx \in Frames => data_callback["mmal"]

LEMMA EventsStart == ASSUME Init PROVE EventsTyped /\ StaleLate
<1>1. to_arm = <<[type |-> "CONNECT"]>> /\ fired = FALSE /\ signal = TRUE
  BY DEF Init
<1>2. \A m \in Members(to_arm) : m.type = "CONNECT"
  BY <1>1 DEF Members
<1> QED BY <1>1, <1>2 DEF EventsTyped, StaleLate

LEMMA EventsStep == ASSUME EventsTyped, [Next]_vars PROVE EventsTyped'
<1>1. CASE MainTask
  BY <1>1 DEF MainTask, WaitConnect, Connect, OpenService, ServiceOpen, Ask, SkipEnable, Answered,
     Refused, Import, Imported, SendAll, eventVars, EventsTyped
<1>2. CASE LoopThread
  BY <1>2 DEF LoopThread, DispatchConnect, DispatchOpenack, DispatchReply, DispatchStale,
     DispatchImported, DispatchBuffer, LoopTest, LoopArm, LoopWoken, LoopAgain, LoopStep,
     eventVars, EventsTyped
<1>3. CASE IoThread
  BY <1>3 DEF IoThread, IoWake, IoWork, IoAnswered, eventVars, EventsTyped
<1>4. CASE VideoCore
  BY <1>4 DEF VideoCore, VcConnect, VcOpen, VcImport, VcBuffer, VcReject, VcReply, VcRefuse,
     VcSignal, VcReturn, Tells, eventVars, EventsTyped
<1>5. CASE UNCHANGED vars
  BY <1>5 DEF vars, eventVars, EventsTyped
<1> QED BY <1>1, <1>2, <1>3, <1>4, <1>5 DEF Next

(* Nothing but VcRefuse answers a call that has returned.                  *)
LEMMA StaleStep == ASSUME IInv, StaleLate, [Next]_vars PROVE StaleLate'
<1>1. Typed /\ Placed /\ to_arm \in Seq(ToArm)
  BY DEF IInv, Typed
<1>2. data_callback["mmal"] => data_callback'["mmal"]
  <2>1. CASE ServiceOpen
    <3>1. data_callback \in [Services -> BOOLEAN]
      BY <1>1 DEF Typed
    <3> QED BY <2>1, <3>1 DEF ServiceOpen, Services
  <2>2. CASE ~ServiceOpen
    BY <2>2 DEF Next, MainTask, WaitConnect, Connect, OpenService, Ask, SkipEnable, Answered,
       Refused, Import, Imported, SendAll, LoopThread, DispatchConnect, DispatchOpenack,
       DispatchReply, DispatchStale, DispatchImported, DispatchBuffer, LoopTest, LoopArm,
       LoopWoken, LoopAgain, LoopStep, IoThread, IoWake, IoWork, IoAnswered, VideoCore, VcConnect,
       VcOpen, VcImport, VcBuffer, VcReject, VcReply, VcRefuse, VcSignal, VcReturn, callVars, vars
  <2> QED BY <2>1, <2>2
<1>3. ASSUME NEW r \in ToArm, to_arm' = Append(to_arm, r), r.type = "REPLY" => r.ctx \notin Frames
      PROVE  StaleLate'
  <2>1. Members(to_arm') = Members(to_arm) \cup {r}
    BY <1>1, <1>3, Told
  <2> QED BY <1>2, <1>3, <2>1 DEF StaleLate
<1>4. ASSUME to_arm' = to_arm \/ (to_arm # << >> /\ to_arm' = Tail(to_arm))
      PROVE  StaleLate'
  <2>1. Members(to_arm') \subseteq Members(to_arm)
    BY <1>1, <1>4, Dequeued
  <2> QED BY <1>2, <2>1 DEF StaleLate
<1>5. CASE MainTask
  <2>1. to_arm' = to_arm
    BY <1>5 DEF MainTask, WaitConnect, Connect, OpenService, ServiceOpen, Ask, SkipEnable, Answered,
       Refused, Import, Imported, SendAll
  <2> QED BY <1>4, <2>1
<1>6. CASE LoopThread
  <2>1. to_arm' = to_arm \/ (to_arm # << >> /\ to_arm' = Tail(to_arm))
    BY <1>6 DEF LoopThread, DispatchConnect, DispatchOpenack, DispatchReply, DispatchStale,
       DispatchImported, DispatchBuffer, LoopTest, LoopArm, LoopWoken, LoopAgain, LoopStep, Arrives
  <2> QED BY <1>4, <2>1
<1>7. CASE IoThread
  <2>1. to_arm' = to_arm
    BY <1>7 DEF IoThread, IoWake, IoWork, IoAnswered
  <2> QED BY <1>4, <2>1
<1>8. CASE VideoCore
  <2> DEFINE m == Head(to_vc)
  <2>1. CASE VcConnect \/ VcBuffer \/ VcSignal
    <3>1. to_arm' = to_arm
      BY <2>1 DEF VcConnect, VcBuffer, VcSignal
    <3> QED BY <1>4, <3>1
  <2>2. CASE VcOpen \/ VcImport \/ VcReject \/ \E b \in Buffers, eos \in BOOLEAN : VcReturn(b, eos)
    <3>1. PICK r : to_arm' = Append(to_arm, r) /\ r.type # "REPLY"
      <4>1. CASE VcOpen
        <5> WITNESS [type |-> "OPENACK", on |-> m.on]
        <5> QED BY <4>1 DEF VcOpen, Tells
      <4>2. CASE VcImport
        <5> WITNESS [type |-> "IMPORTED", trans_id |-> m.trans_id]
        <5> QED BY <4>2 DEF VcImport, Tells
      <4>3. CASE VcReject
        <5> WITNESS [type |-> "BUFFER_TO_HOST", on |-> m.on, eos |-> FALSE]
        <5> QED BY <4>3 DEF VcReject, Tells
      <4>4. CASE \E b \in Buffers, eos \in BOOLEAN : VcReturn(b, eos)
        <5>1. PICK b \in Buffers, eos \in BOOLEAN : VcReturn(b, eos)
          BY <4>4
        <5> WITNESS [type |-> "BUFFER_TO_HOST", on |-> b, eos |-> eos]
        <5> QED BY <5>1 DEF VcReturn, Tells
      <4> QED BY <2>2, <4>1, <4>2, <4>3, <4>4
    <3>2. to_arm \in Seq(ToArm \cup {r}) /\ r \in ToArm \cup {r}
      BY <1>1
    <3> DEFINE T == ToArm \cup {r}
    <3> HIDE DEF T
    <3>3. Members(Append(to_arm, r)) = Members(to_arm) \cup {r}
      BY <3>2, AppendMembers DEF T
    <3> QED BY <1>2, <3>1, <3>3 DEF StaleLate
  <2>3. CASE VcReply \/ VcRefuse
    <3>1. PICK status \in {"ok", "enabled", "error"} :
            /\ to_vc # << >> /\ m.type \in Synchronous \cup {"BUFFER_FROM_HOST"}
            /\ to_arm' = Append(to_arm, Answer(m, status))
      BY <2>3 DEF VcReply, VcRefuse, Tells
    <3>2. m \in ToVc /\ m \in Members(to_vc)
      BY <1>1, <3>1, Dequeued DEF Typed
    <3> DEFINE r == Answer(m, status)
    <3>3. r \in ToArm /\ r.type = "REPLY" /\ r.ctx = m.ctx
      <4>1. m.ctx \in Callers \cup Frames
        BY <3>1, <3>2, VcFacts
      <4> QED BY <4>1 DEF ToArm, Answer
    <3>4. CASE m.type \in Synchronous
      <4>1. m.ctx \notin Frames
        BY <3>2, <3>4, VcFacts DEF Callers, Frames
      <4> HIDE DEF r
      <4> QED BY <1>3, <3>1, <3>3, <4>1 DEF r
    <3>5. CASE m.type = "BUFFER_FROM_HOST"
      <4>1. m.on \in Buffers /\ m \in BufVc(m.on)
        BY <3>2, <3>5, VcFacts DEF BufVc
      <4>2. CountIn(to_vc, BufVc(m.on)) # 0
        BY <1>1, <3>2, <4>1, Counting
      <4>3. PlacesOf(m.on) > 0
        BY <1>1, <4>1, <4>2, Sums DEF PlacesOf
      <4>4. at > SENDS /\ at \in Nat
        BY <4>1, <4>3, Circulates
      <4>5. data_callback["mmal"]
        BY <1>1, <4>4, Numbers DEF Placed
      <4> QED BY <1>2, <4>5 DEF StaleLate
    <3> QED BY <3>1, <3>4, <3>5
  <2> QED BY <1>8, <2>1, <2>2, <2>3 DEF VideoCore
<1>9. CASE UNCHANGED vars
  <2>1. to_arm' = to_arm
    BY <1>9 DEF vars
  <2> QED BY <1>4, <2>1
<1> QED BY <1>5, <1>6, <1>7, <1>8, <1>9 DEF Next

(* A subset of the places.                                                 *)
LEMMA FewerPlaces ==
  ASSUME NEW T, NEW q \in Seq(T), NEW S, NEW A, A \subseteq Places(q, S)
  PROVE  Cardinality(A) \in Nat /\ Cardinality(A) <= CountIn(q, S)
<1>1. IsFiniteSet(Places(q, S))
  BY CountFacts
<1>2. IsFiniteSet(A) /\ Cardinality(A) <= Cardinality(Places(q, S))
  BY <1>1, FS_Subset
<1>3. Cardinality(A) \in Nat
  BY <1>2, FS_CardinalityType
<1> QED BY <1>2, <1>3 DEF CountIn

(* The queues' entries are messages.                                       *)
LEMMA Entries ==
  ASSUME Typed
  PROVE  /\ Len(to_vc) \in Nat /\ \A i \in 1..Len(to_vc) : to_vc[i] \in ToVc
         /\ Len(to_arm) \in Nat /\ \A i \in 1..Len(to_arm) : to_arm[i] \in ToArm
         /\ Len(work) \in Nat /\ \A i \in 1..Len(work) : work[i] \in Works
<1>1. to_vc \in Seq(ToVc) /\ to_arm \in Seq(ToArm) /\ work \in Seq(Works)
  BY DEF Typed
<1> HIDE DEF ToVc, ToArm, Works
<1> QED BY <1>1

(* A caller whose message is under way is waiting in that call.            *)
LEMMA ContextsKept == ASSUME IInv PROVE ContextsAlive
<1> DEFINE V(t) == {i \in 1..Len(to_vc) : "ctx" \in DOMAIN to_vc[i] /\ to_vc[i].ctx = t}
           A(t) == {i \in 1..Len(to_arm) : "ctx" \in DOMAIN to_arm[i] /\ to_arm[i].ctx = t}
           U(t) == Cardinality(V(t)) + Cardinality(A(t))
<1>1. Typed /\ Placed /\ MainAwaited /\ AnswersFit /\ IoAwaited
  BY DEF IInv
<1>2. to_vc \in Seq(ToVc) /\ to_arm \in Seq(ToArm)
  BY <1>1 DEF Typed
<1>3. \A i \in 1..Len(to_vc) : /\ to_vc[i] \in ToVc
                               /\ "ctx" \in DOMAIN to_vc[i] =>
                                    to_vc[i].type \in Synchronous \/ to_vc[i].ctx \in Frames
  BY <1>1, Entries, VcFacts
<1>4. \A i \in 1..Len(to_arm) : /\ to_arm[i] \in ToArm
                                /\ "ctx" \in DOMAIN to_arm[i] => to_arm[i].type = "REPLY"
  BY <1>1, Entries, ArmFacts
<1>5. V("main") \subseteq Places(to_vc, MainVc) /\ V("io") \subseteq Places(to_vc, IoVc)
  BY <1>3 DEF Places, MainVc, IoVc, Frames
<1>6. A("main") \subseteq Places(to_arm, MainArm) /\ A("io") \subseteq Places(to_arm, IoArm)
  BY <1>4 DEF Places, MainArm, IoArm
<1>7. (V("main") = {} /\ A("main") = {}) \/ Here.type \in Synchronous
  <2>1. ASSUME NEW i \in V("main") PROVE Here.type \in Synchronous
    <3>1. to_vc[i] \in Members(to_vc) /\ to_vc[i].type \in Synchronous /\ to_vc[i].ctx = "main"
      BY <1>3 DEF Members, Frames
    <3> QED BY <1>1, <3>1 DEF AnswersFit, VcKind, VcFit
  <2>2. ASSUME NEW i \in A("main") PROVE Here.type \in Synchronous
    <3>1. to_arm[i] \in Members(to_arm) /\ to_arm[i].type = "REPLY" /\ to_arm[i].ctx = "main"
      BY <1>4 DEF Members
    <3> QED BY <1>1, <3>1 DEF AnswersFit, ArmKind, ArmFit
  <2> QED BY <2>1, <2>2
<1>8. ContextsAlive <=>
        /\ U("main") > 0 => main = "wait" /\ U("main") = 1 /\ answer["main"] = "none"
        /\ U("io") > 0 => io = "wait" /\ U("io") = 1 /\ answer["io"] = "none"
  BY DEF ContextsAlive, Count
<1> HIDE DEF V, A
<1>9. /\ Cardinality(V("main")) \in Nat /\ Cardinality(V("main")) <= CountIn(to_vc, MainVc)
      /\ Cardinality(V("io")) \in Nat /\ Cardinality(V("io")) <= CountIn(to_vc, IoVc)
      /\ Cardinality(A("main")) \in Nat /\ Cardinality(A("main")) <= CountIn(to_arm, MainArm)
      /\ Cardinality(A("io")) \in Nat /\ Cardinality(A("io")) <= CountIn(to_arm, IoArm)
  BY <1>2, <1>5, <1>6, FewerPlaces
<1>10. /\ CountIn(to_vc, MainVc) \in Nat /\ CountIn(to_vc, IoVc) \in Nat
       /\ CountIn(to_arm, MainArm) \in Nat /\ CountIn(to_arm, IoArm) \in Nat
  BY <1>1, Counting
<1>11. U("io") > 0 => io = "wait" /\ U("io") = 1 /\ answer["io"] = "none"
  BY <1>1, <1>9, <1>10 DEF IoAwaited
<1>12. U("main") > 0 => Waits /\ U("main") = 1 /\ answer["main"] = "none"
  BY <1>1, <1>9, <1>10 DEF MainAwaited
<1>13. U("main") > 0 /\ Waits => main = "wait"
  <2> SUFFICES ASSUME U("main") > 0, main = "call", at = 1 PROVE FALSE
    BY DEF Waits
  <2>1. V("main") # {} \/ A("main") # {}
    <3> SUFFICES ASSUME V("main") = {}, A("main") = {} PROVE FALSE
      OBVIOUS
    <3>1. Cardinality(V("main")) = 0 /\ Cardinality(A("main")) = 0
      BY FS_EmptySet
    <3> QED BY <3>1
  <2>2. at > 4
    BY <1>1, <1>7, <2>1, SynchronousPlace
  <2> QED BY <2>2
<1> HIDE DEF U
<1> QED BY <1>8, <1>11, <1>12, <1>13

(* Data finds the callback of its service.                                 *)
LEMMA CallbacksKept == ASSUME IInv, StaleLate PROVE DataFindsCallback
<1>1. Typed /\ Placed /\ MainAwaited /\ AnswersFit /\ IoAwaited /\ WakeUps /\ BuffersKept
  BY DEF IInv
<1> SUFFICES ASSUME NEW m \in Members(to_arm)
             PROVE  /\ m.type \in {"REPLY", "BUFFER_TO_HOST"} => data_callback["mmal"]
                    /\ m.type = "IMPORTED" => data_callback["SMEM"]
  BY DEF DataFindsCallback
<1>2. m \in ToArm
  BY <1>1, MembersType DEF Typed
<1>3. ArmKind(m)
  BY <1>1 DEF AnswersFit
<1>4. at \in Nat /\ (at > 4 => data_callback["mmal"] /\ data_callback["SMEM"])
  BY <1>1 DEF Placed
<1>5. \A S : m \in S => CountIn(to_arm, S) \in Nat /\ CountIn(to_arm, S) > 0
  BY <1>1, Counting
<1>6. m \in MainArm => main \in {"call", "wait"}
  <2>1. CountIn(to_vc, MainVc) \in Nat
    BY <1>1, Counting
  <2> QED BY <1>1, <1>5, <2>1 DEF MainAwaited, Waits
<1>7. CASE m.type = "REPLY" /\ m.ctx = "main"
  <2>1. m \in MainArm /\ Here.type \in Synchronous
    BY <1>2, <1>3, <1>7 DEF MainArm, ArmKind, ArmFit
  <2>2. at > 4
    BY <1>1, <1>6, <2>1, SynchronousPlace
  <2> QED BY <1>4, <2>2
<1>8. CASE m.type = "REPLY" /\ m.ctx = "io"
  <2>1. m \in IoArm
    BY <1>2, <1>8 DEF IoArm
  <2>2. CountIn(to_vc, IoVc) \in Nat /\ CountIn(to_arm, IoArm) \in Nat /\ CountIn(to_arm, IoArm) > 0
    BY <1>1, <1>5, <2>1, Counting
  <2>3. io = "wait"
    BY <1>1, <2>2 DEF IoAwaited
  <2>4. at > SENDS
    BY <1>1, <2>3 DEF WakeUps
  <2> QED BY <1>4, <2>4, Numbers
<1>9. CASE m.type = "BUFFER_TO_HOST"
  <2>1. m.on \in Buffers /\ m \in BufArm(m.on)
    BY <1>2, <1>9, ArmFacts DEF BufArm
  <2>2. PlacesOf(m.on) > 0
    BY <1>1, <1>5, <2>1, Sums DEF PlacesOf
  <2>3. at > SENDS
    BY <2>1, <2>2, Circulates
  <2> QED BY <1>4, <2>3, Numbers
<1>10. CASE m.type = "IMPORTED"
  <2>1. m \in MainArm /\ Here.type = "IMPORT"
    BY <1>2, <1>3, <1>10 DEF MainArm, ArmKind, ArmFit
  <2>2. at > LAST_SETUP
    BY <1>1, <1>6, <2>1, ImportPlace
  <2> QED BY <1>4, <1>10, <2>2, Numbers
<1>11. CASE m.type = "REPLY" /\ m.ctx \in Frames
  BY <1>11 DEF StaleLate
<1> QED BY <1>2, <1>7, <1>8, <1>9, <1>10, <1>11, ArmFacts DEF Callers

(* The types the runs check.                                               *)
LEMMA TypesKept == ASSUME IInv, EventsTyped PROVE TypeOK /\ NoBug
<1>1. Typed /\ Placed /\ BuffersKept
  BY DEF IInv
<1>2. at \in 1..(Len(Script) + 1)
  BY <1>1, Numbers DEF Placed
<1>3. Members(port.buffers) \cup vc.buffers \subseteq Buffers
  <2>1. port.buffers \in Seq(Buffers) /\ vc.buffers \subseteq Buffers
    BY <1>1 DEF Typed
  <2>2. Members(port.buffers) \subseteq Buffers
    BY <2>1, MembersType
  <2> QED BY <2>1, <2>2
<1>4. work \in Seq([buffer : Buffers, eos : BOOLEAN]) /\ Len(work) <= NUM_BUFFERS
  BY <1>1, WorkFits DEF Typed, Works
<1>5. /\ main \in {"call", "wait", "receive", "stopped", "fault", "bug"} /\ main # "bug"
      /\ io \in {"sleep", "work", "wait", "bug"} /\ io # "bug"
      /\ loop \in {"test", "arm", "asleep", "woken", "parse", "bug", "stray"}
      /\ {fired, signal} \subseteq BOOLEAN
      /\ answer \in [{"main", "io"} -> {"none", "ok", "enabled", "error"}]
  BY <1>1 DEF Typed, Callers, Loops, EventsTyped
<1> QED BY <1>2, <1>3, <1>4, <1>5 DEF TypeOK, NoBug

(* Each buffer is in one place.                                            *)
LEMMA OnePlace == ASSUME IInv PROVE BufferInOnePlace
<1>1. Typed /\ BuffersKept
  BY DEF IInv
<1>2. to_vc \in Seq(ToVc) /\ to_arm \in Seq(ToArm) /\ work \in Seq(Works)
  BY <1>1 DEF Typed
<1> DEFINE IsBuf(m, b) == m.type \in {"BUFFER_FROM_HOST", "BUFFER_TO_HOST"} /\ m.on = b
           V(b) == {i \in 1..Len(to_vc) : IsBuf(to_vc[i], b)}
           A(b) == {i \in 1..Len(to_arm) : IsBuf(to_arm[i], b)}
           W(b) == {i \in 1..Len(work) : work[i].buffer = b}
<1>3. ASSUME NEW b \in Buffers
      PROVE  Cardinality(V(b)) + Cardinality(A(b)) + Cardinality(W(b))
               + (IF b \in vc.buffers THEN 1 ELSE 0) <= 1
  <2>1. V(b) \subseteq Places(to_vc, BufVc(b))
    <3>1. \A i \in 1..Len(to_vc) : to_vc[i] \in ToVc /\ to_vc[i].type # "BUFFER_TO_HOST"
      BY <1>1, Entries, VcFacts DEF Synchronous
    <3> QED BY <3>1 DEF Places, BufVc
  <2>2. A(b) \subseteq Places(to_arm, BufArm(b))
    <3>1. \A i \in 1..Len(to_arm) : to_arm[i] \in ToArm /\ to_arm[i].type # "BUFFER_FROM_HOST"
      BY <1>1, Entries, ArmFacts
    <3> QED BY <3>1 DEF Places, BufArm
  <2>3. W(b) \subseteq Places(work, BufWork(b))
    <3>1. \A i \in 1..Len(work) : work[i] \in Works
      BY <1>1, Entries
    <3> QED BY <3>1 DEF Places, BufWork
  <2> HIDE DEF V, A, W
  <2>4. /\ Cardinality(V(b)) \in Nat /\ Cardinality(V(b)) <= CountIn(to_vc, BufVc(b))
        /\ Cardinality(A(b)) \in Nat /\ Cardinality(A(b)) <= CountIn(to_arm, BufArm(b))
        /\ Cardinality(W(b)) \in Nat /\ Cardinality(W(b)) <= CountIn(work, BufWork(b))
    BY <1>2, <2>1, <2>2, <2>3, FewerPlaces
  <2>5. PlacesOf(b) <= 1
    BY <1>1, Sums DEF BuffersKept
  <2>6. /\ CountIn(to_vc, BufVc(b)) \in Nat /\ CountIn(to_arm, BufArm(b)) \in Nat
        /\ CountIn(work, BufWork(b)) \in Nat
    BY <1>1, Sums
  <2> QED BY <2>4, <2>5, <2>6 DEF PlacesOf
<1> QED BY <1>3 DEF BufferInOnePlace, Count

(* One capture at a time.                                                  *)
LEMMA OneCaptureKept == ASSUME IInv PROVE OneCapture
<1>1. Typed /\ CapturesKept
  BY DEF IInv
<1>2. to_vc \in Seq(ToVc) /\ to_arm \in Seq(ToArm) /\ work \in Seq(Works)
  BY <1>1 DEF Typed
<1> DEFINE V == {i \in 1..Len(to_vc) : to_vc[i].type = "CAPTURE"}
           A == {i \in 1..Len(to_arm) : to_arm[i].type = "BUFFER_TO_HOST" /\ to_arm[i].eos}
           W == {i \in 1..Len(work) : work[i].eos}
           d == IF vc.capturing THEN 1 ELSE 0
<1>3. V \subseteq Places(to_vc, CapVc) /\ A \subseteq Places(to_arm, EosArm) /\ W \subseteq Places(work, EosWork)
  BY <1>1, Entries DEF Places, CapVc, EosArm, EosWork
<1>4. OneCapture <=> Cardinality(V) + d + Cardinality(A) + Cardinality(W) <= 1
  BY DEF OneCapture, Count
<1>5. Captures = CountIn(to_vc, CapVc) + d + CountIn(to_arm, EosArm) + CountIn(work, EosWork)
  BY DEF Captures
<1>6. d \in Nat
  OBVIOUS
<1> HIDE DEF V, A, W, d
<1>7. /\ Cardinality(V) \in Nat /\ Cardinality(V) <= CountIn(to_vc, CapVc)
      /\ Cardinality(A) \in Nat /\ Cardinality(A) <= CountIn(to_arm, EosArm)
      /\ Cardinality(W) \in Nat /\ Cardinality(W) <= CountIn(work, EosWork)
  BY <1>2, <1>3, FewerPlaces
<1>8. Captures <= 1 /\ Captures \in Nat
  BY <1>1, Sums DEF CapturesKept
<1>9. /\ CountIn(to_vc, CapVc) \in Nat /\ CountIn(to_arm, EosArm) \in Nat
      /\ CountIn(work, EosWork) \in Nat
  BY <1>1, Sums
<1>10. Cardinality(V) + d + Cardinality(A) + Cardinality(W) <= 1
  BY <1>5, <1>6, <1>7, <1>8, <1>9
<1> QED BY <1>4, <1>10

(* The wake-ups of the io thread.                                          *)
LEMMA WakeUpsKept == ASSUME IInv PROVE NotAllBuffersStuck /\ WakeFindsWork
<1>1. Typed /\ WakeUps
  BY DEF IInv
<1>2. Len(work) \in Nat /\ (Len(work) >= 1 => work # << >>)
  BY <1>1 DEF Typed
<1> QED BY <1>1, <1>2 DEF WakeUps, NotAllBuffersStuck, WakeFindsWork

(* The invariant holds in every behaviour.                                 *)
LEMMA AlwaysInv == Spec => [](IInv /\ EventsTyped /\ StaleLate)
<1>1. Init => IInv /\ EventsTyped /\ StaleLate
  BY InitInv, EventsStart
<1>2. IInv /\ EventsTyped /\ StaleLate /\ [Next]_vars => IInv' /\ EventsTyped' /\ StaleLate'
  BY StepInv, EventsStep, StaleStep
<1> QED BY <1>1, <1>2, PTL DEF Spec

(* Every message of the camera client finds the call, the context and the  *)
(* callback it is meant for, and none of the BUGs of the task and of the   *)
(* io thread is met, for every number of buffers and of import contexts    *)
(* and whatever the VideoCore refuses.                                     *)
THEOREM CallsAlwaysSound == Spec => []CallsSound
<1>1. IInv /\ EventsTyped /\ StaleLate => CallsSound
  BY TypesKept, ContextsKept, CallbacksKept DEF CallsSound
<1> QED BY <1>1, AlwaysInv, PTL

(* Each buffer is in one place, at most one capture is going on, and the   *)
(* io thread neither wakes for nothing nor sleeps on all the buffers, for  *)
(* every number of buffers.                                                *)
THEOREM BuffersAlwaysSound == Spec => []BuffersSound
<1>1. IInv => BuffersSound
  BY OnePlace, OneCaptureKept, WakeUpsKept DEF BuffersSound
<1> QED BY <1>1, AlwaysInv, PTL
=============================================================================
