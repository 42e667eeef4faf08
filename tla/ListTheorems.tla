---------------------------- MODULE ListTheorems ----------------------------
(***************************************************************************)
(* Facts about the list operators of module Lists, for lists of any        *)
(* length.  They rest on the least number principle, which the proof       *)
(* library gives as the well-foundedness of < on Nat.  At the end, what    *)
(* several proofs need of division with remainder.                         *)
(***************************************************************************)
EXTENDS Lists, SequenceTheorems, WellFoundedInduction, TLAPS

Less == {p \in Nat \X Nat : p[1] < p[2]}

(* < is well founded on the naturals.                                      *)
LEMMA LessWellFounded == IsWellFoundedOn(Less, Nat)
<1>1. OpToRel(<, Nat) = Less
  BY Zenon DEF OpToRel, Less
<1> QED
  BY Zenon, <1>1, NatLessThanWellFounded

(* A non-empty set of naturals has a least element.                        *)
LEMMA LeastNat ==
  ASSUME NEW T \in SUBSET Nat, T # {}
  PROVE  \E x \in T : \A y \in T : x <= y
<1>1. PICK x \in T : \A y \in T : ~ (<<y, x>> \in Less)
  BY LessWellFounded, WFMin
<1>2. \A y \in T : <<y, x>> \in Less <=> y < x
  <2> TAKE y \in T
  <2>1. <<y, x>> \in Nat \X Nat
    OBVIOUS
  <2>2. <<y, x>>[1] = y /\ <<y, x>>[2] = x
    OBVIOUS
  <2> QED
    BY <2>1, <2>2 DEF Less
<1>3. \A y \in T : x <= y
  <2> TAKE y \in T
  <2>1. ~ (y < x)
    BY <1>1, <1>2
  <2>2. x \in Nat /\ y \in Nat
    OBVIOUS
  <2> QED
    BY <2>1, <2>2
<1> QED
  BY <1>3

(* Induction up to N for a set: the form the other lemmas use.             *)
LEMMA SetInduction ==
  ASSUME NEW N \in Nat, NEW P, 0 \in P,
         \A n \in 1..N : n - 1 \in P => n \in P
  PROVE  0..N \subseteq P
<1> SUFFICES ASSUME ~ (0..N \subseteq P) PROVE FALSE
  OBVIOUS
<1> DEFINE T == {n \in 0..N : n \notin P}
<1>1. T \in SUBSET Nat /\ T # {}
  OBVIOUS
<1>2. PICK m \in T : \A y \in T : m <= y
  BY <1>1, LeastNat
<1>3. m \in 0..N /\ m \notin P
  OBVIOUS
<1>4. m # 0
  BY <1>3
<1>5. m \in 1..N /\ m - 1 \in 0..N
  BY <1>3, <1>4
<1>6. m - 1 \notin T
  BY <1>2, <1>5
<1>7. m - 1 \in P
  BY <1>5, <1>6
<1> QED
  BY <1>3, <1>5, <1>7

----------------------------------------------------------------------------
(* The recursion of Kept has a solution: the function that Kept chooses    *)
(* unfolds as its definition says.                                         *)
KeptStep(s, S, g, n) ==
  IF n = 0 THEN << >>
  ELSE IF s[n] \in S THEN Append(g[n - 1], s[n])
  ELSE g[n - 1]

(* A function that satisfies the recursion exists.                         *)
LEMMA KeptExists ==
  ASSUME NEW T, NEW s \in Seq(T), NEW S
  PROVE  \E g \in [0..Len(s) -> Seq(T)] :
            \A n \in 0..Len(s) : g[n] = KeptStep(s, S, g, n)
<1> DEFINE Good(n, g) == \A i \in 0..n : g[i] = KeptStep(s, S, g, i)
<1> DEFINE P == {n \in 0..Len(s) : \E g \in [0..n -> Seq(T)] : Good(n, g)}
<1>0. Len(s) \in Nat
  BY LenProperties
<1>1. 0 \in P
  <2> DEFINE g == [i \in 0..0 |-> << >>]
  <2>1. g \in [0..0 -> Seq(T)]
    OBVIOUS
  <2>2. Good(0, g)
    BY DEF KeptStep
  <2>3. 0 \in 0..Len(s)
    BY <1>0
  <2> HIDE DEF g
  <2> QED
    BY <2>1, <2>2, <2>3
<1>2. \A n \in 1..Len(s) : n - 1 \in P => n \in P
  <2> SUFFICES ASSUME NEW n \in 1..Len(s), n - 1 \in P PROVE n \in P
    OBVIOUS
  <2>1. PICK g \in [0..(n-1) -> Seq(T)] : Good(n - 1, g)
    OBVIOUS
  <2> DEFINE h == [i \in 0..n |->
                     IF i < n THEN g[i]
                     ELSE IF s[n] \in S THEN Append(g[n - 1], s[n])
                     ELSE g[n - 1]]
  <2>2. s[n] \in T /\ n \in Nat /\ n # 0
    BY <1>0, ElementOfSeq
  <2>3. g[n - 1] \in Seq(T) /\ Append(g[n - 1], s[n]) \in Seq(T)
    BY <2>2, <1>0, AppendProperties
  <2>4. h \in [0..n -> Seq(T)]
    BY <2>2, <2>3
  <2>5. \A i \in 0..(n-1) : h[i] = g[i]
    BY <2>2
  <2>6. h[n] = KeptStep(s, S, h, n)
    BY <2>2, <2>5 DEF KeptStep
  <2>7. ASSUME NEW i \in 0..(n-1) PROVE h[i] = KeptStep(s, S, h, i)
    <3> HIDE DEF h
    <3>1. g[i] = KeptStep(s, S, g, i)
      BY <2>1
    <3>2. i = 0 \/ i - 1 \in 0..(n-1)
      BY <2>2
    <3> QED
      BY <2>5, <3>1, <3>2 DEF KeptStep
  <2>8. Good(n, h)
    <3> HIDE DEF h
    <3> QED
      BY <2>2, <2>6, <2>7
  <2>9. n \in 0..Len(s)
    BY <1>0
  <2> HIDE DEF h, Good
  <2> QED
    BY <2>4, <2>8, <2>9
<1>3. Len(s) \in P
  <2> HIDE DEF P
  <2>1. 0..Len(s) \subseteq P
    BY <1>0, <1>1, <1>2, SetInduction
  <2> QED
    BY <2>1, <1>0
<1>4. PICK g \in [0..Len(s) -> Seq(T)] : Good(Len(s), g)
  BY <1>3
<1> QED
  BY <1>4

(* Kept satisfies its recursion.                                           *)
LEMMA KeptUnfold ==
  ASSUME NEW T, NEW s \in Seq(T), NEW S
  PROVE  Kept(s, S) = [n \in 0..Len(s) |-> KeptStep(s, S, Kept(s, S), n)]
<1> DEFINE K(g) == g = [n \in 0..Len(s) |-> KeptStep(s, S, g, n)]
<1>1. \E g : K(g)
  <2>1. PICK g \in [0..Len(s) -> Seq(T)] :
           \A n \in 0..Len(s) : g[n] = KeptStep(s, S, g, n)
    BY KeptExists
  <2>2. K(g)
    BY <2>1
  <2> QED
    BY <2>2
<1>2. Kept(s, S) = CHOOSE g : K(g)
  BY DEF Kept, KeptStep
<1> HIDE DEF K
<1>3. K(Kept(s, S))
  BY <1>1, <1>2
<1> QED
  BY <1>3 DEF K

(* What appending one node to a list does to its members and to the        *)
(* absence of duplicates.                                                  *)
LEMMA AppendMembers ==
  ASSUME NEW T, NEW s \in Seq(T), NEW e \in T
  PROVE  /\ Append(s, e) \in Seq(T)
         /\ Members(Append(s, e)) = Members(s) \cup {e}
         /\ IsLinkedOnce(s) /\ e \notin Members(s)
               => IsLinkedOnce(Append(s, e))
<1>1. /\ Append(s, e) \in Seq(T)
      /\ Len(Append(s, e)) = Len(s) + 1
      /\ \A i \in 1..Len(s) : Append(s, e)[i] = s[i]
      /\ Append(s, e)[Len(s) + 1] = e
  BY AppendProperties
<1>2. Len(s) \in Nat
  BY LenProperties
<1>3. \A i \in 1..(Len(s) + 1) : i \in 1..Len(s) \/ i = Len(s) + 1
  BY <1>2
<1>4. Members(Append(s, e)) = Members(s) \cup {e}
  <2>1. \A x \in Members(Append(s, e)) : x \in Members(s) \cup {e}
    BY <1>1, <1>3 DEF Members
  <2>2. \A i \in 1..Len(s) : i \in 1..(Len(s) + 1)
    BY <1>2
  <2>3. \A x \in Members(s) : x \in Members(Append(s, e))
    BY <1>1, <2>2 DEF Members
  <2>4. Len(s) + 1 \in 1..(Len(s) + 1)
    BY <1>2
  <2>5. e \in Members(Append(s, e))
    BY <1>1, <2>4 DEF Members
  <2> QED
    BY <2>1, <2>3, <2>5
<1>5. ASSUME IsLinkedOnce(s), e \notin Members(s)
      PROVE  IsLinkedOnce(Append(s, e))
  <2> SUFFICES ASSUME NEW i \in 1..(Len(s) + 1), NEW j \in 1..(Len(s) + 1),
                      Append(s, e)[i] = Append(s, e)[j]
               PROVE  i = j
    BY <1>1 DEF IsLinkedOnce
  <2>1. CASE i \in 1..Len(s) /\ j \in 1..Len(s)
    BY <1>1, <1>5, <2>1 DEF IsLinkedOnce
  <2>2. CASE i = Len(s) + 1 /\ j \in 1..Len(s)
    BY <1>1, <1>5, <2>2 DEF Members
  <2>3. CASE j = Len(s) + 1 /\ i \in 1..Len(s)
    BY <1>1, <1>5, <2>3 DEF Members
  <2>4. CASE i = Len(s) + 1 /\ j = Len(s) + 1
    BY <2>4
  <2> QED
    BY <1>3, <2>1, <2>2, <2>3, <2>4
<1> QED
  BY <1>1, <1>4, <1>5

(* Keep returns a list, with exactly the members of s that are in S, each  *)
(* linked as often as before.                                              *)
LEMMA KeepProperties ==
  ASSUME NEW T, NEW s \in Seq(T), NEW S
  PROVE  /\ Keep(s, S) \in Seq(T)
         /\ Members(Keep(s, S)) = Members(s) \cap S
         /\ IsLinkedOnce(s) => IsLinkedOnce(Keep(s, S))
<1> DEFINE K == Kept(s, S)
           Front(n) == {s[i] : i \in 1..n}
           Good(n) == /\ K[n] \in Seq(T)
                      /\ Members(K[n]) = Front(n) \cap S
                      /\ IsLinkedOnce(s) => IsLinkedOnce(K[n])
           P == {n \in 0..Len(s) : Good(n)}
<1>0. Len(s) \in Nat
  BY LenProperties
<1>u. \A n \in 0..Len(s) : K[n] = KeptStep(s, S, K, n)
  BY KeptUnfold
<1> HIDE DEF K
<1>1. 0 \in P
  <2>1. K[0] = << >>
    BY <1>u, <1>0 DEF KeptStep
  <2>2. << >> \in Seq(T) /\ Len(<< >>) = 0
    BY EmptySeq
  <2>3. Members(<< >>) = {} /\ Front(0) = {}
    BY <2>2 DEF Members
  <2>4. IsLinkedOnce(<< >>)
    BY <2>2 DEF IsLinkedOnce
  <2>5. Good(0)
    <3> HIDE DEF Front
    <3> QED
      BY <2>1, <2>2, <2>3, <2>4
  <2>6. 0 \in 0..Len(s)
    BY <1>0
  <2> HIDE DEF Good
  <2> QED
    BY <2>5, <2>6
<1>2. \A n \in 1..Len(s) : n - 1 \in P => n \in P
  <2> SUFFICES ASSUME NEW n \in 1..Len(s), n - 1 \in P PROVE n \in P
    OBVIOUS
  <2>1. /\ n \in Nat /\ n # 0 /\ n \in 0..Len(s)
        /\ s[n] \in T
    BY <1>0, ElementOfSeq
  <2>2. Good(n - 1)
    OBVIOUS
  <2>3. Front(n) = Front(n - 1) \cup {s[n]}
    <3>1. \A i \in 1..n : i \in 1..(n - 1) \/ i = n
      BY <2>1
    <3>2. n \in 1..n /\ \A i \in 1..(n - 1) : i \in 1..n
      BY <2>1
    <3> QED
      BY <3>1, <3>2
  <2>4. IsLinkedOnce(s) => s[n] \notin Front(n - 1)
    <3>1. \A i \in 1..(n - 1) : i \in 1..Len(s) /\ i # n
      BY <1>0, <2>1
    <3> QED
      BY <3>1 DEF IsLinkedOnce
  <2>5. CASE s[n] \in S
    <3>1. K[n] = Append(K[n - 1], s[n])
      BY <1>u, <2>1, <2>5 DEF KeptStep
    <3>2. /\ K[n] \in Seq(T)
          /\ Members(K[n]) = Members(K[n - 1]) \cup {s[n]}
          /\ IsLinkedOnce(K[n - 1]) /\ s[n] \notin Members(K[n - 1])
                => IsLinkedOnce(K[n])
      BY <2>1, <2>2, <3>1, AppendMembers
    <3> HIDE DEF Front
    <3> QED
      BY <2>1, <2>2, <2>3, <2>4, <2>5, <3>2
  <2>6. CASE s[n] \notin S
    <3>1. K[n] = K[n - 1]
      BY <1>u, <2>1, <2>6 DEF KeptStep
    <3> HIDE DEF Front
    <3> QED
      BY <2>1, <2>2, <2>3, <2>6, <3>1
  <2> QED
    BY <2>5, <2>6
<1>3. Good(Len(s))
  <2> HIDE DEF P
  <2>1. 0..Len(s) \subseteq P
    BY <1>0, <1>1, <1>2, SetInduction
  <2>2. Len(s) \in P
    BY <2>1, <1>0
  <2> QED
    BY <2>2 DEF P
<1> QED
  BY <1>3 DEF Keep, K, Members

(* Unlinking nodes moves the others towards the head of the list.          *)
LEMMA KeepPlaces ==
  ASSUME NEW T, NEW s \in Seq(T), NEW S, NEW i \in 1..Len(s), s[i] \in S
  PROVE  \E j \in 1..Len(Keep(s, S)) : j <= i /\ Keep(s, S)[j] = s[i]
<1> DEFINE K == Kept(s, S)
           Good(n) == /\ K[n] \in Seq(T) /\ Len(K[n]) <= n
                      /\ i <= n => \E j \in 1..Len(K[n]) : j <= i /\ K[n][j] = s[i]
           P == {n \in 0..Len(s) : Good(n)}
<1>0. Len(s) \in Nat
  BY LenProperties
<1>u. \A n \in 0..Len(s) : K[n] = KeptStep(s, S, K, n)
  BY KeptUnfold
<1> HIDE DEF K
<1>1. 0 \in P
  <2>1. K[0] = << >>
    BY <1>u, <1>0 DEF KeptStep
  <2>2. << >> \in Seq(T) /\ Len(<< >>) = 0
    BY EmptySeq
  <2>3. Good(0) /\ 0 \in 0..Len(s)
    BY <1>0, <2>1, <2>2
  <2> HIDE DEF Good
  <2> QED
    BY <2>3
<1>2. \A n \in 1..Len(s) : n - 1 \in P => n \in P
  <2> SUFFICES ASSUME NEW n \in 1..Len(s), n - 1 \in P PROVE n \in P
    OBVIOUS
  <2>1. /\ n \in Nat /\ n # 0 /\ n \in 0..Len(s) /\ s[n] \in T
    BY <1>0, ElementOfSeq
  <2> DEFINE k == K[n - 1]
  <2>2. /\ k \in Seq(T) /\ Len(k) \in Nat /\ Len(k) <= n - 1
        /\ i <= n - 1 => \E j \in 1..Len(k) : j <= i /\ k[j] = s[i]
    BY LenProperties
  <2> HIDE DEF k
  <2>3. CASE s[n] \in S
    <3>1. K[n] = Append(k, s[n])
      BY <1>u, <2>1, <2>3 DEF KeptStep, k
    <3>2. /\ K[n] \in Seq(T) /\ Len(K[n]) = Len(k) + 1 /\ K[n][Len(k) + 1] = s[n]
          /\ \A j \in 1..Len(k) : K[n][j] = k[j]
      BY <2>1, <2>2, <3>1, AppendProperties
    <3>3. ASSUME i <= n - 1 PROVE \E j \in 1..Len(K[n]) : j <= i /\ K[n][j] = s[i]
      <4>1. PICK j \in 1..Len(k) : j <= i /\ k[j] = s[i]
        BY <2>2, <3>3
      <4>2. j \in 1..Len(K[n]) /\ K[n][j] = s[i]
        BY <2>2, <3>2, <4>1
      <4> QED
        BY <4>1, <4>2
    <3>4. ASSUME i = n PROVE \E j \in 1..Len(K[n]) : j <= i /\ K[n][j] = s[i]
      <4>1. Len(k) + 1 \in 1..Len(K[n]) /\ Len(k) + 1 <= i
        BY <2>1, <2>2, <3>2, <3>4
      <4> QED
        BY <3>2, <3>4, <4>1
    <3>5. Good(n)
      <4>1. Len(K[n]) <= n /\ (i <= n => i <= n - 1 \/ i = n)
        BY <2>1, <2>2, <3>2
      <4> QED
        BY <3>2, <3>3, <3>4, <4>1
    <3> HIDE DEF Good
    <3> QED
      BY <2>1, <3>5
  <2>4. CASE s[n] \notin S
    <3>1. K[n] = k
      BY <1>u, <2>1, <2>4 DEF KeptStep, k
    <3>2. i # n
      BY <2>4
    <3>3. Len(k) <= n /\ (i <= n => i <= n - 1)
      BY <2>1, <2>2, <3>2
    <3>4. Good(n)
      BY <2>2, <3>1, <3>3
    <3> HIDE DEF Good
    <3> QED
      BY <2>1, <3>4
  <2> QED
    BY <2>3, <2>4
<1>3. Good(Len(s))
  <2> HIDE DEF P
  <2>1. 0..Len(s) \subseteq P
    BY <1>0, <1>1, <1>2, SetInduction
  <2>2. Len(s) \in P
    BY <2>1, <1>0
  <2> QED
    BY <2>2 DEF P
<1>4. i <= Len(s)
  BY <1>0
<1> QED
  BY <1>3, <1>4 DEF Keep, K

(* Unlinking one node removes that node and no other.                      *)
LEMMA UnlinkProperties ==
  ASSUME NEW T, NEW s \in Seq(T), NEW e
  PROVE  /\ Unlink(s, e) \in Seq(T)
         /\ Members(Unlink(s, e)) = Members(s) \ {e}
         /\ IsLinkedOnce(s) => IsLinkedOnce(Unlink(s, e))
<1>1. /\ Keep(s, Members(s) \ {e}) \in Seq(T)
      /\ Members(Keep(s, Members(s) \ {e})) = Members(s) \cap (Members(s) \ {e})
      /\ IsLinkedOnce(s) => IsLinkedOnce(Keep(s, Members(s) \ {e}))
  BY KeepProperties
<1> QED
  BY <1>1 DEF Unlink

(* Joining two lists with no node in common.                               *)
LEMMA ConcatMembers ==
  ASSUME NEW T, NEW s \in Seq(T), NEW u \in Seq(T)
  PROVE  /\ s \o u \in Seq(T)
         /\ Members(s \o u) = Members(s) \cup Members(u)
         /\ IsLinkedOnce(s) /\ IsLinkedOnce(u) /\ Members(s) \cap Members(u) = {}
               => IsLinkedOnce(s \o u)
<1>1. /\ s \o u \in Seq(T)
      /\ Len(s \o u) = Len(s) + Len(u)
      /\ \A i \in 1..(Len(s) + Len(u)) :
            (s \o u)[i] = IF i <= Len(s) THEN s[i] ELSE u[i - Len(s)]
  BY ConcatProperties
<1>2. Len(s) \in Nat /\ Len(u) \in Nat
  BY LenProperties
<1>3. \A i \in 1..(Len(s) + Len(u)) :
        \/ i \in 1..Len(s) /\ (s \o u)[i] = s[i]
        \/ /\ i - Len(s) \in 1..Len(u) /\ (s \o u)[i] = u[i - Len(s)]
           /\ i \notin 1..Len(s)
  BY <1>1, <1>2
<1>4. Members(s \o u) \subseteq Members(s) \cup Members(u)
  BY <1>1, <1>3 DEF Members
<1>5. Members(s) \subseteq Members(s \o u)
  <2>1. \A i \in 1..Len(s) : i \in 1..(Len(s) + Len(u)) /\ (s \o u)[i] = s[i]
    BY <1>1, <1>2
  <2> QED
    BY <1>1, <2>1 DEF Members
<1>6. Members(u) \subseteq Members(s \o u)
  <2>1. \A i \in 1..Len(u) : /\ i + Len(s) \in 1..(Len(s) + Len(u))
                             /\ ~ (i + Len(s) <= Len(s))
                             /\ (i + Len(s)) - Len(s) = i
    BY <1>2
  <2>2. \A i \in 1..Len(u) : (s \o u)[i + Len(s)] = u[i]
    BY <1>1, <2>1
  <2> QED
    BY <1>1, <2>1, <2>2 DEF Members
<1>7. ASSUME IsLinkedOnce(s), IsLinkedOnce(u), Members(s) \cap Members(u) = {}
      PROVE  IsLinkedOnce(s \o u)
  <2> SUFFICES ASSUME NEW i \in 1..(Len(s) + Len(u)),
                      NEW j \in 1..(Len(s) + Len(u)),
                      (s \o u)[i] = (s \o u)[j]
               PROVE  i = j
    BY <1>1 DEF IsLinkedOnce
  <2>1. \A p \in 1..Len(s), q \in 1..Len(u) : s[p] # u[q]
    BY <1>7 DEF Members
  <2>2. CASE i \in 1..Len(s) /\ j \in 1..Len(s)
    BY <1>3, <1>7, <2>2 DEF IsLinkedOnce
  <2>3. CASE i \notin 1..Len(s) /\ j \notin 1..Len(s)
    <3>1. /\ i - Len(s) \in 1..Len(u) /\ j - Len(s) \in 1..Len(u)
          /\ u[i - Len(s)] = u[j - Len(s)]
      BY <1>3, <2>3
    <3>2. i - Len(s) = j - Len(s)
      BY <1>7, <3>1 DEF IsLinkedOnce
    <3> QED
      BY <1>2, <3>2
  <2>4. CASE i \in 1..Len(s) /\ j \notin 1..Len(s)
    BY <1>3, <2>1, <2>4
  <2>5. CASE i \notin 1..Len(s) /\ j \in 1..Len(s)
    BY <1>3, <2>1, <2>5
  <2> QED
    BY <2>2, <2>3, <2>4, <2>5
<1> QED
  BY <1>1, <1>4, <1>5, <1>6, <1>7

(* Members of a list of T are in T.                                        *)
LEMMA MembersType ==
  ASSUME NEW T, NEW s \in Seq(T)
  PROVE  Members(s) \subseteq T
BY ElementOfSeq DEF Members

(* The head of a list with a member is a member.                           *)
LEMMA HeadMember ==
  ASSUME NEW T, NEW s \in Seq(T), NEW e \in Members(s)
  PROVE  s # << >> /\ Head(s) \in Members(s) /\ Head(s) \in T
<1>1. Len(s) \in Nat /\ Len(s) >= 1
  BY LenProperties DEF Members
<1>2. s # << >>
  BY <1>1
<1>3. Head(s) = s[1] /\ 1 \in 1..Len(s)
  BY <1>1, <1>2
<1>4. s[1] \in T
  BY <1>3, ElementOfSeq
<1> QED
  BY <1>2, <1>3, <1>4 DEF Members

(* A list is its head and what follows, and a list without duplicates has  *)
(* its head only there.                                                    *)
LEMMA TailMembers ==
  ASSUME NEW T, NEW s \in Seq(T), s # << >>
  PROVE  /\ Head(s) \in T /\ Tail(s) \in Seq(T)
         /\ Members(s) = {Head(s)} \cup Members(Tail(s))
         /\ IsLinkedOnce(s) => IsLinkedOnce(Tail(s)) /\ Head(s) \notin Members(Tail(s))
<1>1. /\ Len(s) \in Nat /\ Len(s) >= 1 /\ Head(s) = s[1]
      /\ Tail(s) \in Seq(T) /\ Len(Tail(s)) = Len(s) - 1
      /\ \A i \in 1..(Len(s) - 1) : Tail(s)[i] = s[i + 1]
  OBVIOUS
<1>2. \A i \in 1..Len(s) : s[i] \in T
  BY ElementOfSeq
<1>3. Members(s) = {Head(s)} \cup Members(Tail(s))
  <2>1. ASSUME NEW e \in Members(s) PROVE e \in {Head(s)} \cup Members(Tail(s))
    <3>1. PICK i \in 1..Len(s) : s[i] = e
      BY DEF Members
    <3>2. CASE i = 1
      BY <1>1, <3>1, <3>2
    <3>3. CASE i # 1
      <4>1. i - 1 \in 1..(Len(s) - 1) /\ Tail(s)[i - 1] = e
        BY <1>1, <3>1, <3>3
      <4> QED
        BY <1>1, <4>1 DEF Members
    <3> QED
      BY <3>2, <3>3
  <2>2. ASSUME NEW i \in 1..Len(Tail(s)) PROVE Tail(s)[i] \in Members(s)
    <3>1. i + 1 \in 1..Len(s) /\ Tail(s)[i] = s[i + 1]
      BY <1>1
    <3> QED
      BY <3>1 DEF Members
  <2>3. Head(s) \in Members(s)
    BY <1>1 DEF Members
  <2> QED
    BY <2>1, <2>2, <2>3 DEF Members
<1>4. ASSUME IsLinkedOnce(s)
      PROVE  IsLinkedOnce(Tail(s)) /\ Head(s) \notin Members(Tail(s))
  <2>1. ASSUME NEW i \in 1..Len(Tail(s)), NEW j \in 1..Len(Tail(s)), Tail(s)[i] = Tail(s)[j]
        PROVE  i = j
    <3>1. i + 1 \in 1..Len(s) /\ j + 1 \in 1..Len(s) /\ s[i + 1] = s[j + 1]
      BY <1>1, <2>1
    <3>2. i + 1 = j + 1
      BY <1>4, <3>1 DEF IsLinkedOnce
    <3> QED
      BY <1>1, <3>2
  <2>2. ASSUME NEW i \in 1..Len(Tail(s)), Tail(s)[i] = Head(s) PROVE FALSE
    <3>1. i + 1 \in 1..Len(s) /\ 1 \in 1..Len(s) /\ s[i + 1] = s[1]
      BY <1>1, <2>2
    <3>2. i + 1 = 1
      BY <1>4, <3>1 DEF IsLinkedOnce
    <3> QED
      BY <1>1, <3>2
  <2> QED
    BY <2>1, <2>2 DEF IsLinkedOnce, Members
<1> QED
  BY <1>1, <1>2, <1>3, <1>4
----------------------------------------------------------------------------
(* Division with remainder.                                                *)

(* A product with a greater factor is greater by one factor at least.      *)
LEMMA Multiples ==
  ASSUME NEW n \in Nat \ {0}, NEW a \in Int, NEW b \in Int, a < b
  PROVE  a * n + n <= b * n /\ a * n \in Int /\ b * n \in Int
<1>1. b - a >= 1
  OBVIOUS
<1>2. (b - a - 1) * n >= 0
  BY <1>1
<1> QED BY <1>2

(* A place in a row of n-blocks is named by its block and its offset.      *)
LEMMA SameBlock ==
  ASSUME NEW n \in Nat \ {0}, NEW a \in Int, NEW b \in Int,
         NEW o \in 0..(n - 1), NEW p \in 0..(n - 1), a * n + o = b * n + p
  PROVE  a = b /\ o = p
<1>1. CASE a < b
  BY <1>1, Multiples
<1>2. CASE b < a
  BY <1>2, Multiples
<1>3. CASE a = b
  BY <1>3
<1> QED BY <1>1, <1>2, <1>3

(* Division with remainder.                                                *)
LEMMA Parts ==
  ASSUME NEW n \in Nat \ {0}, NEW i \in Nat
  PROVE  /\ i \div n \in Nat /\ i % n \in 0..(n - 1)
         /\ i = (i \div n) * n + (i % n)
OBVIOUS

(* Block k at offset o has that quotient and that remainder.               *)
LEMMA PartsOf ==
  ASSUME NEW n \in Nat \ {0}, NEW k \in Nat, NEW o \in 0..(n - 1)
  PROVE  /\ k * n + o \in Nat
         /\ (k * n + o) \div n = k /\ (k * n + o) % n = o
<1> DEFINE i == k * n + o
<1>1. i \in Nat
  OBVIOUS
<1>2. /\ i = (i \div n) * n + (i % n)
      /\ i \div n \in Nat /\ i % n \in 0..(n - 1)
  BY <1>1, Parts
<1>3. i = k * n + o
  OBVIOUS
<1> HIDE DEF i
<1>4. i \div n = k /\ i % n = o
  BY <1>2, <1>3, SameBlock
<1> QED BY <1>1, <1>4 DEF i

=============================================================================
