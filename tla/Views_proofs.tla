---------------------------- MODULE Views_proofs ----------------------------
(***************************************************************************)
(* Proofs about the published views, for any number of threads, processes  *)
(* and clients.                                                            *)
(***************************************************************************)
EXTENDS Views, FiniteSetTheorems, WellFoundedInduction, TLAPS

-----------------------------------------------------------------------------
(* Induction over the naturals, from their order.                          *)

\* Every set of naturals has a least member.
LEMMA LeastNatural ==
  ASSUME NEW S \in SUBSET Nat, S # {}
  PROVE  \E n \in S : n \in Nat /\ \A m \in S : n <= m
<1>1. PICK n \in S : \A m \in S : ~(<<m, n>> \in OpToRel(<, Nat))
  BY WFMin, NatLessThanWellFounded
<1>2. n \in Nat /\ \A m \in S : m \in Nat /\ ~(m < n)
  BY <1>1 DEF OpToRel
<1>3. \A m \in S : n <= m
  BY <1>2
<1> QED BY <1>2, <1>3

-----------------------------------------------------------------------------
(* Sequences.                                                              *)

\* A sequence of anything.
IsSeq(q) == q \in Seq(ToSet(q))

\* What a sequence over any set is.
LEMMA SeqIs ==
  ASSUME NEW S, NEW q \in Seq(S)
  PROVE  IsSeq(q) /\ Len(q) \in Nat /\ DOMAIN q = 1..Len(q) /\ ToSet(q) \subseteq S
<1>1. Len(q) \in Nat /\ DOMAIN q = 1..Len(q) /\ \A i \in 1..Len(q) : q[i] \in S
  OBVIOUS
<1>2. q = [i \in 1..Len(q) |-> q[i]]
  BY <1>1
<1>3. \A i \in 1..Len(q) : q[i] \in ToSet(q)
  BY <1>1 DEF ToSet
<1>4. q \in [1..Len(q) -> ToSet(q)]
  BY <1>2, <1>3
<1>5. ToSet(q) \subseteq S
  BY <1>1 DEF ToSet
<1>6. PICK T : T = ToSet(q)
  OBVIOUS
<1>7. q \in Seq(T)
  BY <1>1, <1>4, <1>6
<1>8. IsSeq(q)
  BY <1>6, <1>7 DEF IsSeq
<1> QED BY <1>1, <1>5, <1>8

\* A sequence has a length, and its domain are its positions.
LEMMA SeqHas ==
  ASSUME NEW q, IsSeq(q)
  PROVE  Len(q) \in Nat /\ DOMAIN q = 1..Len(q)
  BY DEF IsSeq

\* One sequence after another.
LEMMA Concatenated ==
  ASSUME NEW q, NEW m, IsSeq(q), IsSeq(m)
  PROVE  /\ IsSeq(q \o m) /\ Len(q \o m) = Len(q) + Len(m)
         /\ \A i \in 1..Len(q) : (q \o m)[i] = q[i]
         /\ \A i \in 1..Len(m) : (q \o m)[Len(q) + i] = m[i]
<1> DEFINE S == ToSet(q) \cup ToSet(m)
<1>1. q \in Seq(S) /\ m \in Seq(S)
  BY DEF IsSeq
<1> HIDE DEF S
<1>2. q \o m \in Seq(S)
  BY <1>1
<1>3. IsSeq(q \o m)
  BY <1>2, SeqIs
<1> QED BY <1>1, <1>3

\* A sequence of one.
LEMMA Single ==
  ASSUME NEW x
  PROVE  IsSeq(<<x>>) /\ Len(<<x>>) = 1 /\ <<x>>[1] = x /\ ToSet(<<x>>) = {x}
<1>1. <<x>> \in Seq({x}) /\ Len(<<x>>) = 1 /\ <<x>>[1] = x
  OBVIOUS
<1>2. IsSeq(<<x>>) /\ DOMAIN <<x>> = 1..1
  BY <1>1, SeqIs
<1>3. ToSet(<<x>>) = {x}
  BY <1>1, <1>2 DEF ToSet
<1> QED BY <1>1, <1>2, <1>3

\* The sequence of none.
LEMMA None ==
  IsSeq(<<>>) /\ Len(<<>>) = 0 /\ DOMAIN <<>> = {} /\ ToSet(<<>>) = {}
<1>1. <<>> \in Seq({}) /\ Len(<<>>) = 0
  OBVIOUS
<1>2. IsSeq(<<>>) /\ DOMAIN <<>> = 1..0
  BY <1>1, SeqIs
<1>3. ToSet(<<>>) = {}
  BY <1>2 DEF ToSet
<1> QED BY <1>1, <1>2, <1>3

\* A sequence without its first member.
LEMMA Rest ==
  ASSUME NEW q, IsSeq(q), q # <<>>
  PROVE  /\ Len(q) \in Nat \ {0} /\ Head(q) = q[1] /\ IsSeq(Tail(q)) /\ Len(Tail(q)) = Len(q) - 1
         /\ \A i \in 1..Len(q) - 1 : Tail(q)[i] = q[i + 1]
<1>1. q \in Seq(ToSet(q))
  BY DEF IsSeq
<1>2. Tail(q) \in Seq(ToSet(q))
  BY <1>1
<1>3. IsSeq(Tail(q))
  BY <1>2, SeqIs
<1> QED BY <1>1, <1>2, <1>3

\* The members of one sequence after another.
LEMMA BothMembers ==
  ASSUME NEW q, NEW m, IsSeq(q), IsSeq(m)
  PROVE  ToSet(q \o m) = ToSet(q) \cup ToSet(m)
<1> DEFINE p == q \o m
<1>1. /\ IsSeq(p) /\ Len(p) = Len(q) + Len(m)
      /\ \A i \in 1..Len(q) : p[i] = q[i]
      /\ \A i \in 1..Len(m) : p[Len(q) + i] = m[i]
  BY Concatenated
<1> HIDE DEF p
<1>2. /\ Len(q) \in Nat /\ DOMAIN q = 1..Len(q) /\ Len(m) \in Nat /\ DOMAIN m = 1..Len(m)
      /\ DOMAIN p = 1..(Len(q) + Len(m))
  BY <1>1, SeqHas
<1>3. ASSUME NEW i \in DOMAIN p PROVE p[i] \in ToSet(q) \cup ToSet(m)
  <2>1. CASE i <= Len(q)
    <3>1. i \in DOMAIN q /\ p[i] = q[i]
      BY <2>1, <1>1, <1>2
    <3> QED BY <3>1 DEF ToSet
  <2>2. CASE ~(i <= Len(q))
    <3>1. i - Len(q) \in DOMAIN m /\ Len(q) + (i - Len(q)) = i
      BY <2>2, <1>2
    <3>2. p[i] = m[i - Len(q)]
      BY <3>1, <1>1, <1>2
    <3> QED BY <3>1, <3>2 DEF ToSet
  <2> QED BY <2>1, <2>2
<1>4. ASSUME NEW i \in DOMAIN q PROVE q[i] \in ToSet(p)
  <2>1. i \in DOMAIN p /\ p[i] = q[i]
    BY <1>1, <1>2
  <2> QED BY <2>1 DEF ToSet
<1>5. ASSUME NEW i \in DOMAIN m PROVE m[i] \in ToSet(p)
  <2>1. Len(q) + i \in DOMAIN p /\ p[Len(q) + i] = m[i]
    BY <1>1, <1>2
  <2> QED BY <2>1 DEF ToSet
<1>6. ToSet(p) \subseteq ToSet(q) \cup ToSet(m)
  BY <1>3 DEF ToSet
<1>7. ToSet(q) \cup ToSet(m) \subseteq ToSet(p)
  BY <1>4, <1>5 DEF ToSet
<1>8. ToSet(p) = ToSet(q) \cup ToSet(m)
  BY <1>6, <1>7
<1> QED BY <1>8 DEF p

\* Sequences with the same members at the same places.
LEMMA SameSeq ==
  ASSUME NEW S, NEW q \in Seq(S), NEW m \in Seq(S), Len(q) = Len(m), \A i \in 1..Len(q) : q[i] = m[i]
  PROVE  q = m
  OBVIOUS

\* Two members.
LEMMA Pair ==
  ASSUME NEW a, NEW b
  PROVE  IsSeq(<<a, b>>) /\ <<a, b>> = <<a>> \o <<b>>
<1> DEFINE S == {a, b}
           p == <<a, b>>
           q == <<a>> \o <<b>>
<1>1. p \in Seq(S) /\ Len(p) = 2 /\ p[1] = a /\ p[2] = b
  OBVIOUS
<1>2. <<a>> \in Seq(S) /\ Len(<<a>>) = 1 /\ <<a>>[1] = a /\ <<b>> \in Seq(S) /\ Len(<<b>>) = 1 /\ <<b>>[1] = b
  OBVIOUS
<1>3. q \in Seq(S) /\ Len(q) = 2 /\ q[1] = a /\ q[2] = b
  BY <1>2
<1> HIDE DEF p, q, S
<1>4. \A i \in 1..Len(p) : p[i] = q[i]
  <2>1. \A i \in 1..Len(p) : i = 1 \/ i = 2
    BY <1>1
  <2> QED BY <2>1, <1>1, <1>3
<1>5. p = q
  BY <1>1, <1>3, <1>4, SameSeq
<1>6. IsSeq(p)
  BY <1>1, SeqIs
<1> QED BY <1>5, <1>6 DEF p, q

\* Three members.
LEMMA Three ==
  ASSUME NEW a, NEW b, NEW c
  PROVE  <<a, b, c>> = <<a, b>> \o <<c>>
  OBVIOUS

-----------------------------------------------------------------------------
(* What messages make of a state.                                          *)

\* The states that the messages q lead to from `states`, by number.
IsRun(R, kind, states, q, n) ==
  R = [i \in 0..n |-> IF i = 0 THEN states ELSE Heard(kind, R[i - 1], q[i])]

\* Any number of messages lead somewhere.
LEMMA RunsExist ==
  ASSUME NEW kind, NEW states, NEW q, NEW n \in Nat
  PROVE  \E R : IsRun(R, kind, states, q, n)
<1> DEFINE Bad == {i \in Nat : ~ \E R : IsRun(R, kind, states, q, i)}
<1> SUFFICES ASSUME Bad # {} PROVE FALSE
  OBVIOUS
<1>1. PICK l \in Bad : l \in Nat /\ \A m \in Bad : l <= m
  BY LeastNatural
<1> HIDE DEF Bad
<1>2. CASE l = 0
  <2>1. IsRun([i \in 0..0 |-> states], kind, states, q, 0)
    BY DEF IsRun
  <2> QED BY <2>1, <1>1, <1>2 DEF Bad
<1>3. CASE l # 0
  <2>1. l - 1 \in Nat /\ l - 1 \notin Bad
    BY <1>1, <1>3
  <2>2. PICK R : IsRun(R, kind, states, q, l - 1)
    BY <2>1 DEF Bad
  <2> DEFINE Q == [i \in 0..l |-> IF i = l THEN Heard(kind, R[l - 1], q[l]) ELSE R[i]]
  <2>3. \A i \in 0..(l - 1) : Q[i] = R[i]
    BY <1>1
  <2>4. Q[l] = Heard(kind, R[l - 1], q[l])
    BY <1>1
  <2>5. Q = [i \in 0..l |-> Q[i]]
    OBVIOUS
  <2> HIDE DEF Q
  <2>6. ASSUME NEW i \in 0..l
        PROVE  Q[i] = IF i = 0 THEN states ELSE Heard(kind, Q[i - 1], q[i])
    <3>1. CASE i = l
      <4>1. Q[l - 1] = R[l - 1]
        BY <2>1, <2>3, <1>1
      <4> QED BY <3>1, <4>1, <2>4, <1>3
    <3>2. CASE i # l
      <4>1. i \in 0..(l - 1) /\ (i # 0 => i - 1 \in 0..(l - 1))
        BY <3>2, <1>1
      <4>2. R[i] = IF i = 0 THEN states ELSE Heard(kind, R[i - 1], q[i])
        BY <4>1, <2>2 DEF IsRun
      <4> QED BY <4>1, <4>2, <2>3
    <3> QED BY <3>1, <3>2
  <2>7. IsRun(Q, kind, states, q, l)
    BY <2>5, <2>6 DEF IsRun
  <2> QED BY <2>7, <1>1 DEF Bad
<1> QED BY <1>2, <1>3

\* What is received is the end of a run.
LEMMA ReceivedIs ==
  ASSUME NEW kind, NEW states, NEW q, Len(q) \in Nat
  PROVE  \E R : IsRun(R, kind, states, q, Len(q)) /\ Received(kind, states, q) = R[Len(q)]
<1> DEFINE C == CHOOSE R : IsRun(R, kind, states, q, Len(q))
<1>1. IsRun(C, kind, states, q, Len(q))
  BY RunsExist
<1>2. Received(kind, states, q) = C[Len(q)]
  BY DEF Received, IsRun
<1> QED BY <1>1, <1>2

\* The run R over the messages q, of n of them, goes on from a position as the
\* run Q over the messages m, of k of them, begins.
Continued(R, q, n, from, Q, m, k) ==
  /\ n \in Nat /\ k \in Nat /\ from \in Nat /\ from + k <= n
  /\ \E kind, states, after :
       IsRun(R, kind, states, q, n) /\ IsRun(Q, kind, after, m, k) /\ R[from] = after
  /\ \A i \in 1..k : q[from + i] = m[i]

\* Two runs that begin alike and hear the same go on alike.
LEMMA RunsAgree ==
  ASSUME NEW R, NEW q, NEW n, NEW from, NEW Q, NEW m, NEW k, Continued(R, q, n, from, Q, m, k)
  PROVE  \A i \in 0..k : R[from + i] = Q[i]
<1>a. n \in Nat /\ k \in Nat /\ from \in Nat /\ from + k <= n /\ \A i \in 1..k : q[from + i] = m[i]
  BY DEF Continued
<1>b. PICK kind, s, p : IsRun(R, kind, s, q, n) /\ IsRun(Q, kind, p, m, k) /\ R[from] = p
  BY DEF Continued
<1> DEFINE Bad == {i \in 0..k : R[from + i] # Q[i]}
<1> SUFFICES ASSUME Bad # {} PROVE FALSE
  OBVIOUS
<1>0. Bad \in SUBSET Nat
  BY <1>a
<1>1. PICK l \in Bad : l \in Nat /\ \A i \in Bad : l <= i
  BY <1>0, LeastNatural
<1>2. l \in 0..k /\ R[from + l] # Q[l]
  BY <1>1
<1>3. l # 0
  <2>1. Q[0] = p
    BY <1>a, <1>b DEF IsRun
  <2> QED BY <2>1, <1>2, <1>a, <1>b
<1>4. l - 1 \in 0..k /\ l - 1 \notin Bad
  BY <1>a, <1>1, <1>2, <1>3
<1>5. R[from + (l - 1)] = Q[l - 1]
  BY <1>4
<1>6. Q[l] = Heard(kind, Q[l - 1], m[l])
  BY <1>b, <1>2, <1>3 DEF IsRun
<1>9. q[from + l] = m[l]
  BY <1>a, <1>2, <1>3
<1>7. from + l \in 0..n /\ from + l # 0 /\ (from + l) - 1 = from + (l - 1) /\ l \in 1..k
  BY <1>a, <1>2, <1>3
<1>8. R[from + l] = Heard(kind, R[(from + l) - 1], q[from + l])
  BY <1>7, <1>b DEF IsRun
<1> QED BY <1>2, <1>5, <1>6, <1>7, <1>8, <1>9

\* No message changes nothing.
LEMMA ReceivedNone ==
  ASSUME NEW kind, NEW states
  PROVE  Received(kind, states, <<>>) = states
<1>1. PICK R : IsRun(R, kind, states, <<>>, 0) /\ Received(kind, states, <<>>) = R[0]
  BY ReceivedIs, None
<1> QED BY <1>1 DEF IsRun

\* One message is heard.
LEMMA ReceivedOne ==
  ASSUME NEW kind, NEW states, NEW m
  PROVE  Received(kind, states, <<m>>) = Heard(kind, states, m)
<1>0. Len(<<m>>) = 1
  BY Single
<1>1. PICK R : IsRun(R, kind, states, <<m>>, 1) /\ Received(kind, states, <<m>>) = R[1]
  BY <1>0, ReceivedIs
<1>2. R[1] = Heard(kind, R[0], <<m>>[1]) /\ R[0] = states
  BY <1>1 DEF IsRun
<1> QED BY <1>1, <1>2

\* Messages are heard after those before them.
LEMMA ReceivedAfter ==
  ASSUME NEW kind, NEW states, NEW q, NEW m, IsSeq(q), IsSeq(m)
  PROVE  Received(kind, states, q \o m) = Received(kind, Received(kind, states, q), m)
<1>1. /\ Len(q) \in Nat /\ Len(m) \in Nat /\ Len(q \o m) = Len(q) + Len(m)
      /\ \A i \in 1..Len(q) : (q \o m)[i] = q[i]
      /\ \A i \in 1..Len(m) : (q \o m)[Len(q) + i] = m[i]
  BY SeqHas, Concatenated
<1> DEFINE all == q \o m
<1>l. Len(all) \in Nat
  BY <1>1
<1>2. PICK R : IsRun(R, kind, states, all, Len(all)) /\ Received(kind, states, all) = R[Len(all)]
  BY <1>l, ReceivedIs
<1>3. PICK Q : IsRun(Q, kind, states, q, Len(q)) /\ Received(kind, states, q) = Q[Len(q)]
  BY <1>1, ReceivedIs
<1> DEFINE mid == Received(kind, states, q)
<1>4. PICK P : IsRun(P, kind, mid, m, Len(m)) /\ Received(kind, mid, m) = P[Len(m)]
  BY <1>1, ReceivedIs
<1>5. /\ Len(all) = Len(q) + Len(m)
      /\ \A i \in 1..Len(q) : all[0 + i] = q[i]
      /\ \A i \in 1..Len(m) : all[Len(q) + i] = m[i]
  BY <1>1
<1> HIDE DEF all, mid
<1>6. R[0] = states
  BY <1>1, <1>2, <1>5 DEF IsRun
<1>7. Continued(R, all, Len(all), 0, Q, q, Len(q))
  BY <1>1, <1>2, <1>3, <1>5, <1>6 DEF Continued
<1>8. R[Len(q)] = mid
  <2>1. \A i \in 0..Len(q) : R[0 + i] = Q[i]
    BY <1>7, RunsAgree
  <2> QED BY <2>1, <1>1, <1>3 DEF mid
<1>9. Continued(R, all, Len(all), Len(q), P, m, Len(m))
  BY <1>1, <1>2, <1>4, <1>5, <1>8 DEF Continued
<1>10. \A i \in 0..Len(m) : R[Len(q) + i] = P[i]
  BY <1>9, RunsAgree
<1> QED BY <1>1, <1>2, <1>4, <1>5, <1>10 DEF mid, all


-----------------------------------------------------------------------------
(* Lists.                                                                  *)

\* A member put first.
LEMMA PutFirst ==
  ASSUME NEW q, NEW x, IsSeq(q)
  PROVE  /\ IsSeq(<<x>> \o q) /\ Len(<<x>> \o q) = Len(q) + 1 /\ (<<x>> \o q)[1] = x
         /\ \A i \in 1..Len(q) : (<<x>> \o q)[i + 1] = q[i]
         /\ ToSet(<<x>> \o q) = {x} \cup ToSet(q)
<1> DEFINE p == <<x>> \o q
<1>1. /\ IsSeq(p) /\ Len(p) = 1 + Len(q) /\ \A i \in 1..1 : p[i] = <<x>>[i]
      /\ \A i \in 1..Len(q) : p[1 + i] = q[i]
  BY Single, Concatenated
<1>2. Len(q) \in Nat /\ DOMAIN q = 1..Len(q) /\ DOMAIN p = 1..Len(p)
  BY <1>1, SeqHas
<1>3. p[1] = x
  BY <1>1, Single
<1> HIDE DEF p
<1>4. \A i \in 1..Len(q) : p[i + 1] = q[i]
  BY <1>1, <1>2
<1>5. ToSet(p) \subseteq {x} \cup ToSet(q)
  <2> SUFFICES ASSUME NEW i \in DOMAIN p PROVE p[i] \in {x} \cup ToSet(q)
    BY DEF ToSet
  <2>1. CASE i = 1
    BY <2>1, <1>3
  <2>2. CASE i # 1
    <3>1. i - 1 \in 1..Len(q) /\ (i - 1) + 1 = i
      BY <2>2, <1>1, <1>2
    <3>2. p[i] = q[i - 1]
      BY <3>1, <1>4
    <3> QED BY <3>1, <3>2, <1>2 DEF ToSet
  <2> QED BY <2>1, <2>2
<1>6. {x} \cup ToSet(q) \subseteq ToSet(p)
  <2>1. x \in ToSet(p)
    BY <1>1, <1>2, <1>3 DEF ToSet
  <2>2. ASSUME NEW i \in DOMAIN q
        PROVE  q[i] \in ToSet(p)
    <3>1. i + 1 \in DOMAIN p /\ p[i + 1] = q[i]
      BY <1>1, <1>2, <1>4
    <3> QED BY <3>1 DEF ToSet
  <2> QED BY <2>1, <2>2 DEF ToSet
<1>7. ToSet(p) = {x} \cup ToSet(q) /\ Len(p) = Len(q) + 1
  BY <1>1, <1>2, <1>5, <1>6
<1> QED BY <1>1, <1>3, <1>4, <1>7 DEF p

\* A list without one of its members.
LEMMA LeftOut ==
  ASSUME NEW q, IsSeq(q), NEW i \in DOMAIN q
  PROVE  /\ IsSeq(RemoveAt(q, i)) /\ Len(RemoveAt(q, i)) = Len(q) - 1
         /\ \A j \in 1..Len(q) - 1 : RemoveAt(q, i)[j] = IF j < i THEN q[j] ELSE q[j + 1]
<1>1. q \in Seq(ToSet(q)) /\ Len(q) \in Nat /\ i \in 1..Len(q)
  BY SeqHas DEF IsSeq
<1> DEFINE a == SubSeq(q, 1, i - 1)
           b == SubSeq(q, i + 1, Len(q))
<1>2. /\ a \in Seq(ToSet(q)) /\ Len(a) = i - 1 /\ \A j \in 1..(i - 1) : a[j] = q[j]
      /\ b \in Seq(ToSet(q)) /\ Len(b) = Len(q) - i /\ \A j \in 1..(Len(q) - i) : b[j] = q[i + j]
  BY <1>1
<1>3. IsSeq(a) /\ IsSeq(b)
  BY <1>2, SeqIs
<1>4. RemoveAt(q, i) = a \o b
  BY DEF RemoveAt
<1> HIDE DEF a, b
<1>5. /\ IsSeq(a \o b) /\ Len(a \o b) = Len(a) + Len(b)
      /\ \A j \in 1..Len(a) : (a \o b)[j] = a[j]
      /\ \A j \in 1..Len(b) : (a \o b)[Len(a) + j] = b[j]
  BY <1>3, Concatenated
<1>6. ASSUME NEW j \in 1..Len(q) - 1
      PROVE  (a \o b)[j] = IF j < i THEN q[j] ELSE q[j + 1]
  <2>1. CASE j < i
    <3>1. j \in 1..(i - 1) /\ j \in 1..Len(a)
      BY <2>1, <1>1, <1>2
    <3>2. (a \o b)[j] = a[j]
      BY <3>1, <1>5
    <3>3. a[j] = q[j]
      BY <3>1, <1>2
    <3> QED BY <2>1, <3>2, <3>3
  <2>2. CASE ~(j < i)
    <3>1. j - (i - 1) \in 1..Len(b) /\ Len(a) + (j - (i - 1)) = j /\ i + (j - (i - 1)) = j + 1
      BY <2>2, <1>1, <1>2
    <3>2. (a \o b)[j] = b[j - (i - 1)]
      BY <3>1, <1>5
    <3>3. b[j - (i - 1)] = q[j + 1]
      BY <3>1, <1>2
    <3> QED BY <2>2, <3>2, <3>3
  <2> QED BY <2>1, <2>2
<1>7. IsSeq(a \o b) /\ Len(a \o b) = Len(q) - 1
  BY <1>1, <1>2, <1>5
<1> QED BY <1>4, <1>6, <1>7

\* A list with one of its members replaced.
LEMMA Replaced ==
  ASSUME NEW q, IsSeq(q), NEW i \in DOMAIN q, NEW x
  PROVE  LET r == [q EXCEPT ![i] = x] IN
         IsSeq(r) /\ DOMAIN r = DOMAIN q /\ r[i] = x /\ \A j \in DOMAIN q : j # i => r[j] = q[j]
<1> DEFINE r == [q EXCEPT ![i] = x]
           S == ToSet(q) \cup {x}
<1>1. q \in Seq(ToSet(q)) /\ Len(q) \in Nat /\ DOMAIN q = 1..Len(q)
  BY SeqHas DEF IsSeq
<1>2. r = [j \in 1..Len(q) |-> IF j = i THEN x ELSE q[j]]
  BY <1>1
<1>3. \A j \in 1..Len(q) : r[j] \in S
  BY <1>1, <1>2 DEF ToSet
<1>4. DOMAIN r = DOMAIN q /\ r[i] = x /\ \A j \in DOMAIN q : j # i => r[j] = q[j]
  BY <1>1
<1> HIDE DEF r, S
<1>5. r \in [1..Len(q) -> S]
  BY <1>2, <1>3
<1>6. r \in Seq(S)
  BY <1>1, <1>5
<1>7. IsSeq(r)
  BY <1>6, SeqIs
<1> QED BY <1>4, <1>7 DEF r

-----------------------------------------------------------------------------
(* What operations make of a state.                                        *)

IsController(s) ==
  s = [lifecycle |-> s.lifecycle, threads |-> s.threads, statuses |-> s.statuses,
       providers |-> s.providers, runners |-> s.runners]

IdsDistinct(list) ==
  IsSeq(list) /\ \A i, j \in DOMAIN list : list[i].id = list[j].id => i = j

ControllerFits(s) == IsController(s) /\ IdsDistinct(s.threads)

IsThread(s) ==
  s = [metadata |-> s.metadata, events |-> s.events, turn |-> s.turn, outcome |-> s.outcome,
       checkpoints |-> s.checkpoints, processes |-> s.processes]

AtMostOne(S) == \A a, b \in S : a = b

ThreadFits(s) == IsThread(s) /\ AtMostOne(s.turn)

\* A thread put first in the list.
LEMMA AddedThread ==
  ASSUME NEW s, ControllerFits(s), NEW op, op.op = "added", NEW r \in ControllerNext(s, op)
  PROVE  /\ ControllerFits(r) /\ r.lifecycle = s.lifecycle
         /\ ToSet(r.threads) = {op.thread} \cup ToSet(s.threads)
         /\ r.statuses = Upsert(s.statuses, op.thread.id, "idle")
         /\ \A q \in ControllerNext(s, op) : q = r
<1>1. /\ IndicesOf(s.threads, LAMBDA thread : thread.id = op.thread.id) = {}
      /\ r = [s EXCEPT !.threads = <<op.thread>> \o @,
                       !.statuses = Upsert(@, op.thread.id, "idle")]
      /\ \A q \in ControllerNext(s, op) : q = r
  BY DEF ControllerNext, When
<1>2. \A i \in DOMAIN s.threads : s.threads[i].id # op.thread.id
  BY <1>1 DEF IndicesOf
<1>3. /\ IsController(r) /\ r.lifecycle = s.lifecycle /\ r.threads = <<op.thread>> \o s.threads
      /\ r.statuses = Upsert(s.statuses, op.thread.id, "idle")
  BY <1>1 DEF IsController, ControllerFits
<1> DEFINE list == s.threads
           longer == r.threads
<1>4. /\ IsSeq(longer) /\ Len(longer) = Len(list) + 1 /\ longer[1] = op.thread
      /\ \A i \in 1..Len(list) : longer[i + 1] = list[i]
      /\ ToSet(longer) = {op.thread} \cup ToSet(list)
  BY <1>3, PutFirst DEF ControllerFits, IdsDistinct
<1>5. Len(list) \in Nat /\ DOMAIN list = 1..Len(list) /\ DOMAIN longer = 1..Len(longer)
  BY <1>4, SeqHas DEF ControllerFits, IdsDistinct
<1>6. \A i, j \in DOMAIN list : list[i].id = list[j].id => i = j
  BY DEF ControllerFits, IdsDistinct
<1> HIDE DEF list, longer
<1>7. ASSUME NEW i \in DOMAIN longer
      PROVE  i = 1 \/ (i - 1 \in DOMAIN list /\ longer[i] = list[i - 1])
  <2>1. i # 1 => i - 1 \in 1..Len(list) /\ (i - 1) + 1 = i
    BY <1>4, <1>5
  <2> QED BY <2>1, <1>4, <1>5
<1>8. ASSUME NEW i \in DOMAIN longer, NEW j \in DOMAIN longer, longer[i].id = longer[j].id
      PROVE  i = j
  <2>1. i \in Nat /\ j \in Nat
    BY <1>4, <1>5
  <2>2. \A k \in DOMAIN list : list[k].id # op.thread.id
    BY <1>2 DEF list
  <2>3. CASE i = 1 \/ j = 1
    BY <2>2, <2>3, <1>4, <1>7, <1>8
  <2>4. CASE i # 1 /\ j # 1
    <3>1. i - 1 = j - 1
      BY <2>4, <1>6, <1>7, <1>8
    <3> QED BY <3>1, <2>1
  <2> QED BY <2>3, <2>4
<1>9. IdsDistinct(longer)
  BY <1>4, <1>8 DEF IdsDistinct
<1> QED BY <1>1, <1>3, <1>4, <1>9 DEF ControllerFits, list, longer

\* The entry of a thread replaced.
LEMMA UpdatedThread ==
  ASSUME NEW s, ControllerFits(s), NEW op, op.op = "updated", NEW r \in ControllerNext(s, op)
  PROVE  /\ ControllerFits(r) /\ r.lifecycle = s.lifecycle /\ r.statuses = s.statuses
         /\ ToSet(r.threads) = {op.thread} \cup {m \in ToSet(s.threads) : m.id # op.thread.id}
         /\ \A q \in ControllerNext(s, op) : q = r
<1> DEFINE list == s.threads
           found == IndicesOf(list, LAMBDA thread : thread.id = op.thread.id)
<1>0. ControllerNext(s, op) = {[s EXCEPT !.threads[i] = op.thread] : i \in found}
  BY DEF ControllerNext
<1>1. found = {i \in DOMAIN list : list[i].id = op.thread.id}
  BY DEF IndicesOf
<1>2. IsSeq(list) /\ \A i, j \in DOMAIN list : list[i].id = list[j].id => i = j
  BY DEF ControllerFits, IdsDistinct
<1>3. PICK i \in found : r = [s EXCEPT !.threads[i] = op.thread]
  BY <1>0
<1>4. i \in DOMAIN list /\ list[i].id = op.thread.id /\ \A j \in found : j = i
  BY <1>1, <1>2
<1>5. \A q \in ControllerNext(s, op) : q = r
  BY <1>0, <1>3, <1>4
<1>6. /\ IsController(r) /\ r.lifecycle = s.lifecycle /\ r.statuses = s.statuses
      /\ r.threads = [list EXCEPT ![i] = op.thread]
  BY <1>3 DEF IsController, ControllerFits
<1> DEFINE new == r.threads
<1> HIDE DEF list, found
<1>7. /\ IsSeq(new) /\ DOMAIN new = DOMAIN list /\ new[i] = op.thread
      /\ \A j \in DOMAIN list : j # i => new[j] = list[j]
  BY <1>2, <1>4, <1>6, Replaced
<1> HIDE DEF new
<1>8. IdsDistinct(new)
  BY <1>2, <1>4, <1>7 DEF IdsDistinct
<1>9. \A j \in DOMAIN list : j # i => list[j].id # op.thread.id
  BY <1>2, <1>4
<1>10. ToSet(new) = {op.thread} \cup {m \in ToSet(list) : m.id # op.thread.id}
  <2>1. \A m : m \in ToSet(new) <=> \E j \in DOMAIN list : m = new[j]
    BY <1>7 DEF ToSet
  <2>2. \A m : m \in ToSet(list) <=> \E j \in DOMAIN list : m = list[j]
    BY DEF ToSet
  <2> QED BY <2>1, <2>2, <1>4, <1>7, <1>9
<1> QED BY <1>5, <1>6, <1>8, <1>10 DEF ControllerFits, list, new

\* The entry of a thread taken out.
LEMMA RemovedThread ==
  ASSUME NEW s, ControllerFits(s), NEW op, op.op = "removed", NEW r \in ControllerNext(s, op)
  PROVE  /\ ControllerFits(r) /\ r.lifecycle = s.lifecycle /\ r.statuses = Without(s.statuses, {op.id})
         /\ ToSet(r.threads) = {m \in ToSet(s.threads) : m.id # op.id}
         /\ \A q \in ControllerNext(s, op) : q = r
<1> DEFINE list == s.threads
           found == IndicesOf(list, LAMBDA thread : thread.id = op.id)
<1>0. ControllerNext(s, op) =
        {[s EXCEPT !.threads = RemoveAt(@, i), !.statuses = Without(@, {op.id})] : i \in found}
  BY DEF ControllerNext
<1>1. found = {i \in DOMAIN list : list[i].id = op.id}
  BY DEF IndicesOf
<1>2. IsSeq(list) /\ \A i, j \in DOMAIN list : list[i].id = list[j].id => i = j
  BY DEF ControllerFits, IdsDistinct
<1>3. PICK i \in found : r = [s EXCEPT !.threads = RemoveAt(@, i), !.statuses = Without(@, {op.id})]
  BY <1>0
<1>4. i \in DOMAIN list /\ list[i].id = op.id /\ \A j \in found : j = i
  BY <1>1, <1>2
<1>5. \A q \in ControllerNext(s, op) : q = r
  BY <1>0, <1>3, <1>4
<1>6. /\ IsController(r) /\ r.lifecycle = s.lifecycle /\ r.statuses = Without(s.statuses, {op.id})
      /\ r.threads = RemoveAt(list, i)
  BY <1>3 DEF IsController, ControllerFits
<1> DEFINE new == r.threads
<1> HIDE DEF list, found
<1>7. /\ IsSeq(new) /\ Len(new) = Len(list) - 1
      /\ \A j \in 1..Len(list) - 1 : new[j] = IF j < i THEN list[j] ELSE list[j + 1]
  BY <1>2, <1>4, <1>6, LeftOut
<1> HIDE DEF new
<1>8. Len(list) \in Nat /\ DOMAIN list = 1..Len(list) /\ DOMAIN new = 1..Len(list) - 1 /\ i \in 1..Len(list)
  BY <1>2, <1>4, <1>7, SeqHas
<1> DEFINE at(j) == IF j < i THEN j ELSE j + 1
<1>9. \A j \in DOMAIN new : at(j) \in DOMAIN list /\ at(j) # i /\ new[j] = list[at(j)]
  BY <1>7, <1>8
<1>10. \A j, k \in DOMAIN new : at(j) = at(k) => j = k
  BY <1>8
<1>11. IdsDistinct(new)
  BY <1>2, <1>7, <1>9, <1>10 DEF IdsDistinct
<1>12. \A k \in DOMAIN list : k # i => \E j \in DOMAIN new : at(j) = k
  <2> SUFFICES ASSUME NEW k \in DOMAIN list, k # i PROVE \E j \in DOMAIN new : at(j) = k
    OBVIOUS
  <2>1. CASE k < i
    BY <2>1, <1>8
  <2>2. CASE ~(k < i)
    <3>1. k - 1 \in DOMAIN new /\ at(k - 1) = k
      BY <2>2, <1>8
    <3> QED BY <3>1
  <2> QED BY <2>1, <2>2
<1>13. \A j \in DOMAIN list : list[j].id = op.id <=> j = i
  BY <1>2, <1>4
<1> HIDE DEF at
<1>14. ToSet(new) = {m \in ToSet(list) : m.id # op.id}
  <2>1. \A m : m \in ToSet(new) <=> \E j \in DOMAIN new : m = new[j]
    BY DEF ToSet
  <2>2. \A m : m \in ToSet(list) <=> \E j \in DOMAIN list : m = list[j]
    BY DEF ToSet
  <2>3. ToSet(new) \subseteq {m \in ToSet(list) : m.id # op.id}
    BY <2>1, <2>2, <1>9, <1>13
  <2>4. {m \in ToSet(list) : m.id # op.id} \subseteq ToSet(new)
    BY <2>1, <2>2, <1>9, <1>12, <1>13
  <2> QED BY <2>3, <2>4
<1> QED BY <1>5, <1>6, <1>11, <1>14 DEF ControllerFits, list, new

\* The status of a thread shown.
LEMMA ShownStatus ==
  ASSUME NEW s, ControllerFits(s), NEW op, op.op = "status", NEW r \in ControllerNext(s, op)
  PROVE  /\ ControllerFits(r) /\ r.lifecycle = s.lifecycle /\ r.threads = s.threads
         /\ op.id \in DOMAIN s.statuses /\ r.statuses = Upsert(s.statuses, op.id, op.status)
         /\ \A q \in ControllerNext(s, op) : q = r
<1>1. /\ op.id \in DOMAIN s.statuses /\ r = [s EXCEPT !.statuses = Upsert(@, op.id, op.status)]
      /\ \A q \in ControllerNext(s, op) : q = r
  BY DEF ControllerNext, When
<1>2. IsController(r) /\ r.lifecycle = s.lifecycle /\ r.threads = s.threads
      /\ r.statuses = Upsert(s.statuses, op.id, op.status)
  BY <1>1 DEF IsController, ControllerFits
<1> QED BY <1>1, <1>2 DEF ControllerFits

\* A provider or a Runner shown, or the end.
LEMMA ShownElse ==
  ASSUME NEW s, ControllerFits(s), NEW op, op.op \in {"lifecycle", "provider", "runner"},
         NEW r \in ControllerNext(s, op)
  PROVE  /\ ControllerFits(r) /\ (op.op # "lifecycle" => r.lifecycle = s.lifecycle)
         /\ r.threads = s.threads /\ r.statuses = s.statuses
         /\ \A q \in ControllerNext(s, op) : q = r
<1>1. CASE op.op = "lifecycle"
  <2>1. r = [s EXCEPT !.lifecycle = op.lifecycle] /\ \A q \in ControllerNext(s, op) : q = r
    BY <1>1 DEF ControllerNext
  <2>2. IsController(r) /\ r.threads = s.threads /\ r.statuses = s.statuses
    BY <2>1 DEF IsController, ControllerFits
  <2> QED BY <1>1, <2>1, <2>2 DEF ControllerFits
<1>2. CASE op.op = "provider"
  <2>1. r = [s EXCEPT !.providers = Upsert(@, op.id, op.provider)] /\ \A q \in ControllerNext(s, op) : q = r
    BY <1>2 DEF ControllerNext
  <2>2. IsController(r) /\ r.threads = s.threads /\ r.statuses = s.statuses /\ r.lifecycle = s.lifecycle
    BY <2>1 DEF IsController, ControllerFits
  <2> QED BY <1>2, <2>1, <2>2 DEF ControllerFits
<1>3. CASE op.op = "runner"
  <2>1. r = [s EXCEPT !.runners = Upsert(@, op.name, op.runner)] /\ \A q \in ControllerNext(s, op) : q = r
    BY <1>3 DEF ControllerNext
  <2>2. IsController(r) /\ r.threads = s.threads /\ r.statuses = s.statuses /\ r.lifecycle = s.lifecycle
    BY <2>1 DEF IsController, ControllerFits
  <2> QED BY <1>3, <2>1, <2>2 DEF ControllerFits
<1> QED BY <1>1, <1>2, <1>3

TurnOps == {"started", "phase", "retry", "requested", "resolved", "finished"}

\* What two states of a thread have in common, but for their turns.
SameBut(r, s, fields) ==
  /\ "metadata" \in fields \/ r.metadata = s.metadata
  /\ "events" \in fields \/ r.events = s.events
  /\ "checkpoints" \in fields \/ r.checkpoints = s.checkpoints
  /\ "processes" \in fields \/ r.processes = s.processes
  /\ "turn" \in fields \/ (r.turn = s.turn /\ r.outcome = s.outcome)

\* A change of the turn that runs.
LEMMA ChangedTurn ==
  ASSUME NEW s, ThreadFits(s), NEW t, NEW u, s.turn = {t}, NEW r, r = [s EXCEPT !.turn = {u}]
  PROVE  ThreadFits(r) /\ SameBut(r, s, {"turn"})
  BY DEF ThreadFits, IsThread, AtMostOne, SameBut

\* An operation on the turn changes nothing else.
LEMMA TurnOperation ==
  ASSUME NEW s, ThreadFits(s), NEW op, op.op \in TurnOps, NEW r \in ThreadNext(s, op)
  PROVE  ThreadFits(r) /\ SameBut(r, s, {"turn"}) /\ \A q \in ThreadNext(s, op) : q = r
<1>0. ThreadNext(s, op) = TurnNext(s, op)
  BY DEF ThreadNext, TurnOps
<1>1. CASE op.op = "started"
  <2>1. r = [s EXCEPT !.turn = {NewTurn(op.phase)}, !.outcome = {}] /\ \A q \in TurnNext(s, op) : q = r
    BY <1>0, <1>1 DEF TurnNext, When
  <2> QED BY <1>0, <2>1 DEF ThreadFits, IsThread, AtMostOne, SameBut
<1>2. CASE op.op = "finished"
  <2>1. r = [s EXCEPT !.turn = {}, !.outcome = {op.outcome}] /\ \A q \in TurnNext(s, op) : q = r
    BY <1>0, <1>2 DEF TurnNext, When
  <2> QED BY <1>0, <2>1 DEF ThreadFits, IsThread, AtMostOne, SameBut
<1>3. CASE op.op = "phase"
  <2> DEFINE Edit(t) == [t EXCEPT !.phase = op.phase, !.retry = {}]
  <2>1. TurnNext(s, op) = {[s EXCEPT !.turn = {t}] : t \in UNION {{Edit(t)} : t \in s.turn}}
    BY <1>3 DEF TurnNext, InTurn
  <2>2. \A q : q \in TurnNext(s, op) => \E t \in s.turn : q = [s EXCEPT !.turn = {Edit(t)}]
    <3> HIDE DEF Edit
    <3> SUFFICES ASSUME NEW q \in TurnNext(s, op)
                 PROVE  \E t \in s.turn : q = [s EXCEPT !.turn = {Edit(t)}]
      OBVIOUS
    <3>1. PICK u \in UNION {{Edit(t)} : t \in s.turn} : q = [s EXCEPT !.turn = {u}]
      BY <2>1
    <3>2. PICK t \in s.turn : u \in {Edit(t)}
      BY <3>1
    <3>3. u = Edit(t)
      BY <3>2
    <3> QED BY <3>1, <3>3
  <2> HIDE DEF Edit
  <2>3. PICK t \in s.turn : r = [s EXCEPT !.turn = {Edit(t)}]
    BY <1>0, <2>2
  <2>4. s.turn = {t}
    BY <2>3 DEF ThreadFits, AtMostOne
  <2>5. \A q \in TurnNext(s, op) : q = r
    BY <2>2, <2>3, <2>4
  <2> QED BY <1>0, <2>3, <2>4, <2>5, ChangedTurn
<1>4. CASE op.op = "retry"
  <2> DEFINE Edit(t) == [t EXCEPT !.phase = "retrying", !.retry = {op.retry}]
  <2>1. TurnNext(s, op) = {[s EXCEPT !.turn = {t}] : t \in UNION {{Edit(t)} : t \in s.turn}}
    BY <1>4 DEF TurnNext, InTurn
  <2>2. \A q : q \in TurnNext(s, op) => \E t \in s.turn : q = [s EXCEPT !.turn = {Edit(t)}]
    <3> HIDE DEF Edit
    <3> SUFFICES ASSUME NEW q \in TurnNext(s, op)
                 PROVE  \E t \in s.turn : q = [s EXCEPT !.turn = {Edit(t)}]
      OBVIOUS
    <3>1. PICK u \in UNION {{Edit(t)} : t \in s.turn} : q = [s EXCEPT !.turn = {u}]
      BY <2>1
    <3>2. PICK t \in s.turn : u \in {Edit(t)}
      BY <3>1
    <3>3. u = Edit(t)
      BY <3>2
    <3> QED BY <3>1, <3>3
  <2> HIDE DEF Edit
  <2>3. PICK t \in s.turn : r = [s EXCEPT !.turn = {Edit(t)}]
    BY <1>0, <2>2
  <2>4. s.turn = {t}
    BY <2>3 DEF ThreadFits, AtMostOne
  <2>5. \A q \in TurnNext(s, op) : q = r
    BY <2>2, <2>3, <2>4
  <2> QED BY <1>0, <2>3, <2>4, <2>5, ChangedTurn
<1>5. CASE op.op = "requested"
  <2> DEFINE Edit(t) == [t EXCEPT !.phase = "awaiting input", !.retry = {}, !.pending = {op.interaction}]
  <2>1. TurnNext(s, op) = {[s EXCEPT !.turn = {t}] : t \in UNION {When(t.pending = {}, Edit(t)) : t \in s.turn}}
    BY <1>5 DEF TurnNext, InTurn
  <2>2. \A q : q \in TurnNext(s, op) => \E t \in s.turn : q = [s EXCEPT !.turn = {Edit(t)}]
    <3> HIDE DEF Edit
    <3> SUFFICES ASSUME NEW q \in TurnNext(s, op)
                 PROVE  \E t \in s.turn : q = [s EXCEPT !.turn = {Edit(t)}]
      OBVIOUS
    <3>1. PICK u \in UNION {When(t.pending = {}, Edit(t)) : t \in s.turn} : q = [s EXCEPT !.turn = {u}]
      BY <2>1
    <3>2. PICK t \in s.turn : u \in When(t.pending = {}, Edit(t))
      BY <3>1
    <3>3. u = Edit(t)
      BY <3>2 DEF When
    <3> QED BY <3>1, <3>3
  <2> HIDE DEF Edit
  <2>3. PICK t \in s.turn : r = [s EXCEPT !.turn = {Edit(t)}]
    BY <1>0, <2>2
  <2>4. s.turn = {t}
    BY <2>3 DEF ThreadFits, AtMostOne
  <2>5. \A q \in TurnNext(s, op) : q = r
    BY <2>2, <2>3, <2>4
  <2> QED BY <1>0, <2>3, <2>4, <2>5, ChangedTurn
<1>6. CASE op.op = "resolved"
  <2> DEFINE Edit(t) == [t EXCEPT !.phase = "running", !.retry = {}, !.pending = {}]
             Allowed(t) == t.phase = "awaiting input" /\ \E pending \in t.pending : pending.id = op.id
  <2>1. TurnNext(s, op) = {[s EXCEPT !.turn = {t}] : t \in UNION {When(Allowed(t), Edit(t)) : t \in s.turn}}
    BY <1>6 DEF TurnNext, InTurn
  <2> HIDE DEF Allowed
  <2>2. \A q : q \in TurnNext(s, op) => \E t \in s.turn : q = [s EXCEPT !.turn = {Edit(t)}]
    <3> HIDE DEF Edit
    <3> SUFFICES ASSUME NEW q \in TurnNext(s, op)
                 PROVE  \E t \in s.turn : q = [s EXCEPT !.turn = {Edit(t)}]
      OBVIOUS
    <3>1. PICK u \in UNION {When(Allowed(t), Edit(t)) : t \in s.turn} : q = [s EXCEPT !.turn = {u}]
      BY <2>1
    <3>2. PICK t \in s.turn : u \in When(Allowed(t), Edit(t))
      BY <3>1
    <3>3. u = Edit(t)
      BY <3>2 DEF When
    <3> QED BY <3>1, <3>3
  <2> HIDE DEF Edit
  <2>3. PICK t \in s.turn : r = [s EXCEPT !.turn = {Edit(t)}]
    BY <1>0, <2>2
  <2>4. s.turn = {t}
    BY <2>3 DEF ThreadFits, AtMostOne
  <2>5. \A q \in TurnNext(s, op) : q = r
    BY <2>2, <2>3, <2>4
  <2> QED BY <1>0, <2>3, <2>4, <2>5, ChangedTurn
<1> QED BY <1>1, <1>2, <1>3, <1>4, <1>5, <1>6 DEF TurnOps

\* The other operations change one field.
LEMMA ThreadOperation ==
  ASSUME NEW s, ThreadFits(s), NEW op, NEW r \in ThreadNext(s, op),
         op.op \in {"metadata", "event", "replaced", "checkpoint", "process"}
  PROVE  /\ ThreadFits(r) /\ \A q \in ThreadNext(s, op) : q = r
         /\ op.op = "metadata" => r.metadata = op.metadata /\ SameBut(r, s, {"metadata"})
         /\ op.op = "event" => r.events = Append(s.events, op.event) /\ SameBut(r, s, {"events"})
         /\ op.op = "replaced" => r.events = op.events /\ SameBut(r, s, {"events"})
         /\ op.op = "checkpoint" =>
              r.checkpoints = <<op.checkpoint>> \o s.checkpoints /\ SameBut(r, s, {"checkpoints"})
         /\ op.op = "process" =>
              r.processes = Upsert(s.processes, op.process, op.status) /\ SameBut(r, s, {"processes"})
<1>1. CASE op.op = "metadata"
  <2>1. r = [s EXCEPT !.metadata = op.metadata] /\ \A q \in ThreadNext(s, op) : q = r
    BY <1>1 DEF ThreadNext, When
  <2> QED BY <1>1, <2>1 DEF ThreadFits, IsThread, SameBut
<1>2. CASE op.op = "event"
  <2>1. r = [s EXCEPT !.events = Append(@, op.event)] /\ \A q \in ThreadNext(s, op) : q = r
    BY <1>2 DEF ThreadNext, When
  <2> QED BY <1>2, <2>1 DEF ThreadFits, IsThread, SameBut
<1>3. CASE op.op = "replaced"
  <2>1. r = [s EXCEPT !.events = op.events] /\ \A q \in ThreadNext(s, op) : q = r
    BY <1>3 DEF ThreadNext, When
  <2> QED BY <1>3, <2>1 DEF ThreadFits, IsThread, SameBut
<1>4. CASE op.op = "checkpoint"
  <2>1. r = [s EXCEPT !.checkpoints = <<op.checkpoint>> \o @] /\ \A q \in ThreadNext(s, op) : q = r
    BY <1>4 DEF ThreadNext, When
  <2> QED BY <1>4, <2>1 DEF ThreadFits, IsThread, SameBut
<1>5. CASE op.op = "process"
  <2>1. r = [s EXCEPT !.processes = Upsert(@, op.process, op.status)] /\ \A q \in ThreadNext(s, op) : q = r
    BY <1>5 DEF ThreadNext
  <2> QED BY <1>5, <2>1 DEF ThreadFits, IsThread, SameBut
<1> QED BY <1>1, <1>2, <1>3, <1>4, <1>5

\* The status of a thread depends on its turn and its outcome.
LEMMA StatusOfTurn ==
  ASSUME NEW r, NEW s, r.turn = s.turn, r.outcome = s.outcome
  PROVE  AgentStatus(r) = AgentStatus(s)
  BY DEF AgentStatus

\* A thread without a turn and an outcome is idle.
LEMMA StatusOfNone ==
  ASSUME NEW s, s.turn = {}, s.outcome = {}
  PROVE  AgentStatus(s) = "idle"
  BY DEF AgentStatus

-----------------------------------------------------------------------------
(* Histories.                                                              *)

Numbered(events) ==
  /\ IsSeq(events) /\ \A i \in DOMAIN events : events[i].sequence \in Nat
  /\ \A i, j \in DOMAIN events : i < j => events[i].sequence < events[j].sequence

\* A member put last.
LEMMA PutLast ==
  ASSUME NEW q, NEW x, IsSeq(q)
  PROVE  /\ IsSeq(Append(q, x)) /\ Len(Append(q, x)) = Len(q) + 1 /\ Append(q, x)[Len(q) + 1] = x
         /\ \A i \in 1..Len(q) : Append(q, x)[i] = q[i]
         /\ ToSet(Append(q, x)) = ToSet(q) \cup {x}
<1> DEFINE S == ToSet(q) \cup {x}
           r == Append(q, x)
<1>1. q \in Seq(S) /\ x \in S
  BY DEF IsSeq
<1> HIDE DEF S
<1>2. /\ r \in Seq(S) /\ Len(r) = Len(q) + 1 /\ r[Len(q) + 1] = x
      /\ \A i \in 1..Len(q) : r[i] = q[i]
  BY <1>1
<1> HIDE DEF r
<1>3. IsSeq(r) /\ DOMAIN r = 1..Len(r)
  BY <1>2, SeqIs
<1>4. Len(q) \in Nat /\ DOMAIN q = 1..Len(q)
  BY SeqHas
<1>5. DOMAIN r = DOMAIN q \cup {Len(q) + 1}
  BY <1>2, <1>3, <1>4
<1>6. ToSet(r) = ToSet(q) \cup {x}
  BY <1>2, <1>4, <1>5 DEF ToSet
<1> QED BY <1>2, <1>3, <1>6 DEF r

\* Numbered events ascend.
LEMMA NumberedAscends ==
  ASSUME NEW events, Numbered(events)
  PROVE  Ascending(events)
<1>1. Len(events) \in Nat /\ DOMAIN events = 1..Len(events)
  BY SeqHas DEF Numbered
<1>2. ASSUME NEW i \in 1..Len(events) - 1 PROVE events[i].sequence < events[i + 1].sequence
  <2>1. i \in DOMAIN events /\ i + 1 \in DOMAIN events /\ i < i + 1
    BY <1>1
  <2> QED BY <2>1 DEF Numbered
<1> QED BY <1>2 DEF Ascending

\* An event with a greater number follows.
LEMMA AscendsFurther ==
  ASSUME NEW events, IsSeq(events), Ascending(events), NEW event, Appendable(events, event)
  PROVE  Ascending(Append(events, event))
<1> DEFINE r == Append(events, event)
<1>1. /\ Len(r) = Len(events) + 1 /\ r[Len(events) + 1] = event
      /\ \A i \in 1..Len(events) : r[i] = events[i]
  BY PutLast
<1>2. PICK n \in Nat : n = Len(events)
  BY SeqHas
<1> HIDE DEF r
<1>3. Len(r) = n + 1 /\ r[n + 1] = event /\ \A i \in 1..n : r[i] = events[i]
  BY <1>1, <1>2
<1>4. n # 0 => events[n].sequence < event.sequence
  BY <1>2, None DEF Appendable
<1>5. \A i \in 1..n - 1 : events[i].sequence < events[i + 1].sequence
  BY <1>2 DEF Ascending
<1>6. ASSUME NEW i \in 1..n PROVE r[i].sequence < r[i + 1].sequence
  <2>1. CASE i = n
    BY <2>1, <1>3, <1>4
  <2>2. CASE i # n
    <3>1. i \in 1..n - 1 /\ i + 1 \in 1..n
      BY <2>2
    <3>2. r[i] = events[i] /\ r[i + 1] = events[i + 1]
      BY <3>1, <1>3
    <3> QED BY <3>1, <3>2, <1>5
  <2> QED BY <2>1, <2>2
<1>7. Len(r) - 1 = n
  BY <1>3
<1>8. Ascending(r)
  BY <1>6, <1>7 DEF Ascending
<1> QED BY <1>8 DEF r

\* The next event of a thread has a number of its own.
LEMMA NextNumbered ==
  ASSUME NEW events, Numbered(events), NEW event,
         event.sequence = IF events = <<>> THEN 1 ELSE events[Len(events)].sequence + 1
  PROVE  /\ Numbered(Append(events, event)) /\ ToSet(Append(events, event)) = ToSet(events) \cup {event}
         /\ \A e \in ToSet(events) : e.sequence # event.sequence
<1> DEFINE r == Append(events, event)
           n == Len(events)
<1>0. IsSeq(events)
  BY DEF Numbered
<1>1. n \in Nat /\ DOMAIN events = 1..n
  BY <1>0, SeqHas
<1>2. /\ IsSeq(r) /\ Len(r) = n + 1 /\ r[n + 1] = event /\ (\A i \in 1..n : r[i] = events[i])
      /\ ToSet(r) = ToSet(events) \cup {event}
  BY <1>0, PutLast
<1>3. DOMAIN r = 1..n + 1
  BY <1>2, SeqHas
<1> HIDE DEF r, n
<1>4. event.sequence \in Nat /\ \A i \in 1..n : events[i].sequence < event.sequence
  <2>1. CASE n = 0
    <3>1. events = <<>>
      BY <2>1, <1>0 DEF n, IsSeq
    <3> QED BY <3>1, <2>1
  <2>2. CASE n # 0
    <3>1. events # <<>> /\ n \in 1..n
      BY <2>2, <1>1, None DEF n
    <3>2. event.sequence = events[n].sequence + 1 /\ events[n].sequence \in Nat
      BY <3>1, <1>1 DEF Numbered, n
    <3>3. ASSUME NEW i \in 1..n PROVE events[i].sequence < event.sequence
      <4>1. CASE i = n
        BY <4>1, <3>2
      <4>2. CASE i # n
        <5>1. i < n
          BY <4>2, <1>1
        <5>2. events[i].sequence < events[n].sequence /\ events[i].sequence \in Nat
          BY <5>1, <3>1, <1>1 DEF Numbered
        <5> QED BY <5>2, <3>2
      <4> QED BY <4>1, <4>2
    <3> QED BY <3>2, <3>3
  <2> QED BY <2>1, <2>2
<1>5. \A i \in DOMAIN r : r[i].sequence \in Nat
  BY <1>1, <1>2, <1>3, <1>4 DEF Numbered
<1>6. ASSUME NEW i \in DOMAIN r, NEW j \in DOMAIN r, i < j PROVE r[i].sequence < r[j].sequence
  <2>1. i \in 1..n
    BY <1>1, <1>3, <1>6
  <2>2. CASE j = n + 1
    BY <2>1, <2>2, <1>2, <1>4
  <2>3. CASE j # n + 1
    <3>1. j \in 1..n
      BY <2>3, <1>1, <1>3
    <3> QED BY <3>1, <2>1, <1>1, <1>2, <1>6 DEF Numbered
  <2> QED BY <2>2, <2>3
<1>7. Numbered(r)
  BY <1>2, <1>5, <1>6 DEF Numbered
<1>8. ASSUME NEW e \in ToSet(events) PROVE e.sequence # event.sequence
  <2>1. PICK i \in 1..n : e = events[i]
    BY <1>1 DEF ToSet
  <2>2. events[i].sequence < event.sequence /\ events[i].sequence \in Nat
    BY <1>1, <1>4 DEF Numbered
  <2> QED BY <2>1, <2>2, <1>4
<1> QED BY <1>2, <1>7, <1>8 DEF r

\* The beginning of a history.
LEMMA PrefixNumbered ==
  ASSUME NEW events, Numbered(events), NEW n \in 0..Len(events)
  PROVE  Numbered(SubSeq(events, 1, n))
<1> DEFINE r == SubSeq(events, 1, n)
<1>1. events \in Seq(ToSet(events)) /\ Len(events) \in Nat /\ DOMAIN events = 1..Len(events)
  BY SeqHas DEF Numbered, IsSeq
<1>2. n \in Nat /\ n <= Len(events)
  BY <1>1
<1>3. r \in Seq(ToSet(events)) /\ Len(r) = n /\ \A i \in 1..n : r[i] = events[i]
  BY <1>1, <1>2
<1> HIDE DEF r
<1>4. IsSeq(r) /\ DOMAIN r = 1..n
  BY <1>3, SeqIs
<1>5. \A i \in 1..n : i \in DOMAIN events
  BY <1>1, <1>2
<1>6. Numbered(r)
  BY <1>3, <1>4, <1>5 DEF Numbered
<1> QED BY <1>6 DEF r

\* A view shows a history all of which was published.
LEMMA ShowsAll ==
  ASSUME NEW events, Numbered(events)
  PROVE  Shows(events, events, {})
<1>1. Ascending(events) /\ events \in Seq(ToSet(events))
  BY NumberedAscends DEF Numbered, IsSeq
<1>2. {e \in ToSet(events) : e.sequence \notin {}} = ToSet(events)
  OBVIOUS
<1> QED BY <1>1, <1>2 DEF Shows

\* ... and what follows.
LEMMA ShowsNext ==
  ASSUME NEW view, NEW events, NEW unseen, Shows(view, events, unseen), NEW event,
         NEW after, ToSet(after) = ToSet(events) \cup {event}, event.sequence \notin unseen,
         Appendable(view, event)
  PROVE  Shows(Append(view, event), after, unseen)
<1> DEFINE seen == {e \in ToSet(events) : e.sequence \notin unseen}
           more == {e \in ToSet(after) : e.sequence \notin unseen}
           r == Append(view, event)
<1>1. more = seen \cup {event}
  OBVIOUS
<1>2. view \in Seq(seen) /\ Ascending(view) /\ seen \subseteq ToSet(view)
  BY DEF Shows
<1> HIDE DEF seen, more
<1>3. IsSeq(view) /\ ToSet(view) \subseteq seen
  BY <1>2, SeqIs
<1>4. IsSeq(r) /\ ToSet(r) = ToSet(view) \cup {event} /\ Ascending(r)
  BY <1>2, <1>3, PutLast, AscendsFurther
<1> HIDE DEF r
<1>5. ToSet(r) = more
  BY <1>1, <1>2, <1>3, <1>4
<1>6. r \in Seq(more)
  BY <1>4, <1>5 DEF IsSeq
<1>7. Shows(r, after, unseen)
  BY <1>4, <1>5, <1>6 DEF Shows, more
<1> QED BY <1>7 DEF r

\* What nobody publishes changes no view.
LEMMA ShowsWithout ==
  ASSUME NEW view, NEW events, NEW unseen, Shows(view, events, unseen), NEW event, NEW after,
         ToSet(after) = ToSet(events) \cup {event}, \A e \in ToSet(events) : e.sequence # event.sequence
  PROVE  Shows(view, after, unseen \cup {event.sequence})
<1>1. {e \in ToSet(after) : e.sequence \notin unseen \cup {event.sequence}}
        = {e \in ToSet(events) : e.sequence \notin unseen}
  OBVIOUS
<1> QED BY <1>1 DEF Shows

-----------------------------------------------------------------------------
(* The invariant.                                                          *)

ControllerOps == {"lifecycle", "added", "updated", "removed", "status", "provider", "runner"}
ThreadOps == TurnOps \cup {"metadata", "event", "replaced", "checkpoint", "process"}

\* The operations on a state of a kind, and the states they are for.
OpFits(kind, op) ==
  \/ kind = "controller" /\ op.op \in ControllerOps
  \/ kind = "thread" /\ op.op \in ThreadOps
  \/ kind = "process" /\ op.op \in {"output", "status"}

StateFits(kind, s) ==
  /\ kind = "controller" => ControllerFits(s)
  /\ kind = "thread" => ThreadFits(s)

\* The runs of a process are numbered.
Runs == [status : {"running", "exited"}, tail : Seq(Characters), omitted : Nat, watched : BOOLEAN]
NumbersOf(p) == {n \in 1..MaxRuns : <<p, n>> \in DOMAIN runs}

RunsFit ==
  /\ DOMAIN runs \subseteq ProcessIds \X (1..MaxRuns)
  /\ \A x \in DOMAIN runs : runs[x] \in Runs
  /\ \A p \in ProcessIds : LastRun(p) \in 0..MaxRuns /\ NumbersOf(p) = 1..LastRun(p)

\* A history has ascending numbers, and what nobody saw is in it.
RowFits(row) ==
  /\ row = [title |-> row.title, shown |-> row.shown, events |-> row.events, unseen |-> row.unseen]
  /\ Numbered(row.events) /\ row.unseen \subseteq {e.sequence : e \in ToSet(row.events)}

StoreFits ==
  /\ DOMAIN stored \subseteq issued /\ DOMAIN saved \subseteq CheckpointIds
  /\ \A t \in DOMAIN stored : RowFits(stored[t])
  /\ \A k \in DOMAIN saved : Numbered(saved[k].events)

ThreadsFit == \A t \in DOMAIN threads : ThreadFits(threads[t]) /\ IsSeq(threads[t].checkpoints)

\* The view of a process is of its last run; of an only run that it shows to
\* have ended nothing more is heard.
ProcessStates == [status : {"running", "exited", "unavailable"}, tail : Seq(Characters), omitted : Nat]
ProcessesFit ==
  \A p \in DOMAIN processes :
    /\ p \in ProcessIds /\ processes[p] \in ProcessStates /\ LastRun(p) >= 1
    /\ processes[p].status # "running" /\ LastRun(p) = 1 => ~runs[<<p, 1>>].watched

\* A process that has a view has a status in its thread.
ProcessesListed == \A p \in DOMAIN processes : p \in DOMAIN threads[ProcessThread].processes

\* What the Controller holds, without its clients.
ServerFits ==
  /\ StoreFits /\ RunsFit /\ ControllerFits(controller) /\ ThreadsFit /\ ProcessesFit
  /\ ViewsAgree /\ (Running => ProcessesListed)

-----------------------------------------------------------------------------
(* What messages make of a state that fits.                                *)

\* An operation has one result at most, and it fits.
LEMMA OperationFits ==
  ASSUME NEW kind, NEW s, StateFits(kind, s), NEW op, OpFits(kind, op), NEW r \in StateNext(kind, s, op)
  PROVE  StateFits(kind, r) /\ \A q \in StateNext(kind, s, op) : q = r
<1>1. CASE kind = "controller"
  <2>1. StateNext(kind, s, op) = ControllerNext(s, op)
    BY <1>1 DEF StateNext
  <2>2. ControllerFits(s) /\ op.op \in ControllerOps
    BY <1>1 DEF StateFits, OpFits
  <2>3. ControllerFits(r) /\ \A q \in ControllerNext(s, op) : q = r
    <3>1. CASE op.op = "added"
      BY <3>1, <2>1, <2>2, AddedThread
    <3>2. CASE op.op = "updated"
      BY <3>2, <2>1, <2>2, UpdatedThread
    <3>3. CASE op.op = "removed"
      BY <3>3, <2>1, <2>2, RemovedThread
    <3>4. CASE op.op = "status"
      BY <3>4, <2>1, <2>2, ShownStatus
    <3>5. CASE op.op \in {"lifecycle", "provider", "runner"}
      BY <3>5, <2>1, <2>2, ShownElse
    <3> QED BY <3>1, <3>2, <3>3, <3>4, <3>5, <2>2 DEF ControllerOps
  <2> QED BY <1>1, <2>1, <2>3 DEF StateFits
<1>2. CASE kind = "thread"
  <2>1. StateNext(kind, s, op) = ThreadNext(s, op)
    BY <1>2 DEF StateNext
  <2>2. ThreadFits(s) /\ op.op \in ThreadOps
    BY <1>2 DEF StateFits, OpFits
  <2>3. ThreadFits(r) /\ \A q \in ThreadNext(s, op) : q = r
    <3>1. CASE op.op \in TurnOps
      BY <3>1, <2>1, <2>2, TurnOperation
    <3>2. CASE op.op \in {"metadata", "event", "replaced", "checkpoint", "process"}
      BY <3>2, <2>1, <2>2, ThreadOperation
    <3> QED BY <3>1, <3>2, <2>2 DEF ThreadOps
  <2> QED BY <1>2, <2>1, <2>3 DEF StateFits
<1>3. CASE kind = "process"
  <2>1. StateNext(kind, s, op) = ProcessNext(s, op)
    BY <1>3 DEF StateNext
  <2>2. op.op = "output" \/ op.op = "status"
    BY <1>3 DEF OpFits
  <2>3. \A q \in ProcessNext(s, op) : q = r
    BY <2>1, <2>2 DEF ProcessNext, When
  <2> QED BY <1>3, <2>1, <2>3 DEF StateFits
<1> QED BY <1>1, <1>2, <1>3 DEF OpFits

\* The operations of a list.
LEMMA OperationsAre ==
  ASSUME NEW ops, IsSeq(ops)
  PROVE  /\ IsSeq(Operations(ops)) /\ Len(Operations(ops)) = Len(ops)
         /\ DOMAIN Operations(ops) = DOMAIN ops
         /\ \A i \in DOMAIN ops : Operations(ops)[i] = Operation(ops[i])
<1>1. Len(ops) \in Nat /\ DOMAIN ops = 1..Len(ops)
  BY SeqHas
<1> DEFINE q == Operations(ops)
           S == {Operation(ops[i]) : i \in DOMAIN ops}
<1>2. q \in [1..Len(ops) -> S]
  BY <1>1 DEF Operations
<1>3. q \in Seq(S)
  BY <1>1, <1>2
<1>4. DOMAIN q = DOMAIN ops /\ \A i \in DOMAIN ops : q[i] = Operation(ops[i])
  BY DEF Operations
<1> HIDE DEF q, S
<1>5. IsSeq(q) /\ Len(q) \in Nat /\ DOMAIN q = 1..Len(q)
  BY <1>3, SeqIs
<1>6. Len(q) = Len(ops)
  BY <1>1, <1>3, <1>2
<1> QED BY <1>4, <1>5, <1>6 DEF q

\* What an operation makes of the states of a kind.
Each(kind, states, op) == UNION {StateNext(kind, s, op) : s \in states}

\* No operation applied.
LEMMA AppliedNone ==
  ASSUME NEW kind, NEW s
  PROVE  Applied(kind, s, <<>>) = {s}
<1>1. Operations(<<>>) = <<>>
  BY DEF Operations
<1> QED BY <1>1, ReceivedNone DEF Applied

\* One operation received, by some states.
LEMMA ReceivedOperation ==
  ASSUME NEW kind, NEW states, NEW op
  PROVE  Received(kind, states, Operations(<<op>>)) = Each(kind, states, op)
<1>1. Operations(<<op>>) = <<Operation(op)>>
  BY DEF Operations
<1>2. Heard(kind, states, Operation(op)) = Each(kind, states, op)
  BY DEF Heard, Operation, Each
<1> QED BY <1>1, <1>2, ReceivedOne

\* One operation applied.
LEMMA AppliedOne ==
  ASSUME NEW kind, NEW s, NEW op
  PROVE  Applied(kind, s, <<op>>) = StateNext(kind, s, op)
<1>1. Each(kind, {s}, op) = StateNext(kind, s, op)
  BY DEF Each
<1> QED BY <1>1, ReceivedOperation DEF Applied

\* An operation applied after others.
LEMMA AppliedThen ==
  ASSUME NEW kind, NEW s, NEW ops, NEW op, IsSeq(ops)
  PROVE  Applied(kind, s, ops \o <<op>>) = Each(kind, Applied(kind, s, ops), op)
<1>1. IsSeq(<<op>>) /\ Len(<<op>>) = 1 /\ <<op>>[1] = op /\ DOMAIN <<op>> = 1..1
  BY Single, SeqHas
<1>2. /\ IsSeq(ops \o <<op>>) /\ Len(ops \o <<op>>) = Len(ops) + 1
      /\ \A i \in 1..Len(ops) : (ops \o <<op>>)[i] = ops[i]
      /\ (ops \o <<op>>)[Len(ops) + 1] = op
  BY <1>1, Concatenated
<1> DEFINE a == Operations(ops)
           b == Operations(<<op>>)
           all == Operations(ops \o <<op>>)
<1>3. Len(ops) \in Nat /\ DOMAIN ops = 1..Len(ops) /\ DOMAIN (ops \o <<op>>) = 1..Len(ops) + 1
  BY <1>2, SeqHas
<1>4. /\ IsSeq(a) /\ Len(a) = Len(ops) /\ \A i \in 1..Len(ops) : a[i] = Operation(ops[i])
      /\ IsSeq(b) /\ Len(b) = 1 /\ b[1] = Operation(op)
      /\ IsSeq(all) /\ Len(all) = Len(ops) + 1
      /\ \A i \in 1..Len(ops) + 1 : all[i] = Operation((ops \o <<op>>)[i])
  <2>1. IsSeq(a) /\ Len(a) = Len(ops) /\ \A i \in 1..Len(ops) : a[i] = Operation(ops[i])
    BY <1>3, OperationsAre
  <2>2. IsSeq(b) /\ Len(b) = 1 /\ b[1] = Operation(op)
    BY <1>1, OperationsAre
  <2>3. /\ IsSeq(all) /\ Len(all) = Len(ops) + 1
        /\ \A i \in 1..Len(ops) + 1 : all[i] = Operation((ops \o <<op>>)[i])
    BY <1>2, <1>3, OperationsAre
  <2> QED BY <2>1, <2>2, <2>3
<1> HIDE DEF a, b, all
<1>5. /\ IsSeq(a \o b) /\ Len(a \o b) = Len(ops) + 1
      /\ \A i \in 1..Len(ops) : (a \o b)[i] = a[i]
      /\ (a \o b)[Len(ops) + 1] = b[1]
  <2>0. IsSeq(a) /\ IsSeq(b)
    BY <1>4
  <2>1. /\ IsSeq(a \o b) /\ Len(a \o b) = Len(a) + Len(b)
        /\ \A i \in 1..Len(a) : (a \o b)[i] = a[i]
        /\ \A i \in 1..Len(b) : (a \o b)[Len(a) + i] = b[i]
    BY <2>0, Concatenated
  <2>2. 1 \in 1..Len(b)
    BY <1>4
  <2>3. Len(a) = Len(ops) /\ Len(b) = 1
    BY <1>4
  <2> QED BY <2>1, <2>2, <2>3
<1>6. \A i \in 1..Len(ops) + 1 : all[i] = (a \o b)[i]
  <2> SUFFICES ASSUME NEW i \in 1..Len(ops) + 1 PROVE all[i] = (a \o b)[i]
    OBVIOUS
  <2>1. CASE i = Len(ops) + 1
    BY <2>1, <1>2, <1>3, <1>4, <1>5
  <2>2. CASE i # Len(ops) + 1
    <3>1. i \in 1..Len(ops)
      BY <2>2, <1>3
    <3> QED BY <3>1, <1>2, <1>4, <1>5
  <2> QED BY <2>1, <2>2
<1>7. all = a \o b
  BY <1>4, <1>5, <1>6 DEF IsSeq
<1>8. Received(kind, {s}, all) = Received(kind, Received(kind, {s}, a), b)
  BY <1>4, <1>7, ReceivedAfter
<1> QED BY <1>8, ReceivedOperation DEF Applied, a, b, all

-----------------------------------------------------------------------------
(* What a process shows.                                                   *)

\* The greatest overlap is an end of the one and a beginning of the other.
LEMMA OverlapIs ==
  ASSUME NEW S, NEW a \in Seq(S), NEW b \in Seq(S)
  PROVE  /\ Overlap(a, b) \in 0..Len(a) /\ Overlap(a, b) <= Len(b)
         /\ SubSeq(a, Len(a) - Overlap(a, b) + 1, Len(a)) = SubSeq(b, 1, Overlap(a, b))
<1> DEFINE shorter == IF Len(a) < Len(b) THEN Len(a) ELSE Len(b)
           Fits(k) == SubSeq(a, Len(a) - k + 1, Len(a)) = SubSeq(b, 1, k)
           Back == {m \in 0..shorter : Fits(shorter - m)}
<1>1. shorter \in Nat /\ shorter <= Len(a) /\ shorter <= Len(b)
  OBVIOUS
<1>2. Fits(0)
  <2>1. SubSeq(a, Len(a) - 0 + 1, Len(a)) = <<>> /\ SubSeq(b, 1, 0) = <<>>
    OBVIOUS
  <2> QED BY <2>1
<1>o. Overlap(a, b) = CHOOSE n \in 0..shorter : Fits(n) /\ \A k \in n + 1..shorter : ~Fits(k)
  BY DEF Overlap
<1> HIDE DEF Fits, shorter
<1>3. shorter \in Back /\ Back \in SUBSET Nat
  <2>1. shorter - shorter = 0 /\ shorter \in 0..shorter
    BY <1>1
  <2> QED BY <2>1, <1>1, <1>2
<1>4. PICK l \in Back : l \in Nat /\ \A m \in Back : l <= m
  BY <1>3, LeastNatural
<1>5. \E n \in 0..shorter : Fits(n) /\ \A k \in n + 1..shorter : ~Fits(k)
  <2>1. l \in 0..shorter /\ Fits(shorter - l) /\ shorter - l \in 0..shorter
    BY <1>1, <1>4
  <2>2. ASSUME NEW k \in (shorter - l) + 1..shorter, Fits(k) PROVE FALSE
    <3>1. shorter - k \in 0..shorter /\ shorter - (shorter - k) = k /\ shorter - k < l
      BY <1>1, <2>1
    <3>2. shorter - k \in Back
      BY <3>1, <2>2
    <3> QED BY <3>1, <3>2, <1>1, <1>4
  <2> QED BY <2>1, <2>2
<1>6. Overlap(a, b) \in 0..shorter /\ Fits(Overlap(a, b))
  BY <1>5, <1>o
<1> QED BY <1>1, <1>6 DEF Fits

\* A text whose end is replaced by what follows an overlap is the other text.
LEMMA OverlapContinued ==
  ASSUME NEW S, NEW a \in Seq(S), NEW b \in Seq(S), NEW n \in 0..Len(a), n <= Len(b),
         SubSeq(a, Len(a) - n + 1, Len(a)) = SubSeq(b, 1, n)
  PROVE  SubSeq(a, Len(a) - n + 1, Len(a)) \o SubSeq(b, n + 1, Len(b)) = b
<1> DEFINE c == SubSeq(b, 1, n)
           d == SubSeq(b, n + 1, Len(b))
<1>1. /\ c \in Seq(S) /\ Len(c) = n /\ \A i \in 1..n : c[i] = b[i]
      /\ d \in Seq(S) /\ Len(d) = Len(b) - n /\ \A i \in 1..Len(b) - n : d[i] = b[n + i]
  OBVIOUS
<1> HIDE DEF c, d
<1>2. /\ c \o d \in Seq(S) /\ Len(c \o d) = Len(b)
      /\ \A i \in 1..n : (c \o d)[i] = c[i]
      /\ \A i \in 1..Len(b) - n : (c \o d)[n + i] = d[i]
  BY <1>1
<1>3. \A i \in 1..Len(b) : (c \o d)[i] = b[i]
  <2> SUFFICES ASSUME NEW i \in 1..Len(b) PROVE (c \o d)[i] = b[i]
    OBVIOUS
  <2>1. CASE i <= n
    BY <2>1, <1>1, <1>2
  <2>2. CASE ~(i <= n)
    <3>1. i - n \in 1..Len(b) - n /\ n + (i - n) = i
      BY <2>2
    <3>2. (c \o d)[n + (i - n)] = d[i - n]
      BY <3>1, <1>2
    <3>3. d[i - n] = b[n + (i - n)]
      BY <3>1, <1>1
    <3> QED BY <3>1, <3>2, <3>3
  <2> QED BY <2>1, <2>2
<1>4. c \o d = b
  <2>1. b = [i \in 1..Len(b) |-> b[i]]
    OBVIOUS
  <2> DEFINE e == c \o d
  <2>2. e \in Seq(S) /\ Len(e) = Len(b) /\ \A i \in 1..Len(b) : e[i] = b[i]
    BY <1>2, <1>3
  <2> HIDE DEF e
  <2>3. e = [i \in 1..Len(b) |-> e[i]]
    BY <2>2
  <2>4. e = b
    BY <2>1, <2>2, <2>3
  <2> QED BY <2>4 DEF e
<1> QED BY <1>4 DEF c, d

\* What the watcher reports of a process.
Reports(r) == r.tail \in Seq(Characters) /\ r.omitted \in Nat

\* The news of its output make the view show it, unless the view has left out more.
LEMMA OutputShown ==
  ASSUME NEW s \in ProcessStates, NEW r, Reports(r), NEW op,
         op = [op |-> "output",
               content |-> SubSeq(r.tail, Overlap(s.tail, r.tail) + 1, Len(r.tail)),
               truncate |-> Len(s.tail) - Overlap(s.tail, r.tail), omitted |-> r.omitted]
  PROVE  ProcessNext(s, op) =
           When(s.omitted <= r.omitted, [status |-> s.status, tail |-> r.tail, omitted |-> r.omitted])
<1> DEFINE a == s.tail
           b == r.tail
           n == Overlap(a, b)
<1>1. a \in Seq(Characters) /\ b \in Seq(Characters)
  BY DEF Reports, ProcessStates
<1>2. /\ n \in 0..Len(a) /\ n <= Len(b)
      /\ SubSeq(a, Len(a) - n + 1, Len(a)) = SubSeq(b, 1, n)
  BY <1>1, OverlapIs
<1>3. ProcessNext(s, op) =
        When(Len(a) - n <= Len(a) /\ s.omitted <= r.omitted,
             [s EXCEPT !.tail = SubSeq(@, op.truncate + 1, Len(@)) \o op.content,
                       !.omitted = op.omitted])
  BY DEF ProcessNext
<1>4. Len(a) - n <= Len(a) /\ Len(a) \in Nat
  BY <1>1, <1>2
<1>5. op.truncate = Len(a) - n /\ op.content = SubSeq(b, n + 1, Len(b)) /\ op.omitted = r.omitted
  OBVIOUS
<1>6. [s EXCEPT !.tail = SubSeq(@, op.truncate + 1, Len(@)) \o op.content, !.omitted = op.omitted]
        = [status |-> s.status, tail |-> SubSeq(a, op.truncate + 1, Len(a)) \o op.content,
           omitted |-> op.omitted]
  <2>1. s = [status |-> s.status, tail |-> s.tail, omitted |-> s.omitted]
    BY DEF ProcessStates
  <2>2. ASSUME NEW t, NEW o
        PROVE  [s EXCEPT !.tail = t, !.omitted = o] = [status |-> s.status, tail |-> t, omitted |-> o]
    <3>1. PICK e : e = [s EXCEPT !.tail = t, !.omitted = o]
      OBVIOUS
    <3>2. /\ e = [status |-> e.status, tail |-> e.tail, omitted |-> e.omitted]
          /\ e.status = s.status /\ e.tail = t /\ e.omitted = o
      BY <2>1, <3>1
    <3> QED BY <3>1, <3>2, Zenon
  <2> QED BY <2>2, Zenon
<1> HIDE DEF n, a, b
<1>7. SubSeq(a, Len(a) - n + 1, Len(a)) \o SubSeq(b, n + 1, Len(b)) = b
  BY <1>1, <1>2, OverlapContinued
<1>8. [s EXCEPT !.tail = SubSeq(@, op.truncate + 1, Len(@)) \o op.content, !.omitted = op.omitted]
        = [status |-> s.status, tail |-> b, omitted |-> r.omitted]
  BY <1>5, <1>6, <1>7
<1> QED BY <1>3, <1>4, <1>8 DEF b

\* The news of a process make its view show it; they are refused by a view that
\* has left out more or that shows the end.
LEMMA NewsShown ==
  ASSUME NEW s \in ProcessStates, NEW r, Reports(r)
  PROVE  LET results == Applied("process", s, OutputNews(s, r) \o StatusNews(s, r)) IN
         /\ \A q \in results : q = [status |-> r.status, tail |-> r.tail, omitted |-> r.omitted]
         /\ results = {} => s.omitted > 0 \/ s.status # "running"
<1> DEFINE out == [op |-> "output",
                   content |-> SubSeq(r.tail, Overlap(s.tail, r.tail) + 1, Len(r.tail)),
                   truncate |-> Len(s.tail) - Overlap(s.tail, r.tail), omitted |-> r.omitted]
           end == [op |-> "status", status |-> r.status]
           shown == [status |-> s.status, tail |-> r.tail, omitted |-> r.omitted]
           results == Applied("process", s, OutputNews(s, r) \o StatusNews(s, r))
<1>1. /\ s.omitted \in Nat /\ r.omitted \in Nat
      /\ s = [status |-> s.status, tail |-> s.tail, omitted |-> s.omitted]
  BY DEF ProcessStates, Reports
<1>2. ProcessNext(s, out) = When(s.omitted <= r.omitted, shown)
  BY OutputShown
<1>3. ASSUME NEW x, x = [status |-> x.status, tail |-> x.tail, omitted |-> x.omitted]
      PROVE  ProcessNext(x, end) =
               When(x.status = "running" \/ r.status # "running",
                    [status |-> r.status, tail |-> x.tail, omitted |-> x.omitted])
  BY <1>3 DEF ProcessNext
<1>4. OutputNews(s, r) = IF s.tail = r.tail /\ s.omitted = r.omitted THEN <<>> ELSE <<out>>
  BY DEF OutputNews
<1>5. StatusNews(s, r) = IF s.status = r.status THEN <<>> ELSE <<end>>
  BY DEF StatusNews
<1>6. shown = [status |-> shown.status, tail |-> shown.tail, omitted |-> shown.omitted]
      /\ shown.status = s.status /\ shown.tail = r.tail /\ shown.omitted = r.omitted
  OBVIOUS
<1> HIDE DEF out, end, shown
<1>7. \A x, op : StateNext("process", x, op) = ProcessNext(x, op)
  BY DEF StateNext
<1>a. CASE s.tail = r.tail /\ s.omitted = r.omitted /\ s.status = r.status
  <2>1. OutputNews(s, r) \o StatusNews(s, r) = <<>>
    BY <1>a, <1>4, <1>5
  <2>2. results = {s}
    BY <2>1, AppliedNone
  <2> QED BY <2>2, <1>1, <1>a
<1>b. CASE s.tail = r.tail /\ s.omitted = r.omitted /\ s.status # r.status
  <2>1. OutputNews(s, r) \o StatusNews(s, r) = <<end>>
    BY <1>b, <1>4, <1>5
  <2>2. results = When(s.status = "running" \/ r.status # "running",
                       [status |-> r.status, tail |-> s.tail, omitted |-> s.omitted])
    BY <2>1, <1>1, <1>3, <1>7, AppliedOne
  <2> QED BY <2>2, <1>b DEF When
<1>c. CASE ~(s.tail = r.tail /\ s.omitted = r.omitted) /\ s.status = r.status
  <2>1. OutputNews(s, r) \o StatusNews(s, r) = <<out>>
    BY <1>c, <1>4, <1>5
  <2>2. results = When(s.omitted <= r.omitted, shown)
    BY <2>1, <1>2, <1>7, AppliedOne
  <2>3. shown = [status |-> r.status, tail |-> r.tail, omitted |-> r.omitted]
    BY <1>c DEF shown
  <2>4. \A q \in results : q = shown
    BY <2>2 DEF When
  <2>5. results = {} => s.omitted > 0
    BY <2>2, <1>1 DEF When
  <2> QED BY <2>3, <2>4, <2>5
<1>d. CASE ~(s.tail = r.tail /\ s.omitted = r.omitted) /\ s.status # r.status
  <2>1. OutputNews(s, r) \o StatusNews(s, r) = <<out>> \o <<end>>
    BY <1>d, <1>4, <1>5
  <2>2. results = Each("process", Applied("process", s, <<out>>), end)
    BY <2>1, Single, AppliedThen
  <2>3. Applied("process", s, <<out>>) = When(s.omitted <= r.omitted, shown)
    BY <1>2, <1>7, AppliedOne
  <2>4. CASE s.omitted <= r.omitted
    <3>1. results = ProcessNext(shown, end)
      BY <2>2, <2>3, <2>4, <1>7 DEF Each, When
    <3>2. results = When(s.status = "running" \/ r.status # "running",
                         [status |-> r.status, tail |-> r.tail, omitted |-> r.omitted])
      BY <3>1, <1>3, <1>6
    <3> QED BY <3>2, <1>d DEF When
  <2>5. CASE ~(s.omitted <= r.omitted)
    <3>1. results = {}
      BY <2>2, <2>3, <2>5 DEF Each, When
    <3> QED BY <3>1, <2>5, <1>1
  <2> QED BY <2>4, <2>5
<1> QED BY <1>a, <1>b, <1>c, <1>d


-----------------------------------------------------------------------------
(* What the Controller holds: the parts that a step leaves alone.          *)

\* As many runs of a process as there were.
LEMMA SameNumbers ==
  ASSUME NEW p, NumbersOf(p)' = NumbersOf(p)
  PROVE  LastRun(p)' = LastRun(p)
  BY DEF NumbersOf, LastRun

\* A change of the runs there are.
LEMMA RunsChanged ==
  ASSUME RunsFit, DOMAIN runs' = DOMAIN runs, \A x \in DOMAIN runs : runs'[x] \in Runs
  PROVE  RunsFit' /\ \A p : LastRun(p)' = LastRun(p)
<1>1. ASSUME NEW p PROVE NumbersOf(p)' = NumbersOf(p) /\ LastRun(p)' = LastRun(p)
  <2>1. NumbersOf(p)' = NumbersOf(p)
    BY DEF NumbersOf
  <2> QED BY <2>1, SameNumbers
<1>2. \A p \in ProcessIds : LastRun(p)' \in 0..MaxRuns /\ NumbersOf(p)' = 1..LastRun(p)'
  BY <1>1 DEF RunsFit
<1>3. (DOMAIN runs \subseteq ProcessIds \X (1..MaxRuns))' /\ \A x \in DOMAIN runs' : runs'[x] \in Runs
  BY DEF RunsFit
<1>4. RunsFit'
  BY <1>2, <1>3 DEF RunsFit, Runs
<1> QED BY <1>1, <1>4

\* The next run of a process.
LEMMA RunAdded ==
  ASSUME RunsFit, NEW p \in ProcessIds, LastRun(p) < MaxRuns, NEW v \in Runs,
         runs' = Upsert(runs, <<p, LastRun(p) + 1>>, v)
  PROVE  /\ RunsFit' /\ LastRun(p)' = LastRun(p) + 1
         /\ \A q \in ProcessIds : q # p => LastRun(q)' = LastRun(q)
         /\ runs'[<<p, LastRun(p) + 1>>] = v
         /\ \A q, n : <<q, n>> \in DOMAIN runs /\ q # p => runs'[<<q, n>>] = runs[<<q, n>>]
<1> DEFINE n == LastRun(p)
           x == <<p, n + 1>>
<1>1. /\ n \in Nat /\ NumbersOf(p) = 1..n /\ MaxRuns \in Nat
      /\ DOMAIN runs \subseteq ProcessIds \X (1..MaxRuns) /\ \A y \in DOMAIN runs : runs[y] \in Runs
      /\ \A q \in ProcessIds : LastRun(q) \in 0..MaxRuns /\ NumbersOf(q) = 1..LastRun(q)
  BY ConstantsAssumption DEF RunsFit
<1>2. /\ DOMAIN runs' = DOMAIN runs \cup {x} /\ runs'[x] = v
      /\ \A y \in DOMAIN runs : y # x => runs'[y] = runs[y]
  <2>1. runs' = Upsert(runs, x, v)
    OBVIOUS
  <2> HIDE DEF x, n
  <2> QED BY <2>1 DEF Upsert
<1>n. PICK m : m = n
  OBVIOUS
<1>3. NumbersOf(p)' = 1..(m + 1)
  <2>1. NumbersOf(p)' = {i \in 1..MaxRuns : <<p, i>> \in DOMAIN runs \cup {<<p, m + 1>>}}
    BY <1>2, <1>n DEF NumbersOf
  <2>2. {i \in 1..MaxRuns : <<p, i>> \in DOMAIN runs} = 1..m
    BY <1>1, <1>n DEF NumbersOf
  <2>3. m \in Nat /\ m + 1 \in 1..MaxRuns
    BY <1>1, <1>n
  <2>4. NumbersOf(p)' = 1..m \cup {m + 1}
    BY <2>1, <2>2, <2>3
  <2> QED BY <2>3, <2>4
<1>4. LastRun(p)' = m + 1
  <2>1. LastRun(p)' = Cardinality(NumbersOf(p)')
    BY DEF LastRun, NumbersOf
  <2>2. Cardinality(1..(m + 1)) = m + 1
    BY <1>1, <1>n, FS_Interval
  <2> QED BY <1>3, <2>1, <2>2
<1>5. ASSUME NEW q \in ProcessIds, q # p PROVE NumbersOf(q)' = NumbersOf(q) /\ LastRun(q)' = LastRun(q)
  <2>1. NumbersOf(q)' = NumbersOf(q)
    BY <1>2, <1>5 DEF NumbersOf
  <2> QED BY <2>1, SameNumbers
<1>6. \A q \in ProcessIds : LastRun(q)' \in 0..MaxRuns /\ NumbersOf(q)' = 1..LastRun(q)'
  <2> SUFFICES ASSUME NEW q \in ProcessIds PROVE LastRun(q)' \in 0..MaxRuns /\ NumbersOf(q)' = 1..LastRun(q)'
    OBVIOUS
  <2>1. CASE q = p
    BY <2>1, <1>1, <1>3, <1>4, <1>n
  <2>2. CASE q # p
    BY <2>2, <1>1, <1>5
  <2> QED BY <2>1, <2>2
<1>7. x \in ProcessIds \X (1..MaxRuns)
  BY <1>1
<1>8. DOMAIN runs' \subseteq ProcessIds \X (1..MaxRuns) /\ \A y \in DOMAIN runs' : runs'[y] \in Runs
  BY <1>1, <1>2, <1>7
<1>9. RunsFit'
  BY <1>6, <1>8 DEF RunsFit, Runs
<1>10. \A q, k : <<q, k>> \in DOMAIN runs /\ q # p => runs'[<<q, k>>] = runs[<<q, k>>]
  BY <1>2
<1> QED BY <1>2, <1>4, <1>5, <1>9, <1>10, <1>n

\* The list of threads, when no title and no status changes.
LEMMA ListKept ==
  ASSUME ListAgrees, controller'.threads = controller.threads,
         controller'.statuses = controller.statuses, DOMAIN stored' = DOMAIN stored,
         \A t \in DOMAIN stored : stored'[t].shown = stored[t].shown,
         \A t \in DOMAIN stored : Loaded(t)' <=> Loaded(t),
         \A t \in DOMAIN stored : Loaded(t) => AgentStatus(threads'[t]) = AgentStatus(threads[t])
  PROVE  ListAgrees'
<1>1. \A t \in DOMAIN stored : Shown(t)' = Shown(t)
  BY DEF Shown
<1>2. DOMAIN controller'.statuses = DOMAIN stored'
  BY DEF ListAgrees
<1>3. ToSet(controller'.threads) = {Shown(t)' : t \in DOMAIN stored'}
  BY <1>1 DEF ListAgrees
<1>4. \A t \in DOMAIN stored' :
        controller'.statuses[t] = IF Loaded(t)' THEN AgentStatus(threads'[t]) ELSE "idle"
  BY DEF ListAgrees
<1> QED BY <1>2, <1>3, <1>4 DEF ListAgrees

\* What is known of a process, without the records.
ProcessAgrees(p) ==
  /\ Loaded(ProcessThread) /\ threads[ProcessThread].processes[p] = processes[p].status
  /\ processes[p].status = "running" =>
       runs[<<p, LastRun(p)>>].watched \/ processes[p].omitted > 0 \/ LastRun(p) > 1
  /\ processes[p].status = "exited" /\ LastRun(p) = 1 => processes[p].tail = runs[<<p, 1>>].tail

\* The processes agree when each does and has a view if it has a record.
LEMMA ProcessesAgreeIs ==
  ProcessesAgree <=> records \subseteq DOMAIN processes /\ \A p \in DOMAIN processes : ProcessAgrees(p)
  BY DEF ProcessesAgree, ProcessAgrees

\* The processes, when a step changes neither them nor what their thread shows of them.
LEMMA ProcessesKept ==
  ASSUME ProcessesAgree /\ ProcessesListed, UNCHANGED <<records, runs, processes>>,
         Loaded(ProcessThread) => Loaded(ProcessThread)',
         Loaded(ProcessThread) => threads'[ProcessThread].processes = threads[ProcessThread].processes
  PROVE  ProcessesAgree' /\ ProcessesListed'
<1>1. \A p : LastRun(p)' = LastRun(p)
  BY DEF LastRun
<1>2. ASSUME NEW p \in DOMAIN processes PROVE ProcessAgrees(p)'
  BY <1>1, <1>2, ProcessesAgreeIs DEF ProcessAgrees
<1>3. ProcessesAgree'
  BY <1>2, ProcessesAgreeIs DEF ProcessesAgree, ProcessAgrees
<1>4. ProcessesListed'
  <2>1. CASE Loaded(ProcessThread)
    BY <2>1 DEF ProcessesListed
  <2>2. CASE ~Loaded(ProcessThread)
    BY <2>2 DEF ProcessesListed, ProcessesAgree
  <2> QED BY <2>1, <2>2
<1> QED BY <1>3, <1>4

\* ... and what fits.
LEMMA ProcessesFitKept ==
  ASSUME ProcessesFit, UNCHANGED <<runs, processes>>
  PROVE  ProcessesFit'
<1>1. \A p : LastRun(p)' = LastRun(p)
  BY DEF LastRun
<1> QED BY <1>1 DEF ProcessesFit, ProcessStates

\* The runs and the store, when they do not change.
LEMMA RunsKept ==
  ASSUME RunsFit, UNCHANGED runs
  PROVE  RunsFit'
  BY RunsChanged DEF RunsFit

\* What the Controller holds when a step leaves the list, the processes and what
\* is stored but for its events alone.
LEMMA ServerKept ==
  ASSUME ServerFits, StoreFits', ControllerFits(controller)', ThreadsFit',
         UNCHANGED <<runs, processes>>, Running' => Running,
         Running' => ListAgrees' /\ ThreadsAgree' /\ ProcessesAgree' /\ ProcessesListed'
  PROVE  ServerFits'
<1>1. RunsFit' /\ ProcessesFit'
  BY RunsKept, ProcessesFitKept DEF ServerFits
<1>2. ViewsAgree'
  BY DEF ViewsAgree
<1> QED BY <1>1, <1>2 DEF ServerFits

-----------------------------------------------------------------------------
(* Steps that change one thread and the list.                              *)

\* What Running says of the views.
LEMMA Agreed ==
  ASSUME ServerFits, Running
  PROVE  ListAgrees /\ ThreadsAgree /\ ProcessesAgree /\ ProcessesListed
  BY DEF ServerFits, ViewsAgree

\* An operation on the view of the Controller that concerns no thread.
LEMMA ControllerApplied ==
  ASSUME ServerFits, NEW op, op.op \in {"provider", "runner"}, ApplyController(op), UNCHANGED world
  PROVE  ServerFits'
<1>1. Running /\ controller' \in ControllerNext(controller, op) /\ UNCHANGED <<threads, checkpoints, processes>>
  BY DEF ApplyController
<1>2. /\ ControllerFits(controller') /\ controller'.lifecycle = controller.lifecycle
      /\ controller'.threads = controller.threads /\ controller'.statuses = controller.statuses
  BY <1>1, ShownElse DEF ServerFits
<1>3. UNCHANGED <<stored, issued, saved, active, records, runs>>
  BY DEF world
<1>4. StoreFits' /\ ThreadsFit' /\ ControllerFits(controller)'
  BY <1>1, <1>2, <1>3 DEF ServerFits, StoreFits, ThreadsFit
<1>5. ListAgrees'
  <2>1. \A t : Loaded(t)' <=> Loaded(t)
    BY <1>1 DEF Loaded
  <2> QED BY <2>1, <1>1, <1>2, <1>3, Agreed, ListKept
<1>6. ThreadsAgree'
  <2>1. \A t : Shown(t)' = Shown(t)
    BY <1>3 DEF Shown
  <2> QED BY <2>1, <1>1, <1>3, Agreed DEF ThreadsAgree
<1>7. ProcessesAgree' /\ ProcessesListed'
  <2>1. Loaded(ProcessThread)' <=> Loaded(ProcessThread)
    BY <1>1 DEF Loaded
  <2> QED BY <2>1, <1>1, <1>3, Agreed, ProcessesKept
<1> QED BY <1>1, <1>3, <1>4, <1>5, <1>6, <1>7, ServerKept

\* What apply_thread makes of a thread and of the list.
ThreadApplied(t, op, s) ==
  /\ Running /\ t \in DOMAIN threads /\ t \in DOMAIN stored /\ s \in ThreadNext(threads[t], op)
  /\ threads' = [threads EXCEPT ![t] = s] /\ ThreadFits(s) /\ IsSeq(s.checkpoints)
  /\ ControllerFits(controller') /\ controller'.lifecycle = controller.lifecycle
  /\ controller'.threads = controller.threads
  /\ DOMAIN controller'.statuses = DOMAIN controller.statuses
  /\ controller'.statuses[t] = AgentStatus(s)
  /\ \A u \in DOMAIN controller.statuses : u # t => controller'.statuses[u] = controller.statuses[u]
  /\ UNCHANGED <<checkpoints, processes>>

\* The checkpoints of a thread stay a list.
LEMMA CheckpointsStay ==
  ASSUME NEW s, ThreadFits(s), IsSeq(s.checkpoints), NEW op, op.op \in ThreadOps, NEW r \in ThreadNext(s, op)
  PROVE  ThreadFits(r) /\ IsSeq(r.checkpoints)
<1>1. CASE op.op \in TurnOps
  BY <1>1, TurnOperation DEF SameBut
<1>2. CASE op.op = "checkpoint"
  <2>1. ThreadFits(r) /\ r.checkpoints = <<op.checkpoint>> \o s.checkpoints
    BY <1>2, ThreadOperation
  <2>2. IsSeq(<<op.checkpoint>> \o s.checkpoints)
    BY PutFirst
  <2> QED BY <2>1, <2>2
<1>3. CASE op.op \in {"metadata", "event", "replaced", "process"}
  BY <1>3, ThreadOperation DEF SameBut
<1> QED BY <1>1, <1>2, <1>3 DEF ThreadOps

\* The news of the status of a thread, and the list after them.
StatusOf(s, t, status) ==
  IF t \in DOMAIN s.statuses /\ s.statuses[t] = status
  THEN <<>> ELSE <<[op |-> "status", id |-> t, status |-> status]>>

ShowsStatus(r, s, t, status) ==
  /\ ControllerFits(r) /\ r.lifecycle = s.lifecycle /\ r.threads = s.threads
  /\ DOMAIN r.statuses = DOMAIN s.statuses /\ r.statuses[t] = status
  /\ \A u \in DOMAIN s.statuses : u # t => r.statuses[u] = s.statuses[u]

\* The status in the list, if it changes.
LEMMA StatusApplied ==
  ASSUME NEW s, ControllerFits(s), NEW t, t \in DOMAIN s.statuses, NEW status,
         NEW r, r \in Applied("controller", s, StatusOf(s, t, status))
  PROVE  ShowsStatus(r, s, t, status)
<1> DEFINE news == StatusOf(s, t, status)
<1>1. CASE s.statuses[t] = status
  <2>1. r = s
    BY <1>1, AppliedNone DEF StatusOf
  <2> QED BY <1>1, <2>1 DEF ShowsStatus
<1>2. CASE s.statuses[t] # status
  <2> DEFINE op == [op |-> "status", id |-> t, status |-> status]
  <2>0. op.op = "status" /\ op.id = t /\ op.status = status
    OBVIOUS
  <2>n. news = <<op>>
    BY <1>2 DEF StatusOf
  <2> HIDE DEF op, news
  <2>1. r \in ControllerNext(s, op)
    BY <2>n, AppliedOne DEF StateNext, news
  <2>2. /\ ControllerFits(r) /\ r.lifecycle = s.lifecycle /\ r.threads = s.threads
        /\ r.statuses = Upsert(s.statuses, t, status)
    BY <2>0, <2>1, ShownStatus
  <2>3. /\ DOMAIN r.statuses = DOMAIN s.statuses /\ r.statuses[t] = status
        /\ \A u \in DOMAIN s.statuses : u # t => r.statuses[u] = s.statuses[u]
    BY <2>2 DEF Upsert
  <2> QED BY <2>2, <2>3 DEF ShowsStatus
<1> QED BY <1>1, <1>2

\* What apply_thread does.
LEMMA AppliedToThread ==
  ASSUME ServerFits, NEW t, NEW op, op.op \in ThreadOps, ApplyThread(t, op)
  PROVE  \E s : ThreadApplied(t, op, s)
<1>1. Running /\ t \in DOMAIN threads /\ UNCHANGED <<checkpoints, processes>>
  BY DEF ApplyThread, Loaded
<1>2. PICK s \in ThreadNext(threads[t], op) :
        threads' = [threads EXCEPT ![t] = s] /\ controller' \in Applied("controller", controller, StatusOf(controller, t, AgentStatus(s)))
  BY DEF ApplyThread, StatusOf
<1>3. t \in DOMAIN stored /\ t \in DOMAIN controller.statuses
  BY <1>1, Agreed DEF ThreadsAgree, ListAgrees
<1>4. ThreadFits(threads[t]) /\ IsSeq(threads[t].checkpoints)
  BY <1>1 DEF ServerFits, ThreadsFit
<1>5. ThreadFits(s) /\ IsSeq(s.checkpoints)
  BY <1>4, CheckpointsStay
<1>c. ControllerFits(controller)
  BY DEF ServerFits
<1>6. /\ ControllerFits(controller') /\ controller'.lifecycle = controller.lifecycle
      /\ controller'.threads = controller.threads
      /\ DOMAIN controller'.statuses = DOMAIN controller.statuses
      /\ controller'.statuses[t] = AgentStatus(s)
      /\ \A u \in DOMAIN controller.statuses : u # t => controller'.statuses[u] = controller.statuses[u]
  <2>1. ShowsStatus(controller', controller, t, AgentStatus(s))
    BY <1>2, <1>3, <1>c, StatusApplied
  <2> QED BY <2>1 DEF ShowsStatus
<1>7. ThreadApplied(t, op, s)
  BY <1>1, <1>2, <1>3, <1>5, <1>6 DEF ThreadApplied
<1> QED BY <1>7

\* After it everything agrees that is not about the contents of the threads.
LEMMA ThreadStep ==
  ASSUME ServerFits, NEW t, NEW op, op.op \in ThreadOps \ {"process"}, NEW s, ThreadApplied(t, op, s),
         StoreFits', DOMAIN stored' = DOMAIN stored,
         \A u \in DOMAIN stored : stored'[u].shown = stored[u].shown,
         UNCHANGED <<records, runs>>, ThreadsAgree'
  PROVE  ServerFits'
<1>1. /\ Running /\ t \in DOMAIN threads /\ t \in DOMAIN stored /\ s \in ThreadNext(threads[t], op)
      /\ threads' = [threads EXCEPT ![t] = s] /\ ThreadFits(s) /\ IsSeq(s.checkpoints)
      /\ ControllerFits(controller') /\ controller'.lifecycle = controller.lifecycle
      /\ controller'.threads = controller.threads
      /\ DOMAIN controller'.statuses = DOMAIN controller.statuses
      /\ controller'.statuses[t] = AgentStatus(s)
      /\ \A u \in DOMAIN controller.statuses : u # t => controller'.statuses[u] = controller.statuses[u]
      /\ UNCHANGED <<checkpoints, processes>>
  BY DEF ThreadApplied
<1>2. ListAgrees /\ ThreadsAgree /\ ProcessesAgree /\ ProcessesListed
  BY <1>1, Agreed
<1>t. DOMAIN threads' = DOMAIN threads /\ threads'[t] = s /\ \A u \in DOMAIN threads : u # t => threads'[u] = threads[u]
  BY <1>1
<1>3. ThreadsFit'
  BY <1>1, <1>t DEF ServerFits, ThreadsFit
<1>4. ListAgrees'
  <2>1. \A u \in DOMAIN stored : Shown(u)' = Shown(u)
    BY DEF Shown
  <2>2. DOMAIN controller'.statuses = DOMAIN stored'
    BY <1>1, <1>2 DEF ListAgrees
  <2>3. ToSet(controller'.threads) = {Shown(u)' : u \in DOMAIN stored'}
    BY <2>1, <1>1, <1>2 DEF ListAgrees
  <2>4. ASSUME NEW u \in DOMAIN stored'
        PROVE  controller'.statuses[u] = IF Loaded(u)' THEN AgentStatus(threads'[u]) ELSE "idle"
    <3>1. CASE u = t
      BY <3>1, <1>1, <1>t DEF Loaded
    <3>2. CASE u # t
      <4>1. controller'.statuses[u] = controller.statuses[u] /\ (Loaded(u)' <=> Loaded(u))
            /\ (Loaded(u) => threads'[u] = threads[u])
        BY <3>2, <1>1, <1>2, <1>t DEF Loaded, ListAgrees
      <4> QED BY <4>1, <1>2 DEF ListAgrees
    <3> QED BY <3>1, <3>2
  <2> QED BY <2>2, <2>3, <2>4 DEF ListAgrees
<1>5. s.processes = threads[t].processes
  <2>1. ThreadFits(threads[t])
    BY <1>1 DEF ServerFits, ThreadsFit
  <2>2. CASE op.op \in TurnOps
    BY <2>1, <2>2, <1>1, TurnOperation DEF SameBut
  <2>3. CASE op.op \in {"metadata", "event", "replaced", "checkpoint"}
    BY <2>1, <2>3, <1>1, ThreadOperation DEF SameBut
  <2> QED BY <2>2, <2>3 DEF ThreadOps
<1>6. ProcessesAgree' /\ ProcessesListed'
  <2>1. Loaded(ProcessThread) => Loaded(ProcessThread)'
    BY <1>t DEF Loaded
  <2>2. Loaded(ProcessThread) => threads'[ProcessThread].processes = threads[ProcessThread].processes
    BY <1>t, <1>5 DEF Loaded
  <2> QED BY <2>1, <2>2, <1>1, <1>2, ProcessesKept
<1> QED BY <1>1, <1>3, <1>4, <1>6, ServerKept

\* A step of a turn.
LEMMA TurnStep ==
  ASSUME ServerFits, NEW t, NEW op, op.op \in TurnOps, ApplyThread(t, op),
         UNCHANGED <<stored, issued, saved, records, runs>>
  PROVE  ServerFits'
<1>0. op.op \in ThreadOps \ {"process"}
  BY DEF ThreadOps, TurnOps
<1>1. PICK s : ThreadApplied(t, op, s)
  BY <1>0, AppliedToThread
<1>2. /\ Running /\ t \in DOMAIN threads /\ s \in ThreadNext(threads[t], op)
      /\ threads' = [threads EXCEPT ![t] = s] /\ checkpoints' = checkpoints
  BY <1>1 DEF ThreadApplied
<1>3. SameBut(s, threads[t], {"turn"})
  BY <1>2, TurnOperation DEF ServerFits, ThreadsFit
<1>4. ThreadsAgree'
  <2>1. \A u : Shown(u)' = Shown(u)
    BY DEF Shown
  <2>2. DOMAIN threads' = DOMAIN threads /\ threads'[t] = s /\ \A u \in DOMAIN threads : u # t => threads'[u] = threads[u]
    BY <1>2
  <2>3. s.metadata = threads[t].metadata /\ s.events = threads[t].events /\ s.checkpoints = threads[t].checkpoints
    BY <1>3 DEF SameBut
  <2> QED BY <2>1, <2>2, <2>3, <1>2, Agreed DEF ThreadsAgree
<1>5. StoreFits'
  BY DEF ServerFits, StoreFits
<1> QED BY <1>0, <1>1, <1>4, <1>5, ThreadStep

\* An event of a turn is stored and shown.
LEMMA AppendEventFits ==
  ASSUME ServerFits, NEW t, AppendEvent(t)
  PROVE  ServerFits'
<1> DEFINE event == NextEvent(t)
           op == [op |-> "event", event |-> event]
           row == stored[t]
<1>1. /\ stored' = [stored EXCEPT ![t].events = Append(@, event)] /\ ApplyThread(t, op)
      /\ UNCHANGED <<issued, saved, active, records, runs>>
  BY DEF AppendEvent
<1>o. op.op = "event" /\ op.event = event
  OBVIOUS
<1>e. event.sequence = IF row.events = <<>> THEN 1 ELSE row.events[Len(row.events)].sequence + 1
  BY DEF NextEvent
<1> HIDE DEF op, event
<1>2. op.op \in ThreadOps \ {"process"}
  BY <1>o DEF ThreadOps, TurnOps
<1>3. PICK s : ThreadApplied(t, op, s)
  BY <1>1, <1>2, AppliedToThread
<1>4. /\ Running /\ t \in DOMAIN threads /\ t \in DOMAIN stored /\ s \in ThreadNext(threads[t], op)
      /\ threads' = [threads EXCEPT ![t] = s] /\ checkpoints' = checkpoints
  BY <1>3 DEF ThreadApplied
<1>5. s.events = Append(threads[t].events, event) /\ SameBut(s, threads[t], {"events"})
  BY <1>4, <1>o, ThreadOperation DEF ServerFits, ThreadsFit
<1>a. Appendable(threads[t].events, event)
  BY <1>4, <1>o DEF ThreadNext, When
<1>6. RowFits(row)
  BY <1>4 DEF ServerFits, StoreFits
<1>n. /\ Numbered(Append(row.events, event)) /\ ToSet(Append(row.events, event)) = ToSet(row.events) \cup {event}
      /\ \A e \in ToSet(row.events) : e.sequence # event.sequence
  BY <1>6, <1>e, NextNumbered DEF RowFits
<1>7. /\ DOMAIN stored' = DOMAIN stored /\ \A u \in DOMAIN stored : u # t => stored'[u] = stored[u]
      /\ stored'[t].title = row.title /\ stored'[t].shown = row.shown /\ stored'[t].unseen = row.unseen
      /\ stored'[t].events = Append(row.events, event)
      /\ stored'[t] = [title |-> stored'[t].title, shown |-> stored'[t].shown, events |-> stored'[t].events,
                       unseen |-> stored'[t].unseen]
  BY <1>1, <1>4, <1>6 DEF RowFits
<1>r. RowFits(stored'[t])
  BY <1>6, <1>7, <1>n DEF RowFits
<1>8. StoreFits'
  BY <1>1, <1>7, <1>r DEF ServerFits, StoreFits
<1>9. ThreadsAgree /\ Shows(threads[t].events, row.events, row.unseen)
  BY <1>4, Agreed DEF ThreadsAgree
<1>u. event.sequence \notin row.unseen
  BY <1>6, <1>n DEF RowFits
<1>v. Shows(s.events, stored'[t].events, stored'[t].unseen)
  BY <1>5, <1>7, <1>9, <1>a, <1>n, <1>u, ShowsNext
<1> HIDE DEF row
<1>10. ThreadsAgree'
  <2>1. \A u \in DOMAIN stored : Shown(u)' = Shown(u) /\ stored'[u].title = stored[u].title
                                /\ stored'[u].shown = stored[u].shown /\ stored'[u].unseen = stored[u].unseen
    BY <1>7 DEF Shown, row
  <2>2. DOMAIN threads' = DOMAIN threads /\ threads'[t] = s /\ \A u \in DOMAIN threads : u # t => threads'[u] = threads[u]
    BY <1>4
  <2>3. s.metadata = threads[t].metadata /\ s.checkpoints = threads[t].checkpoints
    BY <1>5 DEF SameBut
  <2>5. ASSUME NEW u \in DOMAIN threads
        PROVE  /\ u \in DOMAIN stored' /\ threads'[u].metadata = Shown(u)'
               /\ Shows(threads'[u].events, stored'[u].events, stored'[u].unseen)
               /\ ToSet(threads'[u].checkpoints) = {j \in DOMAIN saved' : saved'[j].thread = u}
    <3>1. /\ u \in DOMAIN stored /\ threads[u].metadata = Shown(u)
          /\ Shows(threads[u].events, stored[u].events, stored[u].unseen)
          /\ ToSet(threads[u].checkpoints) = {j \in DOMAIN saved : saved[j].thread = u}
      BY <1>9 DEF ThreadsAgree
    <3>2. CASE u = t
      BY <3>1, <3>2, <2>1, <2>2, <2>3, <1>1, <1>7, <1>v
    <3>3. CASE u # t
      BY <3>1, <3>3, <2>1, <2>2, <1>1, <1>7
    <3> QED BY <3>2, <3>3
  <2>6. \A u \in DOMAIN stored' \ DOMAIN threads' : stored'[u].shown = stored'[u].title /\ stored'[u].unseen = {}
    BY <2>1, <2>2, <1>7, <1>9 DEF ThreadsAgree
  <2> QED BY <2>2, <2>5, <2>6, <1>1, <1>4, <1>9 DEF ThreadsAgree
<1>11. \A u \in DOMAIN stored : stored'[u].shown = stored[u].shown
  BY <1>7 DEF row
<1> QED BY <1>1, <1>2, <1>3, <1>7, <1>8, <1>10, <1>11, ThreadStep

\* A row with another history.
LEMMA RowExtended ==
  ASSUME NEW row, NEW events, NEW unseen, NEW w, w = [row EXCEPT !.events = events, !.unseen = unseen],
         row = [title |-> row.title, shown |-> row.shown, events |-> row.events, unseen |-> row.unseen]
  PROVE  /\ w.shown = row.shown /\ w.events = events /\ w.unseen = unseen
         /\ w = [title |-> w.title, shown |-> w.shown, events |-> w.events, unseen |-> w.unseen]
<1>1. DOMAIN row = {"title", "shown", "events", "unseen"}
  OBVIOUS
<1>2. PICK v : v = [row EXCEPT !.events = events]
  OBVIOUS
<1>3. v = [title |-> row.title, shown |-> row.shown, events |-> events, unseen |-> row.unseen]
  BY <1>2
<1>4. w = [v EXCEPT !.unseen = unseen]
  BY <1>2
<1>5. w = [title |-> row.title, shown |-> row.shown, events |-> events, unseen |-> unseen]
  BY <1>3, <1>4
<1> QED BY <1>5

\* What a cancelled turn saves unseen.
LEMMA SaveUnseenFits ==
  ASSUME ServerFits, NEW t, SaveUnseen(t)
  PROVE  ServerFits'
<1> DEFINE event == NextEvent(t)
           row == stored[t]
<1>1. /\ t \in DOMAIN threads /\ UNCHANGED <<issued, saved, active, records, runs, views>>
      /\ \/ stored' = [stored EXCEPT ![t].events = Append(@, event), ![t].unseen = @ \cup {event.sequence}]
         \/ stored' = [stored EXCEPT ![t].title = Name(t)]
  BY DEF SaveUnseen, TurnShown, Loaded
<1>2. UNCHANGED <<controller, threads, checkpoints, processes>>
  BY <1>1 DEF views
<1>e. event.sequence = IF row.events = <<>> THEN 1 ELSE row.events[Len(row.events)].sequence + 1
  BY DEF NextEvent
<1> HIDE DEF event
<1>3. RunsFit' /\ ProcessesFit' /\ ControllerFits(controller)' /\ ThreadsFit' /\ (Running' <=> Running)
  BY <1>1, <1>2, RunsKept, ProcessesFitKept DEF ServerFits, ThreadsFit, Running
<1>4. CASE t \notin DOMAIN stored
  <2>1. ~Running
    BY <1>1, <1>4, Agreed DEF ThreadsAgree
  <2>2. DOMAIN stored' = DOMAIN stored /\ \A u \in DOMAIN stored : stored'[u] = stored[u]
    BY <1>1, <1>4
  <2>3. StoreFits'
    BY <1>1, <2>2 DEF ServerFits, StoreFits
  <2> QED BY <2>1, <2>3, <1>1, <1>2, <1>3, ServerKept
<1>5. CASE t \in DOMAIN stored
  <2>1. RowFits(row)
    BY <1>5 DEF ServerFits, StoreFits
  <2>n. /\ Numbered(Append(row.events, event)) /\ ToSet(Append(row.events, event)) = ToSet(row.events) \cup {event}
        /\ \A e \in ToSet(row.events) : e.sequence # event.sequence
    BY <2>1, <1>e, NextNumbered DEF RowFits
  <2>2. /\ DOMAIN stored' = DOMAIN stored /\ \A u \in DOMAIN stored : u # t => stored'[u] = stored[u]
        /\ stored'[t].shown = row.shown
        /\ stored'[t] = [title |-> stored'[t].title, shown |-> stored'[t].shown, events |-> stored'[t].events,
                         unseen |-> stored'[t].unseen]
        /\ \/ /\ stored'[t].events = Append(row.events, event)
              /\ stored'[t].unseen = row.unseen \cup {event.sequence}
           \/ stored'[t].events = row.events /\ stored'[t].unseen = row.unseen
    <3>0. row = [title |-> row.title, shown |-> row.shown, events |-> row.events, unseen |-> row.unseen]
      BY <2>1 DEF RowFits
    <3>1. CASE stored' = [stored EXCEPT ![t].events = Append(@, event), ![t].unseen = @ \cup {event.sequence}]
      <4>0. PICK w : w = [row EXCEPT !.events = Append(row.events, event), !.unseen = row.unseen \cup {event.sequence}]
        OBVIOUS
      <4>1. stored' = [stored EXCEPT ![t] = w]
        BY <4>0, <3>1, <1>5
      <4>2. /\ w.shown = row.shown /\ w.events = Append(row.events, event)
            /\ w.unseen = row.unseen \cup {event.sequence}
            /\ w = [title |-> w.title, shown |-> w.shown, events |-> w.events, unseen |-> w.unseen]
        BY <4>0, <3>0, RowExtended
      <4> HIDE DEF row
      <4> QED BY <4>1, <4>2, <1>5
    <3>2. CASE stored' = [stored EXCEPT ![t].title = Name(t)]
      <4>1. PICK title : title = Name(t)
        OBVIOUS
      <4> DEFINE w == [row EXCEPT !.title = title]
      <4>2. stored' = [stored EXCEPT ![t] = w]
        BY <3>2, <4>1, <1>5
      <4>3. /\ w.shown = row.shown /\ w.events = row.events /\ w.unseen = row.unseen
            /\ w = [title |-> w.title, shown |-> w.shown, events |-> w.events, unseen |-> w.unseen]
        BY <3>0
      <4> HIDE DEF w, row
      <4> QED BY <4>2, <4>3, <1>5
    <3> QED BY <3>1, <3>2, <1>1
  <2>3. RowFits(stored'[t])
    BY <2>1, <2>2, <2>n DEF RowFits
  <2>4. StoreFits'
    BY <1>1, <2>2, <2>3 DEF ServerFits, StoreFits
  <2>5. ASSUME Running PROVE ListAgrees' /\ ThreadsAgree' /\ ProcessesAgree' /\ ProcessesListed'
    <3>0. ListAgrees /\ ThreadsAgree /\ ProcessesAgree /\ ProcessesListed
      BY <2>5, Agreed
    <3>1. \A u : Loaded(u)' <=> Loaded(u)
      BY <1>2 DEF Loaded
    <3>2. \A u \in DOMAIN stored : stored'[u].shown = stored[u].shown
      BY <2>2
    <3>3. ListAgrees'
      BY <3>0, <3>1, <3>2, <1>2, <2>2, ListKept
    <3>4. ProcessesAgree' /\ ProcessesListed'
      BY <3>0, <3>1, <1>1, <1>2, ProcessesKept
    <3>5. Shows(threads[t].events, row.events, row.unseen)
      BY <3>0, <1>1 DEF ThreadsAgree
    <3>6. Shows(threads[t].events, stored'[t].events, stored'[t].unseen)
      <4>1. CASE /\ stored'[t].events = Append(row.events, event)
                 /\ stored'[t].unseen = row.unseen \cup {event.sequence}
        BY <4>1, <3>5, <2>n, ShowsWithout
      <4>2. CASE stored'[t].events = row.events /\ stored'[t].unseen = row.unseen
        BY <4>2, <3>5
      <4> QED BY <4>1, <4>2, <2>2
    <3>7. \A u \in DOMAIN threads :
            /\ u \in DOMAIN stored' /\ threads[u].metadata = Shown(u)'
            /\ Shows(threads[u].events, stored'[u].events, stored'[u].unseen)
      <4>1. \A u \in DOMAIN stored : Shown(u)' = Shown(u)
        BY <3>2 DEF Shown
      <4> QED BY <3>0, <3>6, <4>1, <2>2 DEF ThreadsAgree
    <3>8. \A u \in DOMAIN stored' \ DOMAIN threads' : stored'[u].shown = stored'[u].title /\ stored'[u].unseen = {}
      BY <3>0, <1>1, <1>2, <2>2 DEF ThreadsAgree
    <3>9. ThreadsAgree'
      BY <3>0, <3>7, <3>8, <1>1, <1>2 DEF ThreadsAgree
    <3> QED BY <3>3, <3>4, <3>9
  <2> QED BY <1>1, <1>2, <1>3, <2>4, <2>5, ServerKept
<1> QED BY <1>4, <1>5

\* A checkpoint is stored and shown.
LEMMA CreateCheckpointFits ==
  ASSUME ServerFits, NEW t, NEW k, CreateCheckpoint(t, k)
  PROVE  ServerFits'
<1> DEFINE op == [op |-> "checkpoint", checkpoint |-> k]
           new == [thread |-> t, events |-> stored[t].events]
<1>1. /\ saved' = Upsert(saved, k, new) /\ ApplyThread(t, op) /\ k \notin DOMAIN saved
      /\ UNCHANGED <<stored, issued, active, records, runs>>
  BY DEF CreateCheckpoint, NextCheckpoint, CheckpointIds
<1>o. op.op = "checkpoint" /\ op.checkpoint = k /\ new.thread = t
  OBVIOUS
<1> HIDE DEF op, new
<1>2. op.op \in ThreadOps \ {"process"}
  BY <1>o DEF ThreadOps, TurnOps
<1>3. PICK s : ThreadApplied(t, op, s)
  BY <1>1, <1>2, AppliedToThread
<1>4. /\ Running /\ t \in DOMAIN threads /\ t \in DOMAIN stored /\ s \in ThreadNext(threads[t], op)
      /\ threads' = [threads EXCEPT ![t] = s] /\ checkpoints' = checkpoints
  BY <1>3 DEF ThreadApplied
<1>5. s.checkpoints = <<k>> \o threads[t].checkpoints /\ SameBut(s, threads[t], {"checkpoints"})
  BY <1>4, <1>o, ThreadOperation DEF ServerFits, ThreadsFit
<1>6. ThreadsAgree
  BY <1>4, Agreed
<1>7. ThreadsAgree'
  <2>1. \A u : Shown(u)' = Shown(u)
    BY <1>1 DEF Shown
  <2>2. DOMAIN threads' = DOMAIN threads /\ threads'[t] = s /\ \A u \in DOMAIN threads : u # t => threads'[u] = threads[u]
    BY <1>4
  <2>3. s.metadata = threads[t].metadata /\ s.events = threads[t].events
    BY <1>5 DEF SameBut
  <2>4. DOMAIN saved' = DOMAIN saved \cup {k} /\ saved'[k] = new /\ \A j \in DOMAIN saved : saved'[j] = saved[j]
    BY <1>1 DEF Upsert
  <2>5. ToSet(s.checkpoints) = {k} \cup ToSet(threads[t].checkpoints)
    BY <1>4, <1>5, PutFirst DEF ServerFits, ThreadsFit
  <2>6. ASSUME NEW u \in DOMAIN threads
        PROVE  ToSet(threads'[u].checkpoints) = {j \in DOMAIN saved' : saved'[j].thread = u}
    <3>1. ToSet(threads[u].checkpoints) = {j \in DOMAIN saved : saved[j].thread = u}
      BY <1>6 DEF ThreadsAgree
    <3>2. {j \in DOMAIN saved' : saved'[j].thread = u}
            = {j \in DOMAIN saved : saved[j].thread = u} \cup (IF u = t THEN {k} ELSE {})
      BY <2>4, <1>o
    <3> QED BY <3>1, <3>2, <2>2, <2>5
  <2>7. \A u \in DOMAIN threads' : /\ u \in DOMAIN stored' /\ threads'[u].metadata = Shown(u)'
                                   /\ Shows(threads'[u].events, stored'[u].events, stored'[u].unseen)
    BY <2>1, <2>2, <2>3, <1>1, <1>6 DEF ThreadsAgree
  <2>8. \A j \in DOMAIN checkpoints' : j \in DOMAIN saved' /\ checkpoints'[j] = saved'[j]
    BY <2>4, <1>4, <1>6 DEF ThreadsAgree
  <2>9. \A u \in DOMAIN stored' \ DOMAIN threads' : stored'[u].shown = stored'[u].title /\ stored'[u].unseen = {}
    BY <2>2, <1>1, <1>6 DEF ThreadsAgree
  <2> QED BY <2>2, <2>6, <2>7, <2>8, <2>9 DEF ThreadsAgree
<1>8. StoreFits'
  <2>1. DOMAIN saved' = DOMAIN saved \cup {k} /\ k \in CheckpointIds
    BY <1>1 DEF Upsert, CreateCheckpoint, NextCheckpoint
  <2>2. Numbered(new.events)
    BY <1>4 DEF ServerFits, StoreFits, RowFits, new
  <2>3. \A j \in DOMAIN saved' : Numbered(saved'[j].events)
    BY <2>2, <1>1 DEF Upsert, ServerFits, StoreFits
  <2> QED BY <2>1, <2>3, <1>1 DEF ServerFits, StoreFits
<1> QED BY <1>1, <1>2, <1>3, <1>7, <1>8, ThreadStep

-----------------------------------------------------------------------------
(* Steps that change the metadata of a thread.                             *)

\* What update_thread_metadata and replace_thread_history make of the views.
BothApplied(t, metadata, ops, s) ==
  /\ Running /\ t \in DOMAIN threads /\ t \in DOMAIN stored
  /\ s \in Applied("thread", threads[t], ops) /\ threads' = [threads EXCEPT ![t] = s]
  /\ ControllerFits(controller') /\ controller'.lifecycle = controller.lifecycle
  /\ controller'.statuses = controller.statuses
  /\ ToSet(controller'.threads) = {metadata} \cup {m \in ToSet(controller.threads) : m.id # metadata.id}
  /\ UNCHANGED <<checkpoints, processes>>

\* What they do.
LEMMA AppliedToBoth ==
  ASSUME ServerFits, NEW t, NEW metadata, NEW ops, ApplyBoth(t, metadata, ops)
  PROVE  \E s : BothApplied(t, metadata, ops, s)
<1> DEFINE op == [op |-> "updated", thread |-> metadata]
<1>1. /\ Running /\ t \in DOMAIN threads /\ controller' \in ControllerNext(controller, op)
      /\ UNCHANGED <<checkpoints, processes>>
  BY DEF ApplyBoth, Loaded
<1>2. PICK s \in Applied("thread", threads[t], ops) : threads' = [threads EXCEPT ![t] = s]
  BY DEF ApplyBoth
<1>3. t \in DOMAIN stored
  BY <1>1, Agreed DEF ThreadsAgree
<1>o. op.op = "updated" /\ op.thread = metadata
  OBVIOUS
<1> HIDE DEF op
<1>4. /\ ControllerFits(controller') /\ controller'.lifecycle = controller.lifecycle
      /\ controller'.statuses = controller.statuses
      /\ ToSet(controller'.threads) = {metadata} \cup {m \in ToSet(controller.threads) : m.id # metadata.id}
  BY <1>1, <1>o, UpdatedThread DEF ServerFits
<1> QED BY <1>1, <1>2, <1>3, <1>4 DEF BothApplied

\* After it everything agrees that is not about the contents of the threads.
LEMMA BothStep ==
  ASSUME ServerFits, NEW t, NEW metadata, NEW ops, NEW s, BothApplied(t, metadata, ops, s),
         StoreFits', DOMAIN stored' = DOMAIN stored, metadata = Shown(t)',
         \A u \in DOMAIN stored : u # t => stored'[u] = stored[u],
         ThreadFits(s), IsSeq(s.checkpoints), s.processes = threads[t].processes,
         s.turn = threads[t].turn, s.outcome = threads[t].outcome,
         UNCHANGED <<records, runs>>, ThreadsAgree'
  PROVE  ServerFits'
<1>1. /\ Running /\ t \in DOMAIN threads /\ t \in DOMAIN stored /\ threads' = [threads EXCEPT ![t] = s]
      /\ ControllerFits(controller') /\ controller'.lifecycle = controller.lifecycle
      /\ controller'.statuses = controller.statuses
      /\ ToSet(controller'.threads) = {metadata} \cup {m \in ToSet(controller.threads) : m.id # metadata.id}
      /\ UNCHANGED <<checkpoints, processes>>
  BY DEF BothApplied
<1>2. ListAgrees /\ ThreadsAgree /\ ProcessesAgree /\ ProcessesListed
  BY <1>1, Agreed
<1>t. DOMAIN threads' = DOMAIN threads /\ threads'[t] = s /\ \A u \in DOMAIN threads : u # t => threads'[u] = threads[u]
  BY <1>1
<1>3. ThreadsFit'
  BY <1>1, <1>t DEF ServerFits, ThreadsFit
<1>4. ListAgrees'
  <2>1. \A u \in DOMAIN stored : u # t => Shown(u)' = Shown(u)
    BY DEF Shown
  <2>2. \A u : Shown(u).id = u
    BY DEF Shown
  <2>3. metadata.id = t
    BY DEF Shown
  <2>4. ToSet(controller.threads) = {Shown(u) : u \in DOMAIN stored}
    BY <1>2 DEF ListAgrees
  <2>5. {m \in ToSet(controller.threads) : m.id # t} = {Shown(u) : u \in DOMAIN stored \ {t}}
    BY <2>2, <2>4
  <2>6. {Shown(u) : u \in DOMAIN stored \ {t}} = {Shown(u)' : u \in DOMAIN stored \ {t}}
    BY <2>1
  <2>7. {Shown(u)' : u \in DOMAIN stored'} = {metadata} \cup {Shown(u)' : u \in DOMAIN stored \ {t}}
    BY <1>1
  <2>8. ToSet(controller'.threads) = {Shown(u)' : u \in DOMAIN stored'}
    BY <2>3, <2>5, <2>6, <2>7, <1>1
  <2>9. AgentStatus(s) = AgentStatus(threads[t])
    BY StatusOfTurn
  <2>10. \A u \in DOMAIN stored' :
           controller'.statuses[u] = IF Loaded(u)' THEN AgentStatus(threads'[u]) ELSE "idle"
    BY <2>9, <1>1, <1>2, <1>t DEF ListAgrees, Loaded
  <2> QED BY <2>8, <2>10, <1>1, <1>2 DEF ListAgrees
<1>5. ProcessesAgree' /\ ProcessesListed'
  <2>1. Loaded(ProcessThread) => Loaded(ProcessThread)'
    BY <1>t DEF Loaded
  <2>2. Loaded(ProcessThread) => threads'[ProcessThread].processes = threads[ProcessThread].processes
    BY <1>t DEF Loaded
  <2> QED BY <2>1, <2>2, <1>1, <1>2, ProcessesKept
<1> QED BY <1>1, <1>3, <1>4, <1>5, ServerKept

\* A title that is shown.
LEMMA EntitleFits ==
  ASSUME ServerFits, NEW t, NEW title, Entitle(t, title)
  PROVE  ServerFits'
<1> DEFINE metadata == [id |-> t, title |-> title]
           op == [op |-> "metadata", metadata |-> metadata]
<1>1. /\ stored' = [stored EXCEPT ![t].title = title, ![t].shown = title] /\ ApplyBoth(t, metadata, <<op>>)
      /\ UNCHANGED <<issued, saved, active, records, runs>>
  BY DEF Entitle
<1>t. t \in DOMAIN stored
  BY <1>1, Agreed DEF ApplyBoth, Loaded, ThreadsAgree
<1>o. op.op = "metadata" /\ op.metadata = metadata
  OBVIOUS
<1>6. RowFits(stored[t])
  BY <1>t DEF ServerFits, StoreFits
<1>7. /\ DOMAIN stored' = DOMAIN stored /\ \A u \in DOMAIN stored : u # t => stored'[u] = stored[u]
      /\ stored'[t].title = title /\ stored'[t].shown = title
      /\ stored'[t].events = stored[t].events /\ stored'[t].unseen = stored[t].unseen
      /\ stored'[t] = [title |-> stored'[t].title, shown |-> stored'[t].shown, events |-> stored'[t].events,
                       unseen |-> stored'[t].unseen]
  BY <1>1, <1>t, <1>6 DEF RowFits
<1>r. RowFits(stored'[t])
  BY <1>6, <1>7 DEF RowFits
<1>m. metadata = Shown(t)'
  BY <1>7 DEF Shown
<1> HIDE DEF op, metadata
<1>2. PICK s : BothApplied(t, metadata, <<op>>, s)
  BY <1>1, AppliedToBoth
<1>3. /\ Running /\ t \in DOMAIN threads /\ s \in Applied("thread", threads[t], <<op>>)
      /\ threads' = [threads EXCEPT ![t] = s] /\ checkpoints' = checkpoints
  BY <1>2 DEF BothApplied
<1>4. s \in ThreadNext(threads[t], op)
  BY <1>3, AppliedOne DEF StateNext
<1>f. ThreadFits(threads[t]) /\ IsSeq(threads[t].checkpoints)
  BY <1>3 DEF ServerFits, ThreadsFit
<1>5. ThreadFits(s) /\ s.metadata = metadata /\ SameBut(s, threads[t], {"metadata"})
  BY <1>4, <1>o, <1>f, ThreadOperation
<1>8. StoreFits'
  BY <1>1, <1>7, <1>r DEF ServerFits, StoreFits
<1>9. /\ s.events = threads[t].events /\ s.checkpoints = threads[t].checkpoints
      /\ s.processes = threads[t].processes /\ s.turn = threads[t].turn /\ s.outcome = threads[t].outcome
  BY <1>5 DEF SameBut
<1>10. ThreadsAgree'
  <2>1. \A u \in DOMAIN stored : u # t => Shown(u)' = Shown(u)
    BY <1>7 DEF Shown
  <2>2. DOMAIN threads' = DOMAIN threads /\ threads'[t] = s /\ \A u \in DOMAIN threads : u # t => threads'[u] = threads[u]
    BY <1>3
  <2>a. ThreadsAgree
    BY <1>3, Agreed
  <2>5. ASSUME NEW u \in DOMAIN threads
        PROVE  /\ u \in DOMAIN stored' /\ threads'[u].metadata = Shown(u)'
               /\ Shows(threads'[u].events, stored'[u].events, stored'[u].unseen)
               /\ ToSet(threads'[u].checkpoints) = {j \in DOMAIN saved' : saved'[j].thread = u}
    <3>1. /\ u \in DOMAIN stored /\ threads[u].metadata = Shown(u)
          /\ Shows(threads[u].events, stored[u].events, stored[u].unseen)
          /\ ToSet(threads[u].checkpoints) = {j \in DOMAIN saved : saved[j].thread = u}
      BY <2>a DEF ThreadsAgree
    <3>2. CASE u = t
      BY <3>1, <3>2, <2>2, <1>1, <1>5, <1>7, <1>9, <1>m
    <3>3. CASE u # t
      BY <3>1, <3>3, <2>1, <2>2, <1>1, <1>7
    <3> QED BY <3>2, <3>3
  <2>6. \A u \in DOMAIN stored' \ DOMAIN threads' : stored'[u].shown = stored'[u].title /\ stored'[u].unseen = {}
    BY <2>2, <2>a, <1>3, <1>7 DEF ThreadsAgree
  <2> QED BY <2>2, <2>5, <2>6, <2>a, <1>1, <1>3 DEF ThreadsAgree
<1> QED BY <1>1, <1>2, <1>5, <1>7, <1>8, <1>9, <1>10, <1>f, <1>m, BothStep

\* What three operations make of a thread.
LEMMA AppliedThree ==
  ASSUME NEW s, NEW a, NEW b, NEW c, NEW r, r \in Applied("thread", s, <<a, b, c>>)
  PROVE  \E p \in ThreadNext(s, a) : \E q \in ThreadNext(p, b) : r \in ThreadNext(q, c)
<1>1. <<a, b, c>> = <<a, b>> \o <<c>> /\ <<a, b>> = <<a>> \o <<b>>
  <2>1. <<a, b, c>> = <<a, b>> \o <<c>>
    BY Three
  <2>2. <<a, b>> = <<a>> \o <<b>>
    BY Pair
  <2> QED BY <2>1, <2>2
<1>2. IsSeq(<<a>>)
  BY Single
<1>3. IsSeq(<<a, b>>)
  BY Pair
<1>4. Applied("thread", s, <<a>>) = ThreadNext(s, a)
  BY AppliedOne DEF StateNext
<1>5. Applied("thread", s, <<a, b>>) = Each("thread", ThreadNext(s, a), b)
  <2>1. Applied("thread", s, <<a>> \o <<b>>) = Each("thread", Applied("thread", s, <<a>>), b)
    BY <1>2, AppliedThen
  <2> QED BY <2>1, <1>1, <1>4
<1>6. Applied("thread", s, <<a, b, c>>) = Each("thread", Applied("thread", s, <<a, b>>), c)
  <2>1. Applied("thread", s, <<a, b>> \o <<c>>) = Each("thread", Applied("thread", s, <<a, b>>), c)
    BY <1>3, AppliedThen
  <2> QED BY <2>1, <1>1
<1>7. PICK q \in Applied("thread", s, <<a, b>>) : r \in StateNext("thread", q, c)
  BY <1>6 DEF Each
<1>8. PICK p \in ThreadNext(s, a) : q \in StateNext("thread", p, b)
  BY <1>5, <1>7 DEF Each
<1> QED BY <1>7, <1>8 DEF StateNext

\* The history of a thread, and a checkpoint of what it was.
LEMMA ReplaceHistoryFits ==
  ASSUME ServerFits, NEW t, NEW k, ReplaceHistory(t, k)
  PROVE  ServerFits'
<1>1. /\ t \in DOMAIN stored /\ k \notin DOMAIN saved
      /\ saved' = Upsert(saved, k, [thread |-> t, events |-> stored[t].events])
      /\ UNCHANGED <<issued, active, records, runs>>
  BY DEF ReplaceHistory, NextCheckpoint, CheckpointIds
<1>2. PICK events : /\ events \in {SubSeq(stored[t].events, 1, n) : n \in 0..Len(stored[t].events)}
                                 \cup {saved[j].events : j \in {j \in DOMAIN saved : saved[j].thread = t}}
                    /\ stored' = [stored EXCEPT ![t].events = events, ![t].unseen = {},
                                                ![t].shown = stored[t].title]
                    /\ ApplyBoth(t, Metadata(t), <<[op |-> "metadata", metadata |-> Metadata(t)],
                                                   [op |-> "replaced", events |-> events],
                                                   [op |-> "checkpoint", checkpoint |-> k]>>)
  BY DEF ReplaceHistory
<1> DEFINE a == [op |-> "metadata", metadata |-> Metadata(t)]
           b == [op |-> "replaced", events |-> events]
           c == [op |-> "checkpoint", checkpoint |-> k]
           new == [thread |-> t, events |-> stored[t].events]
<1>o. /\ a.op = "metadata" /\ a.metadata = Metadata(t) /\ b.op = "replaced" /\ b.events = events
      /\ c.op = "checkpoint" /\ c.checkpoint = k /\ new.thread = t
  OBVIOUS
<1>b. ApplyBoth(t, Metadata(t), <<a, b, c>>) /\ saved' = Upsert(saved, k, new)
  BY <1>1, <1>2
<1>6. RowFits(stored[t])
  BY <1>1 DEF ServerFits, StoreFits
<1>n. Numbered(events)
  <2>1. CASE \E n \in 0..Len(stored[t].events) : events = SubSeq(stored[t].events, 1, n)
    BY <2>1, <1>6, PrefixNumbered DEF RowFits
  <2>2. CASE \E j \in DOMAIN saved : events = saved[j].events
    BY <2>2 DEF ServerFits, StoreFits
  <2> QED BY <2>1, <2>2, <1>2
<1>7. /\ DOMAIN stored' = DOMAIN stored /\ \A u \in DOMAIN stored : u # t => stored'[u] = stored[u]
      /\ stored'[t].title = stored[t].title /\ stored'[t].shown = stored[t].title
      /\ stored'[t].events = events /\ stored'[t].unseen = {}
      /\ stored'[t] = [title |-> stored'[t].title, shown |-> stored'[t].shown, events |-> stored'[t].events,
                       unseen |-> stored'[t].unseen]
  BY <1>1, <1>2, <1>6 DEF RowFits
<1>r. RowFits(stored'[t])
  BY <1>7, <1>n DEF RowFits
<1>v. Shows(events, stored'[t].events, stored'[t].unseen)
  BY <1>7, <1>n, ShowsAll
<1>m. Shown(t)' = Metadata(t) /\ \A u \in DOMAIN stored : u # t => Shown(u)' = Shown(u)
  BY <1>7 DEF Shown, Metadata
<1> HIDE DEF a, b, c, new
<1>3. PICK s : BothApplied(t, Metadata(t), <<a, b, c>>, s)
  BY <1>b, AppliedToBoth
<1>4. /\ Running /\ t \in DOMAIN threads /\ s \in Applied("thread", threads[t], <<a, b, c>>)
      /\ threads' = [threads EXCEPT ![t] = s] /\ checkpoints' = checkpoints
  BY <1>3 DEF BothApplied
<1>f. ThreadFits(threads[t]) /\ IsSeq(threads[t].checkpoints)
  BY <1>4 DEF ServerFits, ThreadsFit
<1>5. PICK p \in ThreadNext(threads[t], a) : \E q \in ThreadNext(p, b) : s \in ThreadNext(q, c)
  BY <1>4, AppliedThree
<1>8. PICK q \in ThreadNext(p, b) : s \in ThreadNext(q, c)
  BY <1>5
<1>9. ThreadFits(p) /\ p.metadata = Metadata(t) /\ SameBut(p, threads[t], {"metadata"})
  BY <1>5, <1>f, <1>o, ThreadOperation
<1>10. ThreadFits(q) /\ q.events = events /\ SameBut(q, p, {"events"})
  BY <1>8, <1>9, <1>o, ThreadOperation
<1>11. ThreadFits(s) /\ s.checkpoints = <<k>> \o q.checkpoints /\ SameBut(s, q, {"checkpoints"})
  BY <1>8, <1>10, <1>o, ThreadOperation
<1>12. /\ s.metadata = Metadata(t) /\ s.events = events /\ s.checkpoints = <<k>> \o threads[t].checkpoints
       /\ s.processes = threads[t].processes /\ s.turn = threads[t].turn /\ s.outcome = threads[t].outcome
  BY <1>9, <1>10, <1>11 DEF SameBut
<1>13. IsSeq(s.checkpoints) /\ ToSet(s.checkpoints) = {k} \cup ToSet(threads[t].checkpoints)
  <2>1. /\ IsSeq(<<k>> \o threads[t].checkpoints)
        /\ ToSet(<<k>> \o threads[t].checkpoints) = {k} \cup ToSet(threads[t].checkpoints)
    BY <1>f, PutFirst
  <2> QED BY <2>1, <1>12
<1>14. StoreFits'
  <2>1. DOMAIN saved' = DOMAIN saved \cup {k} /\ k \in CheckpointIds
    BY <1>1 DEF Upsert, ReplaceHistory, NextCheckpoint
  <2>2. Numbered(new.events)
    BY <1>6 DEF RowFits, new
  <2>3. \A j \in DOMAIN saved' : Numbered(saved'[j].events)
    BY <2>2, <1>b DEF Upsert, ServerFits, StoreFits
  <2> QED BY <2>1, <2>3, <1>1, <1>7, <1>r DEF ServerFits, StoreFits
<1>15. ThreadsAgree'
  <2>a. ThreadsAgree
    BY <1>4, Agreed
  <2>2. DOMAIN threads' = DOMAIN threads /\ threads'[t] = s /\ \A u \in DOMAIN threads : u # t => threads'[u] = threads[u]
    BY <1>4
  <2>4. DOMAIN saved' = DOMAIN saved \cup {k} /\ saved'[k] = new /\ \A j \in DOMAIN saved : saved'[j] = saved[j]
    BY <1>1, <1>b DEF Upsert
  <2>5. ASSUME NEW u \in DOMAIN threads
        PROVE  /\ u \in DOMAIN stored' /\ threads'[u].metadata = Shown(u)'
               /\ Shows(threads'[u].events, stored'[u].events, stored'[u].unseen)
               /\ ToSet(threads'[u].checkpoints) = {j \in DOMAIN saved' : saved'[j].thread = u}
    <3>1. /\ u \in DOMAIN stored /\ threads[u].metadata = Shown(u)
          /\ Shows(threads[u].events, stored[u].events, stored[u].unseen)
          /\ ToSet(threads[u].checkpoints) = {j \in DOMAIN saved : saved[j].thread = u}
      BY <2>a DEF ThreadsAgree
    <3>2. {j \in DOMAIN saved' : saved'[j].thread = u}
            = {j \in DOMAIN saved : saved[j].thread = u} \cup (IF u = t THEN {k} ELSE {})
      BY <2>4, <1>o
    <3>3. CASE u = t
      BY <3>1, <3>2, <3>3, <2>2, <1>7, <1>12, <1>13, <1>m, <1>v
    <3>4. CASE u # t
      BY <3>1, <3>2, <3>4, <2>2, <1>7, <1>m
    <3> QED BY <3>3, <3>4
  <2>6. \A j \in DOMAIN checkpoints' : j \in DOMAIN saved' /\ checkpoints'[j] = saved'[j]
    BY <2>a, <2>4, <1>4 DEF ThreadsAgree
  <2>7. \A u \in DOMAIN stored' \ DOMAIN threads' : stored'[u].shown = stored'[u].title /\ stored'[u].unseen = {}
    BY <2>a, <2>2, <1>7 DEF ThreadsAgree
  <2> QED BY <2>2, <2>5, <2>6, <2>7 DEF ThreadsAgree
<1>16. Metadata(t) = Shown(t)'
  BY <1>m
<1>17. UNCHANGED <<records, runs>>
  BY <1>1
<1> QED BY <1>3, <1>7, <1>11, <1>12, <1>13, <1>14, <1>15, <1>16, <1>17, BothStep

-----------------------------------------------------------------------------
(* Threads that come, are loaded and go.                                   *)

\* A new thread in the list.
LEMMA CreateThreadFits ==
  ASSUME ServerFits, NEW t, NEW events, Numbered(events), CreateThread(t, events)
  PROVE  ServerFits'
<1> DEFINE op == [op |-> "added", thread |-> [id |-> t, title |-> 0]]
<1>1. /\ t \notin issued /\ issued' = issued \cup {t}
      /\ stored' = Upsert(stored, t, NewRow(events))
      /\ ApplyController(op) /\ UNCHANGED <<saved, active, records, runs>>
  BY DEF CreateThread
<1>o. op.op = "added" /\ op.thread = [id |-> t, title |-> 0] /\ op.thread.id = t
  OBVIOUS
<1> HIDE DEF op
<1>2. /\ Running /\ controller' \in ControllerNext(controller, op)
      /\ UNCHANGED <<threads, checkpoints, processes>>
  BY <1>1 DEF ApplyController
<1>3. /\ ControllerFits(controller') /\ controller'.lifecycle = controller.lifecycle
      /\ ToSet(controller'.threads) = {op.thread} \cup ToSet(controller.threads)
      /\ controller'.statuses = Upsert(controller.statuses, t, "idle")
  BY <1>2, <1>o, AddedThread DEF ServerFits
<1>4. ListAgrees /\ ThreadsAgree /\ ProcessesAgree /\ ProcessesListed /\ StoreFits /\ ThreadsFit
  BY <1>2, Agreed DEF ServerFits
<1>5. t \notin DOMAIN stored /\ t \notin DOMAIN threads
  BY <1>1, <1>4 DEF StoreFits, ThreadsAgree
<1>6. /\ DOMAIN stored' = DOMAIN stored \cup {t} /\ stored'[t] = NewRow(events)
      /\ \A u \in DOMAIN stored : stored'[u] = stored[u]
  BY <1>1, <1>5 DEF Upsert
<1>7. RowFits(stored'[t]) /\ stored'[t].shown = 0
  BY <1>6 DEF RowFits, NewRow
<1>8. StoreFits'
  BY <1>1, <1>4, <1>6, <1>7 DEF StoreFits
<1>9. \A u \in DOMAIN stored : Shown(u)' = Shown(u)
  BY <1>6 DEF Shown
<1>10. ThreadsFit' /\ ControllerFits(controller)'
  BY <1>2, <1>3, <1>4 DEF ThreadsFit
<1>11. ListAgrees'
  <2>1. Shown(t)' = op.thread
    BY <1>7, <1>o DEF Shown
  <2>2. {Shown(u)' : u \in DOMAIN stored'} = {Shown(t)'} \cup {Shown(u)' : u \in DOMAIN stored}
    BY <1>6
  <2>3. {Shown(u)' : u \in DOMAIN stored} = {Shown(u) : u \in DOMAIN stored}
    BY <1>9
  <2>4. ToSet(controller.threads) = {Shown(u) : u \in DOMAIN stored}
    BY <1>4 DEF ListAgrees
  <2>5. ToSet(controller'.threads) = {Shown(u)' : u \in DOMAIN stored'}
    BY <2>1, <2>2, <2>3, <2>4, <1>3
  <2>6. /\ DOMAIN controller'.statuses = DOMAIN controller.statuses \cup {t}
        /\ controller'.statuses[t] = "idle"
        /\ \A u \in DOMAIN controller.statuses : u # t => controller'.statuses[u] = controller.statuses[u]
    BY <1>3 DEF Upsert
  <2>7. \A u \in DOMAIN stored' :
          controller'.statuses[u] = IF Loaded(u)' THEN AgentStatus(threads'[u]) ELSE "idle"
    BY <2>6, <1>2, <1>4, <1>5, <1>6 DEF ListAgrees, Loaded
  <2> QED BY <2>5, <2>6, <2>7, <1>4, <1>6 DEF ListAgrees
<1>12. ThreadsAgree'
  <2>1. \A u \in DOMAIN threads : /\ u \in DOMAIN stored' /\ threads[u].metadata = Shown(u)'
                                  /\ Shows(threads[u].events, stored'[u].events, stored'[u].unseen)
    BY <1>4, <1>6, <1>9 DEF ThreadsAgree
  <2>2. stored'[t].shown = stored'[t].title /\ stored'[t].unseen = {}
    BY <1>6 DEF NewRow
  <2>3. \A u \in DOMAIN stored' \ DOMAIN threads' : stored'[u].shown = stored'[u].title /\ stored'[u].unseen = {}
    BY <2>2, <1>2, <1>4, <1>6 DEF ThreadsAgree
  <2> QED BY <2>1, <2>3, <1>1, <1>2, <1>4 DEF ThreadsAgree
<1>13. ProcessesAgree' /\ ProcessesListed'
  <2>1. Loaded(ProcessThread)' <=> Loaded(ProcessThread)
    BY <1>2 DEF Loaded
  <2> QED BY <2>1, <1>1, <1>2, <1>4, ProcessesKept
<1> QED BY <1>1, <1>2, <1>8, <1>10, <1>11, <1>12, <1>13, ServerKept

\* The thread that materialize_thread_locked loads, if it is not.
LEMMA MaterializeFits ==
  ASSUME ServerFits, Running, NEW t \in DOMAIN stored, Materialize(t),
         UNCHANGED <<stored, issued, saved, records, runs, controller, checkpoints, processes>>
  PROVE  ServerFits'
<1>0. ListAgrees /\ ThreadsAgree /\ ProcessesAgree /\ ProcessesListed /\ StoreFits /\ ThreadsFit /\ ControllerFits(controller)
  BY Agreed DEF ServerFits
<1>s. StoreFits' /\ ControllerFits(controller)' /\ (Running' => Running)
  BY <1>0 DEF StoreFits
<1>m. \A u : Shown(u)' = Shown(u)
  BY DEF Shown
<1>1. CASE Loaded(t)
  <2>1. UNCHANGED threads
    BY <1>1 DEF Materialize
  <2>2. \A u : Loaded(u)' <=> Loaded(u)
    BY <2>1 DEF Loaded
  <2>3. ListAgrees'
    BY <2>1, <2>2, <1>0, ListKept
  <2>4. ThreadsAgree'
    BY <2>1, <1>0, <1>m DEF ThreadsAgree
  <2>5. ProcessesAgree' /\ ProcessesListed'
    BY <2>1, <2>2, <1>0, ProcessesKept
  <2>6. ThreadsFit'
    BY <2>1, <1>0 DEF ThreadsFit
  <2> QED BY <2>3, <2>4, <2>5, <2>6, <1>s, ServerKept
<1>2. CASE ~Loaded(t)
  <2> DEFINE known(k) == IF k \in DOMAIN saved /\ saved[k].thread = t THEN <<k>> ELSE <<>>
             list == known(2) \o known(1)
             new == [metadata |-> Metadata(t), events |-> stored[t].events, turn |-> {}, outcome |-> {},
                     checkpoints |-> list, processes |-> <<>>]
  <2>1. threads' = Upsert(threads, t, new)
    BY <1>2 DEF Materialize, Materialized, NewThread, When
  <2>2. /\ new.metadata = Metadata(t) /\ new.events = stored[t].events /\ new.turn = {} /\ new.outcome = {}
        /\ new.checkpoints = list /\ ThreadFits(new)
    BY DEF ThreadFits, IsThread, AtMostOne
  <2>k. \A k : IsSeq(known(k)) /\ ToSet(known(k)) = {j \in DOMAIN saved \cap {k} : saved[j].thread = t}
    <3> SUFFICES ASSUME NEW k
                 PROVE  IsSeq(known(k)) /\ ToSet(known(k)) = {j \in DOMAIN saved \cap {k} : saved[j].thread = t}
      OBVIOUS
    <3>1. CASE k \in DOMAIN saved /\ saved[k].thread = t
      <4>1. known(k) = <<k>>
        BY <3>1
      <4> QED BY <4>1, <3>1, Single
    <3>2. CASE ~(k \in DOMAIN saved /\ saved[k].thread = t)
      <4>1. known(k) = <<>>
        BY <3>2
      <4> QED BY <4>1, <3>2, None
    <3> QED BY <3>1, <3>2
  <2>3. IsSeq(list) /\ ToSet(list) = {j \in DOMAIN saved : saved[j].thread = t}
    <3>1. IsSeq(known(2)) /\ IsSeq(known(1))
      BY <2>k
    <3>2. /\ ToSet(known(2)) = {j \in DOMAIN saved \cap {2} : saved[j].thread = t}
          /\ ToSet(known(1)) = {j \in DOMAIN saved \cap {1} : saved[j].thread = t}
      BY <2>k
    <3> HIDE DEF known
    <3>3. IsSeq(list) /\ ToSet(list) = ToSet(known(2)) \cup ToSet(known(1))
      BY <3>1, Concatenated, BothMembers
    <3>4. DOMAIN saved \subseteq {1, 2}
      BY <1>0 DEF StoreFits, CheckpointIds
    <3> QED BY <3>2, <3>3, <3>4
  <2> HIDE DEF new, list, known
  <2>4. t \notin DOMAIN threads /\ DOMAIN threads' = DOMAIN threads \cup {t} /\ threads'[t] = new
        /\ \A u \in DOMAIN threads : threads'[u] = threads[u]
    BY <2>1, <1>2 DEF Upsert, Loaded
  <2>5. ThreadsFit'
    BY <2>2, <2>3, <2>4, <1>0 DEF ThreadsFit
  <2>6. AgentStatus(new) = "idle"
    BY <2>2, StatusOfNone
  <2>7. ListAgrees'
    <3>1. \A u \in DOMAIN stored' :
            controller'.statuses[u] = IF Loaded(u)' THEN AgentStatus(threads'[u]) ELSE "idle"
      BY <2>4, <2>6, <1>0 DEF ListAgrees, Loaded
    <3> QED BY <3>1, <1>0, <1>m DEF ListAgrees
  <2>v. Metadata(t) = Shown(t) /\ Shows(new.events, stored[t].events, stored[t].unseen)
    <3>1. stored[t].shown = stored[t].title /\ stored[t].unseen = {}
      BY <2>4, <1>0 DEF ThreadsAgree
    <3>2. Numbered(stored[t].events)
      BY <1>0 DEF StoreFits, RowFits
    <3>3. Shows(stored[t].events, stored[t].events, {})
      BY <3>2, ShowsAll
    <3> QED BY <3>1, <3>3, <2>2 DEF Metadata, Shown
  <2>8. ThreadsAgree'
    <3>1. ASSUME NEW u \in DOMAIN threads'
          PROVE  /\ u \in DOMAIN stored /\ threads'[u].metadata = Shown(u)
                 /\ Shows(threads'[u].events, stored[u].events, stored[u].unseen)
                 /\ ToSet(threads'[u].checkpoints) = {j \in DOMAIN saved : saved[j].thread = u}
      <4>1. CASE u = t
        BY <4>1, <2>2, <2>3, <2>4, <2>v
      <4>2. CASE u # t
        BY <4>2, <2>4, <1>0 DEF ThreadsAgree
      <4> QED BY <4>1, <4>2
    <3>2. \A u \in DOMAIN stored \ DOMAIN threads' : stored[u].shown = stored[u].title /\ stored[u].unseen = {}
      BY <2>4, <1>0 DEF ThreadsAgree
    <3> QED BY <3>1, <3>2, <1>0, <1>m DEF ThreadsAgree
  <2>9. ProcessesAgree' /\ ProcessesListed'
    BY <2>4, <1>0, ProcessesKept DEF Loaded
  <2> QED BY <2>5, <2>7, <2>8, <2>9, <1>s, ServerKept
<1> QED BY <1>1, <1>2

\* A thread deleted, with its checkpoints and its processes.
LEMMA DeleteThreadFits ==
  ASSUME ServerFits, NEW t, DeleteThread(t)
  PROVE  ServerFits'
<1> DEFINE op == [op |-> "removed", id |-> t]
<1>1. /\ Running /\ t \in DOMAIN stored
      /\ stored' = Without(stored, {t})
      /\ saved' = Without(saved, {k \in DOMAIN saved : saved[k].thread = t})
      /\ records' = IF t = ProcessThread THEN {} ELSE records
      /\ controller' \in ControllerNext(controller, op)
      /\ threads' = Without(threads, {t})
      /\ checkpoints' = Without(checkpoints, {k \in DOMAIN checkpoints : checkpoints[k].thread = t})
      /\ processes' = IF t = ProcessThread THEN <<>> ELSE processes
      /\ issued' = issued /\ runs' = runs
  BY DEF DeleteThread
<1>o. op.op = "removed" /\ op.id = t
  OBVIOUS
<1> HIDE DEF op
<1>2. ListAgrees /\ ThreadsAgree /\ ProcessesAgree /\ ProcessesListed /\ StoreFits /\ ThreadsFit /\ ProcessesFit /\ RunsFit
  BY <1>1, Agreed DEF ServerFits
<1>3. /\ ControllerFits(controller') /\ controller'.lifecycle = controller.lifecycle
      /\ controller'.statuses = Without(controller.statuses, {t})
      /\ ToSet(controller'.threads) = {m \in ToSet(controller.threads) : m.id # t}
  BY <1>1, <1>o, RemovedThread DEF ServerFits
<1>4. /\ DOMAIN stored' = DOMAIN stored \ {t} /\ \A u \in DOMAIN stored' : stored'[u] = stored[u]
      /\ DOMAIN threads' = DOMAIN threads \ {t} /\ \A u \in DOMAIN threads' : threads'[u] = threads[u]
  BY <1>1 DEF Without
<1>5. /\ DOMAIN saved' = {k \in DOMAIN saved : saved[k].thread # t} /\ \A k \in DOMAIN saved' : saved'[k] = saved[k]
      /\ DOMAIN checkpoints' = {k \in DOMAIN checkpoints : checkpoints[k].thread # t}
      /\ \A k \in DOMAIN checkpoints' : checkpoints'[k] = checkpoints[k]
  BY <1>1 DEF Without
<1>6. \A u \in DOMAIN stored' : Shown(u)' = Shown(u)
  BY <1>4 DEF Shown
<1>7. StoreFits'
  BY <1>1, <1>2, <1>4, <1>5 DEF StoreFits
<1>8. ThreadsFit' /\ ControllerFits(controller)'
  BY <1>2, <1>3, <1>4 DEF ThreadsFit
<1>9. ListAgrees'
  <2>1. {m \in ToSet(controller.threads) : m.id # t} = {Shown(u) : u \in DOMAIN stored \ {t}}
    BY <1>2 DEF ListAgrees, Shown
  <2>2. {Shown(u) : u \in DOMAIN stored \ {t}} = {Shown(u)' : u \in DOMAIN stored'}
    BY <1>4, <1>6
  <2>3. DOMAIN controller'.statuses = DOMAIN controller.statuses \ {t}
        /\ \A u \in DOMAIN controller'.statuses : controller'.statuses[u] = controller.statuses[u]
    BY <1>3 DEF Without
  <2>4. \A u \in DOMAIN stored' :
          controller'.statuses[u] = IF Loaded(u)' THEN AgentStatus(threads'[u]) ELSE "idle"
    BY <2>3, <1>2, <1>4 DEF ListAgrees, Loaded
  <2> QED BY <2>1, <2>2, <2>3, <2>4, <1>2, <1>3, <1>4 DEF ListAgrees
<1>10. ThreadsAgree'
  <2>1. ASSUME NEW u \in DOMAIN threads'
        PROVE  /\ u \in DOMAIN stored' /\ threads'[u].metadata = Shown(u)'
               /\ Shows(threads'[u].events, stored'[u].events, stored'[u].unseen)
               /\ ToSet(threads'[u].checkpoints) = {j \in DOMAIN saved' : saved'[j].thread = u}
    <3>1. /\ u \in DOMAIN stored /\ threads[u].metadata = Shown(u)
          /\ Shows(threads[u].events, stored[u].events, stored[u].unseen)
          /\ ToSet(threads[u].checkpoints) = {j \in DOMAIN saved : saved[j].thread = u} /\ u # t
          /\ threads'[u] = threads[u]
      BY <1>2, <1>4 DEF ThreadsAgree
    <3>2. u \in DOMAIN stored' /\ stored'[u] = stored[u] /\ Shown(u)' = Shown(u)
      BY <3>1, <1>4, <1>6
    <3>3. {j \in DOMAIN saved' : saved'[j].thread = u} = {j \in DOMAIN saved : saved[j].thread = u}
      BY <3>1, <1>5
    <3> QED BY <3>1, <3>2, <3>3
  <2>2. \A k \in DOMAIN checkpoints' : k \in DOMAIN saved' /\ checkpoints'[k] = saved'[k]
    BY <1>2, <1>5 DEF ThreadsAgree
  <2>3. \A u \in DOMAIN stored' \ DOMAIN threads' : stored'[u].shown = stored'[u].title /\ stored'[u].unseen = {}
    BY <1>2, <1>4 DEF ThreadsAgree
  <2> QED BY <2>1, <2>2, <2>3 DEF ThreadsAgree
<1>11. ProcessesAgree' /\ ProcessesFit' /\ ProcessesListed'
  <2>1. CASE t = ProcessThread
    <3>1. processes' = <<>> /\ records' = {} /\ DOMAIN processes' = {}
      BY <2>1, <1>1, None
    <3> QED BY <3>1 DEF ProcessesAgree, ProcessesFit, ProcessesListed
  <2>2. CASE t # ProcessThread
    <3>1. UNCHANGED <<records, runs, processes>>
      BY <2>2, <1>1
    <3>2. Loaded(ProcessThread) => Loaded(ProcessThread)'
      BY <2>2, <1>4 DEF Loaded
    <3>3. Loaded(ProcessThread) => threads'[ProcessThread].processes = threads[ProcessThread].processes
      BY <2>2, <1>4 DEF Loaded
    <3> QED BY <3>1, <3>2, <3>3, <1>2, ProcessesKept, ProcessesFitKept
  <2> QED BY <2>1, <2>2
<1>12. RunsFit'
  BY <1>1, <1>2, RunsKept
<1> QED BY <1>7, <1>8, <1>9, <1>10, <1>11, <1>12 DEF ServerFits, ViewsAgree

\* The Controller stops.
LEMMA ShutDownFits ==
  ASSUME ServerFits, ShutDown
  PROVE  ServerFits'
<1>1. /\ controller' = [controller EXCEPT !.lifecycle = "stopping"]
      /\ threads' = <<>> /\ checkpoints' = <<>> /\ processes' = <<>> /\ UNCHANGED world
  BY DEF ShutDown
<1>2. UNCHANGED <<stored, issued, saved, active, records, runs>>
  BY <1>1 DEF world
<1>3. ControllerFits(controller') /\ controller'.lifecycle # "running"
  BY <1>1 DEF ServerFits, ControllerFits, IsController
<1>4. DOMAIN threads' = {} /\ DOMAIN processes' = {}
  BY <1>1, None
<1>5. StoreFits' /\ RunsFit'
  BY <1>2, RunsKept DEF ServerFits, StoreFits
<1>6. ThreadsFit' /\ ProcessesFit' /\ ViewsAgree' /\ ControllerFits(controller)' /\ ~Running'
  BY <1>3, <1>4 DEF ThreadsFit, ProcessesFit, ViewsAgree, Running
<1> QED BY <1>5, <1>6 DEF ServerFits

-----------------------------------------------------------------------------
(* Processes.                                                              *)

\* The process p is shown with a status by its thread, which is like before.
ProcessShown(p, status, s) ==
  /\ (s = threads[ProcessThread] /\ p \in DOMAIN processes)
     \/ s \in ThreadNext(threads[ProcessThread], [op |-> "process", process |-> p, status |-> status])
  /\ s.processes[p] = status

\* What only the summary of a process changes.
LEMMA SummaryStep ==
  ASSUME ServerFits, Running, Loaded(ProcessThread), NEW p, NEW status, NEW s, ProcessShown(p, status, s),
         threads' = [threads EXCEPT ![ProcessThread] = s],
         UNCHANGED <<stored, issued, saved, active, controller, checkpoints>>
  PROVE  /\ ThreadsFit' /\ ListAgrees' /\ ThreadsAgree' /\ StoreFits' /\ ControllerFits(controller)'
         /\ Loaded(ProcessThread)' /\ threads'[ProcessThread].processes[p] = status
         /\ p \in DOMAIN threads'[ProcessThread].processes
         /\ DOMAIN processes \subseteq DOMAIN threads'[ProcessThread].processes
         /\ \A q \in DOMAIN processes : q # p => threads'[ProcessThread].processes[q] = processes[q].status
<1> DEFINE t == ProcessThread
           op == [op |-> "process", process |-> p, status |-> status]
<1>0. ListAgrees /\ ThreadsAgree /\ ProcessesAgree /\ ProcessesListed /\ StoreFits /\ ThreadsFit /\ ControllerFits(controller)
  BY Agreed DEF ServerFits
<1>1. t \in DOMAIN threads
  BY DEF Loaded
<1>o. op.op = "process" /\ op.process = p /\ op.status = status
  OBVIOUS
<1>p. ((s = threads[t] /\ p \in DOMAIN processes) \/ s \in ThreadNext(threads[t], op)) /\ s.processes[p] = status
  BY DEF ProcessShown
<1> HIDE DEF op
<1>f. ThreadFits(threads[t]) /\ IsSeq(threads[t].checkpoints)
  BY <1>0, <1>1 DEF ThreadsFit
<1>2. /\ ThreadFits(s) /\ SameBut(s, threads[t], {"processes"})
      /\ (s = threads[t] /\ p \in DOMAIN processes) \/ s.processes = Upsert(threads[t].processes, p, status)
  <2>1. CASE s = threads[t] /\ p \in DOMAIN processes
    BY <2>1, <1>f DEF SameBut
  <2>2. CASE s \in ThreadNext(threads[t], op)
    BY <2>2, <1>f, <1>o, ThreadOperation
  <2> QED BY <2>1, <2>2, <1>p
<1>3. /\ s.metadata = threads[t].metadata /\ s.events = threads[t].events /\ s.checkpoints = threads[t].checkpoints
      /\ s.turn = threads[t].turn /\ s.outcome = threads[t].outcome
  BY <1>2 DEF SameBut
<1> HIDE DEF t
<1>t. threads' = [threads EXCEPT ![t] = s]
  BY DEF t
<1>4. DOMAIN threads' = DOMAIN threads /\ threads'[t] = s /\ \A u \in DOMAIN threads : u # t => threads'[u] = threads[u]
  BY <1>1, <1>t
<1>5. ThreadsFit'
  BY <1>0, <1>2, <1>3, <1>4, <1>f DEF ThreadsFit
<1>m. \A u : Shown(u)' = Shown(u)
  BY DEF Shown
<1>6. ListAgrees'
  <2>1. AgentStatus(s) = AgentStatus(threads[t])
    BY <1>3, StatusOfTurn
  <2>2. \A u : Loaded(u)' <=> Loaded(u)
    BY <1>4 DEF Loaded
  <2>3. \A u \in DOMAIN stored : Loaded(u) => AgentStatus(threads'[u]) = AgentStatus(threads[u])
    BY <2>1, <1>4 DEF Loaded
  <2> QED BY <2>2, <2>3, <1>0, ListKept
<1>7. ThreadsAgree'
  BY <1>0, <1>3, <1>4, <1>m DEF ThreadsAgree
<1>8. StoreFits' /\ ControllerFits(controller)'
  BY <1>0 DEF StoreFits
<1>9. \A q \in DOMAIN processes : threads[t].processes[q] = processes[q].status
  BY <1>0 DEF ProcessesAgree, t
<1>l. DOMAIN processes \subseteq DOMAIN threads[t].processes
  BY <1>0 DEF ProcessesListed, t
<1>10. ASSUME NEW q \in DOMAIN processes, q # p PROVE threads'[t].processes[q] = processes[q].status
  <2>1. CASE s = threads[t]
    BY <2>1, <1>4, <1>9
  <2>2. CASE s.processes = Upsert(threads[t].processes, p, status)
    BY <2>2, <1>4, <1>9, <1>10, <1>l DEF Upsert
  <2> QED BY <2>1, <2>2, <1>2
<1>d. p \in DOMAIN s.processes /\ DOMAIN processes \subseteq DOMAIN s.processes
  BY <1>2, <1>l DEF Upsert
<1>11. Loaded(t)'
  BY <1>1, <1>4 DEF Loaded
<1> QED BY <1>4, <1>5, <1>6, <1>7, <1>8, <1>10, <1>11, <1>p, <1>d DEF t

\* The runs of a process are numbered from 1.
LEMMA NumbersAre ==
  ASSUME RunsFit
  PROVE  \A p \in ProcessIds : LastRun(p) \in Nat /\ NumbersOf(p) = 1..LastRun(p)
<1> SUFFICES ASSUME NEW p \in ProcessIds PROVE LastRun(p) \in Nat /\ NumbersOf(p) = 1..LastRun(p)
  OBVIOUS
<1>1. LastRun(p) \in 0..MaxRuns /\ NumbersOf(p) = 1..LastRun(p)
  BY DEF RunsFit
<1> QED BY <1>1

\* A process registered.
LEMMA RegisterFits ==
  ASSUME ServerFits, NEW p \in ProcessIds, Register(p)
  PROVE  ServerFits'
<1> DEFINE t == ProcessThread
           v == [status |-> "running", tail |-> <<>>, omitted |-> 0, watched |-> TRUE]
           w == [status |-> "running", tail |-> <<>>, omitted |-> 0]
           op == [op |-> "process", process |-> p, status |-> "running"]
<1>1. /\ Running /\ Loaded(t) /\ p \notin records /\ LastRun(p) < MaxRuns /\ records' = records \cup {p}
      /\ runs' = Upsert(runs, <<p, LastRun(p) + 1>>, v) /\ processes' = Upsert(processes, p, w)
      /\ UNCHANGED <<stored, issued, saved, active, controller, checkpoints>>
  BY DEF Register
<1>2. PICK s \in ThreadNext(threads[t], op) : threads' = [threads EXCEPT ![t] = s]
  BY DEF Register
<1>3. v \in Runs /\ w \in ProcessStates /\ v.status = "running" /\ v.watched /\ w.status = "running"
  BY DEF Runs, ProcessStates
<1>o. op.op = "process" /\ op.process = p /\ op.status = "running"
  OBVIOUS
<1>d. op = [op |-> "process", process |-> p, status |-> "running"]
  OBVIOUS
<1> HIDE DEF v, w, op, t
<1>0. ListAgrees /\ ThreadsAgree /\ ProcessesAgree /\ ProcessesListed /\ ThreadsFit /\ ProcessesFit /\ RunsFit
  BY <1>1, Agreed DEF ServerFits
<1>4. ProcessShown(p, "running", s)
  <2>1. ThreadFits(threads[t])
    BY <1>0, <1>1 DEF ThreadsFit, Loaded
  <2>2. s.processes = Upsert(threads[t].processes, p, "running")
    BY <2>1, <1>2, <1>o, ThreadOperation
  <2>3. s.processes[p] = "running"
    BY <2>2 DEF Upsert
  <2> QED BY <2>3, <1>2, <1>d DEF ProcessShown, t
<1>5. /\ ThreadsFit' /\ ListAgrees' /\ ThreadsAgree' /\ StoreFits' /\ ControllerFits(controller)'
      /\ Loaded(t)' /\ threads'[t].processes[p] = "running"
      /\ p \in DOMAIN threads'[t].processes /\ DOMAIN processes \subseteq DOMAIN threads'[t].processes
      /\ \A q \in DOMAIN processes : q # p => threads'[t].processes[q] = processes[q].status
  BY <1>1, <1>2, <1>4, SummaryStep DEF t
<1>6. /\ RunsFit' /\ LastRun(p)' = LastRun(p) + 1
      /\ \A q \in ProcessIds : q # p => LastRun(q)' = LastRun(q)
      /\ runs'[<<p, LastRun(p) + 1>>] = v
      /\ \A q, n : <<q, n>> \in DOMAIN runs /\ q # p => runs'[<<q, n>>] = runs[<<q, n>>]
  BY <1>0, <1>1, <1>3, RunAdded
<1>7. DOMAIN processes' = DOMAIN processes \cup {p} /\ processes'[p] = w
      /\ \A q \in DOMAIN processes : q # p => processes'[q] = processes[q]
  BY <1>1 DEF Upsert
<1>8. LastRun(p) \in Nat /\ \A q \in DOMAIN processes : q \in ProcessIds /\ LastRun(q) \in Nat /\ LastRun(q) >= 1
  BY <1>0, NumbersAre DEF ProcessesFit
<1>9. ASSUME NEW q \in DOMAIN processes', q # p
      PROVE  /\ q \in DOMAIN processes /\ q \in ProcessIds /\ LastRun(q)' = LastRun(q)
             /\ processes'[q] = processes[q] /\ runs'[<<q, 1>>] = runs[<<q, 1>>]
             /\ runs'[<<q, LastRun(q)>>] = runs[<<q, LastRun(q)>>]
  <2>1. q \in DOMAIN processes /\ q \in ProcessIds /\ LastRun(q)' = LastRun(q) /\ processes'[q] = processes[q]
    BY <1>6, <1>7, <1>8, <1>9
  <2>2. NumbersOf(q) = 1..LastRun(q) /\ LastRun(q) \in Nat /\ LastRun(q) >= 1
    BY <2>1, <1>0, <1>8 DEF RunsFit
  <2>3. 1 \in NumbersOf(q) /\ LastRun(q) \in NumbersOf(q)
    BY <2>2
  <2>4. <<q, 1>> \in DOMAIN runs /\ <<q, LastRun(q)>> \in DOMAIN runs
    BY <2>3 DEF NumbersOf
  <2> QED BY <2>1, <2>4, <1>6, <1>9
<1>10. ProcessesFit'
  <2>1. ASSUME NEW q \in DOMAIN processes'
        PROVE  /\ q \in ProcessIds /\ processes'[q] \in ProcessStates /\ LastRun(q)' >= 1
               /\ processes'[q].status # "running" /\ LastRun(q)' = 1 => ~runs'[<<q, 1>>].watched
    <3>1. CASE q = p
      BY <3>1, <1>3, <1>6, <1>7, <1>8
    <3>2. CASE q # p
      BY <3>2, <1>0, <1>9 DEF ProcessesFit
    <3> QED BY <3>1, <3>2
  <2> QED BY <2>1 DEF ProcessesFit, ProcessStates
<1>11. \A q \in DOMAIN processes' : ProcessAgrees(q)'
  <2> SUFFICES ASSUME NEW q \in DOMAIN processes' PROVE ProcessAgrees(q)'
    OBVIOUS
  <2>1. CASE q = p
    <3>1. processes'[p].status = "running" /\ runs'[<<p, LastRun(p)'>>].watched
      BY <1>3, <1>6, <1>7
    <3> QED BY <3>1, <2>1, <1>5 DEF ProcessAgrees, t
  <2>2. CASE q # p
    <3>1. ProcessAgrees(q)
      BY <2>2, <1>0, <1>9, ProcessesAgreeIs
    <3> QED BY <3>1, <2>2, <1>5, <1>9 DEF ProcessAgrees, t
  <2> QED BY <2>1, <2>2
<1>12. ProcessesAgree'
  <2>1. records' \subseteq DOMAIN processes'
    BY <1>0, <1>1, <1>7 DEF ProcessesAgree
  <2> QED BY <2>1, <1>11 DEF ProcessesAgree, ProcessAgrees
<1>13. ProcessesListed'
  BY <1>5, <1>7 DEF ProcessesListed, t
<1> QED BY <1>5, <1>6, <1>10, <1>12, <1>13 DEF ServerFits, ViewsAgree

\* A change of one run leaves the others and the numbers.
LEMMA OneRun ==
  ASSUME RunsFit, NEW x \in DOMAIN runs, NEW v \in Runs, runs' = [runs EXCEPT ![x] = v]
  PROVE  /\ RunsFit' /\ (\A p : LastRun(p)' = LastRun(p)) /\ DOMAIN runs' = DOMAIN runs
         /\ runs'[x] = v /\ \A y \in DOMAIN runs : y # x => runs'[y] = runs[y]
<1>1. DOMAIN runs' = DOMAIN runs /\ runs'[x] = v /\ \A y \in DOMAIN runs : y # x => runs'[y] = runs[y]
  OBVIOUS
<1>2. \A y \in DOMAIN runs : runs'[y] \in Runs
  BY <1>1 DEF RunsFit
<1> QED BY <1>1, <1>2, RunsChanged

\* The runs of a process that has a view.
LEMMA RunsOf ==
  ASSUME RunsFit, ProcessesFit, NEW p \in DOMAIN processes
  PROVE  /\ p \in ProcessIds /\ LastRun(p) \in Nat /\ LastRun(p) >= 1
         /\ <<p, 1>> \in DOMAIN runs /\ <<p, LastRun(p)>> \in DOMAIN runs
         /\ \A n : <<p, n>> \in DOMAIN runs => n \in 1..LastRun(p)
<1>1. p \in ProcessIds /\ LastRun(p) \in Nat /\ LastRun(p) >= 1 /\ NumbersOf(p) = 1..LastRun(p)
  BY NumbersAre DEF ProcessesFit
<1>2. 1 \in NumbersOf(p) /\ LastRun(p) \in NumbersOf(p)
  BY <1>1
<1>3. <<p, 1>> \in DOMAIN runs /\ <<p, LastRun(p)>> \in DOMAIN runs
  BY <1>2 DEF NumbersOf
<1>4. \A n : <<p, n>> \in DOMAIN runs => n \in 1..MaxRuns
  BY DEF RunsFit
<1>5. \A n : <<p, n>> \in DOMAIN runs => n \in NumbersOf(p)
  BY <1>4 DEF NumbersOf
<1> QED BY <1>1, <1>3, <1>5

\* What does not touch the views, the store and the list.
LEMMA OnlyRuns ==
  ASSUME ServerFits, RunsFit', \A p : LastRun(p)' = LastRun(p),
         UNCHANGED <<stored, issued, saved, views>>, ProcessesFit', Running => ProcessesAgree'
  PROVE  ServerFits'
<1>1. UNCHANGED <<controller, threads, checkpoints, processes>>
  BY DEF views
<1>2. StoreFits' /\ ControllerFits(controller)' /\ ThreadsFit' /\ (Running' <=> Running)
  BY <1>1 DEF ServerFits, StoreFits, ThreadsFit, Running
<1>3. ASSUME Running PROVE ListAgrees' /\ ThreadsAgree' /\ ProcessesListed'
  <2>0. ListAgrees /\ ThreadsAgree /\ ProcessesListed
    BY <1>3, Agreed
  <2>1. \A u : (Loaded(u)' <=> Loaded(u)) /\ Shown(u)' = Shown(u)
    BY <1>1 DEF Loaded, Shown
  <2>2. ListAgrees'
    BY <2>0, <2>1, <1>1, ListKept
  <2>3. ThreadsAgree'
    BY <2>0, <2>1, <1>1 DEF ThreadsAgree
  <2> QED BY <2>0, <2>2, <2>3, <1>1 DEF ProcessesListed
<1> QED BY <1>2, <1>3 DEF ServerFits, ViewsAgree

\* A process writes, or ends.
LEMMA ProduceFits ==
  ASSUME ServerFits, NEW p, NEW n, Produce(p, n)
  PROVE  ServerFits'
<1> DEFINE x == <<p, n>>
<1>1. /\ x \in DOMAIN runs /\ runs[x].status = "running" /\ runs[x].watched
      /\ UNCHANGED <<stored, issued, saved, active, records, views, conn>>
  BY DEF Produce
<1>0. RunsFit /\ ProcessesFit /\ runs[x] \in Runs
  BY <1>1 DEF ServerFits, RunsFit
<1>2. PICK v \in Runs : runs' = [runs EXCEPT ![x] = v] /\ v.watched
  <2>1. CASE \E char \in Characters :
               LET tail == Append(runs[<<p, n>>].tail, char)
                   over == IF Len(tail) > MaxTail THEN 1 ELSE 0 IN
               runs' = [runs EXCEPT ![<<p, n>>].tail = SubSeq(tail, over + 1, Len(tail)),
                                    ![<<p, n>>].omitted = @ + over]
    <3>1. PICK char \in Characters :
               LET tail == Append(runs[<<p, n>>].tail, char)
                   over == IF Len(tail) > MaxTail THEN 1 ELSE 0 IN
               runs' = [runs EXCEPT ![<<p, n>>].tail = SubSeq(tail, over + 1, Len(tail)),
                                    ![<<p, n>>].omitted = @ + over]
      BY <2>1
    <3> DEFINE tail == Append(runs[<<p, n>>].tail, char)
               over == IF Len(tail) > MaxTail THEN 1 ELSE 0
               v == [runs[x] EXCEPT !.tail = SubSeq(tail, over + 1, Len(tail)), !.omitted = @ + over]
    <3>2. runs' = [runs EXCEPT ![x] = v]
      <4>1. PICK new : new = SubSeq(tail, over + 1, Len(tail))
        OBVIOUS
      <4>2. PICK more : more = over
        OBVIOUS
      <4>3. runs' = [runs EXCEPT ![x].tail = new, ![x].omitted = @ + more]
        BY <3>1, <4>1, <4>2, Zenon
      <4>4. v = [runs[x] EXCEPT !.tail = new, !.omitted = @ + more]
        BY <4>1, <4>2, Zenon
      <4> HIDE DEF v, tail, over, x
      <4>5. runs' = [runs EXCEPT ![x] = [runs[x] EXCEPT !.tail = new, !.omitted = @ + more]]
        BY <4>3
      <4> QED BY <4>4, <4>5
    <3>3. tail \in Seq(Characters) /\ over \in Nat
      BY <1>0 DEF Runs
    <3>4. SubSeq(tail, over + 1, Len(tail)) \in Seq(Characters) /\ runs[x].omitted + over \in Nat
      BY <3>3, <1>0 DEF Runs
    <3> HIDE DEF tail, over
    <3>5. v \in Runs /\ v.watched
      BY <3>4, <1>0, <1>1 DEF Runs
    <3> QED BY <3>2, <3>5
  <2>2. CASE runs' = [runs EXCEPT ![<<p, n>>].status = "exited"]
    <3>1. runs' = [runs EXCEPT ![x] = [runs[x] EXCEPT !.status = "exited"]]
      BY <2>2
    <3>2. [runs[x] EXCEPT !.status = "exited"] \in Runs /\ [runs[x] EXCEPT !.status = "exited"].watched
      BY <1>0, <1>1 DEF Runs
    <3> QED BY <3>1, <3>2
  <2> QED BY <2>1, <2>2 DEF Produce
<1>3. /\ RunsFit' /\ (\A q : LastRun(q)' = LastRun(q)) /\ DOMAIN runs' = DOMAIN runs
      /\ runs'[x] = v /\ \A y \in DOMAIN runs : y # x => runs'[y] = runs[y]
  BY <1>0, <1>1, <1>2, OneRun
<1>4. UNCHANGED <<processes, threads, records, controller>>
  BY <1>1 DEF views
<1>5. \A y \in DOMAIN runs : runs'[y].watched = runs[y].watched
  <2> SUFFICES ASSUME NEW y \in DOMAIN runs PROVE runs'[y].watched = runs[y].watched
    OBVIOUS
  <2>1. runs[x].watched = TRUE /\ v.watched = TRUE
    BY <1>0, <1>1, <1>2 DEF Runs
  <2> QED BY <2>1, <1>3
<1>6. ProcessesFit'
  <2>1. \A q \in DOMAIN processes : <<q, 1>> \in DOMAIN runs
    BY <1>0, RunsOf
  <2> QED BY <2>1, <1>0, <1>3, <1>4, <1>5 DEF ProcessesFit, ProcessStates
<1>7. ASSUME Running PROVE ProcessesAgree'
  <2>0. ProcessesAgree
    BY <1>7, Agreed
  <2>1. ASSUME NEW q \in DOMAIN processes PROVE ProcessAgrees(q)'
    <3>1. <<q, LastRun(q)>> \in DOMAIN runs /\ <<q, 1>> \in DOMAIN runs
      BY <1>0, RunsOf
    <3>2. ProcessAgrees(q)
      BY <2>0, ProcessesAgreeIs
    <3>3. ASSUME processes[q].status = "exited", LastRun(q) = 1 PROVE runs'[<<q, 1>>] = runs[<<q, 1>>]
      <4>1. ~runs[<<q, 1>>].watched
        BY <3>3, <1>0 DEF ProcessesFit
      <4>2. <<q, 1>> # x
        BY <4>1, <1>1
      <4> QED BY <4>2, <3>1, <1>3
    <3>4. Loaded(ProcessThread)' <=> Loaded(ProcessThread)
      BY <1>4 DEF Loaded
    <3> QED BY <3>1, <3>2, <3>3, <3>4, <1>3, <1>4, <1>5 DEF ProcessAgrees
  <2> QED BY <2>0, <2>1, <1>4, ProcessesAgreeIs DEF ProcessesAgree, ProcessAgrees
<1>8. UNCHANGED <<stored, issued, saved, views>>
  BY <1>1
<1> QED BY <1>3, <1>6, <1>7, <1>8, OnlyRuns

\* A process stopped by a client.
LEMMA StopProcessFits ==
  ASSUME ServerFits, NEW p, StopProcess(p)
  PROVE  ServerFits'
<1> DEFINE x == <<p, LastRun(p)>>
           v == [runs[x] EXCEPT !.status = "exited"]
<1>1. /\ Running /\ p \in records /\ runs' = [runs EXCEPT ![x].status = "exited"] /\ records' = records \ {p}
      /\ UNCHANGED <<stored, issued, saved, active, views, conn>>
  BY DEF StopProcess
<1>0. RunsFit /\ ProcessesFit /\ ProcessesAgree
  BY <1>1, Agreed DEF ServerFits
<1>2. p \in DOMAIN processes
  BY <1>0, <1>1 DEF ProcessesAgree
<1>3. x \in DOMAIN runs /\ runs[x] \in Runs
  BY <1>0, <1>2, RunsOf DEF RunsFit
<1>4. v \in Runs /\ v.watched = runs[x].watched /\ v.tail = runs[x].tail
  BY <1>3 DEF Runs
<1>5. runs' = [runs EXCEPT ![x] = v]
  BY <1>1
<1> HIDE DEF v, x
<1>6. /\ RunsFit' /\ (\A q : LastRun(q)' = LastRun(q)) /\ DOMAIN runs' = DOMAIN runs
      /\ runs'[x] = v /\ \A y \in DOMAIN runs : y # x => runs'[y] = runs[y]
  BY <1>0, <1>3, <1>4, <1>5, OneRun
<1>7. \A y \in DOMAIN runs : runs'[y].watched = runs[y].watched /\ runs'[y].tail = runs[y].tail
  BY <1>4, <1>6
<1>8. UNCHANGED <<processes, threads, controller>>
  BY <1>1 DEF views
<1>9. ProcessesFit'
  <2>1. \A q \in DOMAIN processes : <<q, 1>> \in DOMAIN runs
    BY <1>0, RunsOf
  <2> QED BY <2>1, <1>0, <1>6, <1>7, <1>8 DEF ProcessesFit, ProcessStates
<1>10. ProcessesAgree'
  <2>1. ASSUME NEW q \in DOMAIN processes PROVE ProcessAgrees(q)'
    <3>1. <<q, LastRun(q)>> \in DOMAIN runs /\ <<q, 1>> \in DOMAIN runs
      BY <1>0, RunsOf
    <3>2. ProcessAgrees(q)
      BY <1>0, ProcessesAgreeIs
    <3>3. Loaded(ProcessThread)' <=> Loaded(ProcessThread)
      BY <1>8 DEF Loaded
    <3> QED BY <3>1, <3>2, <3>3, <1>6, <1>7, <1>8 DEF ProcessAgrees
  <2>2. records' \subseteq DOMAIN processes'
    BY <1>0, <1>1, <1>8 DEF ProcessesAgree
  <2> QED BY <2>1, <2>2, <1>8 DEF ProcessesAgree, ProcessAgrees
<1>11. UNCHANGED <<stored, issued, saved, views>>
  BY <1>1
<1> QED BY <1>6, <1>9, <1>10, <1>11, OnlyRuns

\* The watcher reports: the view and the summary follow, or the report is refused.
LEMMA SynchronizeFits ==
  ASSUME ServerFits, NEW p, NEW n, <<p, n>> \in DOMAIN runs, NEW r, Reports(r),
         r.status \in {"running", "exited", "unavailable"},
         r.status = "running" \/ r.status = "exited" => r.tail = runs[<<p, n>>].tail,
         Synchronize(p, n, r)
  PROVE  ServerFits'
<1> DEFINE x == <<p, n>>
           t == ProcessThread
           known == Running /\ p \in DOMAIN processes /\ Loaded(t)
           news == OutputNews(processes[p], r) \o StatusNews(processes[p], r)
           summary == IF StatusNews(processes[p], r) = <<>> THEN <<>>
                      ELSE <<[op |-> "process", process |-> p, status |-> r.status]>>
           results == IF known THEN Applied("process", processes[p], news) ELSE {}
           v == [runs[x] EXCEPT !.watched = results # {} /\ r.status = "running"]
<1>1. runs' = [runs EXCEPT ![<<p, n>>].watched = results # {} /\ r.status = "running"]
      /\ UNCHANGED <<stored, issued, saved, active, records, steps>>
  BY DEF Synchronize
<1>2. results = {} => UNCHANGED <<views, conn>>
  BY DEF Synchronize
<1>3. results # {} =>
        /\ \E s \in results : processes' = [processes EXCEPT ![p] = s]
        /\ \E s \in Applied("thread", threads[t], summary) : threads' = [threads EXCEPT ![t] = s]
        /\ UNCHANGED <<controller, checkpoints>>
  BY DEF Synchronize
<1>4. runs' = [runs EXCEPT ![x] = v]
  BY <1>1
<1>0. RunsFit /\ ProcessesFit /\ runs[x] \in Runs
  BY DEF ServerFits, RunsFit
<1> HIDE DEF results, known
<1>5. v \in Runs /\ v.watched = (results # {} /\ r.status = "running") /\ v.tail = runs[x].tail
  BY <1>0 DEF Runs
<1> HIDE DEF v, news, summary
<1>6. /\ RunsFit' /\ (\A q : LastRun(q)' = LastRun(q)) /\ DOMAIN runs' = DOMAIN runs
      /\ runs'[x] = v /\ \A y \in DOMAIN runs : y # x => runs'[y] = runs[y]
  BY <1>0, <1>4, <1>5, OneRun
<1>7. \A y \in DOMAIN runs : runs'[y].tail = runs[y].tail
  BY <1>5, <1>6
<1>8. \A q \in DOMAIN processes : /\ <<q, LastRun(q)>> \in DOMAIN runs /\ <<q, 1>> \in DOMAIN runs
                                  /\ LastRun(q) \in Nat /\ LastRun(q) >= 1 /\ q \in ProcessIds
                                  /\ \A m : <<q, m>> \in DOMAIN runs => m \in 1..LastRun(q)
  BY <1>0, RunsOf
<1>r. \A s : s \in ProcessStates => s.omitted \in Nat
  BY DEF ProcessStates
<1>a. CASE results = {}
  <2>1. UNCHANGED <<controller, threads, checkpoints, processes>>
    BY <1>a, <1>2 DEF views
  <2>2. v.watched = FALSE
    BY <1>a, <1>5
  <2>3. \A y \in DOMAIN runs : ~runs[y].watched => ~runs'[y].watched
    BY <2>2, <1>6
  <2>4. ProcessesFit'
    BY <2>1, <2>3, <1>0, <1>6, <1>8 DEF ProcessesFit, ProcessStates
  <2>5. ASSUME Running PROVE ProcessesAgree'
    <3>0. ProcessesAgree
      BY <2>5, Agreed
    <3>1. ASSUME NEW q \in DOMAIN processes PROVE ProcessAgrees(q)'
      <4>1. ProcessAgrees(q) /\ (Loaded(t)' <=> Loaded(t))
        BY <3>0, <2>1, ProcessesAgreeIs DEF Loaded
      <4>2. ASSUME processes[q].status = "running", LastRun(q) = 1, processes[q].omitted = 0
            PROVE  <<q, 1>> # x
        <5>1. SUFFICES ASSUME q = p, n = 1 PROVE FALSE
          OBVIOUS
        <5>2. known
          BY <5>1, <4>1, <2>5 DEF known, ProcessAgrees
        <5>3. results = Applied("process", processes[p], news)
          BY <5>2 DEF results
        <5>4. processes[p] \in ProcessStates
          BY <5>1, <1>0 DEF ProcessesFit
        <5>5. processes[p].omitted > 0 \/ processes[p].status # "running"
          BY <5>3, <5>4, <1>a, NewsShown DEF news
        <5> QED BY <5>1, <5>5, <4>2
      <4>3. processes[q].omitted \in Nat
        BY <1>0, <1>r DEF ProcessesFit
      <4>4. ASSUME processes[q].status = "running"
            PROVE  runs'[<<q, LastRun(q)>>].watched \/ processes[q].omitted > 0 \/ LastRun(q) > 1
        <5>1. CASE LastRun(q) = 1 /\ processes[q].omitted = 0
          <6>1. runs[<<q, LastRun(q)>>].watched
            BY <5>1, <4>1, <4>4 DEF ProcessAgrees
          <6> QED BY <6>1, <5>1, <4>2, <4>4, <1>6, <1>8
        <5>2. CASE ~(LastRun(q) = 1 /\ processes[q].omitted = 0)
          <6>1. LastRun(q) \in Nat /\ LastRun(q) >= 1
            BY <1>8
          <6>2. processes[q].omitted > 0 \/ LastRun(q) > 1
            BY <5>2, <6>1, <4>3
          <6> QED BY <6>2
        <5> QED BY <5>1, <5>2
      <4> HIDE DEF t
      <4> QED BY <4>1, <4>4, <2>1, <1>6, <1>7, <1>8 DEF ProcessAgrees, t
    <3> QED BY <3>0, <3>1, <2>1, <1>1, ProcessesAgreeIs DEF ProcessesAgree, ProcessAgrees
  <2>6. UNCHANGED <<stored, issued, saved, views>>
    BY <1>a, <1>1, <1>2
  <2> QED BY <2>4, <2>5, <2>6, <1>6, OnlyRuns
<1>b. CASE results # {}
  <2>1. known /\ results = Applied("process", processes[p], news)
    BY <1>b DEF results
  <2>2. Running /\ p \in DOMAIN processes /\ Loaded(t)
    BY <2>1 DEF known
  <2>0. ProcessesAgree /\ ProcessesListed
    BY <2>2, Agreed
  <2>3. processes[p] \in ProcessStates /\ p \in ProcessIds
    BY <2>2, <1>0 DEF ProcessesFit
  <2>4. PICK s \in results : processes' = [processes EXCEPT ![p] = s]
    BY <1>b, <1>3
  <2>5. s = [status |-> r.status, tail |-> r.tail, omitted |-> r.omitted]
    BY <2>1, <2>3, <2>4, NewsShown DEF news
  <2>6. s \in ProcessStates /\ s.status = r.status /\ s.tail = r.tail
    BY <2>5 DEF ProcessStates, Reports
  <2>7. DOMAIN processes' = DOMAIN processes /\ processes'[p] = s
        /\ \A q \in DOMAIN processes : q # p => processes'[q] = processes[q]
    BY <2>2, <2>4
  <2>8. PICK w \in Applied("thread", threads[t], summary) : threads' = [threads EXCEPT ![t] = w]
    BY <1>b, <1>3
  <2>9. ProcessShown(p, r.status, w)
    <3> DEFINE op == [op |-> "process", process |-> p, status |-> r.status]
    <3>0. threads[t].processes[p] = processes[p].status
      BY <2>0, <2>2 DEF ProcessesAgree
    <3>1. CASE r.status = processes[p].status
      <4>1. summary = <<>>
        BY <3>1 DEF summary, StatusNews
      <4>2. w = threads[t]
        BY <4>1, <2>8, AppliedNone
      <4> QED BY <4>2, <3>0, <3>1, <2>2 DEF ProcessShown
    <3>2. CASE r.status # processes[p].status
      <4>1. summary = <<op>>
        BY <3>2 DEF summary, StatusNews
      <4>o. op.op = "process" /\ op.process = p /\ op.status = r.status
        OBVIOUS
      <4>d. op = [op |-> "process", process |-> p, status |-> r.status]
        OBVIOUS
      <4> HIDE DEF op
      <4>2. w \in ThreadNext(threads[t], op)
        BY <4>1, <2>8, AppliedOne DEF StateNext
      <4>3. ThreadFits(threads[t])
        BY <2>2 DEF ServerFits, ThreadsFit, Loaded
      <4>4. w.processes = Upsert(threads[t].processes, p, r.status)
        BY <4>2, <4>3, <4>o, ThreadOperation
      <4>5. w.processes[p] = r.status
        BY <4>4 DEF Upsert
      <4> QED BY <4>2, <4>5, <4>d DEF ProcessShown
    <3> QED BY <3>1, <3>2
  <2>10. UNCHANGED <<stored, issued, saved, active, controller, checkpoints>>
    BY <1>b, <1>1, <1>3
  <2>11. /\ ThreadsFit' /\ ListAgrees' /\ ThreadsAgree' /\ StoreFits' /\ ControllerFits(controller)'
         /\ Loaded(t)' /\ threads'[t].processes[p] = r.status
         /\ p \in DOMAIN threads'[t].processes /\ DOMAIN processes \subseteq DOMAIN threads'[t].processes
         /\ \A q \in DOMAIN processes : q # p => threads'[t].processes[q] = processes[q].status
    BY <2>2, <2>8, <2>9, <2>10, SummaryStep
  <2>12. v.watched = (r.status = "running")
    BY <1>b, <1>5
  <2>13. ASSUME NEW q \in DOMAIN processes, q # p
         PROVE  /\ processes'[q] = processes[q] /\ runs'[<<q, 1>>] = runs[<<q, 1>>]
                /\ runs'[<<q, LastRun(q)>>] = runs[<<q, LastRun(q)>>]
    BY <2>7, <2>13, <1>6, <1>8
  <2>14. LastRun(p) = 1 => n = 1
    <3>1. n \in 1..LastRun(p)
      BY <2>2, <1>8
    <3> QED BY <3>1
  <2>15. ProcessesFit'
    <3>1. ASSUME NEW q \in DOMAIN processes'
          PROVE  /\ q \in ProcessIds /\ processes'[q] \in ProcessStates /\ LastRun(q)' >= 1
                 /\ processes'[q].status # "running" /\ LastRun(q)' = 1 => ~runs'[<<q, 1>>].watched
      <4>1. CASE q = p
        BY <4>1, <2>2, <2>3, <2>6, <2>7, <2>12, <2>14, <1>6, <1>8
      <4>2. CASE q # p
        BY <4>2, <2>7, <2>13, <1>0, <1>6 DEF ProcessesFit
      <4> QED BY <4>1, <4>2
    <3> QED BY <3>1 DEF ProcessesFit, ProcessStates
  <2>16. ASSUME NEW q \in DOMAIN processes PROVE ProcessAgrees(q)'
    <3>1. CASE q = p
      <4>1. processes'[p].status = "running" =>
              runs'[<<p, LastRun(p)>>].watched \/ LastRun(p) > 1
        <5>1. CASE LastRun(p) = 1
          BY <5>1, <2>6, <2>7, <2>12, <2>14, <1>6
        <5>2. CASE LastRun(p) # 1
          <6>1. LastRun(p) \in Nat /\ LastRun(p) >= 1
            BY <2>2, <1>8
          <6>2. LastRun(p) > 1
            BY <5>2, <6>1
          <6> QED BY <6>2
        <5> QED BY <5>1, <5>2
      <4>2. processes'[p].status = "exited" /\ LastRun(p) = 1 => processes'[p].tail = runs'[<<p, 1>>].tail
        BY <2>6, <2>7, <2>14, <1>5, <1>6
      <4> QED BY <3>1, <4>1, <4>2, <2>6, <2>7, <2>11, <1>6 DEF ProcessAgrees
    <3>2. CASE q # p
      <4>1. ProcessAgrees(q)
        BY <2>0, ProcessesAgreeIs
      <4> QED BY <4>1, <3>2, <2>11, <2>13, <1>6 DEF ProcessAgrees
    <3> QED BY <3>1, <3>2
  <2>17. ProcessesAgree' /\ ProcessesListed'
    <3>1. records' \subseteq DOMAIN processes'
      BY <2>0, <2>7, <1>1 DEF ProcessesAgree
    <3>2. ProcessesAgree'
      BY <3>1, <2>7, <2>16 DEF ProcessesAgree, ProcessAgrees
    <3> QED BY <3>2, <2>7, <2>11 DEF ProcessesListed
  <2> QED BY <2>11, <2>15, <2>17, <1>6 DEF ServerFits, ViewsAgree
<1> QED BY <1>a, <1>b

\* The watcher reads the state of the process, or loses it.
LEMMA WatchFits ==
  ASSUME ServerFits, NEW p, NEW n, Watch(p, n) \/ LoseWatch(p, n)
  PROVE  ServerFits'
<1>1. CASE Watch(p, n)
  <2> DEFINE x == runs[<<p, n>>]
             r == [status |-> x.status, tail |-> x.tail, omitted |-> x.omitted]
  <2>1. <<p, n>> \in DOMAIN runs /\ Synchronize(p, n, r)
    BY <1>1 DEF Watch
  <2>2. x \in Runs
    BY <2>1 DEF ServerFits, RunsFit
  <2>3. Reports(r) /\ r.status \in {"running", "exited", "unavailable"} /\ r.tail = runs[<<p, n>>].tail
    BY <2>2 DEF Reports, Runs
  <2> HIDE DEF r
  <2> QED BY <2>1, <2>3, SynchronizeFits
<1>2. CASE LoseWatch(p, n)
  <2> DEFINE r == [status |-> "unavailable", tail |-> <<>>, omitted |-> 0]
  <2>1. <<p, n>> \in DOMAIN runs /\ Synchronize(p, n, r)
    BY <1>2 DEF LoseWatch
  <2>2. Reports(r) /\ r.status = "unavailable"
    BY DEF Reports
  <2> HIDE DEF r
  <2> QED BY <2>1, <2>2, SynchronizeFits
<1> QED BY <1>1, <1>2

-----------------------------------------------------------------------------
(* The views agree.                                                        *)

\* What the Controller holds does not depend on the registry and on the clients.
LEMMA UntouchedFits ==
  ASSUME ServerFits, UNCHANGED <<stored, issued, saved, records, runs, views>>
  PROVE  ServerFits'
<1>1. UNCHANGED <<controller, threads, checkpoints, processes>>
  BY DEF views
<1>2. RunsFit /\ ProcessesFit
  BY DEF ServerFits
<1>3. RunsFit' /\ ProcessesFit'
  BY <1>1, <1>2, RunsKept, ProcessesFitKept
<1>4. \A p : LastRun(p)' = LastRun(p)
  BY DEF LastRun
<1>5. ASSUME Running PROVE ProcessesAgree'
  <2>1. ProcessesAgree /\ ProcessesListed
    BY <1>5, Agreed
  <2>2. Loaded(ProcessThread)' <=> Loaded(ProcessThread)
    BY <1>1 DEF Loaded
  <2> QED BY <2>1, <2>2, <1>1, ProcessesKept
<1> QED BY <1>3, <1>4, <1>5, OnlyRuns

\* The steps of a turn.
LEMMA TurnsFit ==
  ASSUME ServerFits, NEW t,
         \/ BeginTurn(t) \/ ShowTurn(t) \/ AbandonTurn(t) \/ AppendEvent(t) \/ ChangeTurn(t) \/ FinishTurn(t)
         \/ NameThread(t) \/ SaveUnseen(t)
  PROVE  ServerFits'
<1>1. CASE BeginTurn(t)
  BY <1>1, MaterializeFits DEF BeginTurn
<1>2. CASE ShowTurn(t)
  <2>1. PICK phase : ApplyThread(t, [op |-> "started", phase |-> phase])
    BY <1>2 DEF ShowTurn
  <2>2. UNCHANGED <<stored, issued, saved, records, runs>>
    BY <1>2 DEF ShowTurn, world
  <2>3. [op |-> "started", phase |-> phase].op \in TurnOps
    BY DEF TurnOps
  <2> QED BY <2>1, <2>2, <2>3, TurnStep
<1>3. CASE AbandonTurn(t)
  BY <1>3, UntouchedFits DEF AbandonTurn
<1>4. CASE AppendEvent(t)
  BY <1>4, AppendEventFits
<1>5. CASE ChangeTurn(t)
  <2>1. UNCHANGED <<stored, issued, saved, records, runs>>
    BY <1>5 DEF ChangeTurn, world
  <2>2. PICK op : op.op \in TurnOps /\ ApplyThread(t, op)
    <3>1. CASE \E phase \in {"running", "compacting", "cancelling"} :
                 ApplyThread(t, [op |-> "phase", phase |-> phase])
      <4>1. PICK phase : ApplyThread(t, [op |-> "phase", phase |-> phase])
        BY <3>1
      <4>2. [op |-> "phase", phase |-> phase].op \in TurnOps
        BY DEF TurnOps
      <4> QED BY <4>1, <4>2
    <3>2. CASE ApplyThread(t, [op |-> "retry", retry |-> 1])
      <4>1. [op |-> "retry", retry |-> 1].op \in TurnOps
        BY DEF TurnOps
      <4> QED BY <4>1, <3>2
    <3>3. CASE \E kind \in {"questions", "approval"} :
                 ApplyThread(t, [op |-> "requested", interaction |-> [kind |-> kind, id |-> steps]])
      <4>1. PICK kind : ApplyThread(t, [op |-> "requested", interaction |-> [kind |-> kind, id |-> steps]])
        BY <3>3
      <4>2. [op |-> "requested", interaction |-> [kind |-> kind, id |-> steps]].op \in TurnOps
        BY DEF TurnOps
      <4> QED BY <4>1, <4>2
    <3>4. CASE Loaded(t) /\ \E turn \in threads[t].turn : \E p \in turn.pending :
                 ApplyThread(t, [op |-> "resolved", id |-> p.id])
      <4>1. PICK id : ApplyThread(t, [op |-> "resolved", id |-> id])
        BY <3>4
      <4>2. [op |-> "resolved", id |-> id].op \in TurnOps
        BY DEF TurnOps
      <4> QED BY <4>1, <4>2
    <3> QED BY <3>1, <3>2, <3>3, <3>4, <1>5 DEF ChangeTurn
  <2> QED BY <2>1, <2>2, TurnStep
<1>6. CASE FinishTurn(t)
  <2>1. PICK outcome : ApplyThread(t, [op |-> "finished", outcome |-> outcome])
    BY <1>6 DEF FinishTurn
  <2>2. UNCHANGED <<stored, issued, saved, records, runs>>
    BY <1>6 DEF FinishTurn
  <2>3. [op |-> "finished", outcome |-> outcome].op \in TurnOps
    BY DEF TurnOps
  <2> QED BY <2>1, <2>2, <2>3, TurnStep
<1>7. CASE NameThread(t)
  BY <1>7, EntitleFits DEF NameThread
<1>8. CASE SaveUnseen(t)
  BY <1>8, SaveUnseenFits
<1> QED BY <1>1, <1>2, <1>3, <1>4, <1>5, <1>6, <1>7, <1>8

\* Providers and Runners in the view of the Controller.
LEMMA OthersFit ==
  ASSUME ServerFits, StartProvider("provider") \/ EndProvider("provider")
                     \/ LaunchRunner("runner") \/ ShowRunner("runner")
  PROVE  ServerFits'
<1>1. UNCHANGED world
  BY DEF StartProvider, EndProvider, LaunchRunner, ShowRunner
<1>2. PICK op : op.op \in {"provider", "runner"} /\ ApplyController(op)
  <2>1. CASE StartProvider("provider")
    <3>1. PICK lifecycle :
            ApplyController([op |-> "provider", id |-> "provider", provider |-> [lifecycle |-> lifecycle]])
      BY <2>1 DEF StartProvider
    <3>2. [op |-> "provider", id |-> "provider", provider |-> [lifecycle |-> lifecycle]].op = "provider"
      OBVIOUS
    <3> QED BY <3>1, <3>2
  <2>2. CASE EndProvider("provider")
    <3>1. PICK lifecycle :
            ApplyController([op |-> "provider", id |-> "provider", provider |-> [lifecycle |-> lifecycle]])
      BY <2>2 DEF EndProvider
    <3>2. [op |-> "provider", id |-> "provider", provider |-> [lifecycle |-> lifecycle]].op = "provider"
      OBVIOUS
    <3> QED BY <3>1, <3>2
  <2>3. CASE LaunchRunner("runner")
    <3>1. ApplyController([op |-> "runner", name |-> "runner", runner |-> "launching"])
      BY <2>3 DEF LaunchRunner
    <3>2. [op |-> "runner", name |-> "runner", runner |-> "launching"].op = "runner"
      OBVIOUS
    <3> QED BY <3>1, <3>2
  <2>4. CASE ShowRunner("runner")
    <3>1. PICK lifecycle : ApplyController([op |-> "runner", name |-> "runner", runner |-> lifecycle])
      BY <2>4 DEF ShowRunner
    <3>2. [op |-> "runner", name |-> "runner", runner |-> lifecycle].op = "runner"
      OBVIOUS
    <3> QED BY <3>1, <3>2
  <2> QED BY <2>1, <2>2, <2>3, <2>4
<1> QED BY <1>1, <1>2, ControllerApplied

\* What a client makes the Controller load.
LEMMA PrepareFits ==
  ASSUME ServerFits, NEW c, Prepare(c)
  PROVE  ServerFits'
<1> DEFINE topic == conn[c].topic
<1>1. UNCHANGED <<stored, issued, saved, active, records, runs, controller, processes, steps>>
  BY DEF Prepare, world
<1>2. CASE Running /\ topic.kind = "thread" /\ topic.id \in DOMAIN stored
           /\ Materialize(topic.id) /\ UNCHANGED checkpoints
  BY <1>1, <1>2, MaterializeFits
<1>3. CASE Running /\ topic.kind = "checkpoint" /\ topic.id \in DOMAIN saved
           /\ checkpoints' = (IF topic.id \in DOMAIN checkpoints THEN checkpoints
                              ELSE Upsert(checkpoints, topic.id, saved[topic.id]))
           /\ UNCHANGED threads
  <2> HIDE DEF topic
  <2>0. ListAgrees /\ ThreadsAgree /\ ProcessesAgree /\ ProcessesListed
    BY <1>3, Agreed
  <2>1. \A u : (Loaded(u)' <=> Loaded(u)) /\ Shown(u)' = Shown(u)
    BY <1>1, <1>3 DEF Loaded, Shown
  <2>2. ListAgrees'
    BY <2>0, <2>1, <1>1, <1>3, ListKept
  <2>3. ProcessesAgree' /\ ProcessesListed'
    BY <2>0, <2>1, <1>1, <1>3, ProcessesKept
  <2>4. \A k \in DOMAIN checkpoints' : k \in DOMAIN saved /\ checkpoints'[k] = saved[k]
    <3>1. \A k \in DOMAIN checkpoints : k \in DOMAIN saved /\ checkpoints[k] = saved[k]
      BY <2>0 DEF ThreadsAgree
    <3>2. CASE topic.id \in DOMAIN checkpoints
      BY <3>1, <3>2, <1>3
    <3>3. CASE topic.id \notin DOMAIN checkpoints
      BY <3>1, <3>3, <1>3 DEF Upsert
    <3> QED BY <3>2, <3>3
  <2>5. ThreadsAgree'
    BY <2>0, <2>1, <2>4, <1>1, <1>3 DEF ThreadsAgree
  <2>6. StoreFits' /\ ThreadsFit' /\ ControllerFits(controller)' /\ (Running' => Running)
    BY <1>1, <1>3 DEF ServerFits, StoreFits, ThreadsFit
  <2> QED BY <2>2, <2>3, <2>5, <2>6, <1>1, ServerKept
<1>4. CASE UNCHANGED <<threads, checkpoints>>
  <2>1. UNCHANGED views
    BY <1>1, <1>4 DEF views
  <2> QED BY <2>1, <1>1, UntouchedFits
<1> QED BY <1>2, <1>3, <1>4 DEF Prepare

\* The other steps of clients leave the views alone.
LEMMA ClientsFit ==
  ASSUME ServerFits, NEW c, Serve(c) \/ Leave(c) \/ \E topic \in Topics : Ask(c, topic)
  PROVE  ServerFits'
<1>1. CASE Prepare(c)
  BY <1>1, PrepareFits
<1>2. CASE PrepareProcess(c) \/ Attach(c) \/ Deliver(c) \/ Close(c) \/ Leave(c) \/ \E topic \in Topics : Ask(c, topic)
  <2>1. UNCHANGED <<world, views>>
    BY <1>2 DEF PrepareProcess, Attach, Deliver, Close, Leave, Ask
  <2>2. UNCHANGED <<stored, issued, saved, records, runs, views>>
    BY <2>1 DEF world
  <2> QED BY <2>2, UntouchedFits
<1> QED BY <1>1, <1>2 DEF Serve

\* What the Controller holds fits after every step.
LEMMA ServerNext ==
  ASSUME ServerFits, [Next]_vars
  PROVE  ServerFits'
<1>1. CASE UNCHANGED vars
  <2>1. UNCHANGED <<stored, issued, saved, records, runs, views>>
    BY <1>1 DEF vars, world
  <2> QED BY <2>1, UntouchedFits
<1>2. CASE Change
  <2>1. ASSUME NEW t \in ThreadIds,
               \/ CreateThread(t, <<>>) \/ LoadThread(t) \/ UpdateMetadata(t) \/ DeleteThread(t)
               \/ BeginTurn(t) \/ ShowTurn(t) \/ AbandonTurn(t) \/ AppendEvent(t) \/ ChangeTurn(t)
               \/ FinishTurn(t) \/ NameThread(t) \/ SaveUnseen(t)
               \/ \E of \in ThreadIds : ForkThread(t, of)
               \/ \E k \in CheckpointIds : CreateCheckpoint(t, k) \/ ReplaceHistory(t, k)
        PROVE  ServerFits'
    <3>1. CASE CreateThread(t, <<>>)
      <4>1. Numbered(<<>>)
        BY None DEF Numbered
      <4> QED BY <4>1, <3>1, CreateThreadFits
    <3>2. CASE LoadThread(t)
      <4>1. UNCHANGED <<stored, issued, saved, records, runs, controller, checkpoints, processes>>
        BY <3>2 DEF LoadThread, world
      <4> QED BY <4>1, <3>2, MaterializeFits DEF LoadThread
    <3>3. CASE UpdateMetadata(t)
      BY <3>3, EntitleFits DEF UpdateMetadata
    <3>4. CASE DeleteThread(t)
      BY <3>4, DeleteThreadFits
    <3>5. CASE \/ BeginTurn(t) \/ ShowTurn(t) \/ AbandonTurn(t) \/ AppendEvent(t) \/ ChangeTurn(t) \/ FinishTurn(t)
               \/ NameThread(t) \/ SaveUnseen(t)
      BY <3>5, TurnsFit
    <3>6. CASE \E of \in ThreadIds : ForkThread(t, of)
      <4>1. PICK of \in DOMAIN stored : \E n \in 0..Len(stored[of].events) :
                                         CreateThread(t, SubSeq(stored[of].events, 1, n))
        BY <3>6 DEF ForkThread
      <4>2. PICK n \in 0..Len(stored[of].events) : CreateThread(t, SubSeq(stored[of].events, 1, n))
        BY <4>1
      <4>3. Numbered(SubSeq(stored[of].events, 1, n))
        BY PrefixNumbered DEF ServerFits, StoreFits, RowFits
      <4> QED BY <4>2, <4>3, CreateThreadFits
    <3>7. CASE \E k \in CheckpointIds : CreateCheckpoint(t, k) \/ ReplaceHistory(t, k)
      BY <3>7, CreateCheckpointFits, ReplaceHistoryFits
    <3> QED BY <2>1, <3>1, <3>2, <3>3, <3>4, <3>5, <3>6, <3>7
  <2>2. ASSUME NEW p \in ProcessIds,
               \/ Register(p) \/ StopProcess(p)
               \/ \E n \in 1..MaxRuns : Produce(p, n) \/ Watch(p, n) \/ LoseWatch(p, n)
        PROVE  ServerFits'
    <3>1. CASE Register(p)
      BY <3>1, RegisterFits
    <3>2. CASE StopProcess(p)
      BY <3>2, StopProcessFits
    <3>3. CASE \E n \in 1..MaxRuns : Produce(p, n) \/ Watch(p, n) \/ LoseWatch(p, n)
      BY <3>3, ProduceFits, WatchFits
    <3> QED BY <2>2, <3>1, <3>2, <3>3
  <2>3. CASE StartProvider("provider") \/ EndProvider("provider") \/ LaunchRunner("runner") \/ ShowRunner("runner")
    BY <2>3, OthersFit
  <2>4. CASE ShutDown
    BY <2>4, ShutDownFits
  <2> QED BY <1>2, <2>1, <2>2, <2>3, <2>4 DEF Change
<1>3. CASE \E c \in Clients : Serve(c) \/ Leave(c) \/ \E topic \in Topics : Ask(c, topic)
  BY <1>3, ClientsFit
<1> QED BY <1>1, <1>2, <1>3 DEF Next

\* It fits at the start.
LEMMA ServerStarts ==
  ASSUME Init
  PROVE  ServerFits
<1> DEFINE first == [id |-> ProcessThread, title |-> 0]
<1>1. /\ stored = [t \in {ProcessThread} |-> NewRow(<<[sequence |-> 1]>>)]
      /\ issued = {ProcessThread} /\ saved = <<>> /\ records = {} /\ runs = <<>>
      /\ threads = <<>> /\ checkpoints = <<>> /\ processes = <<>>
      /\ controller = NewController(<<first>>, [p \in {"provider"} |-> [lifecycle |-> "ready"]])
  BY DEF Init
<1>2. /\ DOMAIN saved = {} /\ DOMAIN runs = {} /\ DOMAIN threads = {} /\ DOMAIN checkpoints = {}
      /\ DOMAIN processes = {}
  BY <1>1, None
<1>3. DOMAIN stored = {ProcessThread} /\ stored[ProcessThread] = NewRow(<<[sequence |-> 1]>>)
  BY <1>1
<1>n. Numbered(<<[sequence |-> 1]>>)
  <2>1. IsSeq(<<[sequence |-> 1]>>) /\ <<[sequence |-> 1]>>[1].sequence = 1 /\ DOMAIN <<[sequence |-> 1]>> = {1}
    BY Single
  <2> QED BY <2>1 DEF Numbered
<1>r. /\ stored[ProcessThread].title = 0 /\ stored[ProcessThread].shown = 0
      /\ stored[ProcessThread].unseen = {} /\ RowFits(stored[ProcessThread])
  BY <1>3, <1>n DEF NewRow, RowFits
<1>4. StoreFits
  BY <1>1, <1>2, <1>3, <1>r DEF StoreFits
<1>5. RunsFit
  <2>1. \A p : NumbersOf(p) = {}
    BY <1>2 DEF NumbersOf
  <2>2. Cardinality({}) = 0
    BY FS_EmptySet
  <2>3. \A p : LastRun(p) = 0
    BY <2>1, <2>2 DEF LastRun, NumbersOf
  <2>4. MaxRuns \in Nat /\ 1..0 = {}
    BY ConstantsAssumption
  <2> QED BY <2>1, <2>3, <2>4, <1>2 DEF RunsFit
<1>6. ThreadsFit /\ ProcessesFit /\ ThreadsAgree /\ ProcessesAgree /\ ProcessesListed
  BY <1>1, <1>2, <1>3, <1>r DEF ThreadsFit, ProcessesFit, ThreadsAgree, ProcessesAgree, ProcessesListed
<1>7. IsSeq(<<first>>) /\ DOMAIN <<first>> = {1} /\ <<first>>[1] = first /\ ToSet(<<first>>) = {first}
  <2>1. IsSeq(<<first>>) /\ Len(<<first>>) = 1 /\ <<first>>[1] = first /\ ToSet(<<first>>) = {first}
    BY Single
  <2>2. DOMAIN <<first>> = 1..1
    BY <2>1, SeqHas
  <2> QED BY <2>1, <2>2
<1> DEFINE list == <<first>>
<1>8. first.id = ProcessThread /\ first = Shown(ProcessThread)
  BY <1>r DEF Shown
<1> HIDE DEF first, list
<1>9. controller.threads = list /\ IsController(controller)
      /\ controller.statuses = [id \in {list[i].id : i \in DOMAIN list} |-> "idle"]
  BY <1>1 DEF NewController, IsController, list
<1>10. IsSeq(list) /\ DOMAIN list = {1} /\ list[1] = first /\ ToSet(list) = {first}
  BY <1>7 DEF list
<1>11. ControllerFits(controller)
  BY <1>9, <1>10 DEF ControllerFits, IdsDistinct
<1>12. ListAgrees
  <2>1. controller.statuses = [id \in {ProcessThread} |-> "idle"]
    BY <1>8, <1>9, <1>10
  <2>2. \A t \in DOMAIN stored : ~Loaded(t) /\ controller.statuses[t] = "idle"
    BY <2>1, <1>2, <1>3 DEF Loaded
  <2> QED BY <2>1, <2>2, <1>3, <1>8, <1>9, <1>10 DEF ListAgrees
<1> QED BY <1>4, <1>5, <1>6, <1>11, <1>12 DEF ServerFits, ViewsAgree

\* The views agree with each other and with the store at all times: the list of
\* threads with their turns and titles, a thread with its events and checkpoints,
\* the view of a process with its thread, its watcher and the end of its output.
\* (apply_thread, update_thread_metadata, synchronize_process, delete_threads)
THEOREM ViewsAlwaysAgree == Spec => []ViewsAgree
<1>1. Init => ServerFits
  BY ServerStarts
<1>2. ServerFits /\ [Next]_vars => ServerFits'
  BY ServerNext
<1>3. ServerFits => ViewsAgree
  BY DEF ServerFits
<1> QED BY <1>1, <1>2, <1>3, PTL DEF Spec
=============================================================================
