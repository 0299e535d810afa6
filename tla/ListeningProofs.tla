--------------------------- MODULE ListeningProofs ---------------------------
(***************************************************************************)
(* Listening: its type invariant, and that a view that is current shows the *)
(* documents of the version it was brought to.  Both follow from one        *)
(* inductive invariant, IInv below: each target that the stream is not in   *)
(* doubt about is in step, that is, the count of outstanding answers is     *)
(* right, the last request and the last answer on their way say whether it *)
(* is listened to, and the messages on their way lead from the documents    *)
(* shown to those that the backend takes the client to know.                *)
(***************************************************************************)
EXTENDS Listening, FiniteSetTheorems, SequenceTheorems, TLAPS

-----------------------------------------------------------------------------
(* Queues: how many elements of a queue are in a set.                       *)

Count(s, S) == Cardinality({i \in DOMAIN s : s[i] \in S})

\* Two sets of positions that differ by a shift have as many elements.
LEMMA ShiftCard ==
  ASSUME NEW I, NEW J, IsFiniteSet(I), I \subseteq Int, J \subseteq Int, NEW k \in Int,
         \A i \in Int : i \in J <=> i + k \in I
  PROVE  IsFiniteSet(J) /\ Cardinality(J) = Cardinality(I)
<1> DEFINE f == [i \in I |-> i - k]
<1>1. f \in [I -> J]
  <2>1. \A i \in I : i - k \in Int /\ i - k + k = i
    OBVIOUS
  <2> QED BY <2>1
<1>2. \A a, b \in I : f[a] = f[b] => a = b
  OBVIOUS
<1>3. \A j \in J : \E i \in I : f[i] = j
  <2>1. \A j \in J : j + k \in I /\ j + k - k = j
    OBVIOUS
  <2> QED BY <2>1
<1>4. f \in Bijection(I, J)
  BY <1>1, <1>2, <1>3 DEF Bijection, Injection, Surjection, IsInjective
<1> QED BY <1>4, FS_Bijection DEF ExistsBijection

LEMMA CountType ==
  ASSUME NEW M, NEW s \in Seq(M), NEW S
  PROVE  /\ IsFiniteSet({i \in DOMAIN s : s[i] \in S})
         /\ Count(s, S) \in Nat
         /\ Count(s, S) = 0 <=> \A i \in DOMAIN s : s[i] \notin S
<1>1. Len(s) \in Nat /\ DOMAIN s = 1 .. Len(s) /\ 1 \in Int
  OBVIOUS
<1>2. IsFiniteSet(1 .. Len(s))
  BY <1>1, FS_Interval
<1>3. IsFiniteSet({i \in DOMAIN s : s[i] \in S})
  BY <1>1, <1>2, FS_Subset
<1>4. Count(s, S) \in Nat /\ (Count(s, S) = 0 <=> {i \in DOMAIN s : s[i] \in S} = {})
  BY <1>3, FS_CardinalityType, FS_EmptySet DEF Count
<1> QED BY <1>3, <1>4

\* A concatenation has the elements of both queues.
LEMMA CountConcat ==
  ASSUME NEW M, NEW s \in Seq(M), NEW u \in Seq(M), NEW S
  PROVE  Count(s \o u, S) = Count(s, S) + Count(u, S)
<1> DEFINE n == Len(s)
           A == {i \in DOMAIN s : s[i] \in S}
           B == {i \in DOMAIN u : u[i] \in S}
           C == {i \in DOMAIN (s \o u) : (s \o u)[i] \in S}
           D == {i \in C : i > n}
<1>1. /\ n \in Nat /\ Len(u) \in Nat /\ DOMAIN s = 1 .. n /\ DOMAIN u = 1 .. Len(u)
      /\ s \o u \in Seq(M) /\ Len(s \o u) = n + Len(u) /\ DOMAIN (s \o u) = 1 .. n + Len(u)
      /\ \A i \in 1 .. n + Len(u) : (s \o u)[i] = IF i <= n THEN s[i] ELSE u[i - n]
  BY ConcatProperties, LenProperties
<1>2. IsFiniteSet(A) /\ IsFiniteSet(B) /\ IsFiniteSet(C)
  BY <1>1, CountType
<1>3. IsFiniteSet(D) /\ Cardinality(B) = Cardinality(D)
  <2>1. IsFiniteSet(D) /\ D \subseteq Int /\ B \subseteq Int
    BY <1>1, <1>2, FS_Subset
  <2>2. \A i \in Int : i \in B <=> i + n \in D
    <3> SUFFICES ASSUME NEW i \in Int PROVE i \in B <=> i + n \in D
      OBVIOUS
    <3>1. /\ i \in 1 .. Len(u) <=> i + n \in 1 .. n + Len(u) /\ i + n > n
          /\ i + n > n => ~ (i + n <= n)
          /\ i + n - n = i
      BY <1>1
    <3>2. i \in 1 .. Len(u) => (s \o u)[i + n] = u[i]
      BY <1>1, <3>1
    <3> QED BY <1>1, <3>1, <3>2
  <2>3. n \in Int
    BY <1>1
  <2> HIDE DEF n, B, D
  <2> QED BY <2>1, <2>2, <2>3, ShiftCard
<1>4. A \cup D = C /\ A \cap D = {}
  <2>1. \A i \in A : i \in C /\ ~ (i > n)
    BY <1>1
  <2>2. \A i \in C : ~ (i > n) => i \in A
    BY <1>1
  <2> QED BY <2>1, <2>2
<1>5. Cardinality(C) = Cardinality(A) + Cardinality(D)
  <2>1. Cardinality(A \cup D) = Cardinality(A) + Cardinality(D) - Cardinality(A \cap D)
    BY <1>2, <1>3, FS_Union
  <2>2. Cardinality(A \cap D) = 0
    BY <1>4, FS_EmptySet
  <2>3. Cardinality(A) \in Nat /\ Cardinality(D) \in Nat
    BY <1>2, <1>3, FS_CardinalityType
  <2> HIDE DEF A, D, C
  <2>4. Cardinality(C) = Cardinality(A \cup D)
    BY <1>4, Zenon
  <2> QED BY <2>1, <2>2, <2>3, <2>4
<1> QED BY <1>3, <1>5 DEF Count

LEMMA CountOne ==
  ASSUME NEW m, NEW S
  PROVE  Count(<<m>>, S) = IF m \in S THEN 1 ELSE 0
<1>1. DOMAIN <<m>> = {1} /\ <<m>>[1] = m
  OBVIOUS
<1>2. {i \in DOMAIN <<m>> : <<m>>[i] \in S} = IF m \in S THEN {1} ELSE {}
  BY <1>1
<1> QED BY <1>2, FS_EmptySet, FS_Singleton DEF Count

\* A queue is its head and its tail.
LEMMA CountTail ==
  ASSUME NEW M, NEW s \in Seq(M), s # <<>>, NEW S
  PROVE  Count(s, S) = Count(Tail(s), S) + (IF Head(s) \in S THEN 1 ELSE 0)
<1> DEFINE A == {i \in DOMAIN s : s[i] \in S}
           B == {i \in DOMAIN Tail(s) : Tail(s)[i] \in S}
           C == A \ {1}
<1>1. /\ Tail(s) \in Seq(M) /\ Len(Tail(s)) = Len(s) - 1
      /\ \A i \in 1 .. Len(Tail(s)) : Tail(s)[i] = s[i + 1]
      /\ Len(s) \in Nat \ {0} /\ DOMAIN s = 1 .. Len(s) /\ DOMAIN Tail(s) = 1 .. Len(Tail(s))
      /\ Head(s) = s[1]
  BY HeadTailProperties, EmptySeq
<1>2. /\ IsFiniteSet(A) /\ IsFiniteSet(C) /\ Cardinality(A) \in Nat
      /\ Cardinality(C) = IF 1 \in A THEN Cardinality(A) - 1 ELSE Cardinality(A)
  <2>1. IsFiniteSet(A)
    BY CountType
  <2> HIDE DEF A
  <2> QED BY <2>1, FS_RemoveElement, FS_CardinalityType
<1>3. Cardinality(B) = Cardinality(C)
  <2>1. B \subseteq Int /\ C \subseteq Int /\ 1 \in Int
    BY <1>1
  <2>2. \A i \in Int : i \in B <=> i + 1 \in C
    <3> SUFFICES ASSUME NEW i \in Int PROVE i \in B <=> i + 1 \in C
      OBVIOUS
    <3>1. i \in 1 .. Len(Tail(s)) <=> i + 1 \in 1 .. Len(s) /\ i + 1 # 1
      BY <1>1
    <3>2. i \in 1 .. Len(Tail(s)) => Tail(s)[i] = s[i + 1]
      BY <1>1
    <3> QED BY <1>1, <3>1, <3>2
  <2> HIDE DEF B, C
  <2> QED BY <1>2, <2>1, <2>2, ShiftCard
<1>4. 1 \in A <=> Head(s) \in S
  BY <1>1
<1> HIDE DEF A, B, C
<1>5. Cardinality(A) = Cardinality(B) + (IF Head(s) \in S THEN 1 ELSE 0)
  BY <1>2, <1>3, <1>4
<1> QED BY <1>5 DEF A, B, Count

\* A set in some order: each element once.
LEMMA SetToSeqFacts ==
  ASSUME NEW S, IsFiniteSet(S)
  PROVE  /\ SetToSeq(S) \in Seq(S) /\ Len(SetToSeq(S)) = Cardinality(S)
         /\ \A i, j \in 1 .. Len(SetToSeq(S)) : SetToSeq(S)[i] = SetToSeq(S)[j] => i = j
         /\ \A x \in S : \E i \in 1 .. Len(SetToSeq(S)) : SetToSeq(S)[i] = x
<1> DEFINE n == Cardinality(S)
<1>1. n \in Nat /\ ExistsBijection(1 .. n, S)
  BY FS_CardinalityType
<1>2. PICK g \in Bijection(1 .. n, S) : TRUE
  BY <1>1 DEF ExistsBijection
<1>3. g \in [1 .. n -> S] /\ IsInjective(g)
  BY <1>2 DEF Bijection, Injection, IsInjective
<1> DEFINE f == SetToSeq(S)
<1>4. f \in [1 .. n -> S] /\ IsInjective(f)
  BY <1>3 DEF SetToSeq
<1> HIDE DEF f
<1>5. f \in Injection(1 .. n, S)
  BY <1>4 DEF Injection, IsInjective
<1>6. IsFiniteSet(1 .. n) /\ Cardinality(1 .. n) = n
  <2>1. 1 \in Int /\ n \in Int
    BY <1>1
  <2>2. IsFiniteSet(1 .. n) /\ Cardinality(1 .. n) = IF 1 > n THEN 0 ELSE n - 1 + 1
    BY <2>1, FS_Interval
  <2> QED BY <1>1, <2>2
<1>7. f \in Surjection(1 .. n, S)
  BY <1>5, <1>6, FS_Injection
<1>8. \A x \in S : \E i \in 1 .. n : f[i] = x
  BY <1>7 DEF Surjection
<1>9. f \in Seq(S) /\ Len(f) = n
  BY <1>1, <1>4
<1> QED BY <1>4, <1>8, <1>9 DEF f, IsInjective

-----------------------------------------------------------------------------
(* Requests and messages about a target.                                    *)

Request(n) == [kind : {"watch", "unwatch"}, t : Targets, token : 0 .. n]
Message(n) ==
  [kind : {"added", "removed", "refused", "reset"}, t : Targets]
  \cup [kind : {"document"}, doc : Docs, updated : SUBSET Targets, removed : SUBSET Targets]
  \cup [kind : {"current"}, t : Targets, version : 1 .. n]
  \cup [kind : {"filter"}, t : Targets, count : Nat]
  \cup [kind : {"snapshot"}, version : 1 .. n]

IsAnswer(m, t) == m.kind \in {"added", "removed", "refused"} /\ m.t = t
IsFilter(m, t) == m.kind = "filter" /\ m.t = t
IsCurrent(m, t) == m.kind = "current" /\ m.t = t

\* No request of q is about t; the last that is about t.
NoAsk(q, t) == \A i \in DOMAIN q : q[i].t # t
LastAsk(q, t, j) ==
  j \in DOMAIN q /\ q[j].t = t /\ \A k \in DOMAIN q : k > j => q[k].t # t

\* From i on no message of r answers a request about t; the last that does.
Quiet(r, t, i) == \A j \in DOMAIN r : j >= i => ~ IsAnswer(r[j], t)
LastAnswer(r, t, j) == j \in DOMAIN r /\ IsAnswer(r[j], t) /\ Quiet(r, t, j + 1)

LEMMA TailFacts ==
  ASSUME NEW M, NEW s \in Seq(M), s # <<>>
  PROVE  /\ Tail(s) \in Seq(M) /\ Len(Tail(s)) = Len(s) - 1 /\ Len(s) \in Nat \ {0}
         /\ DOMAIN s = 1 .. Len(s) /\ DOMAIN Tail(s) = 1 .. Len(s) - 1
         /\ Head(s) = s[1] /\ Head(s) \in M
         /\ \A i \in 1 .. Len(s) - 1 : Tail(s)[i] = s[i + 1] /\ i + 1 \in 1 .. Len(s)
<1>1. /\ Head(s) \in M /\ Tail(s) \in Seq(M) /\ Len(Tail(s)) = Len(s) - 1
      /\ \A i \in 1 .. Len(Tail(s)) : Tail(s)[i] = s[i + 1]
      /\ Len(s) \in Nat \ {0}
  BY HeadTailProperties, EmptySeq
<1>2. DOMAIN s = 1 .. Len(s) /\ DOMAIN Tail(s) = 1 .. Len(Tail(s)) /\ Head(s) = s[1]
  OBVIOUS
<1> QED BY <1>1, <1>2

LEMMA ConcatFacts ==
  ASSUME NEW M, NEW s \in Seq(M), NEW u \in Seq(M)
  PROVE  /\ s \o u \in Seq(M) /\ Len(s \o u) = Len(s) + Len(u) /\ Len(s) \in Nat /\ Len(u) \in Nat
         /\ DOMAIN s = 1 .. Len(s) /\ DOMAIN u = 1 .. Len(u)
         /\ DOMAIN (s \o u) = 1 .. Len(s) + Len(u)
         /\ \A i \in 1 .. Len(s) : (s \o u)[i] = s[i] /\ i \in 1 .. Len(s) + Len(u)
         /\ \A i \in 1 .. Len(u) : (s \o u)[Len(s) + i] = u[i] /\ Len(s) + i \in 1 .. Len(s) + Len(u)
         /\ \A i \in 1 .. Len(s) + Len(u) : i > Len(s) => i - Len(s) \in 1 .. Len(u)
                                                          /\ (s \o u)[i] = u[i - Len(s)]
<1>1. /\ s \o u \in Seq(M) /\ Len(s \o u) = Len(s) + Len(u)
      /\ \A i \in 1 .. Len(s) + Len(u) : (s \o u)[i] = IF i <= Len(s) THEN s[i] ELSE u[i - Len(s)]
  BY ConcatProperties
<1>2. /\ Len(s) \in Nat /\ Len(u) \in Nat /\ DOMAIN s = 1 .. Len(s) /\ DOMAIN u = 1 .. Len(u)
      /\ DOMAIN (s \o u) = 1 .. Len(s) + Len(u)
  BY <1>1, LenProperties
<1>3. ASSUME NEW i \in 1 .. Len(s) PROVE (s \o u)[i] = s[i] /\ i \in 1 .. Len(s) + Len(u)
  <2>1. i \in 1 .. Len(s) + Len(u) /\ i <= Len(s)
    BY <1>2
  <2> QED BY <1>1, <2>1
<1>4. ASSUME NEW i \in 1 .. Len(s) + Len(u), i > Len(s)
      PROVE  i - Len(s) \in 1 .. Len(u) /\ (s \o u)[i] = u[i - Len(s)]
  <2>1. i - Len(s) \in 1 .. Len(u) /\ ~ (i <= Len(s))
    BY <1>2, <1>4
  <2> QED BY <1>1, <2>1
<1>5. ASSUME NEW i \in 1 .. Len(u)
      PROVE  (s \o u)[Len(s) + i] = u[i] /\ Len(s) + i \in 1 .. Len(s) + Len(u)
  <2>1. Len(s) + i \in 1 .. Len(s) + Len(u) /\ Len(s) + i > Len(s) /\ Len(s) + i - Len(s) = i
    BY <1>2
  <2> QED BY <1>4, <2>1
<1> QED BY <1>1, <1>2, <1>3, <1>4, <1>5

LEMMA AskTail ==
  ASSUME NEW M, NEW q \in Seq(M), q # <<>>, NEW t
  PROVE  /\ \A j : LastAsk(Tail(q), t, j) => LastAsk(q, t, j + 1) /\ Tail(q)[j] = q[j + 1]
         /\ NoAsk(Tail(q), t) => IF Head(q).t = t THEN LastAsk(q, t, 1) ELSE NoAsk(q, t)
<1>1. \A i \in 1 .. Len(q) : i = 1 \/ (i - 1 \in 1 .. Len(q) - 1 /\ i - 1 + 1 = i)
  BY TailFacts
<1>2. ASSUME NEW j, LastAsk(Tail(q), t, j)
      PROVE  LastAsk(q, t, j + 1) /\ Tail(q)[j] = q[j + 1]
  <2>1. j \in 1 .. Len(q) - 1 /\ Tail(q)[j] = q[j + 1] /\ j + 1 \in DOMAIN q /\ q[j + 1].t = t
    BY <1>2, TailFacts DEF LastAsk
  <2>2. ASSUME NEW k \in DOMAIN q, k > j + 1 PROVE q[k].t # t
    <3>1. k - 1 \in 1 .. Len(q) - 1 /\ k - 1 + 1 = k /\ k - 1 > j
      BY <1>1, <2>1, <2>2, TailFacts
    <3>2. Tail(q)[k - 1] = q[k] /\ k - 1 \in DOMAIN Tail(q)
      BY <3>1, TailFacts
    <3> QED BY <1>2, <3>1, <3>2 DEF LastAsk
  <2> QED BY <2>1, <2>2 DEF LastAsk
<1>3. ASSUME NoAsk(Tail(q), t)
      PROVE  \A i \in DOMAIN q : i # 1 => q[i].t # t
  <2> SUFFICES ASSUME NEW i \in DOMAIN q, i # 1 PROVE q[i].t # t
    OBVIOUS
  <2>1. i - 1 \in 1 .. Len(q) - 1 /\ i - 1 + 1 = i
    BY <1>1, TailFacts
  <2>2. Tail(q)[i - 1] = q[i] /\ i - 1 \in DOMAIN Tail(q)
    BY <2>1, TailFacts
  <2> QED BY <1>3, <2>2 DEF NoAsk
<1>4. 1 \in DOMAIN q /\ Head(q) = q[1]
  BY TailFacts
<1> QED BY <1>2, <1>3, <1>4 DEF NoAsk, LastAsk

LEMMA AskConcat ==
  ASSUME NEW M, NEW q \in Seq(M), NEW b \in Seq(M), NEW t
  PROVE  /\ \A j : LastAsk(q \o b, t, j) =>
              \/ LastAsk(b, t, j - Len(q)) /\ (q \o b)[j] = b[j - Len(q)]
              \/ LastAsk(q, t, j) /\ (q \o b)[j] = q[j] /\ NoAsk(b, t)
         /\ NoAsk(q \o b, t) <=> NoAsk(q, t) /\ NoAsk(b, t)
<1> DEFINE n == Len(q)
<1>1. ASSUME NEW j, LastAsk(q \o b, t, j)
      PROVE  \/ LastAsk(b, t, j - n) /\ (q \o b)[j] = b[j - n]
             \/ LastAsk(q, t, j) /\ (q \o b)[j] = q[j] /\ NoAsk(b, t)
  <2>1. /\ j \in 1 .. n + Len(b) /\ (q \o b)[j].t = t /\ n \in Nat /\ Len(b) \in Nat
        /\ \A k \in 1 .. n + Len(b) : k > j => (q \o b)[k].t # t
    <3>1. DOMAIN (q \o b) = 1 .. n + Len(b) /\ n \in Nat /\ Len(b) \in Nat
      BY ConcatFacts
    <3> QED BY <1>1, <3>1 DEF LastAsk
  <2>2. CASE j > n
    <3>1. j - n \in DOMAIN b /\ (q \o b)[j] = b[j - n]
      BY <2>1, <2>2, ConcatFacts
    <3>2. ASSUME NEW k \in DOMAIN b, k > j - n PROVE b[k].t # t
      <4>1. n + k \in 1 .. n + Len(b) /\ (q \o b)[n + k] = b[k] /\ n + k > j
        BY <2>1, <3>2, ConcatFacts
      <4> QED BY <2>1, <4>1
    <3> QED BY <2>1, <3>1, <3>2 DEF LastAsk
  <2>3. CASE j <= n
    <3>1. j \in DOMAIN q /\ (q \o b)[j] = q[j]
      BY <2>1, <2>3, ConcatFacts
    <3>2. ASSUME NEW k \in DOMAIN q, k > j PROVE q[k].t # t
      <4>1. k \in 1 .. n + Len(b) /\ (q \o b)[k] = q[k]
        BY <2>1, ConcatFacts
      <4> QED BY <2>1, <3>2, <4>1
    <3>3. ASSUME NEW k \in DOMAIN b PROVE b[k].t # t
      <4>1. n + k \in 1 .. n + Len(b) /\ (q \o b)[n + k] = b[k] /\ n + k > j
        BY <2>1, <2>3, ConcatFacts
      <4> QED BY <2>1, <4>1
    <3> QED BY <2>1, <3>1, <3>2, <3>3 DEF LastAsk, NoAsk
  <2> QED BY <2>1, <2>2, <2>3
<1>2. ASSUME NoAsk(q \o b, t) PROVE NoAsk(q, t) /\ NoAsk(b, t)
  <2>1. \A k \in DOMAIN q : k \in DOMAIN (q \o b) /\ (q \o b)[k] = q[k]
    BY ConcatFacts
  <2>2. \A k \in DOMAIN b : n + k \in DOMAIN (q \o b) /\ (q \o b)[n + k] = b[k]
    BY ConcatFacts
  <2> QED BY <1>2, <2>1, <2>2 DEF NoAsk
<1>3. ASSUME NoAsk(q, t), NoAsk(b, t) PROVE NoAsk(q \o b, t)
  <2> SUFFICES ASSUME NEW k \in DOMAIN (q \o b) PROVE (q \o b)[k].t # t
    BY DEF NoAsk
  <2>1. \/ k \in DOMAIN q /\ (q \o b)[k] = q[k]
        \/ k - n \in DOMAIN b /\ (q \o b)[k] = b[k - n]
    <3>1. k \in 1 .. n + Len(b) /\ n \in Nat
      BY ConcatFacts
    <3>2. CASE k <= n
      <4>1. k \in 1 .. n
        BY <3>1, <3>2
      <4> QED BY <4>1, ConcatFacts
    <3>3. CASE k > n
      BY <3>1, <3>3, ConcatFacts
    <3> QED BY <3>1, <3>2, <3>3
  <2> QED BY <1>3, <2>1 DEF NoAsk
<1> QED BY <1>1, <1>2, <1>3

LEMMA QuietTail ==
  ASSUME NEW M, NEW r \in Seq(M), r # <<>>, NEW t
  PROVE  /\ \A i \in 1 .. Len(r) : Quiet(Tail(r), t, i) <=> Quiet(r, t, i + 1)
         /\ \A j : LastAnswer(Tail(r), t, j) => LastAnswer(r, t, j + 1) /\ Tail(r)[j] = r[j + 1]
         /\ Quiet(Tail(r), t, 1) => IF IsAnswer(Head(r), t) THEN LastAnswer(r, t, 1)
                                    ELSE Quiet(r, t, 1)
<1>1. ASSUME NEW i \in 1 .. Len(r) PROVE Quiet(Tail(r), t, i) <=> Quiet(r, t, i + 1)
  <2>1. ASSUME Quiet(Tail(r), t, i) PROVE Quiet(r, t, i + 1)
    <3> SUFFICES ASSUME NEW j \in DOMAIN r, j >= i + 1 PROVE ~ IsAnswer(r[j], t)
      BY DEF Quiet
    <3>1. j - 1 \in 1 .. Len(r) - 1 /\ j - 1 + 1 = j /\ j - 1 >= i
      BY TailFacts
    <3>2. j - 1 \in DOMAIN Tail(r) /\ Tail(r)[j - 1] = r[j]
      BY <3>1, TailFacts
    <3> QED BY <2>1, <3>1, <3>2 DEF Quiet
  <2>2. ASSUME Quiet(r, t, i + 1) PROVE Quiet(Tail(r), t, i)
    <3> SUFFICES ASSUME NEW j \in DOMAIN Tail(r), j >= i PROVE ~ IsAnswer(Tail(r)[j], t)
      BY DEF Quiet
    <3>1. j + 1 \in DOMAIN r /\ Tail(r)[j] = r[j + 1] /\ j + 1 >= i + 1
      BY TailFacts
    <3> QED BY <2>2, <3>1 DEF Quiet
  <2> QED BY <2>1, <2>2
<1>2. ASSUME NEW j, LastAnswer(Tail(r), t, j)
      PROVE  LastAnswer(r, t, j + 1) /\ Tail(r)[j] = r[j + 1]
  <2>1. j \in 1 .. Len(r) - 1 /\ Tail(r)[j] = r[j + 1] /\ j + 1 \in DOMAIN r /\ j + 1 \in 1 .. Len(r)
    BY <1>2, TailFacts DEF LastAnswer
  <2> QED BY <1>1, <1>2, <2>1 DEF LastAnswer
<1>3. 1 \in DOMAIN r /\ Head(r) = r[1] /\ 1 \in 1 .. Len(r) /\ \A j \in DOMAIN r : j >= 1 /\ (j # 1 => j >= 2)
  BY TailFacts
<1>4. Quiet(Tail(r), t, 1) => \A j \in DOMAIN r : j # 1 => ~ IsAnswer(r[j], t)
  BY <1>1, <1>3 DEF Quiet
<1> QED BY <1>1, <1>2, <1>3, <1>4 DEF Quiet, LastAnswer

LEMMA QuietConcat ==
  ASSUME NEW M, NEW r \in Seq(M), NEW b \in Seq(M), NEW t
  PROVE  /\ \A i \in 1 .. Len(r) + 1 : Quiet(r \o b, t, i) <=> Quiet(r, t, i) /\ Quiet(b, t, 1)
         /\ \A i \in 1 .. Len(b) + 1 : Quiet(r \o b, t, Len(r) + i) <=> Quiet(b, t, i)
         /\ \A j : LastAnswer(r \o b, t, j) =>
              \/ LastAnswer(b, t, j - Len(r)) /\ (r \o b)[j] = b[j - Len(r)]
              \/ LastAnswer(r, t, j) /\ (r \o b)[j] = r[j] /\ Quiet(b, t, 1)
<1> DEFINE n == Len(r)
<1>0. n \in Nat /\ Len(b) \in Nat /\ \A k \in DOMAIN b : k \in Nat /\ k >= 1
  BY ConcatFacts
<1>1. ASSUME NEW k \in DOMAIN (r \o b)
      PROVE  \/ k \in DOMAIN r /\ k <= n /\ (r \o b)[k] = r[k]
             \/ k > n /\ k - n \in DOMAIN b /\ (r \o b)[k] = b[k - n] /\ k = n + (k - n)
  <2>1. k \in 1 .. n + Len(b) /\ n \in Nat
    BY ConcatFacts
  <2>2. CASE k <= n
    <3>1. k \in 1 .. n
      BY <2>1, <2>2
    <3> QED BY <2>2, <3>1, ConcatFacts
  <2>3. CASE k > n
    BY <2>1, <2>3, ConcatFacts
  <2> QED BY <2>1, <2>2, <2>3
<1>2. \A k \in DOMAIN r : k \in DOMAIN (r \o b) /\ (r \o b)[k] = r[k] /\ k \in 1 .. n
  BY ConcatFacts
<1>3. \A k \in DOMAIN b : n + k \in DOMAIN (r \o b) /\ (r \o b)[n + k] = b[k] /\ n + k \in Nat /\ n + k > n
  BY ConcatFacts
<1>4. ASSUME NEW i \in 1 .. n + 1
      PROVE  Quiet(r \o b, t, i) <=> Quiet(r, t, i) /\ Quiet(b, t, 1)
  <2>1. ASSUME Quiet(r \o b, t, i) PROVE Quiet(r, t, i) /\ Quiet(b, t, 1)
    <3>1. \A k \in DOMAIN b : n + k >= i
      BY <1>0
    <3> QED BY <1>2, <1>3, <2>1, <3>1 DEF Quiet
  <2>2. ASSUME Quiet(r, t, i), Quiet(b, t, 1) PROVE Quiet(r \o b, t, i)
    <3> SUFFICES ASSUME NEW k \in DOMAIN (r \o b), k >= i PROVE ~ IsAnswer((r \o b)[k], t)
      BY DEF Quiet
    <3>1. k - n \in DOMAIN b => k - n >= 1
      BY <1>0
    <3> QED BY <1>1, <2>2, <3>1 DEF Quiet
  <2> QED BY <2>1, <2>2
<1>5. ASSUME NEW i \in 1 .. Len(b) + 1
      PROVE  Quiet(r \o b, t, n + i) <=> Quiet(b, t, i)
  <2>1. ASSUME Quiet(r \o b, t, n + i) PROVE Quiet(b, t, i)
    <3>1. \A k \in DOMAIN b : k >= i => n + k >= n + i
      BY <1>0
    <3> QED BY <1>3, <2>1, <3>1 DEF Quiet
  <2>2. ASSUME Quiet(b, t, i) PROVE Quiet(r \o b, t, n + i)
    <3> SUFFICES ASSUME NEW k \in DOMAIN (r \o b), k >= n + i PROVE ~ IsAnswer((r \o b)[k], t)
      BY DEF Quiet
    <3>1. ~ (k <= n) /\ k - n >= i
      <4>1. k \in 1 .. n + Len(b)
        BY ConcatFacts
      <4> QED BY <1>0, <4>1
    <3> QED BY <1>1, <2>2, <3>1 DEF Quiet
  <2> QED BY <2>1, <2>2
<1>6. ASSUME NEW j, LastAnswer(r \o b, t, j)
      PROVE  \/ LastAnswer(b, t, j - n) /\ (r \o b)[j] = b[j - n]
             \/ LastAnswer(r, t, j) /\ (r \o b)[j] = r[j] /\ Quiet(b, t, 1)
  <2>1. j \in DOMAIN (r \o b) /\ IsAnswer((r \o b)[j], t) /\ Quiet(r \o b, t, j + 1)
    BY <1>6 DEF LastAnswer
  <2>2. CASE j \in DOMAIN r /\ j <= n /\ (r \o b)[j] = r[j]
    <3>1. j + 1 \in 1 .. n + 1
      BY <1>0, <1>2, <2>2
    <3> QED BY <1>4, <2>1, <2>2, <3>1 DEF LastAnswer
  <2>3. CASE j > n /\ j - n \in DOMAIN b /\ (r \o b)[j] = b[j - n] /\ j = n + (j - n)
    <3>1. j - n + 1 \in 1 .. Len(b) + 1 /\ j + 1 = n + (j - n + 1)
      <4>1. j - n \in 1 .. Len(b)
        BY <2>3, ConcatFacts
      <4>2. j \in Nat
        BY <1>0, <2>3, <4>1
      <4> QED BY <1>0, <4>1, <4>2
    <3> QED BY <1>5, <2>1, <2>3, <3>1 DEF LastAnswer
  <2> QED BY <1>1, <2>1, <2>2, <2>3
<1> QED BY <1>4, <1>5, <1>6

-----------------------------------------------------------------------------
(* What the messages on their way bring a view of target t to: V[i] is the  *)
(* set of documents before message i, once no answer about t is to come.    *)

In(p, t, v) == IF v = 0 THEN {} ELSE p[v][t]

Brings(p, m, t, old) ==
  IF m.kind = "document"
  THEN IF t \in m.removed THEN old \ {m.doc} ELSE IF t \in m.updated THEN old \cup {m.doc} ELSE old
  ELSE IF IsCurrent(m, t) THEN In(p, t, m.version)
  ELSE IF m.kind = "reset" /\ m.t = t THEN {} ELSE old

Views(r) == [1 .. Len(r) + 1 -> SUBSET Docs]

\* A snapshot is complete when it comes, a filter comes only when the number of
\* documents is wrong, and only after a filter, or first when the client is in
\* doubt about t, CURRENT comes before the documents are those of its version.
LeadsAt(p, r, V, t, doubt, i) ==
  /\ V[i + 1] = Brings(p, r[i], t, V[i])
  /\ r[i].kind = "snapshot" => V[i] = In(p, t, r[i].version)
  /\ IsFilter(r[i], t) => Cardinality(V[i]) # r[i].count
  /\ IsCurrent(r[i], t) => V[i] = V[i + 1] \/ (i > 1 /\ IsFilter(r[i - 1], t)) \/ (i = 1 /\ t \in doubt)

Leads(p, r, V, t, doubt) ==
  \A i \in 1 .. Len(r) : Quiet(r, t, i) => LeadsAt(p, r, V, t, doubt, i)

\* When the first message is taken.
LeadsOn(p, r, V, t, doubt) ==
  \E W \in Views(Tail(r)) :
     Leads(p, Tail(r), W, t, doubt) /\ \A i \in 1 .. Len(r) : W[i] = V[i + 1]

\* The first message is taken; one that is a filter leaves a doubt.
LEMMA LeadsTail ==
  ASSUME NEW p, NEW M, NEW r \in Seq(M), r # <<>>, NEW V \in Views(r), NEW t,
         NEW b, NEW c, Leads(p, r, V, t, b),
         IsFilter(Head(r), t) /\ Quiet(r, t, 1) => t \in c
  PROVE  LeadsOn(p, r, V, t, c)
<1> DEFINE W == [i \in 1 .. Len(r) |-> V[i + 1]]
<1>1. W \in Views(Tail(r))
  <2>1. Len(Tail(r)) + 1 = Len(r)
    BY TailFacts
  <2>2. \A i \in 1 .. Len(r) : i + 1 \in 1 .. Len(r) + 1
    BY TailFacts
  <2> QED BY <2>1, <2>2 DEF Views
<1>2. ASSUME NEW i \in 1 .. Len(Tail(r)), Quiet(Tail(r), t, i)
      PROVE  LeadsAt(p, Tail(r), W, t, c, i)
  <2>1. /\ i \in 1 .. Len(r) - 1 /\ i \in 1 .. Len(r) /\ i + 1 \in 1 .. Len(r) /\ Tail(r)[i] = r[i + 1]
        /\ i + 1 > 1 /\ i + 1 # 1 /\ i + 1 - 1 = i /\ i >= 1
    BY TailFacts
  <2>2. Quiet(r, t, i + 1)
    BY <1>2, <2>1, QuietTail
  <2>3. LeadsAt(p, r, V, t, b, i + 1)
    BY <2>1, <2>2 DEF Leads
  <2>4. W[i] = V[i + 1] /\ W[i + 1] = V[i + 1 + 1]
    BY <2>1
  <2>5. ASSUME IsFilter(r[i], t)
        PROVE  (i > 1 /\ IsFilter(Tail(r)[i - 1], t)) \/ (i = 1 /\ t \in c)
    <3>1. CASE i = 1
      <4>1. \A j \in DOMAIN r : j >= 1 => j = 1 \/ j >= 1 + 1
        BY TailFacts
      <4>2. Head(r) = r[1] /\ ~ IsAnswer(r[1], t)
        BY <2>5, <3>1, TailFacts DEF IsFilter, IsAnswer
      <4>3. Quiet(r, t, 1)
        BY <2>2, <3>1, <4>1, <4>2 DEF Quiet
      <4> QED BY <2>5, <3>1, <4>2, <4>3
    <3>2. CASE i > 1
      <4>1. i - 1 \in 1 .. Len(r) - 1 /\ i - 1 + 1 = i
        BY <2>1, <3>2, TailFacts
      <4> QED BY <2>5, <3>2, <4>1, TailFacts
    <3> QED BY <2>1, <3>1, <3>2
  <2> HIDE DEF Views
  <2> QED BY <2>1, <2>3, <2>4, <2>5 DEF LeadsAt
<1>3. Leads(p, Tail(r), W, t, c) /\ \A i \in 1 .. Len(r) : W[i] = V[i + 1]
  BY <1>2 DEF Leads
<1> HIDE DEF W
<1> QED BY <1>1, <1>3 DEF LeadsOn

\* More messages come, from where the ones before them lead.
LEMMA LeadsConcat ==
  ASSUME NEW p, NEW M, NEW r \in Seq(M), NEW b \in Seq(M), NEW t, NEW doubt,
         NEW V \in Views(r), Leads(p, r, V, t, doubt),
         NEW W \in Views(b), Leads(p, b, W, t, {}),
         Quiet(b, t, 1) => V[Len(r) + 1] = W[1]
  PROVE  \E X \in Views(r \o b) :
           /\ Leads(p, r \o b, X, t, doubt)
           /\ X[Len(r \o b) + 1] = W[Len(b) + 1]
           /\ \A i \in 1 .. Len(r) : X[i] = V[i]
           /\ Quiet(b, t, 1) => X[Len(r) + 1] = V[Len(r) + 1]
           /\ \A i \in 1 .. Len(b) + 1 : X[Len(r) + i] = W[i]
<1> DEFINE n == Len(r)
           X == [i \in 1 .. n + Len(b) + 1 |-> IF i <= n THEN V[i] ELSE W[i - n]]
<1>0. n \in Nat /\ Len(b) \in Nat /\ Len(r \o b) = n + Len(b)
  BY ConcatFacts
<1>1. X \in Views(r \o b)
  <2>1. ASSUME NEW i \in 1 .. n + Len(b) + 1
        PROVE  (i <= n => i \in 1 .. n + 1) /\ (~ (i <= n) => i - n \in 1 .. Len(b) + 1)
    BY <1>0
  <2> QED BY <1>0, <2>1 DEF Views
<1>2. /\ \A i \in 1 .. n : X[i] = V[i]
      /\ \A i \in 1 .. Len(b) + 1 : X[n + i] = W[i]
  <2>1. \A i \in 1 .. n : i \in 1 .. n + Len(b) + 1 /\ i <= n
    BY <1>0
  <2>2. \A i \in 1 .. Len(b) + 1 : n + i \in 1 .. n + Len(b) + 1 /\ ~ (n + i <= n) /\ n + i - n = i
    BY <1>0
  <2> QED BY <2>1, <2>2
<1>3. X[Len(r \o b) + 1] = W[Len(b) + 1] /\ (Quiet(b, t, 1) => X[n + 1] = V[n + 1])
  <2>1. Len(b) + 1 \in 1 .. Len(b) + 1 /\ 1 \in 1 .. Len(b) + 1 /\ n + Len(b) + 1 = n + (Len(b) + 1)
    BY <1>0
  <2> QED BY <1>0, <1>2, <2>1
<1>4. ASSUME NEW i \in 1 .. Len(r \o b), Quiet(r \o b, t, i), i <= n
      PROVE  LeadsAt(p, r \o b, X, t, doubt, i)
  <2>1. i \in 1 .. n /\ i \in 1 .. n + 1 /\ i + 1 \in 1 .. n + 1 /\ (i + 1 \in 1 .. n \/ i + 1 = n + 1)
    BY <1>0, <1>4
  <2>2. Quiet(r, t, i) /\ Quiet(b, t, 1)
    BY <1>4, <2>1, QuietConcat
  <2>3. LeadsAt(p, r, V, t, doubt, i)
    BY <2>1, <2>2 DEF Leads
  <2>4. X[i] = V[i] /\ X[i + 1] = V[i + 1] /\ (r \o b)[i] = r[i]
    BY <1>2, <1>3, <2>1, <2>2, ConcatFacts
  <2>5. i > 1 => (r \o b)[i - 1] = r[i - 1]
    <3>1. i > 1 => i - 1 \in 1 .. n
      BY <1>0, <2>1
    <3> QED BY <3>1, ConcatFacts
  <2> QED BY <2>3, <2>4, <2>5 DEF LeadsAt
<1>5. ASSUME NEW i \in 1 .. Len(r \o b), Quiet(r \o b, t, i), i > n
      PROVE  LeadsAt(p, r \o b, X, t, doubt, i)
  <2> DEFINE j == i - n
  <2>1. /\ j \in 1 .. Len(b) /\ j \in 1 .. Len(b) + 1 /\ j + 1 \in 1 .. Len(b) + 1
        /\ i = n + j /\ i + 1 = n + (j + 1) /\ (j > 1 => i > 1 /\ i - 1 = n + (j - 1) /\ j - 1 \in 1 .. Len(b))
    BY <1>0, <1>5
  <2> HIDE DEF j
  <2>2. Quiet(b, t, j)
    BY <1>5, <2>1, QuietConcat
  <2>3. LeadsAt(p, b, W, t, {}, j)
    BY <2>1, <2>2 DEF Leads
  <2>4. X[i] = W[j] /\ X[i + 1] = W[j + 1] /\ (r \o b)[i] = b[j] /\ (j > 1 => (r \o b)[i - 1] = b[j - 1])
    BY <1>2, <2>1, ConcatFacts
  <2> QED BY <2>1, <2>3, <2>4 DEF LeadsAt
<1>6. Leads(p, r \o b, X, t, doubt)
  <2>1. \A i \in 1 .. Len(r \o b) : i <= n \/ i > n
    BY <1>0
  <2> QED BY <1>4, <1>5, <2>1 DEF Leads
<1> HIDE DEF X
<1> QED BY <1>1, <1>2, <1>3, <1>6

\* Messages of a block with no answer about t that lead from old to new.
Moves(p, b, t, old, new) ==
  /\ Quiet(b, t, 1)
  /\ \E W \in Views(b) : W[1] = old /\ W[Len(b) + 1] = new /\ Leads(p, b, W, t, {})

LEMMA MovesConcat ==
  ASSUME NEW p, NEW M, NEW b \in Seq(M), NEW c \in Seq(M), NEW t, NEW x, NEW y, NEW z,
         Moves(p, b, t, x, y), Moves(p, c, t, y, z)
  PROVE  Moves(p, b \o c, t, x, z)
<1>1. PICK V \in Views(b) : V[1] = x /\ V[Len(b) + 1] = y /\ Leads(p, b, V, t, {})
  BY DEF Moves
<1>2. PICK W \in Views(c) : W[1] = y /\ W[Len(c) + 1] = z /\ Leads(p, c, W, t, {})
  BY DEF Moves
<1>3. Quiet(b, t, 1) /\ Quiet(c, t, 1) /\ V[Len(b) + 1] = W[1]
  BY <1>1, <1>2 DEF Moves
<1>4. PICK X \in Views(b \o c) :
        /\ Leads(p, b \o c, X, t, {})
        /\ X[Len(b \o c) + 1] = W[Len(c) + 1]
        /\ \A i \in 1 .. Len(b) : X[i] = V[i]
        /\ Quiet(c, t, 1) => X[Len(b) + 1] = V[Len(b) + 1]
  BY <1>1, <1>2, <1>3, LeadsConcat
<1>5. X[1] = x
  <2>1. Len(b) \in Nat
    BY ConcatFacts
  <2>2. 1 \in 1 .. Len(b) \/ Len(b) + 1 = 1
    BY <2>1
  <2> QED BY <1>1, <1>3, <1>4, <2>2
<1>6. Quiet(b \o c, t, 1)
  <2>1. 1 \in 1 .. Len(b) + 1
    BY ConcatFacts
  <2> QED BY <1>3, <2>1, QuietConcat
<1> QED BY <1>2, <1>4, <1>5, <1>6 DEF Moves

\* One message.
LEMMA MovesOne ==
  ASSUME NEW p, NEW m, NEW t, NEW x \in SUBSET Docs, NEW y \in SUBSET Docs,
         y = Brings(p, m, t, x), ~ IsAnswer(m, t), ~ IsFilter(m, t),
         m.kind = "snapshot" => x = In(p, t, m.version),
         IsCurrent(m, t) => x = y
  PROVE  Moves(p, <<m>>, t, x, y)
<1> DEFINE W == [i \in 1 .. 2 |-> IF i = 1 THEN x ELSE y]
<1>1. Len(<<m>>) = 1 /\ DOMAIN <<m>> = 1 .. 1 /\ <<m>>[1] = m
  OBVIOUS
<1>2. W \in Views(<<m>>) /\ W[1] = x /\ W[2] = y
  BY <1>1 DEF Views
<1> HIDE DEF W
<1>3. \A j \in 1 .. 1 : j = 1
  OBVIOUS
<1>4. Quiet(<<m>>, t, 1)
  BY <1>1, <1>3 DEF Quiet
<1>5. \A i \in 1 .. 1 : LeadsAt(p, <<m>>, W, t, {}, i)
  <2>1. LeadsAt(p, <<m>>, W, t, {}, 1)
    BY <1>1, <1>2 DEF LeadsAt
  <2> QED BY <1>3, <2>1
<1>6. Leads(p, <<m>>, W, t, {})
  BY <1>1, <1>5 DEF Leads
<1>7. W[Len(<<m>>) + 1] = y
  BY <1>1, <1>2
<1> QED BY <1>2, <1>4, <1>6, <1>7 DEF Moves

\* Messages about documents, each of them once, lead from x to y when each says of
\* its document what y does, and x and y agree on the others.
LEMMA MovesDocuments ==
  ASSUME NEW p, NEW t, NEW n, NEW b \in Seq(Message(n)), NEW o,
         DOMAIN o = DOMAIN b, \A i \in DOMAIN b : b[i].kind = "document" /\ b[i].doc = o[i] /\ o[i] \in Docs,
         \A i, j \in DOMAIN b : o[i] = o[j] => i = j,
         NEW x \in SUBSET Docs, NEW y \in SUBSET Docs,
         \A i \in DOMAIN b : o[i] \in y <=> IF t \in b[i].removed THEN FALSE
                                            ELSE t \in b[i].updated \/ o[i] \in x,
         \A d \in Docs : (\A i \in DOMAIN b : o[i] # d) => (d \in x <=> d \in y)
  PROVE  Moves(p, b, t, x, y)
<1> DEFINE told(i) == {o[k] : k \in {j \in DOMAIN b : j < i}}
           W == [i \in 1 .. Len(b) + 1 |-> {d \in Docs : IF d \in told(i) THEN d \in y ELSE d \in x}]
<1>1. Len(b) \in Nat /\ DOMAIN b = 1 .. Len(b)
  BY LenProperties
<1>2. W \in Views(b)
  BY DEF Views
<1>3. W[1] = x
  <2>1. 1 \in 1 .. Len(b) + 1 /\ ~ \E j \in DOMAIN b : j < 1
    BY <1>1
  <2> QED BY <2>1
<1>4. W[Len(b) + 1] = y
  <2>1. Len(b) + 1 \in 1 .. Len(b) + 1 /\ \A j \in DOMAIN b : j < Len(b) + 1
    BY <1>1
  <2>2. \A d \in Docs : d \in told(Len(b) + 1) <=> \E i \in DOMAIN b : o[i] = d
    BY <2>1
  <2> QED BY <2>1, <2>2
<1>5. Quiet(b, t, 1)
  BY DEF Quiet, IsAnswer
<1>6. ASSUME NEW i \in 1 .. Len(b) PROVE LeadsAt(p, b, W, t, {}, i)
  <2>1. /\ i \in 1 .. Len(b) + 1 /\ i + 1 \in 1 .. Len(b) + 1 /\ i \in DOMAIN b
        /\ \A j \in DOMAIN b : j < i + 1 <=> j < i \/ j = i
        /\ ~ (i < i)
    BY <1>1
  <2>2. o[i] \notin told(i) /\ told(i + 1) = told(i) \cup {o[i]}
    BY <2>1
  <2>3. /\ W[i] = {d \in Docs : IF d \in told(i) THEN d \in y ELSE d \in x}
        /\ W[i + 1] = {d \in Docs : IF d \in told(i + 1) THEN d \in y ELSE d \in x}
    BY <2>1
  <2> HIDE DEF W, told
  <2>4. /\ \A d \in Docs : d # o[i] => (d \in W[i + 1] <=> d \in W[i])
        /\ o[i] \in W[i + 1] <=> o[i] \in y
        /\ o[i] \in W[i] <=> o[i] \in x
        /\ W[i] \subseteq Docs /\ W[i + 1] \subseteq Docs
    BY <2>1, <2>2, <2>3
  <2>5. W[i + 1] = Brings(p, b[i], t, W[i])
    <3>1. CASE t \in b[i].removed
      <4>1. W[i + 1] = W[i] \ {o[i]}
        BY <2>1, <2>4, <3>1
      <4> QED BY <2>1, <3>1, <4>1 DEF Brings
    <3>2. CASE t \notin b[i].removed /\ t \in b[i].updated
      <4>1. W[i + 1] = W[i] \cup {o[i]}
        BY <2>1, <2>4, <3>2
      <4> QED BY <2>1, <3>2, <4>1 DEF Brings
    <3>3. CASE t \notin b[i].removed /\ t \notin b[i].updated
      <4>1. o[i] \in y <=> o[i] \in x
        BY <2>1, <3>3
      <4>2. \A d \in Docs : d \in W[i + 1] <=> d \in W[i]
        BY <2>4, <4>1
      <4>3. W[i + 1] = W[i]
        BY <2>4, <4>2
      <4> QED BY <2>1, <3>3, <4>3 DEF Brings
    <3> QED BY <3>1, <3>2, <3>3
  <2> QED BY <2>1, <2>5 DEF LeadsAt, IsFilter, IsCurrent
<1> HIDE DEF W
<1> QED BY <1>2, <1>3, <1>4, <1>5, <1>6 DEF Moves, Leads

PastOK == /\ past \in Seq([Targets -> SUBSET Docs]) /\ Now \in 1 .. MaxVersion
          /\ DOMAIN past = 1 .. Now

LEMMA ResultType ==
  ASSUME PastOK
  PROVE  /\ \A t \in Targets, v \in 0 .. Now : Result(t, v) \in SUBSET Docs
         /\ \A t, v : Result(t, v) = In(past, t, v)
         /\ Now \in 0 .. Now /\ Now \in 1 .. Now /\ Now # 0
<1>1. Now \in Nat \ {0}
  BY BoundsAssumption DEF PastOK
<1>2. \A v \in 1 .. Now : past[v] \in [Targets -> SUBSET Docs]
  BY ElementOfSeq DEF PastOK, Now
<1>3. \A v \in 0 .. Now : v = 0 \/ v \in 1 .. Now
  BY <1>1
<1> QED BY <1>1, <1>2, <1>3 DEF Result, In

\* The messages that tell the targets of S of what is different from before.
LEMMA UpdatesFacts ==
  ASSUME PastOK, NEW S \in SUBSET Targets, NEW before, NEW more
  PROVE  /\ Updates(S, before, more) \in Seq(Message(Now))
         /\ \A t \in Targets \ S, x \in SUBSET Docs :
              Moves(past, Updates(S, before, more), t, x, x)
         /\ \A t \in S, x \in SUBSET Docs : before[t] \subseteq x =>
              Moves(past, Updates(S, before, more), t, x,
                    (x \ (before[t] \ Result(t, Now))) \cup Result(t, Now))
<1> DEFINE in(d) == {t \in S : d \in Result(t, Now) /\ (d \notin before[t] \/ d \in more)}
           out(d) == {t \in S : d \in before[t] \ Result(t, Now)}
           D == {d \in Docs : in(d) \cup out(d) # {}}
           order == SetToSeq(D)
           b == [i \in DOMAIN order |-> [kind |-> "document", doc |-> order[i],
                                         updated |-> in(order[i]), removed |-> out(order[i])]]
<1>1. Updates(S, before, more) = b
  BY DEF Updates
<1>2. IsFiniteSet(D)
  BY FiniteAssumption, FS_Subset
<1> HIDE DEF D
<1>3. /\ order \in Seq(D) /\ Len(order) \in Nat /\ DOMAIN order = 1 .. Len(order)
      /\ \A i, j \in DOMAIN order : order[i] = order[j] => i = j
      /\ \A d \in D : \E i \in DOMAIN order : order[i] = d
      /\ \A i \in DOMAIN order : order[i] \in D
  <2>1. order \in Seq(D)
    BY <1>2, SetToSeqFacts
  <2>2. Len(order) \in Nat /\ DOMAIN order = 1 .. Len(order)
    BY <2>1, LenProperties
  <2> HIDE DEF order
  <2>3. \A i \in DOMAIN order : order[i] \in D
    BY <2>1, <2>2, ElementOfSeq
  <2> QED BY <1>2, <2>1, <2>2, <2>3, SetToSeqFacts DEF order
<1> HIDE DEF order
<1>4. \A i \in DOMAIN order : order[i] \in Docs
  BY <1>3 DEF D
<1>5. /\ DOMAIN b = DOMAIN order
      /\ \A i \in DOMAIN order : /\ b[i].kind = "document" /\ b[i].doc = order[i]
                                 /\ b[i].updated = in(order[i]) /\ b[i].removed = out(order[i])
  OBVIOUS
<1>6. b \in Seq(Message(Now))
  <2>1. \A i \in DOMAIN order :
          [kind |-> "document", doc |-> order[i], updated |-> in(order[i]), removed |-> out(order[i])]
            \in [kind : {"document"}, doc : Docs, updated : SUBSET Targets, removed : SUBSET Targets]
    BY <1>4
  <2>2. \A i \in DOMAIN order : b[i] \in Message(Now)
    BY <2>1 DEF Message
  <2>3. b \in [1 .. Len(order) -> Message(Now)]
    BY <1>3, <2>2
  <2> HIDE DEF b
  <2> QED BY <1>3, <2>3, SeqDef
<1> HIDE DEF b
<1>9. /\ DOMAIN order = DOMAIN b
      /\ \A i \in DOMAIN b : b[i].kind = "document" /\ b[i].doc = order[i] /\ order[i] \in Docs
      /\ \A i, j \in DOMAIN b : order[i] = order[j] => i = j
  BY <1>3, <1>4, <1>5
<1>7. ASSUME NEW t \in Targets \ S, NEW x \in SUBSET Docs
      PROVE  Moves(past, b, t, x, x)
  <2>1. \A i \in DOMAIN b : t \notin b[i].removed /\ t \notin b[i].updated
    BY <1>5
  <2>2. \A i \in DOMAIN b : order[i] \in x <=> IF t \in b[i].removed THEN FALSE
                                               ELSE t \in b[i].updated \/ order[i] \in x
    BY <2>1
  <2>3. \A d \in Docs : (\A i \in DOMAIN b : order[i] # d) => (d \in x <=> d \in x)
    OBVIOUS
  <2> QED BY <1>6, <1>9, <2>2, <2>3, MovesDocuments
<1>8. ASSUME NEW t \in S, NEW x \in SUBSET Docs, before[t] \subseteq x
      PROVE  Moves(past, b, t, x, (x \ (before[t] \ Result(t, Now))) \cup Result(t, Now))
  <2> DEFINE y == (x \ (before[t] \ Result(t, Now))) \cup Result(t, Now)
  <2>1. y \in SUBSET Docs
    BY ResultType
  <2>2. \A i \in DOMAIN b : order[i] \in y <=> IF t \in b[i].removed THEN FALSE
                                               ELSE t \in b[i].updated \/ order[i] \in x
    <3> SUFFICES ASSUME NEW i \in DOMAIN b
                 PROVE  order[i] \in y <=> IF t \in b[i].removed THEN FALSE
                                           ELSE t \in b[i].updated \/ order[i] \in x
      OBVIOUS
    <3>1. /\ t \in b[i].removed <=> order[i] \in before[t] \ Result(t, Now)
          /\ t \in b[i].updated <=> order[i] \in Result(t, Now)
                                    /\ (order[i] \notin before[t] \/ order[i] \in more)
      BY <1>5
    <3> QED BY <1>8, <3>1
  <2>3. \A d \in Docs : (\A i \in DOMAIN b : order[i] # d) => (d \in x <=> d \in y)
    <3> SUFFICES ASSUME NEW d \in Docs, \A i \in DOMAIN b : order[i] # d
                 PROVE  d \in x <=> d \in y
      OBVIOUS
    <3>1. d \notin D
      BY <1>3, <1>5
    <3>2. t \notin in(d) /\ t \notin out(d)
      BY <3>1 DEF D
    <3> QED BY <1>8, <3>2
  <2> HIDE DEF y
  <2>4. Moves(past, b, t, x, y)
    BY <1>6, <1>9, <2>1, <2>2, <2>3, MovesDocuments
  <2> QED BY <2>4 DEF y
<1> QED BY <1>1, <1>6, <1>7, <1>8

-----------------------------------------------------------------------------
(* The aggregator.                                                          *)

Change == {"none", "Added", "Modified", "Removed"}
TargetState(n) ==
  [out : Int, changes : [Docs -> Change], token : 0 .. n, current : BOOLEAN, pending : BOOLEAN]
Aggregator(n) ==
  [states : UNION {[D -> TargetState(n)] : D \in SUBSET Targets}, resets : SUBSET Targets]

\* The answers a target waits for.
Out(a, t) == IF t \in DOMAIN a.states THEN a.states[t].out ELSE 0

\* The documents that match t as far as the client has been told.
With(a, t, c) == {d \in Docs : a.states[t].changes[d] = c}
Shown(a, k, t) == (k[t] \ With(a, t, "Removed")) \cup With(a, t, "Added")

\* Changes are changes to the documents that are known to match.
Changes(a, k) ==
  \A t \in DOMAIN a.states : With(a, t, "Removed") \subseteq k[t] /\ With(a, t, "Added") \cap k[t] = {}

LEMMA AggregatorFacts ==
  ASSUME NEW n, NEW a \in Aggregator(n)
  PROVE  /\ DOMAIN a.states \subseteq Targets /\ a.resets \subseteq Targets
         /\ a.states \in [DOMAIN a.states -> TargetState(n)]
         /\ \A t \in DOMAIN a.states : a.states[t] \in TargetState(n)
         /\ a = [states |-> a.states, resets |-> a.resets]
<1>1. PICK D \in SUBSET Targets : a.states \in [D -> TargetState(n)]
  BY DEF Aggregator
<1>2. a.resets \subseteq Targets /\ a = [states |-> a.states, resets |-> a.resets]
  BY DEF Aggregator
<1>3. DOMAIN a.states = D
  BY <1>1
<1> QED BY <1>1, <1>2, <1>3

LEMMA IsAggregator ==
  ASSUME NEW n, NEW f, NEW R \in SUBSET Targets, DOMAIN f \subseteq Targets,
         f \in [DOMAIN f -> TargetState(n)]
  PROVE  [states |-> f, resets |-> R] \in Aggregator(n)
<1>1. f \in UNION {[D -> TargetState(n)] : D \in SUBSET Targets}
  OBVIOUS
<1> QED BY <1>1 DEF Aggregator

LEMMA StateFacts ==
  ASSUME NEW n \in Nat, NEW s \in TargetState(n)
  PROVE  /\ s.out \in Int /\ s.changes \in [Docs -> Change] /\ s.token \in 0 .. n
         /\ s.current \in BOOLEAN /\ s.pending \in BOOLEAN
         /\ \A c \in [Docs -> Change], p \in BOOLEAN :
              [s EXCEPT !.pending = p, !.changes = c] \in TargetState(n)
         /\ \A o \in Int : [s EXCEPT !.out = o] \in TargetState(n)
         /\ \A k \in 0 .. n, p \in BOOLEAN : [s EXCEPT !.token = k, !.pending = p] \in TargetState(n)
         /\ \A k, p \in BOOLEAN : [s EXCEPT !.current = k, !.pending = p] \in TargetState(n)
BY DEF TargetState

LEMMA FreshFacts ==
  ASSUME NEW n \in Nat
  PROVE  /\ FreshState \in TargetState(n) /\ FreshState.out = 0 /\ NoChanges \in [Docs -> Change]
         /\ FreshAggregator \in Aggregator(n) /\ DOMAIN FreshAggregator.states = {}
         /\ FreshAggregator.resets = {}
<1>1. NoChanges \in [Docs -> Change] /\ 0 \in 0 .. n
  BY DEF NoChanges, Change
<1>2. FreshState \in TargetState(n) /\ FreshState.out = 0
  BY <1>1 DEF FreshState, TargetState
<1>3. DOMAIN <<>> = {} /\ <<>> \in [{} -> TargetState(n)]
  OBVIOUS
<1>4. [states |-> <<>>, resets |-> {}] \in Aggregator(n)
  BY <1>3, IsAggregator
<1> QED BY <1>1, <1>2, <1>3, <1>4 DEF FreshAggregator

LEMMA EnsuredFacts ==
  ASSUME NEW n \in Nat, NEW a \in Aggregator(n), NEW t
  PROVE  Ensured(a, t) \in TargetState(n) /\ Ensured(a, t).out = Out(a, t) /\ Out(a, t) \in Int
<1>1. t \in DOMAIN a.states => a.states[t] \in TargetState(n) /\ a.states[t].out \in Int
  BY AggregatorFacts, StateFacts
<1> QED BY <1>1, FreshFacts DEF Ensured, Out

LEMMA PutFacts ==
  ASSUME NEW n \in Nat, NEW a \in Aggregator(n), NEW t \in Targets, NEW s \in TargetState(n)
  PROVE  /\ Put(a, t, s) \in Aggregator(n) /\ Put(a, t, s).resets = a.resets
         /\ DOMAIN Put(a, t, s).states = DOMAIN a.states \cup {t}
         /\ Put(a, t, s).states[t] = s
         /\ \A u \in DOMAIN a.states \ {t} : Put(a, t, s).states[u] = a.states[u]
<1> DEFINE f == Bind(a.states, t, s)
<1>1. Put(a, t, s) = [states |-> f, resets |-> a.resets]
  BY AggregatorFacts DEF Put
<1>2. /\ DOMAIN f = DOMAIN a.states \cup {t} /\ f[t] = s
      /\ \A u \in DOMAIN a.states \ {t} : f[u] = a.states[u]
      /\ f \in [DOMAIN f -> TargetState(n)] /\ DOMAIN f \subseteq Targets
  BY AggregatorFacts DEF Bind
<1> HIDE DEF f
<1>3. Put(a, t, s) \in Aggregator(n)
  BY <1>1, <1>2, AggregatorFacts, IsAggregator
<1> QED BY <1>1, <1>2, <1>3

LEMMA RemoveFacts ==
  ASSUME NEW n, NEW a \in Aggregator(n), NEW t
  PROVE  /\ RemoveTarget(a, t) \in Aggregator(n) /\ RemoveTarget(a, t).resets = a.resets
         /\ DOMAIN RemoveTarget(a, t).states = DOMAIN a.states \ {t}
         /\ \A u \in DOMAIN a.states \ {t} : RemoveTarget(a, t).states[u] = a.states[u]
<1> DEFINE f == [u \in DOMAIN a.states \ {t} |-> a.states[u]]
<1>1. RemoveTarget(a, t) = [states |-> f, resets |-> a.resets]
  BY AggregatorFacts DEF RemoveTarget
<1>2. /\ DOMAIN f = DOMAIN a.states \ {t}
      /\ \A u \in DOMAIN a.states \ {t} : f[u] = a.states[u]
      /\ f \in [DOMAIN f -> TargetState(n)] /\ DOMAIN f \subseteq Targets
  BY AggregatorFacts
<1> HIDE DEF f
<1>3. RemoveTarget(a, t) \in Aggregator(n)
  BY <1>1, <1>2, AggregatorFacts, IsAggregator
<1> QED BY <1>1, <1>2, <1>3

\* What a message m that is no answer makes of the aggregator: no count changes, and
\* the documents shown of a target that is active are what m brings them to, unless
\* the target is to be reset.
Heeds(p, a, b, m, l, k) ==
  /\ DOMAIN a.states \subseteq DOMAIN b.states /\ a.resets \subseteq b.resets
  /\ \A t \in Targets : Out(b, t) = Out(a, t)
  /\ Changes(b, k)
  /\ \A t \in l \cap DOMAIN a.states : a.states[t].out = 0 =>
       \/ t \in b.resets
       \/ /\ Shown(b, k, t) = IF IsCurrent(m, t) THEN Shown(a, k, t)
                              ELSE Brings(p, m, t, Shown(a, k, t))
          /\ IsFilter(m, t) => Cardinality(Shown(a, k, t)) = m.count

LEMMA HeedsDocument ==
  ASSUME NEW n \in Nat, NEW a \in Aggregator(n), NEW l \in SUBSET Targets,
         NEW k \in [Targets -> SUBSET Docs], Changes(a, k), NEW p,
         NEW m \in Message(n), m.kind = "document",
         NEW b, b = HandleDocumentChange(a, l, k, m.doc, m.updated, m.removed)
  PROVE  b \in Aggregator(n) /\ Heeds(p, a, b, m, l, k)
<1> DEFINE d == m.doc
           hit == {t \in m.updated \cup m.removed : IsActive(a, l, t)}
           change(t) == IF t \in m.removed THEN IF d \in k[t] THEN "Removed" ELSE "none"
                        ELSE IF d \in k[t] THEN "Modified" ELSE "Added"
           s(t) == [Ensured(a, t) EXCEPT !.pending = TRUE, !.changes[d] = change(t)]
           f == [t \in hit \cup DOMAIN a.states |-> IF t \notin hit THEN a.states[t] ELSE s(t)]
<1>1. d \in Docs /\ m.updated \subseteq Targets /\ m.removed \subseteq Targets
  BY DEF Message
<1>2. b = [states |-> f, resets |-> a.resets]
  <2>1. b = [a EXCEPT !.states = f]
    BY DEF HandleDocumentChange
  <2> HIDE DEF f
  <2> QED BY <2>1, AggregatorFacts
<1>3. ASSUME NEW t \in Targets
      PROVE  /\ s(t) \in TargetState(n) /\ s(t).out = Out(a, t)
             /\ s(t).changes = [Ensured(a, t).changes EXCEPT ![d] = change(t)]
             /\ Ensured(a, t).changes \in [Docs -> Change]
  <2> DEFINE e == Ensured(a, t)
  <2>1. e \in TargetState(n) /\ e.out = Out(a, t) /\ e.changes \in [Docs -> Change]
    BY EnsuredFacts, StateFacts
  <2>2. change(t) \in Change
    BY DEF Change
  <2>3. [e.changes EXCEPT ![d] = change(t)] \in [Docs -> Change]
    BY <2>1, <2>2
  <2> HIDE DEF e
  <2>4. [e EXCEPT !.pending = TRUE, !.changes[d] = change(t)] =
          [e EXCEPT !.pending = TRUE, !.changes = [e.changes EXCEPT ![d] = change(t)]]
    BY <2>1 DEF TargetState
  <2>5. /\ [e EXCEPT !.pending = TRUE, !.changes = [e.changes EXCEPT ![d] = change(t)]] \in TargetState(n)
        /\ [e EXCEPT !.pending = TRUE, !.changes = [e.changes EXCEPT ![d] = change(t)]].out = e.out
        /\ [e EXCEPT !.pending = TRUE, !.changes = [e.changes EXCEPT ![d] = change(t)]].changes =
             [e.changes EXCEPT ![d] = change(t)]
    BY <2>1, <2>3 DEF TargetState
  <2> QED BY <2>1, <2>4, <2>5 DEF e
<1>4. /\ DOMAIN f = hit \cup DOMAIN a.states
      /\ \A t \in hit : f[t] = s(t) /\ t \in Targets
      /\ \A t \in DOMAIN a.states : t \notin hit => f[t] = a.states[t]
  BY <1>1
<1> HIDE DEF f, s, change
<1>5. DOMAIN f \subseteq Targets /\ f \in [DOMAIN f -> TargetState(n)]
  <2>1. \A t \in DOMAIN f : t \in Targets /\ f[t] \in TargetState(n)
    <3> SUFFICES ASSUME NEW t \in DOMAIN f PROVE t \in Targets /\ f[t] \in TargetState(n)
      OBVIOUS
    <3>1. CASE t \in hit
      BY <1>3, <1>4, <3>1
    <3>2. CASE t \notin hit
      <4>1. t \in DOMAIN a.states
        BY <1>4, <3>2
      <4> QED BY <1>4, <3>2, <4>1, AggregatorFacts
    <3> QED BY <3>1, <3>2
  <2>2. f = [t \in DOMAIN f |-> f[t]]
    BY DEF f
  <2> QED BY <2>1, <2>2
<1>6. b \in Aggregator(n) /\ b.states = f /\ b.resets = a.resets
  BY <1>2, <1>5, AggregatorFacts, IsAggregator
<1>7. \A t \in Targets : Out(b, t) = Out(a, t)
  <2> SUFFICES ASSUME NEW t \in Targets PROVE Out(b, t) = Out(a, t)
    OBVIOUS
  <2>1. CASE t \in hit
    BY <1>3, <1>4, <1>6, <2>1 DEF Out
  <2>2. CASE t \notin hit
    BY <1>4, <1>6, <2>2 DEF Out
  <2> QED BY <2>1, <2>2
\* Of the documents shown of a target that is hit, only d is another.
<1>8. ASSUME NEW t \in hit
      PROVE  /\ \A c \in Change, e \in Docs :
                  e \in With(b, t, c) <=> IF e = d THEN c = change(t) ELSE Ensured(a, t).changes[e] = c
             /\ t \in Targets
  <2>1. t \in Targets /\ b.states[t].changes = [Ensured(a, t).changes EXCEPT ![d] = change(t)]
        /\ Ensured(a, t).changes \in [Docs -> Change]
    BY <1>3, <1>4, <1>6
  <2>2. \A e \in Docs : b.states[t].changes[e] = IF e = d THEN change(t) ELSE Ensured(a, t).changes[e]
    BY <1>1, <2>1
  <2> QED BY <2>1, <2>2 DEF With
<1>9. ASSUME NEW t \in hit, NEW e \in Docs
      PROVE  (e \in With(b, t, "Removed") => e \in k[t]) /\ (e \in With(b, t, "Added") => e \notin k[t])
  <2>1. "Removed" \in Change /\ "Added" \in Change
    BY DEF Change
  <2>2. CASE e = d
    BY <1>8, <2>1, <2>2 DEF change
  <2>3. CASE e # d /\ t \in DOMAIN a.states
    BY <1>8, <2>1, <2>3 DEF Ensured, Changes, With
  <2>4. CASE e # d /\ t \notin DOMAIN a.states
    BY <1>8, <2>1, <2>4 DEF Ensured, FreshState, NoChanges
  <2> QED BY <2>2, <2>3, <2>4
<1>10. Changes(b, k)
  <2> SUFFICES ASSUME NEW t \in DOMAIN b.states
               PROVE  With(b, t, "Removed") \subseteq k[t] /\ With(b, t, "Added") \cap k[t] = {}
    BY DEF Changes
  <2>1. CASE t \in hit
    BY <1>9, <2>1 DEF With
  <2>2. CASE t \notin hit
    BY <1>4, <1>6, <2>2 DEF Changes, With
  <2> QED BY <2>1, <2>2
<1>11. ASSUME NEW t \in l \cap DOMAIN a.states, a.states[t].out = 0
       PROVE  Shown(b, k, t) = Brings(p, m, t, Shown(a, k, t))
  <2>1. t \in Targets /\ IsActive(a, l, t) /\ Ensured(a, t) = a.states[t] /\ k[t] \subseteq Docs
    BY <1>11 DEF IsActive, Ensured
  <2>2. "Removed" \in Change /\ "Added" \in Change
    BY DEF Change
  <2>3. CASE t \in hit
    <3>1. \A e \in Docs : e # d => (e \in Shown(b, k, t) <=> e \in Shown(a, k, t))
      BY <1>8, <2>1, <2>2, <2>3 DEF Shown, With
    <3>2. d \in Shown(b, k, t) <=> t \notin m.removed
      BY <1>1, <1>8, <2>1, <2>2, <2>3 DEF Shown, change
    <3>3. Shown(a, k, t) \subseteq Docs /\ Shown(b, k, t) \subseteq Docs
      BY <2>1 DEF Shown, With
    <3>4. CASE t \in m.removed
      <4>1. Shown(b, k, t) = Shown(a, k, t) \ {d}
        BY <1>1, <3>1, <3>2, <3>3, <3>4
      <4> QED BY <3>4, <4>1 DEF Brings
    <3>5. CASE t \notin m.removed
      <4>1. Shown(b, k, t) = Shown(a, k, t) \cup {d} /\ t \in m.updated
        BY <1>1, <2>3, <3>1, <3>2, <3>3, <3>5
      <4> QED BY <3>5, <4>1 DEF Brings
    <3> QED BY <3>4, <3>5
  <2>4. CASE t \notin hit
    <3>1. t \notin m.updated /\ t \notin m.removed
      BY <2>1, <2>4
    <3>2. Shown(b, k, t) = Shown(a, k, t)
      BY <1>4, <1>6, <2>4 DEF Shown, With
    <3> QED BY <3>1, <3>2 DEF Brings
  <2> QED BY <2>3, <2>4
<1>12. \A t : ~ IsCurrent(m, t) /\ ~ IsFilter(m, t)
  BY DEF IsCurrent, IsFilter
<1> QED BY <1>4, <1>6, <1>7, <1>10, <1>11, <1>12 DEF Heeds

\* The same for a message about one target, the state of which is put in place.
LEMMA HeedsPut ==
  ASSUME NEW n \in Nat, NEW a \in Aggregator(n), NEW l \in SUBSET Targets,
         NEW k \in [Targets -> SUBSET Docs], Changes(a, k), NEW p,
         NEW m \in Message(n), m.kind \in {"current", "reset", "filter"},
         NEW s \in TargetState(n), s.out = Out(a, m.t),
         NEW b \in Aggregator(n), b.states = Put(a, m.t, s).states, a.resets \subseteq b.resets,
         With(b, m.t, "Removed") \subseteq k[m.t], With(b, m.t, "Added") \cap k[m.t] = {},
         m.t \in l \cap DOMAIN a.states /\ a.states[m.t].out = 0 =>
           \/ m.t \in b.resets
           \/ /\ Shown(b, k, m.t) = IF m.kind = "current" THEN Shown(a, k, m.t)
                                    ELSE Brings(p, m, m.t, Shown(a, k, m.t))
              /\ m.kind = "filter" => Cardinality(Shown(a, k, m.t)) = m.count
  PROVE  Heeds(p, a, b, m, l, k)
<1>1. m.t \in Targets
  BY DEF Message
<1>2. /\ DOMAIN b.states = DOMAIN a.states \cup {m.t} /\ b.states[m.t] = s
      /\ \A u \in DOMAIN a.states \ {m.t} : b.states[u] = a.states[u]
  BY <1>1, PutFacts
<1>3. \A t \in Targets : Out(b, t) = Out(a, t)
  BY <1>2 DEF Out
<1>4. Changes(b, k)
  BY <1>2 DEF Changes, With
<1>5. ASSUME NEW t \in l \cap DOMAIN a.states, t # m.t
      PROVE  /\ Shown(b, k, t) = Shown(a, k, t) /\ ~ IsCurrent(m, t) /\ ~ IsFilter(m, t)
             /\ Brings(p, m, t, Shown(a, k, t)) = Shown(a, k, t)
  <2>1. Shown(b, k, t) = Shown(a, k, t)
    BY <1>2, <1>5 DEF Shown, With
  <2>2. ~ IsCurrent(m, t) /\ ~ IsFilter(m, t)
    BY <1>5 DEF IsCurrent, IsFilter
  <2> QED BY <1>5, <2>1, <2>2 DEF Brings
<1>6. IsCurrent(m, m.t) <=> m.kind = "current"
  BY DEF IsCurrent
<1>7. IsFilter(m, m.t) <=> m.kind = "filter"
  BY DEF IsFilter
<1>8. ASSUME NEW t \in l \cap DOMAIN a.states, a.states[t].out = 0
      PROVE  \/ t \in b.resets
             \/ /\ Shown(b, k, t) = IF IsCurrent(m, t) THEN Shown(a, k, t)
                                    ELSE Brings(p, m, t, Shown(a, k, t))
                /\ IsFilter(m, t) => Cardinality(Shown(a, k, t)) = m.count
  <2>1. CASE t = m.t
    BY <1>6, <1>7, <1>8, <2>1
  <2>2. CASE t # m.t
    BY <1>5, <2>2
  <2> QED BY <2>1, <2>2
<1> QED BY <1>2, <1>3, <1>4, <1>8 DEF Heeds

\* Without changes, documents are shown as they are known; what is known of a target
\* whose state is as it was is as it was.
LEMMA FreshShown ==
  ASSUME NEW a, NEW k, NEW t, a.states[t].changes = NoChanges
  PROVE  With(a, t, "Removed") = {} /\ With(a, t, "Added") = {} /\ Shown(a, k, t) = k[t]
BY DEF With, Shown, NoChanges

LEMMA EnsuredChanges ==
  ASSUME NEW a, NEW k, Changes(a, k), NEW t, NEW b, b.states[t].changes = Ensured(a, t).changes
  PROVE  /\ With(b, t, "Removed") \subseteq k[t] /\ With(b, t, "Added") \cap k[t] = {}
         /\ t \in DOMAIN a.states => Shown(b, k, t) = Shown(a, k, t)
<1>1. CASE t \in DOMAIN a.states
  BY <1>1 DEF Ensured, Changes, With, Shown
<1>2. CASE t \notin DOMAIN a.states
  <2>1. b.states[t].changes = NoChanges
    BY <1>2 DEF Ensured, FreshState
  <2> QED BY <1>2, <2>1, FreshShown
<1> QED BY <1>1, <1>2

LEMMA HeedsCurrent ==
  ASSUME NEW n \in Nat, NEW a \in Aggregator(n), NEW l \in SUBSET Targets,
         NEW k \in [Targets -> SUBSET Docs], Changes(a, k), NEW p,
         NEW m \in Message(n), m.kind = "current",
         NEW b, b = TargetCurrent(a, l, m.t, m.version)
  PROVE  b \in Aggregator(n) /\ Heeds(p, a, b, m, l, k)
<1> DEFINE e == Ensured(a, m.t)
           c == [e EXCEPT !.current = TRUE, !.pending = TRUE]
           s == IF IsActive(a, l, m.t) THEN UpdateResumeToken(c, m.version) ELSE e
<1>1. m.t \in Targets /\ m.version \in 0 .. n
  BY DEF Message
<1>2. e \in TargetState(n) /\ e.out = Out(a, m.t)
  BY EnsuredFacts
<1>3. s \in TargetState(n) /\ s.out = e.out /\ s.changes = e.changes
  <2>1. c \in TargetState(n) /\ c.out = e.out /\ c.changes = e.changes
    BY <1>2 DEF TargetState
  <2> HIDE DEF c, e
  <2> QED BY <1>1, <1>2, <2>1 DEF UpdateResumeToken, TargetState
<1>4. b = Put(a, m.t, s)
  BY DEF TargetCurrent
<1> HIDE DEF e, s
<1>5. b \in Aggregator(n) /\ b.resets = a.resets /\ b.states[m.t].changes = e.changes
  BY <1>1, <1>3, <1>4, PutFacts
<1>6. /\ With(b, m.t, "Removed") \subseteq k[m.t] /\ With(b, m.t, "Added") \cap k[m.t] = {}
      /\ m.t \in DOMAIN a.states => Shown(b, k, m.t) = Shown(a, k, m.t)
  BY <1>5, EnsuredChanges DEF e
<1> QED BY <1>2, <1>3, <1>4, <1>5, <1>6, HeedsPut

LEMMA ResetFacts ==
  ASSUME NEW n \in Nat, NEW a \in Aggregator(n), NEW t \in Targets,
         NEW k \in [Targets -> SUBSET Docs],
         NEW b, b.states = ResetTarget(a, k, t).states
  PROVE  \E s \in TargetState(n) :
           /\ s.out = 0 /\ ResetTarget(a, k, t) = Put(a, t, s)
           /\ With(b, t, "Removed") \subseteq k[t] /\ With(b, t, "Added") \cap k[t] = {}
           /\ Shown(b, k, t) = {}
<1> DEFINE c == [d \in Docs |-> IF d \in k[t] THEN "Removed" ELSE "none"]
           s == [FreshState EXCEPT !.changes = c]
<1>1. c \in [Docs -> Change]
  BY DEF Change
<1> HIDE DEF c
<1>2. s \in TargetState(n) /\ s.out = 0 /\ s.changes = c
  BY <1>1, FreshFacts DEF TargetState
<1>3. ResetTarget(a, k, t) = Put(a, t, s)
  BY DEF ResetTarget, c
<1> HIDE DEF s
<1>4. b.states[t].changes = c
  BY <1>2, <1>3, PutFacts
<1>5. With(b, t, "Removed") = k[t] /\ With(b, t, "Added") = {}
  BY <1>4 DEF With, c
<1>6. Shown(b, k, t) = {}
  BY <1>5 DEF Shown
<1> QED BY <1>2, <1>3, <1>5, <1>6

LEMMA ActiveOut ==
  ASSUME NEW a, NEW l, NEW t
  PROVE  IsActive(a, l, t) <=> t \in l /\ Out(a, t) = 0
BY DEF IsActive, Out

LEMMA HeedsReset ==
  ASSUME NEW n \in Nat, NEW a \in Aggregator(n), NEW l \in SUBSET Targets,
         NEW k \in [Targets -> SUBSET Docs], Changes(a, k), NEW p,
         NEW m \in Message(n), m.kind = "reset",
         NEW b, b = TargetReset(a, l, k, m.t)
  PROVE  b \in Aggregator(n) /\ Heeds(p, a, b, m, l, k)
<1>1. m.t \in Targets
  BY DEF Message
<1>2. CASE IsActive(a, l, m.t)
  <2>1. b = ResetTarget(a, k, m.t)
    BY <1>2 DEF TargetReset
  <2>2. PICK s \in TargetState(n) :
          /\ s.out = 0 /\ b = Put(a, m.t, s)
          /\ With(b, m.t, "Removed") \subseteq k[m.t] /\ With(b, m.t, "Added") \cap k[m.t] = {}
          /\ Shown(b, k, m.t) = {}
    BY <1>1, <2>1, ResetFacts
  <2>3. b \in Aggregator(n) /\ b.resets = a.resets
    BY <1>1, <2>2, PutFacts
  <2>4. s.out = Out(a, m.t)
    BY <1>2, <2>2, ActiveOut
  <2>5. Brings(p, m, m.t, Shown(a, k, m.t)) = {}
    BY DEF Brings, IsCurrent
  <2> QED BY <2>2, <2>3, <2>4, <2>5, HeedsPut
<1>3. CASE ~ IsActive(a, l, m.t)
  <2> DEFINE s == Ensured(a, m.t)
  <2>1. s \in TargetState(n) /\ s.out = Out(a, m.t) /\ b = Put(a, m.t, s)
    BY <1>3, EnsuredFacts DEF TargetReset
  <2> HIDE DEF s
  <2>2. b \in Aggregator(n) /\ b.resets = a.resets /\ b.states[m.t].changes = s.changes
    BY <1>1, <2>1, PutFacts
  <2>3. With(b, m.t, "Removed") \subseteq k[m.t] /\ With(b, m.t, "Added") \cap k[m.t] = {}
    BY <2>2, EnsuredChanges DEF s
  <2>4. ~ (m.t \in l \cap DOMAIN a.states /\ a.states[m.t].out = 0)
    BY <1>3 DEF IsActive
  <2> QED BY <2>1, <2>2, <2>3, <2>4, HeedsPut
<1> QED BY <1>2, <1>3

LEMMA HeedsFilter ==
  ASSUME NEW n \in Nat, NEW a \in Aggregator(n), NEW l \in SUBSET Targets,
         NEW k \in [Targets -> SUBSET Docs], Changes(a, k), NEW p,
         NEW m \in Message(n), m.kind = "filter",
         NEW b, b = HandleExistenceFilter(a, l, k, m.t, m.count)
  PROVE  b \in Aggregator(n) /\ Heeds(p, a, b, m, l, k)
<1> DEFINE t == m.t
           s == Ensured(a, t)
           count(c) == Cardinality({d \in Docs : s.changes[d] = c})
<1>1. t \in Targets /\ m.count \in Nat
  BY DEF Message
<1>2. s \in TargetState(n) /\ s.out = Out(a, t)
  BY EnsuredFacts
<1>3. CASE ~ IsActive(a, l, t)
  <2>1. b = a
    BY <1>3 DEF HandleExistenceFilter
  <2>2. \A u \in l \cap DOMAIN a.states : a.states[u].out = 0 => u # t
    BY <1>3 DEF IsActive
  <2>3. \A u : u # t => ~ IsCurrent(m, u) /\ ~ IsFilter(m, u) /\ Brings(p, m, u, Shown(a, k, u)) = Shown(a, k, u)
    BY DEF IsCurrent, IsFilter, Brings
  <2> QED BY <2>1, <2>2, <2>3 DEF Heeds
<1>4. CASE IsActive(a, l, t) /\ Cardinality(k[t]) + count("Added") - count("Removed") = m.count
  <2>1. b = Put(a, t, s)
    BY <1>4 DEF HandleExistenceFilter
  <2>2. b \in Aggregator(n) /\ b.resets = a.resets /\ b.states[t].changes = s.changes
    <3> HIDE DEF s
    <3> QED BY <1>1, <1>2, <2>1, PutFacts
  <2>3. /\ With(b, t, "Removed") \subseteq k[t] /\ With(b, t, "Added") \cap k[t] = {}
        /\ t \in DOMAIN a.states => Shown(b, k, t) = Shown(a, k, t)
    BY <2>2, EnsuredChanges
  <2>4. ASSUME t \in DOMAIN a.states PROVE Cardinality(Shown(a, k, t)) = m.count
    <3> DEFINE R == With(a, t, "Removed")
               A == With(a, t, "Added")
    <3>1. R \subseteq k[t] /\ A \cap k[t] = {} /\ k[t] \subseteq Docs /\ A \subseteq Docs
      BY <1>1, <2>4 DEF Changes, With
    <3>2. count("Removed") = Cardinality(R) /\ count("Added") = Cardinality(A)
      BY <2>4 DEF Ensured, With
    <3> HIDE DEF R, A, count
    <3>3. IsFiniteSet(k[t]) /\ IsFiniteSet(A) /\ IsFiniteSet(R) /\ IsFiniteSet(k[t] \ R)
      BY <3>1, FiniteAssumption, FS_Subset
    <3>4. Cardinality(k[t] \ R) = Cardinality(k[t]) - Cardinality(R)
      <4>1. k[t] \cap R = R
        BY <3>1
      <4>2. Cardinality(k[t] \ R) = Cardinality(k[t]) - Cardinality(k[t] \cap R)
        BY <3>3, FS_Difference
      <4> QED BY <4>1, <4>2
    <3>5. Cardinality((k[t] \ R) \cup A) = Cardinality(k[t] \ R) + Cardinality(A)
      <4>1. (k[t] \ R) \cap A = {}
        BY <3>1
      <4>2. Cardinality((k[t] \ R) \cup A) = Cardinality(k[t] \ R) + Cardinality(A) - Cardinality((k[t] \ R) \cap A)
        BY <3>3, FS_Union
      <4>3. Cardinality((k[t] \ R) \cap A) = 0
        BY <4>1, FS_EmptySet
      <4> QED BY <3>3, <4>2, <4>3, FS_CardinalityType
    <3>6. Shown(a, k, t) = (k[t] \ R) \cup A
      BY DEF Shown, R, A
    <3>7. Cardinality(k[t]) \in Nat /\ Cardinality(R) \in Nat /\ Cardinality(A) \in Nat
      BY <3>3, FS_CardinalityType
    <3>8. Cardinality(Shown(a, k, t)) = Cardinality(k[t]) - Cardinality(R) + Cardinality(A)
      BY <3>4, <3>5, <3>6
    <3> HIDE DEF t
    <3> QED BY <1>4, <3>2, <3>7, <3>8
  <2>5. Brings(p, m, t, Shown(a, k, t)) = Shown(a, k, t)
    BY DEF Brings, IsCurrent
  <2> HIDE DEF s
  <2> QED BY <1>2, <2>1, <2>2, <2>3, <2>4, <2>5, HeedsPut
<1>5. CASE IsActive(a, l, t) /\ Cardinality(k[t]) + count("Added") - count("Removed") # m.count
  <2>1. b = [ResetTarget(a, k, t) EXCEPT !.resets = @ \cup {t}]
    BY <1>5 DEF HandleExistenceFilter
  <2> DEFINE r == ResetTarget(a, k, t)
  <2>2. PICK z \in TargetState(n) : z.out = 0 /\ r = Put(a, t, z)
    BY <1>1, ResetFacts
  <2>3. r \in Aggregator(n) /\ r.resets = a.resets
    BY <1>1, <2>2, PutFacts
  <2>4. b.states = r.states /\ b.resets = a.resets \cup {t} /\ b \in Aggregator(n)
    <3>0. b = [r EXCEPT !.resets = @ \cup {t}]
      BY <2>1
    <3> HIDE DEF r
    <3>1. b = [states |-> r.states, resets |-> a.resets \cup {t}]
      <4>1. r = [states |-> r.states, resets |-> r.resets]
        BY <2>3, AggregatorFacts
      <4> QED BY <2>3, <3>0, <4>1
    <3>2. a.resets \cup {t} \in SUBSET Targets
      BY <1>1, AggregatorFacts
    <3>3. b \in Aggregator(n)
      BY <2>3, <3>1, <3>2, AggregatorFacts, IsAggregator
    <3> QED BY <3>1, <3>3
  <2>5. PICK y \in TargetState(n) :
          /\ y.out = 0 /\ r = Put(a, t, y)
          /\ With(b, t, "Removed") \subseteq k[t] /\ With(b, t, "Added") \cap k[t] = {}
    BY <1>1, <2>4, ResetFacts
  <2>6. y.out = Out(a, t) /\ b.states = Put(a, t, y).states /\ t \in b.resets /\ a.resets \subseteq b.resets
    BY <1>5, <2>4, <2>5, ActiveOut
  <2> HIDE DEF r
  <2> QED BY <2>4, <2>5, <2>6, HeedsPut
<1> QED BY <1>3, <1>4, <1>5

-----------------------------------------------------------------------------
(* How many answers about a target are due.                                 *)

RequestOf(t) == [kind : {"watch", "unwatch"}, t : {t}, token : Nat]
AnswerOf(t) == [kind : {"added", "removed", "refused"}, t : {t}]

LEMMA CountMore ==
  ASSUME NEW M, NEW s \in Seq(M), NEW m \in M, NEW S
  PROVE  Count(s \o <<m>>, S) = Count(s, S) + (IF m \in S THEN 1 ELSE 0)
<1> DEFINE c == <<m>>
<1>1. c \in Seq(M) /\ Count(c, S) = IF m \in S THEN 1 ELSE 0
  BY CountOne
<1> HIDE DEF c
<1>2. Count(s \o c, S) = Count(s, S) + Count(c, S)
  BY <1>1, CountConcat
<1> QED BY <1>1, <1>2 DEF c

LEMMA AnswerFacts ==
  ASSUME NEW n \in Nat, NEW m \in Message(n), NEW t
  PROVE  m \in AnswerOf(t) <=> IsAnswer(m, t)
<1>1. m \in AnswerOf(t) => IsAnswer(m, t)
  BY DEF AnswerOf, IsAnswer
<1>2. ASSUME IsAnswer(m, t) PROVE m \in AnswerOf(t)
  <2>1. m \in [kind : {"added", "removed", "refused", "reset"}, t : Targets]
    BY <1>2 DEF Message, IsAnswer
  <2> QED BY <1>2, <2>1 DEF AnswerOf, IsAnswer
<1> QED BY <1>1, <1>2

LEMMA DueFacts ==
  ASSUME NEW n \in Nat, NEW q \in Seq(Request(n)), NEW r \in Seq(Message(n)), NEW t
  PROVE  /\ Due(t, q, r) = Count(q, RequestOf(t)) + Count(r, AnswerOf(t))
         /\ Due(t, q, r) \in Nat
         /\ Due(t, q, r) = 0 <=> NoAsk(q, t) /\ Quiet(r, t, 1)
<1>1. \A i \in DOMAIN q : q[i].t = t <=> q[i] \in RequestOf(t)
  <2>1. \A i \in DOMAIN q : q[i] \in Request(n)
    BY ElementOfSeq, LenProperties
  <2> QED BY <2>1 DEF Request, RequestOf
<1>2. \A i \in DOMAIN r : IsAnswer(r[i], t) <=> r[i] \in AnswerOf(t)
  <2>1. \A i \in DOMAIN r : r[i] \in Message(n)
    BY ElementOfSeq, LenProperties
  <2> QED BY <2>1, AnswerFacts
<1>3. /\ {i \in DOMAIN q : q[i].t = t} = {i \in DOMAIN q : q[i] \in RequestOf(t)}
      /\ {i \in DOMAIN r : r[i].kind \in {"added", "removed", "refused"} /\ r[i].t = t}
           = {i \in DOMAIN r : r[i] \in AnswerOf(t)}
  BY <1>1, <1>2 DEF IsAnswer
<1>4. Due(t, q, r) = Count(q, RequestOf(t)) + Count(r, AnswerOf(t))
  BY <1>3 DEF Due, Count
<1>5. /\ Count(q, RequestOf(t)) \in Nat /\ Count(r, AnswerOf(t)) \in Nat
      /\ Count(q, RequestOf(t)) = 0 <=> \A i \in DOMAIN q : q[i] \notin RequestOf(t)
      /\ Count(r, AnswerOf(t)) = 0 <=> \A i \in DOMAIN r : r[i] \notin AnswerOf(t)
  BY CountType
<1>6. NoAsk(q, t) <=> \A i \in DOMAIN q : q[i] \notin RequestOf(t)
  BY <1>1 DEF NoAsk
<1>7. Quiet(r, t, 1) <=> \A i \in DOMAIN r : r[i] \notin AnswerOf(t)
  <2>1. \A i \in DOMAIN r : i >= 1
    BY LenProperties
  <2> QED BY <1>2, <2>1 DEF Quiet
<1> HIDE DEF RequestOf, AnswerOf
<1> QED BY <1>4, <1>5, <1>6, <1>7

\* A request is made.
LEMMA DueAppend ==
  ASSUME NEW n \in Nat, NEW q \in Seq(Request(n)), NEW r \in Seq(Message(n)), NEW t,
         NEW m \in Request(n)
  PROVE  Due(t, Append(q, m), r) = Due(t, q, r) + (IF m.t = t THEN 1 ELSE 0)
<1>1. Append(q, m) \in Seq(Request(n)) /\ Append(q, m) = q \o <<m>> /\ <<m>> \in Seq(Request(n))
  BY AppendProperties, AppendIsConcat
<1>2. m \in RequestOf(t) <=> m.t = t
  BY DEF Request, RequestOf
<1>3. Count(q \o <<m>>, RequestOf(t)) = Count(q, RequestOf(t)) + (IF m.t = t THEN 1 ELSE 0)
  BY <1>2, CountMore
<1>4. Due(t, Append(q, m), r) = Count(q \o <<m>>, RequestOf(t)) + Count(r, AnswerOf(t))
  <2>1. Due(t, Append(q, m), r) = Count(Append(q, m), RequestOf(t)) + Count(r, AnswerOf(t))
    BY <1>1, DueFacts
  <2> QED BY <1>1, <2>1
<1>5. Due(t, q, r) = Count(q, RequestOf(t)) + Count(r, AnswerOf(t))
  BY DueFacts
<1>6. Count(q, RequestOf(t)) \in Nat /\ Count(r, AnswerOf(t)) \in Nat
  BY CountType
<1> QED BY <1>3, <1>4, <1>5, <1>6

\* A message is taken.
LEMMA DueTail ==
  ASSUME NEW n \in Nat, NEW q \in Seq(Request(n)), NEW r \in Seq(Message(n)), NEW t, r # <<>>
  PROVE  Due(t, q, r) = Due(t, q, Tail(r)) + (IF IsAnswer(Head(r), t) THEN 1 ELSE 0)
<1>1. Tail(r) \in Seq(Message(n)) /\ Head(r) \in Message(n)
  BY TailFacts
<1>2. Count(r, AnswerOf(t)) = Count(Tail(r), AnswerOf(t)) + (IF IsAnswer(Head(r), t) THEN 1 ELSE 0)
  BY <1>1, CountTail, AnswerFacts
<1>3. /\ Due(t, q, r) = Count(q, RequestOf(t)) + Count(r, AnswerOf(t))
      /\ Due(t, q, Tail(r)) = Count(q, RequestOf(t)) + Count(Tail(r), AnswerOf(t))
  BY <1>1, DueFacts
<1>4. Count(q, RequestOf(t)) \in Nat /\ Count(Tail(r), AnswerOf(t)) \in Nat
  BY <1>1, CountType
<1> QED BY <1>2, <1>3, <1>4

\* A request is answered.
LEMMA DueServed ==
  ASSUME NEW n \in Nat, NEW q \in Seq(Request(n)), NEW r \in Seq(Message(n)), NEW t, q # <<>>,
         NEW m \in Message(n), IsAnswer(m, Head(q).t)
  PROVE  Due(t, Tail(q), r \o <<m>>) = Due(t, q, r)
<1>1. Tail(q) \in Seq(Request(n)) /\ Head(q) \in Request(n) /\ <<m>> \in Seq(Message(n))
  BY TailFacts
<1>2. r \o <<m>> \in Seq(Message(n))
  BY <1>1, ConcatFacts
<1>3. Head(q) \in RequestOf(t) <=> Head(q).t = t
  BY <1>1 DEF Request, RequestOf
<1>4. m \in AnswerOf(t) <=> Head(q).t = t
  BY AnswerFacts DEF IsAnswer
<1>5. Count(q, RequestOf(t)) = Count(Tail(q), RequestOf(t)) + (IF Head(q).t = t THEN 1 ELSE 0)
  BY <1>3, CountTail
<1>6. Count(r \o <<m>>, AnswerOf(t)) = Count(r, AnswerOf(t)) + (IF Head(q).t = t THEN 1 ELSE 0)
  BY <1>4, CountMore
<1>7. /\ Due(t, q, r) = Count(q, RequestOf(t)) + Count(r, AnswerOf(t))
      /\ Due(t, Tail(q), r \o <<m>>) = Count(Tail(q), RequestOf(t)) + Count(r \o <<m>>, AnswerOf(t))
  BY <1>1, <1>2, DueFacts
<1>8. Count(Tail(q), RequestOf(t)) \in Nat /\ Count(r, AnswerOf(t)) \in Nat
  BY <1>1, CountType
<1> QED BY <1>5, <1>6, <1>7, <1>8

\* The backend tells of something else.
LEMMA DueMore ==
  ASSUME NEW n \in Nat, NEW q \in Seq(Request(n)), NEW r \in Seq(Message(n)), NEW t,
         NEW b \in Seq(Message(n)), Quiet(b, t, 1)
  PROVE  Due(t, q, r \o b) = Due(t, q, r)
<1>1. r \o b \in Seq(Message(n))
  BY ConcatFacts
<1>2. Count(b, AnswerOf(t)) = 0
  <2>1. \A i \in DOMAIN b : b[i] \in Message(n) /\ i >= 1
    BY ElementOfSeq, LenProperties
  <2>2. \A i \in DOMAIN b : b[i] \notin AnswerOf(t)
    BY <2>1, AnswerFacts DEF Quiet
  <2> QED BY <2>2, CountType
<1>3. Count(r \o b, AnswerOf(t)) = Count(r, AnswerOf(t))
  <2>1. Count(r \o b, AnswerOf(t)) = Count(r, AnswerOf(t)) + Count(b, AnswerOf(t))
    BY CountConcat
  <2>2. Count(r, AnswerOf(t)) \in Nat
    BY CountType
  <2> QED BY <1>2, <2>1, <2>2
<1>4. Due(t, q, r \o b) = Count(q, RequestOf(t)) + Count(r \o b, AnswerOf(t))
  BY <1>1, DueFacts
<1>5. Due(t, q, r) = Count(q, RequestOf(t)) + Count(r, AnswerOf(t))
  BY DueFacts
<1> QED BY <1>3, <1>4, <1>5

\* What is asked for again: not to watch each target of S, and to watch it from 0.
Again(o) == [i \in 1 .. 2 * Len(o) |-> IF i % 2 = 1 THEN Unwatch(o[(i + 1) \div 2])
                                       ELSE Watch(o[i \div 2], 0)]

LEMMA AgainFacts ==
  ASSUME NEW n \in Nat, NEW S \in SUBSET Targets, NEW t \in Targets
  PROVE  /\ Again(SetToSeq(S)) \in Seq(Request(n))
         /\ Count(Again(SetToSeq(S)), RequestOf(t)) = IF t \in S THEN 2 ELSE 0
         /\ t \notin S => NoAsk(Again(SetToSeq(S)), t)
         /\ t \in S => ~ NoAsk(Again(SetToSeq(S)), t)
         /\ \A j : LastAsk(Again(SetToSeq(S)), t, j) => Again(SetToSeq(S))[j] = Watch(t, 0)
<1> DEFINE o == SetToSeq(S)
           b == Again(o)
           I == {i \in DOMAIN b : b[i] \in RequestOf(t)}
<1>1. IsFiniteSet(S)
  BY FiniteAssumption, FS_Subset
<1>2. /\ Len(o) \in Nat /\ \A i \in 1 .. Len(o) : o[i] \in S
      /\ \A i, j \in 1 .. Len(o) : o[i] = o[j] => i = j
      /\ \A x \in S : \E i \in 1 .. Len(o) : o[i] = x
  <2>1. o \in Seq(S)
    BY <1>1, SetToSeqFacts
  <2>2. Len(o) \in Nat /\ \A i \in 1 .. Len(o) : o[i] \in S
    BY <2>1, LenProperties, ElementOfSeq
  <2> QED BY <1>1, <2>2, SetToSeqFacts
<1> HIDE DEF o
<1>3. ASSUME NEW i \in 1 .. 2 * Len(o)
      PROVE  \E h \in 1 .. Len(o) : \/ i = 2 * h - 1 /\ b[i] = Unwatch(o[h])
                                    \/ i = 2 * h /\ b[i] = Watch(o[h], 0)
  <2>1. CASE i % 2 = 1
    <3>1. (i + 1) \div 2 \in 1 .. Len(o) /\ i = 2 * ((i + 1) \div 2) - 1
      BY <1>2, <2>1
    <3> QED BY <2>1, <3>1 DEF Again
  <2>2. CASE i % 2 # 1
    <3>1. i \div 2 \in 1 .. Len(o) /\ i = 2 * (i \div 2)
      BY <1>2, <2>2
    <3> QED BY <2>2, <3>1 DEF Again
  <2> QED BY <2>1, <2>2
<1>4. ASSUME NEW h \in 1 .. Len(o)
      PROVE  /\ 2 * h - 1 \in 1 .. 2 * Len(o) /\ b[2 * h - 1] = Unwatch(o[h])
             /\ 2 * h \in 1 .. 2 * Len(o) /\ b[2 * h] = Watch(o[h], 0)
  <2>1. /\ 2 * h - 1 \in 1 .. 2 * Len(o) /\ (2 * h - 1) % 2 = 1 /\ (2 * h - 1 + 1) \div 2 = h
        /\ 2 * h \in 1 .. 2 * Len(o) /\ (2 * h) % 2 # 1 /\ (2 * h) \div 2 = h
    BY <1>2
  <2> QED BY <2>1 DEF Again
<1>5. DOMAIN b = 1 .. 2 * Len(o) /\ 2 * Len(o) \in Nat
  BY <1>2 DEF Again
<1> HIDE DEF b
<1>6. \A i \in DOMAIN b : b[i] \in Request(n)
  <2>1. \A x \in Targets : Unwatch(x) \in Request(n) /\ Watch(x, 0) \in Request(n)
    BY DEF Unwatch, Watch, Request
  <2> QED BY <1>2, <1>3, <1>5, <2>1
<1>7. b \in Seq(Request(n))
  <2>1. b = [i \in 1 .. 2 * Len(o) |-> b[i]]
    BY DEF b, Again
  <2>2. b \in [1 .. 2 * Len(o) -> Request(n)]
    BY <1>5, <1>6, <2>1
  <2> QED BY <1>5, <2>2, SeqDef
<1>8. \A x, y : (Unwatch(x) \in RequestOf(y) <=> x = y) /\ (Watch(x, 0) \in RequestOf(y) <=> x = y)
      /\ Unwatch(x).t = x /\ Watch(x, 0).t = x
  BY DEF Unwatch, Watch, RequestOf
<1>9. CASE t \notin S
  <2>1. \A i \in DOMAIN b : b[i] \notin RequestOf(t) /\ b[i].t # t
    BY <1>2, <1>3, <1>5, <1>8, <1>9
  <2>2. NoAsk(b, t) /\ \A j : ~ LastAsk(b, t, j)
    BY <2>1 DEF NoAsk, LastAsk
  <2>3. Count(b, RequestOf(t)) = 0
    BY <1>7, <2>1, CountType
  <2> QED BY <1>7, <1>9, <2>2, <2>3 DEF b, o
<1>10. CASE t \in S
  <2>1. PICK h \in 1 .. Len(o) : o[h] = t
    BY <1>2, <1>10
  <2>2. h \in Nat /\ 2 * h - 1 \in DOMAIN b /\ 2 * h \in DOMAIN b /\ 2 * h > 2 * h - 1 /\ 2 * h - 1 # 2 * h
    BY <1>4, <1>5
  <2>3. ASSUME NEW i \in DOMAIN b, b[i].t = t PROVE i = 2 * h - 1 \/ i = 2 * h
    <3>1. PICK g \in 1 .. Len(o) :
            \/ i = 2 * g - 1 /\ b[i] = Unwatch(o[g])
            \/ i = 2 * g /\ b[i] = Watch(o[g], 0)
      BY <1>3, <1>5
    <3>2. o[g] = t
      BY <1>8, <2>3, <3>1
    <3>3. g = h
      BY <1>2, <2>1, <3>2
    <3> QED BY <3>1, <3>3
  <2>4. \A i \in DOMAIN b : b[i] \in RequestOf(t) => b[i].t = t
    BY DEF RequestOf
  <2>5. I = {2 * h - 1, 2 * h}
    <3>1. b[2 * h - 1] \in RequestOf(t) /\ b[2 * h] \in RequestOf(t)
      BY <1>4, <1>8, <2>1
    <3> QED BY <2>2, <2>3, <2>4, <3>1
  <2>6. Cardinality({2 * h - 1, 2 * h}) = 2
    <3>1. {2 * h - 1, 2 * h} = {2 * h - 1} \cup {2 * h}
      OBVIOUS
    <3>2. IsFiniteSet({2 * h - 1}) /\ Cardinality({2 * h - 1}) = 1
      BY FS_Singleton
    <3>3. 2 * h \notin {2 * h - 1}
      BY <2>2
    <3>4. Cardinality({2 * h - 1} \cup {2 * h}) = 1 + 1
      BY <3>2, <3>3, FS_AddElement
    <3>5. Cardinality({2 * h - 1, 2 * h}) = Cardinality({2 * h - 1} \cup {2 * h})
      BY <3>1, Zenon
    <3> QED BY <3>4, <3>5
  <2>7. ASSUME NEW j, LastAsk(b, t, j) PROVE b[j] = Watch(t, 0)
    <3>1. j \in DOMAIN b /\ b[j].t = t /\ \A k \in DOMAIN b : k > j => b[k].t # t
      BY <2>7 DEF LastAsk
    <3>2. b[2 * h].t = t
      BY <1>4, <1>8, <2>1
    <3>3. j = 2 * h
      BY <2>2, <2>3, <3>1, <3>2
    <3> QED BY <1>4, <2>1, <3>3
  <2>8. ~ NoAsk(b, t)
    BY <1>4, <1>8, <2>1, <2>2 DEF NoAsk
  <2> QED BY <1>7, <1>10, <2>5, <2>6, <2>7, <2>8 DEF b, o, Count
<1> QED BY <1>9, <1>10

-----------------------------------------------------------------------------
(* What the client, the messages on their way and the backend know of a     *)
(* target: that the count is right, that the last request and the last      *)
(* answer say whether it is listened to, and that the messages lead from    *)
(* the documents shown to those the backend takes the client to know.       *)

Counted(a, q, r, l, t) == (t \in l => t \in DOMAIN a.states) /\ Out(a, t) = Due(t, q, r)

Asked(q, f, t) ==
  \A j : LastAsk(q, t, j) => /\ q[j].kind = "watch" <=> t \in DOMAIN f
                             /\ t \in DOMAIN f => q[j].token = f[t]

Answered(q, r, l, w, t) ==
  NoAsk(q, t) =>
    /\ \A j : LastAnswer(r, t, j) => /\ r[j].kind = "removed" <=> t \notin l
                                     /\ r[j].kind = "added" => t \in w
    /\ Quiet(r, t, 1) /\ t \in l => t \in w

\* k are the documents on file, s those shown, st and rs the targets that are
\* suspect and those to be reset.
Told(p, r, at, k, s, st, rs, t) ==
  \E V \in Views(r) :
    /\ V[Len(r) + 1] = In(p, t, at) /\ Leads(p, r, V, t, st \cup rs)
    /\ \A j : LastAnswer(r, t, j) /\ r[j].kind = "added" /\ t \notin st => V[j + 1] = k
    /\ Quiet(r, t, 1) /\ t \notin st \cup rs => V[1] = s

\* What is known of the documents x before and y after message m, the first.
Passes(p, m, t, k, s, st, rs, x, y) ==
  IF IsAnswer(m, t) THEN m.kind = "added" /\ t \notin st => y = k
  ELSE /\ y = Brings(p, m, t, x)
       /\ m.kind = "snapshot" => x = In(p, t, m.version)
       /\ IsFilter(m, t) => Cardinality(x) # m.count
       /\ IsCurrent(m, t) => x = y \/ t \in st \cup rs
       /\ t \notin st \cup rs => x = s

LEMMA ToldTail ==
  ASSUME NEW p, NEW M, NEW r \in Seq(M), r # <<>>, NEW at, NEW k, NEW s, NEW st, NEW rs, NEW t,
         Told(p, r, at, k, s, st, rs, t), NEW k2, NEW s2, NEW st2, NEW rs2,
         IsFilter(Head(r), t) /\ Quiet(r, t, 1) => t \in st2 \cup rs2,
         Quiet(Tail(r), t, 1) \/ (t \notin st2 => t \notin st /\ k2 = k),
         Quiet(Tail(r), t, 1) /\ t \notin st2 \cup rs2 =>
           \A x, y \in SUBSET Docs : Passes(p, Head(r), t, k, s, st, rs, x, y) => s2 = y
  PROVE  Told(p, Tail(r), at, k2, s2, st2, rs2, t)
<1> DEFINE b == st \cup rs
           c == st2 \cup rs2
<1>0. IsFilter(Head(r), t) /\ Quiet(r, t, 1) => t \in c
  OBVIOUS
<1>1. PICK V \in Views(r) :
        /\ V[Len(r) + 1] = In(p, t, at) /\ Leads(p, r, V, t, st \cup rs)
        /\ \A j : LastAnswer(r, t, j) /\ r[j].kind = "added" /\ t \notin st => V[j + 1] = k
        /\ Quiet(r, t, 1) /\ t \notin st \cup rs => V[1] = s
  BY DEF Told
<1>2. PICK W \in Views(Tail(r)) :
        Leads(p, Tail(r), W, t, c) /\ \A i \in 1 .. Len(r) : W[i] = V[i + 1]
  <2>1. Leads(p, r, V, t, b)
    BY <1>1
  <2> HIDE DEF b, c
  <2>2. LeadsOn(p, r, V, t, c)
    BY <1>0, <2>1, LeadsTail
  <2> QED BY <2>2 DEF LeadsOn
<1>3. /\ Len(r) \in Nat \ {0} /\ Len(Tail(r)) + 1 = Len(r) /\ Len(r) \in 1 .. Len(r)
      /\ 1 \in 1 .. Len(r) /\ Head(r) = r[1] /\ 1 \in 1 .. Len(r) + 1 /\ 2 \in 1 .. Len(r) + 1
  BY TailFacts
<1>4. W[Len(Tail(r)) + 1] = In(p, t, at)
  BY <1>1, <1>2, <1>3
<1>5. ASSUME NEW j, LastAnswer(Tail(r), t, j), Tail(r)[j].kind = "added", t \notin st2
      PROVE  W[j + 1] = k2
  <2>1. LastAnswer(r, t, j + 1) /\ Tail(r)[j] = r[j + 1]
    BY <1>5, QuietTail
  <2>2. j \in 1 .. Len(r) - 1 /\ j + 1 \in 1 .. Len(r) /\ j >= 1
    <3>1. j \in 1 .. Len(r) - 1
      BY <1>5, TailFacts DEF LastAnswer
    <3> QED BY <1>3, <3>1
  <2>3. ~ Quiet(Tail(r), t, 1)
    BY <1>5, <2>2 DEF Quiet, LastAnswer
  <2> QED BY <1>1, <1>2, <1>5, <2>1, <2>2, <2>3
<1>6. ASSUME Quiet(Tail(r), t, 1), t \notin st2 \cup rs2
      PROVE  W[1] = s2
  <2>1. V[1] \in SUBSET Docs /\ V[2] \in SUBSET Docs /\ W[1] = V[2]
    BY <1>2, <1>3 DEF Views
  <2>2. CASE IsAnswer(Head(r), t)
    <3>1. LastAnswer(r, t, 1)
      BY <1>6, <2>2, QuietTail
    <3>2. Head(r).kind = "added" /\ t \notin st => V[2] = k
      BY <1>1, <1>3, <3>1
    <3>3. Passes(p, Head(r), t, k, s, st, rs, V[1], V[2])
      BY <2>2, <3>2 DEF Passes
    <3> QED BY <1>6, <2>1, <3>3
  <2>3. CASE ~ IsAnswer(Head(r), t)
    <3>1. Quiet(r, t, 1)
      BY <1>6, <2>3, QuietTail
    <3>2. LeadsAt(p, r, V, t, st \cup rs, 1)
      BY <1>1, <1>3, <3>1 DEF Leads
    <3>3. /\ V[2] = Brings(p, Head(r), t, V[1])
          /\ Head(r).kind = "snapshot" => V[1] = In(p, t, Head(r).version)
          /\ IsFilter(Head(r), t) => Cardinality(V[1]) # Head(r).count
          /\ IsCurrent(Head(r), t) => V[1] = V[2] \/ t \in st \cup rs
      BY <1>3, <3>2 DEF LeadsAt
    <3>4. t \notin st \cup rs => V[1] = s
      BY <1>1, <3>1
    <3>5. Passes(p, Head(r), t, k, s, st, rs, V[1], V[2])
      BY <2>3, <3>3, <3>4 DEF Passes
    <3> QED BY <1>6, <2>1, <3>5
  <2> QED BY <2>2, <2>3
<1> QED BY <1>2, <1>4, <1>5, <1>6 DEF Told

LEMMA ToldMore ==
  ASSUME NEW p, NEW M, NEW r \in Seq(M), NEW b \in Seq(M), NEW at, NEW to, NEW k, NEW s, NEW st, NEW rs,
         NEW t, Told(p, r, at, k, s, st, rs, t), Moves(p, b, t, In(p, t, at), In(p, t, to))
  PROVE  Told(p, r \o b, to, k, s, st, rs, t)
<1>1. PICK V \in Views(r) :
        /\ V[Len(r) + 1] = In(p, t, at) /\ Leads(p, r, V, t, st \cup rs)
        /\ \A j : LastAnswer(r, t, j) /\ r[j].kind = "added" /\ t \notin st => V[j + 1] = k
        /\ Quiet(r, t, 1) /\ t \notin st \cup rs => V[1] = s
  BY DEF Told
<1> DEFINE c == st \cup rs
<1>2. PICK W \in Views(b) : W[1] = In(p, t, at) /\ W[Len(b) + 1] = In(p, t, to) /\ Leads(p, b, W, t, {})
  BY DEF Moves
<1>3. Quiet(b, t, 1) /\ V[Len(r) + 1] = W[1]
  BY <1>1, <1>2 DEF Moves
<1>4. PICK X \in Views(r \o b) :
        /\ Leads(p, r \o b, X, t, c) /\ X[Len(r \o b) + 1] = W[Len(b) + 1]
        /\ \A i \in 1 .. Len(r) : X[i] = V[i]
        /\ Quiet(b, t, 1) => X[Len(r) + 1] = V[Len(r) + 1]
  <2>1. Leads(p, r, V, t, c) /\ Leads(p, b, W, t, {}) /\ V[Len(r) + 1] = W[1]
    BY <1>1, <1>2, <1>3
  <2> HIDE DEF c
  <2> QED BY <2>1, LeadsConcat
<1>5. \A i \in 1 .. Len(r) + 1 : X[i] = V[i]
  <2>1. \A i \in 1 .. Len(r) + 1 : i \in 1 .. Len(r) \/ i = Len(r) + 1
    BY ConcatFacts
  <2> QED BY <1>3, <1>4, <2>1
<1>6. ASSUME NEW j, LastAnswer(r \o b, t, j), (r \o b)[j].kind = "added", t \notin st
      PROVE  X[j + 1] = k
  <2>1. \A i \in DOMAIN b : ~ IsAnswer(b[i], t)
    <3>1. \A i \in DOMAIN b : i >= 1
      BY LenProperties
    <3> QED BY <1>3, <3>1 DEF Quiet
  <2>2. LastAnswer(r, t, j) /\ (r \o b)[j] = r[j]
    <3>1. \/ LastAnswer(b, t, j - Len(r)) /\ (r \o b)[j] = b[j - Len(r)]
          \/ LastAnswer(r, t, j) /\ (r \o b)[j] = r[j] /\ Quiet(b, t, 1)
      BY <1>6, QuietConcat
    <3>2. ~ LastAnswer(b, t, j - Len(r))
      BY <2>1 DEF LastAnswer
    <3> QED BY <3>1, <3>2
  <2>3. j + 1 \in 1 .. Len(r) + 1
    BY <2>2, ConcatFacts DEF LastAnswer
  <2> QED BY <1>1, <1>5, <1>6, <2>2, <2>3
<1>7. Quiet(r \o b, t, 1) => Quiet(r, t, 1)
  <2>1. 1 \in 1 .. Len(r) + 1
    BY ConcatFacts
  <2> QED BY <2>1, QuietConcat
<1>8. 1 \in 1 .. Len(r) + 1
  BY ConcatFacts
<1> QED BY <1>1, <1>2, <1>4, <1>5, <1>6, <1>7, <1>8 DEF Told

\* A target that was asked about is answered: from here on the backend tells of it.
LEMMA ToldAnswer ==
  ASSUME NEW p, NEW M, NEW r \in Seq(M), NEW m \in M, NEW at, NEW k, NEW s, NEW st, NEW rs, NEW t,
         IsAnswer(m, t), In(p, t, at) \in SUBSET Docs,
         m.kind = "added" /\ t \notin st => In(p, t, at) = k
  PROVE  Told(p, r \o <<m>>, at, k, s, st, rs, t)
<1> DEFINE c == <<m>>
           u == r \o c
           n == Len(r)
           V == [i \in 1 .. n + 1 + 1 |-> In(p, t, at)]
<1>1. c \in Seq(M) /\ Len(c) = 1 /\ c[1] = m /\ DOMAIN c = 1 .. 1
  OBVIOUS
<1> HIDE DEF c
<1>2. u \in Seq(M) /\ Len(u) = n + 1 /\ n \in Nat /\ u[n + 1] = m /\ DOMAIN u = 1 .. n + 1
  <2>1. 1 \in 1 .. Len(c)
    BY <1>1
  <2> QED BY <1>1, <2>1, ConcatFacts
<1>3. V \in Views(u) /\ \A i \in 1 .. n + 2 : V[i] = In(p, t, at)
  BY <1>2 DEF Views
<1> HIDE DEF u, V
<1>4. \A i \in 1 .. n + 1 : ~ Quiet(u, t, i)
  BY <1>2 DEF Quiet
<1>5. Leads(p, u, V, t, st \cup rs)
  BY <1>2, <1>4 DEF Leads
<1>6. \A j : LastAnswer(u, t, j) => j = n + 1
  <2> SUFFICES ASSUME NEW j, LastAnswer(u, t, j), j # n + 1 PROVE FALSE
    OBVIOUS
  <2>1. j + 1 \in 1 .. n + 1
    BY <1>2 DEF LastAnswer
  <2> QED BY <1>4, <2>1 DEF LastAnswer
<1>7. /\ \A j : LastAnswer(u, t, j) /\ u[j].kind = "added" /\ t \notin st => V[j + 1] = k
      /\ V[Len(u) + 1] = In(p, t, at)
      /\ ~ Quiet(u, t, 1)
  <2>1. n + 1 + 1 \in 1 .. n + 2 /\ 1 \in 1 .. n + 1
    BY <1>2
  <2> QED BY <1>2, <1>3, <1>4, <1>6, <2>1
<1>8. Told(p, u, at, k, s, st, rs, t)
  BY <1>3, <1>5, <1>7 DEF Told
<1> QED BY <1>8 DEF u, c

\* What has been is not changed by what comes.
LEMMA ToldPast ==
  ASSUME NEW p, NEW n \in Nat, NEW p2, \A v \in 1 .. n : p2[v] = p[v],
         NEW r \in Seq(Message(n)), NEW at \in 0 .. n, NEW k, NEW s, NEW st, NEW rs, NEW t,
         Told(p, r, at, k, s, st, rs, t)
  PROVE  Told(p2, r, at, k, s, st, rs, t)
<1>1. \A v \in 0 .. n : In(p2, t, v) = In(p, t, v)
  <2>1. \A v \in 0 .. n : v = 0 \/ v \in 1 .. n
    OBVIOUS
  <2> QED BY <2>1 DEF In
<1>2. ASSUME NEW i \in 1 .. Len(r), NEW V, NEW d, LeadsAt(p, r, V, t, d, i)
      PROVE  LeadsAt(p2, r, V, t, d, i)
  <2>1. r[i] \in Message(n)
    BY ElementOfSeq
  <2>2. r[i].kind \in {"snapshot", "current"} => r[i].version \in 0 .. n
    BY <2>1 DEF Message
  <2>3. \A x : Brings(p2, r[i], t, x) = Brings(p, r[i], t, x)
    BY <1>1, <2>2 DEF Brings, IsCurrent
  <2> QED BY <1>1, <1>2, <2>2, <2>3 DEF LeadsAt
<1>3. \A V, d : Leads(p, r, V, t, d) => Leads(p2, r, V, t, d)
  BY <1>2 DEF Leads
<1> QED BY <1>1, <1>3 DEF Told

-----------------------------------------------------------------------------
(* The inductive invariant.                                                 *)

Types ==
  /\ PastOK
  /\ keys \in [Targets -> SUBSET Docs] /\ token \in [Targets -> 0 .. Now]
  /\ L \subseteq Targets /\ DOMAIN local = L /\ synced \subseteq L
  /\ \A t \in L : local[t] \in 0 .. Now /\ listens[t] \in 0 .. Now
  /\ asof \in [Targets -> 0 .. Now] /\ stale \subseteq Targets /\ crossed \subseteq stale
  /\ agg \in Aggregator(Now) /\ Changes(agg, keys)

Traffic ==
  /\ requests \in Seq(Request(Now)) /\ responses \in Seq(Message(Now))
  /\ DOMAIN serving \subseteq Targets
  /\ \A t \in DOMAIN serving : serving[t] \in [at : 0 .. Now, is : {"added", "ready", "told"}]

\* Nothing is on its way but over a stream that is open.
Silent == requests = <<>> /\ responses = <<>> /\ DOMAIN serving = {} /\ crossed = {}
Streams == [state : {"Initial", "Starting", "Open", "Backoff", "Error"}, idle : BOOLEAN]
StreamOK ==
  /\ network \in BOOLEAN
  /\ stream \in Streams
  /\ stream.idle => IsOpen /\ L = {}
  /\ ~ network => ~ IsStarted(stream)
  /\ ~ IsOpen => Silent

OnlineOK ==
  /\ online \in [state : {"Unknown", "Online", "Offline"}, failures : 0 .. kMaxWatchStreamFailures,
                 timer : BOOLEAN]
  /\ online.timer => online.state = "Unknown" /\ online.failures = 0 /\ IsStarted(stream)

\* What the file and the views say of a target that is not suspect.
Known ==
  /\ \A t \in Targets \ stale : keys[t] = Result(t, token[t])
  /\ \A t \in L \ stale : local[t] = listens[t] /\ keys[t] = Result(t, listens[t])
  /\ \A t \in synced \ stale : keys[t] = Result(t, asof[t])

Steady(t) ==
  /\ Counted(agg, requests, responses, L, t)
  /\ Asked(requests, listens, t)
  /\ Answered(requests, responses, L, DOMAIN serving, t)
  /\ t \in L \cap DOMAIN serving /\ NoAsk(requests, t) =>
       Told(past, responses, serving[t].at, keys[t], Shown(agg, keys, t), stale, agg.resets, t)

InStep == IsOpen => \A t \in Targets \ crossed : Steady(t)

IInv == Types /\ Traffic /\ StreamOK /\ OnlineOK /\ Known /\ InStep

LEMMA InvImpliesTypeOK ==
  ASSUME IInv
  PROVE  TypeOK
<1>1. 0 .. Now \subseteq 0 .. MaxVersion /\ PastOK
  BY BoundsAssumption DEF IInv, Types, PastOK
<1>2. /\ keys \in [Targets -> SUBSET Docs] /\ token \in [Targets -> 0 .. MaxVersion]
      /\ L \subseteq Targets /\ DOMAIN local = L /\ synced \subseteq L
      /\ \A t \in L : local[t] \in 0 .. MaxVersion /\ listens[t] \in 0 .. MaxVersion
  BY <1>1 DEF IInv, Types
<1>3. /\ agg.resets \subseteq Targets /\ DOMAIN agg.states \subseteq Targets
      /\ \A t \in DOMAIN agg.states :
           agg.states[t] \in [out : Int, changes : [Docs -> {"none", "Added", "Modified", "Removed"}],
                              token : 0 .. MaxVersion, current : BOOLEAN, pending : BOOLEAN]
  <2>1. agg \in Aggregator(Now)
    BY DEF IInv, Types
  <2>2. \A t \in DOMAIN agg.states : agg.states[t] \in TargetState(Now)
    BY <2>1, AggregatorFacts
  <2> QED BY <1>1, <2>1, <2>2, AggregatorFacts DEF TargetState, Change
<1>4. /\ network \in BOOLEAN
      /\ stream.state \in {"Initial", "Starting", "Open", "Backoff", "Error"}
      /\ stream.idle => IsOpen /\ L = {}
  BY DEF IInv, StreamOK, Streams
<1>5. /\ online \in [state : {"Unknown", "Online", "Offline"},
                     failures : 0 .. kMaxWatchStreamFailures, timer : BOOLEAN]
      /\ online.timer => online.state = "Unknown" /\ online.failures = 0 /\ IsStarted(stream)
  BY DEF IInv, OnlineOK
<1> QED BY <1>2, <1>3, <1>4, <1>5 DEF TypeOK

LEMMA InitHolds ==
  ASSUME Init
  PROVE  IInv
<1>1. PastOK /\ Now \in Nat
  <2>1. past \in Seq([Targets -> SUBSET Docs]) /\ Len(past) = 1
    <3>1. past \in [1 .. 1 -> [Targets -> SUBSET Docs]]
      BY DEF Init
    <3>2. past \in Seq([Targets -> SUBSET Docs])
      BY <3>1, SeqDef, 1 \in Nat
    <3>3. Len(past) \in Nat /\ 1 .. Len(past) = 1 .. 1
      BY <3>1, <3>2, LenProperties
    <3>4. 1 \in 1 .. 1 /\ (Len(past) >= 1 => Len(past) \in 1 .. Len(past))
      BY <3>3
    <3>5. 1 \in 1 .. Len(past) /\ (Len(past) >= 1 => Len(past) \in 1 .. 1)
      BY <3>3, <3>4
    <3> QED BY <3>2, <3>3, <3>5
  <2> QED BY <2>1, BoundsAssumption DEF PastOK, Now
<1>2. agg \in Aggregator(Now) /\ Changes(agg, keys)
  BY <1>1, FreshFacts DEF Init, Changes
<1>3. Types
  BY <1>1, <1>2 DEF Types, Init, L, PastOK
<1>4. Traffic
  BY DEF Traffic, Init
<1>5. StreamOK
  BY DEF StreamOK, Streams, Silent, Init, IsOpen, IsStarted, L
<1>6. OnlineOK
  BY DEF OnlineOK, Init, FreshTracker, kMaxWatchStreamFailures
<1>7. Known
  BY DEF Known, Init, Result, L
<1>8. InStep
  BY DEF InStep, Init, IsOpen
<1> QED BY <1>3, <1>4, <1>5, <1>6, <1>7, <1>8 DEF IInv

-----------------------------------------------------------------------------
(* The stream and what the client takes itself to be.                       *)

LEMMA StreamCloses ==
  ASSUME NEW x \in {"Initial", "Starting", "Backoff", "Error"},
         stream' = [state |-> x, idle |-> FALSE], network' \in BOOLEAN,
         network' \/ x \notin {"Starting", "Backoff"}, Silent'
  PROVE  StreamOK' /\ ~ IsOpen'
<1>1. stream' \in Streams /\ stream'.state = x /\ ~ stream'.idle
  BY DEF Streams
<1> QED BY <1>1 DEF StreamOK, IsOpen, IsStarted

LEMMA StreamRuns ==
  ASSUME StreamOK, stream' \in Streams, stream'.state = stream.state \/ IsOpen',
         stream'.idle => IsOpen /\ L' = {}, UNCHANGED network, network \/ ~ IsOpen',
         ~ IsOpen => UNCHANGED <<requests, responses, serving, crossed>>
  PROVE  StreamOK'
BY DEF StreamOK, IsOpen, IsStarted, Silent, Streams

LEMMA Closing ==
  /\ HangUp => Silent'
  /\ ~ IsOpen /\ StreamOK /\ UNCHANGED <<requests, responses, serving, crossed>> => Silent'
  /\ \A s, o : StartWatchStream(s, o) =>
       \E x \in {"Starting", "Backoff"} : stream' = [state |-> x, idle |-> FALSE]
BY DEF HangUp, Silent, StreamOK, StartWatchStream

LEMMA StreamStep ==
  ASSUME StreamOK, [Next]_vars
  PROVE  StreamOK'
<1>0. stream \in Streams /\ network \in BOOLEAN /\ (stream.idle => IsOpen /\ L = {})
      /\ (~ network => ~ IsStarted(stream)) /\ (IsOpen => IsStarted(stream))
  BY DEF StreamOK, IsOpen, IsStarted
<1>1. ASSUME NEW t \in Targets, Listen(t) PROVE StreamOK'
  <2>1. network' = network /\ UNCHANGED <<responses, serving, crossed>>
    BY <1>1 DEF Listen
  <2>2. CASE network /\ ~ IsStarted(stream)
    <3>1. StartWatchStream(stream, online) /\ UNCHANGED requests
      BY <1>1, <2>2 DEF Listen
    <3> QED BY <1>0, <2>1, <2>2, <3>1, Closing, StreamCloses
  <2>3. CASE IsOpen
    <3>1. stream' = [stream EXCEPT !.idle = FALSE]
      BY <1>0, <1>1, <2>3 DEF Listen
    <3>2. stream' \in Streams /\ ~ stream'.idle /\ stream'.state = stream.state
      BY <1>0, <3>1 DEF Streams
    <3> QED BY <1>0, <2>1, <2>3, <3>2, StreamRuns
  <2>4. CASE ~ IsOpen /\ ~ (network /\ ~ IsStarted(stream))
    <3>1. UNCHANGED <<stream, requests>>
      BY <1>1, <2>4 DEF Listen
    <3> QED BY <1>0, <2>1, <2>4, <3>1, StreamRuns DEF IsOpen
  <2> QED BY <1>0, <2>2, <2>3, <2>4
<1>2. ASSUME NEW t \in Targets, StopListening(t) PROVE StreamOK'
  <2>1. network' = network /\ UNCHANGED <<responses, serving, crossed>> /\ L' = L \ {t}
    BY <1>2 DEF StopListening, ReleaseTarget, L
  <2>2. CASE IsOpen
    <3>1. stream' = [stream EXCEPT !.idle = L = {t}]
      BY <1>2, <2>2 DEF StopListening
    <3>2. stream' \in Streams /\ (stream'.idle => L = {t}) /\ stream'.state = stream.state
      BY <1>0, <3>1 DEF Streams
    <3> QED BY <1>0, <2>1, <2>2, <3>2, StreamRuns
  <2>3. CASE ~ IsOpen
    <3>1. UNCHANGED <<stream, requests>>
      BY <1>2, <2>3 DEF StopListening
    <3> QED BY <1>0, <2>1, <2>3, <3>1, StreamRuns DEF IsOpen
  <2> QED BY <2>2, <2>3
<1>3. CASE EnableNetwork
  <2>1. ~ network /\ network' /\ UNCHANGED <<requests, responses, serving, crossed, listens>>
    BY <1>3 DEF EnableNetwork, backend
  <2>2. CASE L # {}
    <3>1. StartWatchStream(stream, online)
      BY <1>3, <2>2 DEF EnableNetwork
    <3> QED BY <1>0, <2>1, <3>1, Closing, StreamCloses
  <2>3. CASE L = {}
    <3>1. UNCHANGED stream
      BY <1>3, <2>3 DEF EnableNetwork
    <3> QED BY <2>1, <3>1 DEF StreamOK, Silent, L, IsOpen
  <2> QED BY <2>2, <2>3
<1>4. CASE IdleTimeout
  <2>1. HangUp /\ stream' = [state |-> "Initial", idle |-> FALSE] /\ UNCHANGED network
    BY <1>4 DEF IdleTimeout, Stopped
  <2> QED BY <1>0, <2>1, Closing, StreamCloses
<1>5. CASE OnlineStateTimeout \/ NewVersion \/ UNCHANGED vars
  <2>1. UNCHANGED <<network, stream, requests, responses, serving, crossed, listens>>
    BY <1>5 DEF OnlineStateTimeout, NewVersion, vars, backend, listening
  <2> QED BY <2>1 DEF StreamOK, Silent, L, IsOpen
<1>6. CASE StreamOpens
  <2>1. stream' = [stream EXCEPT !.state = "Open"] /\ stream.state = "Starting" /\ UNCHANGED network
    BY <1>6 DEF StreamOpens
  <2>2. stream' \in Streams /\ stream'.idle = stream.idle /\ stream'.state = "Open"
    BY <1>0, <2>1 DEF Streams
  <2> QED BY <1>0, <2>1, <2>2 DEF StreamOK, IsOpen, IsStarted
<1>7. CASE BackoffElapsed
  <2>1. /\ stream' = [stream EXCEPT !.state = "Starting"] /\ stream.state = "Backoff"
        /\ UNCHANGED <<network, requests, responses, serving, crossed>>
    BY <1>7 DEF BackoffElapsed, backend
  <2>2. stream' \in Streams /\ stream'.idle = stream.idle /\ stream'.state = "Starting"
    BY <1>0, <2>1 DEF Streams
  <2> QED BY <1>0, <2>1, <2>2 DEF StreamOK, IsOpen, IsStarted, Silent
<1>8. CASE Handles
  <2>1. responses # <<>> /\ UNCHANGED network
    BY <1>8 DEF Handles, Receive, Aggregates, OnDocumentChange, OnTargetAdded, OnTargetRemoved,
                OnTargetCurrent, OnTargetReset, OnExistenceFilter, ProcessTargetError, OnSnapshot
  <2>2. IsOpen
    BY <2>1 DEF StreamOK, Silent
  <2>3. CASE OnSnapshot
    <3>1. L' = L /\ \E S : stream' = [stream EXCEPT !.idle = @ /\ S = {}]
      BY <2>3 DEF OnSnapshot, L
    <3>2. PICK S : stream' = [stream EXCEPT !.idle = @ /\ S = {}]
      BY <3>1
    <3>3. stream' \in Streams /\ (stream'.idle => stream.idle) /\ stream'.state = stream.state
      BY <1>0, <3>2 DEF Streams
    <3> QED BY <1>0, <2>1, <2>2, <3>1, <3>3, StreamRuns
  <2>4. CASE ~ OnSnapshot
    <3>1. UNCHANGED stream
      BY <1>8, <2>4 DEF Handles, Aggregates, OnDocumentChange, OnTargetAdded, OnTargetRemoved,
                OnTargetCurrent, OnTargetReset, OnExistenceFilter, ProcessTargetError
    <3>2. CASE ProcessTargetError
      <4>1. L' = L \ {Head(responses).t} \/ UNCHANGED listens
        BY <3>2 DEF ProcessTargetError, ReleaseTarget, listening, L
      <4> QED BY <1>0, <2>1, <2>2, <3>1, <4>1, StreamRuns DEF L
    <3>3. CASE ~ ProcessTargetError
      <4>1. UNCHANGED listens
        BY <1>8, <2>4, <3>3 DEF Handles, Aggregates, OnDocumentChange, OnTargetAdded, OnTargetRemoved,
                  OnTargetCurrent, OnTargetReset, OnExistenceFilter, listening
      <4> QED BY <1>0, <2>1, <2>2, <3>1, <4>1, StreamRuns DEF L
    <3> QED BY <3>2, <3>3
  <2> QED BY <2>3, <2>4
<1>9. CASE ServesWatch \/ ServesUnwatch \/ Snapshot \/ (\E t \in Targets : CatchesUp(t)) \/ Refuses
           \/ \E t \in Targets : CatchesUpByFilter(t) \/ Resets(t)
  <2>1. IsOpen /\ UNCHANGED <<listens, network, stream>>
    BY <1>9 DEF ServesWatch, ServesUnwatch, Snapshot, CatchesUp, Refuses, CatchesUpByFilter, Resets,
                Emits, listening
  <2> QED BY <2>1 DEF L, StreamOK, IsOpen
<1>10. CASE StreamFails \/ RestartNetwork
  <2>1. HangUp /\ UNCHANGED network
    BY <1>10 DEF StreamFails, RestartNetwork
  <2>2. \/ (\E s, o : StartWatchStream(s, o)) /\ network
        \/ \E x \in {"Initial", "Error"} : stream' = [state |-> x, idle |-> FALSE]
    BY <1>10 DEF StreamFails, RestartNetwork
  <2> QED BY <1>0, <2>1, <2>2, Closing, StreamCloses
<1>11. CASE DisableNetwork
  <2>1. ~ network' /\ network' \in BOOLEAN
    BY <1>11 DEF DisableNetwork
  <2>2. CASE IsStarted(stream)
    <3>1. HangUp /\ stream' = [state |-> "Initial", idle |-> FALSE]
      BY <1>11, <2>2 DEF DisableNetwork
    <3> QED BY <2>1, <3>1, Closing, StreamCloses
  <2>3. CASE ~ IsStarted(stream)
    <3>1. UNCHANGED <<stream, requests, responses, serving, crossed, listens>>
      BY <1>11, <2>3 DEF DisableNetwork, backend
    <3> QED BY <1>0, <2>1, <2>3, <3>1 DEF StreamOK, Silent, IsOpen, L
  <2> QED BY <2>2, <2>3
<1>12. CASE Restart
  <2>1. HangUp /\ stream' = [state |-> "Initial", idle |-> FALSE] /\ network' \in BOOLEAN
    BY <1>12 DEF Restart
  <2> QED BY <2>1, Closing, StreamCloses
<1> QED BY <1>1, <1>2, <1>3, <1>4, <1>5, <1>6, <1>7, <1>8, <1>9, <1>10, <1>11, <1>12
        DEF Next, Calls, Connects, Serves, Disturbance

LEMMA OnlineStep ==
  ASSUME StreamOK, OnlineOK, [Next]_vars
  PROVE  OnlineOK'
<1> USE DEF OnlineOK, IsOpen, IsStarted, kMaxWatchStreamFailures
<1>0. /\ \A s : StartWatchStream(s, online) => OnlineOK'
      /\ \A s : StartWatchStream(s, UpdateState("Unknown")) => OnlineOK'
      /\ \A s : StartWatchStream(s, HandleWatchStreamFailure(online)) => OnlineOK'
      /\ \A x \in {"Unknown", "Online", "Offline"} : online' = UpdateState(x) => OnlineOK'
  <2>1. \A s, o : StartWatchStream(s, o) => IsStarted(stream)' /\ online' = HandleWatchStreamStart(o)
    BY DEF StartWatchStream, Turned
  <2> DEFINE Good(o) == /\ o \in [state : {"Unknown", "Online", "Offline"}, failures : 0 .. 1, timer : BOOLEAN]
                        /\ o.timer => o.state = "Unknown" /\ o.failures = 0
  <2>2. ASSUME NEW o, Good(o) PROVE Good(HandleWatchStreamStart(o)) /\ Good(HandleWatchStreamFailure(o))
    <3>1. /\ [o EXCEPT !.state = "Unknown", !.timer = TRUE] \in
                [state : {"Unknown", "Online", "Offline"}, failures : 0 .. 1, timer : BOOLEAN]
          /\ [o EXCEPT !.state = "Unknown", !.timer = TRUE].state = "Unknown"
          /\ [o EXCEPT !.state = "Unknown", !.timer = TRUE].failures = o.failures
      BY <2>2
    <3>2. Good(HandleWatchStreamStart(o))
      BY <2>2, <3>1 DEF HandleWatchStreamStart
    <3>3. /\ [o EXCEPT !.state = "Unknown"] \in
                [state : {"Unknown", "Online", "Offline"}, failures : 0 .. 1, timer : BOOLEAN]
          /\ [o EXCEPT !.state = "Unknown"].state = "Unknown"
          /\ [o EXCEPT !.state = "Unknown"].failures = o.failures
          /\ [o EXCEPT !.state = "Unknown"].timer = o.timer
      BY <2>2
    <3>4. ~ (o.failures + 1 < 1) /\ 1 \in 0 .. 1
      BY <2>2
    <3>5. Good(HandleWatchStreamFailure(o))
      BY <2>2, <3>3, <3>4 DEF HandleWatchStreamFailure
    <3> QED BY <3>2, <3>5
  <2>3. \A x \in {"Unknown", "Online", "Offline"} : Good(UpdateState(x)) /\ ~ UpdateState(x).timer
    BY DEF UpdateState
  <2>4. Good(online)
    OBVIOUS
  <2>5. (Good(online') /\ IsStarted(stream)') \/ (Good(online') /\ ~ online'.timer) => OnlineOK'
    OBVIOUS
  <2> HIDE DEF Good, OnlineOK, IsStarted
  <2> QED BY <2>1, <2>2, <2>3, <2>4, <2>5
<1>1. ASSUME NEW t \in Targets, Listen(t) PROVE OnlineOK'
  <2>1. \/ StartWatchStream(stream, online)
        \/ online' = online /\ stream'.state = stream.state
    BY <1>1 DEF Listen, StreamOK, Streams
  <2>2. online' = online /\ stream'.state = stream.state => OnlineOK'
    OBVIOUS
  <2> QED BY <1>0, <2>1, <2>2
<1>2. ASSUME NEW t \in Targets, StopListening(t) PROVE OnlineOK'
  <2>1. \/ online' = UpdateState("Unknown")
        \/ online' = online /\ stream'.state = stream.state
    BY <1>2 DEF StopListening, StreamOK, Streams
  <2>2. online' = online /\ stream'.state = stream.state => OnlineOK'
    OBVIOUS
  <2> QED BY <1>0, <2>1, <2>2
<1>3. CASE EnableNetwork
  BY <1>0, <1>3 DEF EnableNetwork, Turned
<1>4. CASE IdleTimeout
  BY <1>0, <1>4 DEF IdleTimeout, Stopped, Turned
<1>5. CASE OnlineStateTimeout
  BY <1>5 DEF OnlineStateTimeout, Turned
<1>6. CASE StreamOpens \/ BackoffElapsed
  BY <1>6 DEF StreamOpens, BackoffElapsed, StreamOK, Streams
<1>7. CASE Handles
  <2>1. online' = UpdateState("Online")
    BY <1>7 DEF Handles, Receive, OnDocumentChange, OnTargetAdded, OnTargetRemoved,
                OnTargetCurrent, OnTargetReset, OnExistenceFilter, ProcessTargetError, OnSnapshot
  <2> QED BY <1>0, <2>1
<1>8. CASE ServesWatch \/ ServesUnwatch \/ Snapshot \/ (\E t \in Targets : CatchesUp(t)) \/ Refuses
           \/ \E t \in Targets : CatchesUpByFilter(t) \/ Resets(t)
  BY <1>8 DEF ServesWatch, ServesUnwatch, Snapshot, CatchesUp, Refuses, CatchesUpByFilter, Resets, Emits
<1>9. CASE StreamFails
  BY <1>0, <1>9 DEF StreamFails, Turned
<1>10. CASE DisableNetwork
  BY <1>0, <1>10 DEF DisableNetwork, Turned
<1>11. CASE RestartNetwork
  BY <1>0, <1>11 DEF RestartNetwork, Turned
<1>12. CASE Restart
  BY <1>12 DEF Restart, FreshTracker
<1>13. CASE NewVersion \/ UNCHANGED vars
  BY <1>13 DEF NewVersion, vars
<1> QED BY <1>1, <1>2, <1>3, <1>4, <1>5, <1>6, <1>7, <1>8, <1>9, <1>10, <1>11, <1>12, <1>13
        DEF Next, Calls, Connects, Serves, Disturbance

-----------------------------------------------------------------------------
(* Steps that lose what was on its way, or leave it as it is.               *)

Rest == Types /\ Traffic /\ Known /\ InStep

LEMMA NothingOnItsWay ==
  ASSUME Silent, Now \in Nat
  PROVE  Traffic /\ crossed = {}
BY DEF Silent, Traffic

LEMMA Loses ==
  ASSUME Rest, UNCHANGED <<disk, local, listens, past, asof, stale>>, synced' \subseteq synced,
         agg' = FreshAggregator \/ UNCHANGED agg, Silent', ~ IsOpen'
  PROVE  Rest'
<1> USE DEF Rest, disk
<1>1. Now \in Nat /\ Now' = Now /\ PastOK /\ PastOK' /\ L' = L
  BY BoundsAssumption DEF Types, PastOK, Now, L
<1>2. agg' \in Aggregator(Now) /\ Changes(agg', keys)
  <2>1. CASE UNCHANGED agg
    BY <2>1 DEF Types
  <2>2. CASE agg' = FreshAggregator
    BY <1>1, <2>2, FreshFacts DEF Changes
  <2> QED BY <2>1, <2>2
<1>3. Traffic' /\ crossed' = {}
  BY <1>1, NothingOnItsWay DEF Silent, Traffic
<1>4. Types'
  BY <1>1, <1>2, <1>3 DEF Types
<1>5. Known'
  BY <1>1 DEF Known, Result
<1>6. InStep'
  BY DEF InStep
<1> QED BY <1>3, <1>4, <1>5, <1>6

LEMMA Leaves ==
  ASSUME Rest, UNCHANGED <<disk, local, listens, agg, backend, past, asof, stale, crossed>>,
         synced' \subseteq synced, IsOpen' => IsOpen
  PROVE  Rest'
<1> USE DEF Rest, disk, backend
<1>1. Types'
  BY DEF Types, PastOK, Now, L
<1>2. Traffic'
  BY DEF Traffic, Now
<1>3. Known'
  BY DEF Known, Result, L
<1>4. InStep'
  BY DEF InStep, Steady, L
<1> QED BY <1>1, <1>2, <1>3, <1>4

LEMMA RestartStep ==
  ASSUME Rest, Restart
  PROVE  Rest'
<1> USE DEF Rest
<1>1. /\ DOMAIN local' = {} /\ L' = {} /\ synced' = {} /\ agg' = FreshAggregator
      /\ Silent' /\ ~ IsOpen' /\ UNCHANGED <<keys, token, past, asof, stale>>
  BY Closing DEF Restart, L, IsOpen, disk
<1>2. Now \in Nat /\ Now' = Now /\ PastOK'
  BY <1>1, BoundsAssumption DEF Types, PastOK, Now
<1>3. agg' \in Aggregator(Now) /\ Changes(agg', keys)
  BY <1>1, <1>2, FreshFacts DEF Changes
<1>4. Traffic' /\ crossed' = {}
  BY <1>1, <1>2 DEF Silent, Traffic
<1>5. Types'
  BY <1>1, <1>2, <1>3, <1>4 DEF Types
<1>6. Known'
  BY <1>1 DEF Known, Result
<1>7. InStep'
  BY <1>1 DEF InStep
<1> QED BY <1>4, <1>5, <1>6, <1>7

LEMMA LosingSteps ==
  ASSUME Rest, StreamOK,
         EnableNetwork \/ IdleTimeout \/ StreamFails \/ DisableNetwork \/ RestartNetwork
  PROVE  Rest'
<1>1. UNCHANGED <<disk, local, listens, past, asof, stale>>
  BY DEF EnableNetwork, IdleTimeout, StreamFails, DisableNetwork, RestartNetwork
<1>2. synced' \subseteq synced
  BY DEF EnableNetwork, IdleTimeout, StreamFails, DisableNetwork, RestartNetwork,
         Stopped, StartWatchStream, Turned
<1>3. agg' = FreshAggregator \/ UNCHANGED agg
  BY DEF EnableNetwork, IdleTimeout, StreamFails, DisableNetwork, RestartNetwork,
         Stopped, StartWatchStream
<1>4. Silent'
  <2>1. HangUp \/ (~ IsOpen /\ UNCHANGED <<requests, responses, serving, crossed>>)
    <3>1. CASE EnableNetwork
      BY <3>1 DEF EnableNetwork, backend, StreamOK, IsOpen, IsStarted
    <3>2. CASE DisableNetwork
      BY <3>2 DEF DisableNetwork, backend, IsOpen, IsStarted
    <3>3. CASE IdleTimeout \/ StreamFails \/ RestartNetwork
      BY <3>3 DEF IdleTimeout, StreamFails, RestartNetwork, Stopped
    <3> QED BY <3>1, <3>2, <3>3
  <2> QED BY <2>1, Closing
<1>5. ~ IsOpen'
  <2>1. CASE EnableNetwork
    <3>1. UNCHANGED stream \/ \E s, o : StartWatchStream(s, o)
      BY <2>1 DEF EnableNetwork
    <3> QED BY <2>1, <3>1, Closing DEF EnableNetwork, StreamOK, IsOpen, IsStarted
  <2>2. CASE DisableNetwork
    BY <2>2 DEF DisableNetwork, IsOpen, IsStarted
  <2>3. CASE IdleTimeout
    BY <2>3 DEF IdleTimeout, Stopped, IsOpen
  <2>4. CASE StreamFails \/ RestartNetwork
    <3>1. \/ stream' = [state |-> "Error", idle |-> FALSE]
          \/ stream' = [state |-> "Initial", idle |-> FALSE]
          \/ \E s, o : StartWatchStream(s, o)
      BY <2>4 DEF StreamFails, RestartNetwork
    <3> QED BY <3>1, Closing DEF IsOpen
  <2> QED BY <2>1, <2>2, <2>3, <2>4
<1> QED BY <1>1, <1>2, <1>3, <1>4, <1>5, Loses

LEMMA LeavingSteps ==
  ASSUME Rest, StreamOK, BackoffElapsed \/ OnlineStateTimeout \/ UNCHANGED vars
  PROVE  Rest'
<1>1. UNCHANGED <<disk, local, listens, agg, backend, past, asof, stale, crossed>>
  BY DEF BackoffElapsed, OnlineStateTimeout, vars, listening
<1>2. synced' \subseteq synced
  BY DEF BackoffElapsed, OnlineStateTimeout, vars, listening, Turned
<1>3. IsOpen' => IsOpen
  BY DEF BackoffElapsed, OnlineStateTimeout, vars, IsOpen, StreamOK, Streams
<1> QED BY <1>1, <1>2, <1>3, Leaves

-----------------------------------------------------------------------------
(* The stream opens, and requests are made over it.                         *)

\* A queue of one request for each target of S.
LEMMA WatchAll ==
  ASSUME NEW n \in Nat, NEW S \in SUBSET Targets, NEW f, \A t \in S : f[t] \in 0 .. n,
         NEW o, o = SetToSeq(S), NEW q, q = [i \in DOMAIN o |-> Watch(o[i], f[o[i]])]
  PROVE  /\ q \in Seq(Request(n))
         /\ \A t \in Targets :
              /\ Count(q, RequestOf(t)) = IF t \in S THEN 1 ELSE 0
              /\ t \in S => ~ NoAsk(q, t)
              /\ \A j : LastAsk(q, t, j) => t \in S /\ q[j].kind = "watch" /\ q[j].token = f[t]
<1>1. IsFiniteSet(S)
  BY FiniteAssumption, FS_Subset
<1>2. /\ o \in Seq(S) /\ DOMAIN o = 1 .. Len(o) /\ Len(o) \in Nat
      /\ \A i, j \in DOMAIN o : o[i] = o[j] => i = j
      /\ \A x \in S : \E i \in DOMAIN o : o[i] = x
      /\ \A i \in DOMAIN o : o[i] \in S
  <2>1. /\ o \in Seq(S)
        /\ \A i, j \in 1 .. Len(o) : o[i] = o[j] => i = j
        /\ \A x \in S : \E i \in 1 .. Len(o) : o[i] = x
    BY <1>1, SetToSeqFacts
  <2> QED BY <2>1, LenProperties, ElementOfSeq
<1>3. \A i \in DOMAIN o : q[i].kind = "watch" /\ q[i].t = o[i] /\ q[i].token = f[o[i]]
  BY DEF Watch
<1>4. DOMAIN q = DOMAIN o
  OBVIOUS
<1>5. \A i \in DOMAIN o : q[i] \in Request(n)
  <2>1. ASSUME NEW i \in DOMAIN o PROVE q[i] \in Request(n)
    <3>1. o[i] \in Targets /\ f[o[i]] \in 0 .. n
      BY <1>2
    <3>2. q[i] = [kind |-> "watch", t |-> o[i], token |-> f[o[i]]]
      BY DEF Watch
    <3> QED BY <3>1, <3>2 DEF Request
  <2> QED BY <2>1
<1>6. q \in Seq(Request(n))
  <2>1. q \in [1 .. Len(o) -> Request(n)]
    BY <1>2, <1>5
  <2> QED BY <1>2, <2>1, SeqDef
<1>7. ASSUME NEW t \in Targets
      PROVE  /\ Count(q, RequestOf(t)) = IF t \in S THEN 1 ELSE 0
             /\ t \in S => ~ NoAsk(q, t)
             /\ \A j : LastAsk(q, t, j) => t \in S /\ q[j].kind = "watch" /\ q[j].token = f[t]
  <2>1. \A i \in DOMAIN q : q[i] \in RequestOf(t) <=> o[i] = t
    <3>1. \A i \in DOMAIN q : q[i] \in Request(n)
      BY <1>4, <1>5
    <3> QED BY <1>3, <1>4, <3>1 DEF Request, RequestOf
  <2>2. Count(q, RequestOf(t)) = IF t \in S THEN 1 ELSE 0
    <3>1. CASE t \in S
      <4>1. PICK j \in DOMAIN o : o[j] = t
        BY <1>2, <3>1
      <4>2. {i \in DOMAIN q : q[i] \in RequestOf(t)} = {j}
        BY <1>2, <1>4, <2>1, <4>1
      <4> QED BY <3>1, <4>2, FS_Singleton DEF Count
    <3>2. CASE t \notin S
      <4>1. {i \in DOMAIN q : q[i] \in RequestOf(t)} = {}
        BY <1>2, <1>4, <2>1, <3>2
      <4> QED BY <3>2, <4>1, FS_EmptySet DEF Count
    <3> QED BY <3>1, <3>2
  <2>3. t \in S => ~ NoAsk(q, t)
    BY <1>2, <1>3, <1>4 DEF NoAsk
  <2>4. \A j : LastAsk(q, t, j) => t \in S /\ q[j].kind = "watch" /\ q[j].token = f[t]
    BY <1>2, <1>3, <1>4 DEF LastAsk
  <2> QED BY <2>2, <2>3, <2>4
<1> QED BY <1>6, <1>7

LEMMA OpensStep ==
  ASSUME Rest, StreamOK, StreamOpens
  PROVE  Rest'
<1> DEFINE o == SetToSeq(L)
<1> USE DEF Rest
<1>1. /\ UNCHANGED <<keys, token, local, listens, synced, responses, serving, past, asof, stale, crossed>>
      /\ requests' = [i \in DOMAIN o |-> Watch(o[i], listens[o[i]])]
      /\ agg' = [agg EXCEPT !.states = [t \in L |-> [FreshState EXCEPT !.out = 1]]]
  BY DEF StreamOpens, disk, listening
<1>2. Silent
  BY DEF StreamOpens, StreamOK, IsOpen
<1>3. Now \in Nat /\ Now' = Now /\ PastOK /\ PastOK' /\ L' = L /\ L \subseteq Targets
  BY <1>1, BoundsAssumption DEF Types, PastOK, Now, L
<1> DEFINE s == [FreshState EXCEPT !.out = 1]
           f == [t \in L |-> s]
<1>4. s \in TargetState(Now) /\ s.out = 1 /\ s.changes = NoChanges
  <2>1. FreshState \in TargetState(Now) /\ 1 \in Int
    BY <1>3, FreshFacts
  <2>2. s \in TargetState(Now)
    BY <1>3, <2>1, StateFacts
  <2> QED BY <2>2 DEF FreshState
<1> HIDE DEF s
<1>5. DOMAIN f = L /\ f \in [DOMAIN f -> TargetState(Now)] /\ \A t \in L : f[t] = s
  BY <1>4
<1> HIDE DEF f
<1>6. agg' = [states |-> f, resets |-> agg.resets] /\ agg.resets \in SUBSET Targets
  <2>1. agg' = [agg EXCEPT !.states = f]
    BY <1>1 DEF f, s
  <2> QED BY <2>1, AggregatorFacts DEF Types
<1>7. agg' \in Aggregator(Now)
  BY <1>3, <1>5, <1>6, IsAggregator
<1>8. Changes(agg', keys)
  BY <1>4, <1>5, <1>6, FreshShown DEF Changes
<1>9. Types'
  BY <1>1, <1>3, <1>7, <1>8 DEF Types
<1>10. /\ requests' \in Seq(Request(Now))
       /\ \A t \in Targets :
            /\ Count(requests', RequestOf(t)) = IF t \in L THEN 1 ELSE 0
            /\ t \in L => ~ NoAsk(requests', t)
            /\ \A j : LastAsk(requests', t, j) =>
                 t \in L /\ requests'[j].kind = "watch" /\ requests'[j].token = listens[t]
  <2>1. \A t \in L : listens[t] \in 0 .. Now
    BY DEF Types
  <2> HIDE DEF Rest
  <2> QED BY <1>1, <1>3, <2>1, WatchAll
<1>11. Traffic'
  BY <1>1, <1>3, <1>10 DEF Traffic
<1>13. Known'
  BY <1>1, <1>3 DEF Known, Result
<1>14. ASSUME NEW t \in Targets PROVE Steady(t)'
  <2>1. Due(t, requests', responses') = IF t \in L THEN 1 ELSE 0
    <3>1. responses' = <<>> /\ responses \in Seq(Message(Now)) /\ requests' \in Seq(Request(Now))
      BY <1>1, <1>2, <1>10 DEF Silent, Traffic
    <3>2. Count(<<>>, AnswerOf(t)) = 0
      BY FS_EmptySet DEF Count
    <3>3. Due(t, requests', responses') = Count(requests', RequestOf(t)) + Count(responses', AnswerOf(t))
      BY <1>1, <1>3, <3>1, DueFacts
    <3> QED BY <1>10, <3>1, <3>2, <3>3
  <2>2. Out(agg', t) = IF t \in L THEN 1 ELSE 0
    BY <1>4, <1>5, <1>6 DEF Out
  <2>3. Counted(agg', requests', responses', L, t)
    BY <1>5, <1>6, <2>1, <2>2 DEF Counted
  <2>4. Asked(requests', listens, t)
    BY <1>10 DEF Asked, L
  <2>5. Answered(requests', responses', L, DOMAIN serving, t)
    <3>1. responses' = <<>> /\ \A j : ~ LastAnswer(responses', t, j)
      BY <1>1, <1>2 DEF Silent, LastAnswer
    <3> QED BY <1>10, <3>1 DEF Answered
  <2>6. t \notin DOMAIN serving
    BY <1>2 DEF Silent
  <2> QED BY <1>1, <1>3, <2>3, <2>4, <2>5, <2>6 DEF Steady
<1>15. InStep'
  BY <1>14 DEF InStep
<1> QED BY <1>9, <1>11, <1>13, <1>15

LEMMA RecordFacts ==
  ASSUME NEW n \in Nat, NEW a \in Aggregator(n), NEW t \in Targets, NEW k, Changes(a, k),
         NEW b, b = RecordPendingTargetRequest(a, t)
  PROVE  /\ b \in Aggregator(n) /\ b.resets = a.resets /\ DOMAIN b.states = DOMAIN a.states \cup {t}
         /\ Out(b, t) = Out(a, t) + 1 /\ Changes(b, k)
         /\ \A u \in DOMAIN a.states \ {t} : b.states[u] = a.states[u]
<1> DEFINE e == Ensured(a, t)
           s == [e EXCEPT !.out = e.out + 1]
<1>1. e \in TargetState(n) /\ e.out = Out(a, t) /\ e.out \in Int
  BY EnsuredFacts
<1> HIDE DEF e
<1>2. s \in TargetState(n) /\ s.out = e.out + 1 /\ s.changes = e.changes
  <2>1. e.out + 1 \in Int
    BY <1>1
  <2>2. s \in TargetState(n)
    BY <1>1, <2>1, StateFacts
  <2> QED BY <1>1, <2>2 DEF TargetState
<1> HIDE DEF s
<1>3. b = Put(a, t, s)
  BY DEF RecordPendingTargetRequest, e, s
<1>4. /\ b \in Aggregator(n) /\ b.resets = a.resets /\ DOMAIN b.states = DOMAIN a.states \cup {t}
      /\ b.states[t] = s /\ \A u \in DOMAIN a.states \ {t} : b.states[u] = a.states[u]
  BY <1>2, <1>3, PutFacts
<1>5. With(b, t, "Removed") \subseteq k[t] /\ With(b, t, "Added") \cap k[t] = {}
  BY <1>2, <1>4, EnsuredChanges DEF e
<1>6. Changes(b, k)
  BY <1>4, <1>5 DEF Changes, With
<1> QED BY <1>1, <1>2, <1>4, <1>6 DEF Out

\* Target t is asked about, as its being listened to says.
LEMMA Asks ==
  ASSUME Rest, IsOpen, NEW t \in Targets, NEW q \in Request(Now), q.t = t,
         agg' = RecordPendingTargetRequest(agg, t), requests' = Append(requests, q),
         L' \ {t} = L \ {t}, t \in L' <=> q.kind = "watch", t \in L' => q.token = listens'[t],
         \A u \in L \ {t} : listens'[u] = listens[u],
         UNCHANGED <<keys, responses, serving, past, stale, crossed>>
  PROVE  /\ agg' \in Aggregator(Now) /\ Changes(agg', keys)
         /\ Traffic' /\ InStep'
<1> USE DEF Rest
<1>1. /\ Now \in Nat /\ Now' = Now /\ agg \in Aggregator(Now) /\ Changes(agg, keys)
      /\ requests \in Seq(Request(Now)) /\ responses \in Seq(Message(Now))
  BY BoundsAssumption DEF Types, PastOK, Now, Traffic
<1>2. /\ agg' \in Aggregator(Now) /\ agg'.resets = agg.resets
      /\ DOMAIN agg'.states = DOMAIN agg.states \cup {t}
      /\ Out(agg', t) = Out(agg, t) + 1 /\ Changes(agg', keys)
      /\ \A u \in DOMAIN agg.states \ {t} : agg'.states[u] = agg.states[u]
  BY <1>1, RecordFacts
<1> DEFINE c == <<q>>
<1>3. c \in Seq(Request(Now)) /\ Len(c) = 1 /\ c[1] = q /\ DOMAIN c = 1 .. 1
  OBVIOUS
<1>4. requests' = requests \o c /\ requests' \in Seq(Request(Now))
  BY <1>1, AppendIsConcat, AppendProperties
<1> HIDE DEF c
<1>5. Traffic'
  BY <1>1, <1>4 DEF Traffic
<1>6. ASSUME NEW u \in Targets \ crossed PROVE Steady(u)'
  <2>1. Steady(u)
    BY <1>6 DEF InStep
  <2>2. Due(u, requests', responses) = Due(u, requests, responses) + (IF q.t = u THEN 1 ELSE 0)
    BY <1>1, DueAppend
  <2>3. Out(agg', u) = Out(agg, u) + (IF q.t = u THEN 1 ELSE 0)
    <3>1. Out(agg, u) \in Int
      BY <1>1, EnsuredFacts
    <3>2. CASE u = t
      BY <1>2, <3>2
    <3>3. CASE u # t
      BY <1>2, <3>1, <3>3 DEF Out
    <3> QED BY <3>2, <3>3
  <2>4. Counted(agg', requests', responses, L', u)
    BY <1>2, <2>1, <2>2, <2>3 DEF Steady, Counted
  <2>5. /\ \A j : LastAsk(requests', u, j) =>
              \/ u = t /\ requests'[j] = q
              \/ u # t /\ LastAsk(requests, u, j) /\ requests'[j] = requests[j]
        /\ NoAsk(requests', u) <=> u # t /\ NoAsk(requests, u)
    <3>1. /\ \A j : LastAsk(requests', u, j) =>
              \/ LastAsk(c, u, j - Len(requests)) /\ requests'[j] = c[j - Len(requests)]
              \/ LastAsk(requests, u, j) /\ requests'[j] = requests[j] /\ NoAsk(c, u)
          /\ NoAsk(requests', u) <=> NoAsk(requests, u) /\ NoAsk(c, u)
      <4>1. /\ \A j : LastAsk(requests \o c, u, j) =>
                  \/ LastAsk(c, u, j - Len(requests)) /\ (requests \o c)[j] = c[j - Len(requests)]
                  \/ LastAsk(requests, u, j) /\ (requests \o c)[j] = requests[j] /\ NoAsk(c, u)
            /\ NoAsk(requests \o c, u) <=> NoAsk(requests, u) /\ NoAsk(c, u)
        BY <1>1, <1>3, AskConcat
      <4> QED BY <1>4, <4>1
    <3>2. NoAsk(c, u) <=> u # t
      BY <1>3 DEF NoAsk
    <3>3. \A j : LastAsk(c, u, j) => j = 1 /\ u = t
      BY <1>3 DEF LastAsk
    <3> QED BY <1>3, <3>1, <3>2, <3>3
  <2>6. Asked(requests', listens', u)
    <3>1. u # t => (u \in L' <=> u \in L) /\ (u \in L => listens'[u] = listens[u])
      OBVIOUS
    <3> QED BY <2>1, <2>5, <3>1 DEF Steady, Asked, L
  <2>7. Answered(requests', responses, L', DOMAIN serving, u)
    BY <2>1, <2>5 DEF Steady, Answered
  <2>8. ASSUME u \in L' \cap DOMAIN serving, NoAsk(requests', u)
        PROVE  Told(past, responses, serving[u].at, keys[u], Shown(agg', keys, u), stale, agg'.resets, u)
    <3>1. u # t /\ u \in L \cap DOMAIN serving /\ NoAsk(requests, u)
      BY <2>5, <2>8
    <3>2. u \in DOMAIN agg.states
      BY <2>1, <3>1 DEF Steady, Counted
    <3>3. Shown(agg', keys, u) = Shown(agg, keys, u)
      BY <1>2, <3>1, <3>2 DEF Shown, With
    <3> QED BY <1>2, <2>1, <3>1, <3>3 DEF Steady
  <2> QED BY <2>4, <2>6, <2>7, <2>8 DEF Steady
<1>7. InStep'
  BY <1>6 DEF InStep
<1> QED BY <1>2, <1>5, <1>7

LEMMA ListenStep ==
  ASSUME Rest, StreamOK, NEW t \in Targets, Listen(t)
  PROVE  Rest'
<1> USE DEF Rest
<1>1. /\ t \notin L /\ UNCHANGED <<keys, token, responses, serving, past, stale, crossed>>
      /\ asof' = [asof EXCEPT ![t] = 0]
  BY DEF Listen, disk
<1>2. /\ Now \in Nat /\ Now' = Now /\ PastOK' /\ 0 \in 0 .. Now /\ token[t] \in 0 .. Now
      /\ L \subseteq Targets /\ DOMAIN local = L
  BY <1>1, BoundsAssumption DEF Types, PastOK, Now
<1>3. /\ L' = L \cup {t} /\ DOMAIN local' = L \cup {t}
      /\ local'[t] = token[t] /\ listens'[t] = token[t]
      /\ \A u \in L : local'[u] = local[u] /\ listens'[u] = listens[u]
  BY <1>1, <1>2 DEF Listen, Bind, L
<1>4. synced' \subseteq synced /\ t \notin synced
  BY <1>1 DEF Listen, StartWatchStream, Turned, Types
<1>5. Known'
  <2>1. asof \in [Targets -> 0 .. Now]
    BY DEF Types
  <2>2. \A u \in synced' : asof'[u] = asof[u]
    BY <1>1, <1>4, <2>1 DEF Types
  <2> QED BY <1>1, <1>3, <1>4, <2>2 DEF Known, Result
<1>6. agg' \in Aggregator(Now) /\ Changes(agg', keys) => Types'
  BY <1>1, <1>2, <1>3, <1>4 DEF Types
<1>7. CASE IsOpen
  <2>1. agg' = RecordPendingTargetRequest(agg, t) /\ requests' = Append(requests, Watch(t, token[t]))
    BY <1>7 DEF Listen, IsOpen, IsStarted
  <2> DEFINE q == Watch(t, token[t])
  <2>2. q \in Request(Now) /\ q.t = t /\ q.kind = "watch" /\ q.token = token[t]
    BY <1>2 DEF Watch, Request
  <2> HIDE DEF q
  <2>3. L' \ {t} = L \ {t}
    BY <1>3
  <2>4. agg' \in Aggregator(Now) /\ Changes(agg', keys) /\ Traffic' /\ InStep'
    <3> HIDE DEF Rest
    <3> QED BY <1>1, <1>3, <1>7, <2>1, <2>2, <2>3, Asks DEF q
  <2> QED BY <1>5, <1>6, <2>4
<1>8. CASE ~ IsOpen
  <2>1. ~ IsOpen' /\ UNCHANGED requests /\ (agg' = FreshAggregator \/ UNCHANGED agg)
    BY <1>8, Closing DEF Listen, StartWatchStream, IsOpen
  <2>2. agg' \in Aggregator(Now) /\ Changes(agg', keys)
    <3>1. FreshAggregator \in Aggregator(Now) /\ Changes(FreshAggregator, keys)
      BY <1>2, FreshFacts DEF Changes
    <3> QED BY <2>1, <3>1 DEF Types
  <2>3. Traffic'
    BY <1>1, <1>2, <2>1 DEF Traffic
  <2> QED BY <1>5, <1>6, <2>1, <2>2, <2>3 DEF InStep
<1> QED BY <1>7, <1>8

LEMMA StopStep ==
  ASSUME Rest, StreamOK, NEW t \in Targets, StopListening(t)
  PROVE  Rest'
<1> USE DEF Rest
<1>1. /\ t \in L /\ UNCHANGED <<keys, responses, serving, past, asof, stale, crossed>>
      /\ token' = [token EXCEPT ![t] = local[t]] /\ synced' = synced \ {t}
  BY DEF StopListening, ReleaseTarget
<1>2. /\ Now \in Nat /\ Now' = Now /\ PastOK' /\ local[t] \in 0 .. Now
      /\ L \subseteq Targets /\ DOMAIN local = L /\ token \in [Targets -> 0 .. Now]
  BY <1>1, BoundsAssumption DEF Types, PastOK, Now
<1>3. /\ L' = L \ {t} /\ DOMAIN local' = L \ {t}
      /\ \A u \in L \ {t} : local'[u] = local[u] /\ listens'[u] = listens[u]
  BY DEF StopListening, ReleaseTarget, L
<1>4. Known'
  <2>1. token'[t] = local[t] /\ \A u \in Targets \ {t} : token'[u] = token[u]
    BY <1>1, <1>2
  <2> QED BY <1>1, <1>3, <2>1 DEF Known, Result
<1>5. agg' \in Aggregator(Now) /\ Changes(agg', keys) => Types'
  BY <1>1, <1>2, <1>3 DEF Types
<1>6. CASE IsOpen
  <2>1. agg' = RecordPendingTargetRequest(agg, t) /\ requests' = Append(requests, Unwatch(t))
    BY <1>6 DEF StopListening
  <2> DEFINE q == Unwatch(t)
  <2>2. q \in Request(Now) /\ q.t = t /\ q.kind = "unwatch"
    BY <1>2 DEF Unwatch, Request
  <2> HIDE DEF q
  <2>3. L' \ {t} = L \ {t} /\ t \notin L'
    BY <1>3
  <2>4. agg' \in Aggregator(Now) /\ Changes(agg', keys) /\ Traffic' /\ InStep'
    <3> HIDE DEF Rest
    <3> QED BY <1>1, <1>3, <1>6, <2>1, <2>2, <2>3, Asks DEF q
  <2> QED BY <1>4, <1>5, <2>4
<1>7. CASE ~ IsOpen
  <2>1. ~ IsOpen' /\ UNCHANGED <<requests, agg>>
    BY <1>7 DEF StopListening, IsOpen
  <2>2. agg' \in Aggregator(Now) /\ Changes(agg', keys)
    BY <2>1 DEF Types
  <2>3. Traffic'
    BY <1>1, <1>2, <2>1 DEF Traffic
  <2> QED BY <1>4, <1>5, <2>1, <2>2, <2>3 DEF InStep
<1> QED BY <1>6, <1>7

-----------------------------------------------------------------------------
(* Messages that complete no snapshot.                                      *)

LEMMA ToldFirst ==
  ASSUME NEW p, NEW M, NEW r \in Seq(M), r # <<>>, NEW at, NEW k, NEW s, NEW st, NEW rs, NEW t,
         Told(p, r, at, k, s, st, rs, t), Quiet(r, t, 1), t \notin st \cup rs
  PROVE  /\ IsFilter(Head(r), t) => Cardinality(s) # Head(r).count
         /\ Head(r).kind = "snapshot" => s = In(p, t, Head(r).version)
<1>1. PICK V \in Views(r) : Leads(p, r, V, t, st \cup rs) /\ V[1] = s
  BY DEF Told
<1>2. 1 \in 1 .. Len(r) /\ Head(r) = r[1]
  BY TailFacts
<1>3. LeadsAt(p, r, V, t, st \cup rs, 1)
  BY <1>1, <1>2 DEF Leads
<1> QED BY <1>1, <1>2, <1>3 DEF LeadsAt

LEMMA Taken ==
  ASSUME Rest, responses # <<>>, responses' = Tail(responses),
         UNCHANGED <<disk, listening, requests, serving, past, asof, stale, crossed>>,
         agg' \in Aggregator(Now), Changes(agg', keys)
  PROVE  Types' /\ Traffic' /\ Known'
<1> USE DEF Rest, disk, listening
<1>1. Types'
  BY DEF Types, PastOK, Now, L
<1>2. Known'
  BY DEF Known, Result, L
<1>3. Traffic'
  <2>1. Tail(responses) \in Seq(Message(Now))
    BY TailFacts DEF Traffic
  <2> QED BY <2>1 DEF Traffic, Now
<1> QED BY <1>1, <1>2, <1>3

\* The message says nothing of the requests about t.
LEMMA PassesBy ==
  ASSUME Rest, IsOpen, responses # <<>>, NEW t \in Targets \ crossed, ~ IsAnswer(Head(responses), t),
         NEW b, t \in L => t \in DOMAIN b.states, Out(b, t) = Out(agg, t),
         NEW l, t \in l <=> t \in L
  PROVE  /\ Counted(b, requests, Tail(responses), l, t)
         /\ Answered(requests, Tail(responses), l, DOMAIN serving, t)
<1>1. Steady(t) /\ Now \in Nat /\ requests \in Seq(Request(Now)) /\ responses \in Seq(Message(Now))
  BY BoundsAssumption DEF Rest, InStep, Types, PastOK, Traffic
<1>2. Due(t, requests, Tail(responses)) = Due(t, requests, responses)
  <2>1. Due(t, requests, responses) = Due(t, requests, Tail(responses)) + 0
    BY <1>1, DueTail
  <2>2. Due(t, requests, Tail(responses)) \in Nat
    <3>1. Tail(responses) \in Seq(Message(Now))
      BY <1>1, TailFacts
    <3> QED BY <1>1, <3>1, DueFacts
  <2> QED BY <2>1, <2>2
<1>3. Counted(b, requests, Tail(responses), l, t)
  BY <1>1, <1>2 DEF Steady, Counted
<1>4. /\ \A j : LastAnswer(Tail(responses), t, j) =>
            LastAnswer(responses, t, j + 1) /\ Tail(responses)[j] = responses[j + 1]
      /\ Quiet(Tail(responses), t, 1) => Quiet(responses, t, 1)
  BY <1>1, QuietTail
<1>5. Answered(requests, Tail(responses), l, DOMAIN serving, t)
  BY <1>1, <1>4 DEF Steady, Answered
<1> QED BY <1>3, <1>5

LEMMA HeedsStep ==
  ASSUME Rest, StreamOK, responses # <<>>, responses' = Tail(responses), agg' \in Aggregator(Now),
         Head(responses).kind \in {"document", "current", "reset", "filter"},
         Heeds(past, agg, agg', Head(responses), L, keys),
         UNCHANGED <<disk, listening, requests, serving, past, asof, stale, crossed>>
  PROVE  Rest'
<1> DEFINE m == Head(responses)
           r == Tail(responses)
<1> USE DEF disk, listening
<1>1. /\ IsOpen /\ Now \in Nat /\ L' = L /\ m \in Message(Now)
      /\ requests \in Seq(Request(Now)) /\ responses \in Seq(Message(Now)) /\ r \in Seq(Message(Now))
  BY BoundsAssumption, TailFacts DEF Rest, StreamOK, Silent, Types, PastOK, Now, Traffic, L
<1>2. Types' /\ Traffic' /\ Known'
  BY Taken DEF Heeds
<1>3. \A t : ~ IsAnswer(m, t)
  BY DEF IsAnswer
<1>4. ASSUME NEW t \in Targets \ crossed PROVE Steady(t)'
  <2>1. Steady(t)
    BY <1>1, <1>4 DEF Rest, InStep
  <2>2. Out(agg', t) = Out(agg, t) /\ (t \in L => t \in DOMAIN agg'.states)
    BY <2>1 DEF Heeds, Steady, Counted
  <2>3. Counted(agg', requests, r, L, t) /\ Answered(requests, r, L, DOMAIN serving, t)
    BY <1>1, <1>3, <2>2, PassesBy
  <2>4. ASSUME t \in L \cap DOMAIN serving, NoAsk(requests, t)
        PROVE  Told(past, r, serving[t].at, keys[t], Shown(agg', keys, t), stale, agg'.resets, t)
    <3> DEFINE s == Shown(agg, keys, t)
    <3>1. Told(past, responses, serving[t].at, keys[t], s, stale, agg.resets, t)
      BY <2>1, <2>4 DEF Steady
    <3>2. agg.resets \subseteq agg'.resets
      BY DEF Heeds
    <3>3. ASSUME Quiet(responses, t, 1)
          PROVE  \/ t \in agg'.resets
                 \/ /\ Shown(agg', keys, t) = IF IsCurrent(m, t) THEN s ELSE Brings(past, m, t, s)
                    /\ IsFilter(m, t) => Cardinality(s) = m.count
      <4>1. Due(t, requests, responses) = 0
        BY <1>1, <2>4, <3>3, DueFacts
      <4>2. t \in L \cap DOMAIN agg.states /\ agg.states[t].out = 0
        BY <2>1, <2>4, <4>1 DEF Steady, Counted, Out
      <4> QED BY <4>2 DEF Heeds
    <3>4. IsFilter(m, t) /\ Quiet(responses, t, 1) => t \in stale \cup agg'.resets
      BY <1>1, <3>1, <3>2, <3>3, ToldFirst
    <3>5. ASSUME Quiet(r, t, 1), t \notin stale \cup agg'.resets, NEW x \in SUBSET Docs, NEW y \in SUBSET Docs,
                 Passes(past, m, t, keys[t], s, stale, agg.resets, x, y)
          PROVE  Shown(agg', keys, t) = y
      <4>1. Quiet(responses, t, 1)
        BY <1>1, <1>3, <3>5, QuietTail
      <4>2. x = s /\ y = Brings(past, m, t, x) /\ (IsCurrent(m, t) => x = y)
        BY <1>3, <3>2, <3>5 DEF Passes
      <4> QED BY <3>3, <3>5, <4>1, <4>2
    <3> HIDE DEF m, r, s
    <3>6. IsFilter(Head(responses), t) /\ Quiet(responses, t, 1) => t \in stale \cup agg'.resets
      BY <3>4 DEF m
    <3>7. Quiet(Tail(responses), t, 1) /\ t \notin stale \cup agg'.resets =>
            \A x, y \in SUBSET Docs :
              Passes(past, Head(responses), t, keys[t], s, stale, agg.resets, x, y) => Shown(agg', keys, t) = y
      BY <3>5 DEF m, r
    <3> QED BY <1>1, <3>1, <3>6, <3>7, ToldTail DEF r
  <2> QED BY <1>1, <2>1, <2>3, <2>4 DEF Steady
<1>5. InStep'
  BY <1>4 DEF InStep
<1> QED BY <1>2, <1>5 DEF Rest

LEMMA HeedingSteps ==
  ASSUME Rest, StreamOK, OnDocumentChange \/ OnTargetCurrent \/ OnTargetReset \/ OnExistenceFilter
  PROVE  Rest'
<1> DEFINE m == Head(responses)
<1>1. /\ responses # <<>> /\ responses' = Tail(responses)
      /\ m.kind \in {"document", "current", "reset", "filter"}
      /\ UNCHANGED <<disk, listening, requests, serving, past, asof, stale, crossed>>
  BY DEF OnDocumentChange, OnTargetCurrent, OnTargetReset, OnExistenceFilter, Receive, Aggregates
<1>2. /\ Now \in Nat /\ m \in Message(Now) /\ agg \in Aggregator(Now) /\ Changes(agg, keys)
      /\ keys \in [Targets -> SUBSET Docs] /\ L \in SUBSET Targets
  BY <1>1, BoundsAssumption, TailFacts DEF Rest, Types, PastOK, Traffic
<1> HIDE DEF m
<1>3. agg' \in Aggregator(Now) /\ Heeds(past, agg, agg', m, L, keys)
  <2>1. CASE OnDocumentChange
    <3>1. m.kind = "document" /\ agg' = HandleDocumentChange(agg, L, keys, m.doc, m.updated, m.removed)
      BY <2>1 DEF OnDocumentChange, Receive, Aggregates, m
    <3> QED BY <1>2, <3>1, HeedsDocument
  <2>2. CASE OnTargetCurrent
    <3>1. m.kind = "current" /\ agg' = TargetCurrent(agg, L, m.t, m.version)
      BY <2>2 DEF OnTargetCurrent, Receive, Aggregates, m
    <3> QED BY <1>2, <3>1, HeedsCurrent
  <2>3. CASE OnTargetReset
    <3>1. m.kind = "reset" /\ agg' = TargetReset(agg, L, keys, m.t)
      BY <2>3 DEF OnTargetReset, Receive, Aggregates, m
    <3> QED BY <1>2, <3>1, HeedsReset
  <2>4. CASE OnExistenceFilter
    <3>1. m.kind = "filter" /\ agg' = HandleExistenceFilter(agg, L, keys, m.t, m.count)
      BY <2>4 DEF OnExistenceFilter, Receive, Aggregates, m
    <3> QED BY <1>2, <3>1, HeedsFilter
  <2> QED BY <2>1, <2>2, <2>3, <2>4
<1> QED BY <1>1, <1>3, HeedsStep DEF m

-----------------------------------------------------------------------------
(* Answers to requests.                                                     *)

\* b is a, but for the state of t that an answer is taken from.
Settles(n, a, b, k, t) ==
  /\ b \in Aggregator(n) /\ b.resets = a.resets /\ Changes(b, k)
  /\ \A u \in DOMAIN a.states \ {t} : u \in DOMAIN b.states /\ b.states[u] = a.states[u]
  /\ DOMAIN b.states \subseteq DOMAIN a.states \cup {t}

LEMMA PutSettles ==
  ASSUME NEW n \in Nat, NEW a \in Aggregator(n), NEW t \in Targets, NEW k, Changes(a, k),
         NEW s \in TargetState(n), s.changes = NoChanges \/ s.changes = Ensured(a, t).changes,
         NEW b, b = Put(a, t, s)
  PROVE  Settles(n, a, b, k, t) /\ t \in DOMAIN b.states /\ b.states[t] = s
<1>1. /\ b \in Aggregator(n) /\ b.resets = a.resets /\ DOMAIN b.states = DOMAIN a.states \cup {t}
      /\ b.states[t] = s /\ \A u \in DOMAIN a.states \ {t} : b.states[u] = a.states[u]
  BY PutFacts
<1>2. With(b, t, "Removed") \subseteq k[t] /\ With(b, t, "Added") \cap k[t] = {}
  <2>1. CASE s.changes = NoChanges
    BY <1>1, <2>1, FreshShown
  <2>2. CASE s.changes = Ensured(a, t).changes
    BY <1>1, <2>2, EnsuredChanges
  <2> QED BY <2>1, <2>2
<1>3. Changes(b, k)
  BY <1>1, <1>2 DEF Changes, With
<1> QED BY <1>1, <1>3 DEF Settles

\* The state of a target with an answer less, and without changes.
Fewer(a, t) == [Ensured(a, t) EXCEPT !.out = @ - 1]
Cleared(s) == [s EXCEPT !.pending = FALSE, !.changes = NoChanges]

LEMMA FewerFacts ==
  ASSUME NEW n \in Nat, NEW a \in Aggregator(n), NEW t
  PROVE  /\ Fewer(a, t) \in TargetState(n) /\ Fewer(a, t).out = Out(a, t) - 1
         /\ Fewer(a, t).changes = Ensured(a, t).changes
<1> DEFINE e == Ensured(a, t)
<1>1. e \in TargetState(n) /\ e.out = Out(a, t) /\ Out(a, t) \in Int
  BY EnsuredFacts
<1>2. Fewer(a, t) = [e EXCEPT !.out = e.out - 1]
  BY DEF Fewer
<1> HIDE DEF e
<1>3. [e EXCEPT !.out = e.out - 1] \in TargetState(n)
  <2>1. e.out - 1 \in Int
    BY <1>1
  <2> QED BY <1>1, <2>1, StateFacts
<1>4. Fewer(a, t) \in TargetState(n) /\ Fewer(a, t).out = Out(a, t) - 1 /\ Fewer(a, t).changes = e.changes
  BY <1>1, <1>2, <1>3 DEF TargetState
<1> QED BY <1>4 DEF e

LEMMA ClearedFacts ==
  ASSUME NEW n \in Nat, NEW s \in TargetState(n)
  PROVE  Cleared(s) \in TargetState(n) /\ Cleared(s).out = s.out /\ Cleared(s).changes = NoChanges
<1>1. NoChanges \in [Docs -> Change]
  BY FreshFacts
<1>2. Cleared(s) \in TargetState(n)
  BY <1>1, StateFacts DEF Cleared
<1> QED BY <1>1, <1>2 DEF Cleared, TargetState

LEMMA AddedFacts ==
  ASSUME NEW n \in Nat, NEW a \in Aggregator(n), NEW t \in Targets, NEW k, Changes(a, k),
         NEW b, b = TargetAdded(a, t)
  PROVE  /\ Settles(n, a, b, k, t) /\ t \in DOMAIN b.states /\ Out(b, t) = Out(a, t) - 1
         /\ Out(b, t) = 0 => b.states[t].changes = NoChanges
<1> DEFINE s == Fewer(a, t)
           c == Cleared(s)
           u == IF s.out = 0 THEN c ELSE s
<1>1. /\ s \in TargetState(n) /\ s.out = Out(a, t) - 1 /\ s.changes = Ensured(a, t).changes
      /\ c \in TargetState(n) /\ c.out = s.out /\ c.changes = NoChanges
  <2>1. s \in TargetState(n) /\ s.out = Out(a, t) - 1 /\ s.changes = Ensured(a, t).changes
    BY FewerFacts
  <2> QED BY <2>1, ClearedFacts
<1>2. b = Put(a, t, u)
  BY DEF TargetAdded, Fewer, Cleared
<1> HIDE DEF s, c
<1>3. /\ u \in TargetState(n) /\ (u.changes = NoChanges \/ u.changes = Ensured(a, t).changes)
      /\ u.out = Out(a, t) - 1 /\ (u.out = 0 => u.changes = NoChanges)
  BY <1>1
<1> HIDE DEF u
<1>4. Settles(n, a, b, k, t) /\ t \in DOMAIN b.states /\ b.states[t] = u
  BY <1>2, <1>3, PutSettles
<1> QED BY <1>3, <1>4 DEF Out

LEMMA RemovedFacts ==
  ASSUME NEW n \in Nat, NEW a \in Aggregator(n), NEW t \in Targets, NEW k, Changes(a, k),
         NEW b, b = TargetRemoved(a, t)
  PROVE  /\ Settles(n, a, b, k, t) /\ Out(b, t) = Out(a, t) - 1
         /\ Out(b, t) # 0 => t \in DOMAIN b.states
<1> DEFINE s == Fewer(a, t)
<1>1. s \in TargetState(n) /\ s.out = Out(a, t) - 1 /\ s.changes = Ensured(a, t).changes
  BY FewerFacts
<1>2. b = IF s.out = 0 THEN RemoveTarget(a, t) ELSE Put(a, t, s)
  BY DEF TargetRemoved, Fewer
<1> HIDE DEF s
<1>3. CASE s.out = 0
  <2>1. /\ b \in Aggregator(n) /\ b.resets = a.resets /\ DOMAIN b.states = DOMAIN a.states \ {t}
        /\ \A u \in DOMAIN a.states \ {t} : b.states[u] = a.states[u]
    BY <1>2, <1>3, RemoveFacts
  <2>2. Settles(n, a, b, k, t)
    BY <2>1 DEF Settles, Changes, With
  <2> QED BY <1>1, <1>3, <2>1, <2>2 DEF Out
<1>4. CASE s.out # 0
  <2>1. Settles(n, a, b, k, t) /\ t \in DOMAIN b.states /\ b.states[t] = s
    BY <1>1, <1>2, <1>4, PutSettles
  <2> QED BY <1>1, <2>1 DEF Out
<1> QED BY <1>3, <1>4

\* An answer about another target leaves what is known of t.
LEMMA OthersStay ==
  ASSUME Rest, StreamOK, responses # <<>>, responses' = Tail(responses),
         Head(responses).kind \in {"added", "removed", "refused"}, NEW u, Head(responses).t = u,
         Settles(Now, agg, agg', keys, u), L' \ {u} = L \ {u}, \A t \in L \ {u} : listens'[t] = listens[t],
         stale' \ {u} = stale \ {u}, UNCHANGED <<keys, requests, serving, past>>,
         NEW t \in Targets \ crossed, t # u
  PROVE  Steady(t)'
<1> DEFINE m == Head(responses)
           r == Tail(responses)
<1>1. /\ IsOpen /\ Now \in Nat /\ m \in Message(Now) /\ (t \in L' <=> t \in L) /\ (t \in stale' <=> t \in stale)
      /\ requests \in Seq(Request(Now)) /\ responses \in Seq(Message(Now)) /\ r \in Seq(Message(Now))
  BY BoundsAssumption, TailFacts DEF Rest, StreamOK, Silent, Types, PastOK, Traffic
<1>2. Steady(t) /\ ~ IsAnswer(m, t)
  BY <1>1 DEF Rest, InStep, IsAnswer
<1>3. Out(agg', t) = Out(agg, t) /\ (t \in L => t \in DOMAIN agg'.states)
  BY <1>2 DEF Settles, Out, Steady, Counted
<1>4. Counted(agg', requests, r, L', t) /\ Answered(requests, r, L', DOMAIN serving, t)
  BY <1>1, <1>2, <1>3, PassesBy
<1>5. Asked(requests, listens', t)
  BY <1>1, <1>2 DEF Steady, Asked, L
<1>6. ASSUME t \in L' \cap DOMAIN serving, NoAsk(requests, t)
      PROVE  Told(past, r, serving[t].at, keys[t], Shown(agg', keys, t), stale', agg'.resets, t)
  <2> DEFINE s == Shown(agg, keys, t)
  <2>1. Told(past, responses, serving[t].at, keys[t], s, stale, agg.resets, t)
    BY <1>1, <1>2, <1>6 DEF Steady
  <2>2. t \in DOMAIN agg.states /\ agg'.resets = agg.resets
    BY <1>1, <1>2, <1>6 DEF Steady, Counted, Settles
  <2>3. Shown(agg', keys, t) = s
    BY <2>2 DEF Settles, Shown, With
  <2>4. ASSUME t \notin stale' \cup agg.resets, NEW x \in SUBSET Docs, NEW y \in SUBSET Docs,
               Passes(past, m, t, keys[t], s, stale, agg.resets, x, y)
        PROVE  s = y
    BY <1>1, <1>2, <2>4 DEF Passes, Brings, IsCurrent
  <2>5. ~ IsFilter(m, t)
    BY DEF IsFilter
  <2> HIDE DEF m, r, s
  <2>6. /\ IsFilter(Head(responses), t) /\ Quiet(responses, t, 1) => t \in stale' \cup agg'.resets
        /\ Quiet(Tail(responses), t, 1) /\ t \notin stale' \cup agg'.resets =>
             \A x, y \in SUBSET Docs :
               Passes(past, Head(responses), t, keys[t], s, stale, agg.resets, x, y) => s = y
    BY <2>2, <2>4, <2>5 DEF m
  <2>7. Quiet(Tail(responses), t, 1) \/ (t \notin stale' => t \notin stale /\ keys[t] = keys[t])
    BY <1>1
  <2>8. Told(past, Tail(responses), serving[t].at, keys[t], s, stale', agg'.resets, t)
    BY <1>1, <2>1, <2>6, <2>7, ToldTail
  <2> QED BY <2>3, <2>8 DEF r
<1> QED BY <1>4, <1>5, <1>6 DEF Steady

\* An answer about the target.
LEMMA AnswerTaken ==
  ASSUME Rest, StreamOK, responses # <<>>, NEW t \in Targets \ crossed, IsAnswer(Head(responses), t)
  PROVE  /\ Due(t, requests, Tail(responses)) = Out(agg, t) - 1
         /\ Due(t, requests, Tail(responses)) \in Nat
         /\ Head(responses).kind # "refused" => Answered(requests, Tail(responses), L, DOMAIN serving, t)
         /\ Due(t, requests, Tail(responses)) = 0 <=> NoAsk(requests, t) /\ Quiet(Tail(responses), t, 1)
         /\ NoAsk(requests, t) /\ Quiet(Tail(responses), t, 1) =>
              /\ Head(responses).kind = "removed" <=> t \notin L
              /\ Head(responses).kind = "added" => t \in DOMAIN serving
<1> DEFINE r == Tail(responses)
<1>1. /\ IsOpen /\ Now \in Nat /\ requests \in Seq(Request(Now))
      /\ responses \in Seq(Message(Now)) /\ r \in Seq(Message(Now)) /\ Head(responses) = responses[1]
  BY BoundsAssumption, TailFacts DEF Rest, StreamOK, Silent, Types, PastOK, Traffic
<1>2. Steady(t)
  BY <1>1 DEF Rest, InStep
<1>3. Due(t, requests, responses) = Due(t, requests, r) + 1 /\ Due(t, requests, r) \in Nat
      /\ (Due(t, requests, r) = 0 <=> NoAsk(requests, t) /\ Quiet(r, t, 1))
  BY <1>1, DueTail, DueFacts
<1>4. Due(t, requests, r) = Out(agg, t) - 1
  BY <1>2, <1>3 DEF Steady, Counted
<1>5. /\ \A j : LastAnswer(r, t, j) => LastAnswer(responses, t, j + 1) /\ r[j] = responses[j + 1]
      /\ Quiet(r, t, 1) => LastAnswer(responses, t, 1)
  BY <1>1, QuietTail
<1>6. NoAsk(requests, t) /\ Quiet(r, t, 1) =>
        /\ Head(responses).kind = "removed" <=> t \notin L
        /\ Head(responses).kind = "added" => t \in DOMAIN serving
  BY <1>1, <1>2, <1>5 DEF Steady, Answered
<1>7. Head(responses).kind # "refused" => Answered(requests, r, L, DOMAIN serving, t)
  <2> SUFFICES ASSUME Head(responses).kind # "refused", NoAsk(requests, t)
               PROVE  /\ \A j : LastAnswer(r, t, j) => /\ r[j].kind = "removed" <=> t \notin L
                                                       /\ r[j].kind = "added" => t \in DOMAIN serving
                      /\ Quiet(r, t, 1) /\ t \in L => t \in DOMAIN serving
    BY DEF Answered
  <2>1. Head(responses).kind \in {"added", "removed", "refused"}
    BY DEF IsAnswer
  <2>2. \A j : LastAnswer(responses, t, j) =>
           /\ responses[j].kind = "removed" <=> t \notin L
           /\ responses[j].kind = "added" => t \in DOMAIN serving
    BY <1>2 DEF Steady, Answered
  <2>3. \A j : LastAnswer(r, t, j) => /\ r[j].kind = "removed" <=> t \notin L
                                      /\ r[j].kind = "added" => t \in DOMAIN serving
    BY <1>5, <2>2
  <2>4. Quiet(r, t, 1) /\ t \in L => t \in DOMAIN serving
    BY <1>6, <2>1
  <2> QED BY <2>3, <2>4
<1> QED BY <1>3, <1>4, <1>6, <1>7

LEMMA AddedStep ==
  ASSUME Rest, StreamOK, OnTargetAdded
  PROVE  Rest'
<1> DEFINE r == Tail(responses)
<1>0. PICK u : u = Head(responses).t
  OBVIOUS
<1>1. /\ responses # <<>> /\ responses' = r /\ Head(responses).kind = "added"
      /\ agg' = TargetAdded(agg, u)
      /\ UNCHANGED <<disk, listening, requests, serving, past, asof, stale, crossed>>
  BY <1>0 DEF OnTargetAdded, Receive, Aggregates
<1>2. /\ Now \in Nat /\ Head(responses) \in Message(Now) /\ agg \in Aggregator(Now) /\ Changes(agg, keys)
      /\ responses \in Seq(Message(Now)) /\ r \in Seq(Message(Now)) /\ L' = L
  BY <1>1, BoundsAssumption, TailFacts DEF Rest, Types, PastOK, Traffic, listening, L
<1>3. u \in Targets /\ IsAnswer(Head(responses), u)
  BY <1>0, <1>1, <1>2 DEF Message, IsAnswer
<1>4. /\ Settles(Now, agg, agg', keys, u) /\ u \in DOMAIN agg'.states /\ Out(agg', u) = Out(agg, u) - 1
      /\ Out(agg', u) = 0 => agg'.states[u].changes = NoChanges
  BY <1>1, <1>2, <1>3, AddedFacts
<1> HIDE DEF r
<1>5. Types' /\ Traffic' /\ Known'
  BY <1>1, <1>4, Taken DEF Settles, r
<1>6. ASSUME NEW t \in Targets \ crossed, t # u PROVE Steady(t)'
  <2>1. /\ L' \ {u} = L \ {u} /\ \A x \in L \ {u} : listens'[x] = listens[x]
        /\ stale' \ {u} = stale \ {u} /\ UNCHANGED <<keys, requests, serving, past>>
    BY <1>1, <1>2 DEF disk, listening
  <2>2. /\ responses # <<>> /\ responses' = Tail(responses) /\ Settles(Now, agg, agg', keys, u)
        /\ Head(responses).kind \in {"added", "removed", "refused"}
    BY <1>1, <1>4 DEF r
  <2> QED BY <1>0, <1>6, <2>1, <2>2, OthersStay
<1>7. ASSUME u \notin crossed PROVE Steady(u)'
  <2>1. Steady(u)
    <3>1. IsOpen
      BY <1>1 DEF StreamOK, Silent
    <3> QED BY <1>3, <1>7, <3>1 DEF Rest, InStep
  <2>2. /\ Due(u, requests, r) = Out(agg, u) - 1
        /\ Answered(requests, r, L, DOMAIN serving, u)
        /\ Due(u, requests, r) = 0 <=> NoAsk(requests, u) /\ Quiet(r, u, 1)
    BY <1>1, <1>3, <1>7, AnswerTaken DEF r
  <2>3. Counted(agg', requests, r, L, u) /\ Asked(requests, listens, u)
    BY <1>4, <2>1, <2>2 DEF Steady, Counted
  <2>4. ASSUME u \in L \cap DOMAIN serving, NoAsk(requests, u)
        PROVE  Told(past, r, serving[u].at, keys[u], Shown(agg', keys, u), stale, agg'.resets, u)
    <3> DEFINE s == Shown(agg, keys, u)
               s2 == Shown(agg', keys, u)
               m == Head(responses)
    <3>1. Told(past, responses, serving[u].at, keys[u], s, stale, agg.resets, u)
      BY <2>1, <2>4 DEF Steady
    <3>2. ~ IsFilter(m, u)
      BY <1>1 DEF IsFilter
    <3>3. Quiet(r, u, 1) => s2 = keys[u]
      BY <1>4, <2>2, <2>4, FreshShown
    <3>4. ASSUME u \notin stale, NEW x, NEW y, Passes(past, m, u, keys[u], s, stale, agg.resets, x, y)
          PROVE  y = keys[u]
      BY <1>1, <1>3, <3>4 DEF Passes
    <3> HIDE DEF s, s2, m
    <3>5. /\ IsFilter(Head(responses), u) /\ Quiet(responses, u, 1) => u \in stale \cup agg'.resets
          /\ Quiet(Tail(responses), u, 1) /\ u \notin stale \cup agg'.resets =>
               \A x, y \in SUBSET Docs :
                 Passes(past, Head(responses), u, keys[u], s, stale, agg.resets, x, y) => s2 = y
      BY <3>2, <3>3, <3>4 DEF m, r
    <3>6. Told(past, Tail(responses), serving[u].at, keys[u], s2, stale, agg'.resets, u)
      BY <1>1, <1>2, <3>1, <3>5, ToldTail
    <3> QED BY <3>6 DEF r, s2
  <2> QED BY <1>1, <1>2, <2>2, <2>3, <2>4 DEF Steady, disk, listening
<1>8. InStep'
  BY <1>1, <1>6, <1>7 DEF InStep
<1> QED BY <1>5, <1>8 DEF Rest

LEMMA RemovedStep ==
  ASSUME Rest, StreamOK, OnTargetRemoved
  PROVE  Rest'
<1> DEFINE r == Tail(responses)
<1>0. PICK u : u = Head(responses).t
  OBVIOUS
<1>1. /\ responses # <<>> /\ responses' = r /\ Head(responses).kind = "removed"
      /\ agg' = TargetRemoved(agg, u)
      /\ UNCHANGED <<disk, listening, requests, serving, past, asof, stale, crossed>>
  BY <1>0 DEF OnTargetRemoved, Receive, Aggregates
<1>2. /\ Now \in Nat /\ Head(responses) \in Message(Now) /\ agg \in Aggregator(Now) /\ Changes(agg, keys)
      /\ responses \in Seq(Message(Now)) /\ r \in Seq(Message(Now)) /\ L' = L
  BY <1>1, BoundsAssumption, TailFacts DEF Rest, Types, PastOK, Traffic, listening, L
<1>3. u \in Targets /\ IsAnswer(Head(responses), u)
  BY <1>0, <1>1, <1>2 DEF Message, IsAnswer
<1>4. /\ Settles(Now, agg, agg', keys, u) /\ Out(agg', u) = Out(agg, u) - 1
      /\ Out(agg', u) # 0 => u \in DOMAIN agg'.states
  BY <1>1, <1>2, <1>3, RemovedFacts
<1> HIDE DEF r
<1>5. Types' /\ Traffic' /\ Known'
  BY <1>1, <1>4, Taken DEF Settles, r
<1>6. ASSUME NEW t \in Targets \ crossed, t # u PROVE Steady(t)'
  <2>1. /\ L' \ {u} = L \ {u} /\ \A x \in L \ {u} : listens'[x] = listens[x]
        /\ stale' \ {u} = stale \ {u} /\ UNCHANGED <<keys, requests, serving, past>>
    BY <1>1, <1>2 DEF disk, listening
  <2>2. /\ responses # <<>> /\ responses' = Tail(responses) /\ Settles(Now, agg, agg', keys, u)
        /\ Head(responses).kind \in {"added", "removed", "refused"}
    BY <1>1, <1>4 DEF r
  <2> QED BY <1>0, <1>6, <2>1, <2>2, OthersStay
<1>7. ASSUME u \notin crossed PROVE Steady(u)'
  <2>1. Steady(u)
    <3>1. IsOpen
      BY <1>1 DEF StreamOK, Silent
    <3> QED BY <1>3, <1>7, <3>1 DEF Rest, InStep
  <2>2. /\ Due(u, requests, r) = Out(agg, u) - 1
        /\ Answered(requests, r, L, DOMAIN serving, u)
        /\ Due(u, requests, r) = 0 <=> NoAsk(requests, u) /\ Quiet(r, u, 1)
        /\ NoAsk(requests, u) /\ Quiet(r, u, 1) => u \notin L
    BY <1>1, <1>3, <1>7, AnswerTaken DEF r
  <2>3. Counted(agg', requests, r, L, u) /\ Asked(requests, listens, u)
    BY <1>4, <2>1, <2>2 DEF Steady, Counted
  <2>4. ASSUME u \in L \cap DOMAIN serving, NoAsk(requests, u)
        PROVE  Told(past, r, serving[u].at, keys[u], Shown(agg', keys, u), stale, agg'.resets, u)
    <3> DEFINE s == Shown(agg, keys, u)
               s2 == Shown(agg', keys, u)
    <3>1. Told(past, responses, serving[u].at, keys[u], s, stale, agg.resets, u)
      BY <2>1, <2>4 DEF Steady
    <3>2. ~ IsFilter(Head(responses), u) /\ ~ Quiet(r, u, 1)
      BY <1>1, <2>2, <2>4 DEF IsFilter
    <3> HIDE DEF s, s2
    <3>3. /\ IsFilter(Head(responses), u) /\ Quiet(responses, u, 1) => u \in stale \cup agg'.resets
          /\ Quiet(Tail(responses), u, 1) /\ u \notin stale \cup agg'.resets =>
               \A x, y \in SUBSET Docs :
                 Passes(past, Head(responses), u, keys[u], s, stale, agg.resets, x, y) => s2 = y
      BY <3>2 DEF r
    <3>4. Told(past, Tail(responses), serving[u].at, keys[u], s2, stale, agg'.resets, u)
      BY <1>1, <1>2, <3>1, <3>3, ToldTail
    <3> QED BY <3>4 DEF r, s2
  <2> QED BY <1>1, <1>2, <2>2, <2>3, <2>4 DEF Steady, disk, listening
<1>8. InStep'
  BY <1>1, <1>6, <1>7 DEF InStep
<1> QED BY <1>5, <1>8 DEF Rest

LEMMA ErrorStep ==
  ASSUME Rest, StreamOK, ProcessTargetError
  PROVE  Rest'
<1> DEFINE r == Tail(responses)
<1>0. PICK u : u = Head(responses).t
  OBVIOUS
<1> DEFINE met == {t \in {u} : Due(t, requests, r) > 0}
<1>1. /\ responses # <<>> /\ responses' = r /\ Head(responses).kind = "refused"
      /\ crossed' = crossed \cup met /\ stale' = stale \cup met
      /\ UNCHANGED <<keys, requests, serving, past, asof>>
  BY <1>0 DEF ProcessTargetError, Receive
<1>2. /\ Now \in Nat /\ Head(responses) \in Message(Now) /\ agg \in Aggregator(Now) /\ Changes(agg, keys)
      /\ responses \in Seq(Message(Now)) /\ r \in Seq(Message(Now)) /\ Now' = Now /\ PastOK'
  BY <1>1, BoundsAssumption, TailFacts DEF Rest, Types, PastOK, Traffic, Now
<1>3. u \in Targets /\ IsAnswer(Head(responses), u)
  BY <1>0, <1>1, <1>2 DEF Message, IsAnswer
<1>4. /\ u \in L => /\ token' = [token EXCEPT ![u] = local[u]]
                    /\ local' = [t \in L \ {u} |-> local[t]] /\ listens' = [t \in L \ {u} |-> listens[t]]
                    /\ agg' = RemoveTarget(agg, u) /\ synced' = synced \ {u}
      /\ u \notin L => UNCHANGED <<token, local, listens, synced, agg>>
  BY <1>0 DEF ProcessTargetError, ReleaseTarget, listening
<1> HIDE DEF r, met
<1>5. /\ L' = L \ {u} /\ DOMAIN local' = L \ {u} /\ synced' = synced \ {u}
      /\ \A t \in L \ {u} : local'[t] = local[t] /\ listens'[t] = listens[t]
      /\ token' \in [Targets -> 0 .. Now]
      /\ \A t \in Targets : token'[t] = IF t = u /\ u \in L THEN local[u] ELSE token[t]
  BY <1>3, <1>4 DEF Rest, Types, L
<1>6. Settles(Now, agg, agg', keys, u)
  <2>1. CASE u \in L
    <3>1. /\ agg' \in Aggregator(Now) /\ agg'.resets = agg.resets
          /\ DOMAIN agg'.states = DOMAIN agg.states \ {u}
          /\ \A t \in DOMAIN agg.states \ {u} : agg'.states[t] = agg.states[t]
      BY <1>2, <1>4, <2>1, RemoveFacts
    <3> QED BY <1>2, <3>1 DEF Settles, Changes, With
  <2>2. CASE u \notin L
    BY <1>2, <1>4, <2>2 DEF Settles
  <2> QED BY <2>1, <2>2
<1>7. met \subseteq {u}
  BY DEF met
<1>8. Types'
  BY <1>1, <1>2, <1>3, <1>5, <1>6, <1>7 DEF Rest, Types, Settles
<1>9. Traffic'
  BY <1>1, <1>2 DEF Rest, Traffic
<1>10. Known'
  BY <1>1, <1>5 DEF Rest, Known, Result
<1>11. ASSUME NEW t \in Targets \ crossed, t # u PROVE Steady(t)'
  BY <1>1, <1>5, <1>6, <1>7, <1>11, <1>0, OthersStay DEF r
<1>12. ASSUME u \notin crossed' PROVE Steady(u)'
  <2>1. Steady(u) /\ u \notin crossed
    <3>1. IsOpen
      BY <1>1 DEF StreamOK, Silent
    <3> QED BY <1>1, <1>3, <1>12, <3>1 DEF Rest, InStep
  <2>2. /\ Due(u, requests, r) = Out(agg, u) - 1 /\ Due(u, requests, r) \in Nat
        /\ Due(u, requests, r) = 0 <=> NoAsk(requests, u) /\ Quiet(r, u, 1)
        /\ NoAsk(requests, u) /\ Quiet(r, u, 1) => u \in L
    BY <1>1, <1>3, <2>1, AnswerTaken DEF r
  <2>3. Due(u, requests, r) = 0
    <3>1. ASSUME Due(u, requests, r) > 0 PROVE FALSE
      <4>1. u \in met
        BY <3>1 DEF met
      <4> QED BY <1>1, <1>12, <4>1
    <3>2. Due(u, requests, r) \in Nat
      BY <2>2
    <3> HIDE DEF Due
    <3> QED BY <3>1, <3>2
  <2>4. Out(agg', u) = 0 /\ u \notin L'
    BY <1>2, <1>4, <1>5, <2>2, <2>3, RemoveFacts DEF Out
  <2>5. Counted(agg', requests, r, L', u)
    BY <2>3, <2>4 DEF Counted
  <2>6. Asked(requests, listens', u)
    BY <2>2, <2>3 DEF Asked, LastAsk, NoAsk
  <2>7. Answered(requests, r, L', DOMAIN serving, u)
    <3>1. \A i \in DOMAIN r : i >= 1
      BY <1>2, LenProperties
    <3>2. \A j : ~ LastAnswer(r, u, j)
      BY <2>2, <2>3, <3>1 DEF LastAnswer, Quiet
    <3> QED BY <2>4, <3>2 DEF Answered
  <2> QED BY <1>1, <2>4, <2>5, <2>6, <2>7 DEF Steady
<1>13. InStep'
  BY <1>1, <1>11, <1>12 DEF InStep
<1> QED BY <1>8, <1>9, <1>10, <1>13 DEF Rest

-----------------------------------------------------------------------------
(* A snapshot.                                                              *)

\* The targets that a snapshot is about, and those that are to be reset.
Active(a, l) == {t \in l \cap DOMAIN a.states : a.states[t].out = 0}
Ready == Active(agg, L)
Wrong == agg.resets \cap L

\* What the snapshot of version v makes of each target.
Event(v) ==
  /\ v \in 1 .. Now
  /\ keys' \in [Targets -> SUBSET Docs]
  /\ \A t \in Targets : keys'[t] = IF t \in Ready THEN Shown(agg, keys, t) ELSE keys[t]
  /\ L' = L /\ DOMAIN local' = L
  /\ \A t \in L : local'[t] = IF t \in Ready THEN v ELSE local[t]
  /\ \A t \in L : listens'[t] = IF t \in Wrong THEN 0 ELSE IF t \in Ready THEN v ELSE listens[t]
  /\ token' \in [Targets -> 0 .. Now]
  /\ \A t \in Targets : \/ t \in Ready /\ token'[t] = v
                        \/ token'[t] = token[t] /\ (t \in Ready => agg.states[t].changes = NoChanges)
  /\ synced' \subseteq synced \cup Ready
  /\ requests' = requests \o Again(SetToSeq(Wrong))
  /\ agg' \in Aggregator(Now) /\ agg'.resets = {} /\ DOMAIN agg'.states = DOMAIN agg.states \cup Wrong
  /\ \A t \in Targets : Out(agg', t) = Out(agg, t) + (IF t \in Wrong THEN 2 ELSE 0)
  /\ \A t \in DOMAIN agg'.states :
       agg'.states[t].changes = IF t \in DOMAIN agg.states \ Ready THEN agg.states[t].changes ELSE NoChanges
  /\ asof' \in [Targets -> 0 .. Now]
  /\ \A t \in Targets : asof'[t] = IF t \in L /\ Out(agg, t) = 0 THEN v ELSE asof[t]
  /\ stale' = (stale \cup Wrong) \ {t \in Ready \ crossed :
                 token'[t] = v /\ listens'[t] = v /\ keys'[t] = Result(t, v)}

\* With a version, no active target is without changes to tell of.
LEMMA NoChangeFacts ==
  ASSUME NEW n \in Nat, NEW g \in Aggregator(n), NEW l \in SUBSET Targets, NEW v \in 1 .. n,
         NEW a, a = TargetNoChange(g, l, v)
  PROVE  /\ a \in Aggregator(n) /\ a.resets = g.resets /\ DOMAIN a.states = DOMAIN g.states
         /\ \A t \in DOMAIN g.states : /\ a.states[t].out = g.states[t].out
                                       /\ a.states[t].changes = g.states[t].changes
         /\ \A t \in Active(g, l) : a.states[t].token = v
         /\ EventTargets(a, l) = Active(g, l)
         /\ \A t : IsActive(a, l, t) <=> t \in l /\ Out(g, t) = 0
<1> DEFINE S == Active(g, l)
<1> DEFINE s(t) == IF IsActive(g, l, t) THEN UpdateResumeToken(g.states[t], v) ELSE g.states[t]
           f == [t \in DOMAIN g.states |-> s(t)]
<1>0. \A t : t \in S <=> t \in l \cap DOMAIN g.states /\ g.states[t].out = 0
  BY DEF Active
<1> HIDE DEF S
<1>1. a = [states |-> f, resets |-> g.resets]
  <2>1. a = [g EXCEPT !.states = f]
    BY DEF TargetNoChange
  <2> HIDE DEF f
  <2> QED BY <2>1, AggregatorFacts
<1>2. v # 0 /\ v \in 0 .. n /\ TRUE \in BOOLEAN
  OBVIOUS
<1>3. ASSUME NEW t \in DOMAIN g.states
      PROVE  /\ s(t) \in TargetState(n) /\ s(t).out = g.states[t].out /\ s(t).changes = g.states[t].changes
             /\ t \in S => s(t).token = v /\ s(t).pending = TRUE
  <2> DEFINE e == g.states[t]
             c == [e EXCEPT !.token = v, !.pending = TRUE]
  <2>1. e \in TargetState(n)
    BY AggregatorFacts
  <2>2. t \in S => IsActive(g, l, t)
    BY <1>0 DEF IsActive
  <2>3. s(t) = IF IsActive(g, l, t) THEN c ELSE e
    BY <1>2 DEF UpdateResumeToken
  <2> HIDE DEF e
  <2>4. c \in TargetState(n)
    BY <1>2, <2>1, StateFacts
  <2>5. c.out = e.out /\ c.changes = e.changes /\ c.token = v /\ c.pending = TRUE
    BY <2>1 DEF TargetState
  <2> QED BY <2>1, <2>2, <2>3, <2>4, <2>5 DEF e
<1> HIDE DEF s
<1>4. DOMAIN f = DOMAIN g.states /\ \A t \in DOMAIN g.states : f[t] = s(t)
  OBVIOUS
<1>5. f \in [DOMAIN f -> TargetState(n)] /\ DOMAIN f \subseteq Targets
  BY <1>3, <1>4, AggregatorFacts
<1> HIDE DEF f
<1>6. a \in Aggregator(n)
  <2>1. g.resets \in SUBSET Targets
    BY AggregatorFacts
  <2> QED BY <1>1, <1>5, <2>1, IsAggregator
<1>7. /\ a.states = f /\ a.resets = g.resets /\ DOMAIN a.states = DOMAIN g.states
      /\ \A t \in DOMAIN g.states : a.states[t] = s(t)
  BY <1>1, <1>4
<1>8. \A t \in DOMAIN g.states : /\ a.states[t].out = g.states[t].out
                                 /\ a.states[t].changes = g.states[t].changes
                                 /\ t \in S => a.states[t].token = v /\ a.states[t].pending = TRUE
  BY <1>3, <1>7
<1>9. \A t : IsActive(a, l, t) <=> t \in l /\ Out(g, t) = 0
  <2>1. \A t : Out(a, t) = Out(g, t)
    BY <1>7, <1>8 DEF Out
  <2> QED BY <2>1, ActiveOut
<1>10. EventTargets(a, l) = S
  <2>1. \A t \in DOMAIN g.states : t \in S <=> IsActive(a, l, t)
    BY <1>0, <1>9 DEF Out
  <2>2. EventTargets(a, l) = {t \in DOMAIN g.states : IsActive(a, l, t) /\ a.states[t].pending}
    BY <1>7 DEF EventTargets
  <2>3. \A t : t \in EventTargets(a, l) <=> t \in S
    BY <1>0, <1>8, <2>1, <2>2
  <2> QED BY <2>3
<1>11. \A t \in S : a.states[t].token = v
  BY <1>0, <1>8
<1> QED BY <1>6, <1>7, <1>8, <1>9, <1>10, <1>11 DEF S

LEMMA AfterFacts ==
  ASSUME NEW n \in Nat, NEW a \in Aggregator(n), NEW l, NEW S \in SUBSET Targets,
         NEW b, b = RecordPendingTargetRequests(AfterEvent(a, l), S, 2)
  PROVE  /\ b \in Aggregator(n) /\ b.resets = {} /\ DOMAIN b.states = DOMAIN a.states \cup S
         /\ \A t \in Targets : Out(b, t) = Out(a, t) + (IF t \in S THEN 2 ELSE 0)
         /\ \A t \in DOMAIN b.states :
              b.states[t].changes = IF t \in DOMAIN a.states \ EventTargets(a, l)
                                    THEN a.states[t].changes ELSE NoChanges
<1> DEFINE E == EventTargets(a, l)
           f == [t \in DOMAIN a.states |-> IF t \in E THEN Cleared(a.states[t]) ELSE a.states[t]]
           c == AfterEvent(a, l)
<1>1. c = [resets |-> {}, states |-> f]
  BY DEF AfterEvent, Cleared
<1>2. ASSUME NEW t \in DOMAIN a.states
      PROVE  /\ f[t] \in TargetState(n) /\ f[t].out = a.states[t].out
             /\ f[t].changes = IF t \in E THEN NoChanges ELSE a.states[t].changes
  <2>1. a.states[t] \in TargetState(n)
    BY AggregatorFacts
  <2> HIDE DEF E
  <2> QED BY <2>1, ClearedFacts
<1>3. DOMAIN f = DOMAIN a.states
  OBVIOUS
<1> HIDE DEF f, E
<1>4. c \in Aggregator(n) /\ c.resets = {} /\ c.states = f
  <2>1. f \in [DOMAIN f -> TargetState(n)]
    BY <1>2, <1>3 DEF f
  <2>2. DOMAIN f \subseteq Targets /\ {} \in SUBSET Targets
    BY <1>3, AggregatorFacts
  <2> QED BY <1>1, <2>1, <2>2, IsAggregator
<1> HIDE DEF c
<1> DEFINE s(t) == [Ensured(c, t) EXCEPT !.out = @ + 2]
           g == [t \in DOMAIN c.states \cup S |-> IF t \in S THEN s(t) ELSE c.states[t]]
<1>5. b = [states |-> g, resets |-> {}]
  <2>1. b = [c EXCEPT !.states = g]
    BY DEF RecordPendingTargetRequests, c
  <2> HIDE DEF g
  <2> QED BY <1>4, <2>1, AggregatorFacts
<1>6. ASSUME NEW t \in S
      PROVE  /\ s(t) \in TargetState(n) /\ s(t).out = Out(c, t) + 2
             /\ s(t).changes = Ensured(c, t).changes /\ Out(c, t) \in Int
  <2> DEFINE e == Ensured(c, t)
  <2>1. e \in TargetState(n) /\ e.out = Out(c, t) /\ Out(c, t) \in Int
    BY <1>4, EnsuredFacts
  <2>2. s(t) = [e EXCEPT !.out = e.out + 2]
    OBVIOUS
  <2> HIDE DEF e, s
  <2>3. [e EXCEPT !.out = e.out + 2] \in TargetState(n)
    <3>1. e.out + 2 \in Int
      BY <2>1
    <3> QED BY <2>1, <3>1, StateFacts
  <2>4. s(t) \in TargetState(n) /\ s(t).out = Out(c, t) + 2 /\ s(t).changes = e.changes
    BY <2>1, <2>2, <2>3 DEF TargetState
  <2> QED BY <2>1, <2>4 DEF e
<1> HIDE DEF s
<1>7. /\ DOMAIN g = DOMAIN a.states \cup S
      /\ \A t \in S : g[t] = s(t)
      /\ \A t \in DOMAIN a.states \ S : g[t] = f[t]
  BY <1>3, <1>4
<1> HIDE DEF g
<1>8. b \in Aggregator(n)
  <2>1. \A t \in DOMAIN g : g[t] \in TargetState(n)
    BY <1>2, <1>6, <1>7
  <2>2. g \in [DOMAIN g -> TargetState(n)]
    BY <2>1 DEF g
  <2>3. DOMAIN g \subseteq Targets /\ {} \in SUBSET Targets
    BY <1>7, AggregatorFacts
  <2> QED BY <1>5, <2>2, <2>3, IsAggregator
<1>9. \A t \in Targets : Out(c, t) = Out(a, t) /\ Out(a, t) \in Int
  <2>1. \A t \in Targets : Out(a, t) \in Int
    BY EnsuredFacts
  <2> QED BY <1>2, <1>3, <1>4, <2>1 DEF Out
<1>10. ASSUME NEW t \in Targets PROVE Out(b, t) = Out(a, t) + (IF t \in S THEN 2 ELSE 0)
  <2>1. CASE t \in S
    BY <1>5, <1>6, <1>7, <1>9, <2>1 DEF Out
  <2>2. CASE t \notin S
    BY <1>2, <1>5, <1>7, <1>9, <2>2 DEF Out
  <2> QED BY <2>1, <2>2
<1>11. ASSUME NEW t \in DOMAIN b.states
       PROVE  b.states[t].changes = IF t \in DOMAIN a.states \ E THEN a.states[t].changes ELSE NoChanges
  <2>1. CASE t \in S
    <3>1. b.states[t].changes = Ensured(c, t).changes
      BY <1>5, <1>6, <1>7, <2>1
    <3>2. t \notin DOMAIN a.states => Ensured(c, t).changes = NoChanges
      BY <1>3, <1>4 DEF Ensured, FreshState
    <3>3. t \in DOMAIN a.states => Ensured(c, t) = f[t]
      BY <1>3, <1>4 DEF Ensured
    <3> QED BY <1>2, <3>1, <3>2, <3>3
  <2>2. CASE t \notin S
    BY <1>2, <1>5, <1>7, <2>2
  <2> QED BY <2>1, <2>2
<1> QED BY <1>5, <1>7, <1>8, <1>10, <1>11 DEF E

LEMMA Snapshots ==
  ASSUME Rest, OnSnapshot
  PROVE  /\ responses # <<>> /\ responses' = Tail(responses) /\ Head(responses).kind = "snapshot"
         /\ Event(Head(responses).version) /\ UNCHANGED <<serving, past, crossed>>
<1> DEFINE v == Head(responses).version
           a == TargetNoChange(agg, L, v)
           T == EventTargets(a, L)
           told == {t \in T : a.states[t].token # 0}
           wrong == a.resets \cap L
           gone(t) == {d \in Docs : a.states[t].changes[d] = "Removed"}
           new(t) == {d \in Docs : a.states[t].changes[d] = "Added"}
<1>1. /\ responses # <<>> /\ responses' = Tail(responses) /\ Head(responses).kind = "snapshot"
      /\ UNCHANGED <<serving, past, crossed>>
  BY DEF OnSnapshot, Receive
<1>2. /\ keys' = [t \in Targets |-> IF t \in T THEN (keys[t] \ gone(t)) \cup new(t) ELSE keys[t]]
      /\ local' = [t \in L |-> IF t \in told THEN a.states[t].token ELSE local[t]]
      /\ \E kept \in SUBSET {t \in told : local[t] # 0 /\ a.states[t].changes = NoChanges} :
           token' = [t \in Targets |-> IF t \in told \ kept THEN a.states[t].token ELSE token[t]]
      /\ listens' = [t \in L |-> IF t \in wrong THEN 0
                                 ELSE IF t \in told THEN a.states[t].token ELSE listens[t]]
      /\ synced' = {t \in L : IF t \in T THEN a.states[t].current ELSE t \in synced}
  BY DEF OnSnapshot
<1>3. /\ requests' = requests \o Again(SetToSeq(wrong))
      /\ agg' = RecordPendingTargetRequests(AfterEvent(a, L), wrong, 2)
      /\ asof' = [t \in Targets |-> IF IsActive(a, L, t) THEN v ELSE asof[t]]
      /\ stale' = (stale \cup wrong)
                  \ {t \in told \ crossed : token'[t] = v /\ listens'[t] = v /\ keys'[t] = Result(t, v)}
  BY DEF OnSnapshot, Again
<1>4. /\ Now \in Nat /\ v \in 1 .. Now /\ agg \in Aggregator(Now) /\ L \in SUBSET Targets
      /\ keys \in [Targets -> SUBSET Docs] /\ token \in [Targets -> 0 .. Now]
      /\ asof \in [Targets -> 0 .. Now] /\ synced \subseteq L
  <2>1. Now \in Nat /\ Head(responses) \in Message(Now)
    BY <1>1, BoundsAssumption, TailFacts DEF Rest, Types, PastOK, Traffic
  <2>2. v \in 1 .. Now
    BY <1>1, <2>1 DEF Message
  <2> QED BY <2>1, <2>2 DEF Rest, Types
<1> HIDE DEF v
<1>5. /\ a \in Aggregator(Now) /\ a.resets = agg.resets /\ DOMAIN a.states = DOMAIN agg.states
      /\ \A t \in DOMAIN agg.states : /\ a.states[t].out = agg.states[t].out
                                      /\ a.states[t].changes = agg.states[t].changes
      /\ \A t \in Ready : a.states[t].token = v
      /\ T = Ready /\ \A t : IsActive(a, L, t) <=> t \in L /\ Out(agg, t) = 0
  <2> HIDE DEF a
  <2>1. a = TargetNoChange(agg, L, v)
    BY DEF a
  <2> HIDE DEF T
  <2>0. Now \in Nat /\ agg \in Aggregator(Now) /\ L \in SUBSET Targets /\ v \in 1 .. Now
    BY <1>4
  <2>2. /\ a \in Aggregator(Now) /\ a.resets = agg.resets /\ DOMAIN a.states = DOMAIN agg.states
        /\ \A t \in DOMAIN agg.states : /\ a.states[t].out = agg.states[t].out
                                        /\ a.states[t].changes = agg.states[t].changes
        /\ \A t \in Active(agg, L) : a.states[t].token = v
        /\ EventTargets(a, L) = Active(agg, L)
        /\ \A t : IsActive(a, L, t) <=> t \in L /\ Out(agg, t) = 0
    BY <2>0, <2>1, NoChangeFacts
  <2> QED BY <2>2 DEF Ready, T
<1>6. told = Ready /\ wrong = Wrong /\ Ready \subseteq L \cap DOMAIN agg.states
  <2>1. v # 0
    BY <1>4
  <2>2. \A t : t \in told <=> t \in Ready
    <3> HIDE DEF T
    <3> QED BY <1>5, <2>1
  <2>3. wrong = Wrong /\ Ready \subseteq L \cap DOMAIN agg.states
    BY <1>5 DEF Wrong, Ready, Active
  <2> HIDE DEF told
  <2> QED BY <2>2, <2>3
<1>7. \A t \in DOMAIN agg.states : gone(t) = With(agg, t, "Removed") /\ new(t) = With(agg, t, "Added")
  BY <1>5 DEF With
<1> HIDE DEF a, T, told, wrong, gone, new
<1>8. /\ keys' \in [Targets -> SUBSET Docs]
      /\ \A t \in Targets : keys'[t] = IF t \in Ready THEN Shown(agg, keys, t) ELSE keys[t]
  <2>1. \A t \in Ready : (keys[t] \ gone(t)) \cup new(t) = Shown(agg, keys, t) /\ t \in DOMAIN agg.states
    BY <1>6, <1>7 DEF Shown
  <2>2. \A t \in Targets : keys'[t] = IF t \in Ready THEN Shown(agg, keys, t) ELSE keys[t]
    BY <1>2, <1>5, <2>1
  <2>3. \A t \in Targets : Shown(agg, keys, t) \in SUBSET Docs
    BY <1>4 DEF Shown, With
  <2>4. \A t \in Targets : keys'[t] \in SUBSET Docs
    BY <1>4, <2>2, <2>3
  <2>5. keys' = [t \in Targets |-> keys'[t]]
    BY <1>2
  <2> QED BY <2>2, <2>4, <2>5
<1>9. /\ L' = L /\ DOMAIN local' = L
      /\ \A t \in L : local'[t] = IF t \in Ready THEN v ELSE local[t]
      /\ \A t \in L : listens'[t] = IF t \in Wrong THEN 0 ELSE IF t \in Ready THEN v ELSE listens[t]
  <2>1. L' = DOMAIN listens'
    BY DEF L
  <2> QED BY <1>2, <1>5, <1>6, <2>1
<1>10. /\ token' \in [Targets -> 0 .. Now]
       /\ \A t \in Targets : \/ t \in Ready /\ token'[t] = v
                             \/ token'[t] = token[t] /\ (t \in Ready => agg.states[t].changes = NoChanges)
  <2>1. PICK kept \in SUBSET {t \in told : local[t] # 0 /\ a.states[t].changes = NoChanges} :
          token' = [t \in Targets |-> IF t \in told \ kept THEN a.states[t].token ELSE token[t]]
    BY <1>2
  <2>2. \A t \in kept : agg.states[t].changes = NoChanges
    BY <1>5, <1>6, <2>1
  <2>3. \A t \in Targets : token'[t] = IF t \in Ready \ kept THEN v ELSE token[t]
    BY <1>5, <1>6, <2>1
  <2>4. v \in 0 .. Now
    BY <1>4
  <2>5. \A t \in Targets : token'[t] \in 0 .. Now
    BY <1>4, <2>3, <2>4
  <2>6. token' = [t \in Targets |-> token'[t]]
    BY <2>1
  <2> QED BY <2>2, <2>3, <2>5, <2>6
<1>11. synced' \subseteq synced \cup Ready
  BY <1>2, <1>5
<1>12. /\ agg' \in Aggregator(Now) /\ agg'.resets = {} /\ DOMAIN agg'.states = DOMAIN agg.states \cup Wrong
       /\ \A t \in Targets : Out(agg', t) = Out(agg, t) + (IF t \in Wrong THEN 2 ELSE 0)
       /\ \A t \in DOMAIN agg'.states :
            agg'.states[t].changes = IF t \in DOMAIN agg.states \ Ready THEN agg.states[t].changes
                                     ELSE NoChanges
  <2>1. Wrong \in SUBSET Targets /\ agg' = RecordPendingTargetRequests(AfterEvent(a, L), Wrong, 2)
    BY <1>3, <1>4, <1>6 DEF Wrong
  <2>2. /\ agg' \in Aggregator(Now) /\ agg'.resets = {} /\ DOMAIN agg'.states = DOMAIN a.states \cup Wrong
        /\ \A t \in Targets : Out(agg', t) = Out(a, t) + (IF t \in Wrong THEN 2 ELSE 0)
        /\ \A t \in DOMAIN agg'.states :
             agg'.states[t].changes = IF t \in DOMAIN a.states \ EventTargets(a, L) THEN a.states[t].changes
                                      ELSE NoChanges
    BY <1>4, <1>5, <2>1, AfterFacts
  <2>3. EventTargets(a, L) = Ready
    BY <1>5 DEF T
  <2>4. \A t \in Targets : Out(a, t) = Out(agg, t)
    BY <1>5 DEF Out
  <2>5. \A t \in DOMAIN agg'.states :
          agg'.states[t].changes = IF t \in DOMAIN agg.states \ Ready THEN agg.states[t].changes
                                   ELSE NoChanges
    BY <1>5, <2>2, <2>3
  <2> QED BY <1>5, <2>2, <2>4, <2>5
<1>13. /\ asof' \in [Targets -> 0 .. Now]
       /\ \A t \in Targets : asof'[t] = IF t \in L /\ Out(agg, t) = 0 THEN v ELSE asof[t]
  <2>1. v \in 0 .. Now
    BY <1>4
  <2>2. \A t \in Targets : asof'[t] = IF t \in L /\ Out(agg, t) = 0 THEN v ELSE asof[t]
    BY <1>3, <1>5
  <2>3. asof' = [t \in Targets |-> asof'[t]]
    BY <1>3
  <2> QED BY <1>4, <2>1, <2>2, <2>3
<1>14. /\ requests' = requests \o Again(SetToSeq(Wrong))
       /\ stale' = (stale \cup Wrong)
                   \ {t \in Ready \ crossed : token'[t] = v /\ listens'[t] = v /\ keys'[t] = Result(t, v)}
  BY <1>3, <1>6
<1>15. Event(v)
  BY <1>4, <1>8, <1>9, <1>10, <1>11, <1>12, <1>13, <1>14 DEF Event
<1> QED BY <1>1, <1>15 DEF v

\* A snapshot of version v is taken.
Taking(v) ==
  /\ responses # <<>> /\ responses' = Tail(responses)
  /\ Head(responses).kind = "snapshot" /\ Head(responses).version = v
  /\ Event(v) /\ UNCHANGED <<serving, past, crossed>>

LEMMA TakingFacts ==
  ASSUME Rest, StreamOK, NEW v, Taking(v)
  PROVE  /\ IsOpen /\ Now \in Nat /\ Now' = Now /\ v \in 1 .. Now /\ L \subseteq Targets /\ L' = L
         /\ requests \in Seq(Request(Now)) /\ responses \in Seq(Message(Now))
         /\ Tail(responses) \in Seq(Message(Now))
         /\ Again(SetToSeq(Wrong)) \in Seq(Request(Now))
         /\ Ready \subseteq L \cap DOMAIN agg.states /\ Wrong \subseteq L
         /\ \A t : ~ IsAnswer(Head(responses), t) /\ ~ IsFilter(Head(responses), t)
<1>1. /\ IsOpen /\ Now \in Nat /\ Now' = Now /\ v \in 1 .. Now /\ L \subseteq Targets /\ L' = L
      /\ requests \in Seq(Request(Now)) /\ responses \in Seq(Message(Now)) /\ Tail(responses) \in Seq(Message(Now))
  BY BoundsAssumption, TailFacts
     DEF Rest, StreamOK, Silent, Types, PastOK, Now, Traffic, Taking, Event
<1>2. Ready \subseteq L \cap DOMAIN agg.states /\ Wrong \subseteq L
  BY DEF Ready, Active, Wrong
<1>3. Again(SetToSeq(Wrong)) \in Seq(Request(Now))
  <2>1. Wrong \in SUBSET Targets
    BY <1>1, <1>2
  <2>2. CASE Targets = {}
    <3>1. Wrong = {}
      BY <2>1, <2>2
    <3>2. SetToSeq(Wrong) = <<>>
      BY <3>1, SetToSeqFacts, FS_EmptySet
    <3> QED BY <3>2 DEF Again
  <2>3. CASE Targets # {}
    BY <1>1, <2>1, <2>3, AgainFacts
  <2> QED BY <2>2, <2>3
<1>4. \A t : ~ IsAnswer(Head(responses), t) /\ ~ IsFilter(Head(responses), t)
  BY DEF Taking, IsAnswer, IsFilter
<1> QED BY <1>1, <1>2, <1>3, <1>4

\* A target that the snapshot is about has no answer to wait for: what is shown of it
\* is its result at the version of the snapshot.
LEMMA ReadyFacts ==
  ASSUME Rest, StreamOK, NEW v, Taking(v), NEW t \in L \ crossed
  PROVE  /\ t \in Ready <=> Out(agg, t) = 0
         /\ t \in Ready <=> NoAsk(requests, t) /\ Quiet(responses, t, 1)
         /\ t \in Ready /\ t \notin stale \cup agg.resets => Shown(agg, keys, t) = Result(t, v)
<1>1. /\ IsOpen /\ Now \in Nat /\ v \in 1 .. Now /\ t \in Targets
      /\ requests \in Seq(Request(Now)) /\ responses \in Seq(Message(Now))
  BY TakingFacts
<1>2. Steady(t)
  BY <1>1 DEF Rest, InStep
<1>3. t \in DOMAIN agg.states /\ Out(agg, t) = Due(t, requests, responses)
  BY <1>2 DEF Steady, Counted
<1>4. t \in Ready <=> Out(agg, t) = 0
  BY <1>3 DEF Ready, Active, Out
<1>5. Due(t, requests, responses) = 0 <=> NoAsk(requests, t) /\ Quiet(responses, t, 1)
  BY <1>1, DueFacts
<1>6. ASSUME t \in Ready, t \notin stale \cup agg.resets
      PROVE  Shown(agg, keys, t) = Result(t, v)
  <2>1. NoAsk(requests, t) /\ Quiet(responses, t, 1)
    BY <1>3, <1>4, <1>5, <1>6
  <2>2. t \in DOMAIN serving
    BY <1>2, <2>1 DEF Steady, Answered
  <2>3. Told(past, responses, serving[t].at, keys[t], Shown(agg, keys, t), stale, agg.resets, t)
    BY <1>2, <2>1, <2>2 DEF Steady
  <2>4. Shown(agg, keys, t) = In(past, t, v)
    BY <1>1, <1>6, <2>1, <2>3, ToldFirst DEF Taking
  <2> QED BY <2>4 DEF In, Result
<1> QED BY <1>3, <1>4, <1>5, <1>6

LEMMA TakingTypes ==
  ASSUME Rest, StreamOK, NEW v, Taking(v)
  PROVE  Types' /\ Traffic'
<1>1. /\ Now \in Nat /\ Now' = Now /\ v \in 1 .. Now /\ L \subseteq Targets /\ L' = L
      /\ requests \in Seq(Request(Now)) /\ Tail(responses) \in Seq(Message(Now))
      /\ Again(SetToSeq(Wrong)) \in Seq(Request(Now))
      /\ Ready \subseteq L \cap DOMAIN agg.states /\ Wrong \subseteq L
  BY TakingFacts
<1>2. v \in 0 .. Now /\ 0 \in 0 .. Now
  BY <1>1
<1>3. PastOK'
  BY DEF Taking, Rest, Types, PastOK, Now
<1>4. /\ keys' \in [Targets -> SUBSET Docs] /\ token' \in [Targets -> 0 .. Now]
      /\ DOMAIN local' = L /\ synced' \subseteq L /\ asof' \in [Targets -> 0 .. Now]
  BY <1>1 DEF Taking, Event, Rest, Types
<1>5. \A t \in L : local'[t] \in 0 .. Now /\ listens'[t] \in 0 .. Now
  BY <1>2 DEF Taking, Event, Rest, Types
<1>6. stale' \subseteq Targets /\ crossed' = crossed /\ crossed \subseteq stale'
  BY <1>1 DEF Taking, Event, Rest, Types
<1>7. agg' \in Aggregator(Now)
  BY DEF Taking, Event
<1>8. Changes(agg', keys')
  <2>1. ASSUME NEW t \in DOMAIN agg'.states
        PROVE  With(agg', t, "Removed") \subseteq keys'[t] /\ With(agg', t, "Added") \cap keys'[t] = {}
    <3>1. CASE t \in DOMAIN agg.states \ Ready
      <4>1. agg'.states[t].changes = agg.states[t].changes /\ t \in Targets
        BY <2>1, <3>1, <1>7, AggregatorFacts DEF Taking, Event
      <4>2. keys'[t] = keys[t]
        BY <3>1, <4>1 DEF Taking, Event
      <4>3. With(agg', t, "Removed") = With(agg, t, "Removed") /\ With(agg', t, "Added") = With(agg, t, "Added")
        BY <4>1 DEF With
      <4>4. With(agg, t, "Removed") \subseteq keys[t] /\ With(agg, t, "Added") \cap keys[t] = {}
        BY <3>1 DEF Rest, Types, Changes
      <4> QED BY <4>2, <4>3, <4>4
    <3>2. CASE t \notin DOMAIN agg.states \ Ready
      <4>1. agg'.states[t].changes = NoChanges
        BY <2>1, <3>2 DEF Taking, Event
      <4>2. With(agg', t, "Removed") = {} /\ With(agg', t, "Added") = {}
        BY <4>1, FreshShown
      <4> QED BY <4>2
    <3> QED BY <3>1, <3>2
  <2> QED BY <2>1 DEF Changes
<1>9. Types'
  BY <1>1, <1>3, <1>4, <1>5, <1>6, <1>7, <1>8 DEF Types
<1>10. Traffic'
  <2>1. requests' = requests \o Again(SetToSeq(Wrong))
    BY DEF Taking, Event
  <2>2. requests \o Again(SetToSeq(Wrong)) \in Seq(Request(Now))
    BY <1>1, ConcatFacts
  <2>3. requests' \in Seq(Request(Now'))
    BY <1>1, <2>1, <2>2
  <2> QED BY <1>1, <2>3 DEF Taking, Rest, Traffic
<1> QED BY <1>9, <1>10

\* What the snapshot makes of a target that is not suspect after it.
LEMMA SettledFacts ==
  ASSUME Rest, StreamOK, NEW v, Taking(v), NEW t \in Targets \ stale'
  PROVE  \/ /\ t \in Ready \ crossed
            /\ token'[t] = v /\ listens'[t] = v /\ local'[t] = v /\ keys'[t] = Result(t, v)
         \/ /\ t \in Ready \ (crossed \cup stale \cup Wrong)
            /\ listens'[t] = v /\ local'[t] = v /\ keys'[t] = Result(t, v)
            /\ token'[t] = v \/ (token'[t] = token[t] /\ keys'[t] = keys[t])
         \/ /\ t \in Targets \ (crossed \cup stale \cup Wrong \cup Ready)
            /\ token'[t] = token[t] /\ keys'[t] = keys[t]
            /\ t \in L => listens'[t] = listens[t] /\ local'[t] = local[t]
<1>1. /\ Ready \subseteq L \cap DOMAIN agg.states /\ Wrong = agg.resets \cap L /\ L \subseteq Targets
      /\ crossed \subseteq stale
  BY TakingFacts DEF Wrong, Rest, Types
<1>2. /\ keys'[t] = IF t \in Ready THEN Shown(agg, keys, t) ELSE keys[t]
      /\ t \in L => /\ local'[t] = IF t \in Ready THEN v ELSE local[t]
                    /\ listens'[t] = IF t \in Wrong THEN 0 ELSE IF t \in Ready THEN v ELSE listens[t]
      /\ \/ t \in Ready /\ token'[t] = v
         \/ token'[t] = token[t] /\ (t \in Ready => agg.states[t].changes = NoChanges)
  BY DEF Taking, Event
<1>3. CASE t \in stale \cup Wrong
  <2>1. t \in Ready \ crossed /\ token'[t] = v /\ listens'[t] = v /\ keys'[t] = Result(t, v)
    BY <1>3 DEF Taking, Event
  <2> QED BY <1>1, <1>2, <2>1
<1>4. CASE t \notin stale \cup Wrong /\ t \notin Ready
  BY <1>1, <1>2, <1>4
<1>5. CASE t \notin stale \cup Wrong /\ t \in Ready
  <2>1. t \in L \ crossed /\ t \notin stale \cup agg.resets
    BY <1>1, <1>5
  <2>2. keys'[t] = Result(t, v) /\ keys'[t] = Shown(agg, keys, t)
    BY <1>2, <1>5, <2>1, ReadyFacts
  <2>3. agg.states[t].changes = NoChanges => Shown(agg, keys, t) = keys[t]
    BY FreshShown
  <2> QED BY <1>1, <1>2, <1>5, <2>1, <2>2, <2>3
<1> QED BY <1>3, <1>4, <1>5

LEMMA TakingKnown ==
  ASSUME Rest, StreamOK, NEW v, Taking(v)
  PROVE  Known'
<1>1. past' = past
  BY DEF Taking
<1>2. L' = L /\ L \subseteq Targets /\ synced' \subseteq L'
  BY TakingFacts, TakingTypes DEF Types
<1>3. ASSUME NEW t \in Targets \ stale' PROVE keys'[t] = Result(t, token'[t])
  BY <1>3, SettledFacts DEF Rest, Known
<1>4. ASSUME NEW t \in L \ stale' PROVE local'[t] = listens'[t] /\ keys'[t] = Result(t, listens'[t])
  <2>1. t \notin stale => local[t] = listens[t] /\ keys[t] = Result(t, listens[t])
    BY DEF Rest, Known
  <2>2. t \in Targets \ stale'
    BY <1>2
  <2> QED BY <2>1, <2>2, SettledFacts
<1>5. ASSUME NEW t \in synced' \ stale' PROVE keys'[t] = Result(t, asof'[t])
  <2>1. t \in L /\ t \in Targets
    BY <1>2
  <2>2. asof'[t] = IF Out(agg, t) = 0 THEN v ELSE asof[t]
    BY <2>1 DEF Taking, Event
  <2>3. CASE t \in Ready \ crossed
    <3>1. Out(agg, t) = 0
      BY <2>1, <2>3, ReadyFacts
    <3> QED BY <2>1, <2>2, <2>3, <3>1, SettledFacts
  <2>4. CASE t \notin Ready \ crossed
    <3>1. t \notin Ready \cup stale \cup crossed /\ keys'[t] = keys[t]
      BY <2>1, <2>4, SettledFacts
    <3>2. Out(agg, t) # 0
      BY <2>1, <3>1, ReadyFacts
    <3>3. t \in synced \ stale
      BY <3>1 DEF Taking, Event
    <3>4. keys[t] = Result(t, asof[t])
      BY <3>3 DEF Rest, Known
    <3> QED BY <2>2, <3>1, <3>2, <3>4
  <2> QED BY <2>3, <2>4
<1> QED BY <1>1, <1>2, <1>3, <1>4, <1>5 DEF Known, Result

LEMMA TakingCounts ==
  ASSUME Rest, StreamOK, NEW v, Taking(v), NEW t \in Targets \ crossed
  PROVE  /\ Counted(agg', requests', responses', L', t)
         /\ Asked(requests', listens', t)
         /\ Answered(requests', responses', L', DOMAIN serving', t)
         /\ NoAsk(requests', t) => NoAsk(requests, t) /\ t \notin Wrong
<1> DEFINE A == Again(SetToSeq(Wrong))
           r == Tail(responses)
<1>1. /\ IsOpen /\ Now \in Nat /\ L \subseteq Targets /\ L' = L
      /\ requests \in Seq(Request(Now)) /\ responses \in Seq(Message(Now))
      /\ r \in Seq(Message(Now)) /\ A \in Seq(Request(Now))
      /\ Ready \subseteq L \cap DOMAIN agg.states /\ Wrong \in SUBSET Targets /\ Wrong \subseteq L
      /\ ~ IsAnswer(Head(responses), t)
  BY TakingFacts
<1>2. /\ requests' = requests \o A /\ responses # <<>> /\ responses' = r /\ serving' = serving
      /\ Out(agg', t) = Out(agg, t) + (IF t \in Wrong THEN 2 ELSE 0)
      /\ DOMAIN agg'.states = DOMAIN agg.states \cup Wrong
      /\ t \in L => listens'[t] = IF t \in Wrong THEN 0 ELSE IF t \in Ready THEN v ELSE listens[t]
  BY DEF Taking, Event
<1>3. Steady(t)
  BY <1>1 DEF Rest, InStep
<1>4. /\ Count(A, RequestOf(t)) = IF t \in Wrong THEN 2 ELSE 0
      /\ t \notin Wrong <=> NoAsk(A, t)
      /\ \A j : LastAsk(A, t, j) => A[j] = Watch(t, 0)
  BY <1>1, AgainFacts
<1> HIDE DEF A, r
<1>5. Counted(agg, requests, r, L, t) /\ Answered(requests, r, L, DOMAIN serving, t)
  <2>1. t \in L => t \in DOMAIN agg.states
    BY <1>3 DEF Steady, Counted
  <2> QED BY <1>1, <1>2, <2>1, PassesBy DEF r
<1>6. requests \o A \in Seq(Request(Now))
  BY <1>1, ConcatFacts
<1>7. Counted(agg', requests \o A, r, L, t)
  <2>1. /\ Due(t, requests, r) = Count(requests, RequestOf(t)) + Count(r, AnswerOf(t))
        /\ Due(t, requests \o A, r) = Count(requests \o A, RequestOf(t)) + Count(r, AnswerOf(t))
    BY <1>1, <1>6, DueFacts
  <2>2. Count(requests \o A, RequestOf(t)) = Count(requests, RequestOf(t)) + Count(A, RequestOf(t))
    BY <1>1, CountConcat
  <2>3. /\ Count(requests, RequestOf(t)) \in Nat /\ Count(A, RequestOf(t)) \in Nat
        /\ Count(r, AnswerOf(t)) \in Nat
    BY <1>1, CountType
  <2>4. Out(agg, t) = Due(t, requests, r) /\ (t \in L => t \in DOMAIN agg.states)
    BY <1>5 DEF Counted
  <2>5. Out(agg', t) = Due(t, requests \o A, r)
    BY <1>2, <1>4, <2>1, <2>2, <2>3, <2>4
  <2> QED BY <1>2, <2>4, <2>5 DEF Counted
<1>8. /\ \A j : LastAsk(requests \o A, t, j) =>
           \/ LastAsk(A, t, j - Len(requests)) /\ (requests \o A)[j] = A[j - Len(requests)]
           \/ LastAsk(requests, t, j) /\ (requests \o A)[j] = requests[j] /\ NoAsk(A, t)
      /\ NoAsk(requests \o A, t) <=> NoAsk(requests, t) /\ NoAsk(A, t)
  BY <1>1, AskConcat
<1>9. Asked(requests \o A, listens', t)
  <2>1. ASSUME NEW j, LastAsk(requests \o A, t, j)
        PROVE  /\ (requests \o A)[j].kind = "watch" <=> t \in DOMAIN listens'
               /\ t \in DOMAIN listens' => (requests \o A)[j].token = listens'[t]
    <3>1. t \in DOMAIN listens' <=> t \in L
      BY <1>1 DEF L
    <3>2. CASE LastAsk(A, t, j - Len(requests)) /\ (requests \o A)[j] = A[j - Len(requests)]
      <4>1. (requests \o A)[j] = Watch(t, 0)
        BY <1>4, <3>2
      <4>2. t \in Wrong
        BY <1>4, <3>2 DEF LastAsk, NoAsk
      <4> QED BY <1>1, <1>2, <3>1, <4>1, <4>2 DEF Watch
    <3>3. CASE LastAsk(requests, t, j) /\ (requests \o A)[j] = requests[j] /\ NoAsk(A, t)
      <4>1. /\ requests[j].kind = "watch" <=> t \in L
            /\ t \in L => requests[j].token = listens[t]
        BY <1>3, <3>3 DEF Steady, Asked, L
      <4>2. t \notin Wrong
        BY <1>4, <3>3
      <4>3. ASSUME t \in Ready PROVE FALSE
        <5>1. NoAsk(requests, t)
          BY <1>1, <4>3, ReadyFacts
        <5> QED BY <3>3, <5>1 DEF LastAsk, NoAsk
      <4> QED BY <1>2, <3>1, <3>3, <4>1, <4>2, <4>3
    <3> QED BY <1>8, <2>1, <3>2, <3>3
  <2> QED BY <2>1 DEF Asked
<1>10. Answered(requests \o A, r, L, DOMAIN serving, t)
  BY <1>5, <1>8 DEF Answered
<1> QED BY <1>1, <1>2, <1>4, <1>7, <1>8, <1>9, <1>10

LEMMA SnapshotStep ==
  ASSUME Rest, StreamOK, OnSnapshot
  PROVE  Rest'
<1>1. PICK v : Taking(v)
  BY Snapshots DEF Taking
<1>2. /\ Now \in Nat /\ L \subseteq Targets /\ L' = L /\ responses \in Seq(Message(Now))
      /\ Tail(responses) \in Seq(Message(Now)) /\ Wrong = agg.resets \cap L /\ IsOpen
      /\ Ready \subseteq L \cap DOMAIN agg.states
      /\ \A t : ~ IsAnswer(Head(responses), t) /\ ~ IsFilter(Head(responses), t)
  BY <1>1, TakingFacts DEF Wrong
<1>3. /\ responses # <<>> /\ responses' = Tail(responses) /\ serving' = serving /\ past' = past
      /\ crossed' = crossed /\ Head(responses).kind = "snapshot" /\ Head(responses).version = v
      /\ agg'.resets = {}
      /\ stale' = (stale \cup Wrong)
                  \ {t \in Ready \ crossed : token'[t] = v /\ listens'[t] = v /\ keys'[t] = Result(t, v)}
  BY <1>1 DEF Taking, Event
<1>4. ASSUME NEW t \in Targets \ crossed PROVE Steady(t)'
  <2>1. Steady(t)
    BY <1>2 DEF Rest, InStep
  <2>2. /\ Counted(agg', requests', responses', L', t)
        /\ Asked(requests', listens', t)
        /\ Answered(requests', responses', L', DOMAIN serving', t)
        /\ NoAsk(requests', t) => NoAsk(requests, t) /\ t \notin Wrong
    BY <1>1, TakingCounts
  <2>3. ASSUME t \in L \cap DOMAIN serving, NoAsk(requests', t)
        PROVE  Told(past, Tail(responses), serving[t].at, keys'[t], Shown(agg', keys', t), stale', {}, t)
    <3> DEFINE m == Head(responses)
               r == Tail(responses)
               s == Shown(agg, keys, t)
               s2 == Shown(agg', keys', t)
    <3>1. NoAsk(requests, t) /\ t \notin Wrong /\ t \notin agg.resets
      BY <1>2, <2>2, <2>3
    <3>2. Told(past, responses, serving[t].at, keys[t], s, stale, agg.resets, t)
      BY <2>1, <2>3, <3>1 DEF Steady
    <3>3. Quiet(r, t, 1) => Quiet(responses, t, 1)
      BY <1>2, <1>3, QuietTail
    <3>4. t \in Ready <=> Quiet(responses, t, 1)
      BY <1>1, <2>3, <3>1, ReadyFacts
    <3>5. t \in Targets /\ (keys'[t] = IF t \in Ready THEN s ELSE keys[t])
      BY <1>1 DEF Taking, Event
    <3>6. Quiet(r, t, 1) \/ (t \notin stale' => t \notin stale /\ keys'[t] = keys[t])
      <4>1. Quiet(responses, t, 1) => Quiet(r, t, 1)
        <5>1. 1 \in 1 .. Len(responses) /\ \A j \in DOMAIN responses : j >= 1 + 1 => j >= 1
          BY <1>2, <1>3, TailFacts
        <5>2. Quiet(r, t, 1) <=> Quiet(responses, t, 1 + 1)
          BY <1>2, <1>3, <5>1, QuietTail
        <5> QED BY <5>1, <5>2 DEF Quiet
      <4> QED BY <1>3, <3>4, <3>5, <4>1
    <3>7. ASSUME Quiet(r, t, 1), t \notin stale', NEW x \in SUBSET Docs, NEW y \in SUBSET Docs,
                 Passes(past, m, t, keys[t], s, stale, agg.resets, x, y)
          PROVE  s2 = y
      <4>1. t \in Ready /\ keys'[t] = s
        BY <3>3, <3>4, <3>5, <3>7
      <4>2. y = x /\ x = In(past, t, v) /\ (t \notin stale => x = s)
        BY <1>2, <1>3, <3>1, <3>7 DEF Passes, Brings, IsCurrent
      <4>3. t \in stale => s = In(past, t, v)
        BY <1>3, <3>7, <4>1 DEF Result, In
      <4>4. s2 = keys'[t]
        <5>1. agg'.states[t].changes = NoChanges
          BY <1>1, <1>2, <4>1 DEF Taking, Event
        <5> QED BY <5>1, FreshShown
      <4> QED BY <4>1, <4>2, <4>3, <4>4
    <3> HIDE DEF m, r, s, s2
    <3>8. /\ IsFilter(Head(responses), t) /\ Quiet(responses, t, 1) => t \in stale' \cup {}
          /\ Quiet(Tail(responses), t, 1) /\ t \notin stale' \cup {} =>
               \A x, y \in SUBSET Docs :
                 Passes(past, Head(responses), t, keys[t], s, stale, agg.resets, x, y) => s2 = y
      BY <1>2, <3>7 DEF m, r
    <3>9. Told(past, Tail(responses), serving[t].at, keys'[t], s2, stale', {}, t)
      BY <1>2, <1>3, <3>2, <3>6, <3>8, ToldTail DEF r
    <3> QED BY <3>9 DEF s2
  <2> QED BY <1>2, <1>3, <2>2, <2>3 DEF Steady
<1>5. InStep'
  BY <1>3, <1>4 DEF InStep
<1>6. Types' /\ Traffic' /\ Known'
  BY <1>1, TakingTypes, TakingKnown
<1> QED BY <1>5, <1>6 DEF Rest

-----------------------------------------------------------------------------
(* The backend answers the first request.                                   *)
Answering(m) ==
  /\ IsOpen /\ requests # <<>> /\ requests' = Tail(requests) /\ responses' = responses \o <<m>>
  /\ m \in Message(Now) /\ IsAnswer(m, Head(requests).t)
  /\ m.kind = "removed" <=> Head(requests).kind = "unwatch"
  /\ DOMAIN serving' \subseteq Targets
  /\ \A t \in DOMAIN serving' : serving'[t] \in [at : 0 .. Now, is : {"added", "ready", "told"}]
  /\ \A t \in Targets : t # Head(requests).t =>
       /\ t \in DOMAIN serving' <=> t \in DOMAIN serving
       /\ t \in DOMAIN serving => serving'[t] = serving[t]
  /\ m.kind = "added" => /\ Head(requests).t \in DOMAIN serving'
                         /\ serving'[Head(requests).t].at = Head(requests).token
  /\ UNCHANGED <<disk, listening, stream, agg, past, asof, stale, crossed>>

LEMMA AnsweringFacts ==
  ASSUME Rest, NEW m, Answering(m)
  PROVE  /\ Now \in Nat /\ Now' = Now /\ L' = L /\ IsOpen
         /\ requests \in Seq(Request(Now)) /\ Tail(requests) \in Seq(Request(Now))
         /\ responses \in Seq(Message(Now)) /\ <<m>> \in Seq(Message(Now))
         /\ responses \o <<m>> \in Seq(Message(Now))
         /\ m \in Message(Now) /\ m.kind \in {"added", "removed", "refused"}
         /\ Head(requests) \in Request(Now) /\ Head(requests) = requests[1]
         /\ UNCHANGED <<keys, token, local, listens, synced>>
<1>1. /\ Now \in Nat /\ Now' = Now /\ L' = L /\ IsOpen /\ requests \in Seq(Request(Now)) /\ requests # <<>>
      /\ responses \in Seq(Message(Now)) /\ m \in Message(Now) /\ m.kind \in {"added", "removed", "refused"}
      /\ UNCHANGED <<keys, token, local, listens, synced>>
  BY BoundsAssumption DEF Rest, Types, PastOK, Traffic, Answering, Now, L, IsAnswer, disk, listening
<1>2. <<m>> \in Seq(Message(Now))
  BY <1>1
<1>3. responses \o <<m>> \in Seq(Message(Now))
  BY <1>1, <1>2, ConcatFacts
<1>4. Tail(requests) \in Seq(Request(Now)) /\ Head(requests) \in Request(Now) /\ Head(requests) = requests[1]
  BY <1>1, TailFacts
<1> QED BY <1>1, <1>2, <1>3, <1>4

\* The message m comes after those of r.
LEMMA AnsweredMore ==
  ASSUME NEW M, NEW r \in Seq(M), NEW m \in M, NEW q, NEW q2, NEW l, NEW w, NEW w2, NEW t,
         IsAnswer(m, t) /\ NoAsk(q2, t) =>
           (m.kind = "removed" <=> t \notin l) /\ (m.kind = "added" => t \in w2),
         ~ IsAnswer(m, t) =>
           Answered(q, r, l, w, t) /\ (NoAsk(q2, t) => NoAsk(q, t)) /\ (t \in w => t \in w2)
  PROVE  Answered(q2, r \o <<m>>, l, w2, t)
<1> DEFINE b == <<m>>
<1>1. b \in Seq(M) /\ DOMAIN b = {1} /\ b[1] = m
  OBVIOUS
<1> HIDE DEF b
<1>2. Quiet(b, t, 1) <=> ~ IsAnswer(m, t)
  BY <1>1 DEF Quiet
<1>3. Quiet(r \o b, t, 1) => Quiet(r, t, 1) /\ ~ IsAnswer(m, t)
  <2>1. 1 \in 1 .. Len(r) + 1
    BY LenProperties
  <2> QED BY <1>1, <1>2, <2>1, QuietConcat
<1>4. ASSUME NoAsk(q2, t), NEW j, LastAnswer(r \o b, t, j)
      PROVE  /\ (r \o b)[j].kind = "removed" <=> t \notin l
             /\ (r \o b)[j].kind = "added" => t \in w2
  <2>1. \/ LastAnswer(b, t, j - Len(r)) /\ (r \o b)[j] = b[j - Len(r)]
        \/ LastAnswer(r, t, j) /\ (r \o b)[j] = r[j] /\ Quiet(b, t, 1)
    BY <1>1, <1>4, QuietConcat
  <2>2. LastAnswer(b, t, j - Len(r)) => b[j - Len(r)] = m /\ IsAnswer(m, t)
    BY <1>1 DEF LastAnswer
  <2>3. ASSUME ~ IsAnswer(m, t), LastAnswer(r, t, j)
        PROVE  (r[j].kind = "removed" <=> t \notin l) /\ (r[j].kind = "added" => t \in w2)
    BY <1>4, <2>3 DEF Answered
  <2> QED BY <1>2, <1>4, <2>1, <2>2, <2>3
<1>5. ASSUME NoAsk(q2, t), Quiet(r \o b, t, 1), t \in l
      PROVE  t \in w2
  BY <1>3, <1>5 DEF Answered
<1> QED BY <1>4, <1>5 DEF Answered, b

\* The count is right and the last request says what it said, of every target.
LEMMA AnsweringCounts ==
  ASSUME Rest, NEW m, Answering(m), NEW t \in Targets \ crossed
  PROVE  /\ Counted(agg', requests', responses', L', t)
         /\ Asked(requests', listens', t)
<1>1. Steady(t)
  BY DEF Rest, InStep, Answering
<1>2. Due(t, Tail(requests), responses \o <<m>>) = Due(t, requests, responses)
  <2>1. /\ Now \in Nat /\ requests \in Seq(Request(Now)) /\ responses \in Seq(Message(Now))
        /\ m \in Message(Now) /\ requests # <<>> /\ IsAnswer(m, Head(requests).t)
    BY AnsweringFacts DEF Answering
  <2> QED BY <2>1, DueServed
<1>3. Counted(agg', requests', responses', L', t)
  <2>1. /\ agg' = agg /\ requests' = Tail(requests) /\ responses' = responses \o <<m>> /\ L' = L
    BY AnsweringFacts DEF Answering
  <2>2. Counted(agg, Tail(requests), responses \o <<m>>, L, t)
    BY <1>1, <1>2 DEF Steady, Counted
  <2> QED BY <2>1, <2>2
<1>4. Asked(Tail(requests), listens, t)
  <2>1. \A j : LastAsk(Tail(requests), t, j) =>
           LastAsk(requests, t, j + 1) /\ Tail(requests)[j] = requests[j + 1]
    <3>1. requests \in Seq(Request(Now)) /\ requests # <<>>
      BY AnsweringFacts DEF Answering
    <3> QED BY <3>1, AskTail
  <2> QED BY <1>1, <2>1 DEF Steady, Asked
<1> QED BY <1>3, <1>4, AnsweringFacts DEF Answering

LEMMA AnsweringOthers ==
  ASSUME Rest, NEW m, Answering(m), NEW t \in Targets \ crossed, t # Head(requests).t
  PROVE  Steady(t)'
<1> DEFINE b == <<m>>
<1>1. /\ Now \in Nat /\ L' = L /\ requests \in Seq(Request(Now)) /\ responses \in Seq(Message(Now))
      /\ b \in Seq(Message(Now)) /\ m \in Message(Now) /\ m.kind \in {"added", "removed", "refused"}
      /\ UNCHANGED <<keys, listens, agg, past, stale>>
  BY AnsweringFacts DEF Answering
<1>2. /\ requests # <<>> /\ requests' = Tail(requests) /\ responses' = responses \o b /\ ~ IsAnswer(m, t)
      /\ t \in DOMAIN serving' <=> t \in DOMAIN serving
      /\ t \in DOMAIN serving => serving'[t] = serving[t]
  BY DEF Answering, IsAnswer
<1>3. Steady(t)
  BY DEF Rest, InStep, Answering
<1>4. NoAsk(Tail(requests), t) => NoAsk(requests, t)
  BY <1>1, <1>2, AskTail
<1>5. Answered(Tail(requests), responses \o <<m>>, L, DOMAIN serving', t)
  BY <1>1, <1>2, <1>3, <1>4, AnsweredMore DEF Steady
<1> HIDE DEF b
<1>6. ASSUME t \in L \cap DOMAIN serving, NoAsk(Tail(requests), t)
      PROVE  Told(past, responses \o b, serving[t].at, keys[t], Shown(agg, keys, t), stale, agg.resets, t)
  <2>1. Told(past, responses, serving[t].at, keys[t], Shown(agg, keys, t), stale, agg.resets, t)
    BY <1>3, <1>4, <1>6 DEF Steady
  <2>2. serving[t].at \in 0 .. Now /\ PastOK
    BY <1>6 DEF Rest, Types, Traffic
  <2>3. In(past, t, serving[t].at) \in SUBSET Docs
    BY <2>2, ResultType
  <2>4. Moves(past, <<m>>, t, In(past, t, serving[t].at), In(past, t, serving[t].at))
    <3>1. /\ In(past, t, serving[t].at) = Brings(past, m, t, In(past, t, serving[t].at))
          /\ ~ IsFilter(m, t) /\ m.kind # "snapshot" /\ ~ IsCurrent(m, t)
      BY <1>1 DEF Brings, IsFilter, IsCurrent
    <3> QED BY <1>2, <2>3, <3>1, MovesOne
  <2> QED BY <1>1, <2>1, <2>4, ToldMore DEF b
<1>7. Counted(agg', requests', responses', L', t) /\ Asked(requests', listens', t)
  BY AnsweringCounts
<1> QED BY <1>1, <1>2, <1>5, <1>6, <1>7 DEF Steady, b

LEMMA AnsweringTarget ==
  ASSUME Rest, NEW m, Answering(m), NEW t \in Targets \ crossed, t = Head(requests).t
  PROVE  Steady(t)'
<1> DEFINE b == <<m>>
<1>1. /\ Now \in Nat /\ L' = L /\ requests \in Seq(Request(Now)) /\ responses \in Seq(Message(Now))
      /\ b \in Seq(Message(Now)) /\ m \in Message(Now) /\ m.kind \in {"added", "removed", "refused"}
      /\ UNCHANGED <<keys, listens, agg, past, stale>> /\ Head(requests) = requests[1]
      /\ Head(requests) \in Request(Now)
  BY AnsweringFacts DEF Answering
<1>2. /\ requests # <<>> /\ requests' = Tail(requests) /\ responses' = responses \o b /\ IsAnswer(m, t)
      /\ m.kind = "removed" <=> Head(requests).kind = "unwatch"
      /\ m.kind = "added" => t \in DOMAIN serving' /\ serving'[t].at = Head(requests).token
      /\ \A u \in DOMAIN serving' : serving'[u] \in [at : 0 .. Now, is : {"added", "ready", "told"}]
  BY DEF Answering
<1>3. Steady(t)
  BY DEF Rest, InStep, Answering
<1>4. NoAsk(Tail(requests), t) =>
        /\ Head(requests).kind = "watch" <=> t \in L
        /\ t \in L => Head(requests).token = listens[t]
  <2>1. NoAsk(Tail(requests), t) => LastAsk(requests, t, 1)
    BY <1>1, <1>2, AskTail
  <2> QED BY <1>1, <1>3, <2>1 DEF Steady, Asked, L
<1>5. Answered(Tail(requests), responses \o <<m>>, L, DOMAIN serving', t)
  <2>1. Head(requests).kind \in {"watch", "unwatch"}
    BY <1>1 DEF Request
  <2> QED BY <1>1, <1>2, <1>4, <2>1, AnsweredMore
<1> HIDE DEF b
<1>6. ASSUME t \in L \cap DOMAIN serving', NoAsk(Tail(requests), t)
      PROVE  Told(past, responses \o b, serving'[t].at, keys[t], Shown(agg, keys, t), stale, agg.resets, t)
  <2>1. serving'[t].at \in 0 .. Now /\ PastOK
    BY <1>2, <1>6 DEF Rest, Types
  <2>2. In(past, t, serving'[t].at) \in SUBSET Docs
    BY <2>1, ResultType
  <2>3. m.kind = "added" /\ t \notin stale => In(past, t, serving'[t].at) = keys[t]
    <3>1. t \notin stale => keys[t] = Result(t, listens[t])
      BY <1>6 DEF Rest, Known
    <3> QED BY <1>2, <1>4, <1>6, <3>1 DEF Result, In
  <2> QED BY <1>1, <1>2, <2>2, <2>3, ToldAnswer DEF b
<1>7. Counted(agg', requests', responses', L', t) /\ Asked(requests', listens', t)
  BY AnsweringCounts
<1> QED BY <1>1, <1>2, <1>5, <1>6, <1>7 DEF Steady, b

LEMMA AnsweringStep ==
  ASSUME Rest, NEW m, Answering(m)
  PROVE  Rest'
<1>1. Types'
  BY AnsweringFacts DEF Answering, Rest, Types, PastOK
<1>2. Known'
  BY AnsweringFacts DEF Answering, Rest, Known, Result
<1>3. Traffic'
  BY AnsweringFacts DEF Answering, Traffic
<1>4. InStep'
  <2>1. crossed' = crossed
    BY DEF Answering
  <2> QED BY <2>1, AnsweringOthers, AnsweringTarget DEF InStep
<1> QED BY <1>1, <1>2, <1>3, <1>4 DEF Rest

LEMMA ServingSteps ==
  ASSUME Rest, ServesWatch \/ ServesUnwatch \/ Refuses
  PROVE  Rest'
<1> DEFINE q == Head(requests)
<1>1. /\ Now \in Nat /\ requests # <<>> /\ IsOpen /\ requests' = Tail(requests) /\ q \in Request(Now)
      /\ UNCHANGED <<disk, listening, stream, agg, past, asof, stale, crossed>>
      /\ DOMAIN serving \subseteq Targets
      /\ \A t \in DOMAIN serving : serving[t] \in [at : 0 .. Now, is : {"added", "ready", "told"}]
  <2>1. /\ requests # <<>> /\ IsOpen /\ requests' = Tail(requests)
        /\ UNCHANGED <<disk, listening, stream, agg, past, asof, stale, crossed>>
    BY DEF ServesWatch, ServesUnwatch, Refuses, Emits
  <2> QED BY <2>1, BoundsAssumption, TailFacts DEF Rest, Types, PastOK, Traffic
<1>2. q.t \in Targets /\ q.token \in 0 .. Now
  BY <1>1 DEF Request
<1>3. ASSUME NEW k \in {"added", "removed", "refused"}
      PROVE  About(k, q.t) \in Message(Now) /\ IsAnswer(About(k, q.t), q.t) /\ About(k, q.t).kind = k
  BY <1>2 DEF About, Message, IsAnswer
<1>4. \E m : Answering(m)
  <2>1. CASE ServesWatch
    <3>1. /\ q.kind = "watch" /\ responses' = responses \o <<About("added", q.t)>>
          /\ serving' = Bind(serving, q.t, [at |-> q.token, is |-> "added"])
      BY <2>1 DEF ServesWatch, Emits
    <3>2. /\ DOMAIN serving' = DOMAIN serving \cup {q.t}
          /\ serving'[q.t] = [at |-> q.token, is |-> "added"]
          /\ \A t \in DOMAIN serving \ {q.t} : serving'[t] = serving[t]
      BY <3>1 DEF Bind
    <3> HIDE DEF q
    <3>3. Answering(About("added", q.t))
      BY <1>1, <1>2, <1>3, <3>1, <3>2 DEF Answering, q
    <3> QED BY <3>3
  <2>2. CASE ServesUnwatch
    <3>1. /\ q.kind = "unwatch" /\ responses' = responses \o <<About("removed", q.t)>>
          /\ serving' = [t \in DOMAIN serving \ {q.t} |-> serving[t]]
      BY <2>2 DEF ServesUnwatch, Emits
    <3>2. Answering(About("removed", q.t))
      BY <1>1, <1>2, <1>3, <3>1 DEF Answering
    <3> QED BY <3>2
  <2>3. CASE Refuses
    <3>1. /\ q.kind = "watch" /\ responses' = responses \o <<About("refused", q.t)>> /\ serving' = serving
      BY <2>3 DEF Refuses, Emits
    <3>2. Answering(About("refused", q.t))
      BY <1>1, <1>2, <1>3, <3>1 DEF Answering
    <3> QED BY <3>2
  <2> QED BY <2>1, <2>2, <2>3
<1> QED BY <1>4, AnsweringStep

-----------------------------------------------------------------------------
(* The backend tells of what is new.                                        *)
Telling(b) ==
  /\ IsOpen /\ b \in Seq(Message(Now)) /\ responses' = responses \o b
  /\ DOMAIN serving' = DOMAIN serving
  /\ \A t \in DOMAIN serving : serving'[t] \in [at : 0 .. Now, is : {"added", "ready", "told"}]
  /\ \A t \in Targets : Quiet(b, t, 1)
  /\ \A t \in DOMAIN serving :
       Moves(past, b, t, In(past, t, serving[t].at), In(past, t, serving'[t].at))
  /\ UNCHANGED <<disk, listening, stream, agg, requests, past, asof, stale, crossed>>

LEMMA AnsweredThrough ==
  ASSUME NEW M, NEW r \in Seq(M), NEW b \in Seq(M), NEW q, NEW l, NEW w, NEW t,
         Answered(q, r, l, w, t), Quiet(b, t, 1)
  PROVE  Answered(q, r \o b, l, w, t)
<1>1. Quiet(r \o b, t, 1) => Quiet(r, t, 1)
  <2>1. 1 \in 1 .. Len(r) + 1
    BY LenProperties
  <2> QED BY <2>1, QuietConcat
<1>2. ASSUME NoAsk(q, t), NEW j, LastAnswer(r \o b, t, j)
      PROVE  /\ (r \o b)[j].kind = "removed" <=> t \notin l
             /\ (r \o b)[j].kind = "added" => t \in w
  <2>1. \/ LastAnswer(b, t, j - Len(r)) /\ (r \o b)[j] = b[j - Len(r)]
        \/ LastAnswer(r, t, j) /\ (r \o b)[j] = r[j] /\ Quiet(b, t, 1)
    BY <1>2, QuietConcat
  <2>2. ~ LastAnswer(b, t, j - Len(r))
    <3>1. \A i \in DOMAIN b : i >= 1
      BY LenProperties
    <3> QED BY <3>1 DEF Quiet, LastAnswer
  <2>3. ASSUME LastAnswer(r, t, j)
        PROVE  (r[j].kind = "removed" <=> t \notin l) /\ (r[j].kind = "added" => t \in w)
    BY <1>2, <2>3 DEF Answered
  <2> QED BY <2>1, <2>2, <2>3
<1> QED BY <1>1, <1>2 DEF Answered

LEMMA TellingStep ==
  ASSUME Rest, NEW b, Telling(b)
  PROVE  Rest'
<1>1. /\ Now \in Nat /\ Now' = Now /\ L' = L /\ IsOpen
      /\ requests \in Seq(Request(Now)) /\ responses \in Seq(Message(Now)) /\ b \in Seq(Message(Now))
      /\ responses' = responses \o b
      /\ UNCHANGED <<keys, token, local, listens, synced, agg, requests, past, asof, stale, crossed>>
  BY BoundsAssumption DEF Rest, Types, PastOK, Traffic, Telling, Now, L, disk, listening
<1>2. responses \o b \in Seq(Message(Now))
  BY <1>1, ConcatFacts
<1>3. Types'
  BY <1>1 DEF Rest, Types, PastOK
<1>4. Known'
  BY <1>1 DEF Rest, Known, Result
<1>5. Traffic'
  BY <1>1, <1>2 DEF Rest, Traffic, Telling
<1>6. ASSUME NEW t \in Targets \ crossed PROVE Steady(t)'
  <2>1. Steady(t) /\ Quiet(b, t, 1)
    BY <1>1 DEF Rest, InStep, Telling
  <2>2. Counted(agg, requests, responses \o b, L, t)
    <3>1. Due(t, requests, responses \o b) = Due(t, requests, responses)
      BY <1>1, <2>1, DueMore
    <3> QED BY <2>1, <3>1 DEF Steady, Counted
  <2>3. Asked(requests, listens, t)
    BY <2>1 DEF Steady
  <2>4. Answered(requests, responses \o b, L, DOMAIN serving, t)
    BY <1>1, <2>1, AnsweredThrough DEF Steady
  <2>5. ASSUME t \in L \cap DOMAIN serving, NoAsk(requests, t)
        PROVE  Told(past, responses \o b, serving'[t].at, keys[t], Shown(agg, keys, t), stale, agg.resets, t)
    <3>1. Told(past, responses, serving[t].at, keys[t], Shown(agg, keys, t), stale, agg.resets, t)
      BY <2>1, <2>5 DEF Steady
    <3>2. Moves(past, b, t, In(past, t, serving[t].at), In(past, t, serving'[t].at))
      BY <2>5 DEF Telling
    <3> QED BY <1>1, <3>1, <3>2, ToldMore
  <2>6. DOMAIN serving' = DOMAIN serving
    BY DEF Telling
  <2> QED BY <1>1, <2>2, <2>3, <2>4, <2>5, <2>6 DEF Steady
<1>7. InStep'
  BY <1>1, <1>6 DEF InStep
<1> QED BY <1>3, <1>4, <1>5, <1>7 DEF Rest

\* Target u is told by the messages b, and the others of nothing.
LEMMA TellsOne ==
  ASSUME Rest, IsOpen, NEW u \in DOMAIN serving, NEW b \in Seq(Message(Now)), responses' = responses \o b,
         serving' = [serving EXCEPT ![u] = [at |-> Now, is |-> "ready"]],
         \A t \in Targets \ {u}, x \in SUBSET Docs : Moves(past, b, t, x, x),
         Moves(past, b, u, In(past, u, serving[u].at), In(past, u, Now)),
         UNCHANGED <<disk, listening, stream, agg, requests, past, asof, stale, crossed>>
  PROVE  Rest'
<1>1. /\ DOMAIN serving' = DOMAIN serving /\ serving'[u] = [at |-> Now, is |-> "ready"]
      /\ \A t \in DOMAIN serving \ {u} : serving'[t] = serving[t]
      /\ DOMAIN serving \subseteq Targets /\ Now \in 0 .. Now /\ PastOK
      /\ \A t \in DOMAIN serving : serving[t] \in [at : 0 .. Now, is : {"added", "ready", "told"}]
  BY ResultType DEF Rest, Traffic, Types
<1>2. \A t \in DOMAIN serving : serving'[t] \in [at : 0 .. Now, is : {"added", "ready", "told"}]
  BY <1>1
<1>3. \A t \in Targets : Quiet(b, t, 1)
  <2>1. {} \in SUBSET Docs
    OBVIOUS
  <2> QED BY <2>1 DEF Moves
<1>4. ASSUME NEW t \in DOMAIN serving
      PROVE  Moves(past, b, t, In(past, t, serving[t].at), In(past, t, serving'[t].at))
  <2>1. CASE t = u
    BY <1>1, <2>1
  <2>2. CASE t # u
    <3>1. serving[t].at \in 0 .. Now /\ serving'[t] = serving[t] /\ t \in Targets \ {u}
      BY <1>1, <2>2
    <3>2. In(past, t, serving[t].at) \in SUBSET Docs
      BY <1>1, <3>1, ResultType
    <3> QED BY <3>1, <3>2
  <2> QED BY <2>1, <2>2
<1>5. Telling(b)
  BY <1>1, <1>2, <1>3, <1>4 DEF Telling
<1> QED BY <1>5, TellingStep

\* One message about target u is none for the others.
LEMMA MovesPast ==
  ASSUME NEW p, NEW m, NEW t, m.kind \in {"reset", "current", "filter"}, m.t # t, NEW x \in SUBSET Docs
  PROVE  Moves(p, <<m>>, t, x, x)
<1>1. /\ x = Brings(p, m, t, x) /\ ~ IsAnswer(m, t) /\ ~ IsFilter(m, t)
      /\ m.kind # "snapshot" /\ ~ IsCurrent(m, t)
  BY DEF Brings, IsAnswer, IsFilter, IsCurrent
<1> QED BY <1>1, MovesOne

\* CURRENT, when the documents are those of the version.
LEMMA MovesCurrent ==
  ASSUME PastOK, NEW t \in Targets
  PROVE  /\ Current(t) \in Message(Now) /\ Current(t).kind = "current" /\ Current(t).t = t
         /\ Moves(past, <<Current(t)>>, t, In(past, t, Now), In(past, t, Now))
<1> DEFINE m == Current(t)
<1>1. Now \in 1 .. Now /\ Now # 0 /\ Now \in 0 .. Now
  BY ResultType
<1>2. m \in Message(Now) /\ m.kind = "current" /\ m.t = t /\ m.version = Now
  BY <1>1 DEF Current, Message
<1>3. In(past, t, Now) \in SUBSET Docs
  BY <1>1, ResultType
<1> HIDE DEF m
<1>4. /\ In(past, t, Now) = Brings(past, m, t, In(past, t, Now))
      /\ ~ IsAnswer(m, t) /\ ~ IsFilter(m, t) /\ m.kind # "snapshot"
  BY <1>2 DEF Brings, IsAnswer, IsFilter, IsCurrent
<1>5. Moves(past, <<m>>, t, In(past, t, Now), In(past, t, Now))
  BY <1>3, <1>4, MovesOne
<1> QED BY <1>2, <1>5 DEF m

\* A target is told of what is new, and that it is current.
LEMMA CatchesUpStep ==
  ASSUME Rest, NEW u \in Targets, CatchesUp(u)
  PROVE  Rest'
<1> DEFINE at == serving[u].at
           B == [v \in {u} |-> Result(v, at)]
           U == Updates({u}, B, {})
           c == <<Current(u)>>
<1>1. /\ u \in DOMAIN serving /\ IsOpen /\ responses' = responses \o (U \o c)
      /\ serving' = [serving EXCEPT ![u] = [at |-> Now, is |-> "ready"]]
      /\ UNCHANGED <<disk, listening, stream, agg, requests, past, asof, stale, crossed>>
  BY DEF CatchesUp, Emits
<1>2. PastOK /\ at \in 0 .. Now /\ Now \in 0 .. Now
  <2>1. PastOK /\ serving[u] \in [at : 0 .. Now, is : {"added", "ready", "told"}]
    BY <1>1 DEF Rest, Types, Traffic
  <2> QED BY <2>1, ResultType
<1>3. /\ Result(u, at) = In(past, u, at) /\ Result(u, Now) = In(past, u, Now)
      /\ In(past, u, at) \in SUBSET Docs /\ In(past, u, Now) \in SUBSET Docs
  BY <1>2, ResultType
<1>4. B[u] = Result(u, at) /\ {u} \in SUBSET Targets
  OBVIOUS
<1> HIDE DEF B
<1>5. /\ U \in Seq(Message(Now))
      /\ \A t \in Targets \ {u}, x \in SUBSET Docs : Moves(past, U, t, x, x)
      /\ \A x \in SUBSET Docs : B[u] \subseteq x =>
           Moves(past, U, u, x, (x \ (B[u] \ Result(u, Now))) \cup Result(u, Now))
  <2>1. u \in {u}
    OBVIOUS
  <2> QED BY <1>2, <1>4, <2>1, UpdatesFacts
<1>6. Moves(past, U, u, In(past, u, at), In(past, u, Now))
  <2>1. (In(past, u, at) \ (B[u] \ Result(u, Now))) \cup Result(u, Now) = In(past, u, Now)
    BY <1>3, <1>4
  <2>2. B[u] \subseteq In(past, u, at)
    BY <1>3, <1>4
  <2>3. Moves(past, U, u, In(past, u, at), (In(past, u, at) \ (B[u] \ Result(u, Now))) \cup Result(u, Now))
    BY <1>3, <1>5, <2>2
  <2> QED BY <2>1, <2>3
<1>7. /\ c \in Seq(Message(Now)) /\ Moves(past, c, u, In(past, u, Now), In(past, u, Now))
      /\ \A t \in Targets \ {u}, x \in SUBSET Docs : Moves(past, c, t, x, x)
  <2>1. /\ Current(u) \in Message(Now) /\ Current(u).kind = "current" /\ Current(u).t = u
        /\ Moves(past, c, u, In(past, u, Now), In(past, u, Now))
    BY <1>2, MovesCurrent
  <2>2. \A t \in Targets \ {u}, x \in SUBSET Docs : Moves(past, c, t, x, x)
    BY <2>1, MovesPast
  <2> QED BY <2>1, <2>2
<1> HIDE DEF U, c
<1>8. /\ U \o c \in Seq(Message(Now))
      /\ Moves(past, U \o c, u, In(past, u, at), In(past, u, Now))
  BY <1>5, <1>6, <1>7, ConcatFacts, MovesConcat
<1>9. \A t \in Targets \ {u}, x \in SUBSET Docs : Moves(past, U \o c, t, x, x)
  BY <1>5, <1>7, MovesConcat
<1> QED BY <1>1, <1>8, <1>9, TellsOne

\* A target is told all over again.
LEMMA ResetsStep ==
  ASSUME Rest, NEW u \in Targets, Resets(u)
  PROVE  Rest'
<1> DEFINE at == serving[u].at
           B == [v \in {u} |-> {}]
           r == <<About("reset", u)>>
           U == Updates({u}, B, {})
           c == <<Current(u)>>
<1>1. /\ u \in DOMAIN serving /\ IsOpen /\ responses' = responses \o ((r \o U) \o c)
      /\ serving' = [serving EXCEPT ![u] = [at |-> Now, is |-> "ready"]]
      /\ UNCHANGED <<disk, listening, stream, agg, requests, past, asof, stale, crossed>>
  BY DEF Resets, Emits
<1>2. PastOK /\ at \in 0 .. Now /\ Now \in 0 .. Now
  <2>1. PastOK /\ serving[u] \in [at : 0 .. Now, is : {"added", "ready", "told"}]
    BY <1>1 DEF Rest, Types, Traffic
  <2> QED BY <2>1, ResultType
<1>3. /\ Result(u, Now) = In(past, u, Now) /\ {} \in SUBSET Docs
      /\ In(past, u, at) \in SUBSET Docs /\ In(past, u, Now) \in SUBSET Docs
  BY <1>2, ResultType
<1>4. B[u] = {} /\ {u} \in SUBSET Targets
  OBVIOUS
<1> HIDE DEF B
<1>5. /\ U \in Seq(Message(Now))
      /\ \A t \in Targets \ {u}, x \in SUBSET Docs : Moves(past, U, t, x, x)
      /\ \A x \in SUBSET Docs : B[u] \subseteq x =>
           Moves(past, U, u, x, (x \ (B[u] \ Result(u, Now))) \cup Result(u, Now))
  <2>1. u \in {u}
    OBVIOUS
  <2> QED BY <1>2, <1>4, <2>1, UpdatesFacts
<1>6. Moves(past, U, u, {}, In(past, u, Now))
  <2>1. ({} \ (B[u] \ Result(u, Now))) \cup Result(u, Now) = In(past, u, Now)
    BY <1>3
  <2>2. B[u] \subseteq {}
    BY <1>4
  <2>3. Moves(past, U, u, {}, ({} \ (B[u] \ Result(u, Now))) \cup Result(u, Now))
    BY <1>3, <1>5, <2>2
  <2> QED BY <2>1, <2>3
<1>7. /\ c \in Seq(Message(Now)) /\ Moves(past, c, u, In(past, u, Now), In(past, u, Now))
      /\ \A t \in Targets \ {u}, x \in SUBSET Docs : Moves(past, c, t, x, x)
  <2>1. /\ Current(u) \in Message(Now) /\ Current(u).kind = "current" /\ Current(u).t = u
        /\ Moves(past, c, u, In(past, u, Now), In(past, u, Now))
    BY <1>2, MovesCurrent
  <2>2. \A t \in Targets \ {u}, x \in SUBSET Docs : Moves(past, c, t, x, x)
    BY <2>1, MovesPast
  <2> QED BY <2>1, <2>2
<1>8. /\ r \in Seq(Message(Now)) /\ Moves(past, r, u, In(past, u, at), {})
      /\ \A t \in Targets \ {u}, x \in SUBSET Docs : Moves(past, r, t, x, x)
  <2> DEFINE m == About("reset", u)
  <2>1. m \in Message(Now) /\ m.kind = "reset" /\ m.t = u
    BY DEF About, Message
  <2> HIDE DEF m
  <2>2. \A t \in Targets \ {u}, x \in SUBSET Docs : Moves(past, <<m>>, t, x, x)
    BY <2>1, MovesPast
  <2>3. /\ {} = Brings(past, m, u, In(past, u, at)) /\ ~ IsAnswer(m, u) /\ ~ IsFilter(m, u)
        /\ m.kind # "snapshot" /\ ~ IsCurrent(m, u)
    BY <2>1 DEF Brings, IsAnswer, IsFilter, IsCurrent
  <2>4. Moves(past, <<m>>, u, In(past, u, at), {})
    BY <1>3, <2>3, MovesOne
  <2>5. <<m>> \in Seq(Message(Now))
    BY <2>1
  <2> QED BY <2>2, <2>4, <2>5 DEF m
<1> HIDE DEF U, c, r
<1>9. /\ r \o U \in Seq(Message(Now))
      /\ Moves(past, r \o U, u, In(past, u, at), In(past, u, Now))
      /\ \A t \in Targets \ {u}, x \in SUBSET Docs : Moves(past, r \o U, t, x, x)
  BY <1>5, <1>6, <1>8, ConcatFacts, MovesConcat
<1> DEFINE d == r \o U
<1> HIDE DEF d
<1>10. /\ d \o c \in Seq(Message(Now))
       /\ Moves(past, d \o c, u, In(past, u, at), In(past, u, Now))
       /\ \A t \in Targets \ {u}, x \in SUBSET Docs : Moves(past, d \o c, t, x, x)
  <2>1. /\ d \in Seq(Message(Now))
        /\ Moves(past, d, u, In(past, u, at), In(past, u, Now))
        /\ \A t \in Targets \ {u}, x \in SUBSET Docs : Moves(past, d, t, x, x)
    BY <1>9 DEF d
  <2> QED BY <1>7, <2>1, ConcatFacts, MovesConcat
<1>11. responses' = responses \o (d \o c)
  BY <1>1 DEF d
<1> QED BY <1>1, <1>10, <1>11, TellsOne

\* The filter says that too many documents are shown; CURRENT tells which are right.
LEMMA MovesFilter ==
  ASSUME PastOK, NEW u \in Targets, NEW n \in Nat, NEW x \in SUBSET Docs, Cardinality(x) # n,
         NEW f, f = [kind |-> "filter", t |-> u, count |-> n]
  PROVE  /\ <<f, Current(u)>> \in Seq(Message(Now))
         /\ Moves(past, <<f, Current(u)>>, u, x, In(past, u, Now))
         /\ \A t \in Targets \ {u}, y \in SUBSET Docs : Moves(past, <<f, Current(u)>>, t, y, y)
<1> DEFINE c == Current(u)
           b == <<f, c>>
           R == In(past, u, Now)
           W == [i \in 1 .. 3 |-> IF i = 3 THEN R ELSE x]
<1>1. c \in Message(Now) /\ c.kind = "current" /\ c.t = u /\ c.version = Now
  BY MovesCurrent DEF Current
<1>2. f \in Message(Now) /\ f.kind = "filter" /\ f.t = u /\ f.count = n
  BY DEF Message
<1>3. R \in SUBSET Docs
  BY ResultType
<1> HIDE DEF c
<1>4. /\ b \in Seq(Message(Now)) /\ b[1] = f /\ b[2] = c /\ Len(b) = 2 /\ DOMAIN b = {1, 2}
  BY <1>1, <1>2
<1> HIDE DEF R
<1>5. W \in [1 .. 2 + 1 -> SUBSET Docs] /\ W[1] = x /\ W[2] = x /\ W[3] = R
  BY <1>3
<1> HIDE DEF b, W
<1>6. Quiet(b, u, 1)
  BY <1>1, <1>2, <1>4 DEF Quiet, IsAnswer
<1>7. LeadsAt(past, b, W, u, {}, 1)
  <2>1. W[1 + 1] = W[2]
    OBVIOUS
  <2>2. /\ W[2] = Brings(past, f, u, W[1]) /\ f.kind # "snapshot" /\ ~ IsCurrent(f, u)
        /\ Cardinality(W[1]) # f.count
    BY <1>2, <1>5 DEF Brings, IsCurrent
  <2> QED BY <1>4, <2>1, <2>2 DEF LeadsAt
<1>8. LeadsAt(past, b, W, u, {}, 2)
  <2>1. W[2 + 1] = W[3] /\ b[2 - 1] = b[1] /\ 2 > 1
    OBVIOUS
  <2>2. /\ W[3] = Brings(past, c, u, W[2]) /\ c.kind # "snapshot" /\ ~ IsFilter(c, u) /\ IsFilter(f, u)
    BY <1>1, <1>2, <1>5 DEF Brings, IsCurrent, IsFilter, R
  <2> QED BY <1>4, <2>1, <2>2 DEF LeadsAt
<1>9. Moves(past, b, u, x, R)
  <2>1. Leads(past, b, W, u, {})
    <3>1. \A i \in 1 .. Len(b) : i = 1 \/ i = 2
      BY <1>4
    <3> QED BY <1>7, <1>8, <3>1 DEF Leads
  <2>2. W \in Views(b) /\ W[Len(b) + 1] = R
    BY <1>4, <1>5 DEF Views
  <2> QED BY <1>5, <1>6, <2>1, <2>2 DEF Moves
<1>10. ASSUME NEW t \in Targets \ {u}, NEW y \in SUBSET Docs PROVE Moves(past, b, t, y, y)
  <2> DEFINE bf == <<f>>
             bc == <<c>>
  <2>1. bf \in Seq(Message(Now)) /\ bc \in Seq(Message(Now)) /\ b = bf \o bc
    BY <1>1, <1>2 DEF b
  <2>2. Moves(past, bf, t, y, y)
    BY <1>2, MovesPast
  <2>3. Moves(past, bc, t, y, y)
    BY <1>1, MovesPast
  <2> HIDE DEF bf, bc
  <2>4. Moves(past, bf \o bc, t, y, y)
    BY <2>1, <2>2, <2>3, MovesConcat
  <2> QED BY <2>1, <2>4
<1> QED BY <1>4, <1>9, <1>10 DEF b, c, R

\* A target is told that too many documents are known to match.
LEMMA FilterStep ==
  ASSUME Rest, NEW u \in Targets, CatchesUpByFilter(u)
  PROVE  Rest'
<1> DEFINE at == serving[u].at
           R == Result(u, Now)
           A == Result(u, at)
           B == [v \in {u} |-> Result(v, at) \cap Result(v, Now)]
           U == Updates({u}, B, {})
           f == [kind |-> "filter", t |-> u, count |-> Cardinality(R)]
           c == <<f, Current(u)>>
<1>1. /\ u \in DOMAIN serving /\ IsOpen /\ responses' = responses \o (U \o c) /\ A \ R # {}
      /\ serving' = [serving EXCEPT ![u] = [at |-> Now, is |-> "ready"]]
      /\ UNCHANGED <<disk, listening, stream, agg, requests, past, asof, stale, crossed>>
  BY DEF CatchesUpByFilter, Emits
<1>2. PastOK /\ at \in 0 .. Now /\ Now \in 0 .. Now
  <2>1. PastOK /\ serving[u] \in [at : 0 .. Now, is : {"added", "ready", "told"}]
    BY <1>1 DEF Rest, Types, Traffic
  <2> QED BY <2>1, ResultType
<1>3. A = In(past, u, at) /\ R = In(past, u, Now) /\ A \in SUBSET Docs /\ R \in SUBSET Docs
  BY <1>2, ResultType
<1>4. B[u] = A \cap R /\ {u} \in SUBSET Targets
  OBVIOUS
<1> HIDE DEF B
<1>5. /\ U \in Seq(Message(Now))
      /\ \A t \in Targets \ {u}, x \in SUBSET Docs : Moves(past, U, t, x, x)
      /\ \A x \in SUBSET Docs : B[u] \subseteq x => Moves(past, U, u, x, (x \ (B[u] \ R)) \cup R)
  <2>1. u \in {u}
    OBVIOUS
  <2> QED BY <1>2, <1>4, <2>1, UpdatesFacts
<1> HIDE DEF A, R
<1>6. Moves(past, U, u, A, A \cup R)
  <2>1. (A \ (B[u] \ R)) \cup R = A \cup R /\ B[u] \subseteq A
    BY <1>4
  <2>2. Moves(past, U, u, A, (A \ (B[u] \ R)) \cup R)
    BY <1>3, <1>5, <2>1
  <2> QED BY <2>1, <2>2
<1>7. Cardinality(R) \in Nat /\ Cardinality(A \cup R) # Cardinality(R)
  <2>1. IsFiniteSet(A \cup R) /\ R \in SUBSET (A \cup R) /\ IsFiniteSet(R)
    BY <1>3, FiniteAssumption, FS_Subset
  <2>2. A \cup R # R
    BY <1>1
  <2> QED BY <2>1, <2>2, FS_Subset, FS_CardinalityType
<1>8. /\ c \in Seq(Message(Now)) /\ Moves(past, c, u, A \cup R, In(past, u, Now))
      /\ \A t \in Targets \ {u}, x \in SUBSET Docs : Moves(past, c, t, x, x)
  <2>1. A \cup R \in SUBSET Docs
    BY <1>3
  <2> QED BY <1>2, <1>7, <2>1, MovesFilter
<1> HIDE DEF U, c
<1>9. /\ U \o c \in Seq(Message(Now))
      /\ Moves(past, U \o c, u, In(past, u, at), In(past, u, Now))
  <2>1. Moves(past, U, u, In(past, u, at), A \cup R)
    BY <1>3, <1>6
  <2> QED BY <1>5, <1>8, <2>1, ConcatFacts, MovesConcat
<1>10. \A t \in Targets \ {u}, x \in SUBSET Docs : Moves(past, U \o c, t, x, x)
  BY <1>5, <1>8, MovesConcat
<1> QED BY <1>1, <1>9, <1>10, TellsOne

\* All targets are told of what is new, and that they are complete as of the version.
LEMMA TellsAllStep ==
  ASSUME Rest, Snapshot
  PROVE  Rest'
<1> DEFINE S == DOMAIN serving
           B == [t \in S |-> Result(t, serving[t].at)]
           m == [kind |-> "snapshot", version |-> Now]
           c == <<m>>
<1>1. PICK more \in SUBSET Docs :
        /\ IsOpen /\ responses' = responses \o (Updates(S, B, more) \o c)
        /\ serving' = [t \in S |-> [at |-> Now, is |-> "told"]]
        /\ UNCHANGED <<disk, listening, stream, agg, requests, past, asof, stale, crossed>>
  BY DEF Snapshot, Emits
<1> DEFINE U == Updates(S, B, more)
<1>2. /\ PastOK /\ Now \in 0 .. Now /\ Now \in 1 .. Now /\ Now # 0 /\ S \in SUBSET Targets
      /\ \A t \in S : serving[t].at \in 0 .. Now
  <2>1. PastOK /\ S \subseteq Targets
        /\ \A t \in S : serving[t] \in [at : 0 .. Now, is : {"added", "ready", "told"}]
    BY DEF Rest, Types, Traffic
  <2> QED BY <2>1, ResultType
<1>3. \A t \in S : /\ B[t] = In(past, t, serving[t].at) /\ Result(t, Now) = In(past, t, Now)
                   /\ B[t] \in SUBSET Docs /\ Result(t, Now) \in SUBSET Docs
  BY <1>2, ResultType
<1>4. m \in Message(Now) /\ m.kind = "snapshot" /\ m.version = Now
  BY <1>2 DEF Message
<1> HIDE DEF B, S, m
<1>5. /\ U \in Seq(Message(Now))
      /\ \A t \in Targets \ S, x \in SUBSET Docs : Moves(past, U, t, x, x)
      /\ \A t \in S, x \in SUBSET Docs : B[t] \subseteq x =>
           Moves(past, U, t, x, (x \ (B[t] \ Result(t, Now))) \cup Result(t, Now))
  BY <1>2, UpdatesFacts
<1> HIDE DEF U
<1>6. ASSUME NEW t \in S PROVE Moves(past, U, t, B[t], Result(t, Now))
  <2>1. (B[t] \ (B[t] \ Result(t, Now))) \cup Result(t, Now) = Result(t, Now)
    OBVIOUS
  <2>2. Moves(past, U, t, B[t], (B[t] \ (B[t] \ Result(t, Now))) \cup Result(t, Now))
    BY <1>3, <1>5
  <2> QED BY <2>1, <2>2
<1>7. c \in Seq(Message(Now)) /\ \A t : Quiet(c, t, 1)
  <2>1. c \in Seq(Message(Now)) /\ DOMAIN c = {1} /\ c[1] = m
    BY <1>4
  <2> HIDE DEF c
  <2> QED BY <1>4, <2>1 DEF Quiet, IsAnswer
<1>8. ASSUME NEW t \in S PROVE Moves(past, c, t, Result(t, Now), Result(t, Now))
  <2>1. /\ Result(t, Now) = Brings(past, m, t, Result(t, Now)) /\ ~ IsAnswer(m, t) /\ ~ IsFilter(m, t)
        /\ Result(t, Now) = In(past, t, m.version) /\ ~ IsCurrent(m, t)
    BY <1>3, <1>4 DEF Brings, IsAnswer, IsFilter, IsCurrent
  <2> QED BY <1>3, <2>1, MovesOne
<1> HIDE DEF c
<1>9. U \o c \in Seq(Message(Now)) /\ \A t \in S : Moves(past, U \o c, t, B[t], Result(t, Now))
  BY <1>5, <1>6, <1>7, <1>8, ConcatFacts, MovesConcat
<1>10. \A t \in Targets : Quiet(U \o c, t, 1)
  <2>1. ASSUME NEW t \in Targets PROVE Quiet(U, t, 1)
    <3>1. CASE t \in S
      BY <1>6, <3>1 DEF Moves
    <3>2. CASE t \notin S
      <4>1. {} \in SUBSET Docs
        OBVIOUS
      <4> QED BY <1>5, <3>2, <4>1 DEF Moves
    <3> QED BY <3>1, <3>2
  <2>2. 1 \in 1 .. Len(U) + 1
    BY <1>5, LenProperties
  <2> QED BY <1>5, <1>7, <2>1, <2>2, QuietConcat
<1>11. /\ S = DOMAIN serving /\ DOMAIN serving' = DOMAIN serving
       /\ \A t \in S : serving'[t] = [at |-> Now, is |-> "told"]
  BY <1>1 DEF S
<1>12. \A t \in DOMAIN serving : serving'[t] \in [at : 0 .. Now, is : {"added", "ready", "told"}]
  BY <1>2, <1>11
<1>13. \A t \in DOMAIN serving :
         Moves(past, U \o c, t, In(past, t, serving[t].at), In(past, t, serving'[t].at))
  BY <1>3, <1>9, <1>11
<1>14. Telling(U \o c)
  <2>1. responses' = responses \o (U \o c)
    BY <1>1 DEF U
  <2> QED BY <1>1, <1>9, <1>10, <1>11, <1>12, <1>13, <2>1 DEF Telling
<1> QED BY <1>14, TellingStep

-----------------------------------------------------------------------------
(* The data changes.                                                        *)

\* What there may be as of fewer versions there may be as of more.
LEMMA MoreVersions ==
  ASSUME NEW n \in Nat
  PROVE  /\ 0 .. n \subseteq 0 .. n + 1
         /\ \A q \in Seq(Request(n)) : q \in Seq(Request(n + 1))
         /\ \A r \in Seq(Message(n)) : r \in Seq(Message(n + 1))
         /\ \A a \in Aggregator(n) : a \in Aggregator(n + 1)
<1>1. 0 .. n \subseteq 0 .. n + 1 /\ 1 .. n \subseteq 1 .. n + 1
  OBVIOUS
<1>2. Request(n) \subseteq Request(n + 1)
  BY <1>1 DEF Request
<1>3. Message(n) \subseteq Message(n + 1)
  <2> SUFFICES ASSUME NEW m \in Message(n) PROVE m \in Message(n + 1)
    OBVIOUS
  <2> QED BY <1>1 DEF Message
<1>4. TargetState(n) \subseteq TargetState(n + 1)
  BY <1>1 DEF TargetState
<1>5. ASSUME NEW a \in Aggregator(n) PROVE a \in Aggregator(n + 1)
  <2>1. \A t \in DOMAIN a.states : a.states[t] \in TargetState(n + 1)
    BY <1>4, AggregatorFacts
  <2> QED BY <2>1, AggregatorFacts, IsAggregator
<1>6. ASSUME NEW A, NEW B, A \subseteq B, NEW s \in Seq(A) PROVE s \in Seq(B)
  <2>1. s \in [1 .. Len(s) -> A] /\ Len(s) \in Nat
    BY LenProperties
  <2>2. s \in [1 .. Len(s) -> B]
    BY <1>6, <2>1
  <2> QED BY <2>1, <2>2, SeqDef
<1>7. \A q \in Seq(Request(n)) : q \in Seq(Request(n + 1))
  BY <1>2, <1>6
<1>8. \A r \in Seq(Message(n)) : r \in Seq(Message(n + 1))
  BY <1>3, <1>6
<1> QED BY <1>1, <1>5, <1>7, <1>8

LEMMA VersionStep ==
  ASSUME Rest, NewVersion
  PROVE  Rest'
<1> DEFINE n == Now
<1>1. /\ PastOK /\ n \in 1 .. MaxVersion /\ n \in Nat /\ n < MaxVersion
  BY BoundsAssumption DEF Rest, Types, PastOK, NewVersion
<1>2. PICK r \in [Targets -> SUBSET Docs] : past' = Append(past, r)
  BY DEF NewVersion
<1>3. /\ UNCHANGED <<keys, token, local, listens, synced, agg, requests, responses, serving, asof,
                     stale, crossed>>
      /\ UNCHANGED stream
  BY DEF NewVersion, disk, listening, backend
<1>4. /\ past' \in Seq([Targets -> SUBSET Docs]) /\ Len(past') = n + 1 /\ DOMAIN past' = 1 .. n + 1
      /\ \A v \in 1 .. n : past'[v] = past[v]
  BY <1>1, <1>2, AppendProperties DEF PastOK, Now
<1>5. Now' = n + 1 /\ L' = L /\ IsOpen' = IsOpen
  BY <1>3, <1>4 DEF Now, L, IsOpen
<1>6. PastOK'
  <2>1. n + 1 \in 1 .. MaxVersion
    BY <1>1, BoundsAssumption
  <2> QED BY <1>4, <1>5, <2>1 DEF PastOK
<1> HIDE DEF n
<1>7. \A t, v : v \in 0 .. n => In(past', t, v) = In(past, t, v)
  <2>1. \A v \in 0 .. n : v = 0 \/ v \in 1 .. n
    BY <1>1
  <2> QED BY <1>4, <2>1 DEF In
<1>8. /\ 0 .. n \subseteq 0 .. n + 1
      /\ requests \in Seq(Request(n)) /\ responses \in Seq(Message(n)) /\ agg \in Aggregator(n)
      /\ requests \in Seq(Request(n + 1)) /\ responses \in Seq(Message(n + 1))
      /\ agg \in Aggregator(n + 1)
  <2>1. requests \in Seq(Request(n)) /\ responses \in Seq(Message(n)) /\ agg \in Aggregator(n)
    BY DEF Rest, Types, Traffic, n
  <2> QED BY <1>1, <2>1, MoreVersions
<1>9. /\ token \in [Targets -> 0 .. n] /\ asof \in [Targets -> 0 .. n] /\ L \subseteq Targets
      /\ synced \subseteq L
      /\ \A t \in L : local[t] \in 0 .. n /\ listens[t] \in 0 .. n
      /\ DOMAIN serving \subseteq Targets /\ \A t \in DOMAIN serving : serving[t].at \in 0 .. n
  BY DEF Rest, Types, Traffic, n
<1>10. Types'
  <2>1. /\ token \in [Targets -> 0 .. n + 1] /\ asof \in [Targets -> 0 .. n + 1]
        /\ \A t \in L : local[t] \in 0 .. n + 1 /\ listens[t] \in 0 .. n + 1
    BY <1>8, <1>9
  <2> QED BY <1>3, <1>5, <1>6, <1>8, <2>1 DEF Rest, Types, Changes, With
<1>11. Traffic'
  <2>1. \A t \in DOMAIN serving : serving[t] \in [at : 0 .. n + 1, is : {"added", "ready", "told"}]
    BY <1>8 DEF Rest, Traffic, n
  <2> QED BY <1>3, <1>5, <1>8, <2>1 DEF Rest, Traffic
<1>12. Known'
  <2>1. \A t \in Targets \ stale : keys[t] = In(past', t, token[t])
    BY <1>7, <1>9 DEF Rest, Known, Result, In
  <2>2. \A t \in L \ stale : local[t] = listens[t] /\ keys[t] = In(past', t, listens[t])
    BY <1>7, <1>9 DEF Rest, Known, Result, In
  <2>3. \A t \in synced \ stale : keys[t] = In(past', t, asof[t])
    BY <1>7, <1>9 DEF Rest, Known, Result, In
  <2> QED BY <1>3, <1>5, <2>1, <2>2, <2>3 DEF Known, Result, In
<1>13. ASSUME IsOpen, NEW t \in Targets \ crossed PROVE Steady(t)'
  <2>1. Steady(t)
    BY <1>13 DEF Rest, InStep
  <2>2. ASSUME t \in L \cap DOMAIN serving, NoAsk(requests, t)
        PROVE  Told(past', responses, serving[t].at, keys[t], Shown(agg, keys, t), stale, agg.resets, t)
    <3>1. Told(past, responses, serving[t].at, keys[t], Shown(agg, keys, t), stale, agg.resets, t)
      BY <2>1, <2>2 DEF Steady
    <3>2. serving[t].at \in 0 .. n
      BY <1>9, <2>2
    <3> QED BY <1>1, <1>4, <1>8, <3>1, <3>2, ToldPast
  <2> QED BY <1>3, <1>5, <2>1, <2>2 DEF Steady
<1>14. InStep'
  BY <1>3, <1>5, <1>13 DEF InStep
<1> QED BY <1>10, <1>11, <1>12, <1>14 DEF Rest

-----------------------------------------------------------------------------
(* The theorems.                                                            *)

LEMMA NextPreserves ==
  ASSUME IInv, [Next]_vars
  PROVE  IInv'
<1>1. Rest /\ StreamOK /\ OnlineOK
  BY DEF IInv, Rest
<1>2. StreamOK' /\ OnlineOK'
  BY <1>1, StreamStep, OnlineStep
<1> SUFFICES Rest'
  BY <1>2 DEF IInv, Rest
<1>3. CASE Calls
  <2>1. CASE \E t \in Targets : Listen(t) \/ StopListening(t)
    BY <1>1, <2>1, ListenStep, StopStep
  <2>2. CASE EnableNetwork \/ IdleTimeout
    BY <1>1, <2>2, LosingSteps
  <2>3. CASE OnlineStateTimeout
    BY <1>1, <2>3, LeavingSteps
  <2> QED BY <1>3, <2>1, <2>2, <2>3 DEF Calls
<1>4. CASE Connects
  BY <1>1, <1>4, OpensStep, LeavingSteps DEF Connects
<1>5. CASE Handles
  <2>1. CASE OnDocumentChange \/ OnTargetCurrent \/ OnTargetReset \/ OnExistenceFilter
    BY <1>1, <2>1, HeedingSteps
  <2>2. CASE OnTargetAdded
    BY <1>1, <2>2, AddedStep
  <2>3. CASE OnTargetRemoved
    BY <1>1, <2>3, RemovedStep
  <2>4. CASE ProcessTargetError
    BY <1>1, <2>4, ErrorStep
  <2>5. CASE OnSnapshot
    BY <1>1, <2>5, SnapshotStep
  <2> QED BY <1>5, <2>1, <2>2, <2>3, <2>4, <2>5 DEF Handles
<1>6. CASE Serves
  <2>1. CASE ServesWatch \/ ServesUnwatch
    BY <1>1, <2>1, ServingSteps
  <2>2. CASE Snapshot
    BY <1>1, <2>2, TellsAllStep
  <2>3. CASE \E t \in Targets : CatchesUp(t)
    BY <1>1, <2>3, CatchesUpStep
  <2> QED BY <1>6, <2>1, <2>2, <2>3 DEF Serves
<1>7. CASE Disturbance
  <2>1. CASE StreamFails \/ DisableNetwork \/ RestartNetwork
    BY <1>1, <2>1, LosingSteps
  <2>2. CASE Restart
    BY <1>1, <2>2, RestartStep
  <2>3. CASE Refuses
    BY <1>1, <2>3, ServingSteps
  <2>4. CASE \E t \in Targets : CatchesUpByFilter(t) \/ Resets(t)
    BY <1>1, <2>4, FilterStep, ResetsStep
  <2> QED BY <1>7, <2>1, <2>2, <2>3, <2>4 DEF Disturbance
<1>8. CASE NewVersion
  BY <1>1, <1>8, VersionStep
<1>9. CASE UNCHANGED vars
  BY <1>1, <1>9, LeavingSteps
<1> QED BY <1>3, <1>4, <1>5, <1>6, <1>7, <1>8, <1>9 DEF Next

\* Every handler, call, failure and answer of the backend keeps the client in step:
\* the inductive invariant that the theorems below rest on.
THEOREM ListeningInductive == Spec => []IInv
BY InitHolds, NextPreserves, PTL DEF Spec

\* The type invariant: in particular the aggregator, the views and the streams
\* know of no target but those that are, the file has a token for each of them, and
\* the timer of the online state runs only while nothing has failed.
THEOREM ListeningTypes == Spec => []TypeOK
BY ListeningInductive, InvImpliesTypeOK, PTL

\* A view that is current shows exactly what matched its query at the version of
\* the last snapshot it was brought to, whatever was given up and taken again, lost
\* with the stream or with the process (RaiseWatchSnapshot and ApplyRemoteEvent),
\* unless a mismatch of a filter or an error among other answers made it stale.
THEOREM CurrentAlwaysConsistent == Spec => []CurrentIsConsistent
<1>1. IInv => CurrentIsConsistent
  BY DEF IInv, Known, CurrentIsConsistent
<1> QED BY <1>1, ListeningInductive, PTL

\* The documents on file are those of the token on file for every target that is not
\* stale: a restart at any moment, also between two snapshots, goes on from a result
\* that the backend did have (ApplyRemoteEvent, ReleaseTarget).
THEOREM FileAlwaysMatchesToken == Spec => []FileMatchesToken
<1>1. IInv => FileMatchesToken
  BY DEF IInv, Known, FileMatchesToken
<1> QED BY <1>1, ListeningInductive, PTL

\* outstanding_responses_ counts the requests about a target that are not answered
\* yet, however calls, answers, resets and mismatches interleave, unless an error has
\* met other requests on the same stream.
THEOREM AnswersAlwaysCounted == Spec => []AnswersCounted
<1>1. IInv => AnswersCounted
  <2> SUFFICES ASSUME IInv, IsOpen, NEW t \in Targets \ crossed
               PROVE  /\ t \in L => t \in DOMAIN agg.states
                      /\ Due(t, requests, responses) =
                           IF t \in DOMAIN agg.states THEN agg.states[t].out ELSE 0
    BY DEF AnswersCounted
  <2>1. Counted(agg, requests, responses, L, t)
    BY DEF IInv, InStep, Steady
  <2> QED BY <2>1 DEF Counted, Out
<1> QED BY <1>1, ListeningInductive, PTL
=============================================================================
