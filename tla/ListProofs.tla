----------------------------- MODULE ListProofs -----------------------------
(* Facts about the list operations, for lists over any set. *)
EXTENDS Lists, FiniteSetTheorems, SequenceTheorems, WellFoundedInduction, TLAPS

\* remove(at:) keeps every other element, in order.
LEMMA RemoveAtFacts ==
  ASSUME NEW S, NEW s \in Seq(S), NEW i \in 1 .. Len(s)
  PROVE  /\ RemoveAt(s, i) \in Seq(S)
         /\ Len(RemoveAt(s, i)) = Len(s) - 1
         /\ \A j \in 1 .. Len(s) - 1 :
              RemoveAt(s, i)[j] = IF j < i THEN s[j] ELSE s[j + 1]
<1>1. /\ SubSeq(s, 1, i - 1) \in Seq(S)
      /\ Len(SubSeq(s, 1, i - 1)) = i - 1
      /\ \A j \in 1 .. i - 1 : SubSeq(s, 1, i - 1)[j] = s[j]
  BY SubSeqProperties, ElementOfSeq
<1>2. /\ SubSeq(s, i + 1, Len(s)) \in Seq(S)
      /\ Len(SubSeq(s, i + 1, Len(s))) = Len(s) - i
      /\ \A j \in 1 .. Len(s) - i : SubSeq(s, i + 1, Len(s))[j] = s[i + j]
  BY SubSeqProperties, ElementOfSeq
<1> DEFINE u == SubSeq(s, 1, i - 1)
           v == SubSeq(s, i + 1, Len(s))
<1> HIDE DEF u, v
<1>3. Len(s) \in Nat /\ i \in Int /\ u \in Seq(S) /\ v \in Seq(S)
      /\ Len(u) = i - 1 /\ Len(v) = Len(s) - i
  BY <1>1, <1>2 DEF u, v
<1>4. /\ u \o v \in Seq(S)
      /\ Len(u \o v) = Len(u) + Len(v)
      /\ \A j \in 1 .. Len(u) + Len(v) :
           (u \o v)[j] = IF j <= Len(u) THEN u[j] ELSE v[j - Len(u)]
  BY <1>3, ConcatProperties
<1>5. RemoveAt(s, i) = u \o v
  BY DEF RemoveAt, u, v
<1>6. Len(RemoveAt(s, i)) = Len(s) - 1
  <2>1. (i - 1) + (Len(s) - i) = Len(s) - 1
    BY <1>3
  <2> QED BY <1>3, <1>4, <1>5, <2>1
<1>7. ASSUME NEW j \in 1 .. Len(s) - 1
      PROVE  RemoveAt(s, i)[j] = IF j < i THEN s[j] ELSE s[j + 1]
  <2>1. CASE j < i
    <3>1. (u \o v)[j] = u[j] /\ j \in 1 .. i - 1
      BY <1>3, <1>4, <2>1
    <3> QED BY <1>1, <1>5, <2>1, <3>1 DEF u
  <2>2. CASE j >= i
    <3>1. (u \o v)[j] = v[j - (i - 1)] /\ j - (i - 1) \in 1 .. Len(s) - i
      BY <1>3, <1>4, <2>2
    <3>2. v[j - (i - 1)] = s[i + (j - (i - 1))] /\ i + (j - (i - 1)) = j + 1
      BY <1>2, <1>3, <3>1 DEF v
    <3> QED BY <1>5, <2>2, <3>1, <3>2
  <2> QED BY <1>3, <2>1, <2>2
<1> QED BY <1>4, <1>5, <1>6, <1>7

\* remove(at:) of a list without repeated ids removes that record and no other.
LEMMA RemoveAtUnique ==
  ASSUME NEW S, NEW s \in Seq(S), NEW i \in 1 .. Len(s), UniqueIds(s)
  PROVE  /\ UniqueIds(RemoveAt(s, i))
         /\ Range(RemoveAt(s, i)) = Range(s) \ {s[i]}
<1> DEFINE t == RemoveAt(s, i)
<1>1. /\ DOMAIN t = 1 .. Len(s) - 1 /\ DOMAIN s = 1 .. Len(s) /\ Len(s) \in Nat
      /\ \A j \in 1 .. Len(s) - 1 : t[j] = IF j < i THEN s[j] ELSE s[j + 1]
  BY RemoveAtFacts
<1>2. UniqueIds(t)
  BY <1>1 DEF UniqueIds
<1>3. Range(t) \subseteq Range(s) \ {s[i]}
  BY <1>1 DEF UniqueIds, Range
<1>4. ASSUME NEW j \in DOMAIN s, s[j] # s[i]
      PROVE  s[j] \in Range(t)
  <2>1. CASE j < i
    BY <1>1, <2>1 DEF Range
  <2>2. CASE j > i
    <3>1. j - 1 \in DOMAIN t /\ t[j - 1] = s[j]
      BY <1>1, <2>2
    <3> QED BY <3>1 DEF Range
  <2> QED BY <1>1, <1>4, <2>1, <2>2
<1> QED BY <1>2, <1>3, <1>4 DEF Range

\* append adds one element; without repeated ids before, and with a new id,
\* there are none after.
LEMMA AppendFacts ==
  ASSUME NEW S, NEW s \in Seq(S), NEW r \in S
  PROVE  /\ Append(s, r) \in Seq(S)
         /\ Range(Append(s, r)) = Range(s) \cup {r}
         /\ UniqueIds(s) /\ (\A q \in Range(s) : q.id # r.id)
              => UniqueIds(Append(s, r))
<1>1. /\ DOMAIN s = 1 .. Len(s) /\ Len(s) \in Nat
      /\ DOMAIN Append(s, r) = 1 .. Len(s) + 1
      /\ \A j \in 1 .. Len(s) : Append(s, r)[j] = s[j]
      /\ Append(s, r)[Len(s) + 1] = r
  BY AppendProperties
<1>2. Range(Append(s, r)) = Range(s) \cup {r}
  BY <1>1 DEF Range
<1>3. UniqueIds(s) /\ (\A q \in Range(s) : q.id # r.id) => UniqueIds(Append(s, r))
  BY <1>1 DEF UniqueIds, Range
<1> QED BY <1>2, <1>3, AppendProperties

\* Replacing an element keeps the list's type and length.
LEMMA ReplaceFacts ==
  ASSUME NEW S, NEW s \in Seq(S), NEW i \in 1 .. Len(s), NEW r \in S
  PROVE  [s EXCEPT ![i] = r] \in Seq(S) /\ Len([s EXCEPT ![i] = r]) = Len(s)
BY ExceptSeq

\* Replacing a record by one with the same id, in a list without repeated ids,
\* replaces that record and no other.
LEMMA ReplaceUnique ==
  ASSUME NEW S, NEW s \in Seq(S), NEW i \in 1 .. Len(s), NEW r \in S,
         UniqueIds(s), r.id = s[i].id
  PROVE  /\ UniqueIds([s EXCEPT ![i] = r])
         /\ \A q : q \in Range([s EXCEPT ![i] = r])
                     <=> (q \in Range(s) /\ q.id # r.id) \/ q = r
<1>1. DOMAIN s = 1 .. Len(s)
  OBVIOUS
<1> QED BY <1>1 DEF UniqueIds, Range

\* A table listed in the order of its ids is a list of its rows, each of them once.
LEMMA ListingFacts ==
  ASSUME NEW S, IsFiniteSet(S), \A r \in S : r.id \in Int,
         NEW s \in [1 .. Cardinality(S) -> S],
         \A i, j \in DOMAIN s : i < j => s[i].id < s[j].id,
         \A r \in S : \E i \in DOMAIN s : s[i] = r
  PROVE  s \in Seq(S) /\ UniqueIds(s) /\ Range(s) = S
<1>1. Cardinality(S) \in Nat
  BY FS_CardinalityType
<1>2. \A i, j \in DOMAIN s : s[i].id \in Int /\ (i < j => s[i].id < s[j].id)
  OBVIOUS
<1>3. UniqueIds(s)
  BY <1>1, <1>2 DEF UniqueIds
<1>4. s \in Seq(S) /\ Range(s) = S
  BY <1>1 DEF Range
<1> QED BY <1>3, <1>4

\* filter gives a list no longer than the one it filters, of its elements.
LEMMA SublistFacts ==
  ASSUME NEW S, NEW s \in Seq(S), NEW I \in SUBSET (1 .. Len(s)),
         NEW t \in Sublist(s, I)
  PROVE  /\ t \in Seq(S)
         /\ Len(t) = Cardinality(I) /\ Len(t) <= Len(s)
         /\ \A n \in DOMAIN t : \E i \in I : t[n] = s[i]
         /\ \A m, n \in DOMAIN t : \E i, j \in I :
              t[m] = s[i] /\ t[n] = s[j] /\ (i = j => m = n)
<1>1. Cardinality(I) \in Nat /\ Cardinality(I) <= Len(s)
  <2>1. IsFiniteSet(1 .. Len(s)) /\ Cardinality(1 .. Len(s)) = Len(s)
    <3>1. Len(s) \in Nat /\ 1 \in Int
      BY LenProperties
    <3>2. /\ IsFiniteSet(1 .. Len(s))
          /\ Cardinality(1 .. Len(s)) = IF 1 > Len(s) THEN 0 ELSE Len(s) - 1 + 1
      BY <3>1, FS_Interval
    <3> QED BY <3>1, <3>2
  <2> QED BY <2>1, FS_Subset, FS_CardinalityType
<1>2. PICK e \in Ascending(I) : t = [n \in DOMAIN e |-> s[e[n]]]
  BY DEF Sublist
<1>3. /\ DOMAIN e = 1 .. Cardinality(I)
      /\ \A n \in DOMAIN e : e[n] \in I /\ e[n] \in 1 .. Len(s)
      /\ \A m, n \in DOMAIN e : m < n => e[m] < e[n]
  BY DEF Ascending
<1>4. t \in Seq(S) /\ Len(t) = Cardinality(I)
  <2>1. t \in [1 .. Cardinality(I) -> S]
    BY <1>2, <1>3, ElementOfSeq
  <2> QED BY <2>1, <1>1, SeqDef
<1>5. \A m, n \in DOMAIN t : e[m] = e[n] => m = n
  BY <1>1, <1>2, <1>3
<1> QED BY <1>1, <1>2, <1>3, <1>4, <1>5

\* A non-empty set of positions has a first one.
LEMMA FirstOfFacts ==
  ASSUME NEW s, NEW I \in SUBSET Nat, I # {}
  PROVE  \E i \in I : FirstOf(s, I) = s[i]
<1> DEFINE R == OpToRel(<, Nat)
<1>1. \A x, y \in Nat : y < x => <<y, x>> \in R
  BY DEF OpToRel
<1>2. IsWellFoundedOn(R, Nat)
  BY NatLessThanWellFounded
<1> HIDE DEF R
<1>3. PICK x \in I : \A y \in I : ~ (<<y, x>> \in R)
  BY <1>2, WFMin
<1>4. \A y \in I : ~ (y < x)
  BY <1>1, <1>3, Zenon
<1>5. \A y \in I : x <= y
  BY <1>4
<1> QED BY <1>5 DEF FirstOf, Min
=============================================================================
