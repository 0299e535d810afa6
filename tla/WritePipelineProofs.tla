------------------------- MODULE WritePipelineProofs -------------------------
(***************************************************************************)
(* Theorems about the write path, for every number of users and writes and *)
(* every length of the pipeline.  None of the promises of WritePipeline is *)
(* inductive by itself: that an outcome is true needs that responses and   *)
(* pipeline match, that they match needs that a stream opened for one user *)
(* never carries the writes of another, and that needs the order in which  *)
(* tokens and changes of user wait on the worker queue.  IInv is all of it *)
(* together.  The second part shows that the path implements WriteOutbox.  *)
(***************************************************************************)
EXTENDS WritePipeline, FiniteSetTheorems, SequenceTheorems, TLAPS

-----------------------------------------------------------------------------
(* The inductive invariant, in four parts.                                  *)

Streams == [state : {"Initial", "Starting", "Open", "Error", "Backoff"},
            handshake : BOOLEAN, idle : BOOLEAN, asked : SUBSET {"current", "stale"}]
Calls_ == [user : Users, hello : {"none", "asked", "answered", "done"},
           end : {"none", "open", "transient", "permanent", "ok"},
           out : Seq(Writes), in : Seq(Writes)]
Jobs == [kind : {"change", "token"}, user : Users, fresh : BOOLEAN, ok : BOOLEAN]

Types ==
  /\ table \in [Users -> SUBSET Batches] /\ nextId \in Nat \ {0}
  /\ user \in Users /\ credUser \in Users
  /\ callbacks \subseteq [user : Users, id : Nat, w : Writes]
  /\ waits \subseteq [id : Nat, need : SUBSET Writes]
  /\ network \in BOOLEAN
  /\ pipeline \in Seq(Batches)
  /\ stream \in Streams /\ call \in Calls_ /\ jobs \in Seq(Jobs)
  /\ made \in [Users -> Seq(Writes)]
  /\ committed \subseteq Writes
  /\ accepted \subseteq Writes /\ rejected \subseteq Writes /\ waited \subseteq Writes
  /\ aborted \in BOOLEAN

\* The rows of a user: finitely many, no two with one id, and below the next id.
Rows(t, n) ==
  \A u \in Users :
    /\ IsFiniteSet(t[u])
    /\ \A a \in t[u] : a.id < n
    /\ \A a, b \in t[u] : a.id = b.id => a = b

\* The pipeline p is made of the first rows, in the order of their ids.
Lined(p, rows) ==
  /\ Len(p) <= MaxPendingWrites
  /\ \A i \in DOMAIN p : p[i] \in rows
  /\ \A i, j \in DOMAIN p : i < j => p[i].id < p[j].id
  /\ \A b \in rows : (\E i \in DOMAIN p : p[i] = b) \/ LastId(p) < b.id

\* It is as long as it may be.
Full(p, rows) ==
  \A b \in rows : (\E i \in DOMAIN p : p[i] = b) \/ Len(p) = MaxPendingWrites

\* A stream s and its call c fit together and to the pipeline p.
Fits(on, p, s, c) ==
  /\ s.handshake \/ s.idle => s.state = "Open"
  /\ s.state = "Open" <=> c.end # "none"
  /\ c.hello = "none" <=> c.end = "none"
  /\ s.handshake <=> c.hello = "done"
  /\ ~s.handshake => c.out = <<>> /\ c.in = <<>>
  /\ s.handshake => c.in \o c.out = Mutations(p)
  /\ c.end = "permanent" => c.hello = "asked" \/ (c.out # <<>> /\ Head(c.out) \in Bad)
  /\ IsStarted(s) => on
  /\ IsStarted(s) /\ ~s.handshake => p # <<>>
  /\ s.idle => p = <<>>
  /\ "current" \in s.asked => s.state = "Starting"

\* A stream that is needed runs, and without the network nothing is pending.
Runs(on, p, s) == IF on THEN p # <<>> => IsStarted(s) ELSE p = <<>>

Wired ==
  /\ Fits(network, pipeline, stream, call)
  /\ Runs(network, pipeline, stream)
  /\ Lined(pipeline, table[user])
  /\ network => Full(pipeline, table[user])
  /\ stream.state = "Open" => call.user = user
  /\ aborted => call.end = "ok"

\* The jobs: one fresh token at most, asked for by the stream that is starting;
\* it is the current user's unless a change of user waits before it; and the last
\* change is to the user who is signed in.
IsChange(i) == jobs[i].kind = "change"
Tokens ==
  /\ \A i \in DOMAIN jobs :
       jobs[i].fresh => ~IsChange(i) /\ stream.state = "Starting" /\ "current" \notin stream.asked
  /\ \A i, j \in DOMAIN jobs : jobs[i].fresh /\ jobs[j].fresh => i = j
  /\ \A i \in DOMAIN jobs :
       jobs[i].fresh => jobs[i].user = user \/ \E j \in DOMAIN jobs : j < i /\ IsChange(j)
  /\ \A i \in DOMAIN jobs :
       IsChange(i) => jobs[i].user = credUser \/ \E j \in DOMAIN jobs : i < j /\ IsChange(j)
  /\ user = credUser \/ \E j \in DOMAIN jobs : IsChange(j)

\* What became of every write.
Settled == committed \cup Bad
Kept ==
  /\ Rows(table, nextId)
  /\ \A u \in Users : Queued(u) \subseteq MadeBy(u) /\ MadeBy(u) \ Queued(u) \subseteq Settled
  /\ CallbacksAreQueued
  /\ \A x \in waits : \A w \in x.need :
       w \in Settled \/ \E b \in table[user] : b.w = w /\ b.id <= x.id
  /\ committed \cap Bad = {} /\ accepted \subseteq committed /\ rejected \subseteq Bad
  /\ waited \subseteq Settled
  /\ \A i \in DOMAIN call.in : call.in[i] \in committed

IInv == Types /\ Wired /\ Tokens /\ Kept
-----------------------------------------------------------------------------
(* Sequences and batches.                                                   *)

LEMMA Indices ==
  ASSUME NEW S, NEW s \in Seq(S)
  PROVE  DOMAIN s = 1 .. Len(s) /\ Len(s) \in Nat /\ \A i \in DOMAIN s : s[i] \in S
OBVIOUS

LEMMA Fields ==
  ASSUME NEW b \in Batches
  PROVE  b.id \in Nat /\ b.w \in Writes
BY DEF Batches

LEMMA Concat ==
  ASSUME NEW S, NEW s \in Seq(S), NEW t \in Seq(S)
  PROVE  /\ s \o t \in Seq(S) /\ Len(s \o t) = Len(s) + Len(t)
         /\ DOMAIN (s \o t) = 1 .. Len(s) + Len(t)
         /\ \A i \in DOMAIN s : i \in DOMAIN (s \o t) /\ (s \o t)[i] = s[i]
         /\ \A i \in DOMAIN t : Len(s) + i \in DOMAIN (s \o t) /\ (s \o t)[Len(s) + i] = t[i]
         /\ \A i \in DOMAIN (s \o t) :
              i \in Nat /\ (i \in DOMAIN s \/ (i > Len(s) /\ i - Len(s) \in DOMAIN t))
<1>1. /\ s \o t \in Seq(S) /\ Len(s \o t) = Len(s) + Len(t)
      /\ \A i \in 1 .. Len(s) + Len(t) : (s \o t)[i] = IF i <= Len(s) THEN s[i] ELSE t[i - Len(s)]
  BY ConcatProperties
<1>2. DOMAIN s = 1 .. Len(s) /\ DOMAIN t = 1 .. Len(t) /\ Len(s) \in Nat /\ Len(t) \in Nat
      /\ DOMAIN (s \o t) = 1 .. Len(s) + Len(t)
  BY <1>1, Indices
<1>3. \A i \in DOMAIN s : i \in DOMAIN (s \o t) /\ (s \o t)[i] = s[i]
  BY <1>1, <1>2
<1>4. ASSUME NEW i \in DOMAIN t
      PROVE  Len(s) + i \in DOMAIN (s \o t) /\ (s \o t)[Len(s) + i] = t[i]
  <2>1. i \in 1 .. Len(t) /\ Len(s) + i \in 1 .. Len(s) + Len(t)
        /\ ~(Len(s) + i <= Len(s)) /\ (Len(s) + i) - Len(s) = i
    BY <1>2
  <2> QED BY <1>1, <1>2, <2>1
<1>5. \A i \in DOMAIN (s \o t) :
        i \in Nat /\ (i \in DOMAIN s \/ (i > Len(s) /\ i - Len(s) \in DOMAIN t))
  BY <1>2
<1> QED BY <1>1, <1>2, <1>3, <1>4, <1>5

-----------------------------------------------------------------------------
(* FillWritePipeline.                                                       *)

\* The batches that follow are those with the lowest ids, in order; fewer than
\* asked for only when there are no more.
LEMMA NextBatches ==
  ASSUME NEW rows \in SUBSET Batches, IsFiniteSet(rows),
         NEW last \in Int, NEW room \in Nat,
         NEW added \in NextMutationBatches(rows, last, room)
  PROVE  /\ added \in Seq(rows) /\ Len(added) <= room
         /\ \A i \in DOMAIN added : added[i].id > last
         /\ \A i, j \in DOMAIN added : i < j => added[i].id < added[j].id
         /\ \A b \in rows : \/ b.id <= last
                            \/ \E i \in DOMAIN added : added[i] = b
                            \/ \A i \in DOMAIN added : added[i].id < b.id
         /\ Len(added) = room \/ \A b \in rows : b.id <= last \/ \E i \in DOMAIN added : added[i] = b
<1> DEFINE later == {b \in rows : b.id > last}
           k == IF Cardinality(later) < room THEN Cardinality(later) ELSE room
<1>1. IsFiniteSet(later) /\ Cardinality(later) \in Nat
  BY FS_Subset, FS_CardinalityType
<1>2. k \in Nat /\ k <= room /\ (k = room \/ k = Cardinality(later))
  BY <1>1
<1>3. /\ added \in [1 .. k -> later]
      /\ \A i, j \in 1 .. k : i < j => added[i].id < added[j].id
      /\ \A b \in later : \/ \E i \in 1 .. k : added[i] = b
                          \/ \A i \in 1 .. k : added[i].id < b.id
  BY DEF NextMutationBatches
<1>4. (\A b \in rows : b.id \in Nat) /\ \A i \in 1 .. k : added[i].id \in Nat /\ added[i].id > last
  BY <1>3, Fields
<1>5. later \subseteq rows /\ \A b \in rows : b \in later \/ b.id <= last
  BY <1>4
<1> HIDE DEF later, k
<1>6. ASSUME k = Cardinality(later)
      PROVE  \A b \in later : \E i \in 1 .. k : added[i] = b
  <2>1. \A i, j \in 1 .. k : added[i] = added[j] => i = j
    <3>1. \A i, j \in 1 .. k : i < j => added[i] # added[j]
      BY <1>3, <1>4
    <3> QED BY <1>2, <3>1
  <2>2. added \in Injection(1 .. k, later)
    BY <1>3, <2>1 DEF Injection, IsInjective
  <2>3. Cardinality(1 .. k) = k
    BY <1>2, FS_Interval
  <2>4. added \in Surjection(1 .. k, later)
    BY <1>1, <1>6, <2>2, <2>3, FS_Injection
  <2> QED BY <2>4 DEF Surjection
<1>7. DOMAIN added = 1 .. k /\ added \in Seq(rows) /\ Len(added) = k
  <2>1. added \in [1 .. k -> rows]
    BY <1>3, <1>5
  <2> QED BY <1>2, <2>1
<1> QED BY <1>2, <1>3, <1>4, <1>5, <1>6, <1>7

LEMMA ConcatWrites ==
  ASSUME NEW m \in Seq(Writes), NEW n \in Seq(Writes)
  PROVE  /\ m \o n \in Seq(Writes) /\ Len(m \o n) = Len(m) + Len(n)
         /\ \A i \in DOMAIN m : (m \o n)[i] = m[i]
         /\ \A i \in DOMAIN n : /\ Len(m) + i \in DOMAIN (m \o n)
                                /\ (m \o n)[Len(m) + i] = n[i]
         /\ \A l \in Seq(Writes) : l \o (m \o n) = (l \o m) \o n
<1>1. /\ m \o n \in Seq(Writes) /\ Len(m \o n) = Len(m) + Len(n)
      /\ \A i \in DOMAIN m : (m \o n)[i] = m[i]
      /\ \A i \in DOMAIN n : /\ Len(m) + i \in DOMAIN (m \o n)
                                /\ (m \o n)[Len(m) + i] = n[i]
  BY Concat
<1>2. ASSUME NEW l \in Seq(Writes)
      PROVE  l \o (m \o n) = (l \o m) \o n
  BY ConcatAssociative
<1> QED BY <1>1, <1>2

\* The writes of batches, in order.
LEMMA MutationsOf ==
  ASSUME NEW p \in Seq(Batches)
  PROVE  /\ Mutations(p) \in Seq(Writes) /\ Len(Mutations(p)) = Len(p)
         /\ \A i \in DOMAIN p : i \in DOMAIN Mutations(p) /\ Mutations(p)[i] = p[i].w
<1>1. DOMAIN p = 1 .. Len(p) /\ Len(p) \in Nat /\ \A i \in 1 .. Len(p) : p[i].w \in Writes
  BY Indices, Fields
<1>2. Mutations(p) \in [1 .. Len(p) -> Writes]
  BY <1>1 DEF Mutations
<1>3. Mutations(p) \in Seq(Writes) /\ Len(Mutations(p)) = Len(p)
  BY <1>1, <1>2
<1> QED BY <1>1, <1>3 DEF Mutations

LEMMA MutationsConcat ==
  ASSUME NEW p \in Seq(Batches), NEW q \in Seq(Batches)
  PROVE  Mutations(p \o q) = Mutations(p) \o Mutations(q)
<1> DEFINE f == p \o q
           m == Mutations(p)
           n == Mutations(q)
<1>1. /\ f \in Seq(Batches) /\ Len(f) = Len(p) + Len(q)
      /\ DOMAIN f = 1 .. Len(p) + Len(q)
      /\ \A i \in DOMAIN p : i \in DOMAIN f /\ f[i] = p[i]
      /\ \A i \in DOMAIN q : Len(p) + i \in DOMAIN f /\ f[Len(p) + i] = q[i]
      /\ \A i \in DOMAIN f :
           i \in Nat /\ (i \in DOMAIN p \/ (i > Len(p) /\ i - Len(p) \in DOMAIN q))
  BY Concat
<1>2. /\ m \in Seq(Writes) /\ n \in Seq(Writes) /\ Len(m) = Len(p) /\ Len(n) = Len(q)
      /\ \A i \in DOMAIN p : i \in DOMAIN m /\ m[i] = p[i].w
      /\ \A i \in DOMAIN q : i \in DOMAIN n /\ n[i] = q[i].w
  BY MutationsOf
<1>3. /\ Mutations(f) \in Seq(Writes) /\ Len(Mutations(f)) = Len(p) + Len(q)
      /\ \A i \in DOMAIN f : Mutations(f)[i] = f[i].w
  BY <1>1, MutationsOf
<1> HIDE DEF f, m, n
<1>4. /\ m \o n \in Seq(Writes) /\ Len(m \o n) = Len(p) + Len(q)
      /\ \A i \in DOMAIN m : (m \o n)[i] = m[i]
      /\ \A i \in DOMAIN n : (m \o n)[Len(p) + i] = n[i]
  <2>1. m \in Seq(Writes) /\ n \in Seq(Writes) /\ Len(m) = Len(p) /\ Len(n) = Len(q)
    BY <1>2
  <2>2. /\ m \o n \in Seq(Writes) /\ Len(m \o n) = Len(m) + Len(n)
        /\ \A i \in DOMAIN m : (m \o n)[i] = m[i]
        /\ \A i \in DOMAIN n : (m \o n)[Len(m) + i] = n[i]
    BY <2>1, ConcatWrites
  <2> QED BY <2>1, <2>2
<1>5. ASSUME NEW i \in 1 .. Len(p) + Len(q)
      PROVE  Mutations(f)[i] = (m \o n)[i]
  <2>1. CASE i \in DOMAIN p
    <3>1. Mutations(f)[i] = p[i].w
      BY <1>1, <1>3, <2>1
    <3>2. (m \o n)[i] = p[i].w
      BY <1>2, <1>4, <2>1
    <3> QED BY <3>1, <3>2
  <2>2. CASE i > Len(p) /\ i - Len(p) \in DOMAIN q
    <3>1. PICK j \in DOMAIN q : j = i - Len(p)
      BY <2>2
    <3>2. i = Len(p) + j
      BY <3>1, Indices
    <3>3. Mutations(f)[i] = q[j].w
      BY <1>1, <1>3, <3>2
    <3>4. (m \o n)[i] = q[j].w
      BY <1>2, <1>4, <3>2
    <3> QED BY <3>3, <3>4
  <2> QED BY <1>1, <2>1, <2>2
<1>6. Mutations(f) = m \o n
  BY <1>3, <1>4, <1>5, SeqEqual
<1> QED BY <1>6 DEF f, m, n

\* The id of the last batch is the highest of a pipeline.
LEMMA LastIds ==
  ASSUME NEW p \in Seq(Batches), NEW rows, Lined(p, rows)
  PROVE  /\ LastId(p) \in Int
         /\ p = <<>> => LastId(p) = kBatchIdUnknown
         /\ p # <<>> => Len(p) \in DOMAIN p /\ LastId(p) = p[Len(p)].id
         /\ \A i \in DOMAIN p : p[i].id \in Nat /\ p[i].id <= LastId(p)
<1>1. DOMAIN p = 1 .. Len(p) /\ Len(p) \in Nat /\ \A i \in 1 .. Len(p) : p[i].id \in Nat
  BY Indices, Fields
<1>2. CASE p = <<>>
  BY <1>1, <1>2 DEF LastId, kBatchIdUnknown
<1>3. CASE p # <<>>
  <2>1. Len(p) \in 1 .. Len(p) /\ LastId(p) = p[Len(p)].id
    BY <1>1, <1>3 DEF LastId
  <2>2. \A i \in 1 .. Len(p) : i < Len(p) => p[i].id < p[Len(p)].id
    BY <1>1, <2>1 DEF Lined
  <2> QED BY <1>1, <1>3, <2>1, <2>2
<1> QED BY <1>2, <1>3

\* The next batches at the end of a pipeline that is in line.
LEMMA LinedConcat ==
  ASSUME NEW rows \in SUBSET Batches, IsFiniteSet(rows),
         NEW p \in Seq(Batches), Lined(p, rows),
         NEW room \in Nat, Len(p) + room <= MaxPendingWrites,
         NEW added \in NextMutationBatches(rows, LastId(p), room)
  PROVE  /\ added \in Seq(Batches) /\ Len(added) <= room
         /\ Lined(p \o added, rows)
         /\ Len(p) + room = MaxPendingWrites => Full(p \o added, rows)
<1> DEFINE full == p \o added
<1>1. LastId(p) \in Int /\ \A i \in DOMAIN p : p[i].id \in Nat /\ p[i].id <= LastId(p)
  BY LastIds
<1>2. /\ added \in Seq(rows) /\ Len(added) <= room
      /\ \A i \in DOMAIN added : added[i].id > LastId(p)
      /\ \A i, j \in DOMAIN added : i < j => added[i].id < added[j].id
      /\ \A b \in rows : \/ b.id <= LastId(p)
                         \/ \E i \in DOMAIN added : added[i] = b
                         \/ \A i \in DOMAIN added : added[i].id < b.id
      /\ \/ Len(added) = room
         \/ \A b \in rows : b.id <= LastId(p) \/ \E i \in DOMAIN added : added[i] = b
  BY <1>1, NextBatches
<1>3. /\ added \in Seq(Batches) /\ Len(p) \in Nat /\ Len(added) \in Nat
      /\ DOMAIN added = 1 .. Len(added) /\ DOMAIN p = 1 .. Len(p)
      /\ \A i \in DOMAIN added : added[i] \in rows
  <2>1. added \in Seq(rows)
    BY <1>2
  <2>2. added \in Seq(Batches)
    BY <2>1
  <2> QED BY <2>1, <2>2, Indices
<1>4. \A i \in DOMAIN added : added[i].id \in Nat
  BY <1>3, Fields
<1>5. /\ full \in Seq(Batches) /\ Len(full) = Len(p) + Len(added)
      /\ DOMAIN full = 1 .. Len(p) + Len(added)
      /\ \A i \in DOMAIN p : i \in DOMAIN full /\ full[i] = p[i]
      /\ \A i \in DOMAIN added : Len(p) + i \in DOMAIN full /\ full[Len(p) + i] = added[i]
      /\ \A i \in DOMAIN full :
           i \in Nat /\ (i \in DOMAIN p \/ (i > Len(p) /\ i - Len(p) \in DOMAIN added))
  BY <1>3, Concat
<1> HIDE DEF full
<1>6. ASSUME NEW i \in DOMAIN full
      PROVE  \/ i \in DOMAIN p
             \/ \E k \in DOMAIN added : k \in Nat /\ i = Len(p) + k /\ full[i] = added[k]
  <2>1. CASE i > Len(p) /\ i - Len(p) \in DOMAIN added
    <3>1. PICK k \in DOMAIN added : k = i - Len(p)
      BY <2>1
    <3>2. k \in Nat /\ i = Len(p) + k
      BY <1>3, <1>5, <3>1
    <3> QED BY <1>5, <3>1, <3>2
  <2> QED BY <1>5, <2>1
<1>7. \A i \in DOMAIN full : full[i] \in rows
  BY <1>3, <1>5, <1>6 DEF Lined
<1>8. ASSUME NEW i \in DOMAIN full, NEW j \in DOMAIN full, i < j
      PROVE  full[i].id < full[j].id
  <2>1. CASE i \in DOMAIN p /\ j \in DOMAIN p
    BY <1>5, <1>8, <2>1 DEF Lined
  <2>2. CASE i \in DOMAIN p /\ \E k \in DOMAIN added : full[j] = added[k]
    <3>1. PICK k \in DOMAIN added : full[j] = added[k]
      BY <2>2
    <3>2. full[i] = p[i] /\ p[i].id \in Nat /\ p[i].id <= LastId(p)
      BY <1>1, <1>5, <2>2
    <3>3. added[k].id \in Nat /\ added[k].id > LastId(p)
      BY <1>2, <1>4
    <3> QED BY <1>1, <3>1, <3>2, <3>3
  <2>3. CASE \E k \in DOMAIN added : k \in Nat /\ i = Len(p) + k /\ full[i] = added[k]
    <3>1. PICK k \in DOMAIN added : k \in Nat /\ i = Len(p) + k /\ full[i] = added[k]
      BY <2>3
    <3>2. j \notin DOMAIN p
      <4>1. k >= 1
        BY <1>3
      <4> QED BY <1>3, <1>5, <1>8, <3>1, <4>1
    <3>3. PICK l \in DOMAIN added : l \in Nat /\ j = Len(p) + l /\ full[j] = added[l]
      BY <1>6, <3>2
    <3>4. k < l
      BY <1>3, <1>8, <3>1, <3>3
    <3> QED BY <1>2, <3>1, <3>3, <3>4
  <2> QED BY <1>6, <2>1, <2>2, <2>3
<1>9. ASSUME NEW b \in rows, ~ \E i \in DOMAIN full : full[i] = b
      PROVE  LastId(full) < b.id
  <2>1. (\A i \in DOMAIN p : p[i] # b) /\ (\A i \in DOMAIN added : added[i] # b)
    BY <1>5, <1>9
  <2>2. LastId(p) < b.id /\ b.id \in Nat
    BY <2>1, Fields DEF Lined
  <2>3. \A i \in DOMAIN added : added[i].id < b.id
    BY <1>1, <1>2, <2>1, <2>2
  <2>4. CASE added = <<>>
    <3>1. full = p
      BY <2>4, ConcatEmptySeq DEF full
    <3> QED BY <2>2, <3>1
  <2>5. CASE added # <<>>
    <3>1. Len(added) \in DOMAIN added
      BY <1>3, <2>5
    <3>2. full[Len(full)] = added[Len(added)]
      BY <1>5, <3>1
    <3>3. full # <<>>
      <4>1. Len(full) # 0
        BY <1>3, <1>5, <3>1
      <4> QED BY <4>1
    <3> QED BY <2>3, <3>1, <3>2, <3>3 DEF LastId
  <2> QED BY <2>4, <2>5
<1>10. Len(full) <= MaxPendingWrites
  <2>1. Len(added) <= room /\ Len(p) \in Nat /\ Len(added) \in Nat
        /\ Len(full) = Len(p) + Len(added)
    BY <1>2, <1>3, <1>5
  <2>2. MaxPendingWrites \in Nat
    BY PipelineAssumption
  <2> QED BY <2>1, <2>2
<1>11. Lined(full, rows)
  BY <1>7, <1>8, <1>9, <1>10 DEF Lined
<1>12. ASSUME Len(p) + room = MaxPendingWrites
       PROVE  Full(full, rows)
  <2>1. CASE Len(added) = room
    BY <1>5, <1>12, <2>1 DEF Full
  <2>2. CASE \A b \in rows : b.id <= LastId(p) \/ \E i \in DOMAIN added : added[i] = b
    <3>1. ASSUME NEW b \in rows
          PROVE  \E i \in DOMAIN full : full[i] = b
      <4>1. CASE b.id <= LastId(p)
        <5>1. ~(LastId(p) < b.id)
          BY <1>1, <4>1, Fields
        <5> QED BY <1>5, <5>1 DEF Lined
      <4> QED BY <1>5, <2>2, <4>1
    <3> QED BY <3>1 DEF Full
  <2> QED BY <1>2, <2>1, <2>2
<1> QED BY <1>2, <1>3, <1>11, <1>12 DEF full

\* What FillWritePipeline needs to know of the pipeline, the stream and the call it
\* is given, and what is right when it returns.
LEMMA FillFacts ==
  ASSUME NEW on \in BOOLEAN, NEW rows \in SUBSET Batches, IsFiniteSet(rows),
         NEW p \in Seq(Batches), NEW s \in Streams, NEW c \in Calls_,
         Lined(p, rows), Fits(on, p, s, c), ~on => p = <<>>,
         FillWritePipeline(on, rows, p, s, c)
  PROVE  /\ pipeline' \in Seq(Batches) /\ stream' \in Streams /\ call' \in Calls_
         /\ Lined(pipeline', rows) /\ (on => Full(pipeline', rows))
         /\ Fits(on, pipeline', stream', call')
         /\ Runs(on, pipeline', stream')
         /\ call'.user = c.user /\ call'.in = c.in /\ call'.end = c.end
         /\ stream'.state = "Open" <=> s.state = "Open"
         /\ IsStarted(s) => stream'.state = s.state /\ stream'.asked = s.asked
<1> DEFINE room == IF on THEN MaxPendingWrites - Len(p) ELSE 0
<1>1. PICK added \in NextMutationBatches(rows, LastId(p), room) :
        LET full == p \o added IN
        /\ pipeline' = full
        /\ call' = IF IsReady(s)
                   THEN [c EXCEPT !.out = @ \o [i \in DOMAIN added |-> added[i].w]]
                   ELSE c
        /\ stream' = CASE on /\ full = <<>> /\ s.state = "Open" -> [s EXCEPT !.idle = TRUE]
                       [] IsReady(s) /\ added # <<>> -> [s EXCEPT !.idle = FALSE]
                       [] on /\ full # <<>> /\ ~IsStarted(s) -> Start(s)
                       [] OTHER -> s
  BY DEF FillWritePipeline
<1> DEFINE full == p \o added
           ws == Mutations(added)
<1>2. /\ pipeline' = full
      /\ call' = IF IsReady(s) THEN [c EXCEPT !.out = @ \o ws] ELSE c
      /\ stream' = CASE on /\ full = <<>> /\ s.state = "Open" -> [s EXCEPT !.idle = TRUE]
                     [] IsReady(s) /\ added # <<>> -> [s EXCEPT !.idle = FALSE]
                     [] on /\ full # <<>> /\ ~IsStarted(s) -> Start(s)
                     [] OTHER -> s
  BY <1>1 DEF Mutations
<1>3. /\ room \in Nat /\ Len(p) + room <= MaxPendingWrites
      /\ on => Len(p) + room = MaxPendingWrites
      /\ ~on => room = 0
  <2>1. Len(p) \in Nat /\ Len(p) <= MaxPendingWrites /\ MaxPendingWrites \in Nat
    BY PipelineAssumption DEF Lined
  <2> QED BY <2>1
<1> HIDE DEF room
<1>4. /\ added \in Seq(Batches) /\ Len(added) <= room
      /\ Lined(full, rows) /\ (on => Full(full, rows))
  BY <1>1, <1>3, LinedConcat
<1>5. full \in Seq(Batches) /\ (full = <<>> <=> p = <<>> /\ added = <<>>)
  BY <1>4, ConcatProperties, ConcatEqualIffEmpty
<1>6. ~on => added = <<>> /\ full = <<>>
  <2>1. ~on => added = <<>>
    BY <1>3, <1>4
  <2> QED BY <1>5, <2>1
<1>7. ws \in Seq(Writes) /\ Mutations(full) = Mutations(p) \o ws
  BY <1>4, MutationsOf, MutationsConcat
<1> HIDE DEF full, ws
<1>8. call' \in Calls_ /\ call'.user = c.user /\ call'.in = c.in /\ call'.end = c.end
      /\ call'.hello = c.hello /\ call'.out = IF IsReady(s) THEN c.out \o ws ELSE c.out
  <2>1. c.out \o ws \in Seq(Writes)
    BY <1>7 DEF Calls_
  <2> QED BY <1>2, <2>1 DEF Calls_
<1>9. stream' \in Streams
  BY <1>2 DEF Streams, Start
<1>10. /\ stream'.state = "Open" <=> s.state = "Open"
       /\ IsStarted(s) => stream'.state = s.state /\ stream'.asked = s.asked
       /\ stream'.handshake = s.handshake
       /\ "current" \in stream'.asked => stream'.state = "Starting"
  BY <1>2 DEF Streams, Start, IsStarted, Fits
<1>11. Runs(on, full, stream')
  BY <1>2, <1>6 DEF Runs, Start, IsStarted, IsReady, Fits, Streams
<1>12. /\ IsStarted(stream') => on
       /\ IsStarted(stream') /\ ~stream'.handshake => full # <<>>
       /\ stream'.idle => full = <<>> /\ stream'.state = "Open"
  BY <1>2, <1>5, <1>6 DEF Start, IsStarted, IsReady, Fits, Streams
<1>13. IsReady(s) <=> s.handshake
  BY DEF IsReady, Fits, Streams
<1>14. s.handshake => call'.in \o call'.out = Mutations(full)
  <2>1. c.in \in Seq(Writes) /\ c.out \in Seq(Writes)
    BY DEF Calls_
  <2>2. c.in \o (c.out \o ws) = (c.in \o c.out) \o ws
    <3>1. ws \in Seq(Writes)
      BY <1>7
    <3> QED BY <2>1, <3>1, ConcatWrites
  <2> QED BY <1>7, <1>8, <1>13, <2>2 DEF Fits
<1>15. call'.end = "permanent" =>
         call'.hello = "asked" \/ (call'.out # <<>> /\ Head(call'.out) \in Bad)
  <2>1. c.out \in Seq(Writes)
    BY DEF Calls_
  <2>2. c.out # <<>> => c.out \o ws # <<>> /\ Head(c.out \o ws) = Head(c.out)
    BY <1>7, <2>1
  <2> QED BY <1>8, <2>2 DEF Fits
<1>16. Fits(on, full, stream', call')
  BY <1>8, <1>10, <1>12, <1>13, <1>14, <1>15 DEF Fits
<1> QED BY <1>2, <1>4, <1>5, <1>8, <1>9, <1>10, <1>11, <1>16

\* The same with the network enabled.
LEMMA FillOn ==
  ASSUME NEW rows \in SUBSET Batches, IsFiniteSet(rows),
         NEW p \in Seq(Batches), NEW s \in Streams, NEW c \in Calls_,
         Lined(p, rows), Fits(TRUE, p, s, c), FillWritePipeline(TRUE, rows, p, s, c)
  PROVE  /\ pipeline' \in Seq(Batches) /\ stream' \in Streams /\ call' \in Calls_
         /\ Lined(pipeline', rows) /\ Full(pipeline', rows)
         /\ Fits(TRUE, pipeline', stream', call') /\ Runs(TRUE, pipeline', stream')
         /\ call'.user = c.user /\ call'.in = c.in /\ call'.end = c.end
         /\ stream'.state = "Open" <=> s.state = "Open"
         /\ IsStarted(s) => stream'.state = s.state /\ stream'.asked = s.asked
<1>1. PICK on \in BOOLEAN : on
  OBVIOUS
<1>2. FillWritePipeline(on, rows, p, s, c) /\ Fits(on, p, s, c)
  BY <1>1, Zenon
<1>3. /\ pipeline' \in Seq(Batches) /\ stream' \in Streams /\ call' \in Calls_
      /\ Lined(pipeline', rows) /\ (on => Full(pipeline', rows))
      /\ Fits(on, pipeline', stream', call') /\ Runs(on, pipeline', stream')
      /\ call'.user = c.user /\ call'.in = c.in /\ call'.end = c.end
      /\ stream'.state = "Open" <=> s.state = "Open"
      /\ IsStarted(s) => stream'.state = s.state /\ stream'.asked = s.asked
  BY <1>1, <1>2, FillFacts
<1>4. Fits(TRUE, pipeline', stream', call') /\ Runs(TRUE, pipeline', stream')
  BY <1>1, <1>3 DEF Fits, Runs
<1> QED BY <1>1, <1>3, <1>4

-----------------------------------------------------------------------------
(* The head of the pipeline.                                                *)

LEMMA HeadTail ==
  ASSUME NEW S, NEW s \in Seq(S), s # <<>>
  PROVE  /\ Head(s) \in S /\ Head(s) = s[1] /\ 1 \in DOMAIN s
         /\ Tail(s) \in Seq(S) /\ Len(Tail(s)) = Len(s) - 1
         /\ \A i \in DOMAIN Tail(s) : i + 1 \in DOMAIN s /\ Tail(s)[i] = s[i + 1]
         /\ \A i \in DOMAIN s : i = 1 \/ (i - 1 \in DOMAIN Tail(s) /\ Tail(s)[i - 1] = s[i])
<1>1. DOMAIN s = 1 .. Len(s) /\ Len(s) \in Nat /\ Len(s) # 0 /\ \A i \in DOMAIN s : s[i] \in S
  OBVIOUS
<1>2. Head(s) = s[1] /\ Tail(s) \in Seq(S) /\ Len(Tail(s)) = Len(s) - 1
      /\ \A i \in 1 .. Len(s) - 1 : Tail(s)[i] = s[i + 1]
  OBVIOUS
<1>3. DOMAIN Tail(s) = 1 .. Len(s) - 1
  BY <1>2
<1> QED BY <1>1, <1>2, <1>3

\* The head has the lowest id of all rows, and the rest of the pipeline is in line
\* with the rest of the rows.
LEMMA LinedTail ==
  ASSUME NEW rows \in SUBSET Batches, \A a, b \in rows : a.id = b.id => a = b,
         NEW p \in Seq(Batches), p # <<>>, Lined(p, rows),
         NEW rest, rest = {b \in rows : b.id # Head(p).id}
  PROVE  /\ Head(p) \in rows /\ rest = rows \ {Head(p)}
         /\ \A b \in rows : Head(p).id <= b.id
         /\ Tail(p) \in Seq(Batches) /\ Lined(Tail(p), rest)
<1>1. /\ Head(p) \in Batches /\ Head(p) = p[1] /\ 1 \in DOMAIN p
      /\ Tail(p) \in Seq(Batches) /\ Len(Tail(p)) = Len(p) - 1
      /\ \A i \in DOMAIN Tail(p) : i + 1 \in DOMAIN p /\ Tail(p)[i] = p[i + 1]
      /\ \A i \in DOMAIN p : i = 1 \/ (i - 1 \in DOMAIN Tail(p) /\ Tail(p)[i - 1] = p[i])
  BY HeadTail
<1>2. DOMAIN p = 1 .. Len(p) /\ Len(p) \in Nat /\ DOMAIN Tail(p) = 1 .. Len(p) - 1
  BY <1>1, Indices
<1>3. /\ Len(p) <= MaxPendingWrites
      /\ \A i \in DOMAIN p : p[i] \in rows
      /\ \A i, j \in DOMAIN p : i < j => p[i].id < p[j].id
      /\ \A b \in rows : (\E i \in DOMAIN p : p[i] = b) \/ LastId(p) < b.id
  BY DEF Lined
<1>4. LastId(p) = p[Len(p)].id /\ Len(p) \in DOMAIN p
      /\ \A i \in DOMAIN p : p[i].id \in Nat /\ p[i].id <= LastId(p)
  BY LastIds
<1>5. \A i \in DOMAIN p : Head(p).id <= p[i].id /\ (i # 1 => Head(p).id < p[i].id)
  <2>1. \A i \in DOMAIN p : i = 1 \/ 1 < i
    BY <1>2
  <2> QED BY <1>1, <1>3, <1>4, <2>1
<1>6. Head(p) \in rows /\ rest = rows \ {Head(p)}
  BY <1>1, <1>3
<1>7. ASSUME NEW b \in rows
      PROVE  Head(p).id <= b.id
  <2>1. CASE LastId(p) < b.id
    <3>1. Head(p).id <= LastId(p) /\ LastId(p) \in Nat /\ Head(p).id \in Nat /\ b.id \in Nat
      BY <1>1, <1>4, Fields
    <3> QED BY <2>1, <3>1
  <2> QED BY <1>3, <1>5, <2>1
<1>8. \A i \in DOMAIN Tail(p) : Tail(p)[i] \in rest
  <2>1. ASSUME NEW i \in DOMAIN Tail(p)
        PROVE  Tail(p)[i] \in rows /\ Head(p).id < Tail(p)[i].id
    <3>1. i + 1 \in DOMAIN p /\ i + 1 # 1 /\ Tail(p)[i] = p[i + 1]
      BY <1>1, <1>2
    <3> QED BY <1>3, <1>5, <3>1
  <2>2. \A i \in DOMAIN Tail(p) : Tail(p)[i].id # Head(p).id
    BY <1>1, <1>7, <2>1, Fields
  <2> QED BY <2>1, <2>2
<1>9. ASSUME NEW i \in DOMAIN Tail(p), NEW j \in DOMAIN Tail(p), i < j
      PROVE  Tail(p)[i].id < Tail(p)[j].id
  <2>1. i + 1 < j + 1
    BY <1>2, <1>9
  <2> QED BY <1>1, <1>3, <2>1
<1>10. ASSUME NEW b \in rest
       PROVE  (\E i \in DOMAIN Tail(p) : Tail(p)[i] = b) \/ LastId(Tail(p)) < b.id
  <2>1. b \in rows /\ b # Head(p) /\ b.id \in Nat
    BY <1>6, Fields
  <2>2. CASE \E i \in DOMAIN p : p[i] = b
    <3>1. PICK i \in DOMAIN p : p[i] = b
      BY <2>2
    <3>2. i # 1
      BY <1>1, <2>1, <3>1
    <3> QED BY <1>1, <3>1, <3>2
  <2>3. CASE LastId(p) < b.id
    <3>1. CASE Tail(p) = <<>>
      BY <2>1, <3>1 DEF LastId, kBatchIdUnknown
    <3>2. CASE Tail(p) # <<>>
      <4>1. Len(p) - 1 \in DOMAIN Tail(p)
        <5>1. Len(Tail(p)) # 0
          BY <1>1, <3>2
        <5> QED BY <1>1, <1>2, <5>1
      <4>2. Tail(p)[Len(Tail(p))] = p[Len(p)]
        BY <1>1, <1>2, <4>1
      <4>3. LastId(Tail(p)) = LastId(p)
        BY <1>4, <3>2, <4>2 DEF LastId
      <4> QED BY <2>3, <4>3
    <3> QED BY <3>1, <3>2
  <2> QED BY <1>3, <2>1, <2>2, <2>3
<1>11. Len(Tail(p)) <= MaxPendingWrites
  <2>1. MaxPendingWrites \in Nat
    BY PipelineAssumption
  <2> QED BY <1>1, <1>2, <1>3, <2>1
<1>12. Lined(Tail(p), rest)
  BY <1>8, <1>9, <1>10, <1>11 DEF Lined
<1> QED BY <1>1, <1>6, <1>7, <1>12

LEMMA MutationsHead ==
  ASSUME NEW p \in Seq(Batches), p # <<>>
  PROVE  /\ Mutations(p) # <<>> /\ Head(Mutations(p)) = Head(p).w
         /\ Mutations(Tail(p)) = Tail(Mutations(p))
<1>1. /\ Head(p) = p[1] /\ 1 \in DOMAIN p
      /\ Tail(p) \in Seq(Batches) /\ Len(Tail(p)) = Len(p) - 1
      /\ \A i \in DOMAIN Tail(p) : i + 1 \in DOMAIN p /\ Tail(p)[i] = p[i + 1]
  BY HeadTail
<1>2. /\ Mutations(p) \in Seq(Writes) /\ Len(Mutations(p)) = Len(p)
      /\ \A i \in DOMAIN p : i \in DOMAIN Mutations(p) /\ Mutations(p)[i] = p[i].w
  BY MutationsOf
<1>3. /\ Mutations(Tail(p)) \in Seq(Writes) /\ Len(Mutations(Tail(p))) = Len(p) - 1
      /\ \A i \in DOMAIN Tail(p) : Mutations(Tail(p))[i] = p[i + 1].w
  BY <1>1, MutationsOf
<1>4. Mutations(p) # <<>>
  BY <1>1, <1>2
<1> DEFINE m == Mutations(p)
           t == Mutations(Tail(p))
<1> HIDE DEF m, t
<1>5. m \in Seq(Writes) /\ m # <<>> /\ t \in Seq(Writes)
  BY <1>2, <1>3, <1>4 DEF m, t
<1>6. /\ Head(m) = m[1] /\ Tail(m) \in Seq(Writes) /\ Len(Tail(m)) = Len(m) - 1
      /\ \A i \in DOMAIN Tail(m) : Tail(m)[i] = m[i + 1]
  BY <1>5, HeadTail
<1>7. Len(Tail(m)) = Len(t)
  BY <1>2, <1>3, <1>6 DEF m, t
<1>8. ASSUME NEW i \in 1 .. Len(t)
      PROVE  t[i] = Tail(m)[i]
  <2>1. i \in DOMAIN Tail(p) /\ i \in DOMAIN Tail(m)
    <3>1. Len(t) = Len(Tail(p)) /\ Tail(p) \in Seq(Batches) /\ Tail(m) \in Seq(Writes)
      BY <1>1, <1>3, <1>6 DEF t
    <3> QED BY <1>7, <3>1
  <2>2. t[i] = p[i + 1].w /\ i + 1 \in DOMAIN p
    BY <1>1, <1>3, <2>1 DEF t
  <2>3. Tail(m)[i] = p[i + 1].w
    BY <1>2, <1>6, <2>1, <2>2 DEF m
  <2> QED BY <2>2, <2>3
<1>9. t = Tail(m)
  BY <1>5, <1>6, <1>7, <1>8, SeqEqual
<1> QED BY <1>1, <1>2, <1>4, <1>6, <1>9 DEF m, t

\* A request is answered: the first of those on the way out is the last of those on
\* the way in.
LEMMA Moves ==
  ASSUME NEW s \in Seq(Writes), NEW t \in Seq(Writes)
  PROVE  /\ t # <<>> => Append(s, Head(t)) \o Tail(t) = s \o t
         /\ s # <<>> => /\ s \o t # <<>> /\ Head(s \o t) = Head(s)
                        /\ Tail(s) \o t = Tail(s \o t)
         /\ s = <<>> => s \o t = t
<1>1. ASSUME t # <<>>
      PROVE  Append(s, Head(t)) \o Tail(t) = s \o t
  <2>1. Head(t) \in Writes /\ Tail(t) \in Seq(Writes) /\ <<Head(t)>> \o Tail(t) = t
    BY <1>1, HeadTailProperties
  <2>2. Append(s, Head(t)) = s \o <<Head(t)>>
    BY <2>1, AppendIsConcat
  <2> QED BY <2>1, <2>2, ConcatWrites
<1>2. ASSUME s # <<>>
      PROVE  s \o t # <<>> /\ Head(s \o t) = Head(s) /\ Tail(s) \o t = Tail(s \o t)
  <2>1. Head(s) \in Writes /\ Tail(s) \in Seq(Writes) /\ <<Head(s)>> \o Tail(s) = s
    BY <1>2, HeadTailProperties
  <2> QED BY <1>2, <2>1
<1>3. s = <<>> => s \o t = t
  OBVIOUS
<1> QED BY <1>1, <1>2, <1>3

-----------------------------------------------------------------------------
(* What several actions do alike.                                           *)

\* A call that is given up: the backend may have applied a few more writes, and
\* none that it refuses.
LEMMA FlushedFacts ==
  ASSUME IInv, NEW now \in Flushed
  PROVE  committed \subseteq now /\ now \subseteq Writes /\ now \cap Bad = {}
<1>1. call.out \in Seq(Writes) /\ committed \subseteq Writes /\ committed \cap Bad = {}
  BY DEF IInv, Types, Calls_, Kept
<1>2. PICK n \in 0 .. Len(call.out) :
        /\ now = committed \cup {call.out[i] : i \in 1 .. n}
        /\ \A i \in 1 .. n : call.out[i] \notin Bad
  BY DEF Flushed
<1>3. \A i \in 1 .. n : call.out[i] \in Writes
  BY <1>1, <1>2
<1> QED BY <1>1, <1>2, <1>3

\* A stream that is closed or new fits any pipeline.
LEMMA HungUpFits ==
  ASSUME NEW on \in BOOLEAN, NEW p, NEW s \in Streams, NEW c \in Calls_,
         NEW u \in Users, c = NoCall(u),
         s.state \in {"Initial", "Error"}, ~s.handshake, ~s.idle, "current" \notin s.asked
  PROVE  Fits(on, p, s, c)
BY DEF Fits, NoCall, Calls_, IsStarted, Streams

LEMMA NoCallType ==
  ASSUME NEW u \in Users
  PROVE  NoCall(u) \in Calls_ /\ NoCall(u).in = <<>> /\ NoCall(u).user = u
         /\ NoCall(u).end = "none" /\ NoCall(u).out = <<>>
BY DEF NoCall, Calls_

LEMMA ClosedFacts ==
  ASSUME NEW s \in Streams, NEW to \in {"Initial", "Error"}
  PROVE  /\ Closed(s, to) \in Streams /\ Closed(s, to).state = to
         /\ ~Closed(s, to).handshake /\ ~Closed(s, to).idle
         /\ "current" \notin Closed(s, to).asked
         /\ ~IsStarted(Closed(s, to))
BY DEF Closed, Streams, IsStarted

\* The answer to a request for a token before the stream was closed is dropped.
LEMMA StaleFacts ==
  ASSUME NEW js \in Seq(Jobs)
  PROVE  /\ Stale(js) \in Seq(Jobs) /\ DOMAIN Stale(js) = DOMAIN js
         /\ \A i \in DOMAIN js : /\ Stale(js)[i].kind = js[i].kind
                                 /\ Stale(js)[i].user = js[i].user
                                 /\ ~Stale(js)[i].fresh
<1>1. DOMAIN js = 1 .. Len(js) /\ Len(js) \in Nat /\ \A i \in DOMAIN js : js[i] \in Jobs
  BY Indices
<1>2. \A i \in DOMAIN js : Stale(js)[i] = [js[i] EXCEPT !.fresh = FALSE]
  BY DEF Stale
<1>3. \A i \in DOMAIN js : /\ Stale(js)[i] \in Jobs
                           /\ Stale(js)[i].kind = js[i].kind
                           /\ Stale(js)[i].user = js[i].user
                           /\ Stale(js)[i].fresh = FALSE
  BY <1>1, <1>2 DEF Jobs
<1>4. Stale(js) \in [1 .. Len(js) -> Jobs]
  BY <1>1, <1>3 DEF Stale
<1> QED BY <1>1, <1>3, <1>4

LEMMA BatchIdsAreNumbers ==
  ASSUME table \in [Users -> SUBSET Batches]
  PROVE  BatchIds(table) \subseteq Nat
<1>1. \A u \in Users : \A b \in table[u] : b.id \in Nat
  BY Fields
<1> QED BY <1>1 DEF BatchIds

\* The promises about writes survive a step that neither makes nor settles one.
LEMMA KeptQuiet ==
  ASSUME IInv, UNCHANGED <<table, nextId, user, callbacks, waits, made, accepted, rejected, waited>>,
         committed \subseteq committed', committed' \cap Bad = {},
         \A i \in DOMAIN call'.in : call'.in[i] \in committed'
  PROVE  Kept'
<1>1. Settled \subseteq Settled'
  BY DEF Settled
<1>2. Rows(table, nextId)' /\ CallbacksAreQueued'
  BY DEF IInv, Kept, Rows, CallbacksAreQueued
<1>3. (\A u \in Users : Queued(u) \subseteq MadeBy(u) /\ MadeBy(u) \ Queued(u) \subseteq Settled)'
  BY <1>1 DEF IInv, Kept, Queued, MadeBy
<1>4. (\A x \in waits : \A w \in x.need :
         w \in Settled \/ \E b \in table[user] : b.w = w /\ b.id <= x.id)'
  BY <1>1 DEF IInv, Kept
<1>5. (/\ committed \cap Bad = {} /\ accepted \subseteq committed /\ rejected \subseteq Bad
       /\ waited \subseteq Settled)'
  BY <1>1 DEF IInv, Kept
<1> QED BY <1>2, <1>3, <1>4, <1>5 DEF Kept

\* They survive a step after which nobody waits for a callback any more, when what
\* was said before is true.
LEMMA KeptForgotten ==
  ASSUME IInv, UNCHANGED <<table, made>>, callbacks' \subseteq callbacks, waits' = {},
         nextId' \in LoadNextBatchIdFromDb(table),
         committed \subseteq committed', committed' \cap Bad = {},
         accepted' \subseteq committed', rejected' \subseteq Bad, waited' \subseteq Settled',
         \A i \in DOMAIN call'.in : call'.in[i] \in committed'
  PROVE  Kept'
<1>1. Settled \subseteq Settled'
  BY DEF Settled
<1>2. Rows(table, nextId)'
  <2>1. \A u \in Users : \A a \in table[u] : a.id \in BatchIds(table)
    BY DEF BatchIds
  <2>2. \A i \in BatchIds(table) : i < nextId'
    BY DEF LoadNextBatchIdFromDb
  <2> QED BY <2>1, <2>2 DEF IInv, Kept, Rows
<1>3. CallbacksAreQueued'
  BY DEF IInv, Kept, CallbacksAreQueued
<1>4. (\A u \in Users : Queued(u) \subseteq MadeBy(u) /\ MadeBy(u) \ Queued(u) \subseteq Settled)'
  BY <1>1 DEF IInv, Kept, Queued, MadeBy
<1>5. (\A x \in waits : \A w \in x.need :
         w \in Settled \/ \E b \in table[user] : b.w = w /\ b.id <= x.id)'
  OBVIOUS
<1> QED BY <1>2, <1>3, <1>4, <1>5 DEF Kept

\* They survive the answer to the first write of the pipeline, when it is the truth.
LEMMA KeptSettled ==
  ASSUME IInv, pipeline # <<>>, NEW ok \in BOOLEAN, Answer(Head(pipeline).id, ok),
         table' = Removed(table, user, Head(pipeline).id),
         UNCHANGED <<nextId, user, made>>,
         committed \subseteq committed', committed' \cap Bad = {},
         IF ok THEN Head(pipeline).w \in committed' ELSE Head(pipeline).w \in Bad,
         \A i \in DOMAIN call'.in : call'.in[i] \in committed'
  PROVE  Kept'
<1> DEFINE h == Head(pipeline)
<1>1. Settled \subseteq Settled' /\ h.w \in Settled'
  BY DEF Settled
<1>2. /\ table \in [Users -> SUBSET Batches] /\ user \in Users
      /\ pipeline \in Seq(Batches) /\ Lined(pipeline, table[user])
      /\ \A a, b \in table[user] : a.id = b.id => a = b
  BY DEF IInv, Types, Wired, Kept, Rows
<1>3. /\ table' \in [Users -> SUBSET Batches]
      /\ \A u \in Users : u # user => table'[u] = table[u]
      /\ table'[user] = {b \in table[user] : b.id # h.id}
  BY <1>2 DEF Removed
<1>4. /\ h \in table[user] /\ table'[user] = table[user] \ {h}
      /\ \A b \in table[user] : h.id <= b.id
  BY <1>2, <1>3, LinedTail
<1> HIDE DEF h
<1>5. \A u \in Users : table'[u] \subseteq table[u]
  BY <1>3, <1>4
<1>6. Rows(table, nextId)'
  <2>1. ASSUME NEW u \in Users
        PROVE  IsFiniteSet(table'[u])
    BY <1>5, FS_Subset DEF IInv, Kept, Rows
  <2> QED BY <1>5, <2>1 DEF IInv, Kept, Rows
<1>7. ASSUME NEW u \in Users
      PROVE  (Queued(u) \subseteq MadeBy(u) /\ MadeBy(u) \ Queued(u) \subseteq Settled)'
  <2>1. MadeBy(u)' = MadeBy(u)
    BY DEF MadeBy
  <2>2. Queued(u)' \subseteq Queued(u) /\ \A w \in Queued(u) : w \in Queued(u)' \/ w = h.w
    BY <1>3, <1>4 DEF Queued
  <2> QED BY <1>1, <2>1, <2>2 DEF IInv, Kept
<1>8. /\ callbacks' = callbacks \ Told(h.id)
      /\ accepted' \subseteq accepted \cup (IF ok THEN {c.w : c \in Told(h.id)} ELSE {})
      /\ rejected' \subseteq rejected \cup (IF ok THEN {} ELSE {c.w : c \in Told(h.id)})
      /\ waited' = waited \cup UNION {x.need : x \in Triggered(h.id)}
      /\ waits' = waits \ Triggered(h.id)
  BY DEF Answer, h
<1>9. CallbacksAreQueued'
  <2>1. ASSUME NEW c \in callbacks'
        PROVE  [id |-> c.id, w |-> c.w] \in table'[c.user]
    <3>1. c \in callbacks /\ ~(c.user = user /\ c.id = h.id)
      BY <1>8 DEF Told
    <3>2. [id |-> c.id, w |-> c.w] \in table[c.user] /\ c.user \in Users
      BY <3>1 DEF IInv, Types, Kept, CallbacksAreQueued
    <3> QED BY <1>3, <3>1, <3>2
  <2> QED BY <2>1 DEF CallbacksAreQueued
<1>10. \A c \in Told(h.id) : c.w = h.w
  <2>1. ASSUME NEW c \in Told(h.id)
        PROVE  c.w = h.w
    <3>1. c \in callbacks /\ c.user = user /\ c.id = h.id
      BY DEF Told
    <3>2. [id |-> c.id, w |-> c.w] \in table[user]
      BY <3>1 DEF IInv, Kept, CallbacksAreQueued
    <3>3. [id |-> c.id, w |-> c.w] = h
      BY <1>2, <1>4, <3>1, <3>2
    <3>4. [id |-> c.id, w |-> c.w].w = c.w
      OBVIOUS
    <3> QED BY <3>3, <3>4
  <2> QED BY <2>1
<1>11. /\ accepted' \subseteq committed' /\ rejected' \subseteq Bad
  <2>1. accepted \subseteq committed' /\ rejected \subseteq Bad
    BY DEF IInv, Kept
  <2>2. (ok => h.w \in committed') /\ (~ok => h.w \in Bad)
    BY DEF h
  <2> QED BY <1>8, <1>10, <2>1, <2>2
<1>12. ASSUME NEW x \in waits, NEW w \in x.need
       PROVE  \/ w \in Settled'
              \/ x.id # h.id /\ \E b \in table'[user] : b.w = w /\ b.id <= x.id
  <2>1. CASE w \in Settled \/ w = h.w
    BY <1>1, <2>1
  <2>2. CASE w \notin Settled /\ w # h.w
    <3>1. PICK b \in table[user] : b.w = w /\ b.id <= x.id
      BY <2>2 DEF IInv, Kept
    <3>2. b # h /\ b \in table'[user]
      BY <1>4, <2>2, <3>1
    <3>3. b.id # h.id /\ h.id <= b.id
      BY <1>2, <1>4, <3>2
    <3>4. b.id \in Nat /\ h.id \in Nat /\ x.id \in Nat
      BY <1>2, <1>4, Fields DEF IInv, Types
    <3> QED BY <3>1, <3>2, <3>3, <3>4
  <2> QED BY <2>1, <2>2
<1>13. (\A x \in waits : \A w \in x.need :
         w \in Settled \/ \E b \in table[user] : b.w = w /\ b.id <= x.id)'
  <2>1. user' = user /\ waits' \subseteq waits
    BY <1>8
  <2> QED BY <1>12, <2>1
<1>14. waited' \subseteq Settled'
  <2>1. \A x \in Triggered(h.id) : x \in waits /\ x.id = h.id
    BY DEF Triggered
  <2>2. UNION {x.need : x \in Triggered(h.id)} \subseteq Settled'
    BY <1>12, <2>1
  <2>3. waited \subseteq Settled'
    BY <1>1 DEF IInv, Kept
  <2> QED BY <1>8, <2>2, <2>3
<1> QED BY <1>6, <1>7, <1>9, <1>11, <1>13, <1>14 DEF Kept

-----------------------------------------------------------------------------
(* The jobs on the worker queue.                                            *)

\* The jobs stay and so do the users; a stream that is starting goes on starting,
\* and asks for no other token.
LEMMA TokensSame ==
  ASSUME Tokens, UNCHANGED <<jobs, user, credUser>>,
         stream.state = "Starting" => /\ stream'.state = "Starting"
                                      /\ "current" \in stream'.asked => "current" \in stream.asked
  PROVE  Tokens'
BY DEF Tokens, IsChange

\* A token at the head of the jobs is taken.  The tokens that are left are stale,
\* unless the one taken was and the stream stays as it is.
LEMMA TokensTail ==
  ASSUME Tokens, jobs \in Seq(Jobs), UNCHANGED <<user, credUser>>,
         jobs # <<>>, Head(jobs).kind = "token",
         NEW js, js = Tail(jobs), DOMAIN jobs' = DOMAIN js,
         \A i \in DOMAIN js :
           /\ jobs'[i].kind = js[i].kind /\ jobs'[i].user = js[i].user
           /\ jobs'[i].fresh => js[i].fresh /\ ~Head(jobs).fresh /\ stream' = stream
  PROVE  Tokens'
<1>1. /\ Head(jobs) = jobs[1] /\ DOMAIN jobs = 1 .. Len(jobs) /\ Len(jobs) \in Nat
      /\ js \in Seq(Jobs) /\ Len(js) = Len(jobs) - 1
      /\ \A i \in DOMAIN js : i + 1 \in DOMAIN jobs /\ js[i] = jobs[i + 1]
      /\ \A i \in DOMAIN jobs : i = 1 \/ (i - 1 \in DOMAIN js /\ js[i - 1] = jobs[i])
  BY HeadTail, Indices
<1>2. DOMAIN js = 1 .. Len(jobs) - 1
  BY <1>1, Indices
<1>3. ASSUME NEW i \in DOMAIN js, jobs'[i].kind = "change"
      PROVE  jobs'[i].user = credUser \/ \E j \in DOMAIN js : i < j /\ jobs'[j].kind = "change"
  <2>1. i + 1 \in DOMAIN jobs /\ jobs[i + 1].kind = "change" /\ jobs[i + 1].user = jobs'[i].user
    BY <1>1, <1>3
  <2>2. CASE jobs[i + 1].user = credUser
    BY <2>1, <2>2
  <2>3. CASE \E j \in DOMAIN jobs : i + 1 < j /\ jobs[j].kind = "change"
    <3>1. PICK j \in DOMAIN jobs : i + 1 < j /\ jobs[j].kind = "change"
      BY <2>3
    <3>2. j # 1 /\ i < j - 1
      BY <1>1, <1>2, <3>1
    <3>3. j - 1 \in DOMAIN js /\ jobs'[j - 1].kind = "change"
      BY <1>1, <3>1, <3>2
    <3> QED BY <3>2, <3>3
  <2> QED BY <2>1, <2>2, <2>3 DEF Tokens, IsChange
<1>4. user = credUser \/ \E j \in DOMAIN js : jobs'[j].kind = "change"
  <2>1. CASE \E j \in DOMAIN jobs : jobs[j].kind = "change"
    <3>1. PICK j \in DOMAIN jobs : jobs[j].kind = "change"
      BY <2>1
    <3>2. j # 1
      BY <1>1, <3>1
    <3>3. j - 1 \in DOMAIN js /\ jobs'[j - 1].kind = "change"
      BY <1>1, <3>1, <3>2
    <3> QED BY <3>3
  <2> QED BY <2>1 DEF Tokens, IsChange
<1>5. ASSUME NEW i \in DOMAIN js, jobs'[i].fresh
      PROVE  /\ i + 1 \in DOMAIN jobs /\ jobs[i + 1].fresh /\ stream' = stream
             /\ jobs'[i].kind # "change"
             /\ jobs'[i].user = user \/ \E j \in DOMAIN js : j < i /\ jobs'[j].kind = "change"
  <2>1. /\ i + 1 \in DOMAIN jobs /\ jobs[i + 1].fresh /\ stream' = stream
        /\ jobs[i + 1].kind = jobs'[i].kind /\ jobs[i + 1].user = jobs'[i].user
    BY <1>1, <1>5
  <2>2. CASE \E j \in DOMAIN jobs : j < i + 1 /\ jobs[j].kind = "change"
    <3>1. PICK j \in DOMAIN jobs : j < i + 1 /\ jobs[j].kind = "change"
      BY <2>2
    <3>2. j # 1 /\ j - 1 < i
      BY <1>1, <1>2, <3>1
    <3>3. j - 1 \in DOMAIN js /\ jobs'[j - 1].kind = "change"
      BY <1>1, <3>1, <3>2
    <3> QED BY <2>1, <3>2, <3>3 DEF Tokens, IsChange
  <2> QED BY <2>1, <2>2 DEF Tokens, IsChange
<1>6. ASSUME NEW i \in DOMAIN js, NEW k \in DOMAIN js, jobs'[i].fresh, jobs'[k].fresh
      PROVE  i = k
  <2>1. i + 1 = k + 1
    BY <1>5, <1>6 DEF Tokens
  <2> QED BY <1>2, <2>1
<1>7. \A i \in DOMAIN js : jobs'[i].fresh => stream.state = "Starting" /\ "current" \notin stream.asked
  BY <1>5 DEF Tokens
<1> QED BY <1>3, <1>4, <1>5, <1>6, <1>7 DEF Tokens, IsChange

\* The stream is closed, and all tokens on the queue are stale.
LEMMA TokensStale ==
  ASSUME Tokens, jobs \in Seq(Jobs), UNCHANGED <<user, credUser>>,
         NEW js \in Seq(Jobs),
         \/ js = jobs
         \/ jobs # <<>> /\ Head(jobs).kind = "token" /\ js = Tail(jobs),
         jobs' = Stale(js)
  PROVE  Tokens'
<1>1. /\ DOMAIN jobs' = DOMAIN js
      /\ \A i \in DOMAIN js : /\ jobs'[i].kind = js[i].kind
                              /\ jobs'[i].user = js[i].user
                              /\ ~jobs'[i].fresh
  BY StaleFacts
<1>2. CASE js = jobs
  BY <1>1, <1>2 DEF Tokens, IsChange
<1>3. CASE jobs # <<>> /\ Head(jobs).kind = "token" /\ js = Tail(jobs)
  BY <1>1, <1>3, TokensTail
<1> QED BY <1>2, <1>3

\* A change of user is taken: it was the last one, or another waits behind it.
LEMMA TokensChange ==
  ASSUME Tokens, jobs \in Seq(Jobs), jobs # <<>>, Head(jobs).kind = "change",
         user' = Head(jobs).user, credUser' = credUser,
         \/ jobs' = Stale(Tail(jobs))
         \/ jobs' = Tail(jobs) /\ stream.state # "Starting"
  PROVE  Tokens'
<1>1. /\ Head(jobs) = jobs[1] /\ 1 \in DOMAIN jobs /\ DOMAIN jobs = 1 .. Len(jobs)
      /\ Len(jobs) \in Nat
      /\ Tail(jobs) \in Seq(Jobs) /\ Len(Tail(jobs)) = Len(jobs) - 1
      /\ \A i \in DOMAIN Tail(jobs) : i + 1 \in DOMAIN jobs /\ Tail(jobs)[i] = jobs[i + 1]
      /\ \A i \in DOMAIN jobs :
           i = 1 \/ (i - 1 \in DOMAIN Tail(jobs) /\ Tail(jobs)[i - 1] = jobs[i])
  BY HeadTail, Indices
<1>2. DOMAIN Tail(jobs) = 1 .. Len(jobs) - 1
  BY <1>1, Indices
<1>3. /\ DOMAIN jobs' = DOMAIN Tail(jobs)
      /\ \A i \in DOMAIN Tail(jobs) : /\ jobs'[i].kind = jobs[i + 1].kind
                                      /\ jobs'[i].user = jobs[i + 1].user
                                      /\ ~jobs'[i].fresh
  <2>1. CASE jobs' = Stale(Tail(jobs))
    <3>1. Tail(jobs) \in Seq(Jobs)
      BY <1>1
    <3>2. /\ DOMAIN jobs' = DOMAIN Tail(jobs)
          /\ \A i \in DOMAIN Tail(jobs) : /\ jobs'[i].kind = Tail(jobs)[i].kind
                                          /\ jobs'[i].user = Tail(jobs)[i].user
                                          /\ ~jobs'[i].fresh
      BY <2>1, <3>1, StaleFacts
    <3> QED BY <1>1, <3>2
  <2>2. CASE jobs' = Tail(jobs) /\ stream.state # "Starting"
    BY <1>1, <2>2 DEF Tokens
  <2> QED BY <2>1, <2>2
<1>4. ASSUME NEW k \in DOMAIN jobs, jobs[k].kind = "change"
      PROVE  \/ jobs[k].user = credUser
             \/ \E j \in DOMAIN jobs' : k < j + 1 /\ jobs'[j].kind = "change"
  <2>1. CASE \E j \in DOMAIN jobs : k < j /\ jobs[j].kind = "change"
    <3>1. PICK j \in DOMAIN jobs : k < j /\ jobs[j].kind = "change"
      BY <2>1
    <3>2. j # 1 /\ (j - 1) + 1 = j
      BY <1>1, <3>1
    <3>3. j - 1 \in DOMAIN jobs' /\ jobs'[j - 1].kind = "change"
      BY <1>1, <1>3, <3>1, <3>2
    <3> QED BY <3>1, <3>2, <3>3
  <2> QED BY <1>4, <2>1 DEF Tokens, IsChange
<1>5. ASSUME NEW i \in DOMAIN jobs', jobs'[i].kind = "change"
      PROVE  jobs'[i].user = credUser' \/ \E j \in DOMAIN jobs' : i < j /\ jobs'[j].kind = "change"
  <2>1. i + 1 \in DOMAIN jobs /\ jobs[i + 1].kind = "change" /\ jobs[i + 1].user = jobs'[i].user
    BY <1>1, <1>3, <1>5
  <2>2. \A j \in DOMAIN jobs' : i + 1 < j + 1 => i < j
    BY <1>2, <1>3
  <2> QED BY <1>4, <2>1, <2>2
<1>6. user' = credUser' \/ \E j \in DOMAIN jobs' : jobs'[j].kind = "change"
  BY <1>1, <1>4
<1> QED BY <1>3, <1>5, <1>6 DEF Tokens, IsChange

\* The provider puts another job on the queue.
LEMMA AppendFacts ==
  ASSUME NEW js \in Seq(Jobs), NEW j \in Jobs
  PROVE  /\ Append(js, j) \in Seq(Jobs)
         /\ DOMAIN js = 1 .. Len(js) /\ Len(js) \in Nat
         /\ DOMAIN Append(js, j) = 1 .. Len(js) + 1
         /\ \A i \in DOMAIN js : i \in DOMAIN Append(js, j) /\ Append(js, j)[i] = js[i]
         /\ Append(js, j)[Len(js) + 1] = j
         /\ \A i \in DOMAIN Append(js, j) : i \in DOMAIN js \/ i = Len(js) + 1
OBVIOUS

LEMMA TokensSignIn ==
  ASSUME Tokens, jobs \in Seq(Jobs), NEW u \in Users, SignIn(u)
  PROVE  Tokens' /\ jobs' \in Seq(Jobs)
<1> DEFINE j == Job("change", u, FALSE, TRUE)
<1>1. j \in Jobs /\ j.kind = "change" /\ j.user = u /\ ~j.fresh
  BY DEF Job, Jobs
<1>2. jobs' = Append(jobs, j) /\ credUser' = u /\ user' = user /\ stream' = stream
  BY DEF SignIn, remote
<1> HIDE DEF j
<1>3. /\ jobs' \in Seq(Jobs) /\ DOMAIN jobs' = 1 .. Len(jobs) + 1
      /\ DOMAIN jobs = 1 .. Len(jobs) /\ Len(jobs) \in Nat
      /\ \A i \in DOMAIN jobs : i \in DOMAIN jobs' /\ jobs'[i] = jobs[i]
      /\ jobs'[Len(jobs) + 1] = j /\ Len(jobs) + 1 \in DOMAIN jobs'
      /\ \A i \in DOMAIN jobs' : i \in DOMAIN jobs \/ i = Len(jobs) + 1
  BY <1>1, <1>2, AppendFacts
<1>4. \A i \in DOMAIN jobs' : jobs'[i].fresh => i \in DOMAIN jobs /\ jobs'[i] = jobs[i]
  BY <1>1, <1>3
<1>5. /\ \A i \in DOMAIN jobs' : jobs'[i].fresh =>
            jobs'[i].kind # "change" /\ stream'.state = "Starting" /\ "current" \notin stream'.asked
      /\ \A i, k \in DOMAIN jobs' : jobs'[i].fresh /\ jobs'[k].fresh => i = k
  BY <1>2, <1>4 DEF Tokens, IsChange
<1>6. ASSUME NEW i \in DOMAIN jobs', jobs'[i].fresh
      PROVE  jobs'[i].user = user' \/ \E k \in DOMAIN jobs' : k < i /\ jobs'[k].kind = "change"
  <2>1. i \in DOMAIN jobs /\ jobs'[i] = jobs[i]
    BY <1>4, <1>6
  <2>2. jobs[i].user = user \/ \E k \in DOMAIN jobs : k < i /\ jobs[k].kind = "change"
    BY <1>6, <2>1 DEF Tokens, IsChange
  <2> QED BY <1>2, <1>3, <2>1, <2>2
<1>7. ASSUME NEW i \in DOMAIN jobs'
      PROVE  i = Len(jobs) + 1 \/ i < Len(jobs) + 1
  BY <1>3
<1> QED BY <1>1, <1>2, <1>3, <1>5, <1>6, <1>7 DEF Tokens, IsChange

LEMMA TokensAnswered ==
  ASSUME Tokens, jobs \in Seq(Jobs), credUser \in Users, stream \in Streams,
         "current" \in stream.asked => stream.state = "Starting",
         NEW age \in {"current", "stale"}, NEW ok \in BOOLEAN, TokenAnswered(age, ok)
  PROVE  Tokens' /\ jobs' \in Seq(Jobs)
<1> DEFINE j == Job("token", credUser, age = "current", ok)
<1>1. j \in Jobs /\ j.kind = "token" /\ j.user = credUser /\ (j.fresh <=> age = "current")
  BY DEF Job, Jobs
<1>2. /\ jobs' = Append(jobs, j) /\ credUser' = credUser /\ user' = user
      /\ age \in stream.asked
      /\ stream'.state = stream.state /\ stream'.asked = stream.asked \ {age}
  BY DEF TokenAnswered, Streams
<1> HIDE DEF j
<1>3. /\ jobs' \in Seq(Jobs) /\ DOMAIN jobs' = 1 .. Len(jobs) + 1
      /\ DOMAIN jobs = 1 .. Len(jobs) /\ Len(jobs) \in Nat
      /\ \A i \in DOMAIN jobs : i \in DOMAIN jobs' /\ jobs'[i] = jobs[i]
      /\ jobs'[Len(jobs) + 1] = j /\ Len(jobs) + 1 \in DOMAIN jobs'
      /\ \A i \in DOMAIN jobs' : i \in DOMAIN jobs \/ i = Len(jobs) + 1
  BY <1>1, <1>2, AppendFacts
<1>4. j.fresh => \A i \in DOMAIN jobs : ~jobs[i].fresh
  BY <1>1, <1>2 DEF Tokens
<1>5. /\ \A i \in DOMAIN jobs' : jobs'[i].fresh =>
            jobs'[i].kind # "change" /\ stream'.state = "Starting" /\ "current" \notin stream'.asked
      /\ \A i, k \in DOMAIN jobs' : jobs'[i].fresh /\ jobs'[k].fresh => i = k
  BY <1>1, <1>2, <1>3, <1>4 DEF Tokens, IsChange
<1>6. ASSUME NEW i \in DOMAIN jobs', jobs'[i].fresh
      PROVE  jobs'[i].user = user' \/ \E k \in DOMAIN jobs' : k < i /\ jobs'[k].kind = "change"
  <2>1. CASE i \in DOMAIN jobs
    <3>1. jobs[i].user = user \/ \E k \in DOMAIN jobs : k < i /\ jobs[k].kind = "change"
      BY <1>3, <1>6, <2>1 DEF Tokens, IsChange
    <3> QED BY <1>2, <1>3, <2>1, <3>1
  <2>2. CASE i = Len(jobs) + 1
    <3>1. user = credUser \/ \E k \in DOMAIN jobs : jobs[k].kind = "change"
      BY DEF Tokens, IsChange
    <3>2. \A k \in DOMAIN jobs : k < Len(jobs) + 1
      BY <1>3
    <3> QED BY <1>1, <1>2, <1>3, <2>2, <3>1, <3>2
  <2> QED BY <1>3, <2>1, <2>2
<1>7. ASSUME NEW i \in DOMAIN jobs', jobs'[i].kind = "change"
      PROVE  jobs'[i].user = credUser' \/ \E k \in DOMAIN jobs' : i < k /\ jobs'[k].kind = "change"
  <2>1. i \in DOMAIN jobs /\ jobs'[i] = jobs[i]
    BY <1>1, <1>3, <1>7
  <2>2. jobs[i].user = credUser \/ \E k \in DOMAIN jobs : i < k /\ jobs[k].kind = "change"
    BY <1>7, <2>1 DEF Tokens, IsChange
  <2> QED BY <1>2, <1>3, <2>1, <2>2
<1>8. user' = credUser' \/ \E k \in DOMAIN jobs' : jobs'[k].kind = "change"
  BY <1>2, <1>3 DEF Tokens, IsChange
<1> QED BY <1>3, <1>5, <1>6, <1>7, <1>8 DEF Tokens, IsChange

-----------------------------------------------------------------------------
(* Every step keeps the invariant.                                          *)

\* What the parts of the invariant say, for citing.
LEMMA Facts ==
  ASSUME IInv
  PROVE  /\ Types /\ Wired /\ Tokens /\ Kept
         /\ pipeline \in Seq(Batches) /\ stream \in Streams /\ call \in Calls_
         /\ jobs \in Seq(Jobs) /\ user \in Users /\ credUser \in Users /\ network \in BOOLEAN
         /\ call.user \in Users /\ call.out \in Seq(Writes) /\ call.in \in Seq(Writes)
         /\ table \in [Users -> SUBSET Batches] /\ nextId \in Nat \ {0}
         /\ committed \subseteq Writes /\ committed \cap Bad = {}
         /\ \A u \in Users : table[u] \in SUBSET Batches /\ IsFiniteSet(table[u])
         /\ \A i \in DOMAIN call.in : call.in[i] \in committed
         /\ Fits(network, pipeline, stream, call) /\ Runs(network, pipeline, stream)
         /\ Lined(pipeline, table[user])
<1>1. Types /\ Wired /\ Tokens /\ Kept
  BY DEF IInv
<1>2. /\ pipeline \in Seq(Batches) /\ stream \in Streams /\ call \in Calls_
      /\ jobs \in Seq(Jobs) /\ user \in Users /\ credUser \in Users /\ network \in BOOLEAN
      /\ table \in [Users -> SUBSET Batches] /\ nextId \in Nat \ {0}
      /\ committed \subseteq Writes
  BY <1>1 DEF Types
<1>3. call.user \in Users /\ call.out \in Seq(Writes) /\ call.in \in Seq(Writes)
  BY <1>2 DEF Calls_
<1>4. \A u \in Users : table[u] \in SUBSET Batches /\ IsFiniteSet(table[u])
  BY <1>1, <1>2 DEF Kept, Rows
<1>5. (\A i \in DOMAIN call.in : call.in[i] \in committed) /\ committed \cap Bad = {}
  BY <1>1 DEF Kept
<1>6. /\ Fits(network, pipeline, stream, call) /\ Runs(network, pipeline, stream)
      /\ Lined(pipeline, table[user])
  BY <1>1 DEF Wired
<1> QED BY <1>1, <1>2, <1>3, <1>4, <1>5, <1>6

\* A pipeline that is empty is in line with any rows.
LEMMA LinedEmpty ==
  ASSUME NEW rows \in SUBSET Batches
  PROVE  Lined(<<>>, rows) /\ <<>> \in Seq(Batches)
<1>1. \A b \in rows : -1 < b.id
  <2>1. \A b \in rows : b.id \in Nat
    BY Fields
  <2> QED BY <2>1
<1>2. Len(<<>>) <= MaxPendingWrites
  <2>1. MaxPendingWrites \in Nat
    BY PipelineAssumption
  <2> QED BY <2>1
<1> QED BY <1>1, <1>2 DEF Lined, LastId, kBatchIdUnknown

\* The jobs the auth library puts on the queue.
LEMMA SignInKeeps ==
  ASSUME IInv, NEW u \in Users, SignIn(u)
  PROVE  IInv'
<1>1. UNCHANGED <<table, nextId, user, callbacks, waits, network, pipeline, stream, call,
                  made, accepted, rejected, waited, committed, aborted>> /\ credUser' = u
  BY DEF SignIn, queue, api, remote, history
<1>2. Tokens' /\ jobs' \in Seq(Jobs)
  BY Facts, TokensSignIn
<1>3. Types'
  BY <1>1, <1>2, Facts DEF Types
<1>4. Wired'
  BY <1>1, Facts DEF Wired
<1>5. Kept'
  BY <1>1, Facts, KeptQuiet
<1> QED BY <1>2, <1>3, <1>4, <1>5 DEF IInv

LEMMA TokenAnsweredKeeps ==
  ASSUME IInv, NEW age \in {"current", "stale"}, NEW ok \in BOOLEAN, TokenAnswered(age, ok)
  PROVE  IInv'
<1>1. /\ UNCHANGED <<table, nextId, user, callbacks, waits, network, pipeline, call, credUser,
                     made, accepted, rejected, waited, committed, aborted>>
      /\ stream' = [stream EXCEPT !.asked = @ \ {age}]
  BY DEF TokenAnswered, queue, api, history
<1>2. "current" \in stream.asked => stream.state = "Starting"
  BY Facts DEF Fits
<1>3. Tokens' /\ jobs' \in Seq(Jobs)
  BY <1>2, Facts, TokensAnswered
<1>4. /\ stream' \in Streams /\ stream'.state = stream.state /\ stream'.handshake = stream.handshake
      /\ stream'.idle = stream.idle /\ stream'.asked \subseteq stream.asked
  BY <1>1, Facts DEF Streams
<1>5. Types'
  BY <1>1, <1>3, <1>4, Facts DEF Types
<1>6. Fits(network, pipeline, stream', call) /\ Runs(network, pipeline, stream')
  BY <1>4, Facts DEF Fits, Runs, IsStarted
<1>7. Wired'
  BY <1>1, <1>4, <1>6, Facts DEF Wired
<1>8. Kept'
  BY <1>1, Facts, KeptQuiet
<1> QED BY <1>3, <1>5, <1>7, <1>8 DEF IInv

\* The backend and the connection.
LEMMA ServeKeeps ==
  ASSUME IInv, ~aborted, NEW c \in Calls_, Serve(c),
         c.user = call.user, c.end # "none", c.hello # "none",
         call.hello = "done" <=> c.hello = "done",
         call.hello # "done" => c.out = <<>> /\ c.in = <<>>,
         call.hello = "done" => c.in \o c.out = call.in \o call.out,
         c.end = "permanent" => c.hello = "asked" \/ (c.out # <<>> /\ Head(c.out) \in Bad),
         committed \subseteq committed', committed' \subseteq Writes, committed' \cap Bad = {},
         \A i \in DOMAIN c.in : c.in[i] \in committed'
  PROVE  IInv'
<1>1. /\ UNCHANGED <<table, nextId, user, callbacks, waits, network, pipeline, stream, credUser,
                     jobs, made, accepted, rejected, waited, aborted>>
      /\ call' = c /\ call.end = "open"
  BY DEF Serve, queue, api, history
<1>2. Types'
  BY <1>1, Facts DEF Types
<1>3. Fits(network, pipeline, stream, c)
  BY <1>1, Facts DEF Fits
<1>4. Wired'
  BY <1>1, <1>3, Facts DEF Wired
<1>5. Tokens'
  BY <1>1, Facts, TokensSame
<1>6. Kept'
  BY <1>1, KeptQuiet
<1> QED BY <1>2, <1>4, <1>5, <1>6 DEF IInv

LEMMA BackendKeeps ==
  ASSUME IInv, ~aborted,
         BackendGreets \/ BackendRefusesGreeting \/ BackendCommits \/ BackendRefuses
           \/ BackendEndsOk \/ ConnectionDrops
  PROVE  IInv'
<1>1. call \in Calls_ /\ call.out \in Seq(Writes) /\ call.in \in Seq(Writes)
      /\ call.end = "open" /\ committed \subseteq Writes /\ committed \cap Bad = {}
      /\ \A i \in DOMAIN call.in : call.in[i] \in committed
  BY Facts DEF Serve, BackendGreets, BackendRefusesGreeting, BackendCommits, BackendRefuses,
               BackendEndsOk, ConnectionDrops
<1>2. /\ call.hello # "none"
      /\ call.hello # "done" => call.out = <<>> /\ call.in = <<>>
  BY <1>1, Facts DEF Fits
<1>3. CASE BackendGreets
  <2> DEFINE c == [call EXCEPT !.hello = "answered"]
  <2>1. /\ c \in Calls_ /\ c.user = call.user /\ c.end = "open" /\ c.hello = "answered"
        /\ c.out = call.out /\ c.in = call.in
    BY <1>1 DEF Calls_
  <2>2. Serve(c) /\ committed' = committed /\ call.hello = "asked"
    BY <1>3 DEF BackendGreets
  <2> HIDE DEF c
  <2> QED BY <1>1, <1>2, <2>1, <2>2, ServeKeeps
<1>4. CASE BackendRefusesGreeting
  <2> DEFINE c == [call EXCEPT !.end = "permanent"]
  <2>1. /\ c \in Calls_ /\ c.user = call.user /\ c.end = "permanent" /\ c.hello = call.hello
        /\ c.out = call.out /\ c.in = call.in
    BY <1>1 DEF Calls_
  <2>2. Serve(c) /\ committed' = committed /\ call.hello = "asked"
    BY <1>4 DEF BackendRefusesGreeting
  <2> HIDE DEF c
  <2> QED BY <1>1, <1>2, <2>1, <2>2, ServeKeeps
<1>5. CASE BackendCommits
  <2> DEFINE w == Head(call.out)
             c == [call EXCEPT !.out = Tail(@), !.in = Append(@, w)]
  <2>1. call.out # <<>> /\ w \notin Bad /\ Serve(c) /\ committed' = committed \cup {w}
    BY <1>5 DEF BackendCommits
  <2>2. w \in Writes /\ Tail(call.out) \in Seq(Writes)
    BY <1>1, <2>1, HeadTail
  <2>3. Append(call.in, w) \in Seq(Writes)
        /\ \A i \in DOMAIN Append(call.in, w) : Append(call.in, w)[i] \in committed'
    BY <1>1, <2>1, <2>2
  <2>4. Append(call.in, w) \o Tail(call.out) = call.in \o call.out
    BY <1>1, <2>1, Moves
  <2>5. /\ c \in Calls_ /\ c.user = call.user /\ c.end = "open" /\ c.hello = call.hello
        /\ c.out = Tail(call.out) /\ c.in = Append(call.in, w)
    BY <1>1, <2>2, <2>3 DEF Calls_
  <2>6. call.hello = "done"
    BY <1>2, <2>1
  <2> HIDE DEF w, c
  <2>7. committed \subseteq committed' /\ committed' \subseteq Writes /\ committed' \cap Bad = {}
    BY <1>1, <2>1, <2>2
  <2> QED BY <2>1, <2>3, <2>4, <2>5, <2>6, <2>7, ServeKeeps
<1>6. CASE BackendRefuses
  <2> DEFINE c == [call EXCEPT !.end = "permanent"]
  <2>1. /\ c \in Calls_ /\ c.user = call.user /\ c.end = "permanent" /\ c.hello = call.hello
        /\ c.out = call.out /\ c.in = call.in
    BY <1>1 DEF Calls_
  <2>2. Serve(c) /\ committed' = committed /\ call.out # <<>> /\ Head(call.out) \in Bad
    BY <1>6 DEF BackendRefuses
  <2> HIDE DEF c
  <2> QED BY <1>1, <1>2, <2>1, <2>2, ServeKeeps
<1>7. CASE BackendEndsOk
  <2> DEFINE c == [call EXCEPT !.end = "ok"]
  <2>1. /\ c \in Calls_ /\ c.user = call.user /\ c.end = "ok" /\ c.hello = call.hello
        /\ c.out = call.out /\ c.in = call.in
    BY <1>1 DEF Calls_
  <2>2. Serve(c) /\ committed' = committed
    BY <1>7 DEF BackendEndsOk
  <2> HIDE DEF c
  <2> QED BY <1>1, <1>2, <2>1, <2>2, ServeKeeps
<1>8. CASE ConnectionDrops
  <2> DEFINE c == [call EXCEPT !.end = "transient"]
  <2>1. /\ c \in Calls_ /\ c.user = call.user /\ c.end = "transient" /\ c.hello = call.hello
        /\ c.out = call.out /\ c.in = call.in
    BY <1>1 DEF Calls_
  <2>2. Serve(c) /\ committed' = committed
    BY <1>8 DEF ConnectionDrops
  <2> HIDE DEF c
  <2> QED BY <1>1, <1>2, <2>1, <2>2, ServeKeeps
<1> QED BY <1>3, <1>4, <1>5, <1>6, <1>7, <1>8

\* The handlers that leave the pipeline alone.
LEMMA WaitKeeps ==
  ASSUME IInv, WaitForPendingWrites
  PROVE  IInv'
<1>1. UNCHANGED <<table, nextId, user, callbacks, network, pipeline, stream, call, credUser, jobs,
                  made, accepted, rejected, waited, committed, aborted>>
  BY DEF WaitForPendingWrites, queue, remote, history
<1>2. PICK id \in HighestUnacknowledged(table[user]) :
        waits' = waits \cup {[id |-> id, need |-> {b.w : b \in table[user]}]}
  BY DEF WaitForPendingWrites
<1>3. table[user] # {}
  BY DEF WaitForPendingWrites
<1>4. /\ \A b \in table[user] : b.id \in Nat /\ b.w \in Writes
      /\ id \in Nat /\ \A b \in table[user] : b.id <= id
  <2>1. \A b \in table[user] : b.id \in Nat /\ b.w \in Writes
    BY Facts, Fields
  <2>2. PICK a \in table[user] : id = a.id /\ \A b \in table[user] : b.id <= a.id
    BY <1>3 DEF HighestUnacknowledged
  <2> QED BY <2>1, <2>2
<1> DEFINE x == [id |-> id, need |-> {b.w : b \in table[user]}]
<1>5. /\ x \in [id : Nat, need : SUBSET Writes] /\ x.id = id
      /\ \A w \in x.need : \E b \in table[user] : b.w = w /\ b.id <= x.id
  BY <1>4
<1> HIDE DEF x
<1>6. waits' = waits \cup {x}
  BY <1>2 DEF x
<1>7. Types'
  <2>1. waits' \subseteq [id : Nat, need : SUBSET Writes]
    BY <1>5, <1>6, Facts DEF Types
  <2> QED BY <1>1, <2>1, Facts DEF Types
<1>8. Wired'
  BY <1>1, Facts DEF Wired
<1>9. Tokens'
  BY <1>1, Facts, TokensSame
<1>10. Kept'
  <2>1. Settled' = Settled
    BY <1>1 DEF Settled
  <2>2. Rows(table, nextId)' /\ CallbacksAreQueued'
    BY <1>1, Facts DEF Kept, Rows, CallbacksAreQueued
  <2>3. (\A u \in Users : Queued(u) \subseteq MadeBy(u) /\ MadeBy(u) \ Queued(u) \subseteq Settled)'
    <3>1. \A u \in Users : Queued(u)' = Queued(u) /\ MadeBy(u)' = MadeBy(u)
      BY <1>1 DEF Queued, MadeBy
    <3> QED BY <2>1, <3>1, Facts DEF Kept
  <2>4. (\A y \in waits : \A w \in y.need :
           w \in Settled \/ \E b \in table[user] : b.w = w /\ b.id <= y.id)'
    BY <1>1, <1>5, <1>6, <2>1, Facts DEF Kept
  <2> QED BY <1>1, <2>1, <2>2, <2>3, <2>4, Facts DEF Kept
<1> QED BY <1>7, <1>8, <1>9, <1>10 DEF IInv

LEMMA TokenTooLateKeeps ==
  ASSUME IInv, TokenTooLate
  PROVE  IInv'
<1>1. /\ UNCHANGED <<table, nextId, user, callbacks, waits, network, pipeline, stream, call, credUser,
                     made, accepted, rejected, waited, committed, aborted>>
      /\ jobs' = Tail(jobs) /\ jobs # <<>> /\ Head(jobs).kind = "token" /\ ~Head(jobs).fresh
  BY DEF TokenTooLate, queue, api, remote, history
<1>2. jobs' \in Seq(Jobs)
  BY <1>1, Facts, HeadTail
<1>3. Types'
  BY <1>1, <1>2, Facts DEF Types
<1>4. Wired'
  BY <1>1, Facts DEF Wired
<1>5. Tokens'
  BY <1>1, Facts, TokensTail
<1>6. Kept'
  BY <1>1, Facts, KeptQuiet
<1> QED BY <1>3, <1>4, <1>5, <1>6 DEF IInv

\* A fresh token finds the stream that asked for it, and is the current user's.
LEMMA TokenArrivesKeeps ==
  ASSUME IInv, ~aborted, TokenArrives
  PROVE  IInv'
<1>1. /\ jobs # <<>> /\ Head(jobs).kind = "token" /\ Head(jobs).fresh
      /\ Head(jobs) = jobs[1] /\ 1 \in DOMAIN jobs /\ DOMAIN jobs = 1 .. Len(jobs)
      /\ Head(jobs) \in Jobs /\ Tail(jobs) \in Seq(Jobs)
      /\ \A i \in DOMAIN Tail(jobs) : i + 1 \in DOMAIN jobs /\ Tail(jobs)[i] = jobs[i + 1]
  BY Facts, HeadTail, Indices DEF TokenArrives
<1>2. stream.state = "Starting" /\ "current" \notin stream.asked
  BY <1>1, Facts DEF Tokens
<1>3. Head(jobs).user = user
  <2>1. \A j \in DOMAIN jobs : ~(j < 1)
    BY <1>1
  <2> QED BY <1>1, <2>1, Facts DEF Tokens
<1>4. /\ UNCHANGED <<table, nextId, user, callbacks, waits, network, pipeline, credUser,
                     made, accepted, rejected, waited, committed, aborted>>
      /\ stream' = [stream EXCEPT !.state = "Open"]
      /\ call' = [NoCall(user) EXCEPT !.hello = "asked", !.end = "open"]
      /\ jobs' = Tail(jobs)
  BY <1>2, <1>3 DEF TokenArrives, queue, api, history
<1>5. /\ stream' \in Streams /\ stream'.state = "Open" /\ stream'.handshake = stream.handshake
      /\ stream'.idle = stream.idle /\ stream'.asked = stream.asked
  BY <1>4, Facts DEF Streams
<1>6. /\ call' \in Calls_ /\ call'.user = user /\ call'.hello = "asked" /\ call'.end = "open"
      /\ call'.out = <<>> /\ call'.in = <<>>
  <2>1. user \in Users /\ <<>> \in Seq(Writes)
    BY Facts
  <2>2. call' = [user |-> user, hello |-> "asked", end |-> "open", out |-> <<>>, in |-> <<>>]
    BY <1>4 DEF NoCall
  <2> QED BY <2>1, <2>2 DEF Calls_
<1>7. Types'
  BY <1>1, <1>4, <1>5, <1>6, Facts DEF Types
<1>8. ~stream.handshake /\ ~stream.idle /\ IsStarted(stream) /\ IsStarted(stream')
  BY <1>2, <1>5, Facts DEF Fits, IsStarted
<1>9. Fits(network, pipeline, stream', call') /\ Runs(network, pipeline, stream')
  BY <1>2, <1>5, <1>6, <1>8, Facts DEF Fits, Runs
<1>10. Wired'
  BY <1>4, <1>6, <1>9, Facts DEF Wired
<1>11. Tokens'
  <2>1. \A i \in DOMAIN Tail(jobs) : ~Tail(jobs)[i].fresh
    <3>1. ASSUME NEW i \in DOMAIN Tail(jobs), Tail(jobs)[i].fresh
          PROVE  FALSE
      <4>1. i + 1 = 1
        BY <1>1, <3>1, Facts DEF Tokens
      <4>2. i \in 1 .. Len(Tail(jobs))
        BY <1>1, Indices
      <4> QED BY <4>1, <4>2
    <3> QED BY <3>1
  <2> QED BY <1>1, <1>4, <2>1, Facts, TokensTail
<1>12. Kept'
  BY <1>4, <1>6, Facts, KeptQuiet
<1> QED BY <1>7, <1>10, <1>11, <1>12 DEF IInv

LEMMA BackoffKeeps ==
  ASSUME IInv, BackoffElapsed
  PROVE  IInv'
<1>1. /\ UNCHANGED <<table, nextId, user, callbacks, waits, network, pipeline, call, credUser, jobs,
                     made, accepted, rejected, waited, committed, aborted>>
      /\ stream.state = "Backoff" /\ stream' = Start([stream EXCEPT !.state = "Initial"])
  BY DEF BackoffElapsed, queue, api, history
<1>2. /\ stream' \in Streams /\ stream'.state = "Starting" /\ stream'.handshake = stream.handshake
      /\ stream'.idle = stream.idle
  BY <1>1, Facts DEF Streams, Start
<1>3. Types'
  BY <1>1, <1>2, Facts DEF Types
<1>4. ~stream.handshake /\ ~stream.idle /\ IsStarted(stream) /\ IsStarted(stream')
  BY <1>1, <1>2, Facts DEF Fits, IsStarted
<1>5. Fits(network, pipeline, stream', call) /\ Runs(network, pipeline, stream')
  BY <1>1, <1>2, <1>4, Facts DEF Fits, Runs
<1>6. Wired'
  BY <1>1, <1>2, <1>5, Facts DEF Wired
<1>7. Tokens'
  BY <1>1, Facts, TokensSame
<1>8. Kept'
  BY <1>1, Facts, KeptQuiet
<1> QED BY <1>3, <1>6, <1>7, <1>8 DEF IInv

LEMMA HandshakeKeeps ==
  ASSUME IInv, ~aborted, OnWriteStreamHandshakeComplete
  PROVE  IInv'
<1>1. /\ UNCHANGED <<table, nextId, user, callbacks, waits, network, pipeline, credUser, jobs,
                     made, accepted, rejected, waited, committed, aborted>>
      /\ call.hello = "answered"
      /\ stream' = [stream EXCEPT !.handshake = TRUE,
                                  !.idle = IF pipeline = <<>> THEN @ ELSE FALSE]
      /\ call' = [call EXCEPT !.hello = "done", !.out = @ \o Mutations(pipeline)]
  BY DEF OnWriteStreamHandshakeComplete, queue, api, history
<1>2. /\ ~stream.handshake /\ call.out = <<>> /\ call.in = <<>> /\ call.end \notin {"none", "permanent"}
      /\ stream.state = "Open" /\ IsStarted(stream)
  BY <1>1, Facts DEF Fits, IsStarted
<1>3. Mutations(pipeline) \in Seq(Writes) /\ pipeline # <<>>
  BY <1>2, Facts, MutationsOf DEF Fits
<1>4. /\ stream' \in Streams /\ stream'.state = "Open" /\ stream'.handshake /\ ~stream'.idle
      /\ stream'.asked = stream.asked
  BY <1>1, <1>2, <1>3, Facts DEF Streams
<1>5. call.out \o Mutations(pipeline) = Mutations(pipeline)
  BY <1>2, <1>3, Facts, Moves
<1>6. /\ call' \in Calls_ /\ call'.user = call.user /\ call'.hello = "done" /\ call'.end = call.end
      /\ call'.out = Mutations(pipeline) /\ call'.in = <<>>
  BY <1>1, <1>2, <1>3, <1>5, Facts DEF Calls_
<1>7. call'.in \o call'.out = Mutations(pipeline)
  BY <1>3, <1>6, Moves, EmptySeq
<1>8. Types'
  BY <1>1, <1>4, <1>6, Facts DEF Types
<1>9. IsStarted(stream') /\ network
  BY <1>2, <1>4, Facts DEF Fits, IsStarted
<1>10. Fits(network, pipeline, stream', call') /\ Runs(network, pipeline, stream')
  BY <1>2, <1>4, <1>6, <1>7, <1>9, Facts DEF Fits, Runs
<1>11. Wired'
  BY <1>1, <1>2, <1>6, <1>10, Facts DEF Wired
<1>12. Tokens'
  BY <1>1, <1>2, Facts, TokensSame
<1>13. Kept'
  BY <1>1, <1>6, Facts, KeptQuiet
<1> QED BY <1>8, <1>11, <1>12, <1>13 DEF IInv

\* EnableNetwork and WriteMutations fill the pipeline of a stream that may be open.
LEMMA EnableNetworkKeeps ==
  ASSUME IInv, ~aborted, EnableNetwork
  PROVE  IInv'
<1>1. /\ UNCHANGED <<table, nextId, user, callbacks, waits, credUser, jobs,
                     made, accepted, rejected, waited, committed, aborted>>
      /\ network' = TRUE
      /\ FillWritePipeline(TRUE, table[user], pipeline, stream, call)
  BY DEF EnableNetwork, queue, api, history
<1>2. Fits(TRUE, pipeline, stream, call)
  BY Facts DEF Fits
<1>3. table[user] \in SUBSET Batches /\ IsFiniteSet(table[user])
  BY Facts
<1>4. /\ pipeline' \in Seq(Batches) /\ stream' \in Streams /\ call' \in Calls_
      /\ Lined(pipeline', table[user]) /\ Full(pipeline', table[user])
      /\ Fits(TRUE, pipeline', stream', call') /\ Runs(TRUE, pipeline', stream')
      /\ call'.user = call.user /\ call'.in = call.in /\ call'.end = call.end
      /\ stream'.state = "Open" <=> stream.state = "Open"
      /\ IsStarted(stream) => stream'.state = stream.state /\ stream'.asked = stream.asked
  <2>1. pipeline \in Seq(Batches) /\ stream \in Streams /\ call \in Calls_
        /\ Lined(pipeline, table[user])
    BY Facts
  <2>2. FillWritePipeline(TRUE, table[user], pipeline, stream, call)
    BY <1>1
  <2> QED BY <1>2, <1>3, <2>1, <2>2, FillOn
<1>5. Types'
  BY <1>1, <1>4, Facts DEF Types
<1>6. Wired'
  BY <1>1, <1>4, Facts DEF Wired
<1>7. Tokens'
  BY <1>1, <1>4, Facts, TokensSame DEF IsStarted
<1>8. Kept'
  BY <1>1, <1>4, Facts, KeptQuiet
<1> QED BY <1>5, <1>6, <1>7, <1>8 DEF IInv

\* The new batch has the highest id, so it replaces no row and is the last in line.
LEMMA WriteKeeps ==
  ASSUME IInv, ~aborted, NEW w \in Writes, WriteMutations(w)
  PROVE  IInv'
<1> DEFINE b == [id |-> nextId, w |-> w]
           rows == table[user] \cup {b}
<1>1. /\ UNCHANGED <<user, waits, network, credUser, jobs, accepted, rejected, waited,
                     committed, aborted>>
      /\ table' = [table EXCEPT ![user] = {a \in @ : a.id # b.id} \cup {b}]
      /\ nextId' = nextId + 1
      /\ callbacks' \subseteq callbacks \cup {[user |-> user, id |-> nextId, w |-> w]}
      /\ made' = [made EXCEPT ![user] = Append(@, w)]
      /\ FillWritePipeline(network, table'[user], pipeline, stream, call)
  BY DEF WriteMutations, AddMutationBatch
<1>2. /\ b \in Batches /\ b.id = nextId /\ b.w = w /\ nextId \in Nat /\ user \in Users
      /\ table \in [Users -> SUBSET Batches]
      /\ \A a \in table[user] : a.id < nextId /\ a.id \in Nat
  BY Facts, Fields DEF Batches, Kept, Rows
<1> HIDE DEF b
<1>3. {a \in table[user] : a.id # b.id} = table[user]
  BY <1>2
<1>4. /\ table' \in [Users -> SUBSET Batches] /\ table'[user] = rows
      /\ \A u \in Users : u # user => table'[u] = table[u]
  BY <1>1, <1>2, <1>3
<1>5. IsFiniteSet(rows) /\ rows \in SUBSET Batches
  BY <1>2, Facts, FS_AddElement
<1>6. Lined(pipeline, rows)
  <2>1. LastId(pipeline) < b.id
    <3>1. CASE pipeline = <<>>
      BY <1>2, <3>1 DEF LastId, kBatchIdUnknown
    <3>2. CASE pipeline # <<>>
      <4>1. LastId(pipeline) = pipeline[Len(pipeline)].id /\ Len(pipeline) \in DOMAIN pipeline
        BY <3>2, Facts, LastIds
      <4>2. pipeline[Len(pipeline)] \in table[user]
        BY <4>1, Facts DEF Lined
      <4> QED BY <1>2, <4>1, <4>2
    <3> QED BY <3>1, <3>2
  <2> QED BY <2>1, Facts DEF Lined
<1>7. ~network => pipeline = <<>>
  BY Facts DEF Runs
<1> HIDE DEF rows
<1>8. /\ pipeline' \in Seq(Batches) /\ stream' \in Streams /\ call' \in Calls_
      /\ Lined(pipeline', rows) /\ (network => Full(pipeline', rows))
      /\ Fits(network, pipeline', stream', call') /\ Runs(network, pipeline', stream')
      /\ call'.user = call.user /\ call'.in = call.in /\ call'.end = call.end
      /\ stream'.state = "Open" <=> stream.state = "Open"
      /\ IsStarted(stream) => stream'.state = stream.state /\ stream'.asked = stream.asked
  <2>1. pipeline \in Seq(Batches) /\ stream \in Streams /\ call \in Calls_ /\ network \in BOOLEAN
        /\ Fits(network, pipeline, stream, call)
    BY Facts
  <2>2. FillWritePipeline(network, rows, pipeline, stream, call)
    BY <1>1, <1>4
  <2> QED BY <1>5, <1>6, <1>7, <2>1, <2>2, FillFacts
<1>9. /\ made' \in [Users -> Seq(Writes)]
      /\ \A u \in Users : MadeBy(u)' = IF u = user THEN MadeBy(u) \cup {w} ELSE MadeBy(u)
  <2>1. made \in [Users -> Seq(Writes)] /\ made[user] \in Seq(Writes)
    BY <1>2, Facts DEF Types
  <2>2. made'[user] = Append(made[user], w) /\ Append(made[user], w) \in Seq(Writes)
        /\ \A u \in Users : u # user => made'[u] = made[u]
    BY <1>1, <1>2, <2>1
  <2>3. made' \in [Users -> Seq(Writes)]
    BY <1>1, <2>1, <2>2
  <2>4. {Append(made[user], w)[i] : i \in DOMAIN Append(made[user], w)}
          = {made[user][i] : i \in DOMAIN made[user]} \cup {w}
    <3>1. /\ DOMAIN made[user] = 1 .. Len(made[user]) /\ Len(made[user]) \in Nat
          /\ DOMAIN Append(made[user], w) = 1 .. Len(made[user]) + 1
          /\ \A i \in 1 .. Len(made[user]) : Append(made[user], w)[i] = made[user][i]
          /\ Append(made[user], w)[Len(made[user]) + 1] = w
      BY <2>1
    <3>2. \A i \in DOMAIN Append(made[user], w) : i \in DOMAIN made[user] \/ i = Len(made[user]) + 1
      BY <3>1
    <3>3. \A i \in DOMAIN made[user] : i \in DOMAIN Append(made[user], w)
      BY <3>1
    <3>4. Len(made[user]) + 1 \in DOMAIN Append(made[user], w)
      BY <3>1
    <3> QED BY <3>1, <3>2, <3>3, <3>4
  <2>5. ASSUME NEW u \in Users, u = user
        PROVE  MadeBy(u)' = MadeBy(u) \cup {w}
    <3>1. MadeBy(u)' = {made'[u][i] : i \in DOMAIN made'[u]}
      BY DEF MadeBy
    <3> QED BY <2>2, <2>4, <2>5, <3>1 DEF MadeBy
  <2>6. \A u \in Users : u # user => MadeBy(u)' = MadeBy(u)
    BY <2>2 DEF MadeBy
  <2> QED BY <2>3, <2>5, <2>6
<1>10. callbacks' \subseteq [user : Users, id : Nat, w : Writes]
  BY <1>1, <1>2, Facts DEF Types
<1>11. Types'
  BY <1>1, <1>4, <1>8, <1>9, <1>10, Facts DEF Types
<1>12. Wired'
  BY <1>1, <1>4, <1>8, Facts DEF Wired
<1>13. Tokens'
  BY <1>1, <1>8, Facts, TokensSame DEF IsStarted
<1>14. Kept'
  <2>1. Settled' = Settled
    BY <1>1 DEF Settled
  <2>2. ASSUME NEW u \in Users
        PROVE  (/\ IsFiniteSet(table[u])
                /\ \A a \in table[u] : a.id < nextId
                /\ \A a, c \in table[u] : a.id = c.id => a = c)'
    <3>1. /\ IsFiniteSet(table[u]) /\ \A a \in table[u] : a.id < nextId /\ a.id \in Nat
          /\ \A a, c \in table[u] : a.id = c.id => a = c
      BY Facts, Fields DEF Kept, Rows
    <3>2. CASE u # user
      BY <1>1, <1>2, <1>4, <3>1, <3>2
    <3>3. CASE u = user
      <4>1. table'[u] = table[u] \cup {b}
        BY <1>4, <3>3 DEF rows
      <4>2. IsFiniteSet(table'[u])
        BY <1>4, <1>5, <3>3
      <4>3. \A a \in table'[u] : a.id < nextId'
        BY <1>1, <1>2, <3>1, <4>1
      <4>4. \A a, c \in table'[u] : a.id = c.id => a = c
        BY <1>2, <3>1, <4>1
      <4> QED BY <4>2, <4>3, <4>4
    <3> QED BY <3>2, <3>3
  <2>3. ASSUME NEW u \in Users
        PROVE  (Queued(u) \subseteq MadeBy(u) /\ MadeBy(u) \ Queued(u) \subseteq Settled)'
    <3>1. Queued(u) \subseteq MadeBy(u) /\ MadeBy(u) \ Queued(u) \subseteq Settled
      BY Facts DEF Kept
    <3>2. CASE u # user
      <4>1. Queued(u)' = Queued(u) /\ MadeBy(u)' = MadeBy(u)
        BY <1>4, <1>9, <3>2 DEF Queued
      <4> QED BY <2>1, <3>1, <4>1
    <3>3. CASE u = user
      <4>1. Queued(u)' = Queued(u) \cup {w} /\ MadeBy(u)' = MadeBy(u) \cup {w}
        <5>1. Queued(u)' = {a.w : a \in table'[u]}
          BY DEF Queued
        <5>2. {a.w : a \in table[user] \cup {b}} = {a.w : a \in table[user]} \cup {w}
          BY <1>2
        <5>3. Queued(u)' = Queued(u) \cup {w}
          BY <1>4, <3>3, <5>1, <5>2 DEF Queued, rows
        <5> QED BY <1>9, <3>3, <5>3
      <4> QED BY <2>1, <3>1, <4>1
    <3> QED BY <3>2, <3>3
  <2>4. ASSUME NEW c \in callbacks'
        PROVE  [id |-> c.id, w |-> c.w] \in table'[c.user]
    <3>1. CASE c \in callbacks
      <4>1. [id |-> c.id, w |-> c.w] \in table[c.user] /\ c.user \in Users
        BY <3>1, Facts DEF Kept, CallbacksAreQueued, Types
      <4>2. table[c.user] \subseteq table'[c.user]
        BY <1>4, <4>1 DEF rows
      <4> QED BY <4>1, <4>2
    <3>2. CASE c = [user |-> user, id |-> nextId, w |-> w]
      BY <1>4, <3>2 DEF rows, b
    <3> QED BY <1>1, <3>1, <3>2
  <2>5. ASSUME NEW x \in waits', NEW v \in x.need
        PROVE  v \in Settled' \/ \E a \in table'[user'] : a.w = v /\ a.id <= x.id
    <3>1. v \in Settled \/ \E a \in table[user] : a.w = v /\ a.id <= x.id
      BY <1>1, Facts DEF Kept
    <3>2. table[user] \subseteq table'[user']
      BY <1>1, <1>4 DEF rows
    <3> QED BY <2>1, <3>1, <3>2
  <2>6. (/\ committed \cap Bad = {} /\ accepted \subseteq committed /\ rejected \subseteq Bad
         /\ waited \subseteq Settled
         /\ \A i \in DOMAIN call.in : call.in[i] \in committed)'
    BY <1>1, <1>8, <2>1, Facts DEF Kept
  <2> QED BY <2>2, <2>3, <2>4, <2>5, <2>6 DEF Kept, Rows, CallbacksAreQueued
<1> QED BY <1>11, <1>12, <1>13, <1>14 DEF IInv

\* A call is given up with nothing filled in: the stream is closed for good, or backs
\* off when it is needed.
LEMMA GivenUpKeeps ==
  ASSUME IInv, ~aborted,
         UNCHANGED <<table, nextId, user, callbacks, waits, credUser,
                     made, accepted, rejected, waited, aborted>>,
         network' \in BOOLEAN,
         NEW js \in Seq(Jobs),
         js = jobs \/ (jobs # <<>> /\ Head(jobs).kind = "token" /\ js = Tail(jobs)),
         jobs' = Stale(js), committed' \in Flushed, call' = HungUp,
         pipeline' = <<>> \/ (pipeline' = pipeline /\ network' = network),
         stream' \in Streams, ~stream'.handshake, ~stream'.idle, stream'.state # "Open",
         "current" \notin stream'.asked,
         IsStarted(stream') => network' /\ pipeline' # <<>>,
         network' => network,
         network' /\ pipeline' # <<>> => IsStarted(stream'),
         network' /\ pipeline' = <<>> => pipeline = <<>>
  PROVE  IInv'
<1>1. committed \subseteq committed' /\ committed' \subseteq Writes /\ committed' \cap Bad = {}
  BY FlushedFacts
<1>2. /\ call' \in Calls_ /\ call'.in = <<>> /\ call'.out = <<>> /\ call'.end = "none"
      /\ call'.hello = "none"
  BY Facts DEF HungUp, NoCall, Calls_
<1>3. /\ pipeline' \in Seq(Batches) /\ Lined(pipeline', table[user])
  BY Facts, LinedEmpty
<1>4. jobs' \in Seq(Jobs)
  BY StaleFacts
<1>5. Types'
  BY <1>1, <1>2, <1>3, <1>4, Facts DEF Types
<1>6. Fits(network', pipeline', stream', call')
  BY <1>2 DEF Fits, Streams
<1>7. Runs(network', pipeline', stream')
  <2>1. ~network => pipeline = <<>>
    BY Facts DEF Runs
  <2> QED BY <2>1 DEF Runs
<1>8. network' => Full(pipeline', table[user])
  BY Facts DEF Wired
<1>9. Wired'
  BY <1>3, <1>6, <1>7, <1>8 DEF Wired
<1>10. Tokens'
  BY Facts, TokensStale
<1>11. Kept'
  BY <1>1, <1>2, KeptQuiet
<1> QED BY <1>5, <1>9, <1>10, <1>11 DEF IInv

LEMMA DisableNetworkKeeps ==
  ASSUME IInv, ~aborted, DisableNetwork
  PROVE  IInv'
<1>1. /\ UNCHANGED <<table, nextId, user, callbacks, waits, credUser,
                     made, accepted, rejected, waited, aborted>>
      /\ network' = FALSE /\ committed' \in Flushed /\ jobs' = Stale(jobs)
      /\ stream' = IF IsStarted(stream) THEN Closed(stream, "Initial") ELSE stream
      /\ call' = HungUp /\ pipeline' = <<>>
  BY DEF DisableNetwork, queue, api, history
<1>2. /\ Closed(stream, "Initial") \in Streams /\ Closed(stream, "Initial").state = "Initial"
      /\ ~Closed(stream, "Initial").handshake /\ ~Closed(stream, "Initial").idle
      /\ "current" \notin Closed(stream, "Initial").asked
  BY Facts, ClosedFacts
<1>3. /\ stream' \in Streams /\ ~stream'.handshake /\ ~stream'.idle
      /\ ~IsStarted(stream') /\ stream'.state # "Open" /\ "current" \notin stream'.asked
  <2>1. CASE IsStarted(stream)
    BY <1>1, <1>2, <2>1 DEF IsStarted
  <2>2. CASE ~IsStarted(stream)
    BY <1>1, <2>2, Facts DEF IsStarted, Fits
  <2> QED BY <2>1, <2>2
<1>4. network' \in BOOLEAN /\ ~network'
  BY <1>1
<1> QED BY <1>1, <1>3, <1>4, Facts, GivenUpKeeps

\* The idle timer, and a call that the backend ended with OK: either nothing is
\* pending and the stream rests, or the assertion fails.
LEMMA RestKeeps ==
  ASSUME IInv, ~aborted, ~(network /\ pipeline # <<>>),
         committed' \in Flushed, jobs' = Stale(jobs),
         stream' = Closed(stream, "Initial"), call' = HungUp,
         UNCHANGED <<queue, user, api, network, pipeline, credUser, history, aborted>>
  PROVE  IInv'
<1>1. UNCHANGED <<table, nextId, user, callbacks, waits, network, pipeline, credUser,
                  made, accepted, rejected, waited, aborted>>
  BY DEF queue, api, history
<1>2. /\ stream' \in Streams /\ stream'.state = "Initial" /\ ~stream'.handshake /\ ~stream'.idle
      /\ "current" \notin stream'.asked /\ ~IsStarted(stream')
  BY Facts, ClosedFacts
<1> QED BY <1>1, <1>2, Facts, GivenUpKeeps

LEMMA AbortKeeps ==
  ASSUME IInv, call.end = "ok", Abort, UNCHANGED jobs
  PROVE  IInv'
<1>1. /\ UNCHANGED <<table, nextId, user, callbacks, waits, network, pipeline, stream, call, credUser,
                     jobs, made, accepted, rejected, waited, committed>>
      /\ aborted' = TRUE
  BY DEF Abort, queue, api, remote, history
<1>2. Types'
  BY <1>1, Facts DEF Types
<1>3. Wired'
  BY <1>1, Facts DEF Wired
<1>4. Tokens'
  BY <1>1, Facts, TokensSame
<1>5. Kept'
  BY <1>1, Facts, KeptQuiet
<1> QED BY <1>2, <1>3, <1>4, <1>5 DEF IInv

LEMMA IdleTimeoutKeeps ==
  ASSUME IInv, ~aborted, IdleTimeout
  PROVE  IInv'
<1>1. pipeline = <<>>
  BY Facts DEF IdleTimeout, Fits
<1> QED BY <1>1, RestKeeps DEF IdleTimeout

LEMMA OnStreamFinishOkKeeps ==
  ASSUME IInv, ~aborted, OnStreamFinishOk
  PROVE  IInv'
BY RestKeeps, AbortKeeps DEF OnStreamFinishOk

\* The connectivity monitor: the pipeline is filled again from its beginning.
LEMMA RestartFacts ==
  ASSUME IInv, NEW u \in Users, NEW v \in Users, NEW s \in Streams,
         s.state \in {"Initial", "Error"}, ~s.handshake, ~s.idle, "current" \notin s.asked,
         FillWritePipeline(TRUE, table[u], <<>>, s, NoCall(v))
  PROVE  /\ pipeline' \in Seq(Batches) /\ stream' \in Streams /\ call' \in Calls_
         /\ Lined(pipeline', table[u]) /\ Full(pipeline', table[u])
         /\ Fits(TRUE, pipeline', stream', call') /\ Runs(TRUE, pipeline', stream')
         /\ call'.in = <<>> /\ call'.end = "none" /\ stream'.state # "Open"
<1>1. table[u] \in SUBSET Batches /\ IsFiniteSet(table[u])
  BY Facts
<1>2. <<>> \in Seq(Batches) /\ Lined(<<>>, table[u])
  BY <1>1, LinedEmpty
<1>3. NoCall(v) \in Calls_ /\ NoCall(v).in = <<>> /\ NoCall(v).end = "none" /\ NoCall(v).out = <<>>
      /\ NoCall(v).hello = "none"
  BY NoCallType DEF NoCall
<1>4. Fits(TRUE, <<>>, s, NoCall(v))
  BY <1>3 DEF Fits, IsStarted, Streams
<1> QED BY <1>1, <1>2, <1>3, <1>4, FillOn

LEMMA ConnectivityChangedKeeps ==
  ASSUME IInv, ~aborted, ConnectivityChanged
  PROVE  IInv'
<1>1. /\ UNCHANGED <<table, nextId, user, callbacks, waits, network, credUser,
                     made, accepted, rejected, waited, aborted>>
      /\ network /\ committed' \in Flushed /\ jobs' = Stale(jobs)
      /\ FillWritePipeline(TRUE, table[user], <<>>, Closed(stream, "Initial"), NoCall(call.user))
  BY DEF ConnectivityChanged, RestartNetwork, HungUp, queue, api, history
<1>2. committed \subseteq committed' /\ committed' \subseteq Writes /\ committed' \cap Bad = {}
  BY <1>1, FlushedFacts
<1>3. /\ pipeline' \in Seq(Batches) /\ stream' \in Streams /\ call' \in Calls_
      /\ Lined(pipeline', table[user]) /\ Full(pipeline', table[user])
      /\ Fits(TRUE, pipeline', stream', call') /\ Runs(TRUE, pipeline', stream')
      /\ call'.in = <<>> /\ call'.end = "none" /\ stream'.state # "Open"
  BY <1>1, Facts, ClosedFacts, RestartFacts
<1>4. jobs' \in Seq(Jobs)
  BY <1>1, Facts, StaleFacts
<1>5. Types'
  BY <1>1, <1>2, <1>3, <1>4, Facts DEF Types
<1>6. Wired'
  BY <1>1, <1>3 DEF Wired
<1>7. Tokens'
  BY <1>1, Facts, TokensStale
<1>8. Kept'
  BY <1>1, <1>2, <1>3, KeptQuiet
<1> QED BY <1>5, <1>6, <1>7, <1>8 DEF IInv

\* A change of user: the pipeline is filled from the new user's rows, and no token of
\* the old one is fresh any more.
LEMMA UserChangesKeeps ==
  ASSUME IInv, ~aborted, UserChanges
  PROVE  IInv'
<1> DEFINE u == Head(jobs).user
<1>1. /\ jobs # <<>> /\ Head(jobs).kind = "change" /\ user' = u
      /\ waits' = IF u # user THEN {} ELSE waits
      /\ nextId' \in IF u # user THEN LoadNextBatchIdFromDb(table) ELSE {nextId}
      /\ UNCHANGED <<table, callbacks, network, credUser, made, accepted, rejected, waited, aborted>>
      /\ \/ /\ network /\ committed' \in Flushed /\ jobs' = Stale(Tail(jobs))
            /\ FillWritePipeline(TRUE, table[u], <<>>, Closed(stream, "Initial"), NoCall(call.user))
         \/ /\ ~network /\ jobs' = Tail(jobs)
            /\ UNCHANGED <<pipeline, stream, call, committed>>
  BY DEF UserChanges, HandleCredentialChange, RestartNetwork, HungUp, history
<1>2. Head(jobs) \in Jobs /\ Tail(jobs) \in Seq(Jobs) /\ u \in Users
  <2>1. Head(jobs) \in Jobs /\ Tail(jobs) \in Seq(Jobs)
    BY <1>1, Facts, HeadTail
  <2> QED BY <2>1 DEF Jobs
<1> HIDE DEF u
<1>3. committed \subseteq committed' /\ committed' \subseteq Writes /\ committed' \cap Bad = {}
  BY <1>1, FlushedFacts, Facts
<1>4. /\ pipeline' \in Seq(Batches) /\ stream' \in Streams /\ call' \in Calls_
      /\ Lined(pipeline', table[u]) /\ (network => Full(pipeline', table[u]))
      /\ Fits(network, pipeline', stream', call') /\ Runs(network, pipeline', stream')
      /\ stream'.state # "Open" /\ \A i \in DOMAIN call'.in : call'.in[i] \in committed'
  <2>1. CASE network
    <3>1. Closed(stream, "Initial") \in Streams /\ Closed(stream, "Initial").state = "Initial"
          /\ ~Closed(stream, "Initial").handshake /\ ~Closed(stream, "Initial").idle
          /\ "current" \notin Closed(stream, "Initial").asked
      BY Facts, ClosedFacts
    <3>2. FillWritePipeline(TRUE, table[u], <<>>, Closed(stream, "Initial"), NoCall(call.user))
      BY <1>1, <2>1
    <3>3. /\ pipeline' \in Seq(Batches) /\ stream' \in Streams /\ call' \in Calls_
          /\ Lined(pipeline', table[u]) /\ Full(pipeline', table[u])
          /\ Fits(TRUE, pipeline', stream', call') /\ Runs(TRUE, pipeline', stream')
          /\ call'.in = <<>> /\ call'.end = "none" /\ stream'.state # "Open"
      BY <1>2, <3>1, <3>2, Facts, RestartFacts
    <3>4. Fits(network, pipeline', stream', call') /\ Runs(network, pipeline', stream')
      BY <2>1, <3>3 DEF Fits, Runs
    <3> QED BY <3>3, <3>4
  <2>2. CASE ~network
    <3>1. UNCHANGED <<pipeline, stream, call, committed>>
      BY <1>1, <2>2
    <3>2. pipeline = <<>> /\ ~IsStarted(stream) /\ stream.state # "Open"
      BY <2>2, Facts DEF Runs, Fits, IsStarted
    <3>3. Lined(<<>>, table[u])
      BY <1>2, Facts, LinedEmpty
    <3> QED BY <2>2, <3>1, <3>2, <3>3, Facts
  <2> QED BY <2>1, <2>2
<1>5. jobs' \in Seq(Jobs)
  BY <1>1, <1>2, StaleFacts
<1>6. waits' \subseteq waits /\ nextId' \in Nat \ {0}
  <2>1. CASE u # user
    <3>1. LoadNextBatchIdFromDb(table) \subseteq Nat \ {0}
      BY Facts, BatchIdsAreNumbers DEF LoadNextBatchIdFromDb
    <3> QED BY <1>1, <2>1, <3>1
  <2>2. CASE u = user
    BY <1>1, <2>2, Facts
  <2> QED BY <2>1, <2>2
<1>7. Types'
  BY <1>1, <1>2, <1>3, <1>4, <1>5, <1>6, Facts DEF Types
<1>8. Wired'
  BY <1>1, <1>4 DEF Wired
<1>9. Tokens'
  <2>1. network \/ stream.state # "Starting"
    BY Facts DEF Fits, IsStarted
  <2>2. \/ jobs' = Stale(Tail(jobs))
        \/ jobs' = Tail(jobs) /\ stream.state # "Starting"
    BY <1>1, <2>1
  <2>3. user' = Head(jobs).user
    BY <1>1 DEF u
  <2> QED BY <1>1, <2>2, <2>3, Facts, TokensChange
<1>10. Kept'
  <2>1. CASE u = user
    <3>1. UNCHANGED <<user, waits, nextId>>
      BY <1>1, <2>1
    <3> QED BY <1>1, <1>3, <1>4, <3>1, KeptQuiet
  <2>2. CASE u # user
    <3>1. accepted \subseteq committed' /\ rejected \subseteq Bad /\ waited \subseteq Settled'
      BY <1>3, Facts DEF Kept, Settled
    <3> QED BY <1>1, <1>3, <1>4, <2>2, <3>1, KeptForgotten
  <2> QED BY <2>1, <2>2
<1> QED BY <1>7, <1>8, <1>9, <1>10 DEF IInv

\* A crash and the next start.  What was told before is true.
LEMMA RestartedKeeps ==
  ASSUME IInv, Restarted, rejected' = rejected,
         accepted' \subseteq accepted \cup committed, accepted' \subseteq Writes,
         waited' \subseteq Settled, waited' \subseteq Writes
  PROVE  IInv'
<1>1. /\ user' = credUser /\ nextId' \in LoadNextBatchIdFromDb(table)
      /\ callbacks' = {} /\ waits' = {} /\ network' = TRUE /\ jobs' = <<>>
      /\ committed' \in Flushed /\ aborted' = FALSE
      /\ FillWritePipeline(TRUE, table[credUser], <<>>, FreshStream, NoCall(call.user))
      /\ UNCHANGED <<table, credUser, made>>
  BY DEF Restarted, HungUp
<1>2. committed \subseteq committed' /\ committed' \subseteq Writes /\ committed' \cap Bad = {}
  BY <1>1, FlushedFacts
<1>3. FreshStream \in Streams /\ FreshStream.state = "Initial" /\ ~FreshStream.handshake
      /\ ~FreshStream.idle /\ "current" \notin FreshStream.asked
  BY DEF FreshStream, Streams
<1>4. /\ pipeline' \in Seq(Batches) /\ stream' \in Streams /\ call' \in Calls_
      /\ Lined(pipeline', table[credUser]) /\ Full(pipeline', table[credUser])
      /\ Fits(TRUE, pipeline', stream', call') /\ Runs(TRUE, pipeline', stream')
      /\ call'.in = <<>> /\ call'.end = "none" /\ stream'.state # "Open"
  BY <1>1, <1>3, Facts, RestartFacts
<1>5. nextId' \in Nat \ {0}
  BY <1>1, Facts, BatchIdsAreNumbers DEF LoadNextBatchIdFromDb
<1>6. Types'
  <2>1. network' \in BOOLEAN /\ aborted' \in BOOLEAN
    BY <1>1
  <2>3. jobs' \in Seq(Jobs)
    BY <1>1, EmptySeq
  <2>2. table' \in [Users -> SUBSET Batches] /\ made' \in [Users -> Seq(Writes)]
        /\ user' \in Users /\ credUser' \in Users /\ rejected' \subseteq Writes
    BY <1>1, Facts DEF Types
  <2> QED BY <1>1, <1>2, <1>4, <1>5, <2>1, <2>2, <2>3 DEF Types
<1>7. Wired'
  BY <1>1, <1>4 DEF Wired
<1>8. Tokens'
  BY <1>1 DEF Tokens
<1>9. Kept'
  <2>1. accepted' \subseteq committed' /\ rejected' \subseteq Bad /\ waited' \subseteq Settled'
    BY <1>2, Facts DEF Kept, Settled
  <2> QED BY <1>1, <1>2, <1>4, <2>1, KeptForgotten
<1> QED BY <1>6, <1>7, <1>8, <1>9 DEF IInv

LEMMA CrashKeeps ==
  ASSUME IInv, Crash
  PROVE  IInv'
<1>1. accepted \subseteq Writes /\ waited \subseteq Writes /\ waited \subseteq Settled
  BY Facts DEF Types, Kept
<1> QED BY <1>1, RestartedKeeps DEF Crash

\* The first write of the pipeline is answered, and the pipeline filled again with the
\* rows that are left.
LEMMA SettledKeeps ==
  ASSUME IInv, ~aborted, pipeline # <<>>, NEW ok \in BOOLEAN,
         Answer(Head(pipeline).id, ok), table' = Removed(table, user, Head(pipeline).id),
         UNCHANGED <<nextId, user, network, credUser, made, aborted>>,
         committed \subseteq committed', committed' \subseteq Writes, committed' \cap Bad = {},
         IF ok THEN Head(pipeline).w \in committed' ELSE Head(pipeline).w \in Bad,
         NEW s \in Streams, NEW c \in Calls_,
         FillWritePipeline(network, table'[user], Tail(pipeline), s, c),
         Fits(network, Tail(pipeline), s, c),
         s.state = "Open" => stream.state = "Open" /\ c.user = call.user,
         \A i \in DOMAIN c.in : c.in[i] \in committed',
         jobs' \in Seq(Jobs),
         (IsStarted(s) => stream'.state = s.state /\ stream'.asked = s.asked) => Tokens'
  PROVE  IInv'
<1> DEFINE h == Head(pipeline)
           rows == table'[user]
<1>1. /\ table \in [Users -> SUBSET Batches] /\ user \in Users /\ network \in BOOLEAN
      /\ pipeline \in Seq(Batches) /\ Lined(pipeline, table[user])
      /\ \A a, b \in table[user] : a.id = b.id => a = b
  BY Facts DEF Kept, Rows
<1>2. /\ table' \in [Users -> SUBSET Batches] /\ rows \in SUBSET Batches
      /\ rows = {b \in table[user] : b.id # h.id}
  BY <1>1 DEF Removed
<1>3. h \in table[user] /\ Tail(pipeline) \in Seq(Batches) /\ Lined(Tail(pipeline), rows)
  BY <1>1, <1>2, LinedTail
<1>4. IsFiniteSet(rows)
  BY <1>1, <1>2, Facts, FS_Subset
<1>5. ~network => Tail(pipeline) = <<>>
  BY Facts DEF Runs
<1>6. FillWritePipeline(network, rows, Tail(pipeline), s, c)
  OBVIOUS
<1> HIDE DEF rows
<1>7. /\ pipeline' \in Seq(Batches) /\ stream' \in Streams /\ call' \in Calls_
      /\ Lined(pipeline', rows) /\ (network => Full(pipeline', rows))
      /\ Fits(network, pipeline', stream', call') /\ Runs(network, pipeline', stream')
      /\ call'.user = c.user /\ call'.in = c.in /\ call'.end = c.end
      /\ stream'.state = "Open" <=> s.state = "Open"
      /\ IsStarted(s) => stream'.state = s.state /\ stream'.asked = s.asked
  <2> DEFINE q == Tail(pipeline)
  <2>1. /\ q \in Seq(Batches) /\ Lined(q, rows) /\ Fits(network, q, s, c)
        /\ FillWritePipeline(network, rows, q, s, c) /\ (~network => q = <<>>)
    BY <1>3, <1>5, <1>6
  <2>2. network \in BOOLEAN /\ rows \in SUBSET Batches
    BY <1>1, <1>2
  <2> HIDE DEF q
  <2> QED BY <1>4, <2>1, <2>2, FillFacts
<1>8. /\ callbacks' \subseteq callbacks /\ waits' \subseteq waits
      /\ accepted' \subseteq Writes /\ rejected' \subseteq Writes /\ waited' \subseteq Writes
  <2>1. \A d \in Told(h.id) : d \in callbacks /\ d.w \in Writes
    BY Facts DEF Told, Types
  <2>2. \A x \in Triggered(h.id) : x \in waits /\ x.need \subseteq Writes
    BY Facts DEF Triggered, Types
  <2>3. /\ callbacks' = callbacks \ Told(h.id) /\ waits' = waits \ Triggered(h.id)
        /\ accepted' \subseteq accepted \cup {d.w : d \in Told(h.id)}
        /\ rejected' \subseteq rejected \cup {d.w : d \in Told(h.id)}
        /\ waited' = waited \cup UNION {x.need : x \in Triggered(h.id)}
    BY DEF Answer
  <2>4. accepted \subseteq Writes /\ rejected \subseteq Writes /\ waited \subseteq Writes
    BY Facts DEF Types
  <2> QED BY <2>1, <2>2, <2>3, <2>4
<1>9. Types'
  <2>1. callbacks \subseteq [user : Users, id : Nat, w : Writes]
        /\ waits \subseteq [id : Nat, need : SUBSET Writes]
    BY Facts DEF Types
  <2> QED BY <1>2, <1>7, <1>8, <2>1, Facts DEF Types
<1>10. Wired'
  <2>1. stream'.state = "Open" => call'.user = user'
    BY <1>7, Facts DEF Wired
  <2>2. table'[user'] = rows
    BY DEF rows
  <2> QED BY <1>7, <2>1, <2>2 DEF Wired
<1>11. Tokens'
  BY <1>7
<1>12. Kept'
  BY <1>7, KeptSettled
<1> QED BY <1>9, <1>10, <1>11, <1>12 DEF IInv

\* A permanent error ends a call whose handshake is done only at the first write of the
\* pipeline, and that is one the backend refuses.
LEMMA RefusedIsHead ==
  ASSUME IInv, call.end = "permanent", call.in = <<>>, stream.handshake, pipeline # <<>>
  PROVE  Head(pipeline).w \in Bad
<1>1. call.out # <<>> /\ Head(call.out) \in Bad /\ call.in \o call.out = Mutations(pipeline)
  BY Facts DEF Fits
<1>2. call.in \o call.out = call.out
  BY Facts, Moves
<1>3. Head(Mutations(pipeline)) = Head(pipeline).w
  BY Facts, MutationsHead
<1> QED BY <1>1, <1>2, <1>3

LEMMA CloseWithErrorKeeps ==
  ASSUME IInv, ~aborted, NEW permanent \in BOOLEAN, NEW js \in Seq(Jobs),
         js = jobs \/ (jobs # <<>> /\ Head(jobs).kind = "token" /\ js = Tail(jobs)),
         permanent => call.end = "permanent" /\ call.in = <<>>,
         CloseWithError(permanent, js)
  PROVE  IInv'
<1>1. /\ committed' \in Flushed /\ jobs' = Stale(js)
      /\ UNCHANGED <<nextId, user, network, credUser, made, aborted>>
  BY DEF CloseWithError
<1>2. committed \subseteq committed' /\ committed' \subseteq Writes /\ committed' \cap Bad = {}
  BY <1>1, FlushedFacts
<1>3. jobs' \in Seq(Jobs) /\ Tokens'
  BY <1>1, Facts, StaleFacts, TokensStale
<1>4. CASE permanent /\ stream.handshake /\ pipeline # <<>>
  <2> DEFINE s == Closed(stream, "Initial")
             c == HungUp
  <2>1. /\ table' = Removed(table, user, Head(pipeline).id)
        /\ Answer(Head(pipeline).id, FALSE)
        /\ FillWritePipeline(network, table'[user], Tail(pipeline), s, c)
    BY <1>4 DEF CloseWithError
  <2>2. Head(pipeline).w \in Bad
    BY <1>4, RefusedIsHead
  <2>3. /\ s \in Streams /\ s.state = "Initial" /\ ~s.handshake /\ ~s.idle
        /\ "current" \notin s.asked /\ ~IsStarted(s)
    BY Facts, ClosedFacts
  <2>4. /\ c \in Calls_ /\ c.in = <<>> /\ c.out = <<>> /\ c.end = "none" /\ c.hello = "none"
    BY Facts DEF HungUp, NoCall, Calls_
  <2> HIDE DEF s, c
  <2>5. Fits(network, Tail(pipeline), s, c)
    BY <2>3, <2>4 DEF Fits
  <2>6. PICK ok \in BOOLEAN : ~ok
    OBVIOUS
  <2>7. Answer(Head(pipeline).id, ok)
    BY <2>1, <2>6 DEF Answer
  <2>8. /\ \A i \in DOMAIN c.in : c.in[i] \in committed'
        /\ IF ok THEN Head(pipeline).w \in committed' ELSE Head(pipeline).w \in Bad
        /\ s.state # "Open"
    BY <2>2, <2>3, <2>4, <2>6
  <2> QED BY <1>1, <1>2, <1>3, <1>4, <2>1, <2>3, <2>4, <2>5, <2>7, <2>8, SettledKeeps
<1>5. CASE ~(permanent /\ stream.handshake /\ pipeline # <<>>)
  <2>1. /\ call' = HungUp
        /\ stream' = IF network /\ pipeline # <<>> THEN Start(Closed(stream, "Error"))
                     ELSE Closed(stream, "Error")
        /\ UNCHANGED <<table, pipeline, callbacks, waits, accepted, rejected, waited>>
    BY <1>5 DEF CloseWithError, api
  <2>2. /\ Closed(stream, "Error") \in Streams /\ Closed(stream, "Error").state = "Error"
        /\ ~Closed(stream, "Error").handshake /\ ~Closed(stream, "Error").idle
        /\ "current" \notin Closed(stream, "Error").asked
    BY Facts, ClosedFacts
  <2>3. /\ stream' \in Streams /\ ~stream'.handshake /\ ~stream'.idle
        /\ stream'.state # "Open" /\ "current" \notin stream'.asked
        /\ IsStarted(stream') <=> network /\ pipeline # <<>>
    BY <2>1, <2>2 DEF Streams, Start, IsStarted
  <2>4. network' = network /\ network' \in BOOLEAN
    BY <1>1, Facts
  <2> QED BY <1>1, <2>1, <2>3, <2>4, GivenUpKeeps
<1> QED BY <1>4, <1>5

LEMMA TokenFailsKeeps ==
  ASSUME IInv, ~aborted, TokenFails
  PROVE  IInv'
<1>1. /\ jobs # <<>> /\ Head(jobs).kind = "token" /\ CloseWithError(FALSE, Tail(jobs))
      /\ Tail(jobs) \in Seq(Jobs)
  BY Facts, HeadTail DEF TokenFails
<1>2. PICK permanent \in BOOLEAN : ~permanent
  OBVIOUS
<1>3. CloseWithError(permanent, Tail(jobs))
  BY <1>1, <1>2, Zenon
<1> QED BY <1>1, <1>2, <1>3, CloseWithErrorKeeps

LEMMA OnStreamFinishKeeps ==
  ASSUME IInv, ~aborted, OnStreamFinish
  PROVE  IInv'
<1>1. PICK permanent \in BOOLEAN : permanent <=> call.end = "permanent"
  <2>1. (call.end = "permanent") \in BOOLEAN
    OBVIOUS
  <2> QED BY <2>1
<1>2. CloseWithError(permanent, jobs)
  BY <1>1 DEF OnStreamFinish, CloseWithError
<1>3. permanent => call.end = "permanent" /\ call.in = <<>>
  BY <1>1 DEF OnStreamFinish
<1> QED BY <1>2, <1>3, Facts, CloseWithErrorKeeps

\* A response is about the first write of the pipeline.
LEMMA ResultIsHead ==
  ASSUME IInv, call.in # <<>>
  PROVE  /\ stream.handshake /\ pipeline # <<>> /\ Head(call.in) = Head(pipeline).w
         /\ Head(call.in) \in committed
         /\ Tail(call.in) \in Seq(Writes)
         /\ Tail(call.in) \o call.out = Mutations(Tail(pipeline))
         /\ \A i \in DOMAIN Tail(call.in) : Tail(call.in)[i] \in committed
<1>1. stream.handshake /\ call.in \o call.out = Mutations(pipeline)
  BY Facts DEF Fits
<1>2. /\ call.in \o call.out # <<>> /\ Head(call.in \o call.out) = Head(call.in)
      /\ Tail(call.in) \o call.out = Tail(call.in \o call.out)
  BY Facts, Moves
<1>3. pipeline # <<>>
  <2>1. Len(Mutations(pipeline)) = Len(pipeline) /\ Mutations(pipeline) \in Seq(Writes)
    BY Facts, MutationsOf
  <2>2. Mutations(pipeline) # <<>>
    BY <1>1, <1>2
  <2>3. Len(pipeline) # 0
    BY <2>1, <2>2
  <2> QED BY <2>3
<1>4. /\ Head(Mutations(pipeline)) = Head(pipeline).w
      /\ Mutations(Tail(pipeline)) = Tail(Mutations(pipeline))
  BY <1>3, Facts, MutationsHead
<1>5. /\ Head(call.in) = call.in[1] /\ 1 \in DOMAIN call.in /\ Tail(call.in) \in Seq(Writes)
      /\ \A i \in DOMAIN Tail(call.in) : i + 1 \in DOMAIN call.in /\ Tail(call.in)[i] = call.in[i + 1]
  BY Facts, HeadTail
<1>6. \A i \in DOMAIN call.in : call.in[i] \in committed
  BY Facts
<1> QED BY <1>1, <1>2, <1>3, <1>4, <1>5, <1>6

LEMMA MutationResultKeeps ==
  ASSUME IInv, ~aborted, OnWriteStreamMutationResult
  PROVE  IInv'
<1> DEFINE c == [call EXCEPT !.in = Tail(@)]
<1>1. call.in # <<>>
  BY DEF OnWriteStreamMutationResult
<1>2. /\ stream.handshake /\ pipeline # <<>> /\ Head(call.in) = Head(pipeline).w
      /\ Head(call.in) \in committed /\ Tail(call.in) \in Seq(Writes)
      /\ Tail(call.in) \o call.out = Mutations(Tail(pipeline))
      /\ \A i \in DOMAIN Tail(call.in) : Tail(call.in)[i] \in committed
  BY <1>1, ResultIsHead
<1>3. /\ Answer(Head(pipeline).id, TRUE)
      /\ table' = Removed(table, user, Head(pipeline).id)
      /\ FillWritePipeline(network, table'[user], Tail(pipeline), stream, c)
      /\ UNCHANGED <<nextId, user, network, credUser, jobs, made, committed, aborted>>
  BY <1>2 DEF OnWriteStreamMutationResult
<1>4. /\ c \in Calls_ /\ c.user = call.user /\ c.hello = call.hello /\ c.end = call.end
      /\ c.out = call.out /\ c.in = Tail(call.in)
  BY <1>2, Facts DEF Calls_
<1> HIDE DEF c
<1>5. Fits(network, Tail(pipeline), stream, c)
  BY <1>2, <1>4, Facts DEF Fits
<1>6. PICK ok \in BOOLEAN : ok
  OBVIOUS
<1>7. Answer(Head(pipeline).id, ok)
  BY <1>3, <1>6 DEF Answer
<1>8. /\ \A i \in DOMAIN c.in : c.in[i] \in committed'
      /\ IF ok THEN Head(pipeline).w \in committed' ELSE Head(pipeline).w \in Bad
      /\ committed \subseteq committed' /\ committed' \subseteq Writes /\ committed' \cap Bad = {}
      /\ jobs' \in Seq(Jobs) /\ stream \in Streams
  BY <1>2, <1>3, <1>4, <1>6, Facts
<1>9. (IsStarted(stream) => stream'.state = stream.state /\ stream'.asked = stream.asked) => Tokens'
  BY <1>3, Facts, TokensSame DEF IsStarted
<1> QED BY <1>2, <1>3, <1>4, <1>5, <1>7, <1>8, <1>9, SettledKeeps

\* The callback of the first write was called, and of the crash nothing is left but
\* the answer.
LEMMA CrashAfterAnswerKeeps ==
  ASSUME IInv, CrashAfterAnswer
  PROVE  IInv'
<1> DEFINE h == Head(pipeline)
<1>1. /\ Restarted /\ rejected' = rejected /\ call.in # <<>>
      /\ accepted' = accepted \cup {c.w : c \in Told(h.id)}
      /\ waited' = waited \cup UNION {x.need : x \in Triggered(h.id)}
  BY DEF CrashAfterAnswer
<1>2. pipeline # <<>> /\ h.w \in committed
  BY <1>1, ResultIsHead
<1>3. /\ h \in table[user] /\ \A b \in table[user] : h.id <= b.id
      /\ \A a, b \in table[user] : a.id = b.id => a = b
      /\ \A b \in table[user] : b.id \in Nat /\ b.w \in Writes
  <2>1. \A a, b \in table[user] : a.id = b.id => a = b
    BY Facts DEF Kept, Rows
  <2>2. h \in table[user] /\ \A b \in table[user] : h.id <= b.id
    BY <1>2, <2>1, Facts, LinedTail
  <2>3. \A b \in table[user] : b.id \in Nat /\ b.w \in Writes
    BY Facts, Fields
  <2> QED BY <2>1, <2>2, <2>3
<1> HIDE DEF h
<1>4. \A c \in Told(h.id) : c.w = h.w
  <2>1. ASSUME NEW c \in Told(h.id)
        PROVE  c.w = h.w
    <3>1. c \in callbacks /\ c.user = user /\ c.id = h.id
      BY DEF Told
    <3>2. [id |-> c.id, w |-> c.w] \in table[user]
      BY <3>1, Facts DEF Kept, CallbacksAreQueued
    <3>3. [id |-> c.id, w |-> c.w] = h
      BY <1>3, <3>1, <3>2
    <3>4. [id |-> c.id, w |-> c.w].w = c.w
      OBVIOUS
    <3> QED BY <3>3, <3>4
  <2> QED BY <2>1
<1>5. \A x \in Triggered(h.id) : x.need \subseteq Settled /\ x.need \subseteq Writes
  <2>1. ASSUME NEW x \in Triggered(h.id), NEW w \in x.need
        PROVE  w \in Settled
    <3>1. x \in waits /\ x.id = h.id
      BY DEF Triggered
    <3>2. CASE \E b \in table[user] : b.w = w /\ b.id <= x.id
      <4>1. PICK b \in table[user] : b.w = w /\ b.id <= x.id
        BY <3>2
      <4>2. b.id = h.id
        BY <1>3, <3>1, <4>1
      <4>3. b = h
        BY <1>3, <4>2
      <4> QED BY <1>2, <4>1, <4>3 DEF Settled
    <3> QED BY <3>1, <3>2, Facts DEF Kept
  <2>2. \A x \in Triggered(h.id) : x.need \subseteq Writes
    BY Facts DEF Triggered, Types
  <2> QED BY <2>1, <2>2
<1>6. /\ accepted \subseteq Writes /\ waited \subseteq Writes /\ waited \subseteq Settled
      /\ h.w \in Writes
  BY <1>3, Facts DEF Types, Kept
<1>7. /\ accepted' \subseteq accepted \cup committed /\ accepted' \subseteq Writes
      /\ waited' \subseteq Settled /\ waited' \subseteq Writes
  BY <1>1, <1>2, <1>4, <1>5, <1>6
<1> QED BY <1>1, <1>7, RestartedKeeps

-----------------------------------------------------------------------------
(* The theorems.                                                            *)

LEMMA InitIInv == Init => IInv
<1> SUFFICES ASSUME Init
             PROVE  IInv
  OBVIOUS
<1>1. /\ table = [u \in Users |-> {}] /\ nextId = 1 /\ user \in Users /\ credUser = user
      /\ callbacks = {} /\ waits = {} /\ network = TRUE /\ pipeline = <<>>
      /\ stream = FreshStream /\ call = NoCall(user) /\ jobs = <<>>
      /\ made = [u \in Users |-> <<>>]
      /\ committed = {} /\ accepted = {} /\ rejected = {} /\ waited = {} /\ aborted = FALSE
  BY DEF Init
<1>2. stream \in Streams /\ stream.state = "Initial" /\ ~stream.handshake /\ ~stream.idle
      /\ "current" \notin stream.asked
  BY <1>1 DEF FreshStream, Streams
<1>3. call \in Calls_ /\ call.in = <<>> /\ call.end = "none" /\ call = NoCall(user)
  BY <1>1, NoCallType
<1>4. Types
  <2>1. table \in [Users -> SUBSET Batches] /\ made \in [Users -> Seq(Writes)]
    BY <1>1
  <2>2. pipeline \in Seq(Batches) /\ jobs \in Seq(Jobs) /\ network \in BOOLEAN /\ aborted \in BOOLEAN
    BY <1>1, EmptySeq
  <2> QED BY <1>1, <1>2, <1>3, <2>1, <2>2 DEF Types
<1>5. Wired
  <2>1. Fits(network, pipeline, stream, call)
    <3>1. network \in BOOLEAN /\ user \in Users /\ stream.state \in {"Initial", "Error"}
      BY <1>1, <1>2
    <3> QED BY <1>2, <1>3, <3>1, HungUpFits
  <2>2. Runs(network, pipeline, stream)
    BY <1>1 DEF Runs
  <2>3. Lined(pipeline, table[user]) /\ Full(pipeline, table[user])
    <3>1. table[user] = {}
      BY <1>1
    <3>2. Lined(<<>>, {})
      BY LinedEmpty
    <3> QED BY <1>1, <3>1, <3>2 DEF Full
  <2> QED BY <1>1, <1>2, <2>1, <2>2, <2>3 DEF Wired
<1>6. Tokens
  BY <1>1 DEF Tokens
<1>7. Kept
  <2>1. Rows(table, nextId)
    BY <1>1, FS_EmptySet DEF Rows
  <2>2. \A u \in Users : Queued(u) = {} /\ MadeBy(u) = {}
    BY <1>1 DEF Queued, MadeBy
  <2> QED BY <1>1, <1>3, <2>1, <2>2 DEF Kept, CallbacksAreQueued
<1> QED BY <1>4, <1>5, <1>6, <1>7 DEF IInv

LEMMA StutterKeeps ==
  ASSUME IInv, UNCHANGED vars
  PROVE  IInv'
<1>1. UNCHANGED <<table, nextId, user, callbacks, waits, network, pipeline, stream, call, credUser,
                  jobs, made, accepted, rejected, waited, committed, aborted>>
  BY DEF vars, queue, api, remote, history
<1>2. Types'
  BY <1>1, Facts DEF Types
<1>3. Wired'
  BY <1>1, Facts DEF Wired
<1>4. Tokens'
  BY <1>1, Facts, TokensSame
<1>5. Kept'
  BY <1>1, Facts, KeptQuiet
<1> QED BY <1>2, <1>3, <1>4, <1>5 DEF IInv

LEMMA StepKeeps ==
  ASSUME IInv, [Next]_vars
  PROVE  IInv'
<1>1. CASE ~aborted /\ Calls
  BY <1>1, WriteKeeps, WaitKeeps, EnableNetworkKeeps, IdleTimeoutKeeps DEF Calls
<1>2. CASE ~aborted /\ Progress
  <2>1. CASE RunsJob
    BY <1>2, <2>1, UserChangesKeeps, TokenArrivesKeeps, TokenTooLateKeeps, TokenFailsKeeps
    DEF RunsJob
  <2>2. CASE BackoffElapsed \/ OnWriteStreamHandshakeComplete \/ OnWriteStreamMutationResult
    BY <1>2, <2>2, BackoffKeeps, HandshakeKeeps, MutationResultKeeps
  <2>3. CASE ReadsEnd
    BY <1>2, <2>3, OnStreamFinishKeeps, OnStreamFinishOkKeeps DEF ReadsEnd
  <2>4. CASE \E age \in {"current", "stale"}, ok \in BOOLEAN : TokenAnswered(age, ok)
    BY <2>4, TokenAnsweredKeeps
  <2>5. CASE Serves
    BY <1>2, <2>5, BackendKeeps DEF Serves
  <2>6. TokenAnswered("current", TRUE) \/ TokenAnswered("stale", TRUE) =>
          \E age \in {"current", "stale"}, ok \in BOOLEAN : TokenAnswered(age, ok)
    BY Zenon
  <2> QED BY <1>2, <2>1, <2>2, <2>3, <2>4, <2>5, <2>6 DEF Progress
<1>3. CASE ~aborted /\ Disturbance
  <2>1. CASE \E u \in Users : SignIn(u)
    BY <2>1, SignInKeeps
  <2>2. CASE TokenAnswered("current", FALSE)
    <3>1. \E age \in {"current", "stale"}, ok \in BOOLEAN : TokenAnswered(age, ok)
      BY <2>2, Zenon
    <3> QED BY <3>1, TokenAnsweredKeeps
  <2>3. CASE DisableNetwork \/ ConnectivityChanged
    BY <1>3, <2>3, DisableNetworkKeeps, ConnectivityChangedKeeps
  <2>4. CASE ConnectionDrops \/ BackendRefusesGreeting \/ BackendEndsOk
    BY <1>3, <2>4, BackendKeeps
  <2>5. CASE Crash \/ CrashAfterAnswer
    BY <2>5, CrashKeeps, CrashAfterAnswerKeeps
  <2> QED BY <1>3, <2>1, <2>2, <2>3, <2>4, <2>5 DEF Disturbance
<1>4. CASE aborted /\ Crash
  BY <1>4, CrashKeeps
<1>5. CASE UNCHANGED vars
  BY <1>5, StutterKeeps
<1> QED BY <1>1, <1>2, <1>3, <1>4, <1>5 DEF Next

\* The invariant of the write path: it holds in every reachable state.
THEOREM WritePathInvariant == Spec => []IInv
BY InitIInv, StepKeeps, PTL DEF Spec

\* Every variable of the write path keeps its type, and stream and call go together.
THEOREM WriteTypes == Spec => []TypeOK
<1>1. IInv => TypeOK
  <2> SUFFICES ASSUME IInv
               PROVE  TypeOK
    OBVIOUS
  <2>1. /\ Types /\ Fits(network, pipeline, stream, call) /\ Len(pipeline) <= MaxPendingWrites
    BY Facts DEF Lined
  <2> QED BY <2>1 DEF TypeOK, Types, Fits, Streams, Calls_, Jobs
<1> QED BY <1>1, WritePathInvariant, PTL

\* FillWritePipeline and HandleCredentialChange: the pipeline holds the oldest batches
\* of the signed-in user, in order, and as many as fit.
THEOREM PipelineAlwaysHead == Spec => []PipelineIsHeadOfQueue
<1>1. IInv => PipelineIsHeadOfQueue
  <2> SUFFICES ASSUME IInv
               PROVE  PipelineIsHeadOfQueue
    OBVIOUS
  <2>1. Lined(pipeline, table[user]) /\ (network => Full(pipeline, table[user]))
        /\ pipeline \in Seq(Batches)
    BY Facts DEF Wired
  <2>2. ASSUME NEW b \in table[user], ~ \E i \in DOMAIN pipeline : pipeline[i] = b, network
        PROVE  Len(pipeline) = MaxPendingWrites /\ b.id > pipeline[Len(pipeline)].id
    <3>1. Len(pipeline) = MaxPendingWrites /\ LastId(pipeline) < b.id
      BY <2>1, <2>2 DEF Lined, Full
    <3>2. pipeline # <<>> /\ b.id \in Nat
      BY <3>1, Facts, Fields, PipelineAssumption
    <3>3. LastId(pipeline) = pipeline[Len(pipeline)].id /\ LastId(pipeline) \in Int
      BY <2>1, <3>2, LastIds
    <3> QED BY <3>1, <3>2, <3>3
  <2> QED BY <2>1, <2>2 DEF PipelineIsHeadOfQueue, Lined
<1> QED BY <1>1, WritePathInvariant, PTL

\* OnWriteStreamMutationResult takes a response for the answer to the first batch of the
\* pipeline: on a ready stream, responses and requests are the pipeline's, one for one.
THEOREM ResponsesAlwaysCorrelate == Spec => []ResponsesCorrelate
<1>1. IInv => ResponsesCorrelate
  BY Facts DEF ResponsesCorrelate, IsReady, Fits
<1> QED BY <1>1, WritePathInvariant, PTL

\* NotifyUser: what a callback is told about its write is the truth.
THEOREM OutcomesAlwaysTrue == Spec => []OutcomeIsTrue
<1>1. IInv => OutcomeIsTrue
  BY DEF IInv, Kept, OutcomeIsTrue
<1> QED BY <1>1, WritePathInvariant, PTL

\* RemoveMutationBatch is called only for what is settled: through crashes, changes of
\* user and lost connections, no write leaves the queue that is not applied or refused.
THEOREM NothingIsLost == Spec => []NothingLost
<1>1. IInv => NothingLost
  BY DEF IInv, Kept, Settled, NothingLost
<1> QED BY <1>1, WritePathInvariant, PTL

\* Although LoadNextBatchIdFromDb gives ids out again, a callback is never registered
\* under the id of another write.
THEOREM CallbacksAlwaysQueued == Spec => []CallbacksAreQueued
<1>1. IInv => CallbacksAreQueued
  BY DEF IInv, Kept
<1> QED BY <1>1, WritePathInvariant, PTL

\* TriggerPendingWriteCallbacks: waitForPendingWrites completes only when every write
\* it waited for is settled.
THEOREM WaitsAreHonest == Spec => []WaitIsHonest
<1>1. IInv => WaitIsHonest
  BY DEF IInv, Kept, Settled, WaitIsHonest
<1> QED BY <1>1, WritePathInvariant, PTL

\* ResumeStartWithCredentials and HandleCredentialChange: no write travels on a call
\* that was opened with another user's token.
THEOREM CredentialsAreOwn == Spec => []OwnCredentials
<1>1. IInv => OwnCredentials
  <2> SUFFICES ASSUME IInv, NEW i \in DOMAIN call.out
               PROVE  call.out[i] \in MadeBy(call.user)
    BY DEF OwnCredentials
  <2>1. stream.handshake /\ call.in \o call.out = Mutations(pipeline)
    <3>1. call.out # <<>>
      OBVIOUS
    <3> QED BY <3>1, Facts DEF Fits
  <2>2. call.user = user
    BY <2>1, Facts DEF Fits, Wired
  <2>3. \A k \in DOMAIN Mutations(pipeline) : Mutations(pipeline)[k] \in Queued(user)
    <3>1. \A k \in DOMAIN pipeline : pipeline[k] \in table[user]
      BY Facts DEF Lined
    <3> QED BY <3>1 DEF Mutations, Queued
  <2>4. \E k \in DOMAIN (call.in \o call.out) : (call.in \o call.out)[k] = call.out[i]
    <3>1. call.in \in Seq(Writes) /\ call.out \in Seq(Writes)
      BY Facts
    <3>2. /\ Len(call.in) + i \in DOMAIN (call.in \o call.out)
          /\ (call.in \o call.out)[Len(call.in) + i] = call.out[i]
      BY <3>1, ConcatWrites
    <3> QED BY <3>2
  <2>5. Queued(user) \subseteq MadeBy(user)
    BY Facts DEF Kept
  <2> QED BY <2>1, <2>2, <2>3, <2>4, <2>5
<1> QED BY <1>1, WritePathInvariant, PTL

\* Nothing forgets to start the write stream, and the idle timer never runs on one that
\* has something to send.
THEOREM NeededStreamsRun == Spec => []NeededStreamRuns
<1>1. IInv => NeededStreamRuns
  <2> SUFFICES ASSUME IInv, network, table[user] # {}
               PROVE  IsStarted(stream) /\ ~stream.idle
    BY DEF NeededStreamRuns
  <2>1. pipeline # <<>>
    <3>1. PICK b \in table[user] : (\E i \in DOMAIN pipeline : pipeline[i] = b)
                                   \/ Len(pipeline) = MaxPendingWrites
      BY Facts DEF Wired, Full
    <3> QED BY <3>1, PipelineAssumption
  <2> QED BY <2>1, Facts DEF Runs, Fits
<1> QED BY <1>1, WritePathInvariant, PTL

\* HARD_ASSERT in OnWriteStreamClose, OnWriteStreamMutationResult and OnStreamStart:
\* only a call that the backend ended with OK makes one fail.
THEOREM AssertionsHold == Spec => []NoAssertionFails
<1>1. IInv => NoAssertionFails
  BY DEF IInv, Wired, NoAssertionFails
<1> QED BY <1>1, WritePathInvariant, PTL

-----------------------------------------------------------------------------
(* The write path implements WriteOutbox, and so keeps its promises.       *)
(* Beside IInv this needs that the ids of a user's batches ascend in the   *)
(* order in which the writes were made: with that, the batches of the      *)
(* pipeline are the oldest writes kept, and what a backend applies of the  *)
(* requests of a call is a prefix of them.                                 *)

\* Every write is made once.
OnceMade ==
  \A u, v \in Users : \A i \in DOMAIN made[u], j \in DOMAIN made[v] :
    made[u][i] = made[v][j] => u = v /\ i = j

\* The batches of a user have their ids in the order in which they were made.
IdsInOrder ==
  \A u \in Users : \A a, b \in table[u] : \A i, j \in DOMAIN made[u] :
    made[u][i] = a.w /\ made[u][j] = b.w /\ a.id < b.id => i < j

RInv == IInv /\ OnceMade /\ IdsInOrder

kept == UNION {Queued(u) : u \in Users}
P == INSTANCE WriteOutbox

-----------------------------------------------------------------------------
(* What follows from WriteOutbox, for every number of users and writes: the  *)
(* backend applies the writes of each user in the order they were made, it   *)
(* applies none that it refuses, and a write is let go only when it has been *)
(* applied or is one of those.                                               *)

\* Types, and every write is made at most once.
OTypes ==
  /\ made \in [Users -> Seq(Writes)] /\ committed \subseteq Writes /\ kept \subseteq Writes
  /\ \A u, v \in Users : \A i \in DOMAIN made[u], j \in DOMAIN made[v] :
       made[u][i] = made[v][j] => u = v /\ i = j
  /\ \A w \in committed \cup kept : \E u \in Users : \E i \in DOMAIN made[u] : made[u][i] = w

\* The writes of a user are settled from the first to the last.
SettledInOrder ==
  \A u \in Users : \A i, j \in DOMAIN made[u] :
    i < j /\ made[u][i] \in kept => made[u][j] \in kept

\* Nothing is let go that was neither applied nor refused.
NothingLetGo ==
  \A u \in Users : \A i \in DOMAIN made[u] :
    made[u][i] \notin kept => made[u][i] \in committed \cup Bad

\* A write has been applied only if each before it has been, or will never be.
AppliedInOrder ==
  \A u \in Users : \A i, j \in DOMAIN made[u] :
    i < j /\ made[u][j] \in committed => made[u][i] \in committed \cup Bad

OutboxInv ==
  OTypes /\ SettledInOrder /\ NothingLetGo /\ AppliedInOrder /\ committed \cap Bad = {}

-----------------------------------------------------------------------------
\* The invariant holds at the start, where nothing has been made.
LEMMA OutboxInit == P!OInit => OutboxInv
  BY DEF P!OInit, OutboxInv, OTypes, SettledInOrder, NothingLetGo, AppliedInOrder

\* What Make does to the sequences: the old writes keep their places, and the new
\* one comes last and is none of them.
LEMMA MakeAppends ==
  ASSUME OutboxInv, NEW u \in Users, NEW w \in Writes, P!Make(u, w)
  PROVE  /\ made' \in [Users -> Seq(Writes)]
         /\ Len(made'[u]) = Len(made[u]) + 1 /\ made'[u][Len(made[u]) + 1] = w
         /\ \A v \in Users : \A i \in DOMAIN made[v] : i \in DOMAIN made'[v] /\ made'[v][i] = made[v][i]
         /\ \A v \in Users : \A i \in DOMAIN made'[v] :
              i \in DOMAIN made[v] \/ (v = u /\ i = Len(made[u]) + 1)
         /\ w \notin committed /\ w \notin kept
<1>1. made \in [Users -> Seq(Writes)] /\ made[u] \in Seq(Writes)
  BY DEF OutboxInv, OTypes
<1>2. made' = [made EXCEPT ![u] = Append(@, w)]
  BY DEF P!Make
<1>3. made' \in [Users -> Seq(Writes)]
  BY <1>1, <1>2
<1>4. made'[u] = Append(made[u], w) /\ \A v \in Users : v # u => made'[v] = made[v]
  BY <1>1, <1>2
<1>5. DOMAIN made[u] = 1 .. Len(made[u]) /\ DOMAIN made'[u] = 1 .. Len(made[u]) + 1
  BY <1>1, <1>4
<1>6. w \notin committed /\ w \notin kept
  BY DEF P!Make, OutboxInv, OTypes
<1>7. Len(made'[u]) = Len(made[u]) + 1 /\ made'[u][Len(made[u]) + 1] = w
  BY <1>1, <1>4
<1>8. \A v \in Users : \A i \in DOMAIN made[v] : i \in DOMAIN made'[v] /\ made'[v][i] = made[v][i]
  <2> SUFFICES ASSUME NEW v \in Users, NEW i \in DOMAIN made[v]
               PROVE  i \in DOMAIN made'[v] /\ made'[v][i] = made[v][i]
    OBVIOUS
  <2>1. CASE v = u
    BY <1>1, <1>4, <1>5, <2>1
  <2>2. CASE v # u
    BY <1>4, <2>2
  <2> QED
    BY <2>1, <2>2
<1>9. \A v \in Users : \A i \in DOMAIN made'[v] :
        i \in DOMAIN made[v] \/ (v = u /\ i = Len(made[u]) + 1)
  <2> SUFFICES ASSUME NEW v \in Users, NEW i \in DOMAIN made'[v]
               PROVE  i \in DOMAIN made[v] \/ (v = u /\ i = Len(made[u]) + 1)
    OBVIOUS
  <2>1. CASE v = u
    BY <1>1, <1>5, <2>1
  <2>2. CASE v # u
    BY <1>4, <2>2
  <2> QED
    BY <2>1, <2>2
<1> QED
  BY <1>3, <1>6, <1>7, <1>8, <1>9

LEMMA MakeKeeps ==
  ASSUME OutboxInv, NEW u \in Users, NEW w \in Writes, P!Make(u, w)
  PROVE  OutboxInv'
<1> DEFINE n == Len(made[u]) + 1
<1>1. committed' = committed /\ kept' = kept \cup {w}
  BY DEF P!Make
<1>2. \A v \in Users : \A i \in DOMAIN made[v] : made[v][i] # w
  BY DEF P!Make
<1>3. \A v \in Users : made[v] \in Seq(Writes) /\ made'[v] \in Seq(Writes)
  BY MakeAppends DEF OutboxInv, OTypes
<1>4. n \in DOMAIN made'[u] /\ made'[u][n] = w /\ \A i \in DOMAIN made[u] : i \in Nat /\ i < n
  BY <1>3, MakeAppends
<1>5. OTypes'
  <2>1. ASSUME NEW v \in Users, NEW x \in Users, NEW i \in DOMAIN made'[v], NEW j \in DOMAIN made'[x],
               made'[v][i] = made'[x][j]
        PROVE  v = x /\ i = j
    <3>1. CASE i \in DOMAIN made[v] /\ j \in DOMAIN made[x]
      BY <2>1, <3>1, MakeAppends DEF OutboxInv, OTypes
    <3>2. CASE i \in DOMAIN made[v] /\ j \notin DOMAIN made[x]
      BY <1>2, <1>4, <2>1, <3>2, MakeAppends
    <3>3. CASE i \notin DOMAIN made[v] /\ j \in DOMAIN made[x]
      BY <1>2, <1>4, <2>1, <3>3, MakeAppends
    <3>4. CASE i \notin DOMAIN made[v] /\ j \notin DOMAIN made[x]
      BY <3>4, MakeAppends
    <3> QED
      BY <3>1, <3>2, <3>3, <3>4
  <2>2. ASSUME NEW x \in (committed \cup kept)'
        PROVE  \E v \in Users : \E i \in DOMAIN made'[v] : made'[v][i] = x
    <3>1. CASE x = w
      BY <1>4, <3>1
    <3>2. CASE x \in committed \cup kept
      BY <3>2, MakeAppends DEF OutboxInv, OTypes
    <3> QED
      BY <1>1, <3>1, <3>2
  <2> QED
    BY <1>1, <2>1, <2>2, MakeAppends DEF OutboxInv, OTypes
<1>6. SettledInOrder'
  BY <1>1, <1>2, <1>4, MakeAppends DEF OutboxInv, SettledInOrder
<1>7. NothingLetGo'
  BY <1>1, <1>2, MakeAppends DEF OutboxInv, NothingLetGo
<1>8. AppliedInOrder'
  <2> SUFFICES ASSUME NEW v \in Users, NEW i \in DOMAIN made'[v], NEW j \in DOMAIN made'[v],
                      i < j, made'[v][j] \in committed
               PROVE  made'[v][i] \in committed \cup Bad
    BY <1>1 DEF AppliedInOrder
  <2>1. j \in DOMAIN made[v]
    BY <1>4, MakeAppends
  <2>2. i \in DOMAIN made[v]
    BY <1>3, <1>4, <2>1, MakeAppends
  <2> QED
    BY <2>1, <2>2, MakeAppends DEF OutboxInv, AppliedInOrder
<1> QED
  BY <1>1, <1>5, <1>6, <1>7, <1>8 DEF OutboxInv

LEMMA CommitKeeps ==
  ASSUME OutboxInv, NEW u \in Users, NEW n \in DOMAIN made[u], P!Commit(u, n)
  PROVE  OutboxInv'
<1> DEFINE S == {made[u][i] : i \in 1 .. n} \cap kept
<1>1. /\ committed' = committed \cup S /\ S \cap Bad = {}
      /\ made' = made /\ kept' = kept
  BY DEF P!Commit
<1>2. OTypes'
  BY <1>1 DEF OutboxInv, OTypes
<1>3. AppliedInOrder'
  <2>1. ASSUME NEW v \in Users, NEW i \in DOMAIN made[v], NEW j \in DOMAIN made[v],
               i < j, made[v][j] \in S
        PROVE  made[v][i] \in committed' \cup Bad
    <3>1. PICK k \in 1 .. n : made[u][k] = made[v][j]
      BY <2>1
    <3>2. made[u] \in Seq(Writes) /\ k \in DOMAIN made[u] /\ n \in Nat
      BY DEF OutboxInv, OTypes
    <3>3. v = u /\ k = j
      BY <3>1, <3>2 DEF OutboxInv, OTypes
    <3>4. i \in 1 .. n
      BY <2>1, <3>2, <3>3
    <3>5. CASE made[v][i] \in kept
      BY <1>1, <3>3, <3>4, <3>5
    <3>6. CASE made[v][i] \notin kept
      BY <1>1, <3>6 DEF OutboxInv, NothingLetGo
    <3> QED
      BY <3>5, <3>6
  <2> QED
    BY <1>1, <2>1 DEF OutboxInv, AppliedInOrder
<1> QED
  BY <1>1, <1>2, <1>3 DEF OutboxInv, SettledInOrder, NothingLetGo

LEMMA SettleKeeps ==
  ASSUME OutboxInv, NEW u \in Users, NEW n \in DOMAIN made[u], P!Settle(u, n)
  PROVE  OutboxInv'
<1>1. /\ kept' = kept \ {made[u][n]} /\ made' = made /\ committed' = committed
      /\ made[u][n] \in committed \cup Bad
      /\ \A i \in 1 .. n - 1 : made[u][i] \notin kept
  BY DEF P!Settle
<1>2. OTypes'
  BY <1>1 DEF OutboxInv, OTypes
<1>3. SettledInOrder'
  <2>1. ASSUME NEW v \in Users, NEW i \in DOMAIN made[v], NEW j \in DOMAIN made[v],
               i < j, made[v][i] \in kept, made[v][j] = made[u][n]
        PROVE  FALSE
    <3>1. v = u /\ j = n
      BY <2>1 DEF OutboxInv, OTypes
    <3>2. made[u] \in Seq(Writes)
      BY DEF OutboxInv, OTypes
    <3> QED
      BY <1>1, <2>1, <3>1, <3>2
  <2> QED
    BY <1>1, <2>1 DEF OutboxInv, SettledInOrder
<1>4. NothingLetGo'
  BY <1>1 DEF OutboxInv, NothingLetGo
<1> QED
  BY <1>1, <1>2, <1>3, <1>4 DEF OutboxInv, AppliedInOrder

-----------------------------------------------------------------------------
\* The outbox keeps its promises in every behaviour: types, the order in which the
\* writes of a user are settled and applied, and that nothing is let go early.
THEOREM OutboxPromises == P!OSpec => []OutboxInv
<1>1. P!OInit => OutboxInv
  BY OutboxInit
<1>2. OutboxInv /\ [P!ONext]_(P!ovars) => OutboxInv'
  <2> SUFFICES ASSUME OutboxInv, [P!ONext]_(P!ovars) PROVE OutboxInv'
    OBVIOUS
  <2>1. CASE \E u \in Users : \E w \in Writes : P!Make(u, w)
    BY <2>1, MakeKeeps
  <2>2. CASE \E u \in Users : \E n \in DOMAIN made[u] : P!Commit(u, n)
    BY <2>2, CommitKeeps
  <2>3. CASE \E u \in Users : \E n \in DOMAIN made[u] : P!Settle(u, n)
    BY <2>3, SettleKeeps
  <2>4. CASE UNCHANGED P!ovars
    BY <2>4 DEF P!ovars, OutboxInv, OTypes, SettledInOrder, NothingLetGo, AppliedInOrder
  <2> QED
    BY <2>1, <2>2, <2>3, <2>4 DEF P!ONext
<1> QED
  BY <1>1, <1>2, PTL DEF P!OSpec

-----------------------------------------------------------------------------
(* Rows and the writes in them.                                             *)

\* A row has its place among the writes of its user, and no other row has it.
LEMMA Places ==
  ASSUME RInv, NEW u \in Users, NEW a \in table[u]
  PROVE  /\ a.w \in Writes /\ a.id \in Nat /\ a.w \in kept
         /\ \E i \in DOMAIN made[u] : made[u][i] = a.w
         /\ \A b \in table[u] : a.w = b.w => a = b
<1>1. a \in Batches /\ \A b \in table[u] : b \in Batches
  BY Facts DEF RInv
<1>2. a.w \in Writes /\ a.id \in Nat
  BY <1>1, Fields
<1>3. a.w \in Queued(u) /\ Queued(u) \subseteq MadeBy(u)
  BY Facts DEF RInv, Kept, Queued
<1>4. \E i \in DOMAIN made[u] : made[u][i] = a.w
  BY <1>3 DEF MadeBy
<1>5. ASSUME NEW b \in table[u], a.w = b.w
      PROVE  a = b
  <2>1. PICK i \in DOMAIN made[u] : made[u][i] = a.w
    BY <1>4
  <2>2. b.id \in Nat /\ i \in Nat
    BY <1>1, Fields, Facts, Indices DEF RInv, Types
  <2>3. ~(a.id < b.id) /\ ~(b.id < a.id)
    BY <1>5, <2>1, <2>2 DEF RInv, IdsInOrder
  <2>4. a.id = b.id
    BY <1>2, <2>2, <2>3
  <2> QED BY <2>4, Facts DEF RInv, Kept, Rows
<1> QED BY <1>2, <1>3, <1>4, <1>5 DEF kept

\* A write that is kept and was made by a user is in a row of that user.
LEMMA KeptRow ==
  ASSUME RInv, NEW u \in Users, NEW i \in DOMAIN made[u], made[u][i] \in kept
  PROVE  \E a \in table[u] : a.w = made[u][i]
<1>1. PICK v \in Users : made[u][i] \in Queued(v)
  BY DEF kept
<1>2. made[u][i] \in MadeBy(v)
  BY <1>1, Facts DEF RInv, Kept
<1>3. PICK j \in DOMAIN made[v] : made[v][j] = made[u][i]
  BY <1>2 DEF MadeBy
<1>4. v = u
  BY <1>3 DEF RInv, OnceMade
<1> QED BY <1>1, <1>4 DEF Queued

\* The pipeline p begins with l batches about the writes of s, and behind them are
\* n about the first writes of t.
Splits(l, n, p, s, t) ==
  /\ n \in Nat /\ l + n \in DOMAIN p /\ l + n \in Nat
  /\ \A i \in DOMAIN p : i \in Nat /\ (i <= l + n => i \in 1 .. l \/ i - l \in 1 .. n)
  /\ \A i \in 1 .. n : /\ l + i \in DOMAIN p /\ t[i] = p[l + i].w
                       /\ l + i <= l + n /\ (l + i = l + n => i = n)
  /\ \A i \in 1 .. l : i \in DOMAIN s /\ s[i] = p[i].w

\* When the writes of a pipeline are those of s and then those of t, the first n of t
\* are in the batches behind the first l.
LEMMA Overlap ==
  ASSUME NEW p \in Seq(Batches), NEW s \in Seq(Writes), NEW t \in Seq(Writes),
         s \o t = Mutations(p), NEW n \in 1 .. Len(t)
  PROVE  \E l \in Nat : Splits(l, n, p, s, t)
<1> DEFINE l == Len(s)
<1>1. /\ DOMAIN s = 1 .. l /\ DOMAIN t = 1 .. Len(t) /\ l \in Nat /\ Len(t) \in Nat /\ n \in Nat
      /\ n <= Len(t)
  BY Indices
<1>2. Len(s \o t) = l + Len(t)
      /\ (\A i \in DOMAIN s : (s \o t)[i] = s[i]) /\ \A i \in DOMAIN t : (s \o t)[l + i] = t[i]
  BY ConcatWrites
<1>3. Len(Mutations(p)) = Len(p) /\ \A i \in DOMAIN p : Mutations(p)[i] = p[i].w
  BY MutationsOf
<1>4. DOMAIN p = 1 .. Len(p)
  BY Indices
<1> HIDE DEF l
<1>5. DOMAIN p = 1 .. l + Len(t)
  BY <1>2, <1>3, <1>4
<1>6. \A i \in 1 .. n : /\ i \in DOMAIN t /\ l + i \in DOMAIN p /\ l + i <= l + n
                        /\ (l + i = l + n => i = n)
  BY <1>1, <1>5
<1>7. \A i \in 1 .. n : t[i] = p[l + i].w
  BY <1>2, <1>3, <1>6
<1>8. \A i \in 1 .. l : i \in DOMAIN s /\ i \in DOMAIN p
  BY <1>1, <1>5
<1>9. \A i \in 1 .. l : s[i] = p[i].w
  BY <1>2, <1>3, <1>8
<1>10. \A i \in DOMAIN p : i \in Nat /\ (i <= l + n => i \in 1 .. l \/ i - l \in 1 .. n)
  BY <1>1, <1>5
<1>11. l + n \in DOMAIN p /\ l + n \in Nat
  BY <1>1, <1>5
<1> QED BY <1>1, <1>6, <1>7, <1>8, <1>9, <1>10, <1>11 DEF Splits

-----------------------------------------------------------------------------
(* What the steps are in WriteOutbox.                                       *)

\* The backend applies the first n requests of the call: these are, with some it had
\* applied before, the oldest writes the user has pending.
LEMMA CommitMaps ==
  ASSUME RInv, NEW n \in 0 .. Len(call.out), \A i \in 1 .. n : call.out[i] \notin Bad,
         committed' = committed \cup {call.out[i] : i \in 1 .. n},
         UNCHANGED <<table, made>>
  PROVE  [P!ONext]_(P!ovars)
<1>1. kept' = kept
  BY DEF kept, Queued
<1>2. CASE n = 0
  <2>1. committed' = committed
    BY <1>2
  <2> QED BY <1>1, <2>1 DEF P!ovars
<1>3. CASE n # 0
  <2>1. /\ call.in \in Seq(Writes) /\ call.out \in Seq(Writes) /\ pipeline \in Seq(Batches)
        /\ user \in Users /\ Lined(pipeline, table[user])
        /\ Fits(network, pipeline, stream, call)
        /\ \A i \in DOMAIN call.in : call.in[i] \in committed
        /\ committed \cap Bad = {}
    BY Facts DEF RInv
  <2>2. n \in 1 .. Len(call.out) /\ call.out # <<>>
    BY <1>3, <2>1
  <2>3. call.in \o call.out = Mutations(pipeline)
    BY <2>1, <2>2 DEF Fits
  <2>3a. PICK l \in Nat : Splits(l, n, pipeline, call.in, call.out)
    BY <2>1, <2>2, <2>3, Overlap
  <2>4. /\ n \in Nat /\ l + n \in DOMAIN pipeline /\ l + n \in Nat
        /\ \A i \in DOMAIN pipeline :
             i \in Nat /\ (i <= l + n => i \in 1 .. l \/ i - l \in 1 .. n)
        /\ \A i \in 1 .. n : /\ l + i \in DOMAIN pipeline /\ call.out[i] = pipeline[l + i].w
                             /\ l + i <= l + n /\ (l + i = l + n => i = n)
        /\ \A i \in 1 .. l : i \in DOMAIN call.in /\ call.in[i] = pipeline[i].w
    BY <2>3a DEF Splits
  <2>5. PICK b : b = pipeline[l + n]
    OBVIOUS
  <2>6. b \in table[user] /\ b.id \in Nat
    BY <2>1, <2>4, <2>5, Places DEF Lined
  <2>7. PICK m \in DOMAIN made[user] : made[user][m] = b.w
    BY <2>1, <2>6, Places
  <2>8. DOMAIN made[user] = 1 .. Len(made[user]) /\ Len(made[user]) \in Nat /\ m \in Nat
    BY <2>1, Facts, Indices DEF RInv, Types
  <2> DEFINE S == {made[user][i] : i \in 1 .. m} \cap kept
             D == {call.out[i] : i \in 1 .. n}
  <2>9. D \subseteq S
    <3> SUFFICES ASSUME NEW i \in 1 .. n
                 PROVE  call.out[i] \in S
      OBVIOUS
    <3>1. PICK a : a = pipeline[l + i]
      OBVIOUS
    <3>2. a \in table[user] /\ call.out[i] = a.w /\ (a = b \/ a.id < b.id)
      BY <2>1, <2>4, <2>5, <3>1 DEF Lined
    <3>3. PICK j \in DOMAIN made[user] : made[user][j] = a.w
      BY <2>1, <3>2, Places
    <3>4. j = m \/ j < m
      BY <2>1, <2>6, <2>7, <3>2, <3>3 DEF RInv, OnceMade, IdsInOrder
    <3>5. j \in 1 .. m
      BY <2>8, <3>4
    <3>6. a.w \in kept
      BY <2>1, <3>2, Places
    <3> QED BY <3>2, <3>3, <3>5, <3>6
  <2>10. S \subseteq D \cup committed
    <3> SUFFICES ASSUME NEW j \in 1 .. m, made[user][j] \in kept
                 PROVE  made[user][j] \in D \cup committed
      OBVIOUS
    <3>1. j \in DOMAIN made[user] /\ j \in Nat /\ j <= m
      BY <2>8
    <3>2. PICK a \in table[user] : a.w = made[user][j]
      BY <2>1, <3>1, KeptRow
    <3>3. ~(b.id < a.id)
      <4>1. SUFFICES ASSUME b.id < a.id
                     PROVE  m < j
        BY <2>8, <3>1
      <4> QED BY <2>1, <2>6, <2>7, <3>1, <3>2, <4>1 DEF RInv, IdsInOrder
    <3>4. a.id \in Nat
      BY <2>1, <3>2, Places
    <3>5. b.id <= LastId(pipeline) /\ LastId(pipeline) \in Int
      BY <2>1, <2>4, <2>5, LastIds
    <3>6. ~(LastId(pipeline) < a.id)
      BY <2>6, <3>3, <3>4, <3>5
    <3>7. PICK i \in DOMAIN pipeline : pipeline[i] = a
      BY <2>1, <3>6 DEF Lined
    <3>8. ~(l + n < i)
      BY <2>1, <2>4, <2>5, <3>3, <3>7 DEF Lined
    <3>9. i \in 1 .. l \/ i - l \in 1 .. n
      BY <2>4, <3>7, <3>8
    <3>10. CASE i \in 1 .. l
      BY <2>1, <2>4, <3>2, <3>7, <3>10
    <3>11. CASE i - l \in 1 .. n
      <4>1. l + (i - l) = i
        BY <2>4, <3>7
      <4>2. call.out[i - l] = a.w
        BY <2>4, <3>7, <3>11, <4>1
      <4> QED BY <3>2, <3>11, <4>2
    <3> QED BY <3>9, <3>10, <3>11
  <2>11. S \cap Bad = {} /\ committed' = committed \cup S
    BY <2>1, <2>9, <2>10
  <2>12. P!Commit(user, m)
    BY <1>1, <2>11 DEF P!Commit
  <2> QED BY <2>1, <2>7, <2>12 DEF P!ONext
<1> QED BY <1>2, <1>3

\* The first write of the pipeline is let go: it is the oldest the user has pending.
LEMMA SettleMaps ==
  ASSUME RInv, pipeline # <<>>, Head(pipeline).w \in committed \cup Bad,
         table' = Removed(table, user, Head(pipeline).id), UNCHANGED <<made, committed>>
  PROVE  P!ONext
<1>1. /\ pipeline \in Seq(Batches) /\ user \in Users /\ Lined(pipeline, table[user])
      /\ table \in [Users -> SUBSET Batches]
  BY Facts DEF RInv
<1>2. PICK h : h = Head(pipeline)
  OBVIOUS
<1>3. h \in table[user] /\ h = pipeline[1] /\ 1 \in DOMAIN pipeline
  BY <1>1, <1>2, HeadTail DEF Lined
<1>4. h.id \in Nat /\ h.id <= LastId(pipeline) /\ LastId(pipeline) \in Int
  BY <1>1, <1>3, LastIds
<1>5. \A b \in table[user] : b = h \/ h.id < b.id
  <2> SUFFICES ASSUME NEW b \in table[user], b # h
               PROVE  h.id < b.id
    OBVIOUS
  <2>1. b.id \in Nat
    BY <1>1, Places
  <2>2. CASE LastId(pipeline) < b.id
    BY <1>4, <2>1, <2>2
  <2>3. CASE \E i \in DOMAIN pipeline : pipeline[i] = b
    <3>1. PICK i \in DOMAIN pipeline : pipeline[i] = b
      BY <2>3
    <3>2. 1 < i
      BY <1>1, <1>3, <3>1, Indices
    <3> QED BY <1>1, <1>3, <3>1, <3>2 DEF Lined
  <2> QED BY <1>1, <2>2, <2>3 DEF Lined
<1>6. PICK n \in DOMAIN made[user] : made[user][n] = h.w
  BY <1>1, <1>3, Places
<1>7. DOMAIN made[user] = 1 .. Len(made[user]) /\ Len(made[user]) \in Nat /\ n \in Nat
  BY <1>1, Facts, Indices DEF RInv, Types
<1>8. table'[user] = table[user] \ {h} /\ \A u \in Users : u # user => table'[u] = table[u]
  <2>1. table'[user] = {b \in table[user] : b.id # h.id}
    BY <1>1, <1>2 DEF Removed
  <2>2. \A b \in table[user] : b.id = h.id <=> b = h
    BY <1>1, <1>3, <1>4, <1>5, Places
  <2>3. \A u \in Users : u # user => table'[u] = table[u]
    BY <1>1 DEF Removed
  <2> QED BY <2>1, <2>2, <2>3
<1>9. h.w \in kept
  BY <1>1, <1>3, Places
<1>10. kept' = kept \ {h.w}
  <2>1. \A u \in Users : u # user => Queued(u)' = Queued(u)
    BY <1>8 DEF Queued
  <2>2. \A u \in Users : u = user => Queued(u)' = Queued(u) \ {h.w}
    <3> SUFFICES ASSUME NEW u \in Users, u = user
                 PROVE  Queued(u)' = Queued(u) \ {h.w}
      OBVIOUS
    <3>1. \A b \in table[u] : b.w = h.w => b = h
      BY <1>3, Places
    <3>2. table'[u] = table[u] \ {h}
      BY <1>8
    <3> QED BY <1>3, <3>1, <3>2 DEF Queued
  <2>3. \A u \in Users : h.w \in Queued(u) => u = user
    <3> SUFFICES ASSUME NEW u \in Users, h.w \in Queued(u)
                 PROVE  u = user
      OBVIOUS
    <3>1. PICK a \in table[u] : a.w = h.w
      BY DEF Queued
    <3>2. PICK j \in DOMAIN made[u] : made[u][j] = h.w
      BY <3>1, Places
    <3> QED BY <1>1, <1>6, <3>2 DEF RInv, OnceMade
  <2>4. \A u \in Users : Queued(u)' = Queued(u) \ {h.w}
    <3> SUFFICES ASSUME NEW u \in Users
                 PROVE  Queued(u)' = Queued(u) \ {h.w}
      OBVIOUS
    <3>1. CASE u = user
      BY <2>2, <3>1
    <3>2. CASE u # user
      BY <2>1, <2>3, <3>2
    <3> QED BY <3>1, <3>2
  <2> QED BY <2>4 DEF kept
<1>11. \A i \in 1 .. n - 1 : made[user][i] \notin kept
  <2> SUFFICES ASSUME NEW i \in 1 .. n - 1, made[user][i] \in kept
               PROVE  FALSE
    OBVIOUS
  <2>1. i \in DOMAIN made[user] /\ i \in Nat /\ i < n
    BY <1>7
  <2>2. PICK a \in table[user] : a.w = made[user][i]
    BY <1>1, <2>1, KeptRow
  <2>3. a # h
    BY <1>1, <1>6, <1>7, <2>1, <2>2 DEF RInv, OnceMade
  <2>4. h.id < a.id
    BY <1>5, <2>2, <2>3
  <2>5. n < i
    BY <1>1, <1>3, <1>6, <2>1, <2>2, <2>4 DEF RInv, IdsInOrder
  <2> QED BY <1>7, <2>1, <2>5
<1>12. P!Settle(user, n)
  BY <1>2, <1>6, <1>9, <1>10, <1>11 DEF P!Settle
<1> QED BY <1>1, <1>12 DEF P!ONext

\* A batch that is added is about the newest write of its user.
LEMMA MakeMaps ==
  ASSUME RInv, NEW w \in Writes, WriteMutations(w)
  PROVE  P!ONext
<1>1. /\ \A u \in Users : \A i \in DOMAIN made[u] : made[u][i] # w
      /\ table' = [table EXCEPT ![user] = {a \in @ : a.id # nextId} \cup {[id |-> nextId, w |-> w]}]
      /\ made' = [made EXCEPT ![user] = Append(@, w)] /\ committed' = committed
  BY DEF WriteMutations, AddMutationBatch
<1>2. user \in Users /\ table \in [Users -> SUBSET Batches] /\ nextId \in Nat
  BY Facts DEF RInv
<1>3. \A a \in table[user] : a.id # nextId
  BY <1>2, Facts, Places DEF RInv, Kept, Rows
<1>4. table'[user] = table[user] \cup {[id |-> nextId, w |-> w]}
      /\ \A u \in Users : u # user => table'[u] = table[u]
  BY <1>1, <1>2, <1>3
<1>5. \A u \in Users : Queued(u)' = Queued(u) \cup (IF u = user THEN {w} ELSE {})
  <2> SUFFICES ASSUME NEW u \in Users
               PROVE  Queued(u)' = Queued(u) \cup (IF u = user THEN {w} ELSE {})
    OBVIOUS
  <2>1. CASE u = user
    <3>1. table'[u] = table[u] \cup {[id |-> nextId, w |-> w]} /\ [id |-> nextId, w |-> w].w = w
      BY <1>4, <2>1
    <3> QED BY <2>1, <3>1 DEF Queued
  <2>2. CASE u # user
    BY <1>4, <2>2 DEF Queued
  <2> QED BY <2>1, <2>2
<1>6. kept' = kept \cup {w}
  BY <1>2, <1>5 DEF kept
<1>7. P!Make(user, w)
  BY <1>1, <1>6 DEF P!Make
<1> QED BY <1>2, <1>7 DEF P!ONext

-----------------------------------------------------------------------------
(* The three kinds of step there are for WriteOutbox.                       *)

Commits ==
  /\ UNCHANGED <<table, made>>
  /\ \E n \in 0 .. Len(call.out) :
       /\ \A i \in 1 .. n : call.out[i] \notin Bad
       /\ committed' = committed \cup {call.out[i] : i \in 1 .. n}

Settles ==
  /\ pipeline # <<>> /\ Head(pipeline).w \in committed \cup Bad
  /\ table' = Removed(table, user, Head(pipeline).id)
  /\ UNCHANGED <<made, committed>>

\* Nothing happens to writes, or a call is given up.
LEMMA Quiet ==
  ASSUME RInv, UNCHANGED <<table, made>>, committed' = committed \/ committed' \in Flushed
  PROVE  Commits
<1>1. CASE committed' \in Flushed
  BY <1>1 DEF Flushed, Commits
<1>2. CASE committed' = committed
  <2>1. 0 \in 0 .. Len(call.out)
    BY Facts DEF RInv
  <2>2. committed' = committed \cup {call.out[i] : i \in 1 .. 0}
    BY <1>2
  <2> QED BY <2>1, <2>2 DEF Commits
<1> QED BY <1>1, <1>2

LEMMA CloseKinds ==
  ASSUME RInv, NEW permanent \in BOOLEAN, NEW js, CloseWithError(permanent, js),
         permanent => call.end = "permanent" /\ call.in = <<>>
  PROVE  Commits \/ Settles
<1>1. committed' \in Flushed /\ made' = made
  BY DEF CloseWithError
<1>2. CASE permanent /\ stream.handshake /\ pipeline # <<>>
  <2>1. table' = Removed(table, user, Head(pipeline).id)
    BY <1>2 DEF CloseWithError
  <2>2. Head(pipeline).w \in Bad
    BY <1>2, RefusedIsHead DEF RInv
  <2>3. PICK n \in 0 .. Len(call.out) :
          /\ n > 0 => call.end # "permanent"
          /\ committed' = committed \cup {call.out[i] : i \in 1 .. n}
    BY <1>1 DEF Flushed
  <2>4. n = 0
    BY <1>2, <2>3, Facts DEF RInv
  <2>5. committed' = committed
    BY <2>3, <2>4
  <2> QED BY <1>1, <1>2, <2>1, <2>2, <2>5 DEF Settles
<1>3. CASE ~(permanent /\ stream.handshake /\ pipeline # <<>>)
  <2>1. table' = table
    BY <1>3 DEF CloseWithError
  <2> QED BY <1>1, <2>1, Quiet
<1> QED BY <1>2, <1>3

\* What the user calls and what the worker queue runs.
LEMMA CallKinds ==
  ASSUME RInv, Calls
  PROVE  Commits \/ \E w \in Writes : WriteMutations(w)
<1>1. CASE WaitForPendingWrites \/ EnableNetwork
  <2>1. UNCHANGED <<table, made>> /\ committed' = committed
    BY <1>1 DEF WaitForPendingWrites, EnableNetwork, queue, history
  <2> QED BY <2>1, Quiet
<1>2. CASE IdleTimeout
  <2>1. UNCHANGED <<table, made>> /\ (committed' = committed \/ committed' \in Flushed)
    BY <1>2 DEF IdleTimeout, Abort, queue, history
  <2> QED BY <2>1, Quiet
<1> QED BY <1>1, <1>2 DEF Calls

LEMMA JobKinds ==
  ASSUME RInv, RunsJob
  PROVE  Commits \/ Settles
<1>1. CASE UserChanges
  <2>1. UNCHANGED <<table, made>> /\ (committed' = committed \/ committed' \in Flushed)
    BY <1>1 DEF UserChanges, HandleCredentialChange, RestartNetwork, history
  <2> QED BY <2>1, Quiet
<1>2. CASE TokenArrives \/ TokenTooLate
  <2>1. UNCHANGED <<table, made>> /\ committed' = committed
    BY <1>2 DEF TokenArrives, TokenTooLate, Abort, queue, history
  <2> QED BY <2>1, Quiet
<1>3. CASE TokenFails
  <2>1. PICK permanent \in BOOLEAN : ~permanent
    OBVIOUS
  <2>2. CloseWithError(permanent, Tail(jobs))
    BY <1>3, <2>1, Zenon DEF TokenFails
  <2> QED BY <2>1, <2>2, CloseKinds
<1> QED BY <1>1, <1>2, <1>3 DEF RunsJob

\* What the stream, the auth library and the backend do.
LEMMA StreamKinds ==
  ASSUME RInv,
         \/ BackoffElapsed \/ OnWriteStreamHandshakeComplete \/ OnWriteStreamMutationResult
         \/ ReadsEnd \/ \E age \in {"current", "stale"}, ok \in BOOLEAN : TokenAnswered(age, ok)
  PROVE  Commits \/ Settles
<1>1. CASE BackoffElapsed \/ OnWriteStreamHandshakeComplete
  <2>1. UNCHANGED <<table, made>> /\ committed' = committed
    BY <1>1 DEF BackoffElapsed, OnWriteStreamHandshakeComplete, queue, history
  <2> QED BY <2>1, Quiet
<1>2. CASE OnWriteStreamMutationResult
  <2>1. call.in # <<>>
    BY <1>2 DEF OnWriteStreamMutationResult
  <2>2. pipeline # <<>> /\ Head(pipeline).w \in committed
    BY <2>1, ResultIsHead DEF RInv
  <2>3. table' = Removed(table, user, Head(pipeline).id) /\ UNCHANGED <<made, committed>>
    BY <1>2, <2>2 DEF OnWriteStreamMutationResult
  <2> QED BY <2>2, <2>3 DEF Settles
<1>3. CASE OnStreamFinish
  <2>1. PICK permanent \in BOOLEAN : permanent <=> call.end = "permanent"
    <3>1. (call.end = "permanent") \in BOOLEAN
      OBVIOUS
    <3> QED BY <3>1
  <2>2. CloseWithError(permanent, jobs)
    BY <1>3, <2>1 DEF OnStreamFinish, CloseWithError
  <2>3. permanent => call.end = "permanent" /\ call.in = <<>>
    BY <1>3, <2>1 DEF OnStreamFinish
  <2> QED BY <2>2, <2>3, CloseKinds
<1>4. CASE OnStreamFinishOk
  <2>1. UNCHANGED <<table, made>> /\ (committed' = committed \/ committed' \in Flushed)
    BY <1>4 DEF OnStreamFinishOk, Abort, queue, history
  <2> QED BY <2>1, Quiet
<1>5. CASE \E age \in {"current", "stale"}, ok \in BOOLEAN : TokenAnswered(age, ok)
  <2>1. UNCHANGED <<table, made>> /\ committed' = committed
    BY <1>5 DEF TokenAnswered, queue, history
  <2> QED BY <2>1, Quiet
<1> QED BY <1>1, <1>2, <1>3, <1>4, <1>5 DEF ReadsEnd

LEMMA BackendKinds ==
  ASSUME RInv,
         \/ Serves \/ ConnectionDrops \/ BackendRefusesGreeting \/ BackendEndsOk
  PROVE  Commits
<1>1. UNCHANGED <<table, made>>
  BY DEF Serves, BackendGreets, BackendCommits, BackendRefuses, ConnectionDrops,
         BackendRefusesGreeting, BackendEndsOk, Serve, queue, history
<1>2. CASE BackendCommits
  <2>1. call.out # <<>> /\ Head(call.out) \notin Bad /\ call.out \in Seq(Writes)
        /\ committed' = committed \cup {Head(call.out)}
    BY <1>2, Facts DEF RInv, BackendCommits
  <2>2. Head(call.out) = call.out[1] /\ 1 \in 0 .. Len(call.out)
    BY <2>1
  <2>3. {call.out[i] : i \in 1 .. 1} = {Head(call.out)} /\ \A i \in 1 .. 1 : call.out[i] \notin Bad
    BY <2>1, <2>2
  <2> QED BY <1>1, <2>1, <2>2, <2>3 DEF Commits
<1>3. CASE ~BackendCommits
  <2>1. committed' = committed
    BY <1>3 DEF Serves, BackendGreets, BackendRefuses, ConnectionDrops,
                BackendRefusesGreeting, BackendEndsOk
  <2> QED BY <1>1, <2>1, Quiet
<1> QED BY <1>2, <1>3

\* What goes wrong, or is turned off.
LEMMA OtherKinds ==
  ASSUME RInv,
         \/ \E u \in Users : SignIn(u)
         \/ DisableNetwork \/ ConnectivityChanged \/ Crash \/ CrashAfterAnswer
         \/ UNCHANGED vars
  PROVE  Commits
<1>1. UNCHANGED <<table, made>> /\ (committed' = committed \/ committed' \in Flushed)
  BY DEF SignIn, DisableNetwork, ConnectivityChanged, RestartNetwork, Crash, CrashAfterAnswer,
         Restarted, vars, queue, history
<1> QED BY <1>1, Quiet

LEMMA StepKinds ==
  ASSUME RInv, [Next]_vars
  PROVE  Commits \/ Settles \/ \E w \in Writes : WriteMutations(w)
<1>1. CASE Calls
  BY <1>1, CallKinds
<1>2. CASE Progress
  <2>1. TokenAnswered("current", TRUE) \/ TokenAnswered("stale", TRUE) =>
          \E age \in {"current", "stale"}, ok \in BOOLEAN : TokenAnswered(age, ok)
    BY Zenon
  <2> QED BY <1>2, <2>1, JobKinds, StreamKinds, BackendKinds DEF Progress
<1>3. CASE Disturbance
  <2>1. TokenAnswered("current", FALSE) =>
          \E age \in {"current", "stale"}, ok \in BOOLEAN : TokenAnswered(age, ok)
    BY Zenon
  <2> QED BY <1>3, <2>1, StreamKinds, BackendKinds, OtherKinds DEF Disturbance
<1>4. CASE Crash \/ UNCHANGED vars
  BY <1>4, OtherKinds
<1> QED BY <1>1, <1>2, <1>3, <1>4 DEF Next

\* Every step maps to a step or a stutter.
LEMMA StepMaps ==
  ASSUME RInv, [Next]_vars
  PROVE  [P!ONext]_(P!ovars)
<1>1. CASE Commits
  BY <1>1, CommitMaps DEF Commits
<1>2. CASE Settles
  BY <1>2, SettleMaps DEF Settles
<1>3. CASE \E w \in Writes : WriteMutations(w)
  BY <1>3, MakeMaps
<1> QED BY <1>1, <1>2, <1>3, StepKinds

-----------------------------------------------------------------------------
(* The order of the ids is kept.                                            *)

LEMMA OrderShrinks ==
  ASSUME RInv, made' = made, \A u \in Users : table'[u] \subseteq table[u]
  PROVE  OnceMade' /\ IdsInOrder'
BY DEF RInv, OnceMade, IdsInOrder

LEMMA OrderGrows ==
  ASSUME RInv, NEW w \in Writes, WriteMutations(w)
  PROVE  OnceMade' /\ IdsInOrder'
<1>1. /\ \A u \in Users : \A i \in DOMAIN made[u] : made[u][i] # w
      /\ table' = [table EXCEPT ![user] = {a \in @ : a.id # nextId} \cup {[id |-> nextId, w |-> w]}]
      /\ made' = [made EXCEPT ![user] = Append(@, w)]
  BY DEF WriteMutations, AddMutationBatch
<1>2. /\ user \in Users /\ table \in [Users -> SUBSET Batches] /\ nextId \in Nat
      /\ made \in [Users -> Seq(Writes)]
  BY Facts DEF RInv, Types
<1>3. PICK n \in Nat : n = Len(made[user]) + 1
  BY <1>2
<1>4. /\ \A u \in Users : \A i \in DOMAIN made'[u] :
           \/ u = user /\ i = n /\ made'[u][i] = w
           \/ i \in DOMAIN made[u] /\ made'[u][i] = made[u][i]
      /\ \A i \in DOMAIN made[user] : i < n /\ i \in Nat
  <2>1. ASSUME NEW u \in Users, NEW i \in DOMAIN made'[u]
        PROVE  \/ u = user /\ i = n /\ made'[u][i] = w
               \/ i \in DOMAIN made[u] /\ made'[u][i] = made[u][i]
    <3>1. CASE u = user
      <4>1. made'[u] = Append(made[u], w) /\ made[u] \in Seq(Writes)
        BY <1>1, <1>2, <3>1
      <4> QED BY <1>3, <3>1, <4>1, AppendProperties
    <3>2. CASE u # user
      BY <1>1, <1>2, <3>2
    <3> QED BY <3>1, <3>2
  <2>2. \A i \in DOMAIN made[user] : i < n /\ i \in Nat
    BY <1>2, <1>3, Indices
  <2> QED BY <2>1, <2>2
<1>5. OnceMade'
  BY <1>1, <1>4 DEF RInv, OnceMade
<1>6. \A u \in Users : \A a \in table'[u] :
        \/ u = user /\ a.id = nextId /\ a.w = w
        \/ a \in table[u] /\ a.id < nextId /\ a.w # w
  <2> SUFFICES ASSUME NEW u \in Users, NEW a \in table'[u]
               PROVE  \/ u = user /\ a.id = nextId /\ a.w = w
                      \/ a \in table[u] /\ a.id < nextId /\ a.w # w
    OBVIOUS
  <2>1. a \in table[u] \/ (u = user /\ a = [id |-> nextId, w |-> w])
    BY <1>1, <1>2
  <2>2. CASE a \in table[u]
    <3>1. PICK i \in DOMAIN made[u] : made[u][i] = a.w
      BY <2>2, Places
    <3> QED BY <1>1, <2>2, <3>1, Facts DEF RInv, Kept, Rows
  <2> QED BY <2>1, <2>2
<1>7. IdsInOrder'
  <2> SUFFICES ASSUME NEW u \in Users, NEW a \in table'[u], NEW b \in table'[u],
                      NEW i \in DOMAIN made'[u], NEW j \in DOMAIN made'[u],
                      made'[u][i] = a.w, made'[u][j] = b.w, a.id < b.id
               PROVE  i < j
    BY DEF IdsInOrder
  <2>1. CASE a \in table[u] /\ a.w # w
    <3>1. i \in DOMAIN made[u] /\ made[u][i] = a.w
      BY <1>4, <2>1
    <3>2. CASE b \in table[u] /\ b.w # w
      <4>1. j \in DOMAIN made[u] /\ made[u][j] = b.w
        BY <1>4, <3>2
      <4> QED BY <2>1, <3>1, <3>2, <4>1 DEF RInv, IdsInOrder
    <3>3. CASE u = user /\ b.w = w
      <4>1. j = n
        BY <1>1, <1>4, <3>3
      <4> QED BY <1>4, <3>1, <3>3, <4>1
    <3> QED BY <1>6, <3>2, <3>3
  <2>2. CASE a.id = nextId
    <3>1. b.id = nextId \/ b.id < nextId
      BY <1>6
    <3>2. ~(nextId < nextId) /\ ~(b.id < nextId /\ nextId < b.id)
      <4>1. b.id = nextId \/ b \in table[u]
        BY <1>6
      <4>2. b.id \in Nat
        BY <1>2, <4>1, Places
      <4> QED BY <1>2, <4>2
    <3> QED BY <2>2, <3>1, <3>2
  <2> QED BY <1>6, <2>1, <2>2
<1> QED BY <1>5, <1>7

LEMMA OrderKeeps ==
  ASSUME RInv, [Next]_vars
  PROVE  RInv'
<1>1. CASE Commits \/ Settles
  <2>1. made' = made /\ \A u \in Users : table'[u] \subseteq table[u]
    BY <1>1, Facts DEF Commits, Settles, Removed, RInv
  <2> QED BY <2>1, OrderShrinks, StepKeeps DEF RInv
<1>2. CASE \E w \in Writes : WriteMutations(w)
  BY <1>2, OrderGrows, StepKeeps DEF RInv
<1> QED BY <1>1, <1>2, StepKinds

LEMMA InitMaps == Init => RInv /\ P!OInit
<1> SUFFICES ASSUME Init
             PROVE  RInv /\ P!OInit
  OBVIOUS
<1>1. /\ table = [u \in Users |-> {}] /\ made = [u \in Users |-> <<>>] /\ committed = {}
  BY DEF Init
<1>2. OnceMade /\ IdsInOrder
  BY <1>1 DEF OnceMade, IdsInOrder
<1>3. kept = {}
  BY <1>1 DEF kept, Queued
<1> QED BY <1>1, <1>2, <1>3, InitIInv DEF RInv, P!OInit

-----------------------------------------------------------------------------
\* Through every handler, crash and change of user, the write path keeps the writes,
\* has them applied in order and lets them go as the outbox does.
THEOREM PathImplementsOutbox == Spec => ImplementsOutbox
<1>1. Init => RInv /\ P!OInit
  BY InitMaps
<1>2. RInv /\ [Next]_vars => RInv' /\ [P!ONext]_(P!ovars)
  BY OrderKeeps, StepMaps
<1>3. P!OInit => Outbox!OInit
  BY DEF P!OInit, Outbox!OInit, kept
<1>4. [P!ONext]_(P!ovars) => [Outbox!ONext]_(Outbox!ovars)
  BY DEF P!ONext, P!ovars, P!Make, P!Commit, P!Settle, kept,
         Outbox!ONext, Outbox!ovars, Outbox!Make, Outbox!Commit, Outbox!Settle
<1> QED BY <1>1, <1>2, <1>3, <1>4, PTL DEF Spec, ImplementsOutbox, Outbox!OSpec

\* Of the write path itself: the backend applies the writes of each user in the
\* order in which they were made, whatever calls are given up and repeated, and none is
\* let go that was neither applied nor refused.
THEOREM PathKeepsPromises == Spec => []OutboxInv
<1>1. Spec => P!OSpec
  BY InitMaps, OrderKeeps, StepMaps, PTL DEF Spec, P!OSpec
<1>2. P!OSpec => []OutboxInv
  BY OutboxPromises
<1> QED BY <1>1, <1>2
=============================================================================
