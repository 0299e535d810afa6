---------------------------- MODULE MutationQueue ----------------------------
(***************************************************************************)
(* LevelDbMutationQueue: the batches of writes a user of the Firestore     *)
(* client has made and the backend has not settled, in the LevelDB file    *)
(* that the Posts app of the final project keeps on the device.  The table *)
(* survives a crash; the next batch id is in memory.  Every operation runs *)
(* in one LevelDB transaction.                                             *)
(***************************************************************************)
EXTENDS Integers, FiniteSets, Sequences

CONSTANTS
  Users,      \* the users that may be signed in
  Writes      \* the writes they may make: each is the mutations of one batch

VARIABLES
  table,      \* table[u]: the batches of user u, with their ids
  nextId      \* next_batch_id_ of the queue in use

queue == <<table, nextId>>

kBatchIdUnknown == -1

Batches == [id : Nat, w : Writes]

BatchIds(t) == {b.id : b \in UNION {t[u] : u \in Users}}

\* Mutant: the ids start again at 1 although batches are left.
NextIdsFromOne(t) == {1}

\* What LoadNextBatchIdFromDb returns, as a set of one: one more than the
\* highest id of a batch of any user.  An id is therefore given out again when
\* the batches that had it and the later ones are gone.
LoadNextBatchIdFromDb(t) ==
  {n \in {1} \cup {i + 1 : i \in BatchIds(t)} : \A i \in BatchIds(t) : i < n}

\* AddMutationBatch: Put writes over a row that has the same key.
AddMutationBatch(u, b) ==
  /\ table' = [table EXCEPT ![u] = {a \in @ : a.id # b.id} \cup {b}]
  /\ nextId' = nextId + 1

\* RemoveMutationBatch.
Removed(t, u, id) == [t EXCEPT ![u] = {b \in @ : b.id # id}]

\* What GetNextMutationBatch, called again and again from the batch id "last"
\* and at most "room" times, returns from the rows of one user: the batches
\* with the lowest ids above "last", in ascending order.  A set of one sequence.
NextMutationBatches(rows, last, room) ==
  LET later == {b \in rows : b.id > last}
      k == IF Cardinality(later) < room THEN Cardinality(later) ELSE room
  IN {s \in [1 .. k -> later] :
        /\ \A i, j \in 1 .. k : i < j => s[i].id < s[j].id
        /\ \A b \in later : \/ \E i \in 1 .. k : s[i] = b
                            \/ \A i \in 1 .. k : s[i].id < b.id}

\* Mutant: the lowest of the pending ids.
LowestUnacknowledged(rows) ==
  IF rows = {} THEN {kBatchIdUnknown}
  ELSE {b.id : b \in {a \in rows : \A c \in rows : c.id >= a.id}}

\* GetHighestUnacknowledgedBatchId, as a set of one.
HighestUnacknowledged(rows) ==
  IF rows = {} THEN {kBatchIdUnknown}
  ELSE {b.id : b \in {a \in rows : \A c \in rows : c.id <= a.id}}
=============================================================================
