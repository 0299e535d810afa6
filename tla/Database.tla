------------------------------ MODULE Database ------------------------------
(***************************************************************************)
(* DatabaseManager: the SQLite file behind the logistics app, as the view  *)
(* controllers of Assignments 8, 9 and 10 use it.  Every call is one GRDB  *)
(* transaction, so it takes effect completely or not at all; an error is   *)
(* printed and swallowed, and the caller goes on as if it had succeeded.   *)
(***************************************************************************)
EXTENDS Integers, FiniteSets, Sequences

CONSTANT IOMayFail          \* may SQLite refuse a read or a write?

ASSUME IOAssumption == IOMayFail \in BOOLEAN

VARIABLES
  db,       \* db[k]: the set of rows of table k, each with its primary key id
  dirty     \* history: the keys <<k, id>> whose last write or read was swallowed

store == <<db, dirty>>

\* The three tables the migrator creates.
Kinds == {"item", "location", "order"}

Ids(rows) == {r.id : r \in rows}
Without(rows, id) == {r \in rows : r.id # id}

\* A write transaction about key <<k, id>> that would leave the rows "rows".
write(k, id, rows) ==
  \/ /\ db' = [db EXCEPT ![k] = rows]
     /\ dirty' = dirty \ {<<k, id>>}
  \/ /\ IOMayFail
     /\ UNCHANGED db
     /\ dirty' = dirty \cup {<<k, id>>}

\* save: update the row with this primary key, or insert it.
saveRecord(k, r) == write(k, r.id, Without(db[k], r.id) \cup {r})

\* update: throws, and so changes nothing, when no row has this primary key.
updateRecord(k, r) ==
  \/ /\ r.id \in Ids(db[k])
     /\ write(k, r.id, Without(db[k], r.id) \cup {r})
  \/ /\ r.id \notin Ids(db[k])
     /\ UNCHANGED db
     /\ dirty' = dirty \cup {<<k, r.id>>}

\* deleteOne: deleting a key that has no row is not an error.
deleteRecord(k, id) == write(k, id, Without(db[k], id))

\* The rows of table k in rowid order, which for an INTEGER PRIMARY KEY is the
\* order of the ids.
Listings(k) ==
  {s \in [1 .. Cardinality(db[k]) -> db[k]] :
     /\ \A i, j \in DOMAIN s : i < j => s[i].id < s[j].id
     /\ \A r \in db[k] : \E i \in DOMAIN s : s[i] = r}

\* What fetchRecords may return: the rows, or an empty array after an error.
fetchRecords(k) == Listings(k) \cup (IF IOMayFail THEN {<<>>} ELSE {})

=============================================================================
