---------------------------- MODULE WriteThrough ----------------------------
(***************************************************************************)
(* What the persistence of Assignments 8 and 9 promises, without screens,  *)
(* forms or arrays: a set of records per kind that the user sees (view),   *)
(* changed one record at a time, each change followed at once by its write *)
(* to the database, and read back from there when the app starts.          *)
(* Logistics and ModalForms implement it.                                  *)
(***************************************************************************)
EXTENDS Database

CONSTANT Rows         \* Rows[k]: the records of kind k there may be

VARIABLE view         \* view[k]: the records of kind k the user sees

wvars == <<db, dirty, view>>

Seen(k, rows) == view' = [view EXCEPT ![k] = rows]

\* What the user sees after a start: each table as it is, or nothing at all.
Reads ==
  {v \in [Kinds -> UNION {{db[k], {}} : k \in Kinds}] :
     \A k \in Kinds : v[k] = db[k] \/ (IOMayFail /\ v[k] = {})}

Missed(v) ==
  {key \in UNION {{<<k, id>> : id \in Ids(db[k])} : k \in Kinds} :
     key[2] \notin Ids(v[key[1]])}

WInit ==
  /\ DOMAIN db = Kinds
  /\ \A k \in Kinds : db[k] \subseteq Rows[k]
  /\ \A k \in Kinds : \A r, q \in db[k] : r.id = q.id => r = q
  /\ view \in Reads
  /\ dirty = Missed(view)

Insert(k, r) ==
  /\ r.id \notin Ids(view[k])
  /\ Seen(k, view[k] \cup {r})
  /\ saveRecord(k, r)

Change(k, r) ==
  /\ r.id \in Ids(view[k])
  /\ Seen(k, Without(view[k], r.id) \cup {r})
  /\ updateRecord(k, r)

Remove(k, r) ==
  /\ r \in view[k]
  /\ Seen(k, view[k] \ {r})
  /\ deleteRecord(k, r.id)

Restart ==
  /\ view' \in Reads
  /\ dirty' = Missed(view')
  /\ UNCHANGED db

\* Every change is about one record, seen before it or after it.
WNext ==
  \/ \E k \in Kinds : \E r \in (view[k] \cup view'[k]) \cap Rows[k] :
       Insert(k, r) \/ Change(k, r) \/ Remove(k, r)
  \/ Restart

WSpec == WInit /\ [][WNext]_wvars

-----------------------------------------------------------------------------
\* One record per id, on both sides.
Keyed(rows) == \A r, q \in rows : r.id = q.id => r = q

\* Durability: a record whose last write was not swallowed is the same, or is
\* missing, on the screen and in the file.
Durable ==
  \A k \in Kinds : \A r \in db[k] \cup view[k] :
    <<k, r.id>> \notin dirty => r \in db[k] /\ r \in view[k]

\* Inductive: durability together with what it rests on.
WInv ==
  /\ DOMAIN db = Kinds /\ DOMAIN view = Kinds
  /\ \A k \in Kinds : /\ db[k] \subseteq Rows[k] /\ Keyed(db[k])
                      /\ view[k] \subseteq Rows[k] /\ Keyed(view[k])
  /\ Durable
=============================================================================
