----------------------------- MODULE ModalForms -----------------------------
(***************************************************************************)
(* The logistics app of Assignment 8: the arrays of MainViewController,    *)
(* written through to SQLite, and modal forms, one per operation, in which *)
(* the user types the id of the record.  A form that updates a record      *)
(* keeps its position in the array from Fetch to Update.  (Assignment 7    *)
(* is the same app without the calls of DatabaseManager.)  A handler runs  *)
(* to its end on the main thread, so it is one action; the process may end *)
(* between two of them, and ends when Update is pressed before any Fetch.  *)
(***************************************************************************)
EXTENDS Database, SequencesExt

CONSTANTS
  ItemIds, LocationIds, OrderIds,   \* the ids the user may type
  Values,        \* the contents of an item: its value stands for its fields
  Places,        \* the contents of a location
  Dates,
  MaxQuantity,   \* bound: the highest quantity of an order line
  MaxLines,      \* bound: the longest list of order lines
  Seed           \* the rows a first start wrote into the database (addDataToDB)

Item == [id : ItemIds, value : Values]
Location == [id : LocationIds, place : Places]
OrderItem == [item : Item, quantity : 1 .. MaxQuantity]
Lines == UNION {[1 .. n -> OrderItem] : n \in 1 .. MaxLines}
LogisticsOrder ==
  [id : OrderIds, from : Location, to : Location, departure : Dates,
   arrival : Dates, cost : Nat, lines : Lines]

RowsOf(k) ==
  CASE k = "item" -> Item
    [] k = "location" -> Location
    [] k = "order" -> LogisticsOrder

getOrderTotal(lines) ==
  FoldSeq(LAMBDA l, total : l.quantity * l.item.value + total, 0, lines)

ASSUME ConstantsAssumption ==
  /\ ItemIds \subseteq Int /\ LocationIds \subseteq Int /\ OrderIds \subseteq Int
  /\ Values \subseteq Nat
  /\ MaxQuantity \in Nat /\ MaxLines \in Nat \ {0}

\* What the proofs use of the total, which is a fold: it is a number, and a line
\* more adds what the line alone comes to.
ASSUME TotalAssumption ==
  \A lines \in Lines :
    /\ getOrderTotal(lines) \in Nat
    /\ \A line \in OrderItem :
         getOrderTotal(Append(lines, line)) = getOrderTotal(lines) + getOrderTotal(<<line>>)

ASSUME SeedAssumption ==
  /\ DOMAIN Seed = Kinds
  /\ \A k \in Kinds :
       /\ Seed[k] \subseteq RowsOf(k)
       /\ IsFiniteSet(Seed[k])
       /\ \A r, s \in Seed[k] : r.id = s.id => r = s

VARIABLES
  mem,     \* mem[k]: the array of kind k in MainViewController
  form,    \* the form on the screen that updates a record, or "none"
  found,   \* its itemFoundIndex, locationFoundIndex or orderFoundIndex; 0 for -99
  asked    \* history: the ids its last successful Fetch was for, a set of one

vars == <<store, mem, form, found, asked>>

Forms == {"item", "location", "orderItem", "addItems", "departure"}
Subject(f) == IF f \in {"item", "location"} THEN f ELSE "order"

\* viewDidLoad: the three arrays are read back.
generateDummyData ==
  {m \in [Kinds -> UNION {fetchRecords(k) : k \in Kinds}] :
     \A k \in Kinds : m[k] \in fetchRecords(k)}

Unread(m) ==
  {key \in UNION {{<<k, id>> : id \in Ids(db[k])} : k \in Kinds} :
     key[2] \notin Ids(Range(m[key[1]]))}

Init ==
  /\ db = Seed
  /\ mem \in generateDummyData
  /\ dirty = Unread(mem)
  /\ form = "none" /\ found = 0 /\ asked = {}

Relaunch ==
  /\ mem' \in generateDummyData
  /\ dirty' = Unread(mem')
  /\ form' = "none" /\ found' = 0 /\ asked' = {}
  /\ UNCHANGED db

-----------------------------------------------------------------------------
(* The forms that create or delete: they keep nothing between two taps.     *)

\* Mutant: the id is not looked up first.
CreateUnchecked(k, r) ==
  /\ form = "none"
  /\ mem' = [mem EXCEPT ![k] = Append(@, r)]
  /\ saveRecord(k, r)
  /\ UNCHANGED <<form, found, asked>>

Create(k, r) ==
  /\ form = "none"
  /\ r.id \notin Ids(Range(mem[k]))
  /\ mem' = [mem EXCEPT ![k] = Append(@, r)]
  /\ saveRecord(k, r)
  /\ UNCHANGED <<form, found, asked>>

\* The order is made of one line about an item there is.
CreateOrder(id, i, f, t, q, dep, arr) ==
  LET lines == <<[item |-> mem["item"][i], quantity |-> q]>> IN
  /\ arr >= dep
  /\ Create("order", [id |-> id, from |-> mem["location"][f], to |-> mem["location"][t],
                      departure |-> dep, arrival |-> arr,
                      cost |-> getOrderTotal(lines), lines |-> lines])

\* No order is looked at: one that carries the item keeps its copy of it.
Delete(k, i) ==
  /\ form = "none"
  /\ mem' = [mem EXCEPT ![k] = RemoveAt(@, i)]
  /\ deleteRecord(k, mem[k][i].id)
  /\ UNCHANGED <<form, found, asked>>

-----------------------------------------------------------------------------
(* The forms that update.                                                   *)

\* Mutant: a form that comes up again has the position of its last time.
OpenAgain(f) ==
  /\ form = "none"
  /\ form' = f
  /\ UNCHANGED <<store, mem, found, asked>>

Open(f) ==
  /\ form = "none"
  /\ form' = f /\ found' = 0 /\ asked' = {}
  /\ UNCHANGED <<store, mem>>

Close ==
  /\ form # "none"
  /\ form' = "none"
  /\ UNCHANGED <<store, mem, found, asked>>

\* btnFetchTap: an id that is not there leaves the position of the one before.
Fetch(i) ==
  /\ form # "none" /\ i \in DOMAIN mem[Subject(form)]
  /\ found' = i /\ asked' = {mem[Subject(form)][i].id}
  /\ UNCHANGED <<store, mem, form>>

\* Mutant: a copy of the record is changed and saved, not the one in the array.
UpdateCopy(f, r) ==
  /\ form = f
  /\ IF found = 0 THEN Relaunch
     ELSE /\ updateRecord(Subject(f), r)
          /\ UNCHANGED <<mem, form, found, asked>>

\* btnUpdateTap of form f, with what becomes of the record: memory first, then
\* the row with its id.  A position of -99 is out of the range of any array.
Update(f, r) ==
  /\ form = f
  /\ IF found = 0 THEN Relaunch
     ELSE /\ mem' = [mem EXCEPT ![Subject(f)][found] = r]
          /\ updateRecord(Subject(f), r)
          /\ UNCHANGED <<form, found, asked>>

\* The record a form is about; before a Fetch any will do, since Update traps.
Current == mem[Subject(form)][found]

UpdateItem(v) ==
  Update("item", IF found = 0 THEN <<>> ELSE [Current EXCEPT !.value = v])
UpdateLocation(p) ==
  Update("location", IF found = 0 THEN <<>> ELSE [Current EXCEPT !.place = p])
UpdateDeparture(d) ==
  Update("departure", IF found = 0 THEN <<>> ELSE [Current EXCEPT !.departure = d])

\* The lines of the order are replaced by one.
UpdateOrderItem(i, q) ==
  LET lines == <<[item |-> mem["item"][i], quantity |-> q]>> IN
  Update("orderItem", IF found = 0 THEN <<>>
                      ELSE [Current EXCEPT !.lines = lines, !.cost = getOrderTotal(lines)])

\* Mutant: the cost becomes that of the new line.
AddItemsSetCost(i, q) ==
  LET line == [item |-> mem["item"][i], quantity |-> q] IN
  /\ form = "addItems" /\ found # 0 => Len(Current.lines) < MaxLines
  /\ Update("addItems", IF found = 0 THEN <<>>
                        ELSE [Current EXCEPT !.lines = Append(@, line),
                                             !.cost = getOrderTotal(<<line>>)])

\* A line is added, also when the order has one about the item.
AddItems(i, q) ==
  LET line == [item |-> mem["item"][i], quantity |-> q] IN
  /\ form = "addItems" /\ found # 0 => Len(Current.lines) < MaxLines
  /\ Update("addItems", IF found = 0 THEN <<>>
                        ELSE [Current EXCEPT !.lines = Append(@, line),
                                             !.cost = @ + getOrderTotal(<<line>>)])

Next ==
  \/ Relaunch
  \/ \E r \in Item : Create("item", r)
  \/ \E r \in Location : Create("location", r)
  \/ \E id \in OrderIds, i \in DOMAIN mem["item"], q \in 1 .. MaxQuantity,
        f, t \in DOMAIN mem["location"], dep, arr \in Dates :
       CreateOrder(id, i, f, t, q, dep, arr)
  \/ \E k \in Kinds : \E i \in DOMAIN mem[k] : Delete(k, i)
  \/ \E f \in Forms : Open(f)
  \/ Close
  \/ \E k \in Kinds : \E i \in DOMAIN mem[k] : Fetch(i)
  \/ \E v \in Values : UpdateItem(v)
  \/ \E p \in Places : UpdateLocation(p)
  \/ \E d \in Dates : UpdateDeparture(d)
  \/ \E i \in DOMAIN mem["item"], q \in 1 .. MaxQuantity :
       UpdateOrderItem(i, q) \/ AddItems(i, q)

Spec == Init /\ [][Next]_vars

-----------------------------------------------------------------------------
(* Properties.                                                              *)

\* Type invariant: no line has a quantity of zero, no order is without lines (the
\* form that replaces them shows the first), and an id names one record, on file as
\* in the arrays, although only the arrays are looked through for it.
TypeOK ==
  /\ DOMAIN db = Kinds /\ DOMAIN mem = Kinds
  /\ \A k \in Kinds : db[k] \subseteq RowsOf(k) /\ Range(mem[k]) \subseteq RowsOf(k)
  /\ \A k \in Kinds : /\ \A i, j \in DOMAIN mem[k] : mem[k][i].id = mem[k][j].id => i = j
                      /\ \A r, s \in db[k] : r.id = s.id => r = s
  /\ dirty \subseteq Kinds \X Int
  /\ form \in Forms \cup {"none"} /\ found \in Nat /\ asked \subseteq Int

\* A form updates the record it was asked for: its position in the array is that
\* of the id, although every form addresses the array by position alone.
FormIsOnAsked ==
  form # "none" /\ found # 0 =>
    /\ found \in DOMAIN mem[Subject(form)]
    /\ asked = {Current.id}

\* An order's cost follows its lines through every form: a step leaves the
\* difference to the total as it was (a first start's rows have one) or clears it,
\* whatever became of the items in the meantime.
Excess(o) == o.cost - getOrderTotal(o.lines)
CostFollowsLines ==
  [][\A o \in Range(mem["order"]), p \in Range(mem'["order"]) :
       p.id = o.id => Excess(p) \in {Excess(o), 0} \cup {Excess(r) : r \in db["order"]}]_vars

\* The app is a write-through store, as that of Assignment 9 is: each tap changes
\* one record of the arrays and the same record of the file, or neither, and a
\* start shows what the file holds.
Stored == [k \in Kinds |-> RowsOf(k)]
Shown == [k \in Kinds |-> Range(mem[k])]
W == INSTANCE WriteThrough WITH Rows <- Stored, view <- Shown
ImplementsWriteThrough == W!WSpec
=============================================================================
