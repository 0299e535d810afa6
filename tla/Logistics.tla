----------------------------- MODULE Logistics ------------------------------
(***************************************************************************)
(* The logistics app of Assignment 9: items, locations and orders in three *)
(* arrays of the main view controller, written through to SQLite one       *)
(* record at a time, and edited through a stack of three screens:          *)
(*                                                                         *)
(*    main menu  -->  list of one kind (with a search bar)  -->  form      *)
(*                                                                         *)
(* The list shows a copy of the array, filteredResults; the form addresses *)
(* the record it edits by its row number in the array.  UIKit runs every   *)
(* handler to its end on the main thread, so a handler is one action.  The *)
(* process may end between any two of them, and is then started afresh.    *)
(***************************************************************************)
EXTENDS Database, Lists

CONSTANTS
  ItemIds, LocationIds, OrderIds,   \* the ids the user may type
  Values,       \* the contents of an item: its value stands for its fields
  Places,       \* the contents of a location
  Dates,        \* what the two date pickers can be set to
  MaxQuantity,  \* bound: the highest quantity of an order line
  MaxLines,     \* bound: the longest list of order lines
  VisibleRows,  \* how many rows of the order form's item table fit on screen
  Seed          \* the rows a first start wrote into the database

Item == [id : ItemIds, value : Values]
Location == [id : LocationIds, place : Places]
OrderItem == [item : Item, quantity : 0 .. MaxQuantity]
Lines == UNION {[1 .. n -> OrderItem] : n \in 0 .. MaxLines}
LogisticsOrder ==
  [id : OrderIds, from : Location, to : Location, departure : Dates,
   arrival : Dates, cost : Nat, lines : Lines]

Record(k) ==
  CASE k = "item" -> Item
    [] k = "location" -> Location
    [] k = "order" -> LogisticsOrder

\* OrderItems.orderTotal: what its didSet computes from the lines.
getOrderTotal(lines) ==
  FoldSeq(LAMBDA l, total : l.quantity * l.item.value + total, 0, lines)

ASSUME ConstantsAssumption ==
  /\ ItemIds \subseteq Int /\ LocationIds \subseteq Int /\ OrderIds \subseteq Int
  /\ Values \subseteq Nat \ {0}
  /\ Dates \subseteq Int
  /\ MaxQuantity \in Nat /\ MaxLines \in Nat /\ VisibleRows \in Nat

\* The one fact about the running total that the proofs use.
ASSUME TotalAssumption == \A lines \in Lines : getOrderTotal(lines) \in Nat

VARIABLES
  mem,        \* mem[k]: the array of kind k in the main view controller
  screen,     \* "menu", "list" or "form": the top of the navigation stack
  kind,       \* the kind the list and the form are about
  filtered,   \* the list's filteredResults
  searching,  \* searchController.isActive
  row,        \* the form's indexPath: a row of mem[kind], 0 to create
  picked,     \* history: the id in the table cell the user clicked, in a set
  draft,      \* the order form's tempSelectedOrderItems.items
  cells       \* the order form's cells: the quantity each item's cell holds

list == <<screen, kind, filtered, searching>>
form == <<row, picked, draft, cells>>
vars == <<store, mem, list, form>>

\* What holds of every set of orders the app writes, given the other rows.
WellPriced(o) == o.cost = getOrderTotal(o.lines)
WellDated(o) == o.departure <= o.arrival
NoEqualLines(lines) ==
  \A i, j \in DOMAIN lines : lines[i].item = lines[j].item => i = j
Refers(o, items, locations) ==
  /\ \A i \in DOMAIN o.lines : o.lines[i].item.id \in Ids(items)
  /\ o.from.id \in Ids(locations)
  /\ o.to.id \in Ids(locations)

ASSUME SeedAssumption ==
  /\ DOMAIN Seed = Kinds
  /\ \A k \in Kinds :
       /\ Seed[k] \subseteq Record(k)
       /\ IsFiniteSet(Seed[k])
       /\ \A r, q \in Seed[k] : r.id = q.id => r = q
  /\ \A o \in Seed["order"] :
       /\ WellPriced(o) /\ WellDated(o) /\ NoEqualLines(o.lines)
       /\ Refers(o, Seed["item"], Seed["location"])

-----------------------------------------------------------------------------
\* Starting the app

\* viewDidLoad, generateDummyData: the three arrays are read back.
generateDummyData ==
  {m \in [Kinds -> UNION {fetchRecords(k) : k \in Kinds}] :
     \A k \in Kinds : m[k] \in fetchRecords(k)}

\* The rows a failed fetch left out of memory.
Unread(m) ==
  {key \in UNION {{<<k, id>> : id \in Ids(db[k])} : k \in Kinds} :
     key[2] \notin Ids(Range(m[key[1]]))}

Init ==
  /\ db = Seed
  /\ mem \in generateDummyData
  /\ dirty = Unread(mem)
  /\ screen = "menu" /\ kind = "none" /\ filtered = <<>> /\ searching = FALSE
  /\ row = 0 /\ picked = {} /\ draft = <<>> /\ cells = <<>>

\* A form is popped, or the main menu comes up: the view controllers are gone.
closeForm == row' = 0 /\ picked' = {} /\ draft' = <<>> /\ cells' = <<>>
mainMenu ==
  /\ screen' = "menu" /\ kind' = "none" /\ filtered' = <<>> /\ searching' = FALSE
  /\ closeForm

\* The process ends, by the user or by the system, and the app is opened again.
Relaunch ==
  /\ mem' \in generateDummyData
  /\ dirty' = Unread(mem')
  /\ mainMenu
  /\ UNCHANGED db

-----------------------------------------------------------------------------
\* The list of one kind (a UITableViewController with a search bar)

\* prepare(for:) hands the main view controller over; viewWillAppear copies.
OpenList(k) ==
  /\ screen = "menu"
  /\ screen' = "list" /\ kind' = k /\ filtered' = mem[k] /\ searching' = FALSE
  /\ UNCHANGED <<store, mem, form>>

BackToMenu ==
  /\ screen = "list"
  /\ mainMenu
  /\ UNCHANGED <<store, mem>>

\* The user types: the rows whose text matches are listed, all of them when
\* the text is empty.  Which rows a text matches is left open.
updateSearchResults ==
  /\ screen = "list"
  /\ searching' = TRUE
  /\ \E I \in SUBSET DOMAIN mem[kind] : filtered' \in Sublist(mem[kind], I)
  /\ UNCHANGED <<store, mem, screen, kind, form>>

\* Mutant: cancel ends the search, and the list keeps the results of it.
cancelKeepingResults ==
  /\ screen = "list" /\ searching
  /\ searching' = FALSE
  /\ UNCHANGED <<store, mem, screen, kind, filtered, form>>

\* Cancel ends the search; the reload is queued on the main thread and runs
\* before the next event of the user.
searchBarCancelButtonClicked ==
  /\ screen = "list" /\ searching
  /\ searching' = FALSE /\ filtered' = mem[kind]
  /\ UNCHANGED <<store, mem, screen, kind, form>>

\* Rows of the list of kind k may be swiped away while no search is active.
canEditRowAt(k) == screen = "list" /\ kind = k /\ ~searching

\* Mutant: the row stays in the list's own copy.
commitDeleteOfArrayOnly(k, i) ==
  /\ canEditRowAt(k)
  /\ deleteRecord(k, mem[k][i].id)
  /\ mem' = [mem EXCEPT ![k] = RemoveAt(@, i)]
  /\ UNCHANGED <<screen, kind, filtered, searching, form>>

\* A swipe deletes row i: the record is the array's, the row the list's.
commitDelete(k, i) ==
  /\ canEditRowAt(k)
  /\ deleteRecord(k, mem[k][i].id)
  /\ filtered' = RemoveAt(filtered, i)
  /\ mem' = [mem EXCEPT ![k] = filtered']
  /\ UNCHANGED <<screen, kind, searching, form>>

\* Mutant: the orders are not searched for the item.
deleteItemInUse(i) == commitDelete("item", i)

\* An item or a location that some order uses stays.
deleteItem(i) ==
  /\ canEditRowAt("item")
  /\ \A o \in Range(mem["order"]) :
       mem["item"][i].id \notin {o.lines[n].item.id : n \in DOMAIN o.lines}
  /\ commitDelete("item", i)

deleteLocation(i) ==
  /\ canEditRowAt("location")
  /\ \A o \in Range(mem["order"]) :
       mem["location"][i].id \notin {o.from.id, o.to.id}
  /\ commitDelete("location", i)

deleteOrder(i) == commitDelete("order", i)

-----------------------------------------------------------------------------
\* The form of one record

\* cellForRowAt: the quantity of the first order line about this item.
Positions(lines, id) == {n \in DOMAIN lines : lines[n].item.id = id}
FirstQuantity(lines, id) == FirstOf(lines, Positions(lines, id)).quantity
freshCell(lines, id) ==
  IF Positions(lines, id) = {} THEN 0 ELSE FirstQuantity(lines, id)

\* The form comes up about row i (0: a new record), reached from a cell that
\* shows the ids "shown".  An order's form starts from the order's own lines.
viewWillAppear(i, shown) ==
  /\ screen = "list"
  /\ screen' = "form" /\ row' = i /\ picked' = shown
  /\ draft' = IF kind = "order" /\ i > 0 THEN mem["order"][i].lines ELSE <<>>
  /\ cells' = IF kind = "order"
                THEN [j \in DOMAIN mem["item"] |->
                        freshCell(draft', mem["item"][j].id)]
                ELSE <<>>
  /\ UNCHANGED <<store, mem, kind, filtered, searching>>

addTapped == viewWillAppear(0, {})
didSelectRow(i) == viewWillAppear(i, {filtered[i].id})

\* Back to the list, whose own viewWillAppear copies the array again.
BackToList ==
  /\ screen = "form"
  /\ screen' = "list" /\ filtered' = mem[kind]
  /\ closeForm
  /\ UNCHANGED <<store, mem, kind, searching>>

\* Mutant: no check that the id is new.
createAnyId(k, r) ==
  /\ screen = "form" /\ kind = k /\ row = 0
  /\ mem' = [mem EXCEPT ![k] = Append(@, r)]
  /\ saveRecord(k, r)
  /\ UNCHANGED <<list, form>>

\* A new record goes to the end of the array, then to the database.
create(k, r) ==
  /\ screen = "form" /\ kind = k /\ row = 0
  /\ r.id \notin Ids(Range(mem[k]))
  /\ mem' = [mem EXCEPT ![k] = Append(@, r)]
  /\ saveRecord(k, r)
  /\ UNCHANGED <<list, form>>

\* Mutant: the edited record is not written to the database.
modifyUnsaved(k, r) ==
  /\ screen = "form" /\ kind = k /\ row > 0
  /\ mem' = [mem EXCEPT ![k][row] = r]
  /\ UNCHANGED <<store, list, form>>

\* An edited record replaces the one in the form's row of the array.
modify(k, r) ==
  /\ screen = "form" /\ kind = k /\ row > 0
  /\ mem' = [mem EXCEPT ![k][row] = r]
  /\ updateRecord(k, r)
  /\ UNCHANGED <<list, form>>

createItem(id, v) == create("item", [id |-> id, value |-> v])
updateItem(v) == modify("item", [mem["item"][row] EXCEPT !.value = v])

createLocation(id, p) == create("location", [id |-> id, place |-> p])
updateLocation(p) == modify("location", [mem["location"][row] EXCEPT !.place = p])

-----------------------------------------------------------------------------
\* The order form: choosing items and quantities

onOrderForm == screen = "form" /\ kind = "order"

\* A tap replaces the lines that carry exactly this item by one at the end.
setLine(item, q) ==
  \E kept \in Sublist(draft, {n \in DOMAIN draft : draft[n].item # item}) :
    /\ Len(kept) < MaxLines
    /\ draft' = Append(kept, [item |-> item, quantity |-> q])

btnIncreaseTap(j) ==
  /\ onOrderForm /\ cells[j] < MaxQuantity
  /\ cells' = [cells EXCEPT ![j] = @ + 1]
  /\ setLine(mem["item"][j], cells'[j])
  /\ UNCHANGED <<store, mem, list, row, picked>>

\* Mutant: the quantity may go below 0.
btnDecreaseTapAlways(j) ==
  /\ onOrderForm
  /\ cells' = [cells EXCEPT ![j] = @ - 1]
  /\ setLine(mem["item"][j], cells'[j])
  /\ UNCHANGED <<store, mem, list, row, picked>>

\* A quantity may come down to 0: the line stays.
btnDecreaseTap(j) ==
  /\ onOrderForm /\ cells[j] > 0
  /\ cells' = [cells EXCEPT ![j] = @ - 1]
  /\ setLine(mem["item"][j], cells'[j])
  /\ UNCHANGED <<store, mem, list, row, picked>>

\* The table scrolls: row j comes up in the cell that showed row i, which
\* keeps its quantity when the order has no line about item j.
cellForRowAt(i, j) ==
  /\ onOrderForm /\ Len(mem["item"]) > VisibleRows /\ i # j
  /\ cells' = [cells EXCEPT ![j] =
                 IF Positions(draft, mem["item"][j].id) = {} THEN cells[i]
                 ELSE FirstQuantity(draft, mem["item"][j].id)]
  /\ UNCHANGED <<store, mem, list, row, picked, draft>>

-----------------------------------------------------------------------------
\* The order form: saving

\* The pickers give rows f and t of the locations; the dates must be in order
\* and the draft must have a line.
createOrder(id, f, t, departure, arrival) ==
  /\ f \in DOMAIN mem["location"] /\ t \in DOMAIN mem["location"]
  /\ departure <= arrival
  /\ draft # <<>>
  /\ create("order", [id |-> id, from |-> mem["location"][f],
                      to |-> mem["location"][t], departure |-> departure,
                      arrival |-> arrival, cost |-> getOrderTotal(draft),
                      lines |-> draft])

\* Without a location the picker's row is outside the array: the process
\* traps, before it has written anything, and is started again.
createOrderTraps(id) ==
  /\ onOrderForm /\ row = 0
  /\ id \notin Ids(Range(mem["order"]))
  /\ mem["location"] = <<>>
  /\ Relaunch

\* Mutant: the cost is left at that of the old lines.
updateOrderKeepingCost(departure, arrival) ==
  /\ departure <= arrival
  /\ draft # <<>>
  /\ modify("order", [mem["order"][row] EXCEPT !.departure = departure,
                        !.arrival = arrival, !.lines = draft])

updateOrder(departure, arrival) ==
  /\ departure <= arrival
  /\ draft # <<>>
  /\ modify("order", [mem["order"][row] EXCEPT
                        !.departure = departure, !.arrival = arrival,
                        !.cost = getOrderTotal(draft), !.lines = draft])

-----------------------------------------------------------------------------
ListStep ==
  \/ \E k \in Kinds : OpenList(k)
  \/ BackToMenu
  \/ updateSearchResults
  \/ searchBarCancelButtonClicked
  \/ addTapped
  \/ \E i \in DOMAIN filtered :
       didSelectRow(i) \/ deleteItem(i) \/ deleteLocation(i) \/ deleteOrder(i)

FormStep ==
  \/ BackToList
  \/ \E id \in ItemIds, v \in Values : createItem(id, v)
  \/ \E v \in Values : updateItem(v)
  \/ \E id \in LocationIds, p \in Places : createLocation(id, p)
  \/ \E p \in Places : updateLocation(p)

OrderFormStep ==
  \/ \E j \in DOMAIN cells :
       \/ btnIncreaseTap(j) \/ btnDecreaseTap(j)
       \/ \E i \in DOMAIN cells : cellForRowAt(i, j)
  \/ \E id \in OrderIds :
       \/ \E f, t \in DOMAIN mem["location"], d, a \in Dates :
            createOrder(id, f, t, d, a)
       \/ createOrderTraps(id)
  \/ \E d, a \in Dates : updateOrder(d, a)

Next == ListStep \/ FormStep \/ OrderFormStep \/ Relaunch

Spec == Init /\ [][Next]_vars

-----------------------------------------------------------------------------
\* Properties

\* Every variable keeps its type: the arrays, the tables and the list hold
\* whole records of their kind, the form's rows and quantities are in range.
RecordsTyped ==
  /\ DOMAIN db = Kinds /\ DOMAIN mem = Kinds
  /\ \A k \in Kinds : /\ db[k] \subseteq Record(k) /\ IsFiniteSet(db[k])
                      /\ mem[k] \in Seq(Record(k))
  /\ dirty \subseteq Kinds \X Int
ScreensTyped ==
  /\ screen \in {"menu", "list", "form"}
  /\ kind \in Kinds \cup {"none"} /\ (kind = "none" <=> screen = "menu")
  /\ kind \in Kinds => filtered \in Seq(Record(kind))
  /\ searching \in BOOLEAN
  /\ row \in Nat
  /\ picked \subseteq Int
  /\ draft \in Lines
  /\ cells \in Seq(0 .. MaxQuantity)
TypeOK == RecordsTyped /\ ScreensTyped

\* No id occurs twice in an array: create's check, taken against the array the
\* record is appended to, is enough although lists and forms hold copies.
IdsUnique == \A k \in Kinds : UniqueIds(mem[k])

\* Row numbers taken from the list are used to index the array: they are in
\* range, and while no search is active the list shows the array itself, so a
\* swipe on row i deletes record i (commitDelete reads both).
RowsMatch ==
  /\ screen = "list" => Len(filtered) <= Len(mem[kind])
  /\ screen = "list" /\ ~searching => filtered = mem[kind]
  /\ screen = "form" => row <= Len(mem[kind])
  /\ onOrderForm => Len(cells) = Len(mem["item"])

\* The form is about the record whose cell was clicked, if no search was on.
FormShowsPicked ==
  screen = "form" /\ row > 0 /\ ~searching => picked = {mem[kind][row].id}

\* Write-through: a record whose last write was not swallowed is the same, or
\* is missing, in the array and in its table; so a restart loses none of them.
WrittenThrough ==
  \A k \in Kinds : \A r \in db[k] \cup Range(mem[k]) :
    <<k, r.id>> \notin dirty => r \in db[k] /\ r \in Range(mem[k])

\* Every order's items and locations exist, in memory and, as long as SQLite
\* works, in the file: deletes look for uses, and orders are only made from
\* what exists when their form is open.
NoDanglingOrders ==
  ~IOMayFail =>
    \A o \in Range(mem["order"]) \cup db["order"] :
      /\ Refers(o, Range(mem["item"]), Range(mem["location"]))
      /\ Refers(o, db["item"], db["location"])

\* An order's cost is the total of its own lines, its dates are in order and
\* no two of its lines carry equal items, however often it is edited and read
\* back after a restart.
OrdersSound ==
  \A o \in Range(mem["order"]) \cup db["order"] :
    WellPriced(o) /\ WellDated(o) /\ NoEqualLines(o.lines)

\* The app is a write-through store: each step of a screen or a form changes
\* one record of the arrays and the same record of the file, or neither, and a
\* start shows what the file holds.
Stored == [k \in Kinds |-> Record(k)]
Shown == [k \in Kinds |-> Range(mem[k])]
W == INSTANCE WriteThrough WITH Rows <- Stored, view <- Shown
ImplementsWriteThrough == W!WSpec
=============================================================================
