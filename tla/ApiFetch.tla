------------------------------ MODULE ApiFetch ------------------------------
(***************************************************************************)
(* The logistics app of Assignment 10: at a start the items and locations  *)
(* are requested from a web service, and each completion handler replaces  *)
(* an array of the main view controller, from URLSession's own queue and   *)
(* whatever the main thread is doing.  The file is written as before and   *)
(* never read.  Everything the main thread does with copies of the arrays  *)
(* or with row numbers races the two completions:                          *)
(*                                                                         *)
(*    main thread    viewDidLoad | list | form | check ... append          *)
(*    URLSession     ------------- items = ... ------- locations = ... --- *)
(*                                                                         *)
(* A handler that touches an array more than once is split at each touch,  *)
(* so that a completion may come in between.  The orders are the main      *)
(* thread's alone, and a handler about an order is one step.               *)
(*                                                                         *)
(* Lists and forms are those of Logistics, whose search bar, dates and     *)
(* quantities are left out here: an order carries one item from one place. *)
(***************************************************************************)
EXTENDS Database, Lists

CONSTANTS
  ItemIds, LocationIds, OrderIds,   \* the ids the user may type
  Values, Places,                   \* the contents of an item, of a location
  Served,   \* Served[k]: the arrays the service may answer a request with
  Seed,     \* the rows in the file before the first start
  MaxRows   \* bound: the longest array a user makes

Item == [id : ItemIds, value : Values]
Location == [id : LocationIds, place : Places]
LogisticsOrder == [id : OrderIds, item : Item, from : Location]
Record(k) ==
  CASE k = "item" -> Item
    [] k = "location" -> Location
    [] k = "order" -> LogisticsOrder

Fetched == {"item", "location"}

ASSUME ServiceAssumption ==
  /\ ItemIds \subseteq Int /\ LocationIds \subseteq Int /\ OrderIds \subseteq Int
  /\ MaxRows \in Nat
  /\ \A k \in Fetched : \A s \in Served[k] : s \in Seq(Record(k)) /\ UniqueIds(s)
  /\ DOMAIN Seed = Kinds
  /\ \A k \in Kinds : Seed[k] \subseteq Record(k) /\ IsFiniteSet(Seed[k])

VARIABLES
  mem,        \* mem[k]: the array of kind k in the main view controller
  fetching,   \* the kinds whose request has not been answered
  launch,     \* which saveRecords of viewDidLoad comes next, or "done"
  screen,     \* "menu", "list" or "form": the top of the navigation stack
  kind,       \* the kind the list and the form are about
  filtered,   \* the list's filteredResults
  row,        \* the form's indexPath: a row of mem[kind], 0 to create
  picked,     \* history: the id in the table cell the user clicked, in a set
  offered,    \* the order form: the items in its cells
  pickerRows, \* the order form: the rows of its location pickers
  todo,       \* what a swipe or an edit has still to do, or "nothing"
  swiped,     \* the row of a swipe that is not over, else 0
  checked,    \* the record of a create between its check and its append, in a set
  overlaps    \* history: what a completion has overtaken

list == <<screen, kind, filtered>>
form == <<row, picked, offered, pickerRows>>
arrays == <<mem, fetching, launch>>
handler == <<todo, swiped, checked>>
vars == <<store, arrays, list, form, handler, overlaps>>

-----------------------------------------------------------------------------
\* Starting the app

emptyArrays == [k \in Kinds |-> <<>>]

Init ==
  /\ db = Seed /\ dirty = {}
  /\ mem = emptyArrays /\ fetching = Fetched /\ launch = "item"
  /\ screen = "menu" /\ kind = "none" /\ filtered = <<>>
  /\ row = 0 /\ picked = {} /\ offered = <<>> /\ pickerRows = 0
  /\ todo = "nothing" /\ swiped = 0 /\ checked = {}
  /\ overlaps = {}

closeForm == row' = 0 /\ picked' = {} /\ offered' = <<>> /\ pickerRows' = 0
handled == todo' = "nothing" /\ swiped' = 0 /\ checked' = {}
mainMenu ==
  /\ screen' = "menu" /\ kind' = "none" /\ filtered' = <<>>
  /\ closeForm

\* The process ends, in a trap or otherwise, and the app is opened again.
Relaunch ==
  /\ mem' = emptyArrays /\ fetching' = Fetched /\ launch' = "item"
  /\ dirty' = {} /\ UNCHANGED db
  /\ mainMenu
  /\ handled
  /\ overlaps' = {}

\* fetchDataFromAPI goes on, when both requests are under way, to save the two
\* arrays as they are by then: a transaction per record, errors swallowed.
saveRecords(k) ==
  /\ launch = k
  /\ launch' = (IF k = "item" THEN "location" ELSE "done")
  /\ \E lost \in IF IOMayFail THEN SUBSET Range(mem[k]) ELSE {{}} :
       LET saved == Range(mem[k]) \ lost
       IN  /\ db' = [db EXCEPT ![k] = {r \in @ : r.id \notin Ids(saved)} \cup saved]
           /\ dirty' = (dirty \ {<<k, id>> : id \in Ids(saved)})
                         \cup {<<k, id>> : id \in Ids(lost)}
  /\ UNCHANGED <<mem, fetching, list, form, handler, overlaps>>

\* A completion handler.  It reloads no table and no picker, and looks at
\* nothing the main thread is in the middle of.
getAll(k) ==
  /\ k \in fetching
  /\ fetching' = fetching \ {k}
  /\ \E s \in Served[k] : mem' = [mem EXCEPT ![k] = s]
  /\ overlaps' = overlaps
       \cup (IF kind = k \/ (kind = "order" /\ screen = "form") THEN {"screen"} ELSE {})
       \cup (IF kind = k /\ checked # {} THEN {"create"} ELSE {})
  /\ UNCHANGED <<store, launch, list, form, handler>>

\* No network, an error status or an answer that cannot be parsed: the request
\* is not repeated.
getAllFails(k) ==
  /\ k \in fetching
  /\ fetching' = fetching \ {k}
  /\ UNCHANGED <<store, mem, launch, list, form, handler, overlaps>>

-----------------------------------------------------------------------------
\* The lists

\* The main thread takes the next event of the user.
idle == launch = "done" /\ todo = "nothing" /\ checked = {}

\* A screen that copies the arrays afresh has been overtaken by nothing.
upToDate == overlaps' = overlaps \ {"screen"}

OpenList(k) ==
  /\ idle /\ screen = "menu"
  /\ screen' = "list" /\ kind' = k /\ filtered' = mem[k]
  /\ upToDate
  /\ UNCHANGED <<store, arrays, form, handler>>

BackToMenu ==
  /\ idle /\ screen = "list"
  /\ mainMenu
  /\ upToDate
  /\ UNCHANGED <<store, arrays, handler>>

inUse(k, id) ==
  \E o \in Range(mem["order"]) :
    \/ k = "item" /\ o.item.id = id
    \/ k = "location" /\ o.from.id = id

\* Mutant: the orders are not asked.
commitDeleteInUse(i) ==
  /\ idle /\ screen = "list" /\ kind \in Fetched
  /\ i \in DOMAIN mem[kind]
  /\ todo' = "delete" /\ swiped' = i
  /\ UNCHANGED <<store, arrays, list, form, checked, overlaps>>

\* A swipe on row i of the items or the locations: no order uses the record
\* that the array has there.
commitDelete(i) ==
  /\ idle /\ screen = "list" /\ kind \in Fetched
  /\ i \in DOMAIN mem[kind] /\ ~inUse(kind, mem[kind][i].id)
  /\ todo' = "delete" /\ swiped' = i
  /\ UNCHANGED <<store, arrays, list, form, checked, overlaps>>

\* The array is asked for the row again, and what it has by now is deleted from
\* the file.
deleteSwiped ==
  /\ todo = "delete" /\ swiped \in DOMAIN mem[kind]
  /\ deleteRecord(kind, mem[kind][swiped].id)
  /\ todo' = "take"
  /\ UNCHANGED <<arrays, list, form, swiped, checked, overlaps>>

\* Mutant: the row stays in the list's own copy.
takeSwipedFromArrayOnly ==
  /\ todo = "take" /\ swiped \in DOMAIN mem[kind]
  /\ mem' = [mem EXCEPT ![kind] = RemoveAt(@, swiped)]
  /\ handled
  /\ UNCHANGED <<store, fetching, launch, list, form, overlaps>>

\* The row is taken from the list's copy, and the copy becomes the array.
takeSwiped ==
  /\ todo = "take"
  /\ filtered' = RemoveAt(filtered, swiped)
  /\ mem' = [mem EXCEPT ![kind] = filtered']
  /\ handled
  /\ UNCHANGED <<store, fetching, launch, screen, kind, form, overlaps>>

\* A swipe on row i of the orders.
deleteOrder(i) ==
  /\ idle /\ screen = "list" /\ kind = "order" /\ i \in DOMAIN mem["order"]
  /\ deleteRecord("order", mem["order"][i].id)
  /\ filtered' = RemoveAt(filtered, i)
  /\ mem' = [mem EXCEPT !["order"] = filtered']
  /\ UNCHANGED <<fetching, launch, screen, kind, form, handler, overlaps>>

\* The form about row i comes up, from a cell that shows the ids "shown".
viewWillAppear(i, shown) ==
  /\ idle /\ screen = "list"
  /\ screen' = "form" /\ row' = i /\ picked' = shown
  /\ offered' = IF kind = "order" THEN mem["item"] ELSE <<>>
  /\ pickerRows' = IF kind = "order" THEN Len(mem["location"]) ELSE 0
  /\ UNCHANGED <<store, arrays, kind, filtered, handler, overlaps>>

addTapped == viewWillAppear(0, {})
didSelectRow(i) == i \in DOMAIN mem[kind] /\ viewWillAppear(i, {filtered[i].id})

\* A row of the list that the array no longer has, when it is touched or when a
\* swipe asks for it again: array index out of range.
rowTraps(i) ==
  /\ \/ idle /\ screen = "list"
     \/ todo = "delete" /\ i = swiped
  /\ i \notin DOMAIN mem[kind]
  /\ Relaunch

-----------------------------------------------------------------------------
\* The forms

\* Mutant: the create runs in the background, and the form may be left.
BackToListAtOnce ==
  /\ launch = "done" /\ screen = "form"
  /\ screen' = "list" /\ filtered' = mem[kind]
  /\ closeForm
  /\ upToDate
  /\ UNCHANGED <<store, arrays, kind, handler>>

BackToList ==
  /\ idle /\ screen = "form"
  /\ screen' = "list" /\ filtered' = mem[kind]
  /\ closeForm
  /\ upToDate
  /\ UNCHANGED <<store, arrays, kind, handler>>

\* Mutant: the id is not looked for.
checkIdNever(k, r) ==
  /\ idle /\ screen = "form" /\ kind = k /\ row = 0
  /\ Len(mem[k]) < MaxRows
  /\ checked' = {r}
  /\ UNCHANGED <<store, arrays, list, form, todo, swiped, overlaps>>

\* createItem, createLocation, first half: the id is new.
checkId(k, r) ==
  /\ idle /\ screen = "form" /\ kind = k /\ row = 0
  /\ Len(mem[k]) < MaxRows
  /\ r.id \notin Ids(Range(mem[k]))
  /\ checked' = {r}
  /\ UNCHANGED <<store, arrays, list, form, todo, swiped, overlaps>>

\* Second half: the record goes to the end of the array, then to the file.
appendChecked ==
  /\ \E r \in checked :
       /\ mem' = [mem EXCEPT ![kind] = Append(@, r)]
       /\ saveRecord(kind, r)
  /\ handled
  /\ UNCHANGED <<fetching, launch, list, form, overlaps>>

\* updateItem, updateLocation: the fields of the record that the form's row has
\* now are set in the array.
modify(k, r) ==
  /\ idle /\ screen = "form" /\ kind = k /\ row > 0
  /\ mem' = [mem EXCEPT ![k][row] = r]
  /\ todo' = "save"
  /\ UNCHANGED <<store, fetching, launch, list, form, swiped, checked, overlaps>>

updateItem(v) ==
  row \in DOMAIN mem["item"] /\ modify("item", [mem["item"][row] EXCEPT !.value = v])
updateLocation(p) ==
  row \in DOMAIN mem["location"]
    /\ modify("location", [mem["location"][row] EXCEPT !.place = p])

\* The array is asked for the row again, and what it has by now is saved.
saveModified ==
  /\ todo = "save" /\ row \in DOMAIN mem[kind]
  /\ updateRecord(kind, mem[kind][row])
  /\ handled
  /\ UNCHANGED <<arrays, list, form, overlaps>>

updateTraps ==
  /\ idle \/ todo = "save"
  /\ screen = "form" /\ row > 0 /\ row \notin DOMAIN mem[kind]
  /\ Relaunch

onOrderForm == idle /\ screen = "form" /\ kind = "order"

\* A cell of the order form scrolls out and comes back with the item its row
\* has by now.
cellForRowAt(j) ==
  /\ onOrderForm /\ j \in DOMAIN mem["item"]
  /\ offered' = [offered EXCEPT ![j] = mem["item"][j]]
  /\ UNCHANGED <<store, arrays, list, row, picked, pickerRows, handler, overlaps>>

cellTraps(j) == onOrderForm /\ j \notin DOMAIN mem["item"] /\ Relaunch

\* The order id is new among the orders in memory and there is a location; the
\* picker's row, counted when the form came up, is then looked up.
orderChecked(id) ==
  /\ onOrderForm /\ row = 0
  /\ Len(mem["order"]) < MaxRows
  /\ id \notin Ids(Range(mem["order"]))
  /\ mem["location"] # <<>>

\* Mutant: the order is not written to the file.
createOrderUnsaved(id, j, f) ==
  /\ orderChecked(id)
  /\ f \in DOMAIN mem["location"]
  /\ mem' = [mem EXCEPT !["order"] =
               Append(@, [id |-> id, item |-> offered[j], from |-> mem["location"][f]])]
  /\ UNCHANGED <<store, fetching, launch, list, form, handler, overlaps>>

createOrder(id, j, f) ==
  LET o == [id |-> id, item |-> offered[j], from |-> mem["location"][f]]
  IN  /\ orderChecked(id)
      /\ f \in DOMAIN mem["location"]
      /\ mem' = [mem EXCEPT !["order"] = Append(@, o)]
      /\ saveRecord("order", o)
      /\ UNCHANGED <<fetching, launch, list, form, handler, overlaps>>

\* A picker that came up without rows has none selected (-1), and one that
\* came up with more rows than there are locations by now may have a later one.
createOrderTraps(id) ==
  /\ orderChecked(id)
  /\ pickerRows = 0 \/ pickerRows > Len(mem["location"])
  /\ Relaunch

\* The lines are the order's own until the user chooses another item.
updateOrder ==
  /\ onOrderForm /\ row \in DOMAIN mem["order"]
  /\ \E item \in Range(offered) \cup {mem["order"][row].item} :
       LET o == [mem["order"][row] EXCEPT !.item = item]
       IN  mem' = [mem EXCEPT !["order"][row] = o] /\ updateRecord("order", o)
  /\ UNCHANGED <<fetching, launch, list, form, handler, overlaps>>

-----------------------------------------------------------------------------
Completion == \E k \in Fetched : getAll(k) \/ getAllFails(k)

ListStep ==
  \/ \E k \in Kinds : OpenList(k)
  \/ BackToMenu
  \/ addTapped
  \/ \E i \in DOMAIN filtered :
       commitDelete(i) \/ deleteOrder(i) \/ didSelectRow(i) \/ rowTraps(i)
  \/ deleteSwiped
  \/ takeSwiped

FormStep ==
  \/ BackToList
  \/ \E id \in ItemIds, v \in Values : checkId("item", [id |-> id, value |-> v])
  \/ \E id \in LocationIds, p \in Places : checkId("location", [id |-> id, place |-> p])
  \/ appendChecked
  \/ \E v \in Values : updateItem(v)
  \/ \E p \in Places : updateLocation(p)
  \/ saveModified
  \/ updateTraps

OrderFormStep ==
  \/ \E j \in DOMAIN offered :
       \/ cellForRowAt(j) \/ cellTraps(j)
       \/ \E id \in OrderIds, f \in 1 .. pickerRows : createOrder(id, j, f)
  \/ \E id \in OrderIds : createOrderTraps(id)
  \/ updateOrder

Next ==
  \/ Completion
  \/ \E k \in Fetched : saveRecords(k)
  \/ ListStep
  \/ FormStep
  \/ OrderFormStep
  \/ Relaunch

Spec == Init /\ [][Next]_vars

-----------------------------------------------------------------------------
\* Properties

\* Every variable keeps its type, whatever the service answers.
TypeOK ==
  /\ DOMAIN db = Kinds /\ DOMAIN mem = Kinds
  /\ \A k \in Kinds : db[k] \subseteq Record(k) /\ mem[k] \in Seq(Record(k))
  /\ dirty \subseteq Kinds \X Int
  /\ fetching \subseteq Fetched /\ launch \in Fetched \cup {"done"}
  /\ screen \in {"menu", "list", "form"}
  /\ screen # "menu" => launch = "done"
  /\ kind \in Kinds \cup {"none"} /\ (kind = "none" <=> screen = "menu")
  /\ kind \in Kinds => filtered \in Seq(Record(kind))
  /\ row \in Nat /\ pickerRows \in Nat
  /\ picked \subseteq Int
  /\ offered \in Seq(Item)
  /\ todo \in {"nothing", "delete", "take", "save"}
  /\ swiped \in Nat
  /\ todo \in {"delete", "take"} =>
       screen = "list" /\ kind \in Fetched /\ swiped \in DOMAIN filtered
  /\ todo = "save" => screen = "form" /\ kind \in Fetched
  /\ checked # {} => screen = "form" /\ kind \in Fetched /\ checked \subseteq Record(kind)
  /\ overlaps \subseteq {"screen", "create"}

\* Row numbers go wrong only by an answer: a list or a form that no completion
\* has overtaken since it copied the arrays is about the rows it shows, however
\* many records were made, edited and deleted before it came up.
SettledRows ==
  "screen" \notin overlaps =>
    /\ screen = "list" => filtered = mem[kind]
    /\ screen = "form" /\ row > 0 =>
         row \in DOMAIN mem[kind] /\ picked = {mem[kind][row].id}

\* An id occurs twice only after a completion came between the check and the
\* append of a create; a list written back over a newer array does not do it.
IdsUniqueUnlessOvertaken ==
  "create" \notin overlaps => \A k \in Kinds : UniqueIds(mem[k])

\* The orders on the screen are in the file, unless their last write was
\* swallowed, although the file is never read and may hold others.
OrdersOnFile ==
  \A o \in Range(mem["order"]) : <<"order", o.id>> \notin dirty => o \in db["order"]

\* What a step takes out of the arrays and the file, and puts into the arrays,
\* while a list is on the screen and no answer comes in.
Swiped ==
  \A k \in Kinds :
    /\ Ids(Range(mem'[k])) \subseteq Ids(Range(mem[k]))
    /\ Cardinality(Ids(Range(mem[k])) \ Ids(Range(mem'[k]))) <= 1
    /\ \A r \in db[k] \ db'[k] : ~inUse(k, r.id)
OnList == screen = "list" /\ screen' = "list" /\ fetching' = fetching

\* In a list no completion has overtaken, a swipe takes one record away, and what
\* it deletes from the file is in no order: the row is the one that was checked.
SettledSwipeTakesOne ==
  [][OnList /\ "screen" \notin overlaps => Swiped]_vars
=============================================================================
