--------------------------- MODULE ApiFetchProofs ---------------------------
(***************************************************************************)
(* Theorems about the app of Assignment 10, for every set of ids and       *)
(* records, everything the service may answer and every bound.  TypeOK is  *)
(* inductive by itself; under it every step is one of StepKind, and the    *)
(* other invariants are proved from that classification.                   *)
(***************************************************************************)
EXTENDS ApiFetch, ListProofs

-----------------------------------------------------------------------------
\* The steps of a typed state, with the records they carry

\* An order of the form that has been looked up goes to memory and the file.
orderCreated(o) ==
  /\ orderChecked(o.id)
  /\ mem' = [mem EXCEPT !["order"] = Append(@, o)]
  /\ saveRecord("order", o)
  /\ UNCHANGED <<fetching, launch, list, form, handler, overlaps>>

\* An edit keeps the id of the record in the form's row.
modified(k, r) ==
  /\ row \in DOMAIN mem[k] /\ r.id = mem[k][row].id
  /\ modify(k, r)
orderModified(r) ==
  /\ onOrderForm /\ row \in DOMAIN mem["order"] /\ r.id = mem["order"][row].id
  /\ mem' = [mem EXCEPT !["order"][row] = r] /\ updateRecord("order", r)
  /\ UNCHANGED <<fetching, launch, list, form, handler, overlaps>>

\* A step that changes neither an array, the file nor the list, and the form
\* only in the items its cells show.
Quiet ==
  /\ UNCHANGED <<store, mem, launch, list, row, picked, pickerRows, handler, overlaps>>
  /\ fetching' \subseteq fetching /\ offered' \in Seq(Item)
  /\ screen = "list" => fetching' # fetching \/ UNCHANGED vars

Answers == \E k \in Fetched : getAll(k)
Saves == \E k \in Fetched : saveRecords(k)
Opens == \E k \in Kinds : OpenList(k)
Swipes == \E i \in DOMAIN filtered : commitDelete(i)
OrderSwipes == \E i \in DOMAIN filtered : deleteOrder(i)
Taps == addTapped \/ \E i \in DOMAIN filtered : didSelectRow(i)
Checks == \E k \in Fetched : \E r \in Record(k) : checkId(k, r)
Edits == \E k \in Fetched : \E r \in Record(k) : modified(k, r)
OrderEdits == \E r \in LogisticsOrder : orderModified(r)
Orders == \E o \in LogisticsOrder : orderCreated(o)

StepKind ==
  \/ Quiet \/ Answers \/ Saves \/ Opens \/ BackToMenu \/ Taps
  \/ Swipes \/ deleteSwiped \/ takeSwiped \/ OrderSwipes
  \/ BackToList \/ Checks \/ appendChecked \/ Edits \/ saveModified
  \/ Orders \/ OrderEdits \/ Relaunch

\* Every record has an integer id.
LEMMA RecordIds == \A k \in Kinds : \A r \in Record(k) : r.id \in Int
BY ServiceAssumption DEF Kinds, Record, Item, Location, LogisticsOrder

\* The three ways a record is changed carry records of their kind.
LEMMA EditKinds ==
  ASSUME TypeOK,
         \/ \E v \in Values : updateItem(v)
         \/ \E p \in Places : updateLocation(p)
         \/ updateOrder
  PROVE  Edits \/ OrderEdits
<1>1. /\ mem["item"] \in Seq(Item) /\ mem["location"] \in Seq(Location)
      /\ mem["order"] \in Seq(LogisticsOrder) /\ offered \in Seq(Item)
  BY DEF TypeOK, Kinds, Record
<1>2. ASSUME NEW v \in Values, updateItem(v)
      PROVE  Edits
  <2> DEFINE r == [mem["item"][row] EXCEPT !.value = v]
  <2>1. row \in DOMAIN mem["item"] /\ modify("item", r)
    BY <1>2 DEF updateItem
  <2>2. mem["item"][row] \in Item
    BY <1>1, <2>1
  <2>3. r \in Record("item") /\ r.id = mem["item"][row].id
    BY <2>2 DEF Item, Record
  <2> HIDE DEF r
  <2> QED BY <2>1, <2>3 DEF Edits, modified, Fetched
<1>3. ASSUME NEW p \in Places, updateLocation(p)
      PROVE  Edits
  <2> DEFINE r == [mem["location"][row] EXCEPT !.place = p]
  <2>1. row \in DOMAIN mem["location"] /\ modify("location", r)
    BY <1>3 DEF updateLocation
  <2>2. mem["location"][row] \in Location
    BY <1>1, <2>1
  <2>3. r \in Record("location") /\ r.id = mem["location"][row].id
    BY <2>2 DEF Location, Record
  <2> HIDE DEF r
  <2> QED BY <2>1, <2>3 DEF Edits, modified, Fetched
<1>4. ASSUME updateOrder
      PROVE  OrderEdits
  <2>1. /\ onOrderForm /\ row \in DOMAIN mem["order"]
        /\ UNCHANGED <<fetching, launch, list, form, handler, overlaps>>
    BY <1>4 DEF updateOrder
  <2> DEFINE order(item) == [mem["order"][row] EXCEPT !.item = item]
  <2>2. PICK item \in Range(offered) \cup {mem["order"][row].item} :
          /\ mem' = [mem EXCEPT !["order"][row] = order(item)]
          /\ updateRecord("order", order(item))
    BY <1>4 DEF updateOrder
  <2> DEFINE r == order(item)
  <2>3. mem["order"][row] \in LogisticsOrder
    BY <1>1, <2>1
  <2>4. item \in Item
    BY <1>1, <2>2, <2>3 DEF Range, LogisticsOrder
  <2>5. r \in LogisticsOrder /\ r.id = mem["order"][row].id
    BY <2>3, <2>4 DEF LogisticsOrder
  <2>6. mem' = [mem EXCEPT !["order"][row] = r] /\ updateRecord("order", r)
    BY <2>2
  <2> HIDE DEF r
  <2> QED BY <2>1, <2>5, <2>6 DEF OrderEdits, orderModified
<1> QED BY <1>2, <1>3, <1>4

\* A typed state takes no other steps.
LEMMA StepKinds == TypeOK /\ [Next]_vars => StepKind
<1> SUFFICES ASSUME TypeOK, [Next]_vars
             PROVE  StepKind
  OBVIOUS
<1>1. mem["item"] \in Seq(Item) /\ mem["location"] \in Seq(Location) /\ offered \in Seq(Item)
  BY DEF TypeOK, Kinds, Record
<1>2. CASE UNCHANGED vars
  BY <1>1, <1>2 DEF vars, list, form, arrays, handler, StepKind, Quiet
<1>3. CASE Completion
  <2>1. PICK k \in Fetched : getAll(k) \/ getAllFails(k)
    BY <1>3 DEF Completion
  <2>2. CASE getAll(k)
    BY <2>2 DEF StepKind, Answers
  <2>3. CASE getAllFails(k)
    BY <1>1, <2>3 DEF getAllFails, StepKind, Quiet, list, form
  <2> QED BY <2>1, <2>2, <2>3
<1>4. CASE \E k \in Fetched : saveRecords(k)
  BY <1>4 DEF StepKind, Saves
<1>5. CASE ListStep
  BY <1>5 DEF ListStep, rowTraps, StepKind, Opens, Swipes, OrderSwipes, Taps
<1>6. CASE FormStep
  <2>1. ASSUME NEW id \in ItemIds, NEW v \in Values, checkId("item", [id |-> id, value |-> v])
        PROVE  Checks
    BY <2>1 DEF Checks, Fetched, Record, Item
  <2>2. ASSUME NEW id \in LocationIds, NEW p \in Places,
               checkId("location", [id |-> id, place |-> p])
        PROVE  Checks
    BY <2>2 DEF Checks, Fetched, Record, Location
  <2>3. CASE (\E v \in Values : updateItem(v)) \/ (\E p \in Places : updateLocation(p))
    BY <2>3, EditKinds DEF StepKind
  <2> QED BY <1>6, <2>1, <2>2, <2>3 DEF FormStep, updateTraps, StepKind
<1>7. CASE OrderFormStep
  <2>1. ASSUME NEW j \in DOMAIN offered, cellForRowAt(j)
        PROVE  Quiet
    <3>1. mem["item"][j] \in Item /\ j \in 1 .. Len(offered)
      BY <1>1, <2>1 DEF cellForRowAt
    <3>2. offered' \in Seq(Item)
      BY <1>1, <2>1, <3>1, ReplaceFacts DEF cellForRowAt
    <3> QED BY <2>1, <3>2 DEF cellForRowAt, onOrderForm, Quiet, list, arrays
  <2>2. ASSUME NEW j \in DOMAIN offered, cellTraps(j)
        PROVE  Relaunch
    BY <2>2 DEF cellTraps
  <2>3. ASSUME NEW j \in DOMAIN offered, NEW id \in OrderIds, NEW f \in 1 .. pickerRows,
               createOrder(id, j, f)
        PROVE  Orders
    <3> DEFINE o == [id |-> id, item |-> offered[j], from |-> mem["location"][f]]
    <3>1. offered[j] \in Item /\ mem["location"][f] \in Location
      BY <1>1, <2>3 DEF createOrder
    <3>2. o \in LogisticsOrder /\ o.id = id
      BY <3>1 DEF LogisticsOrder
    <3>3. /\ orderChecked(id) /\ saveRecord("order", o)
          /\ mem' = [mem EXCEPT !["order"] = Append(@, o)]
          /\ UNCHANGED <<fetching, launch, list, form, handler, overlaps>>
      BY <2>3 DEF createOrder
    <3> HIDE DEF o
    <3> QED BY <3>2, <3>3 DEF Orders, orderCreated
  <2>4. ASSUME NEW id \in OrderIds, createOrderTraps(id)
        PROVE  Relaunch
    BY <2>4 DEF createOrderTraps
  <2>5. CASE updateOrder
    BY <2>5, EditKinds DEF StepKind
  <2> QED BY <1>7, <2>1, <2>2, <2>3, <2>4, <2>5 DEF OrderFormStep, StepKind
<1>8. CASE Relaunch
  BY <1>8 DEF StepKind
<1> QED BY <1>2, <1>3, <1>4, <1>5, <1>6, <1>7, <1>8 DEF Next

-----------------------------------------------------------------------------
\* Types

\* A write of one row keeps the tables typed.
LEMMA WriteTyped ==
  ASSUME TypeOK, NEW k \in Kinds, NEW id \in Int, NEW rows,
         rows \subseteq Record(k), write(k, id, rows)
  PROVE  /\ DOMAIN db' = Kinds /\ dirty' \subseteq Kinds \X Int
         /\ \A j \in Kinds : db'[j] \subseteq Record(j)
<1>1. /\ DOMAIN db = Kinds /\ dirty \subseteq Kinds \X Int
      /\ \A j \in Kinds : db[j] \subseteq Record(j)
  BY DEF TypeOK
<1>2. CASE db' = [db EXCEPT ![k] = rows] /\ dirty' = dirty \ {<<k, id>>}
  BY <1>1, <1>2
<1>3. CASE UNCHANGED db /\ dirty' = dirty \cup {<<k, id>>}
  BY <1>1, <1>3
<1> QED BY <1>2, <1>3 DEF write

LEMMA PutTyped ==
  ASSUME TypeOK, NEW k \in Kinds, NEW r \in Record(k),
         saveRecord(k, r) \/ updateRecord(k, r)
  PROVE  /\ DOMAIN db' = Kinds /\ dirty' \subseteq Kinds \X Int
         /\ \A j \in Kinds : db'[j] \subseteq Record(j)
<1> DEFINE rows == Without(db[k], r.id) \cup {r}
<1>1. rows \subseteq Record(k) /\ r.id \in Int
  BY RecordIds DEF TypeOK, Without
<1>2. \/ write(k, r.id, rows)
      \/ UNCHANGED db /\ dirty' = dirty \cup {<<k, r.id>>}
  BY DEF saveRecord, updateRecord
<1> HIDE DEF rows
<1>3. CASE write(k, r.id, rows)
  BY <1>1, <1>3, WriteTyped
<1>4. CASE UNCHANGED db /\ dirty' = dirty \cup {<<k, r.id>>}
  BY <1>1, <1>4 DEF TypeOK
<1> QED BY <1>2, <1>3, <1>4

LEMMA DeleteTyped ==
  ASSUME TypeOK, NEW k \in Kinds, NEW r \in Record(k), deleteRecord(k, r.id)
  PROVE  /\ DOMAIN db' = Kinds /\ dirty' \subseteq Kinds \X Int
         /\ \A j \in Kinds : db'[j] \subseteq Record(j)
<1>1. Without(db[k], r.id) \subseteq Record(k) /\ r.id \in Int
  BY RecordIds DEF TypeOK, Without
<1>2. write(k, r.id, Without(db[k], r.id))
  BY DEF deleteRecord
<1> QED BY <1>1, <1>2, WriteTyped

\* An array replaced by another of its kind.
LEMMA ArrayTyped ==
  ASSUME TypeOK, NEW k \in Kinds, NEW s \in Seq(Record(k)), mem' = [mem EXCEPT ![k] = s]
  PROVE  /\ DOMAIN mem' = Kinds
         /\ \A j \in Kinds : mem'[j] \in Seq(Record(j))
         /\ \A j \in Kinds : mem'[j] = IF j = k THEN s ELSE mem[j]
BY DEF TypeOK

LEMMA InitTyped == Init => TypeOK
BY ServiceAssumption DEF Init, TypeOK, emptyArrays, Kinds, Fetched

\* A record appended to the array of its kind and saved.
LEMMA AppendTyped ==
  ASSUME TypeOK, NEW k \in Kinds, NEW r \in Record(k), saveRecord(k, r),
         mem' = [mem EXCEPT ![k] = Append(@, r)],
         checked' \subseteq checked, todo' = "nothing", swiped' \in Nat,
         UNCHANGED <<fetching, launch, list, form, overlaps>>
  PROVE  TypeOK'
<1>1. mem[k] \in Seq(Record(k))
  BY DEF TypeOK
<1>2. Append(mem[k], r) \in Seq(Record(k)) /\ mem' = [mem EXCEPT ![k] = Append(mem[k], r)]
  BY <1>1, AppendFacts
<1>3. DOMAIN mem' = Kinds /\ \A j \in Kinds : mem'[j] \in Seq(Record(j))
  BY <1>2, ArrayTyped
<1>4. /\ DOMAIN db' = Kinds /\ dirty' \subseteq Kinds \X Int
      /\ \A j \in Kinds : db'[j] \subseteq Record(j)
  BY PutTyped
<1> QED BY <1>3, <1>4 DEF TypeOK, list, form

LEMMA NextTyped == TypeOK /\ [Next]_vars => TypeOK'
<1> SUFFICES ASSUME TypeOK, StepKind
             PROVE  TypeOK'
  BY StepKinds
<1>1. CASE Quiet
  BY <1>1 DEF Quiet, TypeOK, store, list, handler
<1>2. ASSUME NEW k \in Fetched, getAll(k)
      PROVE  TypeOK'
  <2>1. PICK s \in Served[k] : mem' = [mem EXCEPT ![k] = s]
    BY <1>2 DEF getAll
  <2>2. k \in Kinds /\ s \in Seq(Record(k))
    BY <2>1, ServiceAssumption DEF Fetched, Kinds
  <2>3. DOMAIN mem' = Kinds /\ \A j \in Kinds : mem'[j] \in Seq(Record(j))
    BY <2>1, <2>2, ArrayTyped
  <2> QED BY <1>2, <2>3 DEF getAll, TypeOK, store, list, form, handler
<1>3. ASSUME NEW k \in Fetched, saveRecords(k)
      PROVE  TypeOK'
  <2>1. PICK lost \in SUBSET Range(mem[k]) :
          /\ db' = [db EXCEPT ![k] =
                 {r \in @ : r.id \notin Ids(Range(mem[k]) \ lost)} \cup (Range(mem[k]) \ lost)]
          /\ dirty' = (dirty \ {<<k, id>> : id \in Ids(Range(mem[k]) \ lost)})
                        \cup {<<k, id>> : id \in Ids(lost)}
    BY <1>3 DEF saveRecords
  <2>2. k \in Kinds /\ Range(mem[k]) \subseteq Record(k)
    BY DEF Fetched, Kinds, TypeOK, Range
  <2>3. Ids(lost) \subseteq Int
    BY <2>1, <2>2, RecordIds DEF Ids
  <2>4. /\ DOMAIN db' = Kinds /\ dirty' \subseteq Kinds \X Int
        /\ \A j \in Kinds : db'[j] \subseteq Record(j)
    BY <2>1, <2>2, <2>3 DEF TypeOK
  <2> QED BY <1>3, <2>4 DEF saveRecords, TypeOK, list, form, handler, Fetched
<1>4. ASSUME NEW k \in Kinds, OpenList(k)
      PROVE  TypeOK'
  BY <1>4 DEF OpenList, TypeOK, idle, upToDate, store, arrays, form, handler, Kinds
<1>5. CASE BackToMenu
  BY <1>5 DEF BackToMenu, mainMenu, closeForm, TypeOK, idle, upToDate, store, arrays, handler,
               Kinds
<1>6. ASSUME NEW i \in DOMAIN filtered, deleteOrder(i)
      PROVE  TypeOK'
  <2>1. /\ kind = "order" /\ kind \in Kinds /\ mem["order"][i] \in Record("order")
        /\ filtered \in Seq(Record("order")) /\ i \in 1 .. Len(filtered)
    BY <1>6 DEF deleteOrder, TypeOK, Kinds
  <2>2. RemoveAt(filtered, i) \in Seq(Record("order"))
    BY <2>1, RemoveAtFacts
  <2>3. DOMAIN mem' = Kinds /\ \A j \in Kinds : mem'[j] \in Seq(Record(j))
    BY <1>6, <2>1, <2>2, ArrayTyped DEF deleteOrder
  <2>4. /\ DOMAIN db' = Kinds /\ dirty' \subseteq Kinds \X Int
        /\ \A j \in Kinds : db'[j] \subseteq Record(j)
    BY <1>6, <2>1, DeleteTyped DEF deleteOrder
  <2> QED BY <1>6, <2>1, <2>2, <2>3, <2>4 DEF deleteOrder, TypeOK, form, handler, idle
<1>15. ASSUME NEW i \in DOMAIN filtered, commitDelete(i)
       PROVE  TypeOK'
  <2>1. i \in Nat
    BY <1>15 DEF commitDelete, TypeOK, Fetched, Kinds
  <2> QED BY <1>15, <2>1 DEF commitDelete, TypeOK, idle, store, arrays, list, form
<1>16. CASE deleteSwiped
  <2>1. kind \in Kinds /\ mem[kind][swiped] \in Record(kind)
    BY <1>16 DEF deleteSwiped, TypeOK, Fetched, Kinds
  <2>2. /\ DOMAIN db' = Kinds /\ dirty' \subseteq Kinds \X Int
        /\ \A j \in Kinds : db'[j] \subseteq Record(j)
    BY <1>16, <2>1, DeleteTyped DEF deleteSwiped
  <2> QED BY <1>16, <2>2 DEF deleteSwiped, TypeOK, arrays, list, form
<1>17. CASE takeSwiped
  <2>1. /\ kind \in Kinds /\ filtered \in Seq(Record(kind)) /\ swiped \in 1 .. Len(filtered)
    BY <1>17 DEF takeSwiped, TypeOK, Fetched, Kinds
  <2>2. RemoveAt(filtered, swiped) \in Seq(Record(kind))
    BY <2>1, RemoveAtFacts
  <2>3. DOMAIN mem' = Kinds /\ \A j \in Kinds : mem'[j] \in Seq(Record(j))
    BY <1>17, <2>1, <2>2, ArrayTyped DEF takeSwiped
  <2> QED BY <1>17, <2>1, <2>2, <2>3 DEF takeSwiped, handled, TypeOK, store, form
<1>7. ASSUME NEW i \in Nat, NEW shown \in SUBSET Int, viewWillAppear(i, shown)
      PROVE  TypeOK'
  <2>1. kind \in Kinds /\ mem["item"] \in Seq(Item) /\ Len(mem["location"]) \in Nat
        /\ checked = {}
    BY <1>7, LenProperties DEF viewWillAppear, TypeOK, Kinds, Record, idle
  <2>2. offered' \in Seq(Item) /\ pickerRows' \in Nat
    BY <1>7, <2>1 DEF viewWillAppear
  <2> QED BY <1>7, <2>1, <2>2 DEF viewWillAppear, TypeOK, store, arrays, handler, idle, Kinds
<1>8. CASE Taps
  <2>1. CASE addTapped
    BY <1>7, <2>1 DEF addTapped
  <2>2. ASSUME NEW i \in DOMAIN filtered, didSelectRow(i)
        PROVE  TypeOK'
    <3>1. viewWillAppear(i, {filtered[i].id})
      BY <2>2 DEF didSelectRow
    <3>2. kind \in Kinds /\ filtered \in Seq(Record(kind))
      BY <3>1 DEF viewWillAppear, TypeOK
    <3>3. i \in Nat /\ filtered[i].id \in Int
      BY <3>2, RecordIds
    <3> QED BY <1>7, <3>1, <3>3
  <2> QED BY <1>8, <2>1, <2>2 DEF Taps
<1>9. CASE BackToList
  BY <1>9 DEF BackToList, closeForm, TypeOK, idle, upToDate, store, arrays, handler, Kinds
<1>10. ASSUME NEW k \in Fetched, NEW r \in Record(k), checkId(k, r)
       PROVE  TypeOK'
  BY <1>10 DEF checkId, TypeOK, idle, store, arrays, list, form
<1>11. CASE appendChecked
  <2>1. PICK r \in checked : mem' = [mem EXCEPT ![kind] = Append(@, r)] /\ saveRecord(kind, r)
    BY <1>11 DEF appendChecked
  <2>2. kind \in Kinds /\ r \in Record(kind)
    BY DEF TypeOK, Fetched, Kinds
  <2>3. /\ checked' \subseteq checked /\ todo' = "nothing" /\ swiped' \in Nat
        /\ UNCHANGED <<fetching, launch, list, form, overlaps>>
    BY <1>11 DEF appendChecked, handled
  <2> QED BY <2>1, <2>2, <2>3, AppendTyped
<1>12. ASSUME NEW k \in Fetched, NEW r \in Record(k), modified(k, r)
       PROVE  TypeOK'
  <2>1. /\ k \in Kinds /\ row \in 1 .. Len(mem[k]) /\ mem[k] \in Seq(Record(k))
        /\ mem' = [mem EXCEPT ![k] = [mem[k] EXCEPT ![row] = r]]
    BY <1>12 DEF modified, modify, TypeOK, Fetched, Kinds
  <2>2. [mem[k] EXCEPT ![row] = r] \in Seq(Record(k))
    BY <2>1, ReplaceFacts
  <2>3. DOMAIN mem' = Kinds /\ \A j \in Kinds : mem'[j] \in Seq(Record(j))
    BY <2>1, <2>2, ArrayTyped
  <2> QED BY <1>12, <2>3 DEF modified, modify, TypeOK, idle, store, list, form
<1>18. CASE saveModified
  <2>1. kind \in Kinds /\ mem[kind][row] \in Record(kind)
    BY <1>18 DEF saveModified, TypeOK, Fetched, Kinds
  <2>2. /\ DOMAIN db' = Kinds /\ dirty' \subseteq Kinds \X Int
        /\ \A j \in Kinds : db'[j] \subseteq Record(j)
    BY <1>18, <2>1, PutTyped DEF saveModified
  <2> QED BY <1>18, <2>2 DEF saveModified, handled, TypeOK, arrays, list, form
<1>19. ASSUME NEW r \in LogisticsOrder, orderModified(r)
       PROVE  TypeOK'
  <2>1. /\ "order" \in Kinds /\ r \in Record("order")
        /\ row \in 1 .. Len(mem["order"]) /\ mem["order"] \in Seq(Record("order"))
        /\ mem' = [mem EXCEPT !["order"] = [mem["order"] EXCEPT ![row] = r]]
    BY <1>19 DEF orderModified, TypeOK, Kinds, Record
  <2>2. [mem["order"] EXCEPT ![row] = r] \in Seq(Record("order"))
    BY <2>1, ReplaceFacts
  <2>3. DOMAIN mem' = Kinds /\ \A j \in Kinds : mem'[j] \in Seq(Record(j))
    BY <2>1, <2>2, ArrayTyped
  <2>4. /\ DOMAIN db' = Kinds /\ dirty' \subseteq Kinds \X Int
        /\ \A j \in Kinds : db'[j] \subseteq Record(j)
    BY <1>19, <2>1, PutTyped DEF orderModified
  <2> QED BY <1>19, <2>3, <2>4 DEF orderModified, TypeOK, list, form, handler
<1>13. ASSUME NEW o \in LogisticsOrder, orderCreated(o)
       PROVE  TypeOK'
  <2>1. "order" \in Kinds /\ o \in Record("order")
    BY DEF Kinds, Record
  <2>2. /\ mem' = [mem EXCEPT !["order"] = Append(@, o)] /\ saveRecord("order", o)
        /\ checked' \subseteq checked /\ todo' = "nothing" /\ swiped' \in Nat
        /\ UNCHANGED <<fetching, launch, list, form, overlaps>>
    BY <1>13 DEF orderCreated, orderChecked, onOrderForm, idle, handler, TypeOK
  <2> QED BY <2>1, <2>2, AppendTyped
<1>14. CASE Relaunch
  BY <1>14 DEF Relaunch, mainMenu, handled, closeForm, emptyArrays, TypeOK, Kinds, Fetched
<1> QED BY <1>1, <1>2, <1>3, <1>4, <1>5, <1>6, <1>8, <1>9, <1>10, <1>11, <1>12, <1>13, <1>14,
           <1>15, <1>16, <1>17, <1>18, <1>19
        DEF StepKind, Answers, Saves, Opens, Swipes, OrderSwipes, Checks, Edits, OrderEdits,
            Orders

\* Every variable keeps its type, whatever the service answers and whenever.
THEOREM FetchTypes == Spec => []TypeOK
BY InitTyped, NextTyped, PTL DEF Spec

-----------------------------------------------------------------------------
\* Rows that no answer has overtaken

LEMMA InitSettled == Init => SettledRows
BY DEF Init, SettledRows

\* A record appended to an array moves none of its rows.
LEMMA AppendSettled ==
  ASSUME TypeOK, SettledRows, NEW k \in Kinds, NEW r \in Record(k), screen = "form",
         mem' = [mem EXCEPT ![k] = Append(@, r)],
         UNCHANGED <<list, form, overlaps>>
  PROVE  SettledRows'
<1>1. mem[k] \in Seq(Record(k))
  BY DEF TypeOK
<1>2. /\ DOMAIN mem[k] \subseteq DOMAIN Append(mem[k], r)
      /\ \A i \in DOMAIN mem[k] : Append(mem[k], r)[i] = mem[k][i]
  BY <1>1, AppendProperties
<1>3. \A j \in Kinds : mem'[j] = IF j = k THEN Append(mem[k], r) ELSE mem[j]
  BY DEF TypeOK
<1>4. kind \in Kinds
  BY DEF TypeOK
<1> QED BY <1>2, <1>3, <1>4 DEF SettledRows, list, form

\* An edit keeps the row and its id.
LEMMA EditSettled ==
  ASSUME TypeOK, SettledRows, NEW k \in Kinds, NEW r \in Record(k), screen = "form", kind = k,
         row \in DOMAIN mem[k], r.id = mem[k][row].id, mem' = [mem EXCEPT ![k][row] = r],
         UNCHANGED <<list, form, overlaps>>
  PROVE  SettledRows'
<1>1. mem'[k] = [mem[k] EXCEPT ![row] = r]
  BY DEF TypeOK
<1>2. DOMAIN mem'[k] = DOMAIN mem[k] /\ mem'[k][row] = r
  BY <1>1
<1> QED BY <1>2 DEF SettledRows, list, form

LEMMA NextSettled == TypeOK /\ SettledRows /\ [Next]_vars => SettledRows'
<1> SUFFICES ASSUME TypeOK, SettledRows, StepKind
             PROVE  SettledRows'
  BY StepKinds
<1>1. CASE Quiet \/ Saves \/ Checks \/ Swipes \/ deleteSwiped \/ saveModified
  BY <1>1 DEF Quiet, Saves, saveRecords, Checks, checkId, Swipes, commitDelete, deleteSwiped,
              saveModified, SettledRows, arrays, list, form
<1>2. ASSUME NEW k \in Fetched, getAll(k)
      PROVE  SettledRows'
  <2>1. kind # k => mem'[kind] = mem[kind]
    BY <1>2 DEF getAll, TypeOK
  <2> QED BY <1>2, <2>1 DEF getAll, SettledRows, list, form
<1>3. CASE Opens \/ BackToMenu \/ BackToList \/ Relaunch
  BY <1>3 DEF Opens, OpenList, BackToMenu, BackToList, Relaunch, mainMenu, SettledRows, arrays
<1>4. CASE takeSwiped \/ OrderSwipes
  <2>1. kind \in Kinds /\ screen = "list"
    BY <1>4 DEF takeSwiped, OrderSwipes, deleteOrder, TypeOK
  <2>2. /\ filtered' = mem'[kind] \/ UNCHANGED vars
        /\ UNCHANGED <<screen, kind>>
    BY <1>4, <2>1 DEF takeSwiped, OrderSwipes, deleteOrder, TypeOK
  <2> QED BY <2>1, <2>2 DEF SettledRows, vars, list, form, arrays
<1>5. CASE Taps
  BY <1>5 DEF Taps, addTapped, didSelectRow, viewWillAppear, SettledRows, arrays
<1>6. CASE appendChecked
  <2>1. PICK r \in checked : mem' = [mem EXCEPT ![kind] = Append(@, r)]
    BY <1>6 DEF appendChecked
  <2>2. kind \in Kinds /\ r \in Record(kind) /\ screen = "form"
    BY DEF TypeOK, Fetched, Kinds
  <2> QED BY <1>6, <2>1, <2>2, AppendSettled DEF appendChecked
<1>7. ASSUME NEW k \in Fetched, NEW r \in Record(k), modified(k, r)
      PROVE  SettledRows'
  <2>1. /\ mem' = [mem EXCEPT ![k][row] = r] /\ kind = k /\ screen = "form"
        /\ row \in DOMAIN mem[k] /\ r.id = mem[k][row].id
        /\ UNCHANGED <<list, form, overlaps>>
    BY <1>7 DEF modified, modify
  <2> QED BY <2>1, EditSettled DEF Fetched, Kinds
<1>9. ASSUME NEW r \in LogisticsOrder, orderModified(r)
      PROVE  SettledRows'
  <2>1. /\ "order" \in Kinds /\ r \in Record("order")
        /\ mem' = [mem EXCEPT !["order"][row] = r] /\ kind = "order" /\ screen = "form"
        /\ row \in DOMAIN mem["order"] /\ r.id = mem["order"][row].id
        /\ UNCHANGED <<list, form, overlaps>>
    BY <1>9 DEF orderModified, onOrderForm, Kinds, Record
  <2> QED BY <2>1, EditSettled
<1>8. ASSUME NEW o \in LogisticsOrder, orderCreated(o)
      PROVE  SettledRows'
  <2>1. "order" \in Kinds /\ o \in Record("order")
    BY DEF Kinds, Record
  <2> QED BY <1>8, <2>1, AppendSettled DEF orderCreated, orderChecked, onOrderForm
<1> QED BY <1>1, <1>2, <1>3, <1>4, <1>5, <1>6, <1>7, <1>8, <1>9
        DEF StepKind, Answers, Edits, Orders, OrderEdits

\* The rows of a list or a form that no completion has overtaken since it copied
\* the arrays are the rows it shows.
THEOREM SettledRowsAlways == Spec => []SettledRows
BY FetchTypes, InitSettled, NextSettled, PTL DEF Spec

\* remove(at:) takes the id of one row away, whatever the list.
LEMMA RemoveAtOneId ==
  ASSUME NEW k \in Kinds, NEW s \in Seq(Record(k)), NEW i \in 1 .. Len(s)
  PROVE  /\ Ids(Range(RemoveAt(s, i))) \subseteq Ids(Range(s))
         /\ Ids(Range(s)) \ Ids(Range(RemoveAt(s, i))) \subseteq {s[i].id}
<1> DEFINE t == RemoveAt(s, i)
<1>0. /\ t \in Seq(Record(k)) /\ Len(t) = Len(s) - 1
      /\ \A j \in 1 .. Len(s) - 1 : t[j] = IF j < i THEN s[j] ELSE s[j + 1]
  BY RemoveAtFacts
<1> HIDE DEF t
<1>1. /\ DOMAIN t = 1 .. Len(s) - 1 /\ DOMAIN s = 1 .. Len(s) /\ Len(s) \in Nat
      /\ \A j \in 1 .. Len(s) - 1 : t[j] = IF j < i THEN s[j] ELSE s[j + 1]
  BY <1>0
<1>2. Range(t) \subseteq Range(s)
  BY <1>1 DEF Range
<1>3. ASSUME NEW j \in DOMAIN s, j # i
      PROVE  s[j] \in Range(t)
  <2>1. CASE j < i
    BY <1>1, <2>1 DEF Range
  <2>2. CASE j > i
    <3>1. j - 1 \in DOMAIN t /\ t[j - 1] = s[j]
      BY <1>1, <2>2
    <3> QED BY <3>1 DEF Range
  <2> QED BY <1>1, <1>3, <2>1, <2>2
<1>4. Range(s) \ Range(t) \subseteq {s[i]}
  BY <1>3 DEF Range
<1> QED BY <1>2, <1>4 DEF Ids, t

\* Between the check of a swipe and the look-up of what it deletes, the row stays
\* the one that was checked, unless a completion overtakes the list.
SwipeChecked ==
  todo = "delete" /\ "screen" \notin overlaps =>
    swiped \in DOMAIN mem[kind] /\ ~inUse(kind, mem[kind][swiped].id)

LEMMA NextChecked == TypeOK /\ SwipeChecked /\ [Next]_vars => SwipeChecked'
<1> SUFFICES ASSUME TypeOK, SwipeChecked, StepKind, todo' = "delete"
             PROVE  SwipeChecked'
  BY StepKinds DEF SwipeChecked
<1>1. CASE Quiet \/ Saves
  BY <1>1 DEF Quiet, Saves, saveRecords, SwipeChecked, inUse, list, handler
<1>2. ASSUME NEW k \in Fetched, getAll(k)
      PROVE  SwipeChecked'
  <2>1. kind # k => mem'[kind] = mem[kind]
    BY <1>2 DEF getAll, TypeOK
  <2>2. mem'["order"] = mem["order"]
    BY <1>2 DEF getAll, TypeOK, Fetched
  <2> QED BY <1>2, <2>1, <2>2 DEF getAll, SwipeChecked, inUse, list, handler
<1>3. CASE Swipes
  BY <1>3 DEF Swipes, commitDelete, SwipeChecked, inUse, arrays, list
<1>4. CASE \/ Opens \/ BackToMenu \/ Taps \/ OrderSwipes \/ BackToList
           \/ Checks \/ Orders \/ OrderEdits
  BY <1>4 DEF Opens, OpenList, BackToMenu, Taps, addTapped, didSelectRow, viewWillAppear,
              OrderSwipes, deleteOrder, BackToList, Checks, checkId, Orders, orderCreated,
              orderChecked, onOrderForm, OrderEdits, orderModified, idle, handler
<1>5. CASE deleteSwiped \/ takeSwiped \/ appendChecked \/ Edits \/ saveModified \/ Relaunch
  BY <1>5 DEF deleteSwiped, takeSwiped, appendChecked, Edits, modified, modify, saveModified,
              Relaunch, handled
<1> QED BY <1>1, <1>2, <1>3, <1>4, <1>5 DEF StepKind, Answers

\* A step on a list takes at most one id away, and from the file none in use.
LEMMA NextSwiped ==
  TypeOK /\ SettledRows /\ SwipeChecked /\ [Next]_vars =>
    [OnList /\ "screen" \notin overlaps => Swiped]_vars
<1> SUFFICES ASSUME TypeOK, SettledRows, SwipeChecked, StepKind, OnList,
                    "screen" \notin overlaps
             PROVE  Swiped \/ UNCHANGED vars
  BY StepKinds
<1>1. ASSUME NEW S, NEW x, S \subseteq {x}
      PROVE  Cardinality(S) <= 1
  <2>1. IsFiniteSet({x}) /\ Cardinality({x}) = 1
    BY FS_Singleton
  <2> QED BY <1>1, <2>1, FS_Subset
<1>2. \A S : Cardinality(S \ S) <= 1
  BY <1>1
<1>3. CASE UNCHANGED <<mem, db>>
  BY <1>2, <1>3 DEF Swiped
<1>4. CASE Quiet \/ Opens \/ BackToMenu \/ BackToList \/ Taps \/ Checks \/ Swipes
  BY <1>3, <1>4
     DEF Quiet, Opens, OpenList, BackToMenu, BackToList, Taps, addTapped, didSelectRow,
         viewWillAppear, Checks, checkId, Swipes, commitDelete, arrays, store
<1>5. CASE Answers \/ Saves \/ Relaunch
  BY <1>5 DEF Answers, getAll, Saves, saveRecords, Relaunch, mainMenu, OnList, TypeOK, Fetched
<1>6. CASE appendChecked \/ Edits \/ saveModified \/ Orders \/ OrderEdits
  BY <1>6 DEF appendChecked, Edits, modified, modify, saveModified, Orders, orderCreated,
              orderChecked, OrderEdits, orderModified, onOrderForm, OnList, TypeOK
\* An array that loses row i of the list it is shown by.
<1>7. ASSUME NEW i \in 1 .. Len(filtered), kind \in Kinds,
             mem' = [mem EXCEPT ![kind] = RemoveAt(filtered, i)]
      PROVE  \A k \in Kinds :
               /\ Ids(Range(mem'[k])) \subseteq Ids(Range(mem[k]))
               /\ Cardinality(Ids(Range(mem[k])) \ Ids(Range(mem'[k]))) <= 1
  <2>1. filtered = mem[kind] /\ filtered \in Seq(Record(kind))
    BY <1>7 DEF OnList, SettledRows, TypeOK
  <2>2. /\ mem'[kind] = RemoveAt(mem[kind], i)
        /\ \A k \in Kinds : k # kind => mem'[k] = mem[k]
    BY <1>7, <2>1 DEF TypeOK
  <2>3. /\ Ids(Range(mem'[kind])) \subseteq Ids(Range(mem[kind]))
        /\ Ids(Range(mem[kind])) \ Ids(Range(mem'[kind])) \subseteq {mem[kind][i].id}
    BY <1>7, <2>1, <2>2, RemoveAtOneId
  <2>4. Cardinality(Ids(Range(mem[kind])) \ Ids(Range(mem'[kind]))) <= 1
    BY <1>1, <2>3
  <2> QED BY <1>2, <2>2, <2>3, <2>4
<1>8. CASE takeSwiped
  <2>1. kind \in Kinds /\ swiped \in 1 .. Len(filtered) /\ filtered \in Seq(Record(kind))
    BY <1>8 DEF takeSwiped, TypeOK, Fetched, Kinds
  <2>2. mem' = [mem EXCEPT ![kind] = RemoveAt(filtered, swiped)] /\ UNCHANGED db
    BY <1>8 DEF takeSwiped, store
  <2> QED BY <1>7, <2>1, <2>2 DEF Swiped
<1>9. ASSUME NEW i \in DOMAIN filtered, deleteOrder(i)
      PROVE  Swiped
  <2>1. /\ kind = "order" /\ kind \in Kinds /\ i \in 1 .. Len(filtered)
        /\ mem' = [mem EXCEPT ![kind] = RemoveAt(filtered, i)]
    BY <1>9 DEF deleteOrder, TypeOK, Kinds
  <2>2. \A k \in Kinds : k # "order" => db'[k] = db[k]
    BY <1>9 DEF deleteOrder, deleteRecord, write, TypeOK
  <2>3. \A k \in Kinds : \A r \in db[k] \ db'[k] : ~inUse(k, r.id)
    BY <2>2 DEF inUse
  <2> QED BY <1>7, <2>1, <2>3 DEF Swiped
<1>10. CASE deleteSwiped
  <2> DEFINE id == mem[kind][swiped].id
  <2>1. kind \in Kinds /\ ~inUse(kind, id) /\ UNCHANGED mem
    BY <1>10 DEF deleteSwiped, SwipeChecked, TypeOK, Fetched, Kinds, arrays
  <2>2. write(kind, id, Without(db[kind], id)) /\ DOMAIN db = Kinds
    BY <1>10 DEF deleteSwiped, deleteRecord, TypeOK
  <2> HIDE DEF id
  <2>3. \A k \in Kinds : \A r \in db[k] \ db'[k] : k = kind /\ r.id = id
    BY <2>2 DEF write, Without
  <2>4. \A k \in Kinds : \A r \in db[k] \ db'[k] : ~inUse(k, r.id)
    BY <2>1, <2>3
  <2> QED BY <1>2, <2>1, <2>4 DEF Swiped
<1> QED BY <1>4, <1>5, <1>6, <1>8, <1>9, <1>10 DEF StepKind, OrderSwipes

\* In a list no completion has overtaken, a swipe takes one record away, and what
\* it deletes from the file is in no order.
THEOREM SettledSwipesAlways == Spec => SettledSwipeTakesOne
<1>1. Init => SwipeChecked
  BY DEF Init, SwipeChecked
<1>2. TypeOK /\ SettledRows /\ SwipeChecked /\ [Next]_vars =>
        [OnList /\ "screen" \notin overlaps => Swiped]_vars
  BY NextSwiped
<1> QED BY <1>1, <1>2, NextChecked, FetchTypes, SettledRowsAlways, PTL
        DEF Spec, SettledSwipeTakesOne

-----------------------------------------------------------------------------
\* Ids.  As long as no create has been overtaken, the record between its check
\* and its append is still new, and a list on the screen, which a swipe makes
\* the array, repeats no id either.
IdsInduct ==
  "create" \notin overlaps =>
    /\ \A k \in Kinds : UniqueIds(mem[k])
    /\ \A r \in checked : r.id \notin Ids(Range(mem[kind]))
    /\ screen = "list" => UniqueIds(filtered)

\* An array of which one kind is replaced by an array without repeated ids.
LEMMA OneReplaced ==
  ASSUME DOMAIN mem = Kinds, NEW k \in Kinds, NEW s, UniqueIds(s),
         \A j \in Kinds : UniqueIds(mem[j]), mem' = [mem EXCEPT ![k] = s]
  PROVE  \A j \in Kinds : UniqueIds(mem'[j])
BY DEF UniqueIds

\* A new record at the end of an array.
LEMMA AppendUnique ==
  ASSUME TypeOK, NEW k \in Kinds, NEW r \in Record(k), r.id \notin Ids(Range(mem[k])),
         \A j \in Kinds : UniqueIds(mem[j]), mem' = [mem EXCEPT ![k] = Append(@, r)]
  PROVE  \A j \in Kinds : UniqueIds(mem'[j])
<1>1. mem[k] \in Seq(Record(k)) /\ DOMAIN mem = Kinds
  BY DEF TypeOK
<1>2. UniqueIds(mem[k]) /\ \A q \in Range(mem[k]) : q.id # r.id
  BY DEF Ids
<1>3. UniqueIds(Append(mem[k], r))
  BY <1>1, <1>2, AppendFacts
<1>4. mem' = [mem EXCEPT ![k] = Append(mem[k], r)]
  OBVIOUS
<1> QED BY <1>1, <1>3, <1>4, OneReplaced

LEMMA InitIds == Init => IdsInduct
BY DEF Init, IdsInduct, emptyArrays, UniqueIds

LEMMA NextIds == TypeOK /\ IdsInduct /\ [Next]_vars => IdsInduct'
<1> SUFFICES ASSUME TypeOK, IdsInduct, StepKind, "create" \notin overlaps'
             PROVE  IdsInduct'
  BY StepKinds DEF IdsInduct
<1>1. CASE Quiet \/ Saves \/ Swipes \/ deleteSwiped \/ saveModified
  BY <1>1 DEF Quiet, Saves, saveRecords, Swipes, commitDelete, deleteSwiped, saveModified,
              handled, IdsInduct, arrays, list, handler
<1>2. ASSUME NEW k \in Fetched, getAll(k)
      PROVE  IdsInduct'
  <2>1. PICK s \in Served[k] : mem' = [mem EXCEPT ![k] = s]
    BY <1>2 DEF getAll
  <2>2. k \in Kinds /\ UniqueIds(s) /\ DOMAIN mem = Kinds
    BY <2>1, ServiceAssumption DEF Fetched, Kinds, TypeOK
  <2>3. "create" \notin overlaps /\ ~(kind = k /\ checked # {})
    BY <1>2 DEF getAll
  <2>4. \A j \in Kinds : UniqueIds(mem'[j])
    BY <2>1, <2>2, <2>3, OneReplaced DEF IdsInduct
  <2>5. checked # {} => mem'[kind] = mem[kind]
    BY <2>1, <2>3 DEF TypeOK
  <2> QED BY <1>2, <2>3, <2>4, <2>5 DEF getAll, IdsInduct, list, handler
<1>3. CASE Opens \/ BackToMenu \/ BackToList
  <2>1. "create" \notin overlaps /\ checked = {}
    BY <1>3 DEF Opens, OpenList, BackToMenu, BackToList, upToDate, idle
  <2>2. CASE Opens
    BY <2>1, <2>2 DEF Opens, OpenList, IdsInduct, arrays, handler
  <2>3. CASE BackToMenu
    BY <2>1, <2>3 DEF BackToMenu, mainMenu, IdsInduct, arrays, handler
  <2>4. CASE BackToList
    <3>1. kind \in Kinds
      BY <2>4 DEF BackToList, TypeOK
    <3> QED BY <2>1, <2>4, <3>1 DEF BackToList, IdsInduct, arrays, handler
  <2> QED BY <1>3, <2>2, <2>3, <2>4
<1>4. ASSUME NEW i \in 1 .. Len(filtered), kind \in Kinds, screen = "list", checked' = {},
             filtered' = RemoveAt(filtered, i), mem' = [mem EXCEPT ![kind] = filtered'],
             UNCHANGED overlaps
      PROVE  IdsInduct'
  <2>1. /\ filtered \in Seq(Record(kind)) /\ DOMAIN mem = Kinds
        /\ UniqueIds(filtered) /\ \A j \in Kinds : UniqueIds(mem[j])
    BY <1>4 DEF TypeOK, IdsInduct
  <2>2. UniqueIds(RemoveAt(filtered, i))
    BY <2>1, RemoveAtUnique
  <2>3. \A j \in Kinds : UniqueIds(mem'[j])
    BY <1>4, <2>1, <2>2, OneReplaced
  <2> QED BY <1>4, <2>2, <2>3 DEF IdsInduct
<1>11. CASE takeSwiped
  <2>1. kind \in Kinds /\ screen = "list" /\ swiped \in 1 .. Len(filtered)
    BY <1>11 DEF takeSwiped, TypeOK, Fetched, Kinds
  <2> QED BY <1>4, <1>11, <2>1 DEF takeSwiped, handled
<1>12. ASSUME NEW i \in DOMAIN filtered, deleteOrder(i)
       PROVE  IdsInduct'
  <2>1. kind = "order" /\ kind \in Kinds /\ screen = "list" /\ i \in 1 .. Len(filtered)
    BY <1>12 DEF deleteOrder, TypeOK, Kinds
  <2> QED BY <1>4, <1>12, <2>1 DEF deleteOrder, idle, handler
<1>5. CASE Taps
  BY <1>5 DEF Taps, addTapped, didSelectRow, viewWillAppear, IdsInduct, arrays, handler
<1>6. ASSUME NEW k \in Fetched, NEW r \in Record(k), checkId(k, r)
      PROVE  IdsInduct'
  BY <1>6 DEF checkId, IdsInduct, arrays, list
<1>7. CASE appendChecked
  <2>1. PICK r \in checked : mem' = [mem EXCEPT ![kind] = Append(@, r)]
    BY <1>7 DEF appendChecked
  <2>2. kind \in Kinds /\ r \in Record(kind) /\ screen = "form"
    BY DEF TypeOK, Fetched, Kinds
  <2>3. "create" \notin overlaps /\ r.id \notin Ids(Range(mem[kind]))
    BY <1>7 DEF appendChecked, IdsInduct
  <2>4. \A j \in Kinds : UniqueIds(mem'[j])
    BY <2>1, <2>2, <2>3, AppendUnique DEF IdsInduct
  <2> QED BY <1>7, <2>2, <2>4 DEF appendChecked, handled, IdsInduct, list
<1>8. ASSUME NEW k \in Kinds, NEW r \in Record(k), row \in DOMAIN mem[k], r.id = mem[k][row].id,
             mem' = [mem EXCEPT ![k][row] = r], checked = {}, checked' = {}, screen = "form",
             UNCHANGED <<list, overlaps>>
      PROVE  IdsInduct'
  <2>1. /\ row \in 1 .. Len(mem[k]) /\ mem[k] \in Seq(Record(k)) /\ DOMAIN mem = Kinds
        /\ mem' = [mem EXCEPT ![k] = [mem[k] EXCEPT ![row] = r]]
    BY <1>8 DEF TypeOK
  <2>2. UniqueIds(mem[k])
    BY <1>8 DEF IdsInduct
  <2>3. UniqueIds([mem[k] EXCEPT ![row] = r])
    BY <1>8, <2>1, <2>2, ReplaceUnique
  <2>4. \A j \in Kinds : UniqueIds(mem'[j])
    BY <1>8, <2>1, <2>3, OneReplaced DEF IdsInduct
  <2> QED BY <1>8, <2>4 DEF IdsInduct, list
<1>13. ASSUME NEW k \in Fetched, NEW r \in Record(k), modified(k, r)
       PROVE  IdsInduct'
  BY <1>8, <1>13 DEF modified, modify, idle, Fetched, Kinds
<1>14. ASSUME NEW r \in LogisticsOrder, orderModified(r)
       PROVE  IdsInduct'
  <2>1. "order" \in Kinds /\ r \in Record("order")
    BY DEF Kinds, Record
  <2> QED BY <1>8, <1>14, <2>1 DEF orderModified, onOrderForm, idle, handler
<1>9. ASSUME NEW o \in LogisticsOrder, orderCreated(o)
      PROVE  IdsInduct'
  <2>1. "order" \in Kinds /\ o \in Record("order") /\ o.id \notin Ids(Range(mem["order"]))
    BY <1>9 DEF Kinds, Record, orderCreated, orderChecked
  <2>2. \A j \in Kinds : UniqueIds(mem'[j])
    BY <1>9, <2>1, AppendUnique DEF orderCreated, IdsInduct
  <2> QED BY <1>9, <2>2 DEF orderCreated, orderChecked, onOrderForm, idle, IdsInduct, list, handler
<1>10. CASE Relaunch
  BY <1>10 DEF Relaunch, mainMenu, handled, emptyArrays, IdsInduct, UniqueIds
<1> QED BY <1>1, <1>2, <1>3, <1>5, <1>6, <1>7, <1>9, <1>10, <1>11, <1>12, <1>13, <1>14
        DEF StepKind, Answers, OrderSwipes, Checks, Edits, Orders, OrderEdits

\* An id occurs twice only after a completion came between the check and the
\* append of a create.
THEOREM IdsUniqueAlways == Spec => []IdsUniqueUnlessOvertaken
<1>1. IdsInduct => IdsUniqueUnlessOvertaken
  BY DEF IdsInduct, IdsUniqueUnlessOvertaken
<1> QED BY <1>1, FetchTypes, InitIds, NextIds, PTL DEF Spec

-----------------------------------------------------------------------------
\* Orders.  No completion touches them, so their ids never repeat and their list
\* is the array; a write of one order then leaves the others' rows alone.
OrdersInduct ==
  /\ OrdersOnFile
  /\ UniqueIds(mem["order"])
  /\ screen = "list" /\ kind = "order" => filtered = mem["order"]

LEMMA InitOrders == Init => OrdersInduct
BY DEF Init, OrdersInduct, OrdersOnFile, emptyArrays, Kinds, UniqueIds, Range

\* A step about another kind.
LEMMA OthersKeep ==
  ASSUME OrdersInduct, UNCHANGED mem["order"], db'["order"] = db["order"],
         \A id : <<"order", id>> \in dirty => <<"order", id>> \in dirty',
         screen' = "list" /\ kind' = "order" => filtered' = mem["order"]
  PROVE  OrdersInduct'
BY DEF OrdersInduct, OrdersOnFile

\* A write about another kind.
LEMMA OtherWritten ==
  ASSUME TypeOK, NEW k \in Kinds \ {"order"}, NEW id, NEW rows,
         \/ write(k, id, rows)
         \/ UNCHANGED db /\ dirty' = dirty \cup {<<k, id>>}
  PROVE  /\ db'["order"] = db["order"]
         /\ \A n : <<"order", n>> \in dirty => <<"order", n>> \in dirty'
<1>1. "order" \in DOMAIN db /\ k # "order"
  BY DEF TypeOK, Kinds
<1> QED BY <1>1 DEF write

\* A saved or updated order: its row is written, or the failure is recorded.
LEMMA OrderPut ==
  ASSUME TypeOK, NEW r \in LogisticsOrder,
         saveRecord("order", r) \/ updateRecord("order", r)
  PROVE  /\ \A q : q \in db["order"] /\ q.id # r.id => q \in db'["order"]
         /\ \A n : n # r.id /\ <<"order", n>> \in dirty => <<"order", n>> \in dirty'
         /\ <<"order", r.id>> \notin dirty' => r \in db'["order"]
<1>1. "order" \in DOMAIN db
  BY DEF TypeOK, Kinds
<1> DEFINE rows == Without(db["order"], r.id) \cup {r}
<1>2. \/ write("order", r.id, rows)
      \/ UNCHANGED db /\ dirty' = dirty \cup {<<"order", r.id>>}
  BY DEF saveRecord, updateRecord
<1>3. r \in rows /\ \A q : q \in db["order"] /\ q.id # r.id => q \in rows
  BY DEF Without
<1> HIDE DEF rows
<1> QED BY <1>1, <1>2, <1>3 DEF write

LEMMA NextOrders == TypeOK /\ OrdersInduct /\ [Next]_vars => OrdersInduct'
<1> SUFFICES ASSUME TypeOK, OrdersInduct, StepKind
             PROVE  OrdersInduct'
  BY StepKinds
<1>0. /\ "order" \in Kinds /\ "order" \notin Fetched /\ Fetched \subseteq Kinds
      /\ DOMAIN mem = Kinds /\ DOMAIN db = Kinds /\ mem["order"] \in Seq(LogisticsOrder)
  BY DEF Kinds, Fetched, TypeOK, Record
<1>1. CASE \/ Quiet \/ Checks \/ Taps \/ Opens \/ BackToMenu \/ BackToList \/ Swipes
  BY <1>1, OthersKeep
     DEF Quiet, Checks, checkId, Taps, addTapped, didSelectRow, viewWillAppear, Opens,
         OpenList, BackToMenu, mainMenu, BackToList, Swipes, commitDelete, store, arrays, list,
         OrdersInduct
<1>2. CASE Answers
  <2>1. PICK k \in Fetched : getAll(k)
    BY <1>2 DEF Answers
  <2>2. UNCHANGED mem["order"]
    BY <1>0, <2>1 DEF getAll
  <2> QED BY <2>1, <2>2, OthersKeep DEF getAll, store, list, OrdersInduct
<1>3. CASE Saves
  <2>1. PICK k \in Fetched : saveRecords(k)
    BY <1>3 DEF Saves
  <2>2. db'["order"] = db["order"]
    BY <1>0, <2>1 DEF saveRecords
  <2>3. \A id : <<"order", id>> \in dirty => <<"order", id>> \in dirty'
    BY <1>0, <2>1 DEF saveRecords
  <2> QED BY <2>1, <2>2, <2>3, OthersKeep DEF saveRecords, list, OrdersInduct
<1>4. ASSUME NEW i \in DOMAIN filtered, deleteOrder(i)
      PROVE  OrdersInduct'
  <2>1. /\ kind = "order" /\ screen = "list" /\ UNCHANGED <<screen, kind>>
        /\ write("order", mem["order"][i].id, Without(db["order"], mem["order"][i].id))
        /\ filtered' = RemoveAt(filtered, i) /\ mem' = [mem EXCEPT !["order"] = filtered']
    BY <1>4 DEF deleteOrder, deleteRecord
  <2> DEFINE o == mem["order"][i]
  <2>2. filtered = mem["order"] /\ UniqueIds(mem["order"])
    BY <2>1 DEF OrdersInduct
  <2>3. mem'["order"] = RemoveAt(mem["order"], i) /\ i \in 1 .. Len(mem["order"])
    BY <1>0, <2>1, <2>2
  <2>4. UniqueIds(mem'["order"]) /\ Range(mem'["order"]) = Range(mem["order"]) \ {o}
    BY <1>0, <2>2, <2>3, RemoveAtUnique
  <2>5. \A q \in Range(mem'["order"]) : q \in Range(mem["order"]) /\ q.id # o.id
    BY <2>2, <2>3, <2>4 DEF UniqueIds, Range
  <2>6. \A q : q.id # o.id /\ q \in db["order"] => q \in db'["order"]
    BY <1>0, <2>1 DEF write, Without
  <2>7. \A n : n # o.id /\ <<"order", n>> \in dirty => <<"order", n>> \in dirty'
    BY <2>1 DEF write
  <2>8. OrdersOnFile'
    BY <2>5, <2>6, <2>7 DEF OrdersInduct, OrdersOnFile
  <2> QED BY <1>0, <2>1, <2>4, <2>8 DEF OrdersInduct
<1>9. CASE deleteSwiped \/ saveModified
  <2>1. kind \in Kinds \ {"order"}
    BY <1>9, <1>0 DEF deleteSwiped, saveModified, TypeOK
  <2>2. \E id, rows : \/ write(kind, id, rows)
                      \/ UNCHANGED db /\ dirty' = dirty \cup {<<kind, id>>}
    BY <1>9 DEF deleteSwiped, deleteRecord, saveModified, updateRecord
  <2>3. /\ db'["order"] = db["order"]
        /\ \A n : <<"order", n>> \in dirty => <<"order", n>> \in dirty'
    BY <2>1, <2>2, OtherWritten
  <2> QED BY <1>9, <2>1, <2>3, OthersKeep DEF deleteSwiped, saveModified, arrays, list
<1>10. CASE takeSwiped
  <2>1. kind # "order" /\ mem' = [mem EXCEPT ![kind] = filtered'] /\ UNCHANGED <<kind, store>>
    BY <1>10, <1>0 DEF takeSwiped, TypeOK
  <2>2. UNCHANGED mem["order"]
    BY <1>0, <2>1
  <2> QED BY <2>1, <2>2, OthersKeep DEF store
<1>5. CASE appendChecked
  <2>1. PICK r \in checked : mem' = [mem EXCEPT ![kind] = Append(@, r)] /\ saveRecord(kind, r)
    BY <1>5 DEF appendChecked
  <2>2. kind \in Kinds \ {"order"} /\ screen = "form"
    BY <1>0 DEF TypeOK
  <2>3. UNCHANGED mem["order"]
    BY <1>0, <2>1, <2>2
  <2>4. /\ db'["order"] = db["order"]
        /\ \A n : <<"order", n>> \in dirty => <<"order", n>> \in dirty'
    BY <2>1, <2>2, OtherWritten DEF saveRecord
  <2> QED BY <1>5, <2>2, <2>3, <2>4, OthersKeep DEF appendChecked, list
<1>6. ASSUME NEW k \in Fetched, NEW r \in Record(k), modified(k, r)
      PROVE  OrdersInduct'
  <2>1. /\ mem' = [mem EXCEPT ![k][row] = r] /\ screen = "form"
        /\ UNCHANGED <<store, list>>
    BY <1>6 DEF modified, modify
  <2>2. UNCHANGED mem["order"]
    BY <1>0, <2>1
  <2> QED BY <2>1, <2>2, OthersKeep DEF list, store
<1>11. ASSUME NEW r \in LogisticsOrder, orderModified(r)
       PROVE  OrdersInduct'
  <2>1. /\ row \in 1 .. Len(mem["order"]) /\ UniqueIds(mem["order"])
        /\ mem'["order"] = [mem["order"] EXCEPT ![row] = r]
        /\ r.id = mem["order"][row].id /\ updateRecord("order", r)
        /\ screen = "form" /\ UNCHANGED list
    BY <1>0, <1>11 DEF orderModified, onOrderForm, OrdersInduct
  <2>2. /\ UniqueIds(mem'["order"])
        /\ \A q : q \in Range(mem'["order"])
                    <=> (q \in Range(mem["order"]) /\ q.id # r.id) \/ q = r
    BY <1>0, <2>1, ReplaceUnique
  <2>3. OrdersOnFile'
    BY <2>1, <2>2, OrderPut DEF OrdersInduct, OrdersOnFile
  <2> QED BY <2>1, <2>2, <2>3 DEF OrdersInduct, list
<1>7. ASSUME NEW o \in LogisticsOrder, orderCreated(o)
      PROVE  OrdersInduct'
  <2>1. /\ mem'["order"] = Append(mem["order"], o) /\ saveRecord("order", o)
        /\ o.id \notin Ids(Range(mem["order"])) /\ screen = "form" /\ UNCHANGED list
    BY <1>0, <1>7 DEF orderCreated, orderChecked, onOrderForm
  <2>2. \A q \in Range(mem["order"]) : q.id # o.id
    BY <2>1 DEF Ids
  <2>3. UniqueIds(mem'["order"]) /\ Range(mem'["order"]) = Range(mem["order"]) \cup {o}
    BY <1>0, <2>1, <2>2, AppendFacts DEF OrdersInduct
  <2>4. OrdersOnFile'
    BY <2>1, <2>2, <2>3, OrderPut DEF OrdersInduct, OrdersOnFile
  <2> QED BY <2>1, <2>3, <2>4 DEF OrdersInduct, list
<1>8. CASE Relaunch
  BY <1>0, <1>8 DEF Relaunch, mainMenu, emptyArrays, OrdersInduct, OrdersOnFile, UniqueIds, Range
<1> QED BY <1>1, <1>2, <1>3, <1>4, <1>5, <1>6, <1>7, <1>8, <1>9, <1>10, <1>11
        DEF StepKind, Answers, Saves, OrderSwipes, Edits, Orders, OrderEdits

\* The orders in memory are in the file, unless their last write was swallowed.
THEOREM OrdersOnFileAlways == Spec => []OrdersOnFile
<1>1. OrdersInduct => OrdersOnFile
  BY DEF OrdersInduct
<1> QED BY <1>1, FetchTypes, InitOrders, NextOrders, PTL DEF Spec
=============================================================================
