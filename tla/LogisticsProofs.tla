-------------------------- MODULE LogisticsProofs ---------------------------
(***************************************************************************)
(* Theorems about the logistics app, for every set of ids and records and  *)
(* every bound.  Inv1 is inductive by itself; the rest builds on it.       *)
(***************************************************************************)
EXTENDS Logistics, ListProofs

-----------------------------------------------------------------------------
\* Records and order lines

\* An order form's draft is a list of order lines no longer than MaxLines.
LEMMA LinesFacts ==
  ASSUME NEW s
  PROVE  s \in Lines <=> s \in Seq(OrderItem) /\ Len(s) <= MaxLines
<1>1. ASSUME s \in Lines
      PROVE  s \in Seq(OrderItem) /\ Len(s) <= MaxLines
  <2>1. PICK n \in 0 .. MaxLines : s \in [1 .. n -> OrderItem]
    BY <1>1 DEF Lines
  <2> QED BY <2>1, ConstantsAssumption
<1>2. ASSUME s \in Seq(OrderItem), Len(s) <= MaxLines
      PROVE  s \in Lines
  <2>1. Len(s) \in Nat /\ s \in [1 .. Len(s) -> OrderItem]
    BY <1>2
  <2>2. Len(s) \in 0 .. MaxLines
    BY <1>2, <2>1, ConstantsAssumption
  <2> QED BY <2>1, <2>2 DEF Lines
<1> QED BY <1>1, <1>2

LEMMA NoLines == <<>> \in Lines /\ <<>> \in Seq(0 .. MaxQuantity)
<1>1. <<>> \in Seq(OrderItem) /\ Len(<<>>) <= MaxLines
  BY ConstantsAssumption
<1>2. <<>> \in Lines
  BY <1>1, LinesFacts
<1>3. <<>> \in Seq(0 .. MaxQuantity)
  OBVIOUS
<1> QED BY <1>2, <1>3

\* Every record has an integer id.
LEMMA RecordIds == \A k \in Kinds : \A r \in Record(k) : r.id \in Int
BY ConstantsAssumption DEF Kinds, Record, Item, Location, LogisticsOrder

\* A fetch returns the records of the table in some order, or none of them.
LEMMA FetchFacts ==
  ASSUME NEW k \in Kinds, IsFiniteSet(db[k]), \A r \in db[k] : r.id \in Int,
         NEW s \in fetchRecords(k)
  PROVE  /\ s \in Seq(db[k])
         /\ UniqueIds(s)
         /\ Range(s) = db[k] \/ (IOMayFail /\ Range(s) = {})
<1>1. CASE s = <<>> /\ IOMayFail
  BY <1>1 DEF UniqueIds, Range
<1>2. CASE s \in Listings(k)
  BY <1>2, ListingFacts DEF Listings
<1> QED BY <1>1, <1>2, IOAssumption DEF fetchRecords

-----------------------------------------------------------------------------
\* Types and rows.  An array is indexed by rows taken from a list or a form, so
\* its type and the match of the rows are one induction.
TypedRows == TypeOK /\ RowsMatch

\* A write keeps the tables typed.
LEMMA WriteTyped ==
  ASSUME RecordsTyped, NEW k \in Kinds, NEW id \in Int, NEW rows,
         rows \subseteq Record(k), IsFiniteSet(rows), write(k, id, rows)
  PROVE  /\ DOMAIN db' = Kinds /\ dirty' \subseteq Kinds \X Int
         /\ \A j \in Kinds : db'[j] \subseteq Record(j) /\ IsFiniteSet(db'[j])
BY DEF RecordsTyped, write

LEMMA PutTyped ==
  ASSUME RecordsTyped, NEW k \in Kinds, NEW r \in Record(k),
         saveRecord(k, r) \/ updateRecord(k, r)
  PROVE  /\ DOMAIN db' = Kinds /\ dirty' \subseteq Kinds \X Int
         /\ \A j \in Kinds : db'[j] \subseteq Record(j) /\ IsFiniteSet(db'[j])
<1> DEFINE rows == Without(db[k], r.id) \cup {r}
<1>1. rows \subseteq Record(k) /\ r.id \in Int
  BY RecordIds DEF RecordsTyped, Without
<1>2. IsFiniteSet(rows)
  <2>1. IsFiniteSet(Without(db[k], r.id))
    BY FS_Subset DEF RecordsTyped, Without
  <2> QED BY <2>1, FS_AddElement
<1>3. \/ write(k, r.id, rows)
      \/ UNCHANGED db /\ dirty' = dirty \cup {<<k, r.id>>}
  BY DEF saveRecord, updateRecord
<1> HIDE DEF rows
<1>4. CASE write(k, r.id, rows)
  BY <1>1, <1>2, <1>4, WriteTyped
<1>5. CASE UNCHANGED db /\ dirty' = dirty \cup {<<k, r.id>>}
  BY <1>1, <1>5 DEF RecordsTyped
<1> QED BY <1>3, <1>4, <1>5

\* A new record at the end of the array moves no row.
LEMMA CreateTyped ==
  ASSUME TypedRows, NEW k \in Kinds, NEW r \in Record(k), create(k, r)
  PROVE  TypedRows'
<1> USE DEF TypedRows
<1>1. /\ screen = "form" /\ kind = k /\ row = 0
      /\ mem' = [mem EXCEPT ![k] = Append(mem[k], r)]
      /\ saveRecord(k, r)
      /\ UNCHANGED <<list, form>>
  BY DEF create
<1>2. Append(mem[k], r) \in Seq(Record(k))
  BY AppendFacts DEF TypeOK, RecordsTyped
<1>3. /\ DOMAIN mem' = Kinds
      /\ \A j \in Kinds : mem'[j] = IF j = k THEN Append(mem[k], r) ELSE mem[j]
  BY <1>1 DEF TypeOK, RecordsTyped
<1>4. RecordsTyped'
  BY <1>1, <1>2, <1>3, PutTyped DEF TypeOK, RecordsTyped
<1>5. ScreensTyped'
  BY <1>1 DEF TypeOK, ScreensTyped, list, form
<1>6. RowsMatch'
  <2>1. Len(mem'[k]) \in Nat
    BY <1>2, <1>3, LenProperties
  <2>2. k = "order" => mem'["item"] = mem["item"]
    BY <1>3 DEF Kinds
  <2> QED BY <1>1, <2>1, <2>2 DEF RowsMatch, onOrderForm, list, form
<1> QED BY <1>4, <1>5, <1>6 DEF TypeOK

\* A changed record stays in its row.
LEMMA ModifyTyped ==
  ASSUME TypedRows, NEW k \in Kinds, NEW r \in Record(k), modify(k, r)
  PROVE  TypedRows'
<1> USE DEF TypedRows
<1>1. /\ screen = "form" /\ kind = k /\ row > 0
      /\ mem' = [mem EXCEPT ![k][row] = r]
      /\ updateRecord(k, r)
      /\ UNCHANGED <<list, form>>
  BY DEF modify
<1>2. row \in 1 .. Len(mem[k]) /\ mem[k] \in Seq(Record(k))
  BY <1>1 DEF TypeOK, RecordsTyped, ScreensTyped, RowsMatch
<1>3. /\ [mem[k] EXCEPT ![row] = r] \in Seq(Record(k))
      /\ Len([mem[k] EXCEPT ![row] = r]) = Len(mem[k])
  BY <1>2, ReplaceFacts
<1>4. /\ DOMAIN mem' = Kinds
      /\ \A j \in Kinds :
           mem'[j] = IF j = k THEN [mem[k] EXCEPT ![row] = r] ELSE mem[j]
  BY <1>1 DEF TypeOK, RecordsTyped
<1>5. RecordsTyped'
  BY <1>1, <1>3, <1>4, PutTyped DEF TypeOK, RecordsTyped
<1>6. ScreensTyped'
  BY <1>1 DEF TypeOK, ScreensTyped, list, form
<1>7. RowsMatch'
  BY <1>1, <1>3, <1>4 DEF RowsMatch, onOrderForm, list, form, Kinds
<1> QED BY <1>5, <1>6, <1>7 DEF TypeOK

\* A swipe takes the same row out of the list and out of the array.
LEMMA DeleteTyped ==
  ASSUME TypedRows, NEW k \in Kinds, NEW i \in DOMAIN filtered, commitDelete(k, i)
  PROVE  /\ TypedRows'
         /\ i \in 1 .. Len(mem[k])
         /\ mem' = [mem EXCEPT ![k] = RemoveAt(mem[k], i)]
<1> USE DEF TypedRows
<1>1. /\ screen = "list" /\ kind = k /\ ~searching
      /\ deleteRecord(k, mem[k][i].id)
      /\ filtered' = RemoveAt(filtered, i)
      /\ mem' = [mem EXCEPT ![k] = filtered']
      /\ UNCHANGED <<screen, kind, searching, form>>
  BY DEF commitDelete, canEditRowAt
<1>2. filtered = mem[k] /\ mem[k] \in Seq(Record(k)) /\ i \in 1 .. Len(mem[k])
  BY <1>1 DEF TypeOK, RecordsTyped, RowsMatch
<1>3. RemoveAt(mem[k], i) \in Seq(Record(k))
  BY <1>2, RemoveAtFacts
<1>4. /\ DOMAIN mem' = Kinds
      /\ \A j \in Kinds : mem'[j] = IF j = k THEN RemoveAt(mem[k], i) ELSE mem[j]
  BY <1>1, <1>2 DEF TypeOK, RecordsTyped
<1>5. RecordsTyped'
  <2>1. mem[k][i].id \in Int
    BY <1>2, ElementOfSeq, RecordIds
  <2>2. /\ Without(db[k], mem[k][i].id) \subseteq Record(k)
        /\ IsFiniteSet(Without(db[k], mem[k][i].id))
    BY FS_Subset DEF TypeOK, RecordsTyped, Without
  <2> QED BY <1>1, <1>3, <1>4, <2>1, <2>2, WriteTyped
             DEF TypeOK, RecordsTyped, deleteRecord
<1>6. ScreensTyped'
  BY <1>1, <1>2, <1>3 DEF TypeOK, ScreensTyped, form
<1>7. RowsMatch'
  BY <1>1, <1>2, <1>3, <1>4, LenProperties DEF RowsMatch, onOrderForm
<1> QED BY <1>1, <1>2, <1>5, <1>6, <1>7 DEF TypeOK

\* A start reads arrays of the tables' records; nothing else survives.
LEMMA StartTyped ==
  ASSUME RecordsTyped, NEW m \in generateDummyData
  PROVE  /\ DOMAIN m = Kinds
         /\ \A k \in Kinds : /\ m[k] \in Seq(Record(k)) /\ UniqueIds(m[k])
                             /\ Range(m[k]) = db[k] \/ (IOMayFail /\ Range(m[k]) = {})
         /\ Unread(m) \subseteq Kinds \X Int
<1>1. DOMAIN m = Kinds /\ \A k \in Kinds : m[k] \in fetchRecords(k)
  BY DEF generateDummyData
<1>2. \A k \in Kinds : IsFiniteSet(db[k]) /\ \A r \in db[k] : r.id \in Int
  BY RecordIds DEF RecordsTyped
<1>3. \A k \in Kinds : /\ m[k] \in Seq(Record(k)) /\ UniqueIds(m[k])
                       /\ Range(m[k]) = db[k] \/ (IOMayFail /\ Range(m[k]) = {})
  <2>1. ASSUME NEW k \in Kinds
        PROVE  /\ m[k] \in Seq(db[k]) /\ UniqueIds(m[k])
               /\ Range(m[k]) = db[k] \/ (IOMayFail /\ Range(m[k]) = {})
    BY <1>1, <1>2, FetchFacts
  <2>2. \A k \in Kinds : Seq(db[k]) \subseteq Seq(Record(k))
    BY DEF RecordsTyped
  <2> QED BY <2>1, <2>2
<1>4. Unread(m) \subseteq Kinds \X Int
  BY <1>2 DEF Unread, Ids
<1> QED BY <1>1, <1>3, <1>4

\* The main menu comes up with typed arrays.
LEMMA MenuTyped ==
  ASSUME RecordsTyped', mainMenu
  PROVE  TypedRows'
<1>1. ScreensTyped'
  BY NoLines DEF mainMenu, closeForm, ScreensTyped, Kinds
<1>2. RowsMatch'
  BY DEF mainMenu, closeForm, RowsMatch, onOrderForm
<1> QED BY <1>1, <1>2 DEF TypedRows, TypeOK

LEMMA RelaunchTyped ==
  ASSUME TypedRows, Relaunch
  PROVE  TypedRows'
<1>1. /\ mem' \in generateDummyData /\ dirty' = Unread(mem')
      /\ mainMenu /\ UNCHANGED db
  BY DEF Relaunch
<1>2. RecordsTyped'
  BY <1>1, StartTyped DEF TypedRows, TypeOK, RecordsTyped
<1> QED BY <1>1, <1>2, MenuTyped

LEMMA InitTyped == Init => TypedRows
<1> SUFFICES ASSUME Init PROVE TypedRows
  OBVIOUS
<1>1. db = Seed /\ mem \in generateDummyData /\ dirty = Unread(mem)
  BY DEF Init
<1>2. \A k \in Kinds : IsFiniteSet(db[k]) /\ db[k] \subseteq Record(k)
  BY <1>1, SeedAssumption
<1>3. DOMAIN mem = Kinds /\ \A k \in Kinds : mem[k] \in fetchRecords(k)
  BY <1>1 DEF generateDummyData
<1>4. \A k \in Kinds : mem[k] \in Seq(Record(k))
  <2>1. \A k \in Kinds : mem[k] \in Seq(db[k])
    BY <1>2, <1>3, FetchFacts, RecordIds
  <2> QED BY <1>2, <2>1
<1>5. RecordsTyped
  BY <1>1, <1>2, <1>3, <1>4, SeedAssumption, RecordIds DEF RecordsTyped, Unread, Ids
<1>6. ScreensTyped /\ RowsMatch
  BY NoLines DEF Init, ScreensTyped, RowsMatch, onOrderForm, Kinds
<1> QED BY <1>5, <1>6 DEF TypedRows, TypeOK

\* A cell starts from a quantity of the order.
LEMMA CellTyped ==
  ASSUME NEW lines \in Lines, NEW id
  PROVE  freshCell(lines, id) \in 0 .. MaxQuantity
<1>1. CASE Positions(lines, id) = {}
  BY <1>1, ConstantsAssumption DEF freshCell
<1>2. CASE Positions(lines, id) # {}
  <2>1. lines \in Seq(OrderItem) /\ DOMAIN lines = 1 .. Len(lines) /\ Len(lines) \in Nat
    BY LinesFacts
  <2>2. Positions(lines, id) \in SUBSET Nat
    BY <2>1 DEF Positions
  <2>3. PICK n \in Positions(lines, id) : FirstOf(lines, Positions(lines, id)) = lines[n]
    BY <1>2, <2>2, FirstOfFacts
  <2>4. lines[n] \in OrderItem
    BY <2>1, <2>3 DEF Positions
  <2> QED BY <1>2, <2>3, <2>4 DEF freshCell, FirstQuantity, OrderItem
<1> QED BY <1>1, <1>2

\* A form over a row of the list: the row is in the array, and the draft and
\* the cells are those of a saved order.
LEMMA FormTyped ==
  ASSUME TypedRows, NEW i \in Nat, NEW shown, shown \subseteq Int,
         viewWillAppear(i, shown),
         i <= Len(filtered)
  PROVE  TypedRows'
<1> USE DEF TypedRows
<1>1. /\ screen = "list" /\ screen' = "form" /\ row' = i /\ picked' = shown
      /\ draft' = (IF kind = "order" /\ i > 0 THEN mem["order"][i].lines ELSE <<>>)
      /\ cells' = (IF kind = "order"
                     THEN [j \in DOMAIN mem["item"] |->
                             freshCell(draft', mem["item"][j].id)]
                     ELSE <<>>)
      /\ UNCHANGED <<store, mem, kind, filtered, searching>>
  BY DEF viewWillAppear
<1>2. kind \in Kinds /\ mem[kind] \in Seq(Record(kind)) /\ i <= Len(mem[kind])
      /\ mem["item"] \in Seq(Record("item")) /\ filtered \in Seq(Record(kind))
  <2>1. kind \in Kinds /\ mem[kind] \in Seq(Record(kind))
    BY <1>1 DEF TypeOK, ScreensTyped, RecordsTyped
  <2>2. mem["item"] \in Seq(Record("item")) /\ filtered \in Seq(Record(kind))
    BY <2>1 DEF TypeOK, ScreensTyped, RecordsTyped, Kinds
  <2>3. Len(filtered) <= Len(mem[kind]) /\ Len(filtered) \in Nat /\ Len(mem[kind]) \in Nat
    BY <1>1, <2>1, <2>2, LenProperties DEF RowsMatch
  <2> QED BY <2>1, <2>2, <2>3
<1>3. draft' \in Lines
  <2>1. CASE kind = "order" /\ i > 0
    <3>1. mem["order"][i] \in LogisticsOrder
      BY <1>2, <2>1 DEF Record
    <3> QED BY <1>1, <2>1, <3>1 DEF LogisticsOrder
  <2> QED BY <1>1, <2>1, NoLines
<1>4. cells' \in Seq(0 .. MaxQuantity) /\ (kind = "order" => Len(cells') = Len(mem["item"]))
  <2>1. CASE kind = "order"
    <3>1. cells' \in [1 .. Len(mem["item"]) -> 0 .. MaxQuantity]
      BY <1>1, <1>2, <1>3, <2>1, CellTyped
    <3>2. Len(mem["item"]) \in Nat
      BY <1>2, LenProperties
    <3>3. cells' \in Seq(0 .. MaxQuantity) /\ DOMAIN cells' = 1 .. Len(mem["item"])
      BY <3>1, <3>2, SeqDef
    <3> QED BY <3>2, <3>3, LenProperties
  <2> QED BY <1>1, <2>1, NoLines
<1>5. RecordsTyped'
  BY <1>1 DEF TypeOK, RecordsTyped, store
<1>6. ScreensTyped'
  BY <1>1, <1>2, <1>3, <1>4 DEF TypeOK, ScreensTyped
<1>7. RowsMatch'
  BY <1>1, <1>2, <1>4 DEF RowsMatch, onOrderForm
<1> QED BY <1>5, <1>6, <1>7 DEF TypeOK

\* Steps of a list.
LEMMA ListTyped ==
  ASSUME TypedRows, ListStep
  PROVE  TypedRows'
<1> USE DEF TypedRows
<1>1. ASSUME NEW k \in Kinds, OpenList(k)
      PROVE  TypedRows'
  <2>1. RecordsTyped'
    BY <1>1 DEF OpenList, TypeOK, RecordsTyped, store
  <2>2. mem[k] \in Seq(Record(k)) /\ k # "none" /\ Len(mem[k]) \in Nat
    BY <1>1, LenProperties DEF TypeOK, RecordsTyped, Kinds
  <2>3. ScreensTyped'
    BY <1>1, <2>2 DEF OpenList, TypeOK, ScreensTyped, form, Kinds
  <2>4. RowsMatch'
    BY <1>1, <2>2 DEF OpenList, RowsMatch, onOrderForm
  <2> QED BY <2>1, <2>3, <2>4 DEF TypeOK
<1>2. CASE BackToMenu
  <2>1. RecordsTyped' /\ mainMenu
    BY <1>2 DEF BackToMenu, TypeOK, RecordsTyped, store
  <2> QED BY <2>1, MenuTyped
<1>3. CASE updateSearchResults
  <2>1. PICK I \in SUBSET DOMAIN mem[kind] : filtered' \in Sublist(mem[kind], I)
    BY <1>3 DEF updateSearchResults
  <2>2. kind \in Kinds /\ mem[kind] \in Seq(Record(kind))
    BY <1>3 DEF updateSearchResults, TypeOK, ScreensTyped, RecordsTyped
  <2>3. I \in SUBSET (1 .. Len(mem[kind]))
    BY <2>1, <2>2
  <2>4. filtered' \in Seq(Record(kind)) /\ Len(filtered') <= Len(mem[kind])
    BY <2>1, <2>2, <2>3, SublistFacts
  <2>5. RecordsTyped' /\ ScreensTyped'
    BY <1>3, <2>2, <2>4 DEF updateSearchResults, TypeOK, RecordsTyped, ScreensTyped, store, form
  <2>6. RowsMatch'
    BY <1>3, <2>4 DEF updateSearchResults, RowsMatch, onOrderForm
  <2> QED BY <2>5, <2>6 DEF TypeOK
<1>4. CASE searchBarCancelButtonClicked
  <2>1. kind \in Kinds /\ mem[kind] \in Seq(Record(kind)) /\ Len(mem[kind]) \in Nat
    BY <1>4, LenProperties
       DEF searchBarCancelButtonClicked, TypeOK, ScreensTyped, RecordsTyped
  <2>2. RecordsTyped' /\ ScreensTyped'
    BY <1>4, <2>1 DEF searchBarCancelButtonClicked, TypeOK, RecordsTyped, ScreensTyped, store, form
  <2>3. RowsMatch'
    BY <1>4, <2>1 DEF searchBarCancelButtonClicked, RowsMatch, onOrderForm
  <2> QED BY <2>2, <2>3 DEF TypeOK
<1>5. CASE addTapped
  <2>1. screen = "list" /\ viewWillAppear(0, {})
    BY <1>5 DEF addTapped, viewWillAppear
  <2>2. 0 <= Len(filtered)
    BY <2>1, LenProperties DEF TypeOK, ScreensTyped
  <2> QED BY <2>1, <2>2, FormTyped
<1>6. ASSUME NEW i \in DOMAIN filtered,
             didSelectRow(i) \/ deleteItem(i) \/ deleteLocation(i) \/ deleteOrder(i)
      PROVE  TypedRows'
  <2>1. CASE didSelectRow(i)
    <3>1. filtered \in Seq(Record(kind)) /\ kind \in Kinds
      BY <2>1 DEF didSelectRow, viewWillAppear, TypeOK, ScreensTyped
    <3>2. i \in 1 .. Len(filtered) /\ Len(filtered) \in Nat /\ filtered[i].id \in Int
      BY <3>1, LenProperties, RecordIds, ElementOfSeq
    <3> QED BY <2>1, <3>2, FormTyped DEF didSelectRow
  <2>2. CASE deleteItem(i) \/ deleteLocation(i) \/ deleteOrder(i)
    <3>1. PICK k \in Kinds : commitDelete(k, i)
      BY <2>2 DEF deleteItem, deleteLocation, deleteOrder, Kinds
    <3> QED BY <3>1, DeleteTyped
  <2> QED BY <1>6, <2>1, <2>2
<1> QED BY <1>1, <1>2, <1>3, <1>4, <1>5, <1>6 DEF ListStep

\* The form's row is one of the array.
LEMMA RowTyped ==
  ASSUME TypedRows, screen = "form", row > 0
  PROVE  /\ kind \in Kinds
         /\ row \in 1 .. Len(mem[kind])
         /\ mem[kind][row] \in Record(kind)
<1>1. kind \in Kinds /\ mem[kind] \in Seq(Record(kind))
  BY DEF TypedRows, TypeOK, ScreensTyped, RecordsTyped
<1>2. row \in 1 .. Len(mem[kind])
  BY <1>1, LenProperties DEF TypedRows, TypeOK, ScreensTyped, RowsMatch
<1> QED BY <1>1, <1>2, ElementOfSeq

\* Steps of an item's or a location's form.
LEMMA FormStepTyped ==
  ASSUME TypedRows, FormStep
  PROVE  TypedRows'
<1> USE DEF TypedRows
<1>1. CASE BackToList
  <2>1. kind \in Kinds /\ mem[kind] \in Seq(Record(kind)) /\ Len(mem[kind]) \in Nat
    BY <1>1, LenProperties DEF BackToList, TypeOK, ScreensTyped, RecordsTyped
  <2>2. RecordsTyped' /\ ScreensTyped'
    BY <1>1, <2>1, NoLines
       DEF BackToList, closeForm, TypeOK, RecordsTyped, ScreensTyped, store
  <2>3. RowsMatch'
    BY <1>1, <2>1 DEF BackToList, closeForm, RowsMatch, onOrderForm
  <2> QED BY <2>2, <2>3 DEF TypeOK
<1>2. ASSUME NEW id \in ItemIds, NEW v \in Values, createItem(id, v)
      PROVE  TypedRows'
  <2>1. [id |-> id, value |-> v] \in Record("item") /\ "item" \in Kinds
    BY DEF Record, Item, Kinds
  <2> QED BY <1>2, <2>1, CreateTyped DEF createItem
<1>3. ASSUME NEW v \in Values, updateItem(v)
      PROVE  TypedRows'
  <2>1. mem["item"][row] \in Record("item")
    BY <1>3, RowTyped DEF updateItem, modify, Kinds
  <2>2. [mem["item"][row] EXCEPT !.value = v] \in Record("item") /\ "item" \in Kinds
    BY <2>1 DEF Record, Item, Kinds
  <2> QED BY <1>3, <2>2, ModifyTyped DEF updateItem
<1>4. ASSUME NEW id \in LocationIds, NEW p \in Places, createLocation(id, p)
      PROVE  TypedRows'
  <2>1. [id |-> id, place |-> p] \in Record("location") /\ "location" \in Kinds
    BY DEF Record, Location, Kinds
  <2> QED BY <1>4, <2>1, CreateTyped DEF createLocation
<1>5. ASSUME NEW p \in Places, updateLocation(p)
      PROVE  TypedRows'
  <2>1. mem["location"][row] \in Record("location")
    BY <1>5, RowTyped DEF updateLocation, modify, Kinds
  <2>2. [mem["location"][row] EXCEPT !.place = p] \in Record("location")
        /\ "location" \in Kinds
    BY <2>1 DEF Record, Location, Kinds
  <2> QED BY <1>5, <2>2, ModifyTyped DEF updateLocation
<1> QED BY <1>1, <1>2, <1>3, <1>4, <1>5 DEF FormStep

\* A tap leaves a draft of lines, and every other line as it was.
LEMMA TapTyped ==
  ASSUME TypedRows, onOrderForm, NEW j \in DOMAIN cells, NEW q \in 0 .. MaxQuantity,
         setLine(mem["item"][j], q)
  PROVE  /\ draft' \in Lines
         /\ mem["item"][j] \in Item
         /\ \A n \in DOMAIN draft' :
              draft'[n].item = mem["item"][j] \/ \E m \in DOMAIN draft : draft'[n] = draft[m]
         /\ NoEqualLines(draft) => NoEqualLines(draft')
<1> DEFINE item == mem["item"][j]
           I == {n \in DOMAIN draft : draft[n].item # item}
<1>1. draft \in Seq(OrderItem) /\ draft \in Lines
  BY LinesFacts DEF TypedRows, TypeOK, ScreensTyped
<1>2. item \in Item
  <2>1. mem["item"] \in Seq(Item) /\ Len(cells) = Len(mem["item"]) /\ cells \in Seq(0 .. MaxQuantity)
    BY DEF TypedRows, TypeOK, RecordsTyped, ScreensTyped, RowsMatch, Record, Kinds
  <2>2. j \in 1 .. Len(mem["item"])
    BY <2>1
  <2> QED BY <2>1, <2>2
<1>3. PICK kept \in Sublist(draft, I) :
        Len(kept) < MaxLines /\ draft' = Append(kept, [item |-> item, quantity |-> q])
  BY DEF setLine
<1> HIDE DEF item
<1>4. I \in SUBSET (1 .. Len(draft))
  BY <1>1
<1>5. /\ kept \in Seq(OrderItem)
      /\ \A n \in DOMAIN kept : \E i \in I : kept[n] = draft[i]
      /\ \A m, n \in DOMAIN kept : \E i, l \in I :
           kept[m] = draft[i] /\ kept[n] = draft[l] /\ (i = l => m = n)
  <2> HIDE DEF I
  <2> QED BY <1>1, <1>3, <1>4, SublistFacts
<1>6. [item |-> item, quantity |-> q] \in OrderItem
  BY <1>2 DEF OrderItem
<1>7. /\ draft' \in Seq(OrderItem) /\ Len(draft') = Len(kept) + 1
      /\ DOMAIN kept = 1 .. Len(kept) /\ DOMAIN draft' = 1 .. Len(kept) + 1
      /\ Len(kept) \in Nat
      /\ \A n \in DOMAIN kept : draft'[n] = kept[n]
      /\ draft'[Len(kept) + 1] = [item |-> item, quantity |-> q]
  BY <1>3, <1>5, <1>6, AppendProperties, LenProperties
<1>8. draft' \in Lines
  <2>1. Len(draft') <= MaxLines
    BY <1>3, <1>7, ConstantsAssumption
  <2> QED BY <1>7, <2>1, LinesFacts
<1>9. \A n \in DOMAIN draft' :
        draft'[n].item = item \/ \E m \in DOMAIN draft : draft'[n] = draft[m]
  BY <1>5, <1>7
<1>10. ASSUME NoEqualLines(draft), NEW m \in DOMAIN draft', NEW n \in DOMAIN draft',
              draft'[m].item = draft'[n].item
       PROVE  m = n
  <2>1. CASE m \in DOMAIN kept /\ n \in DOMAIN kept
    BY <1>5, <1>7, <1>10, <2>1 DEF NoEqualLines
  <2>2. \A p \in DOMAIN kept : draft'[p].item # item
    BY <1>5, <1>7
  <2>3. draft'[Len(kept) + 1].item = item
    BY <1>7
  <2> QED BY <1>7, <1>10, <2>1, <2>2, <2>3
<1> QED BY <1>2, <1>8, <1>9, <1>10 DEF NoEqualLines, item

\* What the order form saves is an order: the total is of the draft's lines,
\* the dates are in order, and there are lines.
LEMMA NewOrder ==
  ASSUME TypedRows, NEW id \in OrderIds, NEW f \in DOMAIN mem["location"],
         NEW t \in DOMAIN mem["location"], NEW d \in Dates, NEW a \in Dates,
         createOrder(id, f, t, d, a)
  PROVE  \E r \in Record("order") :
           /\ create("order", r)
           /\ r.lines = draft /\ WellPriced(r) /\ WellDated(r)
           /\ r.from \in Range(mem["location"]) /\ r.to \in Range(mem["location"])
<1> DEFINE r == [id |-> id, from |-> mem["location"][f],
                 to |-> mem["location"][t], departure |-> d,
                 arrival |-> a, cost |-> getOrderTotal(draft), lines |-> draft]
<1>1. mem["location"] \in Seq(Location) /\ draft \in Lines
  BY DEF TypedRows, TypeOK, RecordsTyped, ScreensTyped, Record, Kinds
<1>2. mem["location"][f] \in Location /\ mem["location"][t] \in Location
  BY <1>1
<1>3. getOrderTotal(draft) \in Nat
  BY <1>1, TotalAssumption
<1>4. r \in Record("order")
  BY <1>1, <1>2, <1>3 DEF Record, LogisticsOrder
<1>5. create("order", r) /\ d <= a
  BY DEF createOrder
<1>6. mem["location"][f] \in Range(mem["location"]) /\ mem["location"][t] \in Range(mem["location"])
  BY DEF Range
<1> QED BY <1>4, <1>5, <1>6 DEF WellPriced, WellDated

LEMMA ChangedOrder ==
  ASSUME TypedRows, NEW d \in Dates, NEW a \in Dates, updateOrder(d, a)
  PROVE  \E r \in Record("order") :
           /\ modify("order", r)
           /\ r.lines = draft /\ WellPriced(r) /\ WellDated(r)
           /\ r.id = mem["order"][row].id
           /\ r.from = mem["order"][row].from /\ r.to = mem["order"][row].to
<1> DEFINE r == [mem["order"][row] EXCEPT
                   !.departure = d, !.arrival = a,
                   !.cost = getOrderTotal(draft), !.lines = draft]
<1>1. mem["order"][row] \in LogisticsOrder
  BY RowTyped DEF updateOrder, modify, Record
<1>2. draft \in Lines /\ getOrderTotal(draft) \in Nat
  BY TotalAssumption DEF TypedRows, TypeOK, ScreensTyped
<1>3. /\ r.lines = draft /\ r.departure = d /\ r.arrival = a
      /\ r.cost = getOrderTotal(draft) /\ r.id = mem["order"][row].id
      /\ r.from = mem["order"][row].from /\ r.to = mem["order"][row].to
      /\ r \in LogisticsOrder
  BY <1>1, <1>2 DEF LogisticsOrder
<1>4. modify("order", r) /\ d <= a
  BY DEF updateOrder
<1> QED BY <1>3, <1>4 DEF WellPriced, WellDated, Record

\* Steps of the order form.
LEMMA OrderFormTyped ==
  ASSUME TypedRows, OrderFormStep
  PROVE  TypedRows'
<1> USE DEF TypedRows
<1>1. ASSUME NEW j \in DOMAIN cells, NEW q \in 0 .. MaxQuantity,
             onOrderForm, setLine(mem["item"][j], q),
             cells' = [cells EXCEPT ![j] = q],
             UNCHANGED <<store, mem, list, row, picked>>
      PROVE  TypedRows'
  <2>1. cells' \in Seq(0 .. MaxQuantity) /\ Len(cells') = Len(cells)
    <3>1. cells \in Seq(0 .. MaxQuantity) /\ j \in 1 .. Len(cells)
      BY DEF TypeOK, ScreensTyped
    <3> QED BY <1>1, <3>1, ReplaceFacts
  <2>2. draft' \in Lines
    BY <1>1, TapTyped
  <2>3. RecordsTyped' /\ ScreensTyped'
    BY <1>1, <2>1, <2>2 DEF TypeOK, RecordsTyped, ScreensTyped, store, list
  <2>4. RowsMatch'
    BY <1>1, <2>1 DEF RowsMatch, onOrderForm, list
  <2> QED BY <2>3, <2>4 DEF TypeOK
<1>2. ASSUME NEW j \in DOMAIN cells, btnIncreaseTap(j) \/ btnDecreaseTap(j)
      PROVE  TypedRows'
  <2>1. cells[j] \in 0 .. MaxQuantity /\ MaxQuantity \in Nat
    BY ConstantsAssumption DEF TypeOK, ScreensTyped
  <2>2. PICK q \in 0 .. MaxQuantity : cells' = [cells EXCEPT ![j] = q]
    BY <1>2, <2>1 DEF btnIncreaseTap, btnDecreaseTap
  <2>3. cells'[j] = q
    BY <2>2
  <2> QED BY <1>1, <1>2, <2>2, <2>3 DEF btnIncreaseTap, btnDecreaseTap
<1>3. ASSUME NEW i \in DOMAIN cells, NEW j \in DOMAIN cells, cellForRowAt(i, j)
      PROVE  TypedRows'
  <2>1. cells \in Seq(0 .. MaxQuantity) /\ j \in 1 .. Len(cells) /\ cells[i] \in 0 .. MaxQuantity
    <3>1. cells \in Seq(0 .. MaxQuantity)
      BY DEF TypeOK, ScreensTyped
    <3>2. i \in 1 .. Len(cells) /\ j \in 1 .. Len(cells)
      BY <3>1, LenProperties
    <3>3. cells[i] \in 0 .. MaxQuantity
      BY <3>1, <3>2, ElementOfSeq
    <3> QED BY <3>1, <3>2, <3>3
  <2>2. PICK q \in 0 .. MaxQuantity : cells' = [cells EXCEPT ![j] = q]
    <3>1. CASE Positions(draft, mem["item"][j].id) = {}
      BY <1>3, <2>1, <3>1 DEF cellForRowAt
    <3>2. CASE Positions(draft, mem["item"][j].id) # {}
      <4>1. freshCell(draft, mem["item"][j].id) \in 0 .. MaxQuantity
        BY CellTyped DEF TypeOK, ScreensTyped
      <4> QED BY <1>3, <3>2, <4>1 DEF cellForRowAt, freshCell
    <3> QED BY <3>1, <3>2
  <2>3. cells' \in Seq(0 .. MaxQuantity) /\ Len(cells') = Len(cells)
    BY <2>1, <2>2, ReplaceFacts
  <2>4. RecordsTyped' /\ ScreensTyped'
    BY <1>3, <2>3 DEF cellForRowAt, TypeOK, RecordsTyped, ScreensTyped, store, list
  <2>5. RowsMatch'
    BY <1>3, <2>3 DEF cellForRowAt, RowsMatch, onOrderForm, list
  <2> QED BY <2>4, <2>5 DEF TypeOK
<1>4. ASSUME NEW id \in OrderIds, NEW f \in DOMAIN mem["location"],
             NEW t \in DOMAIN mem["location"], NEW d \in Dates, NEW a \in Dates,
             createOrder(id, f, t, d, a)
      PROVE  TypedRows'
  <2>1. PICK r \in Record("order") : create("order", r)
    BY <1>4, NewOrder
  <2> QED BY <2>1, CreateTyped DEF Kinds
<1>5. ASSUME NEW id \in OrderIds, createOrderTraps(id)
      PROVE  TypedRows'
  BY <1>5, RelaunchTyped DEF createOrderTraps
<1>6. ASSUME NEW d \in Dates, NEW a \in Dates, updateOrder(d, a)
      PROVE  TypedRows'
  <2>1. PICK r \in Record("order") : modify("order", r)
    BY <1>6, ChangedOrder
  <2> QED BY <2>1, ModifyTyped DEF Kinds
<1> QED BY <1>2, <1>3, <1>4, <1>5, <1>6 DEF OrderFormStep

LEMMA NextTyped == TypedRows /\ [Next]_vars => TypedRows'
<1> SUFFICES ASSUME TypedRows, [Next]_vars PROVE TypedRows'
  OBVIOUS
<1>1. CASE UNCHANGED vars
  BY <1>1 DEF vars, store, list, form, TypedRows, TypeOK, RecordsTyped, ScreensTyped,
              RowsMatch, onOrderForm
<1> QED BY <1>1, ListTyped, FormStepTyped, OrderFormTyped, RelaunchTyped DEF Next

\* Every variable keeps its type, and no list or form holds a row number that
\* is out of the array's range, whatever the user opens, deletes or searches.
THEOREM TypesAndRows == Spec => [](TypeOK /\ RowsMatch)
<1>1. TypedRows <=> TypeOK /\ RowsMatch
  BY DEF TypedRows
<1> QED BY <1>1, InitTyped, NextTyped, PTL DEF Spec

\* Every variable of the app keeps its type, through every trap and restart.
THEOREM TypesAlways == Spec => []TypeOK
BY TypesAndRows, PTL

-----------------------------------------------------------------------------
\* No id occurs twice, and the form is about the record that was clicked

\* What the steps do to the arrays: nothing, while a form is open, opened or
\* not on the screen; one of three changes of one array; or they read them back.
QuietStep ==
  /\ UNCHANGED <<store, mem>>
  /\ \/ UNCHANGED <<screen, kind, searching, row, picked>>
     \/ screen' # "form"
     \/ addTapped
     \/ \E i \in DOMAIN filtered : didSelectRow(i)

\* An order of the form: its lines are the draft, its total theirs.
OfForm(r) == r.lines = draft /\ WellPriced(r) /\ WellDated(r)
Created(k, r) ==
  /\ create(k, r)
  /\ k = "order" =>
       /\ OfForm(r)
       /\ r.from \in Range(mem["location"]) /\ r.to \in Range(mem["location"])
Modified(k, r) ==
  /\ r.id = mem[k][row].id /\ modify(k, r)
  /\ k = "order" =>
       OfForm(r) /\ r.from = mem[k][row].from /\ r.to = mem[k][row].to
Deleted(k, i) ==
  /\ commitDelete(k, i)
  /\ \A o \in Range(mem["order"]) :
       /\ k = "item" => \A n \in DOMAIN o.lines : o.lines[n].item.id # mem[k][i].id
       /\ k = "location" => mem[k][i].id \notin {o.from.id, o.to.id}

CreateStep == \E k \in Kinds : \E r \in Record(k) : Created(k, r)
ModifyStep == \E k \in Kinds : \E r \in Record(k) : Modified(k, r)
DeleteStep == \E k \in Kinds : \E i \in DOMAIN filtered : Deleted(k, i)
ArraysStep == QuietStep \/ CreateStep \/ ModifyStep \/ DeleteStep \/ Relaunch

LEMMA NextArrays ==
  ASSUME TypedRows, [Next]_vars
  PROVE  ArraysStep
<1>1. CASE UNCHANGED vars
  BY <1>1 DEF ArraysStep, QuietStep, vars, list, form
<1>2. CASE ListStep
  <2>1. CASE \/ \E k \in Kinds : OpenList(k)
             \/ BackToMenu \/ updateSearchResults \/ searchBarCancelButtonClicked
    BY <2>1 DEF OpenList, BackToMenu, mainMenu, updateSearchResults,
                searchBarCancelButtonClicked, ArraysStep, QuietStep
  <2>2. CASE addTapped
    BY <2>2 DEF addTapped, viewWillAppear, ArraysStep, QuietStep
  <2>3. ASSUME NEW i \in DOMAIN filtered, didSelectRow(i)
        PROVE  ArraysStep
    BY <2>3 DEF didSelectRow, viewWillAppear, ArraysStep, QuietStep
  <2>4. ASSUME NEW i \in DOMAIN filtered,
               deleteItem(i) \/ deleteLocation(i) \/ deleteOrder(i)
        PROVE  ArraysStep
    BY <2>4 DEF deleteItem, deleteLocation, deleteOrder, ArraysStep, DeleteStep,
                Deleted, Kinds
  <2> QED BY <1>2, <2>1, <2>2, <2>3, <2>4 DEF ListStep
<1>3. CASE FormStep
  <2>1. CASE BackToList
    BY <2>1 DEF BackToList, ArraysStep, QuietStep
  <2>2. ASSUME NEW id \in ItemIds, NEW v \in Values, createItem(id, v)
        PROVE  ArraysStep
    BY <2>2 DEF createItem, ArraysStep, CreateStep, Created, Record, Item, Kinds
  <2>3. ASSUME NEW v \in Values, updateItem(v)
        PROVE  ArraysStep
    <3>1. mem["item"][row] \in Item
      BY <2>3, RowTyped DEF updateItem, modify, Record
    <3>2. /\ [mem["item"][row] EXCEPT !.value = v] \in Record("item")
          /\ [mem["item"][row] EXCEPT !.value = v].id = mem["item"][row].id
      BY <3>1 DEF Item, Record
    <3> QED BY <2>3, <3>2 DEF updateItem, ArraysStep, ModifyStep, Modified, Kinds
  <2>4. ASSUME NEW id \in LocationIds, NEW p \in Places, createLocation(id, p)
        PROVE  ArraysStep
    BY <2>4 DEF createLocation, ArraysStep, CreateStep, Created, Record, Location, Kinds
  <2>5. ASSUME NEW p \in Places, updateLocation(p)
        PROVE  ArraysStep
    <3>1. mem["location"][row] \in Location
      BY <2>5, RowTyped DEF updateLocation, modify, Record
    <3>2. /\ [mem["location"][row] EXCEPT !.place = p] \in Record("location")
          /\ [mem["location"][row] EXCEPT !.place = p].id = mem["location"][row].id
      BY <3>1 DEF Location, Record
    <3> QED BY <2>5, <3>2 DEF updateLocation, ArraysStep, ModifyStep, Modified, Kinds
  <2> QED BY <1>3, <2>1, <2>2, <2>3, <2>4, <2>5 DEF FormStep
<1>4. CASE OrderFormStep
  <2>1. ASSUME NEW j \in DOMAIN cells,
               \/ btnIncreaseTap(j) \/ btnDecreaseTap(j)
               \/ \E i \in DOMAIN cells : cellForRowAt(i, j)
        PROVE  ArraysStep
    BY <2>1 DEF btnIncreaseTap, btnDecreaseTap, cellForRowAt, ArraysStep, QuietStep, list
  <2>2. ASSUME NEW id \in OrderIds, NEW f \in DOMAIN mem["location"],
               NEW t \in DOMAIN mem["location"], NEW d \in Dates, NEW a \in Dates,
               createOrder(id, f, t, d, a)
        PROVE  ArraysStep
    BY <2>2, NewOrder DEF ArraysStep, CreateStep, Created, OfForm, Kinds
  <2>3. ASSUME NEW id \in OrderIds, createOrderTraps(id)
        PROVE  ArraysStep
    BY <2>3 DEF createOrderTraps, ArraysStep
  <2>4. ASSUME NEW d \in Dates, NEW a \in Dates, updateOrder(d, a)
        PROVE  ArraysStep
    BY <2>4, ChangedOrder DEF ArraysStep, ModifyStep, Modified, OfForm, Kinds
  <2> QED BY <1>4, <2>1, <2>2, <2>3, <2>4 DEF OrderFormStep
<1> QED BY <1>1, <1>2, <1>3, <1>4 DEF Next, ArraysStep

\* How a step that changes one array changes what it holds.
LEMMA CreateView ==
  ASSUME TypedRows, IdsUnique, NEW k \in Kinds, NEW r \in Record(k), create(k, r)
  PROVE  /\ IdsUnique'
         /\ DOMAIN mem' = Kinds
         /\ \A j \in Kinds : Range(mem'[j]) =
              IF j = k THEN Range(mem[k]) \cup {r} ELSE Range(mem[j])
<1>1. /\ mem' = [mem EXCEPT ![k] = Append(mem[k], r)]
      /\ DOMAIN mem = Kinds /\ mem[k] \in Seq(Record(k))
      /\ r.id \notin Ids(Range(mem[k]))
  BY DEF create, TypedRows, TypeOK, RecordsTyped
<1>2. /\ Range(Append(mem[k], r)) = Range(mem[k]) \cup {r}
      /\ UniqueIds(Append(mem[k], r))
  BY <1>1, AppendFacts DEF IdsUnique, Ids
<1> QED BY <1>1, <1>2 DEF IdsUnique

LEMMA ModifyView ==
  ASSUME TypedRows, IdsUnique, FormShowsPicked, NEW k \in Kinds, NEW r \in Record(k),
         r.id = mem[k][row].id, modify(k, r)
  PROVE  /\ IdsUnique'
         /\ DOMAIN mem' = Kinds /\ mem[k][row] \in Range(mem[k])
         /\ \A j \in Kinds : Range(mem'[j]) =
              IF j = k THEN Without(Range(mem[k]), r.id) \cup {r} ELSE Range(mem[j])
         /\ FormShowsPicked'
<1>1. /\ screen = "form" /\ kind = k /\ row > 0
      /\ mem' = [mem EXCEPT ![k][row] = r] /\ UNCHANGED <<list, form>>
      /\ DOMAIN mem = Kinds /\ mem[k] \in Seq(Record(k))
      /\ row \in 1 .. Len(mem[k])
  BY RowTyped DEF modify, TypedRows, TypeOK, RecordsTyped
<1>2. /\ UniqueIds([mem[k] EXCEPT ![row] = r])
      /\ Range([mem[k] EXCEPT ![row] = r]) = Without(Range(mem[k]), r.id) \cup {r}
  <2> DEFINE s == mem[k]
  <2>1. s \in Seq(Record(k)) /\ row \in 1 .. Len(s) /\ r \in Record(k)
    BY <1>1
  <2>2. UniqueIds(s) /\ r.id = s[row].id
    BY DEF IdsUnique
  <2> HIDE DEF s
  <2>3. UniqueIds([s EXCEPT ![row] = r])
    BY <2>1, <2>2, ReplaceUnique
  <2>4. \A q : q \in Range([s EXCEPT ![row] = r])
                <=> (q \in Range(s) /\ q.id # r.id) \/ q = r
    BY <2>1, <2>2, ReplaceUnique
  <2>5. Range([s EXCEPT ![row] = r]) = Without(Range(s), r.id) \cup {r}
    BY <2>4 DEF Without
  <2> QED BY <2>3, <2>5 DEF s
<1>3. /\ DOMAIN mem' = Kinds
      /\ \A j \in Kinds :
           mem'[j] = IF j = k THEN [mem[k] EXCEPT ![row] = r] ELSE mem[j]
  BY <1>1
<1>4. mem'[k][row] = r /\ mem[k][row] \in Range(mem[k])
  BY <1>1, <1>3 DEF Range
<1> QED BY <1>1, <1>2, <1>3, <1>4 DEF IdsUnique, FormShowsPicked, list, form

LEMMA DeleteView ==
  ASSUME TypedRows, IdsUnique, NEW k \in Kinds, NEW i \in DOMAIN filtered,
         commitDelete(k, i)
  PROVE  /\ IdsUnique'
         /\ DOMAIN mem' = Kinds
         /\ mem[k][i] \in Range(mem[k]) /\ mem[k][i] \in Record(k)
         /\ \A j \in Kinds : Range(mem'[j]) =
              IF j = k THEN Range(mem[k]) \ {mem[k][i]} ELSE Range(mem[j])
<1>1. /\ mem' = [mem EXCEPT ![k] = RemoveAt(mem[k], i)] /\ i \in 1 .. Len(mem[k])
      /\ DOMAIN mem = Kinds /\ mem[k] \in Seq(Record(k))
  BY DeleteTyped DEF TypedRows, TypeOK, RecordsTyped
<1>2. /\ UniqueIds(RemoveAt(mem[k], i))
      /\ Range(RemoveAt(mem[k], i)) = Range(mem[k]) \ {mem[k][i]}
  BY <1>1, RemoveAtUnique DEF IdsUnique
<1>3. mem[k][i] \in Range(mem[k]) /\ mem[k][i] \in Record(k)
  BY <1>1 DEF Range
<1> QED BY <1>1, <1>2, <1>3 DEF IdsUnique

LEMMA RelaunchView ==
  ASSUME TypedRows, Relaunch
  PROVE  /\ IdsUnique'
         /\ DOMAIN mem' = Kinds
         /\ \A k \in Kinds :
              Range(mem'[k]) = db[k] \/ (IOMayFail /\ Range(mem'[k]) = {})
         /\ db' = db /\ dirty' = Unread(mem')
BY StartTyped DEF Relaunch, TypedRows, TypeOK, IdsUnique

\* The ids and the form, by one induction.
KeyedRows == TypedRows /\ IdsUnique /\ FormShowsPicked

LEMMA InitKeyed == Init => KeyedRows
<1> SUFFICES ASSUME Init PROVE KeyedRows
  OBVIOUS
<1>1. TypedRows
  BY InitTyped
<1>2. mem \in generateDummyData /\ screen = "menu"
  BY DEF Init
<1>3. IdsUnique
  BY <1>1, <1>2, StartTyped DEF TypedRows, TypeOK, IdsUnique
<1> QED BY <1>1, <1>2, <1>3 DEF KeyedRows, FormShowsPicked

LEMMA NextKeyed == KeyedRows /\ [Next]_vars => KeyedRows'
<1> SUFFICES ASSUME KeyedRows, [Next]_vars PROVE IdsUnique' /\ FormShowsPicked'
  BY NextTyped DEF KeyedRows
<1> USE DEF KeyedRows
<1>1. ArraysStep
  BY NextArrays
<1>2. CASE QuietStep
  <2>1. IdsUnique'
    BY <1>2 DEF QuietStep, IdsUnique
  <2>2. CASE \E i \in DOMAIN filtered : didSelectRow(i)
    <3>1. PICK i \in DOMAIN filtered : didSelectRow(i)
      BY <2>2
    <3>2. /\ screen = "list" /\ row' = i /\ picked' = {filtered[i].id}
          /\ UNCHANGED <<mem, kind, searching>>
      BY <3>1 DEF didSelectRow, viewWillAppear
    <3>3. ~searching => filtered = mem[kind]
      BY <3>2 DEF TypedRows, RowsMatch
    <3> QED BY <2>1, <3>2, <3>3 DEF FormShowsPicked
  <2>3. CASE addTapped
    BY <2>1, <2>3 DEF addTapped, viewWillAppear, FormShowsPicked
  <2> QED BY <1>2, <2>1, <2>2, <2>3 DEF QuietStep, FormShowsPicked
<1>3. CASE CreateStep
  <2>0. PICK k \in Kinds : \E r \in Record(k) : create(k, r)
    BY <1>3 DEF CreateStep, Created
  <2>1. PICK r \in Record(k) : create(k, r)
    BY <2>0
  <2>2. row' = 0
    BY <2>1 DEF create, form
  <2>3. FormShowsPicked'
    BY <2>2 DEF FormShowsPicked
  <2> QED BY <2>1, <2>3, CreateView
<1>4. CASE ModifyStep
  <2>0. PICK k \in Kinds : \E r \in Record(k) : r.id = mem[k][row].id /\ modify(k, r)
    BY <1>4 DEF ModifyStep, Modified
  <2>1. PICK r \in Record(k) : r.id = mem[k][row].id /\ modify(k, r)
    BY <2>0
  <2> QED BY <2>1, ModifyView
<1>5. CASE DeleteStep
  <2>1. PICK k \in Kinds, i \in DOMAIN filtered : commitDelete(k, i)
    BY <1>5 DEF DeleteStep, Deleted
  <2>2. screen' = "list"
    BY <2>1 DEF commitDelete, canEditRowAt
  <2> QED BY <2>1, <2>2, DeleteView DEF FormShowsPicked
<1>6. CASE Relaunch
  <2>1. screen' = "menu"
    BY <1>6 DEF Relaunch, mainMenu
  <2> QED BY <1>6, <2>1, RelaunchView DEF FormShowsPicked
<1> QED BY <1>1, <1>2, <1>3, <1>4, <1>5, <1>6 DEF ArraysStep

\* The check for an id against the array that is appended to is enough: no two
\* records of a kind share an id.
THEOREM UniqueIdsAlways == Spec => []IdsUnique
<1>1. KeyedRows => IdsUnique
  BY DEF KeyedRows
<1> QED BY <1>1, InitKeyed, NextKeyed, PTL DEF Spec

\* As long as no search is on, the record a form edits is the one whose cell
\* was clicked, whatever was created, deleted or edited before.
THEOREM FormShowsPickedAlways == Spec => []FormShowsPicked
<1>1. KeyedRows => FormShowsPicked
  BY DEF KeyedRows
<1> QED BY <1>1, InitKeyed, NextKeyed, PTL DEF Spec

-----------------------------------------------------------------------------
(* Durability of the write-through store W, whose records and view are those *)
(* of the app: nothing but the steps of WriteThrough is used.               *)

\* Between a start and the first change the user sees what the file holds,
\* except for the tables whose read failed, which are all dirty.
LEMMA ReadsDurable ==
  ASSUME DOMAIN db = W!Kinds,
         \A k \in W!Kinds : db[k] \subseteq Stored[k] /\ W!Keyed(db[k]),
         NEW v \in W!Reads
  PROVE  /\ DOMAIN v = W!Kinds
         /\ \A k \in W!Kinds : v[k] \subseteq Stored[k] /\ W!Keyed(v[k])
         /\ \A k \in W!Kinds : \A r \in db[k] \cup v[k] :
              <<k, r.id>> \notin W!Missed(v) => r \in db[k] /\ r \in v[k]
<1>1. /\ DOMAIN v = W!Kinds
      /\ \A k \in W!Kinds : v[k] = db[k] \/ v[k] = {}
  BY DEF W!Reads
<1>2. ASSUME NEW k \in W!Kinds, NEW r \in db[k] \cup v[k], <<k, r.id>> \notin W!Missed(v)
      PROVE  r \in db[k] /\ r \in v[k]
  <2>1. CASE v[k] = db[k]
    BY <1>2, <2>1
  <2>2. CASE v[k] = {}
    <3>1. r \in db[k] /\ r.id \in W!Ids(db[k]) /\ r.id \notin W!Ids(v[k])
      BY <2>2 DEF W!Ids
    <3>2. <<k, r.id>> \in W!Missed(v)
      BY <3>1 DEF W!Missed
    <3> QED BY <3>2, <1>2
  <2> QED BY <1>1, <2>1, <2>2
<1> QED BY <1>1, <1>2 DEF W!Keyed

\* The invariant holds at the start, and every change and every restart keeps it.
LEMMA WInvInit == W!WInit => W!WInv
BY ReadsDurable DEF W!WInit, W!WInv, W!Durable, W!Keyed

\* A write about <<k, r.id>> is visible on both sides, or leaves the key dirty.
LEMMA WInvPut ==
  ASSUME W!WInv, NEW k \in W!Kinds, NEW r \in Stored[k],
         W!Insert(k, r) \/ W!Change(k, r)
  PROVE  W!WInv'
<1> USE DEF W!WInv, W!Durable
<1>1. /\ W!Seen(k, W!Without(Shown[k], r.id) \cup {r})
      /\ \/ /\ db' = [db EXCEPT ![k] = W!Without(db[k], r.id) \cup {r}]
            /\ dirty' = dirty \ {<<k, r.id>>}
         \/ db' = db /\ dirty' = dirty \cup {<<k, r.id>>}
  <2>1. CASE W!Insert(k, r)
    <3>1. Shown[k] = W!Without(Shown[k], r.id)
      BY <2>1 DEF W!Insert, W!Without, W!Ids
    <3> QED BY <2>1, <3>1 DEF W!Insert, W!saveRecord, W!write
  <2>2. CASE W!Change(k, r)
    BY <2>2 DEF W!Change, W!updateRecord, W!write
  <2> QED BY <2>1, <2>2
<1>2. PICK rows : rows = W!Without(Shown[k], r.id) \cup {r} /\ Shown' = [Shown EXCEPT ![k] = rows]
  BY <1>1 DEF W!Seen
<1>3. /\ DOMAIN db' = W!Kinds /\ DOMAIN Shown' = W!Kinds
      /\ \A j \in W!Kinds : /\ db'[j] \subseteq Stored[j] /\ W!Keyed(db'[j])
                          /\ Shown'[j] \subseteq Stored[j] /\ W!Keyed(Shown'[j])
  BY <1>1, <1>2 DEF W!Without, W!Keyed
<1>4. ASSUME NEW j \in W!Kinds, NEW q \in db'[j] \cup Shown'[j], <<j, q.id>> \notin dirty'
      PROVE  q \in db'[j] /\ q \in Shown'[j]
  <2>1. CASE j # k
    BY <1>1, <1>2, <1>4, <2>1
  <2>2. CASE j = k /\ q.id = r.id
    BY <1>1, <1>2, <1>4, <2>2 DEF W!Without
  <2>3. CASE j = k /\ q.id # r.id
    BY <1>1, <1>2, <1>4, <2>3 DEF W!Without
  <2> QED BY <2>1, <2>2, <2>3
<1> QED BY <1>3, <1>4

LEMMA WInvRemove ==
  ASSUME W!WInv, NEW k \in W!Kinds, NEW r \in Stored[k], W!Remove(k, r)
  PROVE  W!WInv'
<1> USE DEF W!WInv, W!Durable
<1>1. /\ Shown' = [Shown EXCEPT ![k] = Shown[k] \ {r}]
      /\ \/ /\ db' = [db EXCEPT ![k] = W!Without(db[k], r.id)]
            /\ dirty' = dirty \ {<<k, r.id>>}
         \/ db' = db /\ dirty' = dirty \cup {<<k, r.id>>}
  BY DEF W!Remove, W!Seen, W!deleteRecord, W!write
<1>2. r \in Shown[k]
  BY DEF W!Remove
<1>3. /\ DOMAIN db' = W!Kinds /\ DOMAIN Shown' = W!Kinds
      /\ \A j \in W!Kinds : /\ db'[j] \subseteq Stored[j] /\ W!Keyed(db'[j])
                          /\ Shown'[j] \subseteq Stored[j] /\ W!Keyed(Shown'[j])
  BY <1>1 DEF W!Without, W!Keyed
<1>4. ASSUME NEW j \in W!Kinds, NEW q \in db'[j] \cup Shown'[j], <<j, q.id>> \notin dirty'
      PROVE  q \in db'[j] /\ q \in Shown'[j]
  <2>1. CASE j # k
    BY <1>1, <1>4, <2>1
  <2>2. CASE j = k /\ q.id = r.id
    BY <1>1, <1>2, <1>4, <2>2 DEF W!Without, W!Keyed
  <2>3. CASE j = k /\ q.id # r.id
    BY <1>1, <1>4, <2>3 DEF W!Without
  <2> QED BY <2>1, <2>2, <2>3
<1> QED BY <1>3, <1>4

LEMMA WInvNext == W!WInv /\ [W!WNext]_(W!wvars) => W!WInv'
<1> SUFFICES ASSUME W!WInv, [W!WNext]_(W!wvars) PROVE W!WInv'
  OBVIOUS
<1>1. CASE UNCHANGED W!wvars
  BY <1>1 DEF W!wvars, W!WInv, W!Durable
<1>2. CASE W!Restart
  <2>1. /\ Shown' \in W!Reads /\ dirty' = W!Missed(Shown') /\ db' = db
    BY <1>2 DEF W!Restart
  <2> QED BY <2>1, ReadsDurable DEF W!WInv, W!Durable
<1> QED BY <1>1, <1>2, WInvPut, WInvRemove DEF W!WNext

\* For every set of records: a write that was not swallowed is durable.
THEOREM WriteThroughDurable == W!WSpec => []W!Durable
<1>1. W!WInv => W!Durable
  BY DEF W!WInv
<1> QED BY <1>1, WInvInit, WInvNext, PTL DEF W!WSpec

-----------------------------------------------------------------------------
\* The app implements the write-through store
\* The abstract store is about the same kinds of records and the same ids.
LEMMA SameKinds == W!Kinds = Kinds
BY DEF W!Kinds, Kinds

LEMMA SameIds ==
  ASSUME NEW rows
  PROVE  W!Ids(rows) = Ids(rows)
BY DEF W!Ids, Ids

LEMMA StartReads ==
  ASSUME RecordsTyped, NEW m \in generateDummyData
  PROVE  /\ [k \in Kinds |-> Range(m[k])] \in W!Reads
         /\ Unread(m) = W!Missed([k \in Kinds |-> Range(m[k])])
<1>1. \A k \in Kinds : Range(m[k]) = db[k] \/ (IOMayFail /\ Range(m[k]) = {})
  BY StartTyped
<1>2. [k \in Kinds |-> Range(m[k])] \in W!Reads
  BY <1>1, SameKinds DEF W!Reads
<1>3. Unread(m) = W!Missed([k \in Kinds |-> Range(m[k])])
  <2> DEFINE v == [k \in Kinds |-> Range(m[k])]
  <2>1. \A key \in UNION {{<<k, id>> : id \in Ids(db[k])} : k \in Kinds} :
          key[1] \in Kinds /\ v[key[1]] = Range(m[key[1]])
    OBVIOUS
  <2>2. W!Missed(v) = {key \in UNION {{<<k, id>> : id \in Ids(db[k])} : k \in Kinds} :
                         key[2] \notin Ids(v[key[1]])}
    BY DEF W!Missed, W!Ids, Ids, W!Kinds, Kinds
  <2> QED BY <2>1, <2>2 DEF Unread
<1> QED BY <1>2, <1>3

LEMMA RefineInit == Init => W!WInit
<1> SUFFICES ASSUME Init PROVE W!WInit
  OBVIOUS
<1>1. RecordsTyped
  BY InitTyped DEF TypedRows, TypeOK
<1>2. mem \in generateDummyData /\ dirty = Unread(mem) /\ db = Seed
  BY DEF Init
<1>3. Shown \in W!Reads /\ dirty = W!Missed(Shown)
  BY <1>1, <1>2, StartReads DEF Shown
<1>4. \A k \in Kinds : db[k] \subseteq Stored[k]
  BY <1>1 DEF RecordsTyped, Stored
<1> QED BY <1>2, <1>3, <1>4, SeedAssumption, SameKinds DEF W!WInit

LEMMA RefineStep == KeyedRows /\ [Next]_vars => [W!WNext]_W!wvars
<1> SUFFICES ASSUME KeyedRows, [Next]_vars PROVE [W!WNext]_W!wvars
  OBVIOUS
<1> USE DEF KeyedRows
<1>1. ArraysStep
  BY NextArrays
<1>2. CASE QuietStep
  BY <1>2 DEF QuietStep, W!wvars, Shown, store
<1>3. CASE CreateStep
  <2>0. PICK k \in Kinds : \E r \in Record(k) : create(k, r)
    BY <1>3 DEF CreateStep, Created
  <2>1. PICK r \in Record(k) : create(k, r)
    BY <2>0
  <2>2. Shown' = [Shown EXCEPT ![k] = Shown[k] \cup {r}]
    BY <2>1, CreateView DEF Shown
  <2>3. r.id \notin Ids(Shown[k]) /\ saveRecord(k, r)
    BY <2>1 DEF create, Shown
  <2>4. W!Insert(k, r)
    BY <2>2, <2>3 DEF W!Insert, W!Seen, W!saveRecord, W!write, W!Ids, W!Without,
                      saveRecord, write, Ids, Without
  <2>5. r \in Shown'[k]
    BY <2>2 DEF Shown
  <2> QED BY <2>4, <2>5, SameKinds DEF W!WNext, Stored
<1>4. CASE ModifyStep
  <2>0. PICK k \in Kinds : \E r \in Record(k) : r.id = mem[k][row].id /\ modify(k, r)
    BY <1>4 DEF ModifyStep, Modified
  <2>1. PICK r \in Record(k) : r.id = mem[k][row].id /\ modify(k, r)
    BY <2>0
  <2>2. /\ Shown' = [Shown EXCEPT ![k] = Without(Shown[k], r.id) \cup {r}]
        /\ r.id \in Ids(Shown[k])
    BY <2>1, ModifyView DEF Shown, Ids
  <2>3. updateRecord(k, r)
    BY <2>1 DEF modify
  <2>4. W!Change(k, r)
    BY <2>2, <2>3 DEF W!Change, W!Seen, W!updateRecord, W!write, W!Ids, W!Without,
                      updateRecord, write, Ids, Without
  <2>5. r \in Shown'[k]
    BY <2>2 DEF Shown
  <2> QED BY <2>4, <2>5, SameKinds DEF W!WNext, Stored
<1>5. CASE DeleteStep
  <2>0. PICK k \in Kinds : \E i \in DOMAIN filtered : commitDelete(k, i)
    BY <1>5 DEF DeleteStep, Deleted
  <2>1. PICK i \in DOMAIN filtered : commitDelete(k, i)
    BY <2>0
  <2>2. PICK r \in Record(k) : r = mem[k][i]
    BY <2>1, DeleteView
  <2>3. r \in Shown[k] /\ Shown' = [Shown EXCEPT ![k] = Shown[k] \ {r}]
    BY <2>1, <2>2, DeleteView DEF Shown
  <2>4. deleteRecord(k, r.id)
    BY <2>1, <2>2 DEF commitDelete
  <2>5. W!Remove(k, r)
    BY <2>3, <2>4 DEF W!Remove, W!Seen, W!deleteRecord, W!write, W!Without,
                      deleteRecord, write, Without
  <2> QED BY <2>3, <2>5, SameKinds DEF W!WNext, Stored
<1>6. CASE Relaunch
  <2>1. mem' \in generateDummyData /\ dirty' = Unread(mem') /\ UNCHANGED db
    BY <1>6 DEF Relaunch
  <2>2. Shown' \in W!Reads /\ dirty' = W!Missed(Shown')
    BY <2>1, StartReads DEF TypedRows, TypeOK, Shown
  <2> QED BY <2>1, <2>2 DEF W!Restart, W!WNext
<1> QED BY <1>1, <1>2, <1>3, <1>4, <1>5, <1>6 DEF ArraysStep

\* Screens, forms and arrays implement the write-through store: every step of
\* the app changes one record on both sides, reads the file, or does neither.
THEOREM ImplementsStore == Spec => ImplementsWriteThrough
BY InitKeyed, NextKeyed, RefineInit, RefineStep, PTL DEF Spec, ImplementsWriteThrough, W!WSpec

\* The store's invariant, read through the refinement.
LEMMA InitStored == Init => W!WInv
BY RefineInit, WInvInit

LEMMA NextStored == KeyedRows /\ W!WInv /\ [Next]_vars => W!WInv'
BY RefineStep, WInvNext

LEMMA StoredWritten == W!WInv => WrittenThrough
BY SameKinds DEF W!WInv, W!Durable, WrittenThrough, Shown

\* A record whose last write or read was not swallowed is the same in memory
\* and in the file, or is in neither: a restart loses no such record.
THEOREM WrittenThroughAlways == Spec => []WrittenThrough
BY InitKeyed, NextKeyed, InitStored, NextStored, StoredWritten, PTL DEF Spec

-----------------------------------------------------------------------------
\* Orders.  What is saved comes from the draft, so the invariant is about both.
DraftStep ==
  \/ draft' = draft /\ (onOrderForm' <=> onOrderForm)
  \/ draft' = <<>>
  \/ onOrderForm' /\ \E o \in Range(mem["order"]) : draft' = o.lines
  \/ /\ onOrderForm /\ onOrderForm'
     /\ \E j \in DOMAIN cells, q \in 0 .. MaxQuantity : setLine(mem["item"][j], q)

LEMMA NextDraft ==
  ASSUME TypedRows, [Next]_vars
  PROVE  DraftStep
<1> USE DEF onOrderForm, DraftStep
<1>1. CASE UNCHANGED vars
  BY <1>1 DEF vars, list, form
<1>2. CASE ListStep
  <2>1. CASE \/ \E k \in Kinds : OpenList(k)
             \/ BackToMenu \/ updateSearchResults \/ searchBarCancelButtonClicked
    BY <2>1 DEF OpenList, BackToMenu, mainMenu, closeForm, updateSearchResults,
                searchBarCancelButtonClicked, form
  <2>2. CASE addTapped
    BY <2>2 DEF addTapped, viewWillAppear
  <2>3. ASSUME NEW i \in DOMAIN filtered, didSelectRow(i)
        PROVE  DraftStep
    <3>1. CASE kind = "order" /\ i > 0
      <4>1. /\ screen = "list" /\ screen' = "form" /\ kind' = "order"
            /\ draft' = mem["order"][i].lines
        BY <2>3, <3>1 DEF didSelectRow, viewWillAppear
      <4>2. i \in DOMAIN mem["order"]
        <5>1. filtered \in Seq(Record("order")) /\ mem["order"] \in Seq(Record("order"))
          BY <3>1 DEF TypedRows, TypeOK, ScreensTyped, RecordsTyped, Kinds
        <5>2. Len(filtered) <= Len(mem["order"])
          BY <3>1, <4>1 DEF TypedRows, RowsMatch
        <5>3. Len(filtered) \in Nat /\ Len(mem["order"]) \in Nat
              /\ i \in 1 .. Len(filtered) /\ DOMAIN mem["order"] = 1 .. Len(mem["order"])
          BY <5>1, LenProperties
        <5> QED BY <5>2, <5>3
      <4>3. mem["order"][i] \in Range(mem["order"])
        BY <4>2 DEF Range
      <4> QED BY <4>1, <4>3
    <3>2. CASE ~ (kind = "order" /\ i > 0)
      BY <2>3, <3>2 DEF didSelectRow, viewWillAppear
    <3> QED BY <3>1, <3>2
  <2>4. ASSUME NEW i \in DOMAIN filtered,
               deleteItem(i) \/ deleteLocation(i) \/ deleteOrder(i)
        PROVE  DraftStep
    BY <2>4 DEF deleteItem, deleteLocation, deleteOrder, commitDelete, form
  <2> QED BY <1>2, <2>1, <2>2, <2>3, <2>4 DEF ListStep
<1>3. CASE FormStep
  BY <1>3 DEF FormStep, BackToList, closeForm, createItem, updateItem, createLocation,
              updateLocation, create, modify, list, form
<1>4. CASE OrderFormStep
  <2>1. ASSUME NEW j \in DOMAIN cells, btnIncreaseTap(j) \/ btnDecreaseTap(j)
        PROVE  DraftStep
    <3>1. cells[j] \in 0 .. MaxQuantity /\ MaxQuantity \in Nat
      BY ConstantsAssumption DEF TypedRows, TypeOK, ScreensTyped
    <3>2. PICK q \in 0 .. MaxQuantity : cells' = [cells EXCEPT ![j] = q]
      BY <2>1, <3>1 DEF btnIncreaseTap, btnDecreaseTap
    <3>3. cells'[j] = q
      BY <3>2
    <3> QED BY <2>1, <3>3 DEF btnIncreaseTap, btnDecreaseTap, list
  <2>2. ASSUME NEW j \in DOMAIN cells, NEW i \in DOMAIN cells, cellForRowAt(i, j)
        PROVE  DraftStep
    BY <2>2 DEF cellForRowAt, list
  <2>3. ASSUME NEW id \in OrderIds, NEW f \in DOMAIN mem["location"],
               NEW t \in DOMAIN mem["location"], NEW d \in Dates, NEW a \in Dates,
               createOrder(id, f, t, d, a)
        PROVE  DraftStep
    BY <2>3 DEF createOrder, create, list, form
  <2>4. ASSUME NEW id \in OrderIds, createOrderTraps(id)
        PROVE  DraftStep
    BY <2>4 DEF createOrderTraps, Relaunch, mainMenu, closeForm
  <2>5. ASSUME NEW d \in Dates, NEW a \in Dates, updateOrder(d, a)
        PROVE  DraftStep
    BY <2>5 DEF updateOrder, modify, list, form
  <2> QED BY <1>4, <2>1, <2>2, <2>3, <2>4, <2>5 DEF OrderFormStep
<1>5. CASE Relaunch
  BY <1>5 DEF Relaunch, mainMenu, closeForm
<1> QED BY <1>1, <1>2, <1>3, <1>4, <1>5 DEF Next

\* The draft's lines carry different items, and so do the orders made from it.
SoundDraft == OrdersSound /\ NoEqualLines(draft)
Sound(o) == WellPriced(o) /\ WellDated(o) /\ NoEqualLines(o.lines)

LEMMA PutSound ==
  ASSUME NEW k \in Kinds, NEW r, saveRecord(k, r) \/ updateRecord(k, r),
         RecordsTyped
  PROVE  \A o \in db'["order"] : o \in db["order"] \/ (k = "order" /\ o = r)
BY DEF saveRecord, updateRecord, write, Without, RecordsTyped, Kinds

LEMMA InitSound == Init => SoundDraft
<1> SUFFICES ASSUME Init PROVE SoundDraft
  OBVIOUS
<1>1. db = Seed /\ mem \in generateDummyData /\ draft = <<>>
  BY DEF Init
<1>2. Range(mem["order"]) \subseteq db["order"]
  BY <1>1, InitTyped, StartTyped DEF TypedRows, TypeOK, Kinds
<1> QED BY <1>1, <1>2, SeedAssumption DEF SoundDraft, OrdersSound, NoEqualLines

LEMMA NextSound == KeyedRows /\ SoundDraft /\ [Next]_vars => SoundDraft'
<1> SUFFICES ASSUME KeyedRows, SoundDraft, [Next]_vars PROVE SoundDraft'
  OBVIOUS
<1> USE DEF KeyedRows
<1>1. NoEqualLines(draft')
  <2>1. CASE draft' = draft \/ draft' = <<>>
    BY <2>1 DEF SoundDraft, NoEqualLines
  <2>2. CASE \E o \in Range(mem["order"]) : draft' = o.lines
    BY <2>2 DEF SoundDraft, OrdersSound
  <2>3. CASE onOrderForm /\ \E j \in DOMAIN cells, q \in 0 .. MaxQuantity :
                              setLine(mem["item"][j], q)
    BY <2>3, TapTyped DEF SoundDraft
  <2> QED BY <2>1, <2>2, <2>3, NextDraft DEF DraftStep
<1>2. ASSUME \A o \in Range(mem'["order"]) \cup db'["order"] :
               \/ o \in Range(mem["order"]) \cup db["order"]
               \/ Sound(o)
      PROVE  SoundDraft'
  BY <1>1, <1>2 DEF Sound, SoundDraft, OrdersSound
<1>3. ArraysStep
  BY NextArrays
<1>4. CASE QuietStep
  BY <1>2, <1>4 DEF QuietStep, store
<1>5. CASE CreateStep
  <2>0. PICK k \in Kinds : \E r \in Record(k) : Created(k, r)
    BY <1>5 DEF CreateStep
  <2>1. PICK r \in Record(k) : Created(k, r)
    BY <2>0
  <2>2. create(k, r) /\ saveRecord(k, r) /\ (k = "order" => Sound(r))
    BY <2>1 DEF Created, OfForm, Sound, SoundDraft, create
  <2>3. \A o \in Range(mem'["order"]) : o \in Range(mem["order"]) \/ (k = "order" /\ o = r)
    BY <2>2, CreateView DEF Kinds
  <2> QED BY <1>2, <2>2, <2>3, PutSound DEF TypedRows, TypeOK
<1>6. CASE ModifyStep
  <2>0. PICK k \in Kinds : \E r \in Record(k) : Modified(k, r)
    BY <1>6 DEF ModifyStep
  <2>1. PICK r \in Record(k) : Modified(k, r)
    BY <2>0
  <2>2. /\ modify(k, r) /\ r.id = mem[k][row].id /\ updateRecord(k, r)
        /\ k = "order" => Sound(r)
    BY <2>1 DEF Modified, OfForm, Sound, SoundDraft, modify
  <2>3. \A o \in Range(mem'["order"]) : o \in Range(mem["order"]) \/ (k = "order" /\ o = r)
    BY <2>2, ModifyView DEF Kinds, Without
  <2> QED BY <1>2, <2>2, <2>3, PutSound DEF TypedRows, TypeOK
<1>7. CASE DeleteStep
  <2>0. PICK k \in Kinds : \E i \in DOMAIN filtered : commitDelete(k, i)
    BY <1>7 DEF DeleteStep, Deleted
  <2>1. PICK i \in DOMAIN filtered : commitDelete(k, i)
    BY <2>0
  <2>2. Range(mem'["order"]) \subseteq Range(mem["order"])
    BY <2>1, DeleteView DEF Kinds
  <2>3. db'["order"] \subseteq db["order"]
    BY <2>1 DEF commitDelete, deleteRecord, write, Without, TypedRows, TypeOK, RecordsTyped, Kinds
  <2> QED BY <1>2, <2>2, <2>3
<1>8. CASE Relaunch
  <2>1. Range(mem'["order"]) \subseteq db["order"] /\ db' = db
    BY <1>8, RelaunchView DEF Kinds
  <2> QED BY <1>2, <2>1
<1> QED BY <1>3, <1>4, <1>5, <1>6, <1>7, <1>8 DEF ArraysStep

\* However orders are edited and read back, each one's cost is the total of its
\* lines, its dates are in order, and its lines carry different items.
THEOREM OrdersSoundAlways == Spec => []OrdersSound
<1>1. SoundDraft => OrdersSound
  BY DEF SoundDraft
<1> QED BY <1>1, InitKeyed, NextKeyed, InitSound, NextSound, PTL DEF Spec

-----------------------------------------------------------------------------
\* What orders refer to.  While SQLite works nothing is dirty, so the file holds
\* what the arrays hold and it is enough to look at the arrays; and the draft of
\* an open form refers to items that cannot be deleted before it is closed.
OrdersRefer ==
  \A o \in Range(mem["order"]) : Refers(o, Range(mem["item"]), Range(mem["location"]))
DraftRefers == \A n \in DOMAIN draft : draft[n].item.id \in Ids(Range(mem["item"]))
Linked ==
  /\ dirty = {}
  /\ OrdersRefer
  /\ DraftRefers
  /\ ~onOrderForm => draft = <<>>

LEMMA CleanStore ==
  ASSUME W!WInv, dirty = {}
  PROVE  \A k \in Kinds : db[k] = Range(mem[k])
BY SameKinds DEF W!WInv, W!Durable, Shown

\* If every id of the items and the locations is still there, and the orders
\* are the same ones, every order still refers to what exists.
LEMMA KeepRefers ==
  ASSUME OrdersRefer,
         Range(mem'["order"]) \subseteq Range(mem["order"]),
         Ids(Range(mem["item"])) \subseteq Ids(Range(mem'["item"])),
         Ids(Range(mem["location"])) \subseteq Ids(Range(mem'["location"]))
  PROVE  OrdersRefer'
BY DEF OrdersRefer, Refers

LEMMA InitLinked == ~IOMayFail /\ Init => Linked
<1> SUFFICES ASSUME ~IOMayFail, Init PROVE Linked
  OBVIOUS
<1>1. /\ db = Seed /\ mem \in generateDummyData /\ dirty = Unread(mem) /\ draft = <<>>
  BY DEF Init
<1>2. \A k \in Kinds : Range(mem[k]) = db[k]
  BY <1>1, InitTyped, StartTyped DEF TypedRows, TypeOK
<1>3. dirty = {}
  BY <1>1, <1>2 DEF Unread
<1> QED BY <1>1, <1>2, <1>3, SeedAssumption DEF Linked, OrdersRefer, DraftRefers, Kinds

LEMMA CreateLinked ==
  ASSUME ~IOMayFail, KeyedRows, Linked, NEW k \in Kinds, NEW r \in Record(k), Created(k, r)
  PROVE  Linked'
<1>1. /\ screen = "form" /\ create(k, r) /\ saveRecord(k, r) /\ draft' = draft
      /\ onOrderForm' <=> onOrderForm
  BY DEF Created, create, list, form, onOrderForm
<1>2. \A j \in Kinds : Range(mem'[j]) =
        IF j = k THEN Range(mem[k]) \cup {r} ELSE Range(mem[j])
  BY <1>1, CreateView DEF KeyedRows
<1>3. \A j \in Kinds : Ids(Range(mem[j])) \subseteq Ids(Range(mem'[j]))
  BY <1>2 DEF Ids
<1>4. dirty' = {}
  BY <1>1 DEF saveRecord, write, Linked
<1>5. OrdersRefer'
  <2>1. ASSUME NEW o \in Range(mem'["order"])
        PROVE  Refers(o, Range(mem'["item"]), Range(mem'["location"]))
    <3>1. CASE o \in Range(mem["order"])
      BY <1>3, <3>1 DEF Linked, OrdersRefer, Refers, Kinds
    <3>2. CASE k = "order" /\ o = r
      <4>1. /\ o.lines = draft
            /\ o.from \in Range(mem["location"]) /\ o.to \in Range(mem["location"])
        BY <3>2 DEF Created, OfForm
      <4>2. /\ \A n \in DOMAIN o.lines : o.lines[n].item.id \in Ids(Range(mem["item"]))
            /\ o.from.id \in Ids(Range(mem["location"]))
            /\ o.to.id \in Ids(Range(mem["location"]))
        BY <4>1 DEF Linked, DraftRefers, Ids
      <4> QED BY <4>2, <1>3 DEF Refers, Kinds
    <3> QED BY <1>2, <3>1, <3>2 DEF Kinds
  <2> QED BY <2>1 DEF OrdersRefer
<1>6. DraftRefers'
  BY <1>1, <1>3 DEF Linked, DraftRefers, Kinds
<1> QED BY <1>1, <1>4, <1>5, <1>6 DEF Linked

LEMMA ModifyLinked ==
  ASSUME ~IOMayFail, KeyedRows, W!WInv, Linked,
         NEW k \in Kinds, NEW r \in Record(k), Modified(k, r)
  PROVE  Linked'
<1>1. /\ modify(k, r) /\ updateRecord(k, r) /\ draft' = draft /\ r.id = mem[k][row].id
      /\ onOrderForm' <=> onOrderForm
  BY DEF Modified, modify, list, form, onOrderForm
<1>2. /\ mem[k][row] \in Range(mem[k])
      /\ \A j \in Kinds : Range(mem'[j]) =
           IF j = k THEN Without(Range(mem[k]), r.id) \cup {r} ELSE Range(mem[j])
  BY <1>1, ModifyView DEF KeyedRows
<1>3. \A j \in Kinds : Ids(Range(mem[j])) \subseteq Ids(Range(mem'[j]))
  BY <1>2 DEF Ids, Without
<1>4. dirty' = {}
  <2>1. r.id \in Ids(db[k])
    BY <1>1, <1>2, CleanStore DEF Linked, Ids
  <2> QED BY <1>1, <2>1 DEF updateRecord, write, Linked
<1>5. OrdersRefer'
  <2>1. ASSUME NEW o \in Range(mem'["order"])
        PROVE  Refers(o, Range(mem'["item"]), Range(mem'["location"]))
    <3>1. CASE o \in Range(mem["order"])
      BY <1>3, <3>1 DEF Linked, OrdersRefer, Refers, Kinds
    <3>2. CASE k = "order" /\ o = r
      <4>1. /\ o.lines = draft
            /\ o.from = mem["order"][row].from /\ o.to = mem["order"][row].to
        BY <3>2 DEF Modified, OfForm
      <4>2. /\ \A n \in DOMAIN o.lines : o.lines[n].item.id \in Ids(Range(mem["item"]))
            /\ o.from.id \in Ids(Range(mem["location"]))
            /\ o.to.id \in Ids(Range(mem["location"]))
        BY <4>1, <1>2, <3>2 DEF Linked, DraftRefers, OrdersRefer, Refers
      <4> QED BY <4>2, <1>3 DEF Refers, Kinds
    <3> QED BY <1>2, <3>1, <3>2 DEF Kinds, Without
  <2> QED BY <2>1 DEF OrdersRefer
<1>6. DraftRefers'
  BY <1>1, <1>3 DEF Linked, DraftRefers, Kinds
<1> QED BY <1>1, <1>4, <1>5, <1>6 DEF Linked

LEMMA DeleteLinked ==
  ASSUME ~IOMayFail, KeyedRows, Linked,
         NEW k \in Kinds, NEW i \in DOMAIN filtered, Deleted(k, i)
  PROVE  Linked'
<1>1. /\ commitDelete(k, i) /\ deleteRecord(k, mem[k][i].id) /\ draft' = draft
      /\ ~onOrderForm /\ ~onOrderForm'
  BY DEF Deleted, commitDelete, canEditRowAt, form, onOrderForm
<1>2. \A j \in Kinds : Range(mem'[j]) =
        IF j = k THEN Range(mem[k]) \ {mem[k][i]} ELSE Range(mem[j])
  BY <1>1, DeleteView DEF KeyedRows
<1>3. dirty' = {}
  BY <1>1 DEF deleteRecord, write, Linked
<1>4. \A j \in Kinds : \A id \in Ids(Range(mem[j])) :
        id \in Ids(Range(mem'[j])) \/ (j = k /\ id = mem[k][i].id)
  BY <1>2 DEF Ids
<1>5. OrdersRefer'
  <2>1. ASSUME NEW o \in Range(mem'["order"])
        PROVE  Refers(o, Range(mem'["item"]), Range(mem'["location"]))
    <3>1. o \in Range(mem["order"])
      BY <1>2 DEF Kinds
    <3>2. /\ \A n \in DOMAIN o.lines : o.lines[n].item.id \in Ids(Range(mem["item"]))
          /\ o.from.id \in Ids(Range(mem["location"]))
          /\ o.to.id \in Ids(Range(mem["location"]))
      BY <3>1 DEF Linked, OrdersRefer, Refers
    <3>3. \A n \in DOMAIN o.lines : o.lines[n].item.id \in Ids(Range(mem'["item"]))
      BY <1>4, <3>1, <3>2 DEF Deleted, Kinds
    <3>4. o.from.id \in Ids(Range(mem'["location"])) /\ o.to.id \in Ids(Range(mem'["location"]))
      BY <1>4, <3>1, <3>2 DEF Deleted, Kinds
    <3> QED BY <3>3, <3>4 DEF Refers
  <2> QED BY <2>1 DEF OrdersRefer
<1>6. draft' = <<>>
  BY <1>1 DEF Linked
<1> QED BY <1>1, <1>3, <1>5, <1>6 DEF Linked, DraftRefers

LEMMA RelaunchLinked ==
  ASSUME ~IOMayFail, KeyedRows, W!WInv, Linked, Relaunch
  PROVE  Linked'
<1>1. /\ \A k \in Kinds : Range(mem'[k]) = Range(mem[k]) /\ Range(mem'[k]) = db[k]
      /\ dirty' = Unread(mem')
  BY RelaunchView, CleanStore DEF KeyedRows, Linked
<1>2. dirty' = {}
  BY <1>1 DEF Unread
<1>3. OrdersRefer'
  BY <1>1, KeepRefers DEF Linked, Kinds
<1>4. draft' = <<>>
  BY DEF Relaunch, mainMenu, closeForm
<1> QED BY <1>2, <1>3, <1>4 DEF Linked, DraftRefers

LEMMA QuietLinked ==
  ASSUME KeyedRows, Linked, QuietStep, [Next]_vars
  PROVE  Linked'
<1>1. UNCHANGED <<mem, dirty>>
  BY DEF QuietStep, store
<1>2. OrdersRefer'
  BY <1>1 DEF Linked, OrdersRefer
<1>3. DraftStep
  BY NextDraft DEF KeyedRows
<1>4. CASE (draft' = draft /\ (onOrderForm' <=> onOrderForm)) \/ draft' = <<>>
  BY <1>1, <1>2, <1>4 DEF Linked, DraftRefers
<1>5. CASE onOrderForm' /\ \E o \in Range(mem["order"]) : draft' = o.lines
  BY <1>1, <1>2, <1>5 DEF Linked, DraftRefers, OrdersRefer, Refers
<1>6. CASE /\ onOrderForm /\ onOrderForm'
           /\ \E j \in DOMAIN cells, q \in 0 .. MaxQuantity : setLine(mem["item"][j], q)
  <2>1. PICK j \in DOMAIN cells, q \in 0 .. MaxQuantity : setLine(mem["item"][j], q)
    BY <1>6
  <2>2. \A n \in DOMAIN draft' : \/ draft'[n].item = mem["item"][j]
                                 \/ \E m \in DOMAIN draft : draft'[n] = draft[m]
    BY <1>6, <2>1, TapTyped DEF KeyedRows
  <2>3. mem["item"][j].id \in Ids(Range(mem["item"]))
    <3>1. mem["item"] \in Seq(Record("item")) /\ Len(cells) = Len(mem["item"])
          /\ cells \in Seq(0 .. MaxQuantity)
      BY <1>6 DEF KeyedRows, TypedRows, TypeOK, RecordsTyped, ScreensTyped, RowsMatch, Kinds
    <3>2. j \in DOMAIN mem["item"]
      BY <3>1, LenProperties
    <3> QED BY <3>2 DEF Ids, Range
  <2> QED BY <1>1, <1>2, <1>6, <2>2, <2>3 DEF Linked, DraftRefers
<1> QED BY <1>3, <1>4, <1>5, <1>6 DEF DraftStep

LEMMA NextLinked == ~IOMayFail /\ KeyedRows /\ W!WInv /\ Linked /\ [Next]_vars => Linked'
<1> SUFFICES ASSUME ~IOMayFail, KeyedRows, W!WInv, Linked, [Next]_vars PROVE Linked'
  OBVIOUS
<1>1. ArraysStep
  BY NextArrays DEF KeyedRows
<1>2. CASE CreateStep
  <2>1. PICK k \in Kinds : \E r \in Record(k) : Created(k, r)
    BY <1>2 DEF CreateStep
  <2> QED BY <2>1, CreateLinked
<1>3. CASE ModifyStep
  <2>1. PICK k \in Kinds : \E r \in Record(k) : Modified(k, r)
    BY <1>3 DEF ModifyStep
  <2> QED BY <2>1, ModifyLinked
<1>4. CASE DeleteStep
  BY <1>4, DeleteLinked DEF DeleteStep
<1> QED BY <1>1, <1>2, <1>3, <1>4, RelaunchLinked, QuietLinked DEF ArraysStep

LEMMA LinkedOrders == (~IOMayFail => Linked) /\ W!WInv => NoDanglingOrders
<1> SUFFICES ASSUME ~IOMayFail, Linked, W!WInv
             PROVE  \A o \in Range(mem["order"]) \cup db["order"] :
                      /\ Refers(o, Range(mem["item"]), Range(mem["location"]))
                      /\ Refers(o, db["item"], db["location"])
  BY DEF NoDanglingOrders
<1>1. \A k \in Kinds : db[k] = Range(mem[k])
  BY CleanStore DEF Linked
<1> QED BY <1>1 DEF Linked, OrdersRefer, Kinds

\* As long as SQLite works, no delete, edit or restart leaves an order whose
\* item or location does not exist, in memory or in the file.
THEOREM NoDanglingOrdersAlways == Spec => []NoDanglingOrders
<1>1. Init => (~IOMayFail => Linked)
  BY InitLinked
<1>2. KeyedRows /\ W!WInv /\ (~IOMayFail => Linked) /\ [Next]_vars
        => (~IOMayFail => Linked)'
  BY NextLinked
<1> QED BY <1>1, <1>2, InitKeyed, NextKeyed, InitStored, NextStored, LinkedOrders, PTL
           DEF Spec

=============================================================================
