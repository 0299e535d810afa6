-------------------------- MODULE ModalFormsProofs --------------------------
(***************************************************************************)
(* Theorems about the modal forms of Assignment 8, for every set of ids    *)
(* and contents, every bound and whether or not SQLite may refuse a call.  *)
(* Under the invariant IInv a step is one of five kinds (FormStep); what   *)
(* the app promises is proved from them.                                   *)
(***************************************************************************)
EXTENDS ModalForms, ListProofs

\* The type invariant, with arrays that are lists, tables that are finite, and the
\* form on the record it was asked for.
TablesOK ==
  /\ DOMAIN db = Kinds
  /\ \A k \in Kinds : /\ db[k] \subseteq RowsOf(k) /\ IsFiniteSet(db[k])
                      /\ \A r, s \in db[k] : r.id = s.id => r = s
ArraysOK ==
  /\ DOMAIN mem = Kinds
  /\ \A k \in Kinds : mem[k] \in Seq(RowsOf(k)) /\ UniqueIds(mem[k])
FormOK ==
  /\ form \in Forms \cup {"none"} /\ found \in Nat /\ asked \subseteq Int
  /\ FormIsOnAsked
IInv == TablesOK /\ ArraysOK /\ FormOK /\ dirty \subseteq Kinds \X Int

-----------------------------------------------------------------------------
\* The steps: what is left of the form that took them is the record it saves,
\* which has the id of the record it is about and a cost that follows its lines.
QuietStep == UNCHANGED <<store, mem>> /\ FormOK'

CreateStep == \E k \in Kinds : \E r \in RowsOf(k) : Create(k, r)

DeleteStep == \E k \in Kinds : \E i \in DOMAIN mem[k] : Delete(k, i)

UpdateStep ==
  \E f \in Forms : \E r \in RowsOf(Subject(f)) :
    /\ found # 0 /\ Update(f, r)
    /\ r.id = Current.id
    /\ Subject(f) = "order" => Excess(r) \in {Excess(Current), 0}

FormStep == QuietStep \/ CreateStep \/ DeleteStep \/ UpdateStep \/ Relaunch

\* An order has a list of one to MaxLines lines.
LEMMA LinesFacts ==
  ASSUME NEW s
  PROVE  s \in Lines <=> s \in Seq(OrderItem) /\ Len(s) >= 1 /\ Len(s) <= MaxLines
<1>1. ASSUME s \in Lines
      PROVE  s \in Seq(OrderItem) /\ Len(s) >= 1 /\ Len(s) <= MaxLines
  <2>1. PICK n \in 1 .. MaxLines : s \in [1 .. n -> OrderItem]
    BY <1>1 DEF Lines
  <2> QED BY <2>1, ConstantsAssumption
<1>2. ASSUME s \in Seq(OrderItem), Len(s) >= 1, Len(s) <= MaxLines
      PROVE  s \in Lines
  <2>1. Len(s) \in Nat /\ s \in [1 .. Len(s) -> OrderItem]
    BY <1>2
  <2>2. Len(s) \in 1 .. MaxLines
    BY <1>2, <2>1, ConstantsAssumption
  <2> QED BY <2>1, <2>2 DEF Lines
<1> QED BY <1>1, <1>2

LEMMA OneLine ==
  ASSUME NEW line \in OrderItem
  PROVE  <<line>> \in Lines /\ getOrderTotal(<<line>>) \in Nat
<1>1. <<line>> \in Seq(OrderItem) /\ Len(<<line>>) >= 1 /\ Len(<<line>>) <= MaxLines
  BY ConstantsAssumption
<1>2. <<line>> \in Lines
  BY <1>1, LinesFacts
<1> QED BY <1>2, TotalAssumption

\* Every record has an integer id.
LEMMA RecordIds == \A k \in Kinds : \A r \in RowsOf(k) : r.id \in Int
BY ConstantsAssumption DEF Kinds, RowsOf, Item, Location, LogisticsOrder

\* The forms are about the three kinds.
LEMMA Subjects ==
  ASSUME NEW f \in Forms
  PROVE  Subject(f) \in Kinds
BY DEF Forms, Subject, Kinds

\* A record of an array is one of its kind.
LEMMA Elements ==
  ASSUME ArraysOK, NEW k \in Kinds, NEW i \in DOMAIN mem[k]
  PROVE  mem[k][i] \in RowsOf(k) /\ i \in 1 .. Len(mem[k]) /\ i \in Nat \ {0}
BY ElementOfSeq, LenProperties DEF ArraysOK

\* The form on the screen has a record.
LEMMA CurrentFacts ==
  ASSUME IInv, form \in Forms, found # 0
  PROVE  /\ Subject(form) \in Kinds /\ found \in 1 .. Len(mem[Subject(form)])
         /\ Current \in RowsOf(Subject(form)) /\ asked = {Current.id}
<1>1. form # "none"
  BY DEF Forms
<1>2. found \in DOMAIN mem[Subject(form)] /\ asked = {Current.id}
  BY <1>1 DEF IInv, FormOK, FormIsOnAsked
<1> QED BY <1>2, Subjects, Elements DEF Current, IInv

\* What a form that found its record does.
LEMMA FoundUpdates ==
  ASSUME IInv, NEW f \in Forms, NEW r, Update(f, r), found # 0,
         r \in RowsOf(Subject(f)), r.id = Current.id,
         Subject(f) = "order" => Excess(r) \in {Excess(Current), 0}
  PROVE  FormStep
BY DEF FormStep, UpdateStep

\* A line of an order is a copy of an item there is.
LEMMA LineFacts ==
  ASSUME IInv, NEW i \in DOMAIN mem["item"], NEW q \in 1 .. MaxQuantity
  PROVE  [item |-> mem["item"][i], quantity |-> q] \in OrderItem
<1>1. mem["item"][i] \in Item
  BY Elements DEF IInv, Kinds, RowsOf
<1> QED BY <1>1 DEF OrderItem

LEMMA UpdateItemStep ==
  ASSUME IInv, NEW v \in Values, UpdateItem(v)
  PROVE  FormStep
<1>1. form = "item" /\ "item" \in Forms /\ Subject("item") = "item"
  BY DEF UpdateItem, Update, Forms, Subject
<1>2. CASE found = 0
  BY <1>2 DEF UpdateItem, Update, FormStep
<1>3. CASE found # 0
  <2>1. Current \in Item
    BY <1>1, <1>3, CurrentFacts DEF RowsOf
  <2> DEFINE r == [Current EXCEPT !.value = v]
  <2>2. r \in Item /\ r.id = Current.id
    BY <2>1 DEF Item
  <2>3. Update("item", r)
    BY <1>3 DEF UpdateItem
  <2> HIDE DEF r
  <2> QED BY <1>1, <1>3, <2>2, <2>3, FoundUpdates DEF RowsOf
<1> QED BY <1>2, <1>3

LEMMA UpdateLocationStep ==
  ASSUME IInv, NEW p \in Places, UpdateLocation(p)
  PROVE  FormStep
<1>1. form = "location" /\ "location" \in Forms /\ Subject("location") = "location"
  BY DEF UpdateLocation, Update, Forms, Subject
<1>2. CASE found = 0
  BY <1>2 DEF UpdateLocation, Update, FormStep
<1>3. CASE found # 0
  <2>1. Current \in Location
    BY <1>1, <1>3, CurrentFacts DEF RowsOf
  <2> DEFINE r == [Current EXCEPT !.place = p]
  <2>2. r \in Location /\ r.id = Current.id
    BY <2>1 DEF Location
  <2>3. Update("location", r)
    BY <1>3 DEF UpdateLocation
  <2> HIDE DEF r
  <2> QED BY <1>1, <1>3, <2>2, <2>3, FoundUpdates DEF RowsOf
<1> QED BY <1>2, <1>3

LEMMA UpdateDepartureStep ==
  ASSUME IInv, NEW d \in Dates, UpdateDeparture(d)
  PROVE  FormStep
<1>1. form = "departure" /\ "departure" \in Forms /\ Subject("departure") = "order"
  BY DEF UpdateDeparture, Update, Forms, Subject
<1>2. CASE found = 0
  BY <1>2 DEF UpdateDeparture, Update, FormStep
<1>3. CASE found # 0
  <2>1. Current \in LogisticsOrder
    BY <1>1, <1>3, CurrentFacts DEF RowsOf
  <2> DEFINE r == [Current EXCEPT !.departure = d]
  <2>2. r \in LogisticsOrder /\ r.id = Current.id /\ Excess(r) = Excess(Current)
    BY <2>1 DEF LogisticsOrder, Excess
  <2>3. Update("departure", r)
    BY <1>3 DEF UpdateDeparture
  <2> HIDE DEF r
  <2> QED BY <1>1, <1>3, <2>2, <2>3, FoundUpdates DEF RowsOf
<1> QED BY <1>2, <1>3

\* Lines that are replaced bring their own total.
LEMMA UpdateOrderItemStep ==
  ASSUME IInv, NEW i \in DOMAIN mem["item"], NEW q \in 1 .. MaxQuantity,
         UpdateOrderItem(i, q)
  PROVE  FormStep
<1>1. form = "orderItem" /\ "orderItem" \in Forms /\ Subject("orderItem") = "order"
  BY DEF UpdateOrderItem, Update, Forms, Subject
<1>2. CASE found = 0
  BY <1>2 DEF UpdateOrderItem, Update, FormStep
<1>3. CASE found # 0
  <2>1. Current \in LogisticsOrder
    BY <1>1, <1>3, CurrentFacts DEF RowsOf
  <2> DEFINE lines == <<[item |-> mem["item"][i], quantity |-> q]>>
             r == [Current EXCEPT !.lines = lines, !.cost = getOrderTotal(lines)]
  <2>2. lines \in Lines /\ getOrderTotal(lines) \in Nat
    BY LineFacts, OneLine
  <2>3. Update("orderItem", r)
    BY <1>3 DEF UpdateOrderItem
  <2> HIDE DEF lines
  <2>4. r \in LogisticsOrder /\ r.id = Current.id
    BY <2>1, <2>2 DEF LogisticsOrder
  <2>5. Excess(r) = 0
    BY <2>1, <2>2 DEF LogisticsOrder, Excess
  <2> HIDE DEF r
  <2> QED BY <1>1, <1>3, <2>3, <2>4, <2>5, FoundUpdates DEF RowsOf
<1> QED BY <1>2, <1>3

\* A line that is added brings what it comes to.
LEMMA AddItemsStep ==
  ASSUME IInv, NEW i \in DOMAIN mem["item"], NEW q \in 1 .. MaxQuantity, AddItems(i, q)
  PROVE  FormStep
<1> DEFINE line == [item |-> mem["item"][i], quantity |-> q]
<1>1. form = "addItems" /\ "addItems" \in Forms /\ Subject("addItems") = "order"
  BY DEF AddItems, Update, Forms, Subject
<1>2. CASE found = 0
  BY <1>2 DEF AddItems, Update, FormStep
<1>3. CASE found # 0
  <2>1. Current \in LogisticsOrder
    BY <1>1, <1>3, CurrentFacts DEF RowsOf
  <2> DEFINE more == Append(Current.lines, line)
             cost == Current.cost + getOrderTotal(<<line>>)
             r == [Current EXCEPT !.lines = more, !.cost = cost]
  <2>2. line \in OrderItem /\ getOrderTotal(<<line>>) \in Nat
    BY LineFacts, OneLine
  <2>3. Update("addItems", r) /\ Len(Current.lines) < MaxLines
    BY <1>1, <1>3 DEF AddItems
  <2> HIDE DEF line
  <2>4. Current.lines \in Lines /\ Current.cost \in Nat
    BY <2>1 DEF LogisticsOrder
  <2>5. Current.lines \in Seq(OrderItem) /\ Len(Current.lines) >= 1
    BY <2>4, LinesFacts
  <2>6. more \in Seq(OrderItem) /\ Len(more) = Len(Current.lines) + 1 /\ Len(Current.lines) \in Nat
    BY <2>2, <2>5, AppendProperties, LenProperties
  <2>7. more \in Lines
    <3>1. Len(more) >= 1 /\ Len(more) <= MaxLines
      BY <2>3, <2>5, <2>6, ConstantsAssumption
    <3> QED BY <2>6, <3>1, LinesFacts
  <2>8. /\ getOrderTotal(more) = getOrderTotal(Current.lines) + getOrderTotal(<<line>>)
        /\ getOrderTotal(Current.lines) \in Nat
    BY <2>2, <2>4, TotalAssumption
  <2>9. cost \in Nat /\ cost - getOrderTotal(more) = Excess(Current)
    BY <2>2, <2>4, <2>8 DEF Excess
  <2> HIDE DEF more, cost
  <2>10. r \in LogisticsOrder /\ r.id = Current.id
    BY <2>1, <2>7, <2>9 DEF LogisticsOrder
  <2>11. Excess(r) = Excess(Current)
    BY <2>1, <2>9 DEF LogisticsOrder, Excess
  <2> HIDE DEF r
  <2> QED BY <1>1, <1>3, <2>3, <2>10, <2>11, FoundUpdates DEF RowsOf
<1> QED BY <1>2, <1>3

\* An order that is created is one of the records there may be.
LEMMA CreateOrderStep ==
  ASSUME IInv, NEW id \in OrderIds, NEW i \in DOMAIN mem["item"], NEW q \in 1 .. MaxQuantity,
         NEW f \in DOMAIN mem["location"], NEW t \in DOMAIN mem["location"],
         NEW dep \in Dates, NEW arr \in Dates, CreateOrder(id, i, f, t, q, dep, arr)
  PROVE  FormStep
<1> DEFINE lines == <<[item |-> mem["item"][i], quantity |-> q]>>
           r == [id |-> id, from |-> mem["location"][f], to |-> mem["location"][t],
                 departure |-> dep, arrival |-> arr,
                 cost |-> getOrderTotal(lines), lines |-> lines]
<1>1. lines \in Lines /\ getOrderTotal(lines) \in Nat
  BY LineFacts, OneLine
<1>2. Create("order", r)
  BY DEF CreateOrder
<1> HIDE DEF lines
<1>3. mem["location"][f] \in Location /\ mem["location"][t] \in Location
  BY Elements DEF IInv, Kinds, RowsOf
<1>4. r \in RowsOf("order")
  BY <1>1, <1>3 DEF RowsOf, LogisticsOrder
<1> HIDE DEF r
<1> QED BY <1>2, <1>4 DEF FormStep, CreateStep, Kinds

LEMMA NextStep == IInv /\ Next => FormStep
<1> SUFFICES ASSUME IInv, Next PROVE FormStep
  OBVIOUS
<1>1. CASE Relaunch
  BY <1>1 DEF FormStep
<1>2. ASSUME NEW k \in Kinds, NEW r \in RowsOf(k), Create(k, r)
      PROVE  FormStep
  BY <1>2 DEF FormStep, CreateStep
<1>3. CASE \E r \in Item : Create("item", r)
  BY <1>2, <1>3 DEF Kinds, RowsOf
<1>4. CASE \E r \in Location : Create("location", r)
  BY <1>2, <1>4 DEF Kinds, RowsOf
<1>5. CASE \E id \in OrderIds, i \in DOMAIN mem["item"], q \in 1 .. MaxQuantity,
           f, t \in DOMAIN mem["location"], dep, arr \in Dates :
             CreateOrder(id, i, f, t, q, dep, arr)
  BY <1>5, CreateOrderStep
<1>6. CASE \E k \in Kinds : \E i \in DOMAIN mem[k] : Delete(k, i)
  BY <1>6 DEF FormStep, DeleteStep
<1>7. CASE \E f \in Forms : Open(f)
  <2>1. QuietStep
    BY <1>7 DEF Open, QuietStep, FormOK, FormIsOnAsked, Forms
  <2> QED BY <2>1 DEF FormStep
<1>8. CASE Close
  <2>1. QuietStep
    BY <1>8 DEF Close, QuietStep, IInv, FormOK, FormIsOnAsked
  <2> QED BY <2>1 DEF FormStep
<1>9. ASSUME NEW i, Fetch(i)
      PROVE  FormStep
  <2>1. /\ form \in Forms /\ i \in DOMAIN mem[Subject(form)]
        /\ found' = i /\ asked' = {mem[Subject(form)][i].id}
        /\ UNCHANGED <<store, mem, form>>
    BY <1>9 DEF Fetch, IInv, FormOK
  <2>2. mem[Subject(form)][i].id \in Int /\ i \in Nat
    BY <2>1, Subjects, Elements, RecordIds DEF IInv
  <2>3. FormOK'
    BY <2>1, <2>2 DEF FormOK, FormIsOnAsked, Current
  <2> QED BY <2>1, <2>3 DEF FormStep, QuietStep
<1>10. CASE \E k \in Kinds : \E i \in DOMAIN mem[k] : Fetch(i)
  BY <1>9, <1>10
<1>11. CASE \/ \E v \in Values : UpdateItem(v)
            \/ \E p \in Places : UpdateLocation(p)
            \/ \E d \in Dates : UpdateDeparture(d)
  BY <1>11, UpdateItemStep, UpdateLocationStep, UpdateDepartureStep
<1>12. CASE \E i \in DOMAIN mem["item"], q \in 1 .. MaxQuantity :
             UpdateOrderItem(i, q) \/ AddItems(i, q)
  BY <1>12, UpdateOrderItemStep, AddItemsStep
<1> QED BY <1>1, <1>3, <1>4, <1>5, <1>6, <1>7, <1>8, <1>10, <1>11, <1>12 DEF Next

-----------------------------------------------------------------------------
\* What becomes of the records. A fetch gives a table or, after an error, nothing.
LEMMA FetchFacts ==
  ASSUME TablesOK, NEW k \in Kinds, NEW s \in fetchRecords(k)
  PROVE  /\ s \in Seq(RowsOf(k)) /\ UniqueIds(s)
         /\ Range(s) = db[k] \/ (IOMayFail /\ Range(s) = {})
<1>1. CASE s = <<>> /\ IOMayFail
  BY <1>1 DEF UniqueIds, Range
<1>2. CASE s \in Listings(k)
  <2>1. IsFiniteSet(db[k]) /\ \A r \in db[k] : r.id \in Int
    BY RecordIds DEF TablesOK
  <2>2. s \in Seq(db[k]) /\ UniqueIds(s) /\ Range(s) = db[k]
    BY <1>2, <2>1, ListingFacts DEF Listings
  <2> QED BY <2>2 DEF TablesOK
<1> QED BY <1>1, <1>2, IOAssumption DEF fetchRecords

\* A start reads arrays of the tables' records.
LEMMA StartFacts ==
  ASSUME TablesOK, NEW m \in generateDummyData
  PROVE  /\ DOMAIN m = Kinds
         /\ \A k \in Kinds : /\ m[k] \in Seq(RowsOf(k)) /\ UniqueIds(m[k])
                             /\ Range(m[k]) = db[k] \/ (IOMayFail /\ Range(m[k]) = {})
         /\ Unread(m) \subseteq Kinds \X Int
<1>1. DOMAIN m = Kinds /\ \A k \in Kinds : m[k] \in fetchRecords(k)
  BY DEF generateDummyData
<1>2. Unread(m) \subseteq Kinds \X Int
  BY RecordIds DEF TablesOK, Unread, Ids
<1> QED BY <1>1, <1>2, FetchFacts

\* A write leaves finite tables of records with one record to an id.
LEMMA PutFacts ==
  ASSUME IInv, NEW k \in Kinds, NEW r \in RowsOf(k), saveRecord(k, r) \/ updateRecord(k, r)
  PROVE  TablesOK' /\ dirty' \subseteq Kinds \X Int
<1> DEFINE rows == Without(db[k], r.id) \cup {r}
<1>1. rows \subseteq RowsOf(k) /\ r.id \in Int /\ \A q, s \in rows : q.id = s.id => q = s
  BY RecordIds DEF IInv, TablesOK, Without
<1>2. IsFiniteSet(rows)
  BY FS_Subset, FS_AddElement DEF IInv, TablesOK, Without
<1>3. \/ db' = [db EXCEPT ![k] = rows] /\ dirty' = dirty \ {<<k, r.id>>}
      \/ UNCHANGED db /\ dirty' = dirty \cup {<<k, r.id>>}
  BY DEF saveRecord, updateRecord, write
<1> HIDE DEF rows
<1> QED BY <1>1, <1>2, <1>3 DEF IInv, TablesOK

LEMMA RemoveFacts ==
  ASSUME IInv, NEW k \in Kinds, NEW id \in Int, deleteRecord(k, id)
  PROVE  TablesOK' /\ dirty' \subseteq Kinds \X Int
<1>1. IsFiniteSet(Without(db[k], id))
  BY FS_Subset DEF IInv, TablesOK, Without
<1>2. \/ db' = [db EXCEPT ![k] = Without(db[k], id)] /\ dirty' = dirty \ {<<k, id>>}
      \/ UNCHANGED db /\ dirty' = dirty \cup {<<k, id>>}
  BY DEF deleteRecord, write
<1>3. dirty' \subseteq Kinds \X Int
  BY <1>2 DEF IInv
<1>4. TablesOK'
  BY <1>1, <1>2 DEF IInv, TablesOK, Without
<1> QED BY <1>3, <1>4

\* A record is added at the end of its array.
LEMMA CreateFacts ==
  ASSUME IInv, NEW k \in Kinds, NEW r \in RowsOf(k), Create(k, r)
  PROVE  /\ IInv'
         /\ Range(mem'[k]) = Range(mem[k]) \cup {r}
         /\ \A j \in Kinds \ {k} : mem'[j] = mem[j]
<1>1. /\ form = "none" /\ mem' = [mem EXCEPT ![k] = Append(mem[k], r)]
      /\ saveRecord(k, r) /\ UNCHANGED <<form, found, asked>>
      /\ \A q \in Range(mem[k]) : q.id # r.id
  BY DEF Create, Ids
<1>2. /\ DOMAIN mem' = Kinds /\ mem'[k] = Append(mem[k], r)
      /\ \A j \in Kinds \ {k} : mem'[j] = mem[j]
  BY <1>1 DEF IInv, ArraysOK
<1>3. /\ Append(mem[k], r) \in Seq(RowsOf(k)) /\ UniqueIds(Append(mem[k], r))
      /\ Range(Append(mem[k], r)) = Range(mem[k]) \cup {r}
  BY <1>1, AppendFacts DEF IInv, ArraysOK
<1>4. ArraysOK'
  BY <1>2, <1>3 DEF IInv, ArraysOK
<1>5. FormOK'
  BY <1>1 DEF IInv, FormOK, FormIsOnAsked
<1> QED BY <1>1, <1>2, <1>3, <1>4, <1>5, PutFacts DEF IInv

LEMMA DeleteFacts ==
  ASSUME IInv, NEW k \in Kinds, NEW i \in DOMAIN mem[k], Delete(k, i)
  PROVE  /\ IInv'
         /\ mem[k][i] \in Range(mem[k])
         /\ Range(mem'[k]) = Range(mem[k]) \ {mem[k][i]}
         /\ \A j \in Kinds \ {k} : mem'[j] = mem[j]
<1>1. /\ form = "none" /\ mem' = [mem EXCEPT ![k] = RemoveAt(mem[k], i)]
      /\ deleteRecord(k, mem[k][i].id) /\ UNCHANGED <<form, found, asked>>
  BY DEF Delete
<1>2. /\ DOMAIN mem' = Kinds /\ mem'[k] = RemoveAt(mem[k], i)
      /\ \A j \in Kinds \ {k} : mem'[j] = mem[j]
  BY <1>1 DEF IInv, ArraysOK
<1>3. mem[k] \in Seq(RowsOf(k)) /\ UniqueIds(mem[k]) /\ i \in 1 .. Len(mem[k])
  BY Elements DEF IInv, ArraysOK
<1>4. /\ RemoveAt(mem[k], i) \in Seq(RowsOf(k)) /\ UniqueIds(RemoveAt(mem[k], i))
      /\ Range(RemoveAt(mem[k], i)) = Range(mem[k]) \ {mem[k][i]}
  BY <1>3, RemoveAtFacts, RemoveAtUnique
<1>5. mem[k][i].id \in Int /\ mem[k][i] \in Range(mem[k])
  BY Elements, RecordIds DEF IInv, Range
<1>6. ArraysOK'
  BY <1>2, <1>4 DEF IInv, ArraysOK
<1>7. FormOK'
  BY <1>1 DEF IInv, FormOK, FormIsOnAsked
<1> QED BY <1>1, <1>2, <1>4, <1>5, <1>6, <1>7, RemoveFacts DEF IInv

\* A changed record stays where it is, so the form stays on it.
LEMMA UpdateFacts ==
  ASSUME IInv, NEW f \in Forms, NEW r \in RowsOf(Subject(f)),
         found # 0, Update(f, r), r.id = Current.id
  PROVE  /\ IInv'
         /\ Subject(f) \in Kinds
         /\ Current \in Range(mem[Subject(f)])
         /\ \A q : q \in Range(mem'[Subject(f)])
                    <=> (q \in Range(mem[Subject(f)]) /\ q.id # r.id) \/ q = r
         /\ \A j \in Kinds \ {Subject(f)} : mem'[j] = mem[j]
         /\ updateRecord(Subject(f), r)
<1> DEFINE k == Subject(f)
<1>1. /\ form = f /\ mem' = [mem EXCEPT ![k] = [mem[k] EXCEPT ![found] = r]]
      /\ updateRecord(k, r) /\ UNCHANGED <<form, found, asked>>
  BY DEF Update
<1>2. /\ k \in Kinds /\ found \in 1 .. Len(mem[k])
      /\ Current = mem[k][found] /\ asked = {Current.id}
  BY <1>1, CurrentFacts DEF Current
<1> HIDE DEF k
<1>3. mem[k] \in Seq(RowsOf(k)) /\ UniqueIds(mem[k]) /\ r \in RowsOf(k)
  BY <1>2 DEF IInv, ArraysOK, k
<1> DEFINE s == [mem[k] EXCEPT ![found] = r]
<1>4. s \in Seq(RowsOf(k)) /\ Len(s) = Len(mem[k]) /\ s[found] = r
  BY <1>2, <1>3, ReplaceFacts
<1>5. /\ UniqueIds(s)
      /\ \A q : q \in Range(s) <=> (q \in Range(mem[k]) /\ q.id # r.id) \/ q = r
  BY <1>2, <1>3, ReplaceUnique
<1>6. DOMAIN mem' = Kinds /\ mem'[k] = s /\ \A j \in Kinds \ {k} : mem'[j] = mem[j]
  BY <1>1, <1>2 DEF IInv, ArraysOK
<1> HIDE DEF s
<1>7. ArraysOK'
  BY <1>4, <1>5, <1>6 DEF IInv, ArraysOK
<1>8. FormOK'
  <2>1. found \in DOMAIN s
    BY <1>2, <1>3, <1>4, LenProperties
  <2> QED BY <1>1, <1>2, <1>4, <1>6, <2>1 DEF IInv, FormOK, FormIsOnAsked, Current, k
<1>9. Current \in Range(mem[k])
  BY <1>2, <1>3 DEF Range
<1>10. TablesOK' /\ dirty' \subseteq Kinds \X Int
  BY <1>1, <1>2, <1>3, PutFacts
<1> QED BY <1>1, <1>2, <1>5, <1>6, <1>7, <1>8, <1>9, <1>10 DEF IInv, k

LEMMA RelaunchFacts ==
  ASSUME IInv, Relaunch
  PROVE  IInv'
<1>1. TablesOK' /\ ArraysOK' /\ dirty' \subseteq Kinds \X Int
  BY StartFacts DEF Relaunch, IInv, TablesOK, ArraysOK
<1>2. FormOK'
  BY DEF Relaunch, FormOK, FormIsOnAsked
<1> QED BY <1>1, <1>2 DEF IInv

-----------------------------------------------------------------------------
\* The invariant.
LEMMA InitIInv == Init => IInv
<1> SUFFICES ASSUME Init PROVE IInv
  OBVIOUS
<1>1. TablesOK
  BY SeedAssumption DEF Init, TablesOK
<1>2. ArraysOK /\ dirty \subseteq Kinds \X Int
  BY <1>1, StartFacts DEF Init, ArraysOK
<1>3. FormOK
  BY DEF Init, FormOK, FormIsOnAsked
<1> QED BY <1>1, <1>2, <1>3 DEF IInv

LEMMA NextIInv == IInv /\ [Next]_vars => IInv'
<1> SUFFICES ASSUME IInv, [Next]_vars PROVE IInv'
  OBVIOUS
<1>1. CASE QuietStep
  BY <1>1 DEF QuietStep, IInv, TablesOK, ArraysOK, store
<1>2. CASE CreateStep
  BY <1>2, CreateFacts DEF CreateStep
<1>3. CASE DeleteStep
  BY <1>3, DeleteFacts DEF DeleteStep
<1>4. CASE UpdateStep
  BY <1>4, UpdateFacts DEF UpdateStep
<1>5. CASE Relaunch
  BY <1>5, RelaunchFacts
<1>6. CASE UNCHANGED vars
  BY <1>6 DEF vars, store, IInv, TablesOK, ArraysOK, FormOK, FormIsOnAsked, Current
<1> QED BY <1>1, <1>2, <1>3, <1>4, <1>5, <1>6, NextStep DEF FormStep

LEMMA InvariantAlways == Spec => []IInv
BY InitIInv, NextIInv, PTL DEF Spec

LEMMA TypesOfInvariant == IInv => TypeOK
<1> SUFFICES ASSUME IInv PROVE TypeOK
  OBVIOUS
<1>1. \A k \in Kinds : Range(mem[k]) \subseteq RowsOf(k)
  BY Elements DEF IInv, Range
<1> QED BY <1>1 DEF TypeOK, IInv, TablesOK, ArraysOK, FormOK, UniqueIds

\* Whatever is created, updated and deleted in whatever order, and whether or not
\* SQLite does its part, every row and record is one of its kind, no order is without
\* lines, and an id names one record in the arrays and one row on file.
THEOREM ModalTypes == Spec => []TypeOK
BY InvariantAlways, TypesOfInvariant, PTL

\* Every form that has found a record is on the record that was asked for, although
\* it keeps no more than a position in an array that others change.
THEOREM FormAlwaysOnAsked == Spec => []FormIsOnAsked
<1>1. IInv => FormIsOnAsked
  BY DEF IInv, FormOK
<1> QED BY <1>1, InvariantAlways, PTL

-----------------------------------------------------------------------------
\* Costs

\* In one array two records are the same when their ids are.
LEMMA OneRecord ==
  ASSUME ArraysOK, NEW k \in Kinds, NEW o \in Range(mem[k]), NEW p \in Range(mem[k]),
         o.id = p.id
  PROVE  o = p
BY DEF ArraysOK, UniqueIds, Range

CostsFollow ==
  \A o \in Range(mem["order"]), p \in Range(mem'["order"]) :
    p.id = o.id => Excess(p) \in {Excess(o), 0} \cup {Excess(r) : r \in db["order"]}

\* A step that brings no order under an id there is but those of the file.
LEMMA OldOrders ==
  ASSUME IInv,
         NEW o \in Range(mem["order"]), NEW p \in Range(mem["order"]) \cup db["order"], p.id = o.id
  PROVE  Excess(p) \in {Excess(o), 0} \cup {Excess(r) : r \in db["order"]}
<1>1. CASE p \in db["order"]
  BY <1>1
<1>2. CASE p \in Range(mem["order"])
  BY <1>2, OneRecord DEF IInv, Kinds
<1> QED BY <1>1, <1>2

LEMMA NextCosts == IInv /\ [Next]_vars => CostsFollow \/ UNCHANGED vars
<1> SUFFICES ASSUME IInv, FormStep,
                    NEW o \in Range(mem["order"]), NEW p \in Range(mem'["order"]), p.id = o.id
             PROVE  Excess(p) \in {Excess(o), 0} \cup {Excess(r) : r \in db["order"]}
  BY NextStep DEF CostsFollow
<1>k. "order" \in Kinds
  BY DEF Kinds
<1>1. CASE QuietStep
  BY <1>1, OldOrders DEF QuietStep
<1>2. ASSUME NEW k \in Kinds, NEW r \in RowsOf(k), Create(k, r)
      PROVE  p \in Range(mem["order"])
  <2>1. CASE k = "order"
    <3>1. o.id # r.id
      BY <1>2, <2>1 DEF Create, Ids
    <3> QED BY <1>2, <2>1, <3>1, CreateFacts
  <2>2. CASE k # "order"
    BY <1>2, <1>k, <2>2, CreateFacts
  <2> QED BY <2>1, <2>2
<1>3. ASSUME NEW k \in Kinds, NEW i \in DOMAIN mem[k], Delete(k, i)
      PROVE  p \in Range(mem["order"])
  BY <1>3, <1>k, DeleteFacts
<1>4. CASE UpdateStep
  <2>1. PICK f \in Forms : \E r \in RowsOf(Subject(f)) :
               /\ found # 0 /\ Update(f, r) /\ r.id = Current.id
               /\ Subject(f) = "order" => Excess(r) \in {Excess(Current), 0}
    BY <1>4 DEF UpdateStep
  <2>2. PICK r \in RowsOf(Subject(f)) :
               /\ found # 0 /\ Update(f, r) /\ r.id = Current.id
               /\ Subject(f) = "order" => Excess(r) \in {Excess(Current), 0}
    BY <2>1
  <2>3. CASE Subject(f) # "order"
    BY <1>k, <2>2, <2>3, UpdateFacts, OldOrders
  <2>4. CASE Subject(f) = "order"
    <3>1. /\ Current \in Range(mem["order"])
          /\ (p \in Range(mem["order"]) /\ p.id # r.id) \/ p = r
      BY <2>2, <2>4, UpdateFacts
    <3>2. CASE p = r
      <4>1. o = Current
        BY <1>k, <2>2, <3>1, <3>2, OneRecord DEF IInv
      <4> QED BY <2>2, <2>4, <3>2, <4>1
    <3> QED BY <3>1, <3>2, OldOrders
  <2> QED BY <2>3, <2>4
<1>5. CASE Relaunch
  <2>1. Range(mem'["order"]) = db["order"] \/ Range(mem'["order"]) = {}
    BY <1>5, <1>k, StartFacts DEF Relaunch, IInv
  <2> QED BY <2>1, OldOrders
<1> QED BY <1>1, <1>2, <1>3, <1>4, <1>5, OldOrders DEF FormStep, CreateStep, DeleteStep

\* An order's cost follows its lines through every form, from any rows a first start
\* wrote: a step leaves the difference as it was, clears it or takes it from the file.
THEOREM CostsAlwaysFollow == Spec => CostFollowsLines
<1>1. IInv /\ [Next]_vars => [CostsFollow]_vars
  BY NextCosts
<1>2. [CostsFollow]_vars => [\A o \in Range(mem["order"]), p \in Range(mem'["order"]) :
        p.id = o.id => Excess(p) \in {Excess(o), 0} \cup {Excess(r) : r \in db["order"]}]_vars
  BY DEF CostsFollow
<1> QED BY <1>1, <1>2, InvariantAlways, PTL DEF Spec, CostFollowsLines

-----------------------------------------------------------------------------
\* The forms, the arrays and the file are a write-through store.

\* The abstract store is about the same kinds of records.
LEMMA SameKinds == W!Kinds = Kinds
BY DEF W!Kinds, Kinds

LEMMA StartReads ==
  ASSUME TablesOK, NEW m \in generateDummyData
  PROVE  /\ [k \in Kinds |-> Range(m[k])] \in W!Reads
         /\ Unread(m) = W!Missed([k \in Kinds |-> Range(m[k])])
<1> DEFINE v == [k \in Kinds |-> Range(m[k])]
<1>1. v \in W!Reads
  <2>1. \A k \in Kinds : Range(m[k]) = db[k] \/ (IOMayFail /\ Range(m[k]) = {})
    BY StartFacts
  <2> QED BY <2>1, SameKinds DEF W!Reads
<1>2. Unread(m) = W!Missed(v)
  <2>1. \A key \in UNION {{<<k, id>> : id \in Ids(db[k])} : k \in Kinds} :
          key[1] \in Kinds /\ v[key[1]] = Range(m[key[1]])
    OBVIOUS
  <2>2. W!Missed(v) = {key \in UNION {{<<k, id>> : id \in Ids(db[k])} : k \in Kinds} :
                         key[2] \notin Ids(v[key[1]])}
    BY DEF W!Missed, W!Ids, Ids, W!Kinds, Kinds
  <2> QED BY <2>1, <2>2 DEF Unread
<1> QED BY <1>1, <1>2

LEMMA RefineInit == Init => W!WInit
<1> SUFFICES ASSUME Init PROVE W!WInit
  OBVIOUS
<1>1. TablesOK
  BY InitIInv DEF IInv
<1>2. Shown \in W!Reads /\ dirty = W!Missed(Shown)
  BY <1>1, StartReads DEF Init, Shown
<1> QED BY <1>1, <1>2, SameKinds DEF W!WInit, TablesOK, Stored

LEMMA RefineStep == IInv /\ [Next]_vars => [W!WNext]_(W!wvars)
<1> SUFFICES ASSUME IInv, FormStep PROVE [W!WNext]_(W!wvars)
  <2>1. CASE UNCHANGED vars
    BY <2>1 DEF vars, store, W!wvars, Shown
  <2> QED BY <2>1, NextStep
<1>1. CASE QuietStep
  BY <1>1 DEF QuietStep, W!wvars, Shown, store
<1>2. ASSUME NEW k \in Kinds, NEW r \in RowsOf(k), Create(k, r)
      PROVE  W!WNext
  <2>1. Shown' = [Shown EXCEPT ![k] = Shown[k] \cup {r}]
    BY <1>2, CreateFacts DEF Shown
  <2>2. r.id \notin Ids(Shown[k]) /\ saveRecord(k, r)
    BY <1>2 DEF Create, Shown
  <2>3. W!Insert(k, r)
    BY <2>1, <2>2 DEF W!Insert, W!Seen, W!saveRecord, W!write, W!Ids, W!Without,
                      saveRecord, write, Ids, Without
  <2>4. r \in Shown'[k]
    BY <2>1 DEF Shown
  <2> QED BY <2>3, <2>4, SameKinds DEF W!WNext, Stored
<1>3. ASSUME NEW k \in Kinds, NEW i \in DOMAIN mem[k], Delete(k, i)
      PROVE  W!WNext
  <2>1. PICK r \in RowsOf(k) : r = mem[k][i]
    BY Elements DEF IInv
  <2>2. r \in Shown[k] /\ Shown' = [Shown EXCEPT ![k] = Shown[k] \ {r}]
    BY <1>3, <2>1, DeleteFacts DEF Shown
  <2>3. deleteRecord(k, r.id)
    BY <1>3, <2>1 DEF Delete
  <2>4. W!Remove(k, r)
    BY <2>2, <2>3 DEF W!Remove, W!Seen, W!deleteRecord, W!write, W!Without,
                      deleteRecord, write, Without
  <2> QED BY <2>2, <2>4, SameKinds DEF W!WNext, Stored
<1>4. ASSUME NEW f \in Forms, NEW r \in RowsOf(Subject(f)),
             found # 0, Update(f, r), r.id = Current.id
      PROVE  W!WNext
  <2> DEFINE k == Subject(f)
  <2>1. /\ k \in Kinds /\ Current \in Range(mem[k]) /\ updateRecord(k, r)
        /\ Range(mem'[k]) = Without(Range(mem[k]), r.id) \cup {r}
        /\ \A j \in Kinds \ {k} : mem'[j] = mem[j]
    BY <1>4, UpdateFacts DEF Without
  <2> HIDE DEF k
  <2>2. /\ Shown' = [Shown EXCEPT ![k] = Without(Shown[k], r.id) \cup {r}]
        /\ r.id \in Ids(Shown[k])
    BY <1>4, <2>1 DEF Shown, Ids
  <2>3. W!Change(k, r)
    BY <2>1, <2>2 DEF W!Change, W!Seen, W!updateRecord, W!write, W!Ids, W!Without,
                      updateRecord, write, Ids, Without
  <2>4. r \in Shown'[k]
    BY <2>1, <2>2 DEF Shown
  <2> QED BY <2>1, <2>3, <2>4, SameKinds DEF W!WNext, Stored, k
<1>5. CASE Relaunch
  <2>1. Shown' \in W!Reads /\ dirty' = W!Missed(Shown')
    BY <1>5, StartReads DEF IInv, Relaunch, Shown
  <2> QED BY <1>5, <2>1 DEF Relaunch, W!Restart, W!WNext
<1> QED BY <1>1, <1>2, <1>3, <1>4, <1>5
        DEF FormStep, CreateStep, DeleteStep, UpdateStep

\* The modal forms keep the promise of the write-through store, as the app of
\* Assignment 9 does: each tap changes one record on both sides, reads the file, or
\* does neither.
THEOREM ModalImplementsStore == Spec => ImplementsWriteThrough
BY InvariantAlways, RefineInit, RefineStep, PTL DEF Spec, ImplementsWriteThrough, W!WSpec
=============================================================================
