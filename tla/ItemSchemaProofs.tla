-------------------------- MODULE ItemSchemaProofs --------------------------
(***************************************************************************)
(* The columns of a schema and the values found under them, for every      *)
(* catalog, cyclic and malformed ones included.                            *)
(***************************************************************************)
EXTENDS ItemSchema, SequenceTheorems, TLAPS

Types == {"BOOLEAN", "INTEGER", "DOUBLE", "VARCHAR", "JSON"}
Names == {Doc[n].properties[k][1] : n \in DOMAIN Doc \cup {NoDoc}, k \in Nat}
Place == [doc : DOMAIN Doc, catalog : Ids, collection : Ids]
Call  == [doc : DOMAIN Doc, i : Nat, catalog : Ids, collection : Ids, item_count : 0..1]

CallsTyped ==
  /\ callee \in Place \cup {NoCall} /\ stack \in Seq(Call) /\ iter \in Nat
  /\ status \in {"new", "open", "bound", "failed"}

ColumnsTyped ==
  /\ property_set \in [DOMAIN property_set -> Nat]
  /\ column_names \in Seq(Names) /\ column_types \in Seq(Types)
  /\ Len(column_types) = Len(column_names)

(* The index of a key and the column of that name are each other's inverse.*)
Indexed ==
  /\ \A key \in DOMAIN property_set :
       property_set[key] < Len(column_names) /\ column_names[property_set[key] + 1] = key
  /\ \A c \in 1..Len(column_names) :
       column_names[c] \in DOMAIN property_set /\ property_set[column_names[c]] = c - 1

IInv == CallsTyped /\ ColumnsTyped /\ Indexed

LEMMA StepCases ==
  ASSUME [Next]_vars
  PROVE  \/ ReadFirstPage \/ MissingType \/ IgnoreOther \/ EnterCatalog \/ EnterCollection
         \/ EnterFeatureCollection \/ KnownItemType \/ NewItemType \/ MissingProperties
         \/ ParseProperty \/ EndProperties \/ SkipLink \/ FollowLink \/ Return \/ BindReturns
         \/ UNCHANGED vars
BY DEF Next, ParseSchemaOfObject

(***************************************************************************)
(* Calls.                                                                  *)
(***************************************************************************)
LEMMA FetchTyped ==
  ASSUME NEW href, NEW catalog \in Ids, NEW collection \in Ids, Fetch(href, catalog, collection)
  PROVE  callee' \in Place \cup {NoCall} /\ status' \in {"open", "failed"}
BY SchemaAssumption DEF Fetch, Place

LEMMA TopIsCall ==
  ASSUME stack \in Seq(Call), stack # <<>>
  PROVE  /\ Len(stack) \in 1..Len(stack) /\ Top \in Call
         /\ SubSeq(stack, 1, Len(stack) - 1) \in Seq(Call)
<1>1. PICK n \in Nat : n = Len(stack)
  OBVIOUS
<1>2. n > 0 /\ n \in 1..n
  BY <1>1
<1>3. Top \in Call
  BY <1>1, <1>2 DEF Top
<1>4. SubSeq(stack, 1, n - 1) \in Seq(Call)
  BY <1>1, <1>2, SubSeqProperties
<1> QED BY <1>1, <1>2, <1>3, <1>4

LEMMA CallingTyped ==
  ASSUME CallsTyped, NEW type, Calling(type)
  PROVE  callee \in Place /\ callee.doc \in DOMAIN Doc
BY DEF CallsTyped, Calling, Place

LEMMA CalleeTyped ==
  ASSUME CallsTyped
  PROVE  callee.doc \in DOMAIN Doc \cup {NoDoc}
<1>1. CASE callee \in Place
  BY <1>1 DEF Place
<1>2. CASE callee = NoCall
  BY <1>2 DEF NoCall
<1> QED BY <1>1, <1>2 DEF CallsTyped

LEMMA IdOrTyped ==
  ASSUME CallsTyped, callee \in Place
  PROVE  IdOr(D.id, callee.catalog) \in Ids /\ IdOr(D.id, callee.collection) \in Ids
BY DEF IdOr, D, Place, Ids

LEMMA CallsStayTyped ==
  ASSUME CallsTyped, [Next]_vars
  PROVE  CallsTyped'
<1>1. CASE ReadFirstPage
  <2>1. "" \in Ids
    BY DEF Ids
  <2> QED BY <1>1, <2>1, FetchTyped DEF ReadFirstPage, CallsTyped
<1>2. CASE MissingType \/ MissingProperties \/ BindReturns \/ UNCHANGED vars
  BY <1>2 DEF MissingType, Throw, MissingProperties, BindReturns, CallsTyped, vars
<1>3. CASE IgnoreOther \/ KnownItemType \/ EndProperties
  BY <1>3 DEF IgnoreOther, KnownItemType, EndProperties, CallsTyped
<1>4. CASE EnterCatalog \/ EnterCollection
  <2>1. callee \in Place
    BY <1>4, CallingTyped DEF EnterCatalog, EnterCollection
  <2>2. ASSUME NEW a \in Ids, NEW b \in Ids
        PROVE  Frame(a, b) \in Call
    BY <2>1 DEF Frame, Call, Place
  <2>3. callee.catalog \in Ids /\ callee.collection \in Ids
    BY <2>1 DEF Place
  <2>4. stack' \in Seq(Call) /\ callee' = NoCall /\ UNCHANGED <<iter, status>>
    BY <1>4, <2>1, <2>2, <2>3, IdOrTyped DEF EnterCatalog, EnterCollection, CallsTyped
  <2> QED BY <2>4 DEF CallsTyped
<1>5. CASE EnterFeatureCollection
  <2>1. callee \in Place /\ callee.doc \in DOMAIN Doc
    BY <1>5, CallingTyped DEF EnterFeatureCollection
  <2>2. \A f \in DOMAIN D.features : D.features[f] \in DOMAIN Doc \cup {NotObject}
    <3>1. D.features \in Seq(DOMAIN Doc \cup {NotObject})
      BY <2>1, SchemaAssumption DEF D, DocShape
    <3> QED BY <3>1
  <2>3. ASSUME NEW first \in Objects
        PROVE  [callee EXCEPT !.doc = D.features[first]] \in Place
    BY <2>1, <2>2, <2>3 DEF Objects, ObjectsOf, Place
  <2> QED BY <1>5, <2>3 DEF EnterFeatureCollection, CallsTyped
<1>6. CASE NewItemType \/ ParseProperty
  BY <1>6 DEF NewItemType, ParseProperty, CallsTyped
<1>7. CASE SkipLink
  <2>1. stack # <<>> /\ stack \in Seq(Call)
    BY <1>7 DEF SkipLink, OnLink, Looping, CallsTyped
  <2>2. Len(stack) \in 1..Len(stack) /\ Top \in Call
    BY <2>1, TopIsCall
  <2>3. stack' = [stack EXCEPT ![Len(stack)] = [Top EXCEPT !.i = Top.i + 1]]
    BY <1>7 DEF SkipLink, Top
  <2>4. [Top EXCEPT !.i = Top.i + 1] \in Call
    BY <2>2 DEF Call
  <2>5. stack' \in Seq(Call)
    BY <2>1, <2>2, <2>3, <2>4, ExceptSeq
  <2> QED BY <1>7, <2>5 DEF SkipLink, CallsTyped
<1>8. CASE FollowLink
  <2>1. stack # <<>> /\ stack \in Seq(Call)
    BY <1>8 DEF FollowLink, OnLink, Looping, CallsTyped
  <2>2. Len(stack) \in 1..Len(stack) /\ Top \in Call
    BY <2>1, TopIsCall
  <2>3. PICK n \in Nat : n = Len(stack) /\ n \in 1..n
    BY <2>1, <2>2
  <2> DEFINE next  == [stack EXCEPT ![n] = [Top EXCEPT !.i = Top.i + 1]]
             frame == [next[n] EXCEPT !.item_count = IF Link.rel = "item" THEN @ + 1 ELSE @]
  <2>4. next \in Seq(Call) /\ Len(next) = n /\ next[n] = [Top EXCEPT !.i = Top.i + 1]
    <3>1. [Top EXCEPT !.i = Top.i + 1] \in Call
      BY <2>2 DEF Call
    <3> QED BY <2>1, <2>3, <3>1, ExceptSeq
  <2>5. frame \in Call
    <3>1. next[n] \in Call /\ next[n].item_count = Top.item_count
      BY <2>2, <2>4 DEF Call
    <3>2. Link.rel = "item" => Top.item_count = 0
      BY <1>8 DEF FollowLink, Followed, Sampled
    <3> HIDE DEF next
    <3> QED BY <3>1, <3>2 DEF Call
  <2>6. stack' \in Seq(Call)
    <3>1. stack' = [next EXCEPT ![n] = frame]
      BY <1>8, <2>3 DEF FollowLink, Top
    <3> HIDE DEF next, frame
    <3> QED BY <2>3, <2>4, <2>5, <3>1, ExceptSeq
  <2>7. callee' \in Place \cup {NoCall} /\ status' \in {"open", "failed"}
    BY <1>8, <2>2, FetchTyped DEF FollowLink, Call
  <2> QED BY <1>8, <2>6, <2>7 DEF FollowLink, CallsTyped
<1>9. CASE Return
  <2>1. stack # <<>> /\ stack \in Seq(Call)
    BY <1>9 DEF Return, Looping, CallsTyped
  <2> QED BY <1>9, <2>1, TopIsCall DEF Return, CallsTyped
<1> QED BY <1>1, <1>2, <1>3, <1>4, <1>5, <1>6, <1>7, <1>8, <1>9, StepCases

(***************************************************************************)
(* Columns.                                                                *)
(***************************************************************************)
LEMMA ColumnSteps ==
  ASSUME [Next]_vars
  PROVE  UNCHANGED <<property_set, column_names, column_types>> \/ (ParseProperty /\ AddColumn /\ Key \notin DOMAIN property_set)
<1>1. CASE ReadFirstPage \/ MissingType \/ IgnoreOther \/ EnterCatalog \/ EnterCollection
  BY <1>1 DEF ReadFirstPage, MissingType, Throw, IgnoreOther, EnterCatalog, EnterCollection, schema
<1>2. CASE EnterFeatureCollection \/ KnownItemType \/ NewItemType \/ MissingProperties
  BY <1>2 DEF EnterFeatureCollection, KnownItemType, NewItemType, MissingProperties, schema
<1>3. CASE EndProperties \/ SkipLink \/ FollowLink \/ Return \/ BindReturns \/ UNCHANGED vars
  BY <1>3 DEF EndProperties, SkipLink, FollowLink, Return, BindReturns, vars, schema
<1>4. CASE ParseProperty
  BY <1>4 DEF ParseProperty
<1> QED BY <1>1, <1>2, <1>3, <1>4, StepCases

(* A new column goes to the end, and its index says so.                    *)
LEMMA AddColumnKeeps ==
  ASSUME CallsTyped, ColumnsTyped, Indexed, AddColumn, Key \notin DOMAIN property_set
  PROVE  ColumnsTyped' /\ Indexed'
<1>1. PICK n \in Nat : n = Len(column_names)
  BY LenProperties DEF ColumnsTyped
<1>2. Key \in Names
  <2>1. iter \in Nat
    BY DEF CallsTyped
  <2> QED BY <2>1, CalleeTyped DEF Key, D, Names
<1>3. GetPropertyTypeOfJsonValue(D.properties[iter][2]) \in Types
  BY DEF GetPropertyTypeOfJsonValue, Types
<1>4. /\ column_names' \in Seq(Names) /\ Len(column_names') = n + 1
      /\ column_names'[n + 1] = Key /\ \A c \in 1..n : column_names'[c] = column_names[c]
  BY <1>1, <1>2, AppendProperties DEF AddColumn, ColumnsTyped
<1>5. column_types' \in Seq(Types) /\ Len(column_types') = n + 1
  BY <1>1, <1>3, AppendProperties DEF AddColumn, ColumnsTyped
<1>6. /\ DOMAIN property_set' = DOMAIN property_set \cup {Key}
      /\ property_set'[Key] = n
      /\ \A key \in DOMAIN property_set : property_set'[key] = property_set[key]
      /\ property_set' \in [DOMAIN property_set' -> Nat]
  BY <1>1 DEF AddColumn, NextIndex, ColumnsTyped
<1>7. ColumnsTyped'
  BY <1>4, <1>5, <1>6 DEF ColumnsTyped
<1>8. ASSUME NEW key \in DOMAIN property_set'
      PROVE  property_set'[key] < Len(column_names') /\ column_names'[property_set'[key] + 1] = key
  <2>1. CASE key = Key
    BY <1>4, <1>6, <2>1
  <2>2. CASE key # Key
    <3>1. key \in DOMAIN property_set /\ property_set'[key] = property_set[key]
      BY <1>6, <1>8, <2>2
    <3>2. PICK p \in Nat : p = property_set[key]
      BY <3>1 DEF ColumnsTyped
    <3>3. p < n /\ column_names[p + 1] = key
      BY <1>1, <3>1, <3>2 DEF Indexed
    <3>4. p + 1 \in 1..n
      BY <3>3
    <3> QED BY <1>4, <3>1, <3>2, <3>3, <3>4
  <2> QED BY <2>1, <2>2
<1>9. ASSUME NEW c \in 1..Len(column_names')
      PROVE  column_names'[c] \in DOMAIN property_set' /\ property_set'[column_names'[c]] = c - 1
  <2>1. CASE c = n + 1
    BY <1>4, <1>6, <2>1
  <2>2. CASE c # n + 1
    <3>1. c \in 1..n
      BY <1>4, <2>2
    <3> QED BY <1>1, <1>4, <1>6, <3>1 DEF Indexed
  <2> QED BY <2>1, <2>2
<1> QED BY <1>7, <1>8, <1>9 DEF Indexed

LEMMA IInvInvariant == Spec => []IInv
<1>1. Init => IInv
  <2> SUFFICES ASSUME Init PROVE IInv
    OBVIOUS
  <2>1. /\ stack \in Seq(Call) /\ column_names \in Seq(Names) /\ column_types \in Seq(Types)
        /\ Len(column_names) = 0 /\ Len(column_types) = 0
    BY EmptySeq DEF Init
  <2>2. DOMAIN property_set = {} /\ property_set \in [DOMAIN property_set -> Nat]
    BY DEF Init
  <2> QED BY <2>1, <2>2 DEF Init, IInv, CallsTyped, ColumnsTyped, Indexed
<1>2. IInv /\ [Next]_vars => IInv'
  <2> SUFFICES ASSUME IInv, [Next]_vars PROVE IInv'
    OBVIOUS
  <2>1. CallsTyped'
    BY CallsStayTyped DEF IInv
  <2>2. CASE UNCHANGED <<property_set, column_names, column_types>>
    BY <2>1, <2>2 DEF IInv, ColumnsTyped, Indexed
  <2>3. CASE AddColumn /\ Key \notin DOMAIN property_set
    BY <2>1, <2>3, AddColumnKeeps DEF IInv
  <2> QED BY <2>2, <2>3, ColumnSteps
<1> QED BY <1>1, <1>2, PTL DEF Spec

(***************************************************************************)
(* Theorems.                                                               *)
(***************************************************************************)
(* Every key has the index of a column, and no level of a catalog gives    *)
(* more than one item to the schema, whatever the catalog.                 *)
THEOREM TypeCorrect == Spec => []TypeOK
<1>1. IInv => TypeOK
  <2> SUFFICES ASSUME IInv PROVE TypeOK
    OBVIOUS
  <2>1. PICK n \in Nat : n = Len(column_names) /\ n = Len(column_types)
    BY LenProperties DEF IInv, ColumnsTyped
  <2>2. property_set \in [DOMAIN property_set -> 0..(n - 1)]
    BY <2>1 DEF IInv, ColumnsTyped, Indexed
  <2>3. \A k \in DOMAIN column_types : column_types[k] \in Types
    BY DEF IInv, ColumnsTyped
  <2>4. \A k \in DOMAIN stack : stack[k] \in Call
    BY DEF IInv, CallsTyped
  <2>5. callee.doc \in DOMAIN Doc \cup {NoDoc}
    BY CalleeTyped DEF IInv
  <2> QED BY <2>1, <2>2, <2>3, <2>4, <2>5 DEF TypeOK, IInv, CallsTyped, ColumnsTyped, Types, Call
<1> QED BY <1>1, IInvInvariant, PTL

(* The value of a property of any item is found in the column of its name, *)
(* and nothing is found in a column whose property the item lacks.         *)
THEOREM ValuesUnderTheirNames == Spec => []ValueUnderItsName
<1>1. ASSUME IInv, NEW n \in Features, NEW c \in DOMAIN column_names
      PROVE  ValueOf(RowProperties(n), FirstProperty + c - 1) =
               IF column_names[c] \in Keys(n)
               THEN GetPropertyValueOfJsonValue(Property(n, column_names[c])) ELSE NULL
  <2> DEFINE name == column_names[c]
             shared == Keys(n) \cap DOMAIN property_set
             row == RowProperties(n)
  <2>1. c \in 1..Len(column_names) /\ Len(column_names) \in Nat
    BY <1>1, LenProperties DEF IInv, ColumnsTyped
  <2>2. name \in DOMAIN property_set /\ property_set[name] = c - 1
    BY <1>1, <2>1 DEF IInv, Indexed
  <2>3. ASSUME NEW key \in DOMAIN property_set, property_set[key] = c - 1
        PROVE  key = name
    <3>1. (c - 1) + 1 = c
      BY <2>1
    <3> QED BY <1>1, <2>3, <3>1 DEF IInv, Indexed
  <2>4. (FirstProperty + c - 1) - FirstProperty = c - 1
    BY <2>1, SchemaAssumption
  <2>5. DOMAIN row = {property_set[key] : key \in shared}
    BY DEF RowProperties
  <2>6. ValueOf(row, FirstProperty + c - 1) = IF c - 1 \in DOMAIN row THEN row[c - 1] ELSE NULL
    BY <2>4 DEF ValueOf
  <2>7. CASE name \in Keys(n)
    <3>1. c - 1 \in DOMAIN row
      BY <2>2, <2>5, <2>7
    <3>2. (CHOOSE key \in shared : property_set[key] = c - 1) = name
      BY <2>2, <2>3, <2>7
    <3>3. row[c - 1] = GetPropertyValueOfJsonValue(Property(n, name))
      BY <2>5, <3>1, <3>2 DEF RowProperties
    <3> QED BY <2>6, <2>7, <3>1, <3>3
  <2>8. CASE name \notin Keys(n)
    <3>1. c - 1 \notin DOMAIN row
      BY <2>3, <2>5, <2>8
    <3> QED BY <2>6, <2>8, <3>1
  <2> QED BY <2>7, <2>8
<1>2. IInv => ValueUnderItsName
  BY <1>1 DEF ValueUnderItsName
<1> QED BY <1>2, IInvInvariant, PTL

(* Values appended to a list of names or of types.                         *)
LEMMA AppendShows ==
  ASSUME NEW S, NEW s \in Seq(S), NEW x
  PROVE  /\ Len(Append(s, x)) = Len(s) + 1 /\ Append(s, x)[Len(s) + 1] = x
         /\ \A k \in 1..Len(s) : Append(s, x)[k] = s[k]
OBVIOUS

(***************************************************************************)
(* Which columns the items give.                                           *)
(***************************************************************************)
(* Columns that show exactly the first of these places, in their order.    *)
ColumnsAre(samples, places) ==
  /\ \A c \in 1..Len(column_names) : \E p \in FirstIn(samples, places) : Shows(c, samples, p)
  /\ \A p \in places : \E c \in 1..Len(column_names) : column_names[c] = KeyAt(samples, p)
  /\ \A p \in FirstIn(samples, places) :
       \E c \in 1..Len(column_names) : Shows(c, samples, p)
  /\ \A c, d \in 1..Len(column_names) : \A p, r \in FirstIn(samples, places) :
       c < d /\ Shows(c, samples, p) /\ Shows(d, samples, r) => Before(p, r)

(* They do so for as long as neither they nor the places change.           *)
LEMMA ColumnsKept ==
  ASSUME NEW samples, NEW places, NEW samples2, ColumnsAre(samples, places),
         \A p \in places : samples2[p[1]] = samples[p[1]],
         UNCHANGED <<column_names, column_types>>
  PROVE  ColumnsAre(samples2, places)'
<1>1. \A p \in places : PropertyAt(samples2, p) = PropertyAt(samples, p)
  BY DEF PropertyAt
<1>2. \A p \in places : KeyAt(samples2, p) = KeyAt(samples, p)
  BY <1>1 DEF KeyAt
<1>3. FirstIn(samples2, places) = FirstIn(samples, places)
  BY <1>2 DEF FirstIn
<1>4. FirstIn(samples, places) \subseteq places
  BY DEF FirstIn
<1>5. ASSUME NEW c, NEW p \in places
      PROVE  Shows(c, samples2, p)' <=> Shows(c, samples, p)
  BY <1>1, <1>2 DEF Shows
<1> QED BY <1>2, <1>3, <1>4, <1>5 DEF ColumnsAre

(* A place behind all others whose key has a column is not the first.      *)
LEMMA KnownKey ==
  ASSUME NEW samples, NEW places, NEW z, ColumnsAre(samples, places),
         \A p \in places : Before(p, z) /\ ~Before(z, p),
         NEW k \in 1..Len(column_names), column_names[k] = KeyAt(samples, z),
         UNCHANGED <<column_names, column_types>>
  PROVE  ColumnsAre(samples, places \cup {z})'
<1>1. PICK q \in places : KeyAt(samples, q) = KeyAt(samples, z)
  BY DEF ColumnsAre, FirstIn, Shows
<1>2. FirstIn(samples, places \cup {z}) = FirstIn(samples, places)
  BY <1>1 DEF FirstIn
<1>3. ASSUME NEW c, NEW p
      PROVE  Shows(c, samples, p)' <=> Shows(c, samples, p)
  BY DEF Shows
<1> QED BY <1>2, <1>3 DEF ColumnsAre

(* One whose key has none is the first, and gets the last column.          *)
LEMMA NewKey ==
  ASSUME NEW samples, NEW places, NEW z, ColumnsAre(samples, places), ColumnsTyped,
         \A p \in places : Before(p, z) /\ ~Before(z, p), ~Before(z, z),
         \A c \in 1..Len(column_names) : column_names[c] # KeyAt(samples, z),
         ColumnsTyped',
         column_names' = Append(column_names, KeyAt(samples, z)),
         column_types' = Append(column_types, GetPropertyTypeOfJsonValue(PropertyAt(samples, z)[2]))
  PROVE  ColumnsAre(samples, places \cup {z})'
<1>1. PICK n \in Nat : n = Len(column_names) /\ n = Len(column_types)
  BY LenProperties DEF ColumnsTyped
<1>2. /\ Len(column_names') = n + 1
      /\ column_names'[n + 1] = KeyAt(samples, z)
      /\ \A c \in 1..n : column_names'[c] = column_names[c]
  <2>1. column_names \in Seq(Names) /\ column_names' = Append(column_names, KeyAt(samples, z))
    BY DEF ColumnsTyped
  <2>2. PICK names, key : names = column_names /\ key = KeyAt(samples, z)
    OBVIOUS
  <2>3. /\ Len(Append(names, key)) = Len(names) + 1 /\ Append(names, key)[Len(names) + 1] = key
        /\ \A c \in 1..Len(names) : Append(names, key)[c] = names[c]
    BY ONLY <2>1, <2>2, AppendShows
  <2>4. column_names' = Append(names, key) /\ n = Len(names)
    BY ONLY <1>1, <2>1, <2>2
  <2> QED BY ONLY <2>2, <2>3, <2>4
<1>3. /\ column_types'[n + 1] = GetPropertyTypeOfJsonValue(PropertyAt(samples, z)[2])
      /\ \A c \in 1..n : column_types'[c] = column_types[c]
  <2>1. /\ column_types \in Seq(Types)
        /\ column_types' =
             Append(column_types, GetPropertyTypeOfJsonValue(PropertyAt(samples, z)[2]))
    BY DEF ColumnsTyped
  <2> QED BY ONLY <1>1, <2>1, AppendShows
<1>4. \A p \in places : KeyAt(samples, p) # KeyAt(samples, z)
  BY DEF ColumnsAre
<1>5. z \notin places
  BY <1>4
<1>6. FirstIn(samples, places \cup {z}) = FirstIn(samples, places) \cup {z}
  BY <1>4 DEF FirstIn
<1>7. FirstIn(samples, places) \subseteq places
  BY DEF FirstIn
<1>8. ASSUME NEW c \in 1..n, NEW p
      PROVE  Shows(c, samples, p)' <=> Shows(c, samples, p)
  BY <1>2, <1>3 DEF Shows
<1>9. Shows(n + 1, samples, z)'
  BY <1>2, <1>3 DEF Shows
<1>10. ASSUME NEW p \in places PROVE ~Shows(n + 1, samples, p)'
  BY <1>2, <1>4 DEF Shows
<1>11. ASSUME NEW c \in 1..n PROVE ~Shows(c, samples, z)'
  BY <1>1, <1>2 DEF Shows
<1>12. /\ \A c \in 1..(n + 1) : c \in 1..n \/ c = n + 1
       /\ \A c \in 1..n : c \in 1..(n + 1) /\ c < n + 1
       /\ n + 1 \in 1..(n + 1)
  OBVIOUS
<1>13. \A c \in 1..(n + 1) : \E p \in FirstIn(samples, places) \cup {z} : Shows(c, samples, p)'
  BY <1>1, <1>8, <1>9, <1>12 DEF ColumnsAre
<1>14. \A p \in places \cup {z} : \E c \in 1..(n + 1) : column_names'[c] = KeyAt(samples, p)
  BY <1>1, <1>2, <1>12 DEF ColumnsAre
<1>15. \A p \in FirstIn(samples, places) \cup {z} : \E c \in 1..(n + 1) : Shows(c, samples, p)'
  BY <1>1, <1>8, <1>9, <1>12 DEF ColumnsAre
<1>16. ASSUME NEW c \in 1..(n + 1), NEW d \in 1..(n + 1), c < d,
              NEW p \in FirstIn(samples, places) \cup {z},
              NEW r \in FirstIn(samples, places) \cup {z},
              Shows(c, samples, p)', Shows(d, samples, r)'
       PROVE  Before(p, r)
  <2>1. c \in 1..n
    BY <1>16
  <2>2. p \in FirstIn(samples, places) /\ p \in places
    BY <1>7, <1>11, <1>16, <2>1
  <2>3. CASE d \in 1..n
    <3>1. r \in FirstIn(samples, places)
      BY <1>11, <1>16, <2>3
    <3>2. Shows(c, samples, p) /\ Shows(d, samples, r)
      BY <1>8, <1>16, <2>1, <2>3
    <3> QED BY <1>1, <1>16, <2>1, <2>2, <2>3, <3>1, <3>2 DEF ColumnsAre
  <2>4. CASE d = n + 1
    <3>1. r = z
      BY <1>7, <1>10, <1>16, <2>4
    <3> QED BY <2>2, <3>1
  <2> QED BY <1>12, <2>3, <2>4
<1> QED BY <1>2, <1>6, <1>13, <1>14, <1>15, <1>16 DEF ColumnsAre

(***************************************************************************)
(* Which items the calls give.                                             *)
(***************************************************************************)
LEMMA SamplesAssociative ==
  ASSUME NEW s \in Seq(Sample), NEW t \in Seq(Sample), NEW u \in Seq(Sample)
  PROVE  (s \o t) \o u = s \o (t \o u)
BY ConcatAssociative

LEMMA SamplesJoined ==
  ASSUME NEW s \in Seq(Sample), NEW t \in Seq(Sample)
  PROVE  s \o t \in Seq(Sample)
BY ConcatProperties

LEMMA NoSamples ==
  /\ <<>> \in Seq(Sample)
  /\ \A s \in Seq(Sample) : <<>> \o s = s /\ s \o <<>> = s
<1>1. <<>> \in Seq(Sample)
  BY EmptySeq
<1>2. ASSUME NEW s \in Seq(Sample) PROVE <<>> \o s = s /\ s \o <<>> = s
  BY ConcatEmptySeq
<1> QED BY <1>1, <1>2

LEMMA LinksCounted ==
  ASSUME NEW n \in DOMAIN Doc
  PROVE  Len(Doc[n].links) \in Nat
BY SchemaAssumption, LenProperties DEF DocShape

(* What a document gives.                                                  *)
LEMMA SamplesUnfold ==
  ASSUME NEW n \in DOMAIN Doc, NEW cat \in Ids, NEW coll \in Ids
  PROVE  /\ Samples(n, cat, coll) \in Seq(Sample)
         /\ Doc[n].type = "Feature" =>
              Samples(n, cat, coll) =
                <<[doc |-> n, catalog |-> cat, collection |-> IdOr(Doc[n].id, coll)]>>
         /\ Doc[n].type = "Catalog" =>
              Samples(n, cat, coll) = SamplesBelow(n, 1, 0, IdOr(Doc[n].id, cat), coll)
         /\ Doc[n].type = "Collection" =>
              Samples(n, cat, coll) = SamplesBelow(n, 1, 0, cat, IdOr(Doc[n].id, coll))
         /\ Doc[n].type = "FeatureCollection" =>
              /\ ObjectsOf(Doc[n]) = {} => Samples(n, cat, coll) = <<>>
              /\ \A first \in ObjectsOf(Doc[n]) :
                   (\A k \in ObjectsOf(Doc[n]) : first <= k) =>
                     Samples(n, cat, coll) = Samples(Doc[n].features[first], cat, coll)
         /\ Doc[n].type = "Other" => Samples(n, cat, coll) = <<>>
BY SamplesAssumption

(* What its links give, from one of them on.                               *)
LEMMA LinksUnfold ==
  ASSUME NEW n \in DOMAIN Doc, NEW i \in 1..(Len(Doc[n].links) + 1), NEW count \in 0..1,
         NEW cat \in Ids, NEW coll \in Ids
  PROVE  /\ SamplesBelow(n, i, count, cat, coll) \in Seq(Sample)
         /\ SamplesBelow(n, i, count, cat, coll) =
              IF i > Len(Doc[n].links) THEN <<>>
              ELSE SamplesByLink(Doc[n].links[i], count, cat, coll)
                     \o SamplesBelow(n, i + 1, CountAfter(Doc[n].links[i], count), cat, coll)
BY SamplesAssumption

LEMMA LinkTyped ==
  ASSUME NEW l, NEW count \in 0..1, NEW cat \in Ids, NEW coll \in Ids
  PROVE  SamplesByLink(l, count, cat, coll) \in Seq(Sample) /\ CountAfter(l, count) \in 0..1
<1>1. CASE l.href \in DOMAIN Serve
  <2>1. Serve[l.href] \in DOMAIN Doc
    BY <1>1, SchemaAssumption
  <2>2. Samples(Serve[l.href], cat, coll) \in Seq(Sample)
    BY <2>1, SamplesUnfold
  <2> QED BY <2>2, NoSamples DEF SamplesByLink, CountAfter
<1>2. CASE l.href \notin DOMAIN Serve
  BY <1>2, NoSamples DEF SamplesByLink, CountAfter
<1> QED BY <1>1, <1>2

(* What the call about to be made gives.                                   *)
Given ==
  IF callee = NoCall \/ iter > 0 THEN <<>>
  ELSE Samples(callee.doc, callee.catalog, callee.collection)

LEMMA GivenTyped ==
  ASSUME CallsTyped
  PROVE  Given \in Seq(Sample)
<1>1. CASE callee = NoCall
  BY <1>1, NoSamples DEF Given
<1>2. CASE callee \in Place
  <2>1. Samples(callee.doc, callee.catalog, callee.collection) \in Seq(Sample)
    BY <1>2, SamplesUnfold DEF Place
  <2> QED BY <2>1, NoSamples DEF Given
<1> QED BY <1>1, <1>2 DEF CallsTyped

(* What a call is still to read, and all the calls above it.               *)
Below(f) == SamplesBelow(f.doc, f.i, f.item_count, f.catalog, f.collection)

InLinks(f) == f \in Call /\ f.i \in 1..(Len(Doc[f.doc].links) + 1)

Unwinds(calls, w) ==
  /\ w \in [0..Len(calls) -> Seq(Sample)] /\ w[0] = <<>>
  /\ \A k \in 1..Len(calls) : InLinks(calls[k]) /\ w[k] = Below(calls[k]) \o w[k - 1]

Waiting(calls, left) == \E w : Unwinds(calls, w) /\ left = w[Len(calls)]

LEMMA BelowTyped ==
  ASSUME NEW f, InLinks(f)
  PROVE  Below(f) \in Seq(Sample)
BY LinksUnfold DEF Below, InLinks, Call

LEMMA NothingWaits ==
  /\ Waiting(<<>>, <<>>)
  /\ \A left : Waiting(<<>>, left) => left = <<>>
<1>1. Len(<<>>) = 0
  OBVIOUS
<1>2. ASSUME NEW left, Waiting(<<>>, left) PROVE left = <<>>
  BY <1>1, <1>2 DEF Waiting, Unwinds
<1>3. Waiting(<<>>, <<>>)
  <2> DEFINE w == [k \in 0..0 |-> <<>>]
  <2>1. w \in [0..0 -> Seq(Sample)] /\ w[0] = <<>>
    BY NoSamples
  <2>2. \A k \in 1..0 : FALSE
    OBVIOUS
  <2> HIDE DEF w
  <2>3. Unwinds(<<>>, w) /\ w[Len(<<>>)] = <<>>
    BY ONLY <1>1, <2>1, <2>2 DEF Unwinds
  <2> QED BY <2>3 DEF Waiting
<1> QED BY <1>2, <1>3

(* Calls that agree with these up to the m-th, and one more.               *)
LEMMA OneMoreWaits ==
  ASSUME NEW calls, NEW w, Unwinds(calls, w), Len(calls) \in Nat,
         NEW m \in Nat, m <= Len(calls),
         NEW calls2, Len(calls2) = m + 1, \A k \in 1..m : calls2[k] = calls[k],
         InLinks(calls2[m + 1])
  PROVE  Waiting(calls2, Below(calls2[m + 1]) \o w[m])
<1>1. \A k \in 0..m : k \in 0..Len(calls) /\ k \in 0..(m + 1) /\ k # m + 1
  OBVIOUS
<1>2. w[m] \in Seq(Sample)
  BY <1>1 DEF Unwinds
<1>3. PICK last \in Seq(Sample) : last = Below(calls2[m + 1]) \o w[m]
  BY <1>2, BelowTyped, SamplesJoined
<1> DEFINE w2 == [k \in 0..(m + 1) |-> IF k = m + 1 THEN last ELSE w[k]]
<1>4. w2 \in [0..(m + 1) -> Seq(Sample)]
  <2>1. \A k \in 0..(m + 1) : k = m + 1 \/ k \in 0..m
    OBVIOUS
  <2>2. \A k \in 0..m : w[k] \in Seq(Sample)
    BY <1>1 DEF Unwinds
  <2> QED BY <2>1, <2>2
<1>5. w2[m + 1] = last /\ \A k \in 0..m : w2[k] = w[k]
  BY <1>1
<1>6. w2[0] = <<>>
  BY <1>5 DEF Unwinds
<1> HIDE DEF w2
<1>7. ASSUME NEW k \in 1..(m + 1)
      PROVE  InLinks(calls2[k]) /\ w2[k] = Below(calls2[k]) \o w2[k - 1]
  <2>1. CASE k = m + 1
    <3>1. k - 1 = m /\ m \in 0..m
      BY <2>1
    <3> QED BY <1>3, <1>5, <2>1, <3>1
  <2>2. CASE k \in 1..m
    <3>1. k - 1 \in 0..m /\ k \in 0..m /\ k \in 1..Len(calls)
      BY <2>2
    <3>2. InLinks(calls[k]) /\ w[k] = Below(calls[k]) \o w[k - 1]
      BY <3>1 DEF Unwinds
    <3> QED BY <1>5, <2>2, <3>1, <3>2
  <2> QED BY <2>1, <2>2
<1>8. Unwinds(calls2, w2)
  BY <1>4, <1>6, <1>7 DEF Unwinds
<1> QED BY <1>3, <1>5, <1>8 DEF Waiting

(* Calls that agree with these and are fewer.                              *)
LEMMA FewerWait ==
  ASSUME NEW calls, NEW w, Unwinds(calls, w), Len(calls) \in Nat,
         NEW m \in Nat, m <= Len(calls),
         NEW calls2, Len(calls2) = m, \A k \in 1..m : calls2[k] = calls[k]
  PROVE  Waiting(calls2, w[m])
<1> DEFINE w2 == [k \in 0..m |-> w[k]]
<1>1. \A k \in 0..m : k \in 0..Len(calls)
  OBVIOUS
<1>2. w2 \in [0..m -> Seq(Sample)] /\ \A k \in 0..m : w2[k] = w[k]
  BY <1>1 DEF Unwinds
<1>3. w2[0] = <<>>
  BY <1>2 DEF Unwinds
<1> HIDE DEF w2
<1>4. \A k \in 1..m : k - 1 \in 0..m /\ k \in 0..m /\ k \in 1..Len(calls)
  OBVIOUS
<1>5. \A k \in 1..m : InLinks(calls2[k]) /\ w2[k] = Below(calls2[k]) \o w2[k - 1]
  BY <1>2, <1>4 DEF Unwinds
<1>6. Unwinds(calls2, w2)
  BY <1>2, <1>3, <1>5 DEF Unwinds
<1>7. w2[Len(calls2)] = w[m]
  <2>1. m \in 0..m
    OBVIOUS
  <2> QED BY <1>2, <2>1
<1> QED BY <1>6, <1>7 DEF Waiting

(* The innermost call and what is left to the others.                      *)
LEMMA TopWaits ==
  ASSUME CallsTyped, stack # <<>>, NEW w, Unwinds(stack, w)
  PROVE  \E n \in Nat :
           /\ n + 1 = Len(stack) /\ Top = stack[n + 1] /\ InLinks(Top)
           /\ w[n] \in Seq(Sample) /\ w[n + 1] = Below(Top) \o w[n]
<1>1. stack \in Seq(Call)
  BY DEF CallsTyped
<1>2. PICK n \in Nat : n + 1 = Len(stack)
  <2>1. PICK m \in Nat : m = Len(stack)
    BY <1>1
  <2>2. m > 0
    BY <1>1, <2>1
  <2>3. m - 1 \in Nat /\ (m - 1) + 1 = m
    BY <2>2
  <2> QED BY <2>1, <2>3
<1>3. n \in 0..Len(stack) /\ n + 1 \in 1..Len(stack) /\ (n + 1) - 1 = n
  BY <1>2
<1>4. w[n] \in Seq(Sample) /\ InLinks(stack[n + 1]) /\ w[n + 1] = Below(stack[n + 1]) \o w[n]
  BY <1>3 DEF Unwinds
<1> QED BY <1>2, <1>4 DEF Top

(* The innermost call goes on, and what it meets on the way comes first.   *)
TopBecomes(f) ==
  /\ f \in Call /\ Len(stack') = Len(stack)
  /\ \A k \in 1..Len(stack) : stack'[k] = IF k = Len(stack) THEN f ELSE stack[k]

Leaves(X, left) == \E rest \in Seq(Sample) : left = X \o rest /\ Waiting(stack', rest)

LEMMA TopMovesOn ==
  ASSUME CallsTyped, stack # <<>>, NEW left, Waiting(stack, left),
         NEW f, InLinks(f), TopBecomes(f),
         NEW X \in Seq(Sample), Below(Top) = X \o Below(f)
  PROVE  Leaves(X, left)
<1>1. PICK w : Unwinds(stack, w) /\ left = w[Len(stack)]
  BY DEF Waiting
<1>2. PICK n \in Nat :
        /\ n + 1 = Len(stack) /\ Top = stack[n + 1] /\ InLinks(Top)
        /\ w[n] \in Seq(Sample) /\ w[n + 1] = Below(Top) \o w[n]
  BY <1>1, TopWaits
<1>3. PICK outer \in Seq(Sample), below \in Seq(Sample) : outer = w[n] /\ below = Below(f)
  BY <1>2, BelowTyped
<1>4. PICK rest \in Seq(Sample) : rest = below \o outer
  BY SamplesJoined
<1>5. left = X \o rest
  <2>1. left = (X \o below) \o outer
    BY <1>1, <1>2, <1>3
  <2> QED BY <1>4, <2>1, SamplesAssociative
<1>6. n <= Len(stack) /\ Len(stack) \in Nat /\ Len(stack) \in 1..Len(stack)
  BY ONLY <1>2, n \in Nat
<1>7. /\ Len(stack') = n + 1 /\ stack'[n + 1] = f
      /\ \A k \in 1..n : stack'[k] = stack[k]
  <2>1. /\ Len(stack') = Len(stack)
        /\ \A k \in 1..Len(stack) : stack'[k] = IF k = Len(stack) THEN f ELSE stack[k]
    BY DEF TopBecomes
  <2>2. n + 1 \in 1..Len(stack) /\ \A k \in 1..n : k \in 1..Len(stack) /\ k # Len(stack)
    BY <1>2
  <2> QED BY ONLY <1>2, <2>1, <2>2
<1>8. InLinks(stack'[n + 1])
  BY <1>7
<1>9. Waiting(stack', Below(stack'[n + 1]) \o w[n])
  BY ONLY <1>1, <1>6, <1>7, <1>8, OneMoreWaits, n \in Nat
<1> QED BY <1>3, <1>4, <1>5, <1>7, <1>9 DEF Leaves

LEMMA TopLinks ==
  ASSUME CallsTyped, OnLink
  PROVE  /\ stack \in Seq(Call) /\ stack # <<>> /\ callee = NoCall
         /\ Len(stack) \in 1..Len(stack) /\ Top = stack[Len(stack)] /\ Top \in Call
         /\ Top.doc \in DOMAIN Doc /\ Top.i \in Nat /\ Top.item_count \in 0..1
         /\ Top.catalog \in Ids /\ Top.collection \in Ids
         /\ Link = Doc[Top.doc].links[Top.i]
         /\ Top.i <= Len(Doc[Top.doc].links) /\ Len(Doc[Top.doc].links) \in Nat
<1>1. stack \in Seq(Call) /\ stack # <<>> /\ callee = NoCall
  BY DEF CallsTyped, OnLink, Looping
<1>2. Len(stack) \in 1..Len(stack) /\ Top \in Call
  BY <1>1, TopIsCall
<1>3. /\ Top.doc \in DOMAIN Doc /\ Top.i \in Nat /\ Top.item_count \in 0..1
      /\ Top.catalog \in Ids /\ Top.collection \in Ids
  BY <1>2 DEF Call
<1>4. /\ Link = Doc[Top.doc].links[Top.i]
      /\ Top.i <= Len(Doc[Top.doc].links) /\ Len(Doc[Top.doc].links) \in Nat
  BY <1>3, LinksCounted DEF OnLink, Links, Link
<1> QED BY <1>1, <1>2, <1>3, <1>4 DEF Top

(* The loop over the links, one link further.                              *)
Moved(count) ==
  [doc |-> Top.doc, i |-> Top.i + 1, catalog |-> Top.catalog, collection |-> Top.collection,
   item_count |-> count]

LEMMA MovedUnfolds ==
  ASSUME CallsTyped, OnLink, InLinks(Top), NEW count \in 0..1,
         count = CountAfter(Link, Top.item_count)
  PROVE  /\ InLinks(Moved(count)) /\ Moved(count) \in Call
         /\ SamplesByLink(Link, Top.item_count, Top.catalog, Top.collection) \in Seq(Sample)
         /\ Below(Top) = SamplesByLink(Link, Top.item_count, Top.catalog, Top.collection)
                           \o Below(Moved(count))
<1>1. PICK d \in DOMAIN Doc, j \in Nat, cat \in Ids, coll \in Ids, c \in 0..1 :
        d = Top.doc /\ j = Top.i /\ cat = Top.catalog /\ coll = Top.collection /\ c = Top.item_count
  BY TopLinks
<1>2. PICK size \in Nat : size = Len(Doc[d].links)
  BY LinksCounted
<1>3. j \in 1..(size + 1) /\ j <= size /\ j + 1 \in 1..(size + 1)
  BY <1>1, <1>2, TopLinks DEF InLinks
<1>4. PICK link : link = Link /\ link = Doc[d].links[j]
  BY <1>1, TopLinks
<1>5. PICK g : g = [doc |-> d, i |-> j + 1, catalog |-> cat, collection |-> coll, item_count |-> count]
  OBVIOUS
<1>6. Moved(count) = g
  BY ONLY <1>1, <1>5 DEF Moved
<1>7. /\ g \in Call /\ g.doc = d /\ g.i = j + 1 /\ g.catalog = cat /\ g.collection = coll
      /\ g.item_count = count
  BY <1>5 DEF Call
<1>8. InLinks(g)
  BY <1>2, <1>3, <1>7 DEF InLinks
<1>9. SamplesByLink(Link, c, cat, coll) \in Seq(Sample)
  BY LinkTyped
<1>10. SamplesBelow(d, j, c, cat, coll)
         = SamplesByLink(Link, c, cat, coll) \o SamplesBelow(d, j + 1, count, cat, coll)
  <2>1. count = CountAfter(link, c)
    BY <1>1, <1>4
  <2>2. SamplesBelow(d, j, c, cat, coll) =
          IF j > size THEN <<>>
          ELSE SamplesByLink(Doc[d].links[j], c, cat, coll)
                 \o SamplesBelow(d, j + 1, CountAfter(Doc[d].links[j], c), cat, coll)
    BY <1>2, <1>3, LinksUnfold
  <2>3. ~(j > size)
    BY <1>3
  <2> QED BY ONLY <1>4, <2>1, <2>2, <2>3
<1>11. Below(Top) = SamplesBelow(d, j, c, cat, coll)
  BY <1>1 DEF Below
<1>12. Below(g) = SamplesBelow(d, j + 1, count, cat, coll)
  BY <1>7 DEF Below
<1> QED BY <1>1, <1>6, <1>7, <1>8, <1>9, <1>10, <1>11, <1>12

LEMMA SkipLinkMoves ==
  ASSUME CallsTyped, SkipLink
  PROVE  TopBecomes(Moved(Top.item_count))
<1>1. OnLink
  BY DEF SkipLink
<1>2. PICK n \in Nat : n = Len(stack) /\ n \in 1..n
  BY <1>1, TopLinks
<1>3. stack' = [stack EXCEPT ![n] = [Top EXCEPT !.i = Top.i + 1]]
  BY <1>2 DEF SkipLink, Top
<1>4. [Top EXCEPT !.i = Top.i + 1] = Moved(Top.item_count)
  BY <1>1, TopLinks DEF Call, Moved
<1>5. Moved(Top.item_count) \in Call
  BY <1>1, TopLinks DEF Call, Moved
<1>6. stack \in Seq(Call)
  BY <1>1, TopLinks
<1> QED BY <1>2, <1>3, <1>4, <1>5, <1>6, ExceptSeq DEF TopBecomes

LEMMA FollowLinkMoves ==
  ASSUME CallsTyped, FollowLink
  PROVE  TopBecomes(Moved(CountAfter(Link, Top.item_count)))
<1>1. OnLink /\ Usable(Link) /\ (Link.rel = "item" => Top.item_count = 0)
  BY DEF FollowLink, Followed, Sampled, Usable
<1>2. PICK n \in Nat : n = Len(stack) /\ n \in 1..n
  BY <1>1, TopLinks
<1>3. stack \in Seq(Call) /\ Top \in Call
  BY <1>1, TopLinks
<1>4. PICK top \in Call, count \in 0..1 :
        top = Top /\ count = IF Link.rel = "item" THEN top.item_count + 1 ELSE top.item_count
  BY <1>1, TopLinks
<1>5. count = CountAfter(Link, Top.item_count)
  BY <1>1, <1>4 DEF CountAfter
<1>6. PICK half \in Call : half = [top EXCEPT !.i = top.i + 1] /\ half.item_count = top.item_count
  <2>1. LET half == [top EXCEPT !.i = top.i + 1]
        IN  half \in Call /\ half.item_count = top.item_count
    BY DEF Call
  <2> QED BY <2>1
<1>7. PICK frame \in Call : frame = [half EXCEPT !.item_count = count]
  BY DEF Call
<1>8. PICK next : next = [stack EXCEPT ![n] = half]
  OBVIOUS
<1>9. /\ next \in Seq(Call) /\ Len(next) = n
      /\ \A k \in 1..n : next[k] = IF k = n THEN half ELSE stack[k]
  BY ONLY <1>2, <1>3, <1>8, half \in Call, ExceptSeq
<1>10. stack' = [next EXCEPT ![n] = frame]
  <2>1. stack' = [[stack EXCEPT ![n] = half] EXCEPT ![n] = frame]
    <3>1. stack' = [stack EXCEPT ![n] = [stack[n] EXCEPT !.i = stack[n].i + 1],
                                 ![n].item_count = IF Link.rel = "item" THEN @ + 1 ELSE @]
      BY <1>2 DEF FollowLink
    <3>2. stack[n] = top
      BY <1>2, <1>4 DEF Top
    <3>3. next[n] = half
      BY <1>2, <1>9
    <3>4. [next[n] EXCEPT !.item_count = IF Link.rel = "item" THEN @ + 1 ELSE @] = frame
      BY <1>4, <1>6, <1>7, <3>3
    <3> QED BY ONLY <1>6, <1>8, <3>1, <3>2, <3>3, <3>4
  <2> QED BY ONLY <1>8, <2>1
<1>11. /\ Len(stack') = n
       /\ \A k \in 1..n : stack'[k] = IF k = n THEN frame ELSE next[k]
  BY ONLY <1>2, <1>9, <1>10, frame \in Call, n \in Nat, ExceptSeq
<1>12. frame = Moved(count)
  BY <1>4, <1>6, <1>7 DEF Call, Moved
<1>13. \A k \in 1..n : stack'[k] = IF k = n THEN frame ELSE stack[k]
  BY ONLY <1>9, <1>11
<1> QED BY <1>2, <1>5, <1>11, <1>12, <1>13, frame \in Call DEF TopBecomes

(* A step that takes no item leaves what is to come as it is.              *)
Passes(left) ==
  \E rest \in Seq(Sample) : Waiting(stack', rest) /\ Given' \o rest = Given \o left

LEMMA LoopPasses ==
  ASSUME CallsTyped, OnLink, NEW left \in Seq(Sample), Waiting(stack, left),
         TopBecomes(Moved(CountAfter(Link, Top.item_count))),
         Given' = SamplesByLink(Link, Top.item_count, Top.catalog, Top.collection)
  PROVE  Passes(left)
<1>1. PICK w : Unwinds(stack, w)
  BY DEF Waiting
<1>2. InLinks(Top) /\ stack # <<>> /\ callee = NoCall
  BY <1>1, TopLinks, TopWaits
<1>3. PICK count \in 0..1 : count = CountAfter(Link, Top.item_count)
  BY TopLinks, LinkTyped
<1>4. PICK given \in Seq(Sample) :
        given = SamplesByLink(Link, Top.item_count, Top.catalog, Top.collection)
  BY <1>2, <1>3, MovedUnfolds
<1>5. PICK f : f = Moved(count)
  OBVIOUS
<1>6. InLinks(f) /\ TopBecomes(f) /\ Below(Top) = given \o Below(f)
  BY <1>2, <1>3, <1>4, <1>5, MovedUnfolds
<1>7. Leaves(given, left)
  <2>1. stack # <<>> /\ InLinks(f) /\ TopBecomes(f) /\ Below(Top) = given \o Below(f)
    BY <1>2, <1>6
  <2> QED BY ONLY CallsTyped, Waiting(stack, left), <2>1, given \in Seq(Sample), TopMovesOn
<1>8. PICK rest \in Seq(Sample) : left = given \o rest /\ Waiting(stack', rest)
  BY <1>7 DEF Leaves
<1>9. Given = <<>>
  BY <1>2 DEF Given
<1>10. Given \o left = left
  BY <1>9, NoSamples
<1> QED BY <1>4, <1>8, <1>10 DEF Passes

LEMMA SkipLinkPasses ==
  ASSUME CallsTyped, SkipLink, NEW left \in Seq(Sample), Waiting(stack, left)
  PROVE  Passes(left)
<1>1. OnLink /\ ~Followed /\ callee' = callee /\ callee = NoCall /\ Top.item_count \in 0..1
  BY TopLinks DEF SkipLink
<1>2. /\ CountAfter(Link, Top.item_count) = Top.item_count
      /\ SamplesByLink(Link, Top.item_count, Top.catalog, Top.collection) = <<>>
  BY <1>1 DEF Followed, Sampled, Usable, CountAfter, SamplesByLink
<1>3. Given' = <<>>
  BY <1>1 DEF Given
<1> QED BY <1>1, <1>2, <1>3, SkipLinkMoves, LoopPasses

LEMMA FollowLinkPasses ==
  ASSUME CallsTyped, FollowLink, status' # "failed", iter = 0,
         NEW left \in Seq(Sample), Waiting(stack, left)
  PROVE  Passes(left)
<1>1. /\ OnLink /\ Usable(Link)
      /\ Link.rel \in {"child", "items"} \/ (Link.rel = "item" /\ Top.item_count = 0)
      /\ Link.href \in DOMAIN Serve
      /\ callee' = [doc |-> Serve[Link.href], catalog |-> Top.catalog, collection |-> Top.collection]
      /\ iter' = 0
  BY DEF FollowLink, Followed, Sampled, Usable, Fetch
<1>2. callee' # NoCall
  <2>1. callee'.doc \in DOMAIN Doc /\ NoCall.doc \notin DOMAIN Doc
    BY <1>1, SchemaAssumption DEF NoCall
  <2> QED BY <2>1
<1>3. Given' = Samples(Serve[Link.href], Top.catalog, Top.collection)
  BY <1>1, <1>2 DEF Given
<1>4. Given' = SamplesByLink(Link, Top.item_count, Top.catalog, Top.collection)
  BY <1>1, <1>3 DEF SamplesByLink
<1> QED BY <1>1, <1>4, FollowLinkMoves, LoopPasses

LEMMA ReturnPasses ==
  ASSUME CallsTyped, Return, NEW left \in Seq(Sample), Waiting(stack, left)
  PROVE  Passes(left)
<1>1. /\ stack # <<>> /\ callee = NoCall /\ callee' = NoCall /\ Top.i > Len(Doc[Top.doc].links)
      /\ stack' = SubSeq(stack, 1, Len(stack) - 1)
  BY DEF Return, Looping, Links
<1>2. PICK w : Unwinds(stack, w) /\ left = w[Len(stack)]
  BY DEF Waiting
<1>3. PICK n \in Nat :
        /\ n + 1 = Len(stack) /\ Top = stack[n + 1] /\ InLinks(Top)
        /\ w[n] \in Seq(Sample) /\ w[n + 1] = Below(Top) \o w[n]
  BY <1>1, <1>2, TopWaits
<1>4. Below(Top) = <<>>
  <2>1. PICK d \in DOMAIN Doc, c \in 0..1, cat \in Ids, coll \in Ids :
          d = Top.doc /\ c = Top.item_count /\ cat = Top.catalog /\ coll = Top.collection
    BY <1>3 DEF InLinks, Call
  <2>2. PICK i \in 1..(Len(Doc[d].links) + 1) : i = Top.i /\ i > Len(Doc[d].links)
    BY <1>1, <1>3, <2>1 DEF InLinks
  <2>3. SamplesBelow(d, i, c, cat, coll) = <<>>
    BY <2>2, LinksUnfold
  <2> QED BY <2>1, <2>2, <2>3 DEF Below
<1>5. left = w[n]
  BY <1>2, <1>3, <1>4, NoSamples
<1>6. n <= Len(stack) /\ Len(stack) \in Nat /\ Len(stack) - 1 = n
  BY ONLY <1>3, n \in Nat
<1>7. Len(stack') = n /\ \A k \in 1..n : stack'[k] = stack[k]
  <2>1. stack \in Seq(Call) /\ stack' = SubSeq(stack, 1, n)
    BY <1>1, <1>6 DEF CallsTyped
  <2> QED BY ONLY <1>6, <2>1, SubSeqProperties, n \in Nat
<1>8. Waiting(stack', left)
  BY ONLY <1>2, <1>5, <1>6, <1>7, FewerWait, n \in Nat
<1>9. Given = <<>> /\ Given' = <<>>
  BY <1>1 DEF Given
<1> QED BY <1>8, <1>9 DEF Passes

(* A document with links is entered.                                       *)
LEMMA EnteringPasses ==
  ASSUME CallsTyped, NEW left \in Seq(Sample), Waiting(stack, left),
         NEW cat \in Ids, NEW coll \in Ids, callee \in Place,
         stack' = Append(stack, Frame(cat, coll)), callee' = NoCall,
         Given = SamplesBelow(callee.doc, 1, 0, cat, coll)
  PROVE  Passes(left)
<1>1. PICK d \in DOMAIN Doc : d = callee.doc
  BY DEF Place
<1>2. PICK f : f = [doc |-> d, i |-> 1, catalog |-> cat, collection |-> coll, item_count |-> 0]
  OBVIOUS
<1>3. /\ f \in Call /\ f.doc = d /\ f.i = 1 /\ f.catalog = cat /\ f.collection = coll
      /\ f.item_count = 0
  BY <1>2 DEF Call
<1>4. InLinks(f)
  <2>1. 1 \in 1..(Len(Doc[d].links) + 1)
    BY LinksCounted
  <2> QED BY <1>3, <2>1 DEF InLinks
<1>5. Below(f) = Given
  BY <1>1, <1>3 DEF Below
<1>6. PICK w : Unwinds(stack, w) /\ left = w[Len(stack)]
  BY DEF Waiting
<1>7. PICK n \in Nat : n = Len(stack) /\ n <= Len(stack)
  BY LenProperties DEF CallsTyped
<1>8. Len(stack') = n + 1 /\ stack'[n + 1] = f /\ \A k \in 1..n : stack'[k] = stack[k]
  <2>1. stack \in Seq(Call) /\ stack' = Append(stack, f)
    BY <1>1, <1>2 DEF CallsTyped, Frame
  <2> QED BY ONLY <1>3, <1>7, <2>1, AppendProperties
<1>9. Waiting(stack', Below(stack'[n + 1]) \o w[n])
  <2>1. InLinks(stack'[n + 1])
    BY <1>4, <1>8
  <2> QED BY ONLY <1>6, <1>7, <1>8, <2>1, OneMoreWaits, n \in Nat
<1>10. PICK given \in Seq(Sample) : given = Given
  BY GivenTyped
<1>11. PICK rest \in Seq(Sample) : rest = given \o left
  BY SamplesJoined
<1>12. Waiting(stack', rest)
  BY <1>5, <1>6, <1>7, <1>8, <1>9, <1>10, <1>11
<1>13. Given' = <<>>
  BY DEF Given
<1>14. Given' \o rest = rest
  BY <1>13, NoSamples
<1> QED BY <1>10, <1>11, <1>12, <1>14 DEF Passes

LEMMA CalledGives ==
  ASSUME CallsTyped, NEW type, Calling(type)
  PROVE  /\ callee \in Place /\ callee.doc \in DOMAIN Doc /\ callee.catalog \in Ids
         /\ callee.collection \in Ids /\ Doc[callee.doc].type = type
         /\ callee # NoCall /\ iter = 0
         /\ Given = Samples(callee.doc, callee.catalog, callee.collection)
<1>1. callee \in Place /\ callee.doc \in DOMAIN Doc
  BY CallingTyped
<1>2. callee # NoCall /\ iter = 0 /\ Doc[callee.doc].type = type
  BY DEF Calling, D
<1> QED BY <1>1, <1>2 DEF Place, Given

LEMMA CallsPass ==
  ASSUME CallsTyped, IgnoreOther \/ EnterCatalog \/ EnterCollection \/ EnterFeatureCollection,
         NEW left \in Seq(Sample), Waiting(stack, left)
  PROVE  Passes(left)
<1>1. CASE IgnoreOther
  <2>1. Calling("Other") /\ callee' = NoCall /\ stack' = stack
    BY <1>1 DEF IgnoreOther
  <2>2. Given = <<>> /\ Given' = <<>>
    BY <2>1, CalledGives, SamplesUnfold DEF Given
  <2> QED BY <2>1, <2>2 DEF Passes
<1>2. CASE EnterCatalog
  <2>1. /\ Calling("Catalog") /\ callee' = NoCall
        /\ stack' = Append(stack, Frame(IdOr(D.id, callee.catalog), callee.collection))
    BY <1>2 DEF EnterCatalog
  <2>2. Given = SamplesBelow(callee.doc, 1, 0, IdOr(D.id, callee.catalog), callee.collection)
    BY <2>1, CalledGives, SamplesUnfold DEF D
  <2> QED BY <2>1, <2>2, CalledGives, IdOrTyped, EnteringPasses
<1>3. CASE EnterCollection
  <2>1. /\ Calling("Collection") /\ callee' = NoCall
        /\ stack' = Append(stack, Frame(callee.catalog, IdOr(D.id, callee.collection)))
    BY <1>3 DEF EnterCollection
  <2>2. Given = SamplesBelow(callee.doc, 1, 0, callee.catalog, IdOr(D.id, callee.collection))
    BY <2>1, CalledGives, SamplesUnfold DEF D
  <2> QED BY <2>1, <2>2, CalledGives, IdOrTyped, EnteringPasses
<1>4. CASE EnterFeatureCollection
  <2>1. Calling("FeatureCollection") /\ stack' = stack /\ iter' = iter
    BY <1>4 DEF EnterFeatureCollection
  <2>2. CASE ObjectsOf(Doc[callee.doc]) = {} /\ callee' = NoCall
    <3>1. Given = <<>> /\ Given' = <<>>
      BY <2>1, <2>2, CalledGives, SamplesUnfold DEF Given
    <3> QED BY <2>1, <3>1 DEF Passes
  <2>3. ASSUME NEW first \in ObjectsOf(Doc[callee.doc]),
               \A k \in ObjectsOf(Doc[callee.doc]) : first <= k,
               callee' = [callee EXCEPT !.doc = Doc[callee.doc].features[first]]
        PROVE  Passes(left)
    <3>1. Given = Samples(Doc[callee.doc].features[first], callee.catalog, callee.collection)
      BY <2>1, <2>3, CalledGives, SamplesUnfold
    <3>2. PICK n \in DOMAIN Doc : n = Doc[callee.doc].features[first]
      <4>1. Doc[callee.doc].features \in Seq(DOMAIN Doc \cup {NotObject})
        BY <2>1, CalledGives, SchemaAssumption DEF DocShape
      <4>2. first \in DOMAIN Doc[callee.doc].features /\ Doc[callee.doc].features[first] # NotObject
        BY <2>3 DEF ObjectsOf
      <4> QED BY <4>1, <4>2
    <3>3. callee'.doc = n /\ callee'.catalog = callee.catalog /\ callee'.collection = callee.collection
      BY <2>1, <2>3, <3>2, CalledGives DEF Place
    <3>4. callee' # NoCall
      <4>1. NoCall.doc \notin DOMAIN Doc
        BY SchemaAssumption DEF NoCall
      <4> QED BY <3>3, <4>1
    <3>5. iter' = 0
      BY <2>1, CalledGives
    <3>6. Given' = Given
      BY <3>1, <3>2, <3>3, <3>4, <3>5 DEF Given
    <3> QED BY <2>1, <3>6 DEF Passes
  <2> QED BY <1>4, <2>2, <2>3 DEF EnterFeatureCollection, Objects, D
<1> QED BY <1>1, <1>2, <1>3, <1>4

(***************************************************************************)
(* The items taken so far.                                                 *)
(***************************************************************************)
JoinedOf(x) == Joined(x.catalog, x.collection)

(* The places read so far: of the last item only those before iter.        *)
UpTo(samples) == {p \in Places(samples) : iter > 0 /\ p[1] = Len(samples) => p[2] < iter}

(* While properties are read they are those of the last item.              *)
LastIsRead(done) ==
  iter > 0 =>
    /\ callee # NoCall /\ Doc[callee.doc].properties # NoProperties
    /\ Len(done) \in Firsts(done) /\ done[Len(done)].doc = callee.doc

Taken(done, left) ==
  /\ Waiting(stack, left) /\ done \o (Given \o left) = AllSamples
  /\ itemtype_set = {JoinedOf(done[q]) : q \in 1..Len(done)}
  /\ ColumnsAre(done, UpTo(done))
  /\ LastIsRead(done)

SchemaInv ==
  /\ status = "new" =>
       /\ stack = <<>> /\ itemtype_set = {} /\ iter = 0
       /\ column_names = <<>> /\ column_types = <<>>
  /\ status = "open" => \E done, left \in Seq(Sample) : Taken(done, left)
  /\ status = "bound" => ColumnsAre(AllSamples, Places(AllSamples))

LEMMA OneMoreSample ==
  ASSUME NEW done \in Seq(Sample), NEW x \in Sample
  PROVE  /\ Append(done, x) \in Seq(Sample) /\ Len(done) \in Nat
         /\ Len(Append(done, x)) = Len(done) + 1 /\ Append(done, x)[Len(done) + 1] = x
         /\ \A q \in 1..Len(done) : Append(done, x)[q] = done[q]
         /\ \A left \in Seq(Sample) : done \o (<<x>> \o left) = Append(done, x) \o left
<1>1. /\ Append(done, x) \in Seq(Sample) /\ Len(done) \in Nat
      /\ Len(Append(done, x)) = Len(done) + 1 /\ Append(done, x)[Len(done) + 1] = x
      /\ \A q \in 1..Len(done) : Append(done, x)[q] = done[q]
  BY AppendProperties, LenProperties
<1>2. <<x>> \in Seq(Sample) /\ Append(done, x) = done \o <<x>>
  BY AppendIsConcat
<1>3. ASSUME NEW left \in Seq(Sample)
      PROVE  done \o (<<x>> \o left) = Append(done, x) \o left
  BY <1>2, SamplesAssociative
<1> QED BY <1>1, <1>3

LEMMA FirstsUnfold ==
  ASSUME NEW s \in Seq(Sample)
  PROVE  /\ Firsts(s) \subseteq 1..Len(s)
         /\ \A q \in 1..Len(s) :
              q \in Firsts(s) <=> \A r \in 1..(q - 1) : JoinedOf(s[r]) # JoinedOf(s[q])
<1>1. DOMAIN s = 1..Len(s)
  BY LenProperties
<1> QED BY <1>1 DEF Firsts, JoinedOf

LEMMA FirstsAgree ==
  ASSUME NEW s \in Seq(Sample), NEW t \in Seq(Sample), NEW n \in Nat,
         n <= Len(s), n <= Len(t), \A q \in 1..n : t[q] = s[q]
  PROVE  \A q \in 1..n : q \in Firsts(t) <=> q \in Firsts(s)
<1> SUFFICES ASSUME NEW q \in 1..n PROVE q \in Firsts(t) <=> q \in Firsts(s)
  OBVIOUS
<1>1. q \in 1..Len(s) /\ q \in 1..Len(t) /\ \A r \in 1..(q - 1) : r \in 1..n
  BY LenProperties
<1>2. (\A r \in 1..(q - 1) : JoinedOf(t[r]) # JoinedOf(t[q]))
        <=> (\A r \in 1..(q - 1) : JoinedOf(s[r]) # JoinedOf(s[q]))
  BY <1>1
<1>3. q \in Firsts(s) <=> \A r \in 1..(q - 1) : JoinedOf(s[r]) # JoinedOf(s[q])
  BY ONLY <1>1, s \in Seq(Sample), FirstsUnfold
<1>4. q \in Firsts(t) <=> \A r \in 1..(q - 1) : JoinedOf(t[r]) # JoinedOf(t[q])
  BY ONLY <1>1, t \in Seq(Sample), FirstsUnfold
<1> QED BY ONLY <1>2, <1>3, <1>4

LEMMA PlacesUnfold ==
  ASSUME NEW s
  PROVE  \A p : p \in Places(s) <=>
           \E q \in Firsts(s) : \E i \in DOMAIN Doc[s[q].doc].properties : p = <<q, i>>
BY DEF Places

LEMMA PlaceOf ==
  ASSUME NEW s \in Seq(Sample), NEW p \in Places(s)
  PROVE  /\ p = <<p[1], p[2]>> /\ p[1] \in 1..Len(s)
         /\ p[2] \in DOMAIN Doc[s[p[1]].doc].properties
<1>1. PICK q \in Firsts(s) : \E i \in DOMAIN Doc[s[q].doc].properties : p = <<q, i>>
  BY PlacesUnfold
<1>2. PICK i \in DOMAIN Doc[s[q].doc].properties : p = <<q, i>>
  BY <1>1
<1>3. p[1] = q /\ p[2] = i
  BY ONLY <1>2
<1>4. q \in 1..Len(s)
  BY FirstsUnfold
<1> QED BY ONLY <1>2, <1>3, <1>4, i \in DOMAIN Doc[s[q].doc].properties

(* An item of a pair of ids that has one adds no place.                    *)
LEMMA KnownAddsNothing ==
  ASSUME NEW done \in Seq(Sample), NEW x \in Sample,
         NEW k \in 1..Len(done), JoinedOf(done[k]) = JoinedOf(x)
  PROVE  Places(Append(done, x)) = Places(done)
<1>1. PICK n \in Nat, d2 \in Seq(Sample) :
        /\ n = Len(done) /\ d2 = Append(done, x) /\ Len(d2) = n + 1 /\ d2[n + 1] = x
        /\ \A q \in 1..n : d2[q] = done[q]
  BY OneMoreSample
<1>2. Firsts(d2) = Firsts(done)
  <2>1. \A q \in 1..(n + 1) : q = n + 1 \/ q \in 1..n
    BY <1>1
  <2>2. n + 1 \notin Firsts(d2)
    <3>1. n + 1 \in 1..Len(d2) /\ k \in 1..((n + 1) - 1) /\ d2[k] = done[k]
      BY <1>1
    <3> QED BY <1>1, <3>1, FirstsUnfold
  <2>3. \A q \in 1..n : q \in Firsts(d2) <=> q \in Firsts(done)
    <3>1. n <= Len(done) /\ n <= Len(d2)
      BY <1>1
    <3> QED BY ONLY <1>1, <3>1, FirstsAgree, done \in Seq(Sample), d2 \in Seq(Sample), n \in Nat
  <2>4. Firsts(d2) \subseteq 1..(n + 1) /\ Firsts(done) \subseteq 1..n
    BY <1>1, FirstsUnfold
  <2> QED BY <2>1, <2>2, <2>3, <2>4
<1>3. \A q \in Firsts(done) : d2[q] = done[q]
  <2>1. Firsts(done) \subseteq 1..n
    BY <1>1, FirstsUnfold
  <2> QED BY <1>1, <2>1
<1> QED BY <1>1, <1>2, <1>3 DEF Places

(* The first of a pair adds the places of its properties.                  *)
LEMMA NewAddsItsOwn ==
  ASSUME NEW done \in Seq(Sample), NEW x \in Sample,
         \A q \in 1..Len(done) : JoinedOf(done[q]) # JoinedOf(x)
  PROVE  /\ Len(done) + 1 \in Firsts(Append(done, x))
         /\ Places(Append(done, x)) =
              Places(done) \cup {<<Len(done) + 1, i>> : i \in DOMAIN Doc[x.doc].properties}
<1>1. PICK n \in Nat, d2 \in Seq(Sample) :
        /\ n = Len(done) /\ d2 = Append(done, x) /\ Len(d2) = n + 1 /\ d2[n + 1] = x
        /\ \A q \in 1..n : d2[q] = done[q]
  BY OneMoreSample
<1>2. n + 1 \in Firsts(d2)
  <2>1. n + 1 \in 1..Len(d2) /\ (n + 1) - 1 = n
    BY <1>1
  <2>2. n + 1 \in Firsts(d2) <=> \A r \in 1..n : JoinedOf(d2[r]) # JoinedOf(d2[n + 1])
    BY <2>1, FirstsUnfold
  <2> QED BY <1>1, <2>2
<1>3. Firsts(d2) = Firsts(done) \cup {n + 1}
  <2>1. \A q \in 1..(n + 1) : q = n + 1 \/ q \in 1..n
    BY <1>1
  <2>2. \A q \in 1..n : q \in Firsts(d2) <=> q \in Firsts(done)
    <3>1. n <= Len(done) /\ n <= Len(d2)
      BY <1>1
    <3> QED BY ONLY <1>1, <3>1, FirstsAgree, done \in Seq(Sample), d2 \in Seq(Sample), n \in Nat
  <2>3. Firsts(d2) \subseteq 1..(n + 1) /\ Firsts(done) \subseteq 1..n
    BY <1>1, FirstsUnfold
  <2> QED BY <1>2, <2>1, <2>2, <2>3
<1>4. \A q \in Firsts(done) : d2[q] = done[q]
  <2>1. Firsts(done) \subseteq 1..n
    BY <1>1, FirstsUnfold
  <2> QED BY <1>1, <2>1
<1> DEFINE own == {<<n + 1, i>> : i \in DOMAIN Doc[x.doc].properties}
<1>5. Places(d2) = Places(done) \cup own
  <2>1. ASSUME NEW p \in Places(d2) PROVE p \in Places(done) \cup own
    <3>1. PICK q \in Firsts(d2) : \E i \in DOMAIN Doc[d2[q].doc].properties : p = <<q, i>>
      BY <2>1, PlacesUnfold
    <3>2. CASE q \in Firsts(done)
      BY <1>4, <3>1, <3>2, PlacesUnfold
    <3>3. CASE q = n + 1
      BY <1>1, <3>1, <3>3
    <3> QED BY <1>3, <3>2, <3>3
  <2>2. ASSUME NEW p \in Places(done) PROVE p \in Places(d2)
    BY <1>3, <1>4, <2>2, PlacesUnfold
  <2>3. ASSUME NEW p \in own PROVE p \in Places(d2)
    BY <1>1, <1>2, <2>3, PlacesUnfold
  <2> QED BY <2>1, <2>2, <2>3
<1> QED BY <1>1, <1>2, <1>5

(* The item about to be taken.                                             *)
LEMMA FeatureGives ==
  ASSUME CallsTyped, Calling("Feature")
  PROVE  \E x \in Sample :
           Given = <<x>> /\ x.doc = callee.doc /\ JoinedOf(x) = ItemType
<1>1. PICK n \in DOMAIN Doc, cat \in Ids, coll \in Ids :
        n = callee.doc /\ cat = callee.catalog /\ coll = callee.collection
  BY CalledGives
<1>2. PICK id \in Ids : id = IdOr(Doc[n].id, coll)
  BY DEF IdOr, Ids
<1>3. PICK x : x = [doc |-> n, catalog |-> cat, collection |-> id]
  OBVIOUS
<1>4. x \in Sample /\ x.doc = n /\ x.catalog = cat /\ x.collection = id
  BY <1>3 DEF Sample
<1>5. Given = <<x>>
  <2>1. Given = Samples(n, cat, coll) /\ Doc[n].type = "Feature"
    BY <1>1, CalledGives
  <2>2. Samples(n, cat, coll) = <<[doc |-> n, catalog |-> cat, collection |-> IdOr(Doc[n].id, coll)]>>
    BY <2>1, SamplesUnfold
  <2> QED BY ONLY <1>2, <1>3, <2>1, <2>2
<1>6. JoinedOf(x) = ItemType
  BY <1>1, <1>2, <1>4 DEF JoinedOf, ItemType, D
<1> QED BY <1>1, <1>4, <1>5, <1>6

(***************************************************************************)
(* Every step keeps the items taken and the columns in agreement.          *)
(***************************************************************************)
(* The items expected do not change.                                       *)
LEMMA OriginKept ==
  ASSUME [Next]_vars
  PROVE  AllSamples' = AllSamples
<1>1. CASE ReadFirstPage \/ MissingType \/ IgnoreOther \/ EnterCatalog \/ EnterCollection
  BY <1>1 DEF ReadFirstPage, MissingType, Throw, IgnoreOther, EnterCatalog, EnterCollection, AllSamples
<1>2. CASE EnterFeatureCollection \/ KnownItemType \/ NewItemType \/ MissingProperties
  BY <1>2 DEF EnterFeatureCollection, KnownItemType, NewItemType, MissingProperties, AllSamples
<1>3. CASE ParseProperty \/ EndProperties \/ SkipLink \/ FollowLink \/ Return \/ BindReturns
           \/ UNCHANGED vars
  BY <1>3 DEF ParseProperty, EndProperties, SkipLink, FollowLink, Return, BindReturns, vars, AllSamples
<1> QED BY <1>1, <1>2, <1>3, StepCases

LEMMA PassingKeeps ==
  ASSUME AllSamples' = AllSamples, NEW done \in Seq(Sample), NEW left \in Seq(Sample),
         Taken(done, left), Passes(left), UNCHANGED schema, iter = 0, iter' = 0
  PROVE  \E rest \in Seq(Sample) : Taken(done, rest)'
<1>1. PICK rest \in Seq(Sample) : Waiting(stack', rest) /\ Given' \o rest = Given \o left
  BY DEF Passes
<1>2. PICK places : places = UpTo(done) /\ places = UpTo(done)'
  BY DEF UpTo
<1>3. ColumnsAre(done, places)
  BY <1>2 DEF Taken
<1>4. ColumnsAre(done, places)'
  BY <1>3, ColumnsKept DEF schema
<1>5. ColumnsAre(done, UpTo(done))'
  BY <1>2, <1>4
<1>6. LastIsRead(done)'
  BY DEF LastIsRead
<1>7. itemtype_set' = {JoinedOf(done[q]) : q \in 1..Len(done)}
  BY DEF Taken, schema
<1>8. done \o (Given' \o rest) = AllSamples'
  BY <1>1 DEF Taken
<1>9. Taken(done, rest)'
  BY <1>1, <1>5, <1>6, <1>7, <1>8 DEF Taken
<1> QED BY <1>9

LEMMA PassingSteps ==
  ASSUME CallsTyped, NEW done \in Seq(Sample), NEW left \in Seq(Sample), Taken(done, left),
         status' = "open",
         \/ IgnoreOther \/ EnterCatalog \/ EnterCollection \/ EnterFeatureCollection
         \/ SkipLink \/ FollowLink \/ Return
  PROVE  Passes(left) /\ UNCHANGED schema /\ iter = 0 /\ iter' = 0
<1>1. Waiting(stack, left)
  BY DEF Taken
<1>2. callee = NoCall => iter = 0
  BY DEF Taken, LastIsRead, CallsTyped
<1>3. CASE IgnoreOther \/ EnterCatalog \/ EnterCollection \/ EnterFeatureCollection
  <2>1. UNCHANGED schema /\ iter = 0 /\ iter' = 0
    BY <1>3 DEF IgnoreOther, EnterCatalog, EnterCollection, EnterFeatureCollection, Calling
  <2> QED BY <1>1, <1>3, <2>1, CallsPass
<1>4. CASE SkipLink
  <2>1. UNCHANGED schema /\ iter = 0 /\ iter' = 0
    BY <1>2, <1>4 DEF SkipLink, OnLink, Looping
  <2> QED BY <1>1, <1>4, <2>1, SkipLinkPasses
<1>5. CASE FollowLink
  <2>1. UNCHANGED schema /\ iter = 0 /\ iter' = 0
    BY <1>2, <1>5 DEF FollowLink, OnLink, Looping
  <2> QED BY <1>1, <1>5, <2>1, FollowLinkPasses
<1>6. CASE Return
  <2>1. UNCHANGED schema /\ iter = 0 /\ iter' = 0
    BY <1>2, <1>6 DEF Return, Looping
  <2> QED BY <1>1, <1>6, <2>1, ReturnPasses
<1> QED BY <1>3, <1>4, <1>5, <1>6

(* The item about to be taken is the next of those expected.               *)
LEMMA TakingOrder ==
  ASSUME NEW done \in Seq(Sample), NEW left \in Seq(Sample), NEW x \in Sample,
         Given = <<x>>, Given' = <<>>, AllSamples' = AllSamples,
         done \o (Given \o left) = AllSamples
  PROVE  Append(done, x) \o (Given' \o left) = AllSamples'
<1>1. <<>> \o left = left
  BY NoSamples
<1>2. done \o (<<x>> \o left) = Append(done, x) \o left
  BY OneMoreSample
<1> QED BY <1>1, <1>2

LEMMA KnownItemTypeKeeps ==
  ASSUME CallsTyped, AllSamples' = AllSamples, NEW done \in Seq(Sample), NEW left \in Seq(Sample),
         Taken(done, left), KnownItemType
  PROVE  \E done2 \in Seq(Sample) : Taken(done2, left)'
<1>1. /\ Calling("Feature") /\ ItemType \in itemtype_set /\ callee' = NoCall
      /\ UNCHANGED <<schema, stack, iter>> /\ iter = 0
  BY DEF KnownItemType, Calling
<1>2. PICK x \in Sample : Given = <<x>> /\ JoinedOf(x) = ItemType
  BY <1>1, FeatureGives
<1>3. PICK k \in 1..Len(done) : JoinedOf(done[k]) = JoinedOf(x)
  BY <1>1, <1>2 DEF Taken
<1>4. PICK n \in Nat, d2 \in Seq(Sample) :
        /\ n = Len(done) /\ d2 = Append(done, x) /\ Len(d2) = n + 1 /\ d2[n + 1] = x
        /\ \A q \in 1..n : d2[q] = done[q]
  BY OneMoreSample
<1>5. PICK places : places = Places(done) /\ places = Places(d2)
  BY <1>3, <1>4, KnownAddsNothing
<1>6. UpTo(done) = places /\ UpTo(d2)' = places
  BY <1>1, <1>5 DEF UpTo
<1>7. \A p \in places : d2[p[1]] = done[p[1]]
  BY <1>4, <1>5, PlaceOf
<1>8. ColumnsAre(d2, places)'
  <2>1. ColumnsAre(done, places)
    BY <1>6 DEF Taken
  <2> QED BY <1>1, <1>7, <2>1, ColumnsKept DEF schema
<1>9. itemtype_set' = {JoinedOf(d2[q]) : q \in 1..Len(d2)}
  <2>1. itemtype_set' = {JoinedOf(done[q]) : q \in 1..n}
    BY <1>1, <1>4 DEF Taken, schema
  <2>2. \A q \in 1..(n + 1) : q = n + 1 \/ q \in 1..n
    OBVIOUS
  <2>3. \A q \in 1..n : q \in 1..(n + 1)
    OBVIOUS
  <2> QED BY <1>3, <1>4, <2>1, <2>2, <2>3
<1>10. Given' = <<>>
  BY <1>1 DEF Given
<1>11. d2 \o (Given' \o left) = AllSamples'
  BY <1>2, <1>4, <1>10, TakingOrder DEF Taken
<1>12. Waiting(stack, left)'
  BY <1>1 DEF Taken
<1>13. LastIsRead(d2)'
  BY <1>1 DEF LastIsRead
<1>14. Taken(d2, left)'
  BY <1>6, <1>8, <1>9, <1>11, <1>12, <1>13 DEF Taken
<1> QED BY <1>14

(* The properties of an item that has some.                                *)
LEMMA PropertiesCounted ==
  ASSUME NEW n \in DOMAIN Doc, Doc[n].properties # NoProperties
  PROVE  /\ Len(Doc[n].properties) \in Nat
         /\ DOMAIN Doc[n].properties = 1..Len(Doc[n].properties)
<1>1. PICK S : Doc[n].properties \in Seq(S)
  BY SchemaAssumption DEF DocShape
<1> QED BY <1>1, LenProperties

LEMMA NewItemTypeKeeps ==
  ASSUME CallsTyped, AllSamples' = AllSamples, NEW done \in Seq(Sample), NEW left \in Seq(Sample),
         Taken(done, left), NewItemType
  PROVE  \E done2 \in Seq(Sample) : Taken(done2, left)'
<1>1. /\ Calling("Feature") /\ ItemType \notin itemtype_set /\ D.properties # NoProperties
      /\ itemtype_set' = itemtype_set \cup {ItemType}
      /\ UNCHANGED <<column_names, column_types, stack, callee>> /\ iter = 0 /\ iter' = 1
  BY DEF NewItemType, Calling
<1>2. PICK x \in Sample : Given = <<x>> /\ x.doc = callee.doc /\ JoinedOf(x) = ItemType
  BY <1>1, FeatureGives
<1>3. /\ x.doc \in DOMAIN Doc /\ Doc[x.doc].properties # NoProperties
  BY <1>1, <1>2 DEF D, Sample
<1>4. \A q \in 1..Len(done) : JoinedOf(done[q]) # JoinedOf(x)
  BY <1>1, <1>2 DEF Taken
<1>5. PICK n \in Nat, d2 \in Seq(Sample) :
        /\ n = Len(done) /\ d2 = Append(done, x) /\ Len(d2) = n + 1 /\ d2[n + 1] = x
        /\ \A q \in 1..n : d2[q] = done[q]
  BY OneMoreSample
<1>6. PICK places : places = Places(done)
  OBVIOUS
<1>7. PICK own : own = {<<n + 1, i>> : i \in DOMAIN Doc[x.doc].properties}
  OBVIOUS
<1>8. n + 1 \in Firsts(d2) /\ Places(d2) = places \cup own
  BY <1>4, <1>5, <1>6, <1>7, NewAddsItsOwn
<1>9. \A p \in places : p[1] \in 1..n /\ d2[p[1]] = done[p[1]]
  BY <1>5, <1>6, PlaceOf
<1>10. \A p \in own : p[1] = n + 1 /\ ~(p[2] < 1)
  <2>1. \A i \in DOMAIN Doc[x.doc].properties : ~(i < 1)
    BY <1>3, PropertiesCounted
  <2> QED BY <1>7, <2>1
<1>11. UpTo(done) = places
  BY <1>1, <1>6 DEF UpTo
<1>12. UpTo(d2)' = places
  <2>1. UpTo(d2)' = {p \in places \cup own : p[1] = n + 1 => p[2] < 1}
    BY <1>1, <1>5, <1>8 DEF UpTo
  <2>2. \A p \in places : p[1] # n + 1
    BY <1>9
  <2> QED BY <1>10, <2>1, <2>2
<1>13. ColumnsAre(d2, places)'
  <2>1. ColumnsAre(done, places)
    BY <1>11 DEF Taken
  <2> QED BY <1>1, <1>9, <2>1, ColumnsKept
<1>14. itemtype_set' = {JoinedOf(d2[q]) : q \in 1..Len(d2)}
  <2>1. itemtype_set' = {JoinedOf(done[q]) : q \in 1..n} \cup {JoinedOf(x)}
    BY <1>1, <1>2, <1>5 DEF Taken
  <2>2. /\ \A q \in 1..(n + 1) : q = n + 1 \/ q \in 1..n
        /\ \A q \in 1..n : q \in 1..(n + 1)
        /\ n + 1 \in 1..(n + 1)
    OBVIOUS
  <2> QED BY <1>5, <2>1, <2>2
<1>15. Given' = <<>>
  BY <1>1 DEF Given
<1>16. d2 \o (Given' \o left) = AllSamples'
  BY <1>2, <1>5, <1>15, TakingOrder DEF Taken
<1>17. Waiting(stack, left)'
  BY <1>1 DEF Taken
<1>18. LastIsRead(d2)'
  <2>1. callee' # NoCall
    BY <1>1 DEF Calling
  <2> QED BY <1>1, <1>2, <1>3, <1>5, <1>8, <2>1 DEF LastIsRead
<1>19. Taken(d2, left)'
  BY <1>12, <1>13, <1>14, <1>16, <1>17, <1>18 DEF Taken
<1> QED BY <1>19

(* While properties are read.                                              *)
LEMMA ReadingLast ==
  ASSUME CallsTyped, NEW done \in Seq(Sample), LastIsRead(done), iter > 0
  PROVE  \E n \in Nat \ {0}, d \in DOMAIN Doc :
           /\ n = Len(done) /\ n \in Firsts(done) /\ done[n].doc = d /\ d = callee.doc
           /\ callee # NoCall /\ Doc[d].properties # NoProperties
           /\ D.properties = Doc[d].properties
           /\ Given = <<>>
<1>1. /\ callee # NoCall /\ Doc[callee.doc].properties # NoProperties
      /\ Len(done) \in Firsts(done) /\ done[Len(done)].doc = callee.doc
  BY DEF LastIsRead
<1>2. callee.doc \in DOMAIN Doc
  BY <1>1 DEF CallsTyped, Place
<1>3. Len(done) \in Nat \ {0}
  <2>1. Len(done) \in 1..Len(done)
    BY <1>1, FirstsUnfold
  <2> QED BY <2>1, LenProperties
<1>4. Given = <<>>
  BY DEF Given
<1> QED BY <1>1, <1>2, <1>3, <1>4 DEF D

LEMMA ParsePropertyKeeps ==
  ASSUME IInv, IInv', AllSamples' = AllSamples,
         NEW done \in Seq(Sample), NEW left \in Seq(Sample),
         Taken(done, left), ParseProperty
  PROVE  Taken(done, left)'
<1>1. PICK i \in Nat : i = iter
  BY DEF IInv, CallsTyped
<1>2. /\ i > 0 /\ i <= Len(D.properties) /\ iter' = i + 1
      /\ UNCHANGED <<itemtype_set, stack, callee>>
      /\ IF Key \in DOMAIN property_set THEN UNCHANGED <<property_set, column_names, column_types>>
                                        ELSE AddColumn
  BY <1>1 DEF ParseProperty
<1>3. CallsTyped /\ LastIsRead(done)
  BY DEF IInv, Taken
<1>4. PICK n \in Nat \ {0}, d \in DOMAIN Doc :
        /\ n = Len(done) /\ n \in Firsts(done) /\ done[n].doc = d /\ d = callee.doc
        /\ callee # NoCall /\ Doc[d].properties # NoProperties
        /\ D.properties = Doc[d].properties
        /\ Given = <<>>
  BY <1>1, <1>2, <1>3, ReadingLast
<1>5. PICK z : z = <<n, i>> /\ z[1] = n /\ z[2] = i
  <2>1. (<<n, i>>)[1] = n /\ (<<n, i>>)[2] = i
    OBVIOUS
  <2> QED BY <2>1
<1>6. i \in DOMAIN Doc[d].properties
  BY <1>2, <1>4, PropertiesCounted
<1>7. z \in Places(done)
  BY <1>4, <1>5, <1>6, PlacesUnfold
<1>8. PICK places : places = UpTo(done)
  OBVIOUS
<1>9. \A p \in Places(done) : /\ p = <<p[1], p[2]>> /\ p[1] \in 1..n
                              /\ p[1] = n => p[2] \in 1..Len(Doc[d].properties)
  <2>1. DOMAIN Doc[d].properties = 1..Len(Doc[d].properties)
    BY <1>4, PropertiesCounted
  <2> QED BY <1>4, <2>1, PlaceOf
<1>10. places = {p \in Places(done) : p[1] = n => p[2] < i}
  BY <1>1, <1>2, <1>4, <1>8 DEF UpTo
<1>11. UpTo(done)' = {p \in Places(done) : p[1] = n => p[2] < i + 1}
  BY <1>2, <1>4 DEF UpTo
<1>12. UpTo(done)' = places \cup {z}
  <2>1. PICK size \in Nat : size = Len(Doc[d].properties)
    BY <1>4, PropertiesCounted
  <2>2. ASSUME NEW p \in Places(done), p[1] = n, p[2] < i + 1, ~(p[2] < i)
        PROVE  p = z
    <3>1. p[2] = i
      BY <1>9, <2>1, <2>2
    <3> QED BY <1>5, <1>9, <2>2, <3>1
  <2>3. ASSUME NEW p \in Places(done), p[1] = n, p[2] < i
        PROVE  p[2] < i + 1
    BY <1>9, <2>1, <2>3
  <2>4. z[2] < i + 1
    BY <1>5
  <2> QED BY <1>7, <1>10, <1>11, <2>2, <2>3, <2>4
<1>13. \A p \in places : Before(p, z) /\ ~Before(z, p)
  <2>1. PICK size \in Nat : size = Len(Doc[d].properties)
    BY <1>4, PropertiesCounted
  <2>2. ASSUME NEW p \in places PROVE Before(p, z) /\ ~Before(z, p)
    <3>1. p \in Places(done) /\ (p[1] = n => p[2] < i)
      BY <1>10, <2>2
    <3>2. p[1] \in 1..n /\ (p[1] = n => p[2] \in 1..size)
      BY <1>9, <2>1, <3>1
    <3>3. p[1] < n \/ (p[1] = n /\ p[2] < i)
      BY <3>1, <3>2
    <3>4. ~(n < p[1] \/ (n = p[1] /\ i < p[2]))
      BY <3>1, <3>2
    <3> QED BY <1>5, <3>3, <3>4 DEF Before
  <2> QED BY <2>2
<1>14. ~Before(z, z)
  BY <1>5 DEF Before
<1>15. KeyAt(done, z) = Key /\ PropertyAt(done, z) = D.properties[iter]
  BY <1>1, <1>4, <1>5 DEF KeyAt, PropertyAt, Key
<1>16. ColumnsAre(done, places)
  BY <1>8 DEF Taken
<1>17. ColumnsAre(done, places \cup {z})'
  <2>1. CASE Key \in DOMAIN property_set
    <3>1. PICK k \in Nat : k = property_set[Key]
      BY <2>1 DEF IInv, ColumnsTyped
    <3>2. k < Len(column_names) /\ column_names[k + 1] = Key
      BY <2>1, <3>1 DEF IInv, Indexed
    <3>3. k + 1 \in 1..Len(column_names)
      BY <3>2, LenProperties DEF IInv, ColumnsTyped
    <3>4. UNCHANGED <<column_names, column_types>>
      BY <1>2, <2>1
    <3>5. column_names[k + 1] = KeyAt(done, z)
      BY <1>15, <3>2
    <3> QED BY ONLY <1>13, <1>16, <3>3, <3>4, <3>5, KnownKey
  <2>2. CASE Key \notin DOMAIN property_set
    <3>1. \A c \in 1..Len(column_names) : column_names[c] # KeyAt(done, z)
      BY <1>15, <2>2 DEF IInv, Indexed
    <3>2. /\ column_names' = Append(column_names, KeyAt(done, z))
          /\ column_types' = Append(column_types, GetPropertyTypeOfJsonValue(PropertyAt(done, z)[2]))
      BY <1>2, <1>15, <2>2 DEF AddColumn
    <3>3. ColumnsTyped /\ ColumnsTyped'
      BY DEF IInv
    <3> QED BY ONLY <1>13, <1>14, <1>16, <3>1, <3>2, <3>3, NewKey
  <2> QED BY <2>1, <2>2
<1>18. Given' = <<>>
  BY <1>1, <1>2 DEF Given
<1>19. done \o (Given' \o left) = AllSamples'
  BY <1>4, <1>18 DEF Taken
<1>20. Waiting(stack, left)' /\ itemtype_set' = {JoinedOf(done[q]) : q \in 1..Len(done)}
  BY <1>2 DEF Taken
<1>21. LastIsRead(done)'
  BY <1>1, <1>2, <1>3 DEF LastIsRead
<1>22. ColumnsAre(done, UpTo(done))'
  BY <1>12, <1>17
<1> QED BY <1>19, <1>20, <1>21, <1>22 DEF Taken

LEMMA EndPropertiesKeeps ==
  ASSUME CallsTyped, AllSamples' = AllSamples,
         NEW done \in Seq(Sample), NEW left \in Seq(Sample),
         Taken(done, left), EndProperties
  PROVE  Taken(done, left)'
<1>1. PICK i \in Nat : i = iter
  BY DEF CallsTyped
<1>2. /\ i > 0 /\ i > Len(D.properties) /\ iter' = 0 /\ callee' = NoCall
      /\ UNCHANGED <<schema, stack>>
  BY <1>1 DEF EndProperties
<1>3. LastIsRead(done)
  BY DEF Taken
<1>4. PICK n \in Nat \ {0}, d \in DOMAIN Doc :
        /\ n = Len(done) /\ n \in Firsts(done) /\ done[n].doc = d /\ d = callee.doc
        /\ callee # NoCall /\ Doc[d].properties # NoProperties
        /\ D.properties = Doc[d].properties
        /\ Given = <<>>
  BY <1>1, <1>2, <1>3, ReadingLast
<1>5. PICK size \in Nat : size = Len(Doc[d].properties) /\ i > size
                          /\ DOMAIN Doc[d].properties = 1..size
  BY <1>2, <1>4, PropertiesCounted
<1>6. PICK places : places = Places(done)
  OBVIOUS
<1>7. UpTo(done) = places
  <2>1. ASSUME NEW p \in places, p[1] = n PROVE p[2] < i
    <3>1. p[2] \in 1..size
      BY <1>4, <1>5, <1>6, <2>1, PlaceOf
    <3> QED BY <1>5, <3>1
  <2> QED BY <1>1, <1>4, <1>6, <2>1 DEF UpTo
<1>8. UpTo(done)' = places
  BY <1>2, <1>6 DEF UpTo
<1>9. ColumnsAre(done, places)
  BY <1>7 DEF Taken
<1>10. ColumnsAre(done, places)'
  BY <1>2, <1>9, ColumnsKept DEF schema
<1>11. Given' = <<>>
  BY <1>2 DEF Given
<1>12. done \o (Given' \o left) = AllSamples'
  BY <1>4, <1>11 DEF Taken
<1>13. Waiting(stack, left)' /\ itemtype_set' = {JoinedOf(done[q]) : q \in 1..Len(done)}
  BY <1>2 DEF Taken, schema
<1>14. LastIsRead(done)'
  BY <1>2 DEF LastIsRead
<1> QED BY <1>8, <1>10, <1>12, <1>13, <1>14 DEF Taken

LEMMA BindReturnsKeeps ==
  ASSUME CallsTyped, AllSamples' = AllSamples,
         NEW done \in Seq(Sample), NEW left \in Seq(Sample),
         Taken(done, left), BindReturns
  PROVE  ColumnsAre(AllSamples, Places(AllSamples))'
<1>1. /\ callee = NoCall /\ stack = <<>> /\ UNCHANGED <<schema, iter>>
  BY DEF BindReturns
<1>2. left = <<>> /\ Given = <<>>
  BY <1>1, NothingWaits DEF Taken, Given
<1>3. done = AllSamples
  <2>1. <<>> \o <<>> = <<>> /\ done \o <<>> = done
    BY NoSamples
  <2> QED BY <1>2, <2>1 DEF Taken
<1>4. iter = 0
  BY <1>1 DEF Taken, LastIsRead, CallsTyped
<1>5. PICK places : places = Places(done)
  OBVIOUS
<1>6. UpTo(done) = places
  BY <1>4, <1>5 DEF UpTo
<1>7. ColumnsAre(done, places)
  BY <1>6 DEF Taken
<1>8. ColumnsAre(done, places)'
  BY <1>1, <1>7, ColumnsKept DEF schema
<1>9. AllSamples' = done /\ Places(AllSamples)' = places
  BY <1>3, <1>5
<1> QED BY <1>8, <1>9

LEMMA FirstPageStarts ==
  ASSUME AllSamples' = AllSamples, ReadFirstPage, status' = "open",
         stack = <<>>, itemtype_set = {}, iter = 0, column_names = <<>>, column_types = <<>>
  PROVE  Taken(<<>>, <<>>)'
<1>1. /\ origin \in DOMAIN Serve /\ UNCHANGED <<schema, stack>> /\ ~(iter' > 0)
      /\ callee'.doc = Serve[origin] /\ callee'.catalog = "" /\ callee'.collection = ""
  <2>1. /\ origin \in DOMAIN Serve /\ UNCHANGED <<schema, stack>> /\ iter' = 0
        /\ callee' = [doc |-> Serve[origin], catalog |-> "", collection |-> ""]
    BY DEF ReadFirstPage, Fetch
  <2>2. ~(0 > 0)
    OBVIOUS
  <2> QED BY ONLY <2>1, <2>2
<1>2. Len(<<>>) = 0 /\ 1..0 = {}
  OBVIOUS
<1>3. callee' # NoCall
  <2>1. NoCall.doc \notin DOMAIN Doc /\ Serve[origin] \in DOMAIN Doc
    BY <1>1, SchemaAssumption DEF NoCall
  <2> QED BY <1>1, <2>1
<1>4. Given' = AllSamples'
  <2>1. Given' = Samples(callee'.doc, callee'.catalog, callee'.collection)
    BY <1>1, <1>3 DEF Given
  <2>2. AllSamples = Samples(Serve[origin], "", "")
    BY <1>1 DEF AllSamples
  <2> QED BY <1>1, <2>1, <2>2
<1>5. AllSamples' \in Seq(Sample)
  <2>1. Serve[origin] \in DOMAIN Doc /\ "" \in Ids
    BY <1>1, SchemaAssumption DEF Ids
  <2> QED BY <1>1, <2>1, SamplesUnfold DEF AllSamples
<1>6. <<>> \o (Given' \o <<>>) = AllSamples'
  BY <1>4, <1>5, NoSamples
<1>7. Waiting(stack', <<>>)
  BY <1>1, NothingWaits
<1>8. itemtype_set' = {JoinedOf((<<>>)[q]) : q \in 1..Len(<<>>)}
  BY <1>1, <1>2 DEF schema
<1>9. Places(<<>>) = {}
  <2>1. Firsts(<<>>) = {}
    BY <1>2 DEF Firsts
  <2> QED BY <2>1, PlacesUnfold
<1>10. UpTo(<<>>)' = {}
  BY <1>9 DEF UpTo
<1>11. Len(column_names)' = 0
  BY <1>1, <1>2 DEF schema
<1>12. ColumnsAre(<<>>, {})'
  BY <1>2, <1>11 DEF ColumnsAre, FirstIn
<1>13. LastIsRead(<<>>)'
  BY <1>1 DEF LastIsRead
<1> QED BY <1>6, <1>7, <1>8, <1>10, <1>12, <1>13 DEF Taken

LEMMA OpenKept ==
  ASSUME IInv, IInv', SchemaInv, [Next]_vars, status' = "open"
  PROVE  \E done, left \in Seq(Sample) : Taken(done, left)'
<1>1. AllSamples' = AllSamples /\ CallsTyped
  BY OriginKept DEF IInv
<1>2. CASE status = "open"
  <2>1. PICK done \in Seq(Sample), left \in Seq(Sample) : Taken(done, left)
    BY <1>2 DEF SchemaInv
  <2>2. CASE \/ IgnoreOther \/ EnterCatalog \/ EnterCollection \/ EnterFeatureCollection
             \/ SkipLink \/ FollowLink \/ Return
    <3>1. Passes(left) /\ UNCHANGED schema /\ iter = 0 /\ iter' = 0
      BY <1>1, <2>1, <2>2, PassingSteps
    <3> QED BY <1>1, <2>1, <3>1, PassingKeeps
  <2>3. CASE KnownItemType
    BY <1>1, <2>1, <2>3, KnownItemTypeKeeps
  <2>4. CASE NewItemType
    BY <1>1, <2>1, <2>4, NewItemTypeKeeps
  <2>5. CASE ParseProperty
    BY <1>1, <2>1, <2>5, ParsePropertyKeeps
  <2>6. CASE EndProperties
    BY <1>1, <2>1, <2>6, EndPropertiesKeeps
  <2>7. CASE ReadFirstPage \/ MissingType \/ MissingProperties \/ BindReturns
    BY <1>2, <2>7 DEF ReadFirstPage, MissingType, Throw, MissingProperties, BindReturns
  <2>8. CASE UNCHANGED vars
    <3>1. UNCHANGED <<stack, callee, iter, itemtype_set, column_names, column_types>>
      BY <2>8 DEF vars, schema
    <3>2. Given' = Given /\ UpTo(done)' = UpTo(done) /\ (LastIsRead(done) <=> LastIsRead(done)')
      BY <3>1 DEF Given, UpTo, LastIsRead
    <3>3. PICK places : places = UpTo(done)
      OBVIOUS
    <3>4. ColumnsAre(done, places) /\ UpTo(done)' = places
      BY <2>1, <3>2, <3>3 DEF Taken
    <3>5. ColumnsAre(done, places)'
      BY <3>1, <3>4, ColumnsKept
    <3>6. Taken(done, left)'
      BY <1>1, <2>1, <3>1, <3>2, <3>4, <3>5 DEF Taken
    <3> QED BY <3>6
  <2> QED BY <2>2, <2>3, <2>4, <2>5, <2>6, <2>7, <2>8, StepCases
<1>3. CASE status # "open"
  <2>1. ReadFirstPage /\ status = "new"
    BY <1>3, StepCases
       DEF MissingType, IgnoreOther, EnterCatalog, EnterCollection, EnterFeatureCollection, Calling,
           KnownItemType, NewItemType, MissingProperties, ParseProperty, EndProperties, Looping,
           SkipLink, FollowLink, OnLink, Return, BindReturns, vars, ReadFirstPage
  <2>2. Taken(<<>>, <<>>)'
    BY <1>1, <2>1, FirstPageStarts DEF SchemaInv
  <2> QED BY <2>2, NoSamples
<1> QED BY <1>2, <1>3

LEMMA BoundKept ==
  ASSUME IInv, SchemaInv, [Next]_vars, status' = "bound"
  PROVE  ColumnsAre(AllSamples, Places(AllSamples))'
<1>1. AllSamples' = AllSamples /\ CallsTyped
  BY OriginKept DEF IInv
<1>2. BindReturns \/ UNCHANGED vars
  BY StepCases
     DEF MissingType, Throw, IgnoreOther, EnterCatalog, EnterCollection, EnterFeatureCollection,
         Calling, KnownItemType, NewItemType, MissingProperties, ParseProperty, EndProperties,
         Looping, SkipLink, FollowLink, OnLink, Return, ReadFirstPage, Fetch
<1>3. CASE BindReturns
  <2>1. status = "open"
    BY <1>3 DEF BindReturns
  <2>2. PICK done \in Seq(Sample), left \in Seq(Sample) : Taken(done, left)
    BY <2>1 DEF SchemaInv
  <2> QED BY <1>1, <1>3, <2>2, BindReturnsKeeps
<1>4. CASE UNCHANGED vars
  <2>1. status = "bound"
    BY <1>4 DEF vars
  <2>2. ColumnsAre(AllSamples, Places(AllSamples))
    BY <2>1 DEF SchemaInv
  <2> QED BY <1>1, <1>4, <2>2 DEF vars, schema, ColumnsAre, Shows
<1> QED BY <1>2, <1>3, <1>4

LEMMA SchemaInvariant == Spec => []SchemaInv
<1>1. Init => SchemaInv
  BY DEF Init, SchemaInv
<1>2. IInv /\ IInv' /\ SchemaInv /\ [Next]_vars => SchemaInv'
  <2> SUFFICES ASSUME IInv, IInv', SchemaInv, [Next]_vars PROVE SchemaInv'
    OBVIOUS
  <2>1. status' = "new" => UNCHANGED vars
    BY StepCases
       DEF MissingType, Throw, IgnoreOther, EnterCatalog, EnterCollection, EnterFeatureCollection,
           Calling, KnownItemType, NewItemType, MissingProperties, ParseProperty, EndProperties,
           Looping, SkipLink, FollowLink, OnLink, Return, ReadFirstPage, Fetch, BindReturns
  <2>2. status' = "new" =>
          /\ stack' = <<>> /\ itemtype_set' = {} /\ iter' = 0
          /\ column_names' = <<>> /\ column_types' = <<>>
    BY <2>1 DEF SchemaInv, vars, schema
  <2> QED BY <2>2, OpenKept, BoundKept DEF SchemaInv
<1> QED BY <1>1, <1>2, IInvInvariant, PTL DEF Spec

(* Once Bind returns, the columns are the properties of the first item of  *)
(* each level and of each Catalog and Collection, each once, in the order  *)
(* in which they are met and with the type of the first, whatever the      *)
(* shape and the depth of the catalog.                                     *)
THEOREM ColumnsComeFromFirstItems == Spec => []ColumnsOfFirstItems
<1>1. IInv /\ SchemaInv => ColumnsOfFirstItems
  <2> SUFFICES ASSUME IInv, SchemaInv, status = "bound" PROVE ColumnsOfFirstItems
    BY DEF ColumnsOfFirstItems
  <2>1. DOMAIN column_names = 1..Len(column_names)
    BY LenProperties DEF IInv, ColumnsTyped
  <2>2. ColumnsAre(AllSamples, Places(AllSamples))
    BY DEF SchemaInv
  <2> QED BY <2>1, <2>2 DEF ColumnsAre, ColumnsOfFirstItems
<1> QED BY <1>1, IInvInvariant, SchemaInvariant, PTL

=============================================================================
