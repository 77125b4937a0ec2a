----------------------------- MODULE ItemSchema -----------------------------
(***************************************************************************)
(* The columns of STAC_Read and STAC_Search.  Bind reads the first page of *)
(* the catalog once for its schema (src/stac/stac_schema.cpp): each level  *)
(* of the catalog is asked for one item, and the properties of these items *)
(* become columns.  The reader later puts the properties of every item     *)
(* under these columns (src/stac/stac_read_functions.cpp, stac_types.cpp). *)
(*                                                                         *)
(* The ids of the Catalog and the Collection are arguments here, where     *)
(* ItemReader keeps them in members; a frame of stack is a call of         *)
(* ParseSchemaOfLinks with its arguments and its locals.                   *)
(***************************************************************************)
EXTENDS Integers, Sequences

CONSTANTS
  Doc,       \* name -> JSON object, see DocShape
  Serve,     \* href -> name of the document found there
  Origin,    \* the paths a query may name
  FirstProperty, \* STAC_ITEM_FIRST_PROPERTY_COLUMN_INDEX, 9
  IntWidth,  \* the bits of an INTEGER, 32
  Samples(_, _, _), \* the items a document gives to the schema, see SamplesAssumption
  SamplesBelow(_, _, _, _, _), \* those that its links give, from one of them on
  NoDoc, NoHref, NoId, NotObject, NoProperties, NULL, ConversionError

(* A JSON value: v is the number of an int, the tenths of a real, 0 or 1   *)
(* for a bool, and a name for the text of anything else.                   *)
JsonShape(json) == json.kind \in {"null", "bool", "int", "real", "str", "nested"}

(* "": no type.  properties: <<key, value>> in the order of the document.  *)
DocShape(d) ==
  /\ d.type \in {"Catalog", "Collection", "FeatureCollection", "Feature", "Other", ""}
  /\ d.matched \in Int
  /\ d.features \in Seq(DOMAIN Doc \cup {NotObject})
  /\ d.links \in Seq({d.links[i] : i \in DOMAIN d.links})
  /\ \A i \in DOMAIN d.links : d.links[i] # NotObject => DOMAIN d.links[i] = {"rel", "href"}
  /\ d.properties # NoProperties =>
       /\ d.properties \in Seq({d.properties[i] : i \in DOMAIN d.properties})
       /\ \A i \in DOMAIN d.properties : JsonShape(d.properties[i][2])

ASSUME SchemaAssumption ==
  /\ \A n \in DOMAIN Doc : DocShape(Doc[n])
  /\ \A h \in DOMAIN Serve : Serve[h] \in DOMAIN Doc
  /\ NoDoc \notin DOMAIN Doc /\ NotObject \notin DOMAIN Doc
  /\ FirstProperty \in Nat /\ IntWidth \in Nat \ {0}

VARIABLES
  origin,
  itemtype_set,   \* the ids, joined, whose first item has been taken
  property_set,   \* key -> its index in the columns, from 0
  column_names, column_types,
  number_matched,
  stack,
  callee,         \* the call about to be made: a document and the two ids
  iter,           \* the place in its properties, 0 before they are reached
  status          \* "new", "open", "bound" or "failed" (thrown)

schema == <<itemtype_set, property_set, column_names, column_types>>
vars   == <<origin, schema, number_matched, stack, callee, iter, status>>

NoCall == [doc |-> NoDoc, catalog |-> "", collection |-> ""]

Init ==
  /\ origin \in Origin
  /\ itemtype_set = {} /\ property_set = <<>>
  /\ column_names = <<>> /\ column_types = <<>> /\ number_matched = -1
  /\ stack = <<>> /\ callee = NoCall /\ iter = 0 /\ status = "new"

(***************************************************************************)
(* JSON values as DuckDB values.                                           *)
(***************************************************************************)
GetPropertyTypeOfJsonValue(json) ==
  CASE json.kind = "bool" -> "BOOLEAN"
    [] json.kind = "int"  -> "INTEGER"
    [] json.kind = "real" -> "DOUBLE"
    [] json.kind = "str"  -> "VARCHAR"
    [] OTHER              -> "JSON"

(* What yyjson_get_int keeps of a number.                                  *)
AsInt(n) ==
  LET low == n % (2 ^ IntWidth)
  IN  IF low < 2 ^ (IntWidth - 1) THEN low ELSE low - 2 ^ IntWidth

Typed(type, v) == [type |-> type, v |-> v]

GetPropertyValueOfJsonValue(json) ==
  CASE json.kind = "null" -> NULL
    [] json.kind = "bool" -> Typed("BOOLEAN", json.v)
    [] json.kind = "int"  -> Typed("INTEGER", AsInt(json.v))
    [] json.kind = "real" -> Typed("DOUBLE", json.v)
    [] OTHER              -> Typed("VARCHAR", json.v)

(***************************************************************************)
(* ParseSchemaOfObject.                                                    *)
(***************************************************************************)
Fetch(href, catalog, collection) ==
  \/ /\ href \in DOMAIN Serve
     /\ callee' = [doc |-> Serve[href], catalog |-> catalog, collection |-> collection]
     /\ status' = "open"
  \/ callee' = NoCall /\ status' = "failed"

ReadFirstPage ==
  /\ status = "new"
  /\ Fetch(origin, "", "")
  /\ UNCHANGED <<origin, schema, number_matched, stack, iter>>

D == Doc[callee.doc]

Calling(type) == status = "open" /\ callee # NoCall /\ iter = 0 /\ D.type = type

Throw ==
  /\ status' = "failed"
  /\ UNCHANGED <<origin, schema, number_matched, stack, callee, iter>>

MissingType == Calling("") /\ Throw

IgnoreOther ==
  /\ Calling("Other")
  /\ callee' = NoCall
  /\ UNCHANGED <<origin, schema, number_matched, stack, iter, status>>

IdOr(id, outer) == IF id = NoId THEN outer ELSE id

Frame(catalog, collection) ==
  [doc |-> callee.doc, i |-> 1, catalog |-> catalog, collection |-> collection, item_count |-> 0]

EnterCatalog ==
  /\ Calling("Catalog")
  /\ stack' = Append(stack, Frame(IdOr(D.id, callee.catalog), callee.collection))
  /\ callee' = NoCall
  /\ UNCHANGED <<origin, schema, number_matched, iter, status>>

EnterCollection ==
  /\ Calling("Collection")
  /\ stack' = Append(stack, Frame(callee.catalog, IdOr(D.id, callee.collection)))
  /\ callee' = NoCall
  /\ UNCHANGED <<origin, schema, number_matched, iter, status>>

ObjectsOf(d) == {k \in DOMAIN d.features : d.features[k] # NotObject}

Objects == ObjectsOf(D)

(* Only the first feature that is an object; no links.                     *)
EnterFeatureCollection ==
  /\ Calling("FeatureCollection")
  /\ number_matched' = IF D.matched = -1 THEN number_matched ELSE D.matched
  /\ \/ Objects = {} /\ callee' = NoCall
     \/ \E first \in Objects :
          /\ \A k \in Objects : first <= k
          /\ callee' = [callee EXCEPT !.doc = D.features[first]]
  /\ UNCHANGED <<origin, schema, stack, iter, status>>

(* The two ids as one text.                                                *)
Joined(catalog, collection) == catalog \o "/" \o collection

ItemType == Joined(callee.catalog, IdOr(D.id, callee.collection))

KnownItemType ==
  /\ Calling("Feature") /\ ItemType \in itemtype_set
  /\ callee' = NoCall
  /\ UNCHANGED <<origin, schema, number_matched, stack, iter, status>>

NewItemType ==
  /\ Calling("Feature") /\ ItemType \notin itemtype_set /\ D.properties # NoProperties
  /\ itemtype_set' = itemtype_set \cup {ItemType}
  /\ iter' = 1
  /\ UNCHANGED <<origin, property_set, column_names, column_types, number_matched, stack, callee, status>>

MissingProperties ==
  /\ Calling("Feature") /\ ItemType \notin itemtype_set /\ D.properties = NoProperties
  /\ itemtype_set' = itemtype_set \cup {ItemType}
  /\ status' = "failed"
  /\ UNCHANGED <<origin, property_set, column_names, column_types, number_matched, stack, callee, iter>>

Key == D.properties[iter][1]

NextIndexFromOne == Len(column_names) + 1

NextIndex == Len(column_names)

AddColumn ==
  /\ property_set' = [key \in DOMAIN property_set \cup {Key} |->
                        IF key = Key THEN NextIndex ELSE property_set[key]]
  /\ column_names' = Append(column_names, Key)
  /\ column_types' = Append(column_types, GetPropertyTypeOfJsonValue(D.properties[iter][2]))

\* A known property is added once more.
ParsePropertyAgain ==
  /\ status = "open" /\ iter > 0 /\ iter <= Len(D.properties)
  /\ AddColumn
  /\ iter' = iter + 1
  /\ UNCHANGED <<origin, itemtype_set, number_matched, stack, callee, status>>

ParseProperty ==
  /\ status = "open" /\ iter > 0 /\ iter <= Len(D.properties)
  /\ IF Key \in DOMAIN property_set THEN UNCHANGED <<property_set, column_names, column_types>>
                                   ELSE AddColumn
  /\ iter' = iter + 1
  /\ UNCHANGED <<origin, itemtype_set, number_matched, stack, callee, status>>

EndProperties ==
  /\ status = "open" /\ iter > 0 /\ iter > Len(D.properties)
  /\ callee' = NoCall /\ iter' = 0
  /\ UNCHANGED <<origin, schema, number_matched, stack, status>>

ParseSchemaOfObject ==
  \/ MissingType \/ IgnoreOther \/ EnterCatalog \/ EnterCollection \/ EnterFeatureCollection
  \/ KnownItemType \/ NewItemType \/ MissingProperties \/ ParseProperty \/ EndProperties

(***************************************************************************)
(* ParseSchemaOfLinks.                                                     *)
(***************************************************************************)
Top == stack[Len(stack)]

Looping == status = "open" /\ callee = NoCall /\ stack # <<>>

Links == Doc[Top.doc].links

OnLink == Looping /\ Top.i <= Len(Links)

Link == Links[Top.i]

SampledOnce == Link.rel \in {"child", "items"} \/ (Link.rel = "item" /\ itemtype_set = {})

(* One item of each level is enough.                                       *)
Sampled == Link.rel \in {"child", "items"} \/ (Link.rel = "item" /\ Top.item_count = 0)

Followed == Link # NotObject /\ Link.href # NoHref /\ Sampled

SkipLinkInPlace == OnLink /\ ~Followed /\ UNCHANGED vars

SkipLink ==
  /\ OnLink /\ ~Followed
  /\ stack' = [stack EXCEPT ![Len(stack)].i = @ + 1]
  /\ UNCHANGED <<origin, schema, number_matched, callee, iter, status>>

FollowLink ==
  /\ OnLink /\ Followed
  /\ stack' = [stack EXCEPT ![Len(stack)].i = @ + 1,
                            ![Len(stack)].item_count = IF Link.rel = "item" THEN @ + 1 ELSE @]
  /\ Fetch(Link.href, Top.catalog, Top.collection)
  /\ UNCHANGED <<origin, schema, number_matched, iter>>

Return ==
  /\ Looping /\ Top.i > Len(Links)
  /\ stack' = SubSeq(stack, 1, Len(stack) - 1)
  /\ UNCHANGED <<origin, schema, number_matched, callee, iter, status>>

BindReturns ==
  /\ status = "open" /\ callee = NoCall /\ stack = <<>>
  /\ status' = "bound"
  /\ UNCHANGED <<origin, schema, number_matched, stack, callee, iter>>

Next ==
  ReadFirstPage \/ ParseSchemaOfObject \/ SkipLink \/ FollowLink \/ Return \/ BindReturns

(* One thread binds the query.                                             *)
Spec == Init /\ [][Next]_vars /\ WF_vars(Next)

(***************************************************************************)
(* The row of an item under these columns.                                 *)
(***************************************************************************)
Keys(n) == {Doc[n].properties[i][1] : i \in DOMAIN Doc[n].properties}

(* The value of the first property of that name: emplace does not replace. *)
Property(n, key) ==
  LET p == Doc[n].properties
  IN  p[CHOOSE i \in DOMAIN p : p[i][1] = key /\ \A j \in 1..(i - 1) : p[j][1] # key][2]

(* ItemReader: index of a column -> value.  A key that is not in the       *)
(* schema is skipped.                                                      *)
RowProperties(n) ==
  [index \in {property_set[key] : key \in Keys(n) \cap DOMAIN property_set} |->
     LET key == CHOOSE key \in Keys(n) \cap DOMAIN property_set : property_set[key] = index
     IN  GetPropertyValueOfJsonValue(Property(n, key))]

(* ItemRow::ValueOf, for the columns of the properties.                    *)
ValueOf(row, dim_index) ==
  LET property_idx == dim_index - FirstProperty
  IN  IF property_idx \in DOMAIN row THEN row[property_idx] ELSE NULL

InRange(n) == n \in -(2 ^ (IntWidth - 1))..(2 ^ (IntWidth - 1) - 1)

(* nearbyint: to the nearest, to the even one of two.                      *)
Rounded(tenths) ==
  LET down == tenths \div 10
      rest == tenths % 10
  IN  IF rest > 5 \/ (rest = 5 /\ down % 2 = 1) THEN down + 1 ELSE down

(* Vector::SetValue: a value of another type is cast to the column's.      *)
SetValue(type, value) ==
  CASE value = NULL \/ value.type = type -> value
    [] type = "INTEGER" /\ value.type = "DOUBLE" ->
         IF InRange(Rounded(value.v)) THEN Typed(type, Rounded(value.v)) ELSE ConversionError
    [] type = "INTEGER" /\ value.type = "BOOLEAN" -> Typed(type, value.v)
    [] type = "DOUBLE" /\ value.type \in {"INTEGER", "BOOLEAN"} -> Typed(type, 10 * value.v)
    [] type = "BOOLEAN" /\ value.type \in {"INTEGER", "DOUBLE"} ->
         Typed(type, IF value.v = 0 THEN 0 ELSE 1)
    [] type \in {"VARCHAR", "JSON"} -> Typed(type, value.v)
    [] OTHER -> ConversionError

Cell(n, column) ==
  SetValue(column_types[column], ValueOf(RowProperties(n), FirstProperty + column - 1))

(***************************************************************************)
(* The items that the columns are to come from.                            *)
(***************************************************************************)
Ids    == {""} \cup {Doc[n].id : n \in DOMAIN Doc}
Sample == [doc : DOMAIN Doc, catalog : Ids, collection : Ids]

Usable(l) == l # NotObject /\ l.href # NoHref

(* count: whether an item link came before in the same document.           *)
SamplesByLink(l, count, cat, coll) ==
  IF Usable(l) /\ (l.rel \in {"child", "items"} \/ (l.rel = "item" /\ count = 0))
       /\ l.href \in DOMAIN Serve
  THEN Samples(Serve[l.href], cat, coll) ELSE <<>>

CountAfter(l, count) == IF Usable(l) /\ l.rel = "item" THEN 1 ELSE count

(* The recursion equations of the reference, which a catalog without a     *)
(* cycle of links determines: one item of each list of links and of each   *)
(* listing, and all that is below.                                         *)
ASSUME SamplesAssumption ==
  \A n \in DOMAIN Doc : \A cat, coll \in Ids :
    LET d == Doc[n]
        samples == Samples(n, cat, coll)
    IN  /\ samples \in Seq(Sample)
        /\ d.type = "Feature" =>
             samples = <<[doc |-> n, catalog |-> cat, collection |-> IdOr(d.id, coll)]>>
        /\ d.type = "Catalog" => samples = SamplesBelow(n, 1, 0, IdOr(d.id, cat), coll)
        /\ d.type = "Collection" => samples = SamplesBelow(n, 1, 0, cat, IdOr(d.id, coll))
        /\ d.type = "FeatureCollection" =>
             /\ ObjectsOf(d) = {} => samples = <<>>
             /\ \A first \in ObjectsOf(d) :
                  (\A k \in ObjectsOf(d) : first <= k) => samples = Samples(d.features[first], cat, coll)
        /\ d.type = "Other" => samples = <<>>
        /\ \A i \in 1..(Len(d.links) + 1) : \A count \in 0..1 :
             /\ SamplesBelow(n, i, count, cat, coll) \in Seq(Sample)
             /\ SamplesBelow(n, i, count, cat, coll) =
                  IF i > Len(d.links) THEN <<>>
                  ELSE SamplesByLink(d.links[i], count, cat, coll)
                         \o SamplesBelow(n, i + 1, CountAfter(d.links[i], count), cat, coll)

AllSamples == IF origin \in DOMAIN Serve THEN Samples(Serve[origin], "", "") ELSE <<>>

(* The first item of each pair of ids, as one text.                        *)
Firsts(samples) ==
  {q \in DOMAIN samples : \A r \in 1..(q - 1) :
     Joined(samples[r].catalog, samples[r].collection) # Joined(samples[q].catalog, samples[q].collection)}

(* The properties of these items, each with the place where it stands.     *)
Places(samples) ==
  UNION {{<<q, i>> : i \in DOMAIN Doc[samples[q].doc].properties} : q \in Firsts(samples)}

Before(p, r) == p[1] < r[1] \/ (p[1] = r[1] /\ p[2] < r[2])

PropertyAt(samples, p) == Doc[samples[p[1]].doc].properties[p[2]]

KeyAt(samples, p) == PropertyAt(samples, p)[1]

FirstIn(samples, places) ==
  {p \in places : \A r \in places : KeyAt(samples, r) = KeyAt(samples, p) => ~Before(r, p)}

Shows(c, samples, p) ==
  /\ column_names[c] = KeyAt(samples, p)
  /\ column_types[c] = GetPropertyTypeOfJsonValue(PropertyAt(samples, p)[2])

(***************************************************************************)
(* Properties.                                                             *)
(***************************************************************************)
Features == {n \in DOMAIN Doc : Doc[n].type = "Feature" /\ Doc[n].properties # NoProperties}

TypeOK ==
  /\ property_set \in [DOMAIN property_set -> 0..(Len(column_names) - 1)]
  /\ Len(column_types) = Len(column_names)
  /\ \A i \in DOMAIN column_types :
       column_types[i] \in {"BOOLEAN", "INTEGER", "DOUBLE", "VARCHAR", "JSON"}
  /\ callee.doc \in DOMAIN Doc \cup {NoDoc} /\ iter \in Nat
  /\ \A k \in DOMAIN stack : stack[k].doc \in DOMAIN Doc /\ stack[k].item_count \in 0..1
  /\ status \in {"new", "open", "bound", "failed"}

(* Whatever item comes later, from whatever page: each of its properties   *)
(* that has a column is found in the column of that name, and a column     *)
(* whose property it lacks is NULL.  Two maps and the fixed columns lie    *)
(* between the name and the place of a value.                              *)
ValueUnderItsName ==
  \A n \in Features : \A c \in DOMAIN column_names :
    ValueOf(RowProperties(n), FirstProperty + c - 1) =
      IF column_names[c] \in Keys(n)
      THEN GetPropertyValueOfJsonValue(Property(n, column_names[c])) ELSE NULL

(* The columns are the properties of the first item of each level and of   *)
(* each Catalog and Collection, in the order in which they are first met   *)
(* and with the type they have there; which level an item belongs to       *)
(* depends on the ids of all the documents above it.                       *)
ColumnsOfFirstItems ==
  status = "bound" =>
    LET first == FirstIn(AllSamples, Places(AllSamples))
    IN  /\ \A c \in DOMAIN column_names : \E p \in first : Shows(c, AllSamples, p)
        /\ \A p \in first : \E c \in DOMAIN column_names : Shows(c, AllSamples, p)
        /\ \A c, d \in DOMAIN column_names : \A p, r \in first :
             c < d /\ Shows(c, AllSamples, p) /\ Shows(d, AllSamples, r) => Before(p, r)

(* Every Bind of an acyclic catalog ends, or fails.                        *)
Terminates == <>(status \in {"bound", "failed"})

(* "Returns the DuckDB Value corresponding to a given JSON value", and     *)
(* "almost all item fields are mapped to columns": the number in a cell is *)
(* the number of the item, whole or not, unless the scan fails.            *)
NumbersArePreserved ==
  status = "bound" =>
    \A n \in Features : \A c \in DOMAIN column_names :
      column_names[c] \in Keys(n) =>
        LET json == Property(n, column_names[c])
            cell == Cell(n, c)
        IN  /\ json.kind = "int" /\ cell # ConversionError /\ cell.type = "INTEGER"
                 => cell.v = json.v
            /\ json.kind = "real" /\ cell # ConversionError /\ cell.type = "INTEGER"
                 => 10 * cell.v = json.v
=============================================================================
