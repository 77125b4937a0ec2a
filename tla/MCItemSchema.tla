---------------------------- MODULE MCItemSchema ----------------------------
(***************************************************************************)
(* Catalogs for ItemSchema, and the items they give to the schema.         *)
(***************************************************************************)
EXTENDS ItemSchema, SequencesExt, TLC

Json(type, id, features, links) ==
  [type |-> type, id |-> id, features |-> features, links |-> links,
   matched |-> -1, properties |-> NoProperties]
Item(collection, properties) == [Json("Feature", collection, <<>>, <<>>) EXCEPT !.properties = properties]
To(rel, href) == [rel |-> rel, href |-> href]

I(n) == [kind |-> "int", v |-> n]
R(tenths) == [kind |-> "real", v |-> tenths]
S(text) == [kind |-> "str", v |-> text]
B(b) == [kind |-> "bool", v |-> b]
N == [kind |-> "nested", v |-> "nested"]
Nul == [kind |-> "null", v |-> "null"]

(* A Catalog with a Collection of its own items and a listing, a nested    *)
(* Catalog, and items beside them.  The key "gsd" comes with two types,    *)
(* and f4 has it twice.                                                    *)
Tree == [
  root |-> Json("Catalog", "C", <<>>,
             <<To("child", "coll"), To("item", NoHref), To("item", "f4"), To("item", "f5"),
               To("child", "sub"), To("self", "root")>>),
  coll |-> Json("Collection", "K", <<>>,
             <<NotObject, To("items", "list"), To("item", "f2"), To("item", "f3")>>),
  list |-> [Json("FeatureCollection", NoId, <<NotObject, "f1", "f2">>, <<>>) EXCEPT !.matched = 2],
  sub  |-> Json("Catalog", NoId, <<>>, <<To("item", "f6"), To("items", "empty"), To("item", "f5")>>),
  empty |-> Json("FeatureCollection", NoId, <<>>, <<>>),
  f1 |-> Item(NoId, <<<<"cloud", I(3)>>, <<"gsd", R(100)>>>>),
  f2 |-> Item(NoId, <<<<"gsd", R(25)>>, <<"cloud", I(7)>>>>),
  f3 |-> Item("M", <<<<"cloud", I(5)>>>>),
  f4 |-> Item("M", <<<<"sat", S("cs3")>>, <<"gsd", I(2)>>, <<"gsd", R(4)>>, <<"none", Nul>>>>),
  f5 |-> Item("N", <<<<"bands", N>>, <<"cloud", I(2)>>>>),
  f6 |-> Item(NoId, <<<<"ok", B(1)>>, <<"sat", S("cs4")>>>>)]

(* The tree under another Catalog that has an item of its own.             *)
Top2 == [
  top |-> Json("Catalog", "T", <<>>, <<To("item", "f7"), To("child", "root"), To("child", "coll")>>),
  f7  |-> Item("M", <<<<"ok", S("yes")>>, <<"datetime", S("now")>>>>)]

Api == [
  all |-> [Json("FeatureCollection", NoId, <<"g1", "g2">>, <<To("next", "all")>>) EXCEPT !.matched = 6],
  g1  |-> Item("K", <<<<"cloud", I(0)>>, <<"size", I(3)>>>>),
  g2  |-> Item("K", <<<<"size", I(4)>>, <<"cloud", I(9)>>>>)]

(* The second item has another property, a fraction where the first has a  *)
(* whole number, and a number too wide for an INTEGER.                     *)
Numbers == [
  numbers |-> Json("FeatureCollection", NoId, <<"n1", "n2">>, <<>>),
  n1 |-> Item("K", <<<<"cloud", I(0)>>, <<"size", I(3)>>>>),
  n2 |-> Item("K", <<<<"gsd", R(25)>>, <<"cloud", R(127)>>, <<"size", I(20)>>>>)]

(* No type, no properties, an unknown type.                                *)
Odd == [
  odd  |-> Json("Catalog", "C", <<>>, <<To("child", "other"), To("item", "bare")>>),
  odd2 |-> Json("Catalog", "C", <<>>, <<To("item", "g1"), To("child", "untyped")>>),
  other |-> Json("Other", NoId, <<>>, <<>>),
  bare |-> Json("Feature", NoId, <<>>, <<>>),
  untyped |-> Json("", NoId, <<>>, <<>>)]

AllDocs == Tree @@ Top2 @@ Api @@ Numbers @@ Odd
Served == [h \in DOMAIN Doc |-> h]
Origins == {"root", "top", "all", "numbers", "coll", "sub", "odd", "odd2"}

(***************************************************************************)
(* The items a schema is taken from, by recursion over the documents: see  *)
(* SamplesAssumption.                                                      *)
(***************************************************************************)
RECURSIVE SamplesOf(_, _, _)

(* The links that count from the i-th on, given whether an item was seen.  *)
SamplesFrom(name, i, count, cat, coll) ==
  LET d      == Doc[name]
      later  == {k \in i..Len(d.links) : d.links[k] # NotObject /\ d.links[k].href # NoHref}
      items  == {k \in later : d.links[k].rel = "item"}
      taken  == {k \in later : \/ d.links[k].rel \in {"child", "items"}
                               \/ k \in items /\ count = 0 /\ \A j \in items : k <= j}
  IN  FlattenSeq([k \in 1..Len(d.links) |->
        IF k \in taken THEN SamplesOf(Serve[d.links[k].href], cat, coll) ELSE <<>>])

SamplesOf(name, cat, coll) ==
  LET d       == Doc[name]
      objects == SelectSeq(d.features, LAMBDA f : f # NotObject)
  IN  CASE d.type = "Feature" ->
             <<[doc |-> name, catalog |-> cat, collection |-> IdOr(d.id, coll)]>>
        [] d.type = "Catalog"    -> SamplesFrom(name, 1, 0, IdOr(d.id, cat), coll)
        [] d.type = "Collection" -> SamplesFrom(name, 1, 0, cat, IdOr(d.id, coll))
        [] d.type = "FeatureCollection" /\ objects # <<>> -> SamplesOf(objects[1], cat, coll)
        [] OTHER -> <<>>
=============================================================================
