---------------------------- MODULE MCItemReader ----------------------------
(***************************************************************************)
(* Catalogs for ItemReader, and what they list: the items in reading       *)
(* order and the pages one after the other, by recursion.                  *)
(***************************************************************************)
EXTENDS ItemReaderOrder
LOCAL INSTANCE SequencesExt

Json(type, id, features, links) ==
  [type |-> type, id |-> id, features |-> features, links |-> links,
   valid |-> TRUE, matches |-> TRUE, collection |-> NoId, matched |-> -1]

Item(matches) == [Json("Feature", NoId, <<>>, <<>>) EXCEPT !.matches = matches]
ItemOf(collection) == [Item(TRUE) EXCEPT !.collection = collection]
Broken == [Item(TRUE) EXCEPT !.valid = FALSE]

To(rel, href) == [rel |-> rel, href |-> href, method |-> "GET", merge |-> FALSE,
                  headers |-> None, body |-> {}]
NextLink(href, method, merge, headers, body) ==
  [rel |-> "next", href |-> href, method |-> method, merge |-> merge,
   headers |-> headers, body |-> body]

Token == ("token" :> "t")
Page  == ("page" :> "3")

(* A static tree: a Catalog with a Collection that has a listing and items *)
(* of its own, a nested Catalog without an id, and items beside them.      *)
TreeDocs ==
  ("root" :> Json("Catalog", "C", <<>>,
     <<To("self", "root"), To("child", "coll"), To("child", "anon"),
       To("item", "i4"), To("item", "i5")>>)) @@
  ("coll" :> Json("Collection", "K", <<>>,
     <<To("items", "list"), NotObject, To("item", "i3"), To("child", "sub")>>)) @@
  ("list" :> [Json("FeatureCollection", NoId, <<"i1", NotObject, "i2">>, <<>>)
                EXCEPT !.matched = 2]) @@
  ("sub"  :> Json("Catalog", "D", <<>>, <<To("item", "i6")>>)) @@
  ("anon" :> Json("Catalog", NoId, <<>>, <<To("item", "i7"), To("child", NoHref)>>)) @@
  ("i1" :> Item(TRUE)) @@ ("i2" :> Item(FALSE)) @@ ("i3" :> ItemOf("M")) @@
  ("i4" :> Item(FALSE)) @@ ("i5" :> Item(TRUE)) @@ ("i6" :> Item(TRUE)) @@
  ("i7" :> Item(TRUE))

(* A search API: a POST page, a page with a link of its own headers, a     *)
(* page that merges headers, a page that merges without a body.            *)
ApiDocs ==
  ("p1" :> Json("FeatureCollection", NoId, <<"a1", "a2">>,
     <<NextLink("search", "POST", FALSE, Token, {"q", "p2"})>>)) @@
  ("p2" :> Json("FeatureCollection", NoId, <<"a3">>,
     <<To("self", "search"), NextLink("search", "GET", FALSE, None, {})>>)) @@
  ("p3" :> [Json("FeatureCollection", NoId, <<"a4", "a5">>,
     <<NextLink("search", "POST", TRUE, Page, {"p4"})>>) EXCEPT !.matched = 6]) @@
  ("p4" :> Json("FeatureCollection", NoId, <<>>,
     <<NextLink("last", "POST", TRUE, Token, {})>>)) @@
  ("p5" :> Json("FeatureCollection", NoId, <<"a6">>, <<>>)) @@
  ("a1" :> ItemOf("K")) @@ ("a2" :> Item(FALSE)) @@ ("a3" :> ItemOf("K")) @@
  ("a4" :> Item(TRUE)) @@ ("a5" :> Broken) @@ ("a6" :> Item(TRUE))

(* What goes wrong: no type, an unknown type, a second body to merge, and  *)
(* a next link that is stored before the last item reaches the limit.      *)
OddDocs ==
  ("odd" :> Json("Catalog", "C", <<>>,
     <<To("item", "other"), To("items", "m1"), To("child", "untyped")>>)) @@
  ("other" :> Json("Other", NoId, <<>>, <<>>)) @@
  ("untyped" :> Json(NoType, NoId, <<>>, <<>>)) @@
  ("m1" :> Json("FeatureCollection", NoId, <<"b1">>,
     <<NextLink("m2", "POST", TRUE, None, {"p2"})>>)) @@
  ("m2" :> Json("FeatureCollection", NoId, <<"b2">>,
     <<NextLink("m3", "POST", TRUE, None, {"p3"})>>)) @@
  ("oddapi" :> Json("FeatureCollection", NoId, <<"b1">>,
     <<NextLink("m2", "POST", TRUE, None, {"p2"})>>)) @@
  ("nav" :> Json("Catalog", "C", <<>>,
     <<NextLink("l2", "GET", FALSE, None, {}), To("item", "b1")>>)) @@
  ("b1" :> Item(TRUE)) @@ ("b2" :> Item(TRUE))

(* A static catalog with two listings of two pages each.  x1, x2, y1 and   *)
(* y2 fit the criteria "q" of a search, the other items do not: a page that*)
(* is asked for without the criteria has them as well.                     *)
ListingDocs ==
  ("both" :> Json("Catalog", "C", <<>>, <<To("items", "l1"), To("items", "n1")>>)) @@
  ("l1" :> Json("FeatureCollection", NoId, <<"x1", "z1">>,
     <<NextLink("l2", "POST", TRUE, None, {})>>)) @@
  ("l2" :> Json("FeatureCollection", NoId, <<"x2", "z2">>, <<>>)) @@
  ("n1" :> Json("FeatureCollection", NoId, <<"y1">>,
     <<NextLink("n2", "POST", TRUE, None, {})>>)) @@
  ("n2" :> Json("FeatureCollection", NoId, <<"y2", "z3">>, <<>>)) @@
  ("x1" :> Item(TRUE)) @@ ("x2" :> Item(TRUE)) @@ ("y1" :> Item(TRUE)) @@ ("y2" :> Item(TRUE)) @@
  ("z1" :> Item(TRUE)) @@ ("z2" :> Item(TRUE)) @@ ("z3" :> Item(TRUE))
Hits == {"x1", "x2", "y1", "y2"}

AllDocs == TreeDocs @@ ApiDocs @@ OddDocs @@ ListingDocs

AllLinks == UNION {{d.links[i] : i \in DOMAIN d.links} : d \in {AllDocs[n] : n \in DOMAIN AllDocs}}
              \ {NotObject}

(* Every name but the pages of the API is read with GET under itself.      *)
ByName == [q \in {<<n, {}>> : n \in DOMAIN AllDocs} |-> q[1]]
Pages  == (<<"search", {"q"}>> :> "p1") @@ (<<"search", {"q", "p2"}>> :> "p2") @@
          (<<"search", {}>> :> "p3") @@ (<<"search", {"p4"}>> :> "p4") @@
          (<<"last", {"p4"}>> :> "p5") @@ (<<"m2", {"p2"}>> :> "m2") @@
          (<<"oddapi", {"q"}>> :> "oddapi") @@ (<<"m3", {"p3"}>> :> "l2")
Served == Pages @@ ByName

StaticFiles == DOMAIN TreeDocs \cup {"both"}

Tree     == {[href |-> "root", body |-> {}]}
Search   == {[href |-> "search", body |-> {"q"}]}
Odd      == {[href |-> "odd", body |-> {}], [href |-> "nav", body |-> {}],
             [href |-> "oddapi", body |-> {"q"}]}
StaticSearch == {[href |-> "both", body |-> {"q"}]}
Wellformed == Tree \cup Search \cup Odd \cup StaticSearch

(***************************************************************************)
(* What the documents list and name, by recursion over them.               *)
(***************************************************************************)
RECURSIVE ReadingOf(_, _, _, _, _), NextLinks(_, _), NextLinksOf(_), LaterDocuments(_)

ReadingOf(name, at, i, cat, coll) ==
  LET d == Doc[name]
  IN  CASE at = "features" /\ i > Len(d.features) -> ReadingOf(name, "links", 1, cat, coll)
        [] at = "features" /\ i <= Len(d.features) ->
             FeatureEntries(d.features[i], cat, coll) \o ReadingOf(name, at, i + 1, cat, coll)
        [] at = "links" /\ i > Len(d.links) -> <<>>
        [] at = "links" /\ i <= Len(d.links) ->
             LinkEntries(d.links[i], cat, coll) \o ReadingOf(name, at, i + 1, cat, coll)

(* The next links met from the i-th link of a document on.                 *)
NextLinks(name, i) ==
  LET l     == Doc[name].links[i]
      here  == IF l = NotObject \/ l.href = NoHref THEN <<>>
               ELSE IF l.rel = "next" THEN <<l>>
               ELSE IF ~Followed(l) \/ <<l.href, {}>> \notin DOMAIN Serve THEN <<>>
               ELSE NextLinksOf(Serve[<<l.href, {}>>])
  IN  IF i > Len(Doc[name].links) THEN <<>> ELSE here \o NextLinks(name, i + 1)

NextLinksOf(name) ==
  IF Doc[name].type \in {"Catalog", "Collection", "FeatureCollection"} THEN NextLinks(name, 1) ELSE <<>>

NextAfterOf(name, i, slot) == FoldLeft(LAMBDA s, l : NamedBy(l, s), slot, NextLinks(name, i))

(* The documents that the pages behind a slot are.                         *)
LaterDocuments(slot) ==
  LET q == <<slot.href, slot.body>>
  IN  IF slot.href = NoHref \/ q \notin DOMAIN Serve THEN <<>>
      ELSE <<Serve[q]>> \o LaterDocuments(NextOf(Serve[q], [slot EXCEPT !.href = NoHref]))

LaterPagesOf(slot) ==
  LET documents == LaterDocuments(slot)
  IN  FlattenSeq([i \in DOMAIN documents |-> EntriesOf(documents[i], "", "")])

(* "Searches the content of a STAC catalog using the given STAC API - Item *)
(* Search filtering criteria", with every page of the results read and the *)
(* criteria merged into the requests for later pages: a search that ends   *)
(* has found the items that fit, and no others.                            *)
SearchFindsHits ==
  status = "done" /\ row_limit = 0 /\ offset = 0 /\ ~filtered =>
    {rows[i].id : i \in DOMAIN rows} = Hits
=============================================================================
