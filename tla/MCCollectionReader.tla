------------------------- MODULE MCCollectionReader -------------------------
(***************************************************************************)
(* Catalogs for CollectionReader, and what a query of them should list.    *)
(***************************************************************************)
EXTENDS CollectionReader, TLC

Json(type, id, links) == [type |-> type, id |-> id, listed |-> NotObject, links |-> links]
Listing(listed, links) == [Json("", NoId, links) EXCEPT !.listed = listed]
Leaf(id) == Json("Collection", id, <<>>)
To(rel, href) == [rel |-> rel, href |-> href]

(* A static tree with Catalogs in Collections in Catalogs.                 *)
Tree == [
  root |-> Json("Catalog", "C", <<To("child", "k1"), To("item", "i1"), To("child", "anon"),
             To("child", "k4")>>),
  k1   |-> Json("Collection", "K1", <<To("self", "k1"), To("child", "sub"), To("child", "k3")>>),
  sub  |-> Json("Catalog", "D", <<To("child", "k2")>>),
  k2   |-> Leaf("K2"),
  k3   |-> Leaf("K3"),
  anon |-> Json("Catalog", NoId, <<NotObject, To("child", NoHref), To("child", "k5")>>),
  k4   |-> Leaf("K4"),
  k5   |-> Leaf("K5")]

(* An API: four pages of collections, one empty, one with elements that    *)
(* are no collections and a Collection with a child.  Next links stand in  *)
(* the listing and in a Collection: the one read last counts.              *)
Api == [
  all   |-> Listing(<<"a1", NotObject, "other", "a2">>, <<To("self", "all"), To("next", "page2")>>),
  page2 |-> [Listing(<<>>, <<To("next", "page3")>>) EXCEPT !.type = "Collections"],
  page3 |-> Listing(<<"a3", "a4">>, <<>>),
  a1    |-> Json("Collection", "A1", <<To("items", "all"), To("next", "page3"), To("child", "cat")>>),
  a2    |-> Leaf("A2"),
  cat   |-> Json("Catalog", "E", <<To("child", "a5")>>),
  a3    |-> Json("Collection", "A3", <<To("next", "page4")>>),
  page4 |-> [Listing(<<"a6">>, <<To("next", NoHref)>>) EXCEPT !.type = "Collections"],
  a6    |-> Leaf("A6"),
  a4    |-> Leaf("A4"),
  a5    |-> Leaf("A5"),
  other |-> Json("Other", NoId, <<>>)]

(* A Collection without an id, and an object without a type.               *)
Odd == [
  odd     |-> Json("Catalog", "C", <<To("child", "k3"), To("child", "noid")>>),
  noid    |-> Json("Collection", NoId, <<>>),
  odd2    |-> Json("Catalog", "C", <<To("child", "untyped"), To("child", "k3")>>),
  untyped |-> Json("", NoId, <<>>)]

AllDocs == Tree @@ Api @@ Odd
Served  == [h \in DOMAIN AllDocs |-> h]
Origins == {"root", "all", "page3", "odd", "odd2"}

(***************************************************************************)
(* What the documents give, by recursion over them: see ReadingAssumption. *)
(***************************************************************************)
RECURSIVE ReadingOf(_, _, _, _)

Given(name, cat) ==
  LET d == Doc[name] IN
  CASE d.type = "Catalog" -> ReadingOf(name, "links", 1, IdOr(d.id, cat))
    [] d.type = "Collection" /\ d.id # NoId ->
         Then(RowOf(name, cat), ReadingOf(name, "links", 1, cat))
    [] d.type \in {"", "Collections"} /\ d.listed # NotObject -> ReadingOf(name, "collections", 1, cat)
    [] OTHER -> Nothing

ReadingOf(name, at, i, cat) ==
  LET d == Doc[name]
      list == IF at = "links" THEN d.links ELSE d.listed
      element == list[i]
      child == element.href
  IN  CASE i > Len(list) -> IF at = "links" THEN Nothing ELSE ReadingOf(name, "links", 1, cat)
        [] i <= Len(list) /\ element = NotObject -> ReadingOf(name, at, i + 1, cat)
        [] OTHER ->
             Then(IF at = "collections" THEN Given(element, cat)
                  ELSE IF element.rel = "next" THEN [Nothing EXCEPT !.next = element.href]
                  ELSE IF element.rel = "child" /\ child \in DOMAIN Serve THEN Given(Serve[child], cat)
                  ELSE Nothing,
                  ReadingOf(name, at, i + 1, cat))

RECURSIVE LaterOf(_)
LaterOf(href) ==
  IF href \notin DOMAIN Serve THEN <<>>
  ELSE LET page == Given(Serve[href], "") IN page.rows \o LaterOf(page.next)
=============================================================================
