-------------------------- MODULE CollectionReader --------------------------
(***************************************************************************)
(* STAC_Collections (src/stac/stac_read_functions.cpp): Bind reads every   *)
(* page of a catalog with a CollectionReader, Execute hands the rows out.  *)
(*                                                                         *)
(* CollectionReader shares STACReader with ItemReader, but follows "child" *)
(* links only, takes an object without a type for a listing if it has an   *)
(* array "collections", and makes a row of a Collection before it reads    *)
(* the links of the Collection.  It is created with no OFFSET and no LIMIT *)
(* (line 1157), so nothing is skipped and no limit is ever reached.  What  *)
(* else a next link carries than its href is modelled in ItemReader.       *)
(***************************************************************************)
EXTENDS Integers, Sequences

CONSTANTS
  Doc,         \* name -> JSON object, see DocShape
  Serve,       \* href -> name of the document found there
  Origin,      \* the paths a query may name
  VectorSize,  \* STANDARD_VECTOR_SIZE, 2048
  Reading(_, _, _, _), \* what a document gives from a place on, see ReadingAssumption
  Later(_),    \* what the pages from an href on list
  NoDoc, NoHref, NoId, NotObject

(* "": the object has no type.  listed: its array "collections", or        *)
(* NotObject when it has none; an object whose type is "Collections" is    *)
(* read as a listing even so, of no elements.                              *)
DocShape(d) ==
  /\ d.type \in {"Catalog", "Collection", "Collections", "Other", ""}
  /\ d.type = "Collections" => d.listed # NotObject
  /\ d.listed \in Seq(DOMAIN Doc \cup {NotObject}) \cup {NotObject}
  /\ d.links \in Seq({d.links[i] : i \in DOMAIN d.links})
  /\ \A i \in DOMAIN d.links : d.links[i] # NotObject => DOMAIN d.links[i] = {"rel", "href"}

ASSUME CollectionAssumption ==
  /\ \A n \in DOMAIN Doc : DocShape(Doc[n])
  /\ \A h \in DOMAIN Serve : Serve[h] \in DOMAIN Doc
  /\ NoDoc \notin DOMAIN Doc /\ NotObject \notin DOMAIN Doc
  /\ VectorSize \in Nat \ {0}

VARIABLES
  origin,       \* the catalog_path of the query
  rows,         \* reader.rows, then BindData::collections
  catalog_id,   \* the catalog of the documents being read
  next_href,    \* the next page, or NoHref
  stack,        \* the calls of ReadContentOfObject that have not returned
  callee,       \* the document that is about to be entered, or NoDoc
  status,       \* "new", "open", "bound", "exhausted" or "failed" (thrown)
  current_idx,  \* the rows that Execute has handed out
  delivered     \* history: the places of the rows in all chunks so far

reading == <<catalog_id, next_href, stack, callee>>
vars    == <<origin, rows, reading, status, current_idx, delivered>>

T == INSTANCE TableScan WITH more <- status \in {"new", "open", "failed"},
       produced <- Len(rows), emitted <- delivered, exhausted <- status = "exhausted"

Init ==
  /\ origin \in Origin /\ rows = <<>>
  /\ catalog_id = "" /\ next_href = NoHref /\ stack = <<>> /\ callee = NoDoc
  /\ status = "new" /\ current_idx = 0 /\ delivered = <<>>

(***************************************************************************)
(* Bind: the first page.                                                   *)
(***************************************************************************)
Fetch(href) ==
  \/ /\ href \in DOMAIN Serve
     /\ callee' = Serve[href] /\ status' = "open"
  \/ callee' = NoDoc /\ status' = "failed"

ReadFirstPage ==
  /\ status = "new"
  /\ Fetch(origin)
  /\ UNCHANGED <<origin, rows, catalog_id, next_href, stack, current_idx, delivered>>

(***************************************************************************)
(* ReadContentOfObject, up to its loops.                                   *)
(***************************************************************************)
TypeOf(name) ==
  IF Doc[name].type = "" /\ Doc[name].listed # NotObject THEN "Collections"
  ELSE Doc[name].type

Calling(type) == status = "open" /\ callee # NoDoc /\ TypeOf(callee) = type

Throw ==
  /\ status' = "failed"
  /\ UNCHANGED <<origin, rows, reading, current_idx, delivered>>

MissingType == Calling("") /\ Throw

IgnoreOther ==
  /\ Calling("Other")
  /\ callee' = NoDoc
  /\ UNCHANGED <<origin, rows, catalog_id, next_href, stack, status, current_idx, delivered>>

Frame(at) == [doc |-> callee, at |-> at, i |-> 1, saved |-> catalog_id]

IdOr(id, outer) == IF id = NoId THEN outer ELSE id

EnterCatalog ==
  /\ Calling("Catalog")
  /\ stack' = Append(stack, Frame("links"))
  /\ catalog_id' = IdOr(Doc[callee].id, catalog_id)
  /\ callee' = NoDoc
  /\ UNCHANGED <<origin, rows, next_href, status, current_idx, delivered>>

EnterListing ==
  /\ Calling("Collections")
  /\ stack' = Append(stack, Frame("collections"))
  /\ callee' = NoDoc
  /\ UNCHANGED <<origin, rows, catalog_id, next_href, status, current_idx, delivered>>

(* The row comes before the rows of the children.                          *)
EnterCollection ==
  /\ Calling("Collection") /\ Doc[callee].id # NoId
  /\ rows' = Append(rows, [id |-> callee, catalog |-> catalog_id])
  /\ stack' = Append(stack, Frame("links"))
  /\ callee' = NoDoc
  /\ UNCHANGED <<origin, catalog_id, next_href, status, current_idx, delivered>>

MissingId == Calling("Collection") /\ Doc[callee].id = NoId /\ Throw

ReadContentOfObject ==
  MissingType \/ IgnoreOther \/ EnterCatalog \/ EnterListing \/ EnterCollection \/ MissingId

(***************************************************************************)
(* The loops of the innermost call.                                        *)
(***************************************************************************)
Top == stack[Len(stack)]

Looping(at) == status = "open" /\ callee = NoDoc /\ stack # <<>> /\ Top.at = at

Advance == stack' = [stack EXCEPT ![Len(stack)].i = @ + 1]

Listed == Doc[Top.doc].listed

CallListed ==
  /\ Looping("collections") /\ Top.i <= Len(Listed)
  /\ callee' = IF Listed[Top.i] = NotObject THEN NoDoc ELSE Listed[Top.i]
  /\ Advance
  /\ UNCHANGED <<origin, rows, catalog_id, next_href, status, current_idx, delivered>>

EndListed ==
  /\ Looping("collections") /\ Top.i > Len(Listed)
  /\ stack' = [stack EXCEPT ![Len(stack)].at = "links", ![Len(stack)].i = 1]
  /\ UNCHANGED <<origin, rows, catalog_id, next_href, callee, status, current_idx, delivered>>

Links == Doc[Top.doc].links

OnLink == Looping("links") /\ Top.i <= Len(Links)

NeedConsumeLink(rel) == rel = "child"

Link == Links[Top.i]

Readable == Link # NotObject /\ Link.href # NoHref

SkipLinkInPlace ==
  /\ OnLink /\ ~(Readable /\ (Link.rel = "next" \/ NeedConsumeLink(Link.rel)))
  /\ UNCHANGED vars

SkipLink ==
  /\ OnLink /\ ~(Readable /\ (Link.rel = "next" \/ NeedConsumeLink(Link.rel)))
  /\ Advance
  /\ UNCHANGED <<origin, rows, catalog_id, next_href, callee, status, current_idx, delivered>>

StoreNextLink ==
  /\ OnLink /\ Readable /\ Link.rel = "next"
  /\ next_href' = Link.href
  /\ Advance
  /\ UNCHANGED <<origin, rows, catalog_id, callee, status, current_idx, delivered>>

FollowLink ==
  /\ OnLink /\ Readable /\ NeedConsumeLink(Link.rel)
  /\ Fetch(Link.href)
  /\ Advance
  /\ UNCHANGED <<origin, rows, catalog_id, next_href, current_idx, delivered>>

ReturnKeepingId ==
  /\ Looping("links") /\ Top.i > Len(Links)
  /\ stack' = SubSeq(stack, 1, Len(stack) - 1)
  /\ UNCHANGED <<origin, rows, catalog_id, next_href, callee, status, current_idx, delivered>>

(* A Catalog puts the id of the enclosing one back.                        *)
Return ==
  /\ Looping("links") /\ Top.i > Len(Links)
  /\ stack' = SubSeq(stack, 1, Len(stack) - 1)
  /\ catalog_id' = IF TypeOf(Top.doc) = "Catalog" THEN Top.saved ELSE catalog_id
  /\ UNCHANGED <<origin, rows, next_href, callee, status, current_idx, delivered>>

(***************************************************************************)
(* Bind: the other pages.                                                  *)
(***************************************************************************)
BetweenPages == status = "open" /\ callee = NoDoc /\ stack = <<>>

ReadNextPage ==
  /\ BetweenPages /\ next_href # NoHref
  /\ next_href' = NoHref
  /\ Fetch(next_href)
  /\ UNCHANGED <<origin, rows, catalog_id, stack, current_idx, delivered>>

BindReturns ==
  /\ BetweenPages /\ next_href = NoHref
  /\ status' = "bound"
  /\ UNCHANGED <<origin, rows, reading, current_idx, delivered>>

(***************************************************************************)
(* Execute, until a chunk comes out empty.                                 *)
(***************************************************************************)
ChunkEndPastRows == current_idx + VectorSize

ChunkEnd == IF current_idx + VectorSize < Len(rows) THEN current_idx + VectorSize ELSE Len(rows)

Execute ==
  /\ status = "bound"
  /\ delivered' = delivered \o [k \in 1..(ChunkEnd - current_idx) |-> current_idx + k]
  /\ current_idx' = ChunkEnd
  /\ status' = IF ChunkEnd = current_idx THEN "exhausted" ELSE "bound"
  /\ UNCHANGED <<origin, rows, reading>>

Next ==
  \/ ReadFirstPage \/ ReadContentOfObject
  \/ CallListed \/ EndListed
  \/ SkipLink \/ StoreNextLink \/ FollowLink \/ Return
  \/ ReadNextPage \/ BindReturns
  \/ Execute

(* One thread binds and executes the query.                                *)
Spec == Init /\ [][Next]_vars /\ WF_vars(Next)

(***************************************************************************)
(* What a query lists.                                                     *)
(***************************************************************************)
Ids == {""} \cup {Doc[n].id : n \in DOMAIN Doc}

LinksOf(n) == {Doc[n].links[i] : i \in DOMAIN Doc[n].links} \ {NotObject}

Hrefs == {NoHref} \cup UNION {{l.href : l \in LinksOf(n)} : n \in DOMAIN Doc}

(* What a part of a catalog gives: rows, and the next page it names last.  *)
Part == [rows : Seq([id : DOMAIN Doc, catalog : Ids]), next : Hrefs]

Nothing == [rows |-> <<>>, next |-> NoHref]

Then(a, b) ==
  [rows |-> a.rows \o b.rows, next |-> IF b.next = NoHref THEN a.next ELSE b.next]

RowOf(n, cat) == [rows |-> <<[id |-> n, catalog |-> cat]>>, next |-> NoHref]

(* The context is an argument here, where the code saves and restores it.  *)
GivenBy(n, cat) ==
  CASE TypeOf(n) = "Catalog"     -> Reading(n, "links", 1, IdOr(Doc[n].id, cat))
    [] TypeOf(n) = "Collections" -> Reading(n, "collections", 1, cat)
    [] TypeOf(n) = "Collection" /\ Doc[n].id # NoId ->
         Then(RowOf(n, cat), Reading(n, "links", 1, cat))
    [] OTHER -> Nothing

GivenByElement(n, cat) == IF n = NotObject THEN Nothing ELSE GivenBy(n, cat)

Page(href, cat) == IF href \in DOMAIN Serve THEN GivenBy(Serve[href], cat) ELSE Nothing

GivenByLink(l, cat) ==
  CASE l = NotObject  -> Nothing
    [] l # NotObject /\ l.rel = "next"  -> [rows |-> <<>>, next |-> l.href]
    [] l # NotObject /\ l.rel = "child" -> Page(l.href, cat)
    [] OTHER -> Nothing

(* A page and the pages after it.                                          *)
Whole(page) == page.rows \o Later(page.next)

(* The recursion equations of the reference: the listed objects of a       *)
(* document come before its links, and a catalog without cycles of links   *)
(* or pages has exactly one Reading and one Later.                         *)
ASSUME ReadingAssumption ==
  /\ NoHref \notin DOMAIN Serve
  /\ Later(NoHref) = <<>>
  /\ \A h \in Hrefs \ {NoHref} : Later(h) = Whole(Page(h, ""))
  /\ \A h \in Hrefs : Later(h) \in Seq([id : DOMAIN Doc, catalog : Ids])
  /\ \A n \in DOMAIN Doc : \A cat \in Ids :
       LET listed == Doc[n].listed
           links  == Doc[n].links
       IN  /\ listed # NotObject => \A i \in 1..(Len(listed) + 1) :
                /\ Reading(n, "collections", i, cat) \in Part
                /\ Reading(n, "collections", i, cat) =
                     IF i > Len(listed) THEN Reading(n, "links", 1, cat)
                     ELSE Then(GivenByElement(listed[i], cat), Reading(n, "collections", i + 1, cat))
           /\ \A i \in 1..(Len(links) + 1) :
                /\ Reading(n, "links", i, cat) \in Part
                /\ Reading(n, "links", i, cat) =
                     IF i > Len(links) THEN Nothing
                     ELSE Then(GivenByLink(links[i], cat), Reading(n, "links", i + 1, cat))

(***************************************************************************)
(* Properties.                                                             *)
(***************************************************************************)
TypeOK ==
  /\ rows \in Seq([id : DOMAIN Doc, catalog : Ids]) /\ catalog_id \in Ids
  /\ stack \in Seq([doc : DOMAIN Doc, at : {"collections", "links"}, i : Nat \ {0}, saved : Ids])
  /\ callee \in DOMAIN Doc \cup {NoDoc}
  /\ status \in {"new", "open", "bound", "exhausted", "failed"}
  /\ current_idx \in 0..Len(rows)
  /\ delivered \in Seq(1..Len(rows))

(* The rows are the collections of all pages in reading order, a parent    *)
(* before its children, each with the id of the nearest Catalog around it  *)
(* that has one; a Bind that fails had read the first of them.             *)
CollectionsInOrder ==
  LET expected == Whole(Page(origin, ""))
  IN  /\ Len(rows) <= Len(expected) /\ \A i \in DOMAIN rows : rows[i] = expected[i]
      /\ status \in {"bound", "exhausted"} => Len(rows) = Len(expected)

(* The scan keeps the promise of every table function: each collection     *)
(* that Bind has read is handed out once and in order, whatever its place  *)
(* in the chunks, and the scan is exhausted only after the last of them.   *)
ImplementsTableScan == T!Spec

(* Every query of an acyclic catalog ends, or fails.                       *)
Terminates == <>(status \in {"exhausted", "failed"})
=============================================================================
