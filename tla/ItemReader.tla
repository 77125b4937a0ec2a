----------------------------- MODULE ItemReader -----------------------------
(***************************************************************************)
(* The reader behind STAC_Read and STAC_Search: STACReader                 *)
(* (src/stac/stac_reader.cpp) with the overrides of ItemReader             *)
(* (src/stac/stac_read_functions.cpp).                                     *)
(*                                                                         *)
(* ReadContentOfObject and ReadContentOfLinks call each other down a tree  *)
(* of Catalogs, Collections, FeatureCollections and Features, fetching a   *)
(* document for every child link.  On the way they update one OFFSET       *)
(* countdown, one row count, one pair of context ids and one slot for the  *)
(* next page.  The C++ call stack is the variable stack: a frame is a call *)
(* of ReadContentOfObject that is looping over features or links.          *)
(***************************************************************************)
EXTENDS Integers, Sequences, TLC

CONSTANTS
  Doc,         \* name -> JSON object, see DocShape
  Serve,       \* <<href, body>> -> name of the document that answers it
  StaticHref,  \* the hrefs that name a .json or .geojson file
  Origin,      \* the catalogs a query may open: [href, body]
  Offsets, Limits,
  LinkObject,  \* the link objects of the documents, see LinkShape
  Reading(_, _, _, _, _),  \* what remains to be listed, see EntriesOf
  NoDoc, NoHref, NoId, NoType, NotObject, NoLink

None == <<>>   \* no header at all: the empty function

Known == {"Catalog", "Collection", "FeatureCollection", "Feature", "Other"}
Types == Known \cup {NoType}

(* One JSON object, with every field its type may use.  valid: a Feature   *)
(* has all its required fields; matches: the pushed filter lets it pass,   *)
(* or throws, in which case the item is kept for DuckDB to judge.          *)
DocShape(d) ==
  /\ d.type \in Types
  /\ d.valid \in BOOLEAN /\ d.matches \in BOOLEAN
  /\ d.matched \in Nat \cup {-1}
  /\ d.features \in Seq(DOMAIN Doc \cup {NotObject})
  /\ d.links \in Seq(LinkObject \cup {NotObject})

(* A link.  href: resolved against the path of the document for a child,   *)
(* as written for a next page; NoHref when there is none or it is empty.   *)
(* A body is the set of its members: {} when the link has no body.         *)
LinkShape(l) ==
  /\ DOMAIN l = {"rel", "href", "method", "merge", "headers", "body"}
  /\ l.merge \in BOOLEAN

ASSUME ReaderAssumption ==
  /\ \A n \in DOMAIN Doc : DocShape(Doc[n])
  /\ \A l \in LinkObject : LinkShape(l)
  /\ \A q \in DOMAIN Serve : Serve[q] \in DOMAIN Doc
  /\ NoDoc \notin DOMAIN Doc
  /\ NotObject \notin DOMAIN Doc /\ NotObject \notin LinkObject
  /\ NoLink \notin LinkObject /\ NoType \notin Known
  /\ Offsets \subseteq Nat /\ Limits \subseteq Nat

VARIABLES
  origin, filtered, offset, row_limit,  \* the query: fixed once it is planned
  row_offset, row_count, rows, number_matched,
  catalog_id, collection_id,
  next,       \* next_href, next_method, next_merge, next_headers, next_body
  stack,      \* the calls of ReadContentOfObject that have not returned
  callee,     \* the document that is about to be entered, or NoDoc
  status,     \* "new", "open", "done" (no more pages) or "failed" (thrown)
  request,    \* history: the last request sent, and the link it follows
  overfetch,  \* history: requests sent after the limit was reached
  entries     \* history: the entries of all the pages asked for so far

query == <<origin, filtered, offset, row_limit>>
out   == <<row_count, rows>>
ctx   == <<catalog_id, collection_id>>
io    == <<request, overfetch, entries>>
vars  == <<query, row_offset, out, number_matched, ctx, next, stack, callee, status, io>>

Init ==
  /\ origin \in Origin /\ filtered \in BOOLEAN
  /\ row_limit \in Limits /\ offset \in Offsets /\ row_offset = offset
  /\ row_count = 0 /\ rows = <<>> /\ number_matched = -1
  /\ catalog_id = "" /\ collection_id = ""
  /\ next = [href |-> NoHref, method |-> "GET", merge |-> FALSE,
             headers |-> None, body |-> {}, via |-> NoLink]
  /\ stack = <<>> /\ callee = NoDoc /\ status = "new"
  /\ request = NoLink /\ overfetch = 0 /\ entries = <<>>

LimitReachedLate == row_limit > 0 /\ row_count > row_limit

LimitReached == row_limit > 0 /\ row_count >= row_limit

SkipsUnreadAlways   == ~filtered
SkipsBeforeMatching == row_offset > 0

(* Without pushed filters the offset counts whatever comes; with filters   *)
(* only the items that pass them.                                          *)
SkipsUnread   == row_offset > 0 /\ ~filtered
SkipsMatching == row_offset > 0 /\ filtered

(***************************************************************************)
(* Fetching a document.                                                    *)
(***************************************************************************)
(* ReadContentOfCatalog: a static file knows no search criteria.           *)
CatalogRequest(href, body) ==
  IF href \in StaticHref
  THEN [href |-> href, method |-> "READ", headers |-> None, body |-> {}, via |-> NoLink]
  ELSE [href |-> href, method |-> IF body = {} THEN "GET" ELSE "POST",
        headers |-> None, body |-> body, via |-> NoLink]

IdOr(id, outer) == IF id = NoId THEN outer ELSE id

EntryOf(name, cat, coll) ==
  [id |-> name, catalog |-> cat, collection |-> IdOr(Doc[name].collection, coll)]

(* The entries below a document that is read under these context ids, in   *)
(* reading order: an entry is a Feature with its ids, or NotObject for an  *)
(* element of "features" that is none.  Reading(name, at, i, cat, coll) is *)
(* what a document lists from its i-th feature or link on.  Only the       *)
(* history of pages uses it; ItemReaderOrder says which function it is.    *)
EntriesOf(name, cat, coll) ==
  LET d == Doc[name] IN
  CASE d.type = "Feature"    -> <<EntryOf(name, cat, coll)>>
    [] d.type = "Catalog"    -> Reading(name, "links", 1, IdOr(d.id, cat), coll)
    [] d.type = "Collection" -> Reading(name, "links", 1, cat, IdOr(d.id, coll))
    [] d.type = "FeatureCollection" -> Reading(name, "features", 1, cat, coll)
    [] OTHER -> <<>>

(* A page is asked for when no call is open.                               *)
PageEntries(name) ==
  IF stack = <<>> /\ name # NoDoc THEN EntriesOf(name, "", "") ELSE <<>>

(* The server answers with a document, or the request throws: a transport  *)
(* error, a status other than 200, or a text that is not JSON.             *)
Fetch(req) ==
  /\ request' = req
  /\ overfetch' = IF LimitReached THEN overfetch + 1 ELSE overfetch
  /\ \/ /\ <<req.href, req.body>> \in DOMAIN Serve
        /\ callee' = Serve[<<req.href, req.body>>]
        /\ status' = "open"
     \/ callee' = NoDoc /\ status' = "failed"
  /\ entries' = entries \o PageEntries(callee')

(* STAC_Read::Init reads the first page.                                   *)
ReadFirstPage ==
  /\ status = "new"
  /\ Fetch(CatalogRequest(origin.href, origin.body))
  /\ UNCHANGED <<query, row_offset, out, number_matched, ctx, next, stack>>

(***************************************************************************)
(* ReadContentOfObject, up to its loops.                                   *)
(***************************************************************************)
Calling(type) == status = "open" /\ callee # NoDoc /\ ~LimitReached /\ Doc[callee].type = type

ReturnAtLimit ==
  /\ status = "open" /\ callee # NoDoc /\ LimitReached
  /\ next' = [next EXCEPT !.href = NoHref]
  /\ callee' = NoDoc
  /\ UNCHANGED <<query, row_offset, out, number_matched, ctx, stack, status, io>>

Throw ==
  /\ status' = "failed"
  /\ UNCHANGED <<query, row_offset, out, number_matched, ctx, next, stack, callee, io>>

MissingType == Calling(NoType) /\ Throw

(* No branch handles the type: the object is passed over.                  *)
IgnoreOther ==
  /\ Calling("Other")
  /\ callee' = NoDoc
  /\ UNCHANGED <<query, row_offset, out, number_matched, ctx, next, stack, status, io>>

Frame(at, saved) == [doc |-> callee, at |-> at, i |-> 1, saved |-> saved]

EnterCatalog ==
  /\ Calling("Catalog")
  /\ stack' = Append(stack, Frame("links", catalog_id))
  /\ catalog_id' = IdOr(Doc[callee].id, catalog_id)
  /\ callee' = NoDoc
  /\ UNCHANGED <<query, row_offset, out, number_matched, collection_id, next, status, io>>

EnterCollection ==
  /\ Calling("Collection")
  /\ stack' = Append(stack, Frame("links", collection_id))
  /\ collection_id' = IdOr(Doc[callee].id, collection_id)
  /\ callee' = NoDoc
  /\ UNCHANGED <<query, row_offset, out, number_matched, catalog_id, next, status, io>>

EnterFeatureCollection ==
  /\ Calling("FeatureCollection")
  /\ stack' = Append(stack, Frame("features", ""))
  /\ number_matched' = IF Doc[callee].matched = -1 THEN number_matched ELSE Doc[callee].matched
  /\ callee' = NoDoc
  /\ UNCHANGED <<query, row_offset, out, ctx, next, status, io>>

(* A Feature the offset skips before it is even looked at.                 *)
SkipFeature ==
  /\ Calling("Feature") /\ SkipsUnread
  /\ row_offset' = row_offset - 1
  /\ callee' = NoDoc
  /\ UNCHANGED <<query, out, number_matched, ctx, next, stack, status, io>>

InvalidFeature == Calling("Feature") /\ ~SkipsUnread /\ ~Doc[callee].valid /\ Throw

Passes(d) == ~filtered \/ d.matches

ReadsFeature == Calling("Feature") /\ ~SkipsUnread /\ Doc[callee].valid

RejectFeature ==
  /\ ReadsFeature /\ ~Passes(Doc[callee])
  /\ callee' = NoDoc
  /\ UNCHANGED <<query, row_offset, out, number_matched, ctx, next, stack, status, io>>

SkipMatchingFeature ==
  /\ ReadsFeature /\ Passes(Doc[callee]) /\ SkipsMatching
  /\ row_offset' = row_offset - 1
  /\ callee' = NoDoc
  /\ UNCHANGED <<query, out, number_matched, ctx, next, stack, status, io>>

Row(name) == EntryOf(name, catalog_id, collection_id)

KeepFeature ==
  /\ ReadsFeature /\ Passes(Doc[callee]) /\ ~SkipsMatching
  /\ rows' = Append(rows, Row(callee))
  /\ row_count' = row_count + 1
  /\ callee' = NoDoc
  /\ UNCHANGED <<query, row_offset, number_matched, ctx, next, stack, status, io>>

ReadContentOfObject ==
  \/ ReturnAtLimit \/ MissingType \/ IgnoreOther
  \/ EnterCatalog \/ EnterCollection \/ EnterFeatureCollection
  \/ SkipFeature \/ InvalidFeature \/ RejectFeature \/ SkipMatchingFeature \/ KeepFeature

(***************************************************************************)
(* The loops of the innermost call.                                        *)
(***************************************************************************)
Top == stack[Len(stack)]

Looping(at) == status = "open" /\ callee = NoDoc /\ stack # <<>> /\ Top.at = at

Advance == stack' = [stack EXCEPT ![Len(stack)].i = @ + 1]

Features == Doc[Top.doc].features

OnFeature == Looping("features") /\ Top.i <= Len(Features)

(* The offset counts the entries of "features", objects or not.            *)
SkipEntry ==
  /\ OnFeature /\ SkipsUnread
  /\ row_offset' = row_offset - 1
  /\ Advance
  /\ UNCHANGED <<query, out, number_matched, ctx, next, callee, status, io>>

(* The limit ends the whole call: the links of the listing are not read.   *)
StopFeatures ==
  /\ OnFeature /\ ~SkipsUnread /\ LimitReached
  /\ next' = [next EXCEPT !.href = NoHref]
  /\ stack' = SubSeq(stack, 1, Len(stack) - 1)
  /\ UNCHANGED <<query, row_offset, out, number_matched, ctx, callee, status, io>>

CallFeature ==
  /\ OnFeature /\ ~SkipsUnread /\ ~LimitReached
  /\ callee' = IF Features[Top.i] = NotObject THEN NoDoc ELSE Features[Top.i]
  /\ Advance
  /\ UNCHANGED <<query, row_offset, out, number_matched, ctx, next, status, io>>

EndFeatures ==
  /\ Looping("features") /\ Top.i > Len(Features)
  /\ stack' = [stack EXCEPT ![Len(stack)].at = "links", ![Len(stack)].i = 1]
  /\ UNCHANGED <<query, row_offset, out, number_matched, ctx, next, callee, status, io>>

(* ReadContentOfLinks of the innermost call.                               *)
Links == Doc[Top.doc].links
Link  == Links[Top.i]

OnLink == Looping("links") /\ Top.i <= Len(Links)

NeedConsumeLink(rel) == rel \in {"child", "item", "items"}

ReturnKeepingIds ==
  stack' = SubSeq(stack, 1, Len(stack) - 1) /\ UNCHANGED ctx

(* ReadContentOfLinks returns to ReadContentOfObject, which puts the id of *)
(* the enclosing Catalog or Collection back and returns as well.           *)
Return ==
  /\ stack' = SubSeq(stack, 1, Len(stack) - 1)
  /\ catalog_id' = IF Doc[Top.doc].type = "Catalog" THEN Top.saved ELSE catalog_id
  /\ collection_id' = IF Doc[Top.doc].type = "Collection" THEN Top.saved ELSE collection_id

StopLinks ==
  /\ OnLink /\ Link # NotObject /\ LimitReached
  /\ next' = [next EXCEPT !.href = NoHref]
  /\ Return
  /\ UNCHANGED <<query, row_offset, out, number_matched, callee, status, io>>

EndLinks ==
  /\ Looping("links") /\ Top.i > Len(Links)
  /\ Return
  /\ UNCHANGED <<query, row_offset, out, number_matched, next, callee, status, io>>

ReadablePastLimit == Link # NotObject /\ Link.href # NoHref

Readable == Link # NotObject /\ ~LimitReached /\ Link.href # NoHref

SkipLinkInPlace ==
  /\ OnLink /\ Link # NotObject /\ ~LimitReached
  /\ Link.href = NoHref \/ ~(Link.rel = "next" \/ NeedConsumeLink(Link.rel))
  /\ UNCHANGED vars

SkipLink ==
  /\ OnLink
  /\ \/ Link = NotObject
     \/ /\ Link # NotObject /\ ~LimitReached
        /\ Link.href = NoHref \/ ~(Link.rel = "next" \/ NeedConsumeLink(Link.rel))
  /\ Advance
  /\ UNCHANGED <<query, row_offset, out, number_matched, ctx, next, callee, status, io>>

(* A body on a merging link cannot be combined with one already held.      *)
Unmergeable(l) == l.merge /\ l.body # {} /\ next.body # {}

RecordNextKeepingOld(l) ==
  [href |-> l.href, method |-> l.method, merge |-> l.merge,
   headers |-> l.headers @@ next.headers,
   body |-> IF l.body # {} THEN l.body ELSE next.body,
   via |-> l]

RecordNext(l) ==
  [href |-> l.href, method |-> l.method, merge |-> l.merge,
   headers |-> IF l.merge THEN l.headers @@ next.headers ELSE l.headers,
   body |-> IF l.body # {} THEN l.body ELSE IF l.merge THEN next.body ELSE {},
   via |-> l]

StoreNextLink ==
  /\ OnLink /\ Readable /\ Link.rel = "next" /\ ~Unmergeable(Link)
  /\ next' = RecordNext(Link)
  /\ Advance
  /\ UNCHANGED <<query, row_offset, out, number_matched, ctx, callee, status, io>>

RefuseNextLink == OnLink /\ Readable /\ Link.rel = "next" /\ Unmergeable(Link) /\ Throw

FollowLink ==
  /\ OnLink /\ Readable /\ NeedConsumeLink(Link.rel)
  /\ Fetch(CatalogRequest(Link.href, {}))
  /\ Advance
  /\ UNCHANGED <<query, row_offset, out, number_matched, ctx, next>>

ReadContentOfLinks ==
  StopLinks \/ EndLinks \/ SkipLink \/ StoreNextLink \/ RefuseNextLink \/ FollowLink

(***************************************************************************)
(* ReadNextPageOfResults, once ReadContentOfObject has returned.           *)
(***************************************************************************)
BetweenPages == status = "open" /\ callee = NoDoc /\ stack = <<>>

ReadNextPage ==
  /\ BetweenPages /\ next.href # NoHref
  /\ next' = [next EXCEPT !.href = NoHref]
  /\ Fetch([href |-> next.href, method |-> next.method, headers |-> next.headers,
            body |-> next.body, via |-> next.via])
  /\ UNCHANGED <<query, row_offset, out, number_matched, ctx, stack>>

NoMorePages ==
  /\ BetweenPages /\ next.href = NoHref
  /\ status' = "done"
  /\ UNCHANGED <<query, row_offset, out, number_matched, ctx, next, stack, callee, io>>

Next ==
  \/ ReadFirstPage \/ ReadNextPage \/ NoMorePages
  \/ ReadContentOfObject
  \/ SkipEntry \/ StopFeatures \/ CallFeature \/ EndFeatures
  \/ ReadContentOfLinks

(* One thread reads, and DuckDB keeps calling Execute until it is empty.   *)
Spec == Init /\ [][Next]_vars /\ WF_vars(Next)

(***************************************************************************)
(* Properties.                                                             *)
(***************************************************************************)
Ids == {""} \cup {Doc[n].id : n \in DOMAIN Doc}

CallFrame == [doc : DOMAIN Doc, at : {"features", "links"}, i : Nat \ {0}, saved : Ids]

ItemRow == [id : DOMAIN Doc, catalog : Ids,
            collection : Ids \cup {Doc[n].collection : n \in DOMAIN Doc}]

TypeOK ==
  /\ row_limit \in Nat /\ offset \in Nat /\ row_offset \in 0..offset /\ row_count \in Nat
  /\ rows \in Seq(ItemRow)
  /\ number_matched \in Nat \cup {-1}
  /\ catalog_id \in Ids /\ collection_id \in Ids
  /\ DOMAIN next = {"href", "method", "merge", "headers", "body", "via"}
  /\ next.via \in LinkObject \cup {NoLink}
  /\ next.href \in {NoHref} \cup {l.href : l \in LinkObject}
  /\ stack \in Seq(CallFrame)
  /\ callee \in DOMAIN Doc \cup {NoDoc}
  /\ status \in {"new", "open", "done", "failed"}
  /\ overfetch \in Nat

(* The reader never hands out more rows than the LIMIT pushed into it: the *)
(* LIMIT operator above the scan has been switched off, so nothing else    *)
(* would cut them.                                                         *)
LimitRespected == row_limit > 0 => Len(rows) <= row_limit

(* Once the limit is reached the reader sends at most one more request (a  *)
(* next page whose link was already stored), whatever is left to follow.   *)
OneFetchPastLimit == overfetch <= 1

(* id is that of the innermost of the first n open calls that read a       *)
(* document of this type that has an id; "" when there is none.            *)
Naming(type, n) == {k \in 1..n : /\ Doc[stack[k].doc].type = type
                                 /\ Doc[stack[k].doc].id # NoId}

GivenByInnermost(id, type, n) ==
  \/ Naming(type, n) = {} /\ id = ""
  \/ \E k \in Naming(type, n) :
       /\ id = Doc[stack[k].doc].id
       /\ \A j \in Naming(type, n) : j <= k

(* The ids that a row will get are those of the Catalog and the Collection *)
(* being read, at any depth and after any mix of returns, stops at the     *)
(* limit and documents without an id.                                      *)
ContextFollowsStack ==
  /\ GivenByInnermost(catalog_id, "Catalog", Len(stack))
  /\ GivenByInnermost(collection_id, "Collection", Len(stack))

(* A page request says what the link it follows says, and nothing of the   *)
(* links before it, unless the link asks for merging.                      *)
RequestFollowsLink ==
  LET via == request.via
  IN  request # NoLink /\ request.via # NoLink /\ ~request.via.merge =>
        /\ request.href = via.href /\ request.method = via.method
        /\ request.headers = via.headers /\ request.body = via.body

(* On a catalog without cycles every query comes to an end.                *)
Terminates == <>(status \in {"done", "failed"})
=============================================================================
