--------------------------- MODULE ItemReaderOrder ---------------------------
(***************************************************************************)
(* What a query of the item reader returns: the items of the pages it asks *)
(* for, in reading order, from OFFSET on and up to LIMIT.                  *)
(*                                                                         *)
(* The reference is Reading, which lists a document from a position on.    *)
(* It passes the context ids down as arguments, where the code saves and   *)
(* restores members, and knows of no countdown, no count and no call stack.*)
(* It is a constant with its recursion equations as an assumption: every   *)
(* catalog without a cycle of links has exactly one such function.         *)
(***************************************************************************)
EXTENDS ItemReader, FiniteSets

CONSTANTS
  NextAfter(_, _, _),  \* document, link, slot -> the slot after these links
  LaterPages(_)        \* slot -> what the page it names lists, and all later ones

Entry == ItemRow \cup {NotObject}

(* The element of "features": a Feature, or anything that lists nothing    *)
(* and yet is counted by an OFFSET that skips it unread.                   *)
FeatureEntries(f, cat, coll) ==
  IF f # NotObject /\ Doc[f].type = "Feature" THEN <<EntryOf(f, cat, coll)>> ELSE <<NotObject>>

Followed(l) == l # NotObject /\ l.href # NoHref /\ NeedConsumeLink(l.rel)

(* The document of a child link, which is fetched without a body.          *)
LinkEntries(l, cat, coll) ==
  IF Followed(l) /\ <<l.href, {}>> \in DOMAIN Serve
  THEN EntriesOf(Serve[<<l.href, {}>>], cat, coll)
  ELSE <<>>

(* The elements of a listing are Features, or objects that list nothing:   *)
(* an OFFSET that skips an element does not look inside.  Reading goes     *)
(* through the features of a document and then through its links.          *)
ASSUME ReadingAssumption ==
  /\ NotObject \notin ItemRow
  /\ \A n \in DOMAIN Doc :
       LET features == Doc[n].features
           links    == Doc[n].links
       IN  /\ \A i \in DOMAIN features :
                features[i] # NotObject => Doc[features[i]].type \in {"Feature", "Other", NoType}
           /\ \A cat, coll \in Ids :
                /\ \A i \in 1..(Len(features) + 1) :
                     /\ Reading(n, "features", i, cat, coll) \in Seq(Entry)
                     /\ Reading(n, "features", i, cat, coll) =
                          IF i > Len(features) THEN Reading(n, "links", 1, cat, coll)
                          ELSE FeatureEntries(features[i], cat, coll)
                                 \o Reading(n, "features", i + 1, cat, coll)
                /\ \A i \in 1..(Len(links) + 1) :
                     /\ Reading(n, "links", i, cat, coll) \in Seq(Entry)
                     /\ Reading(n, "links", i, cat, coll) =
                          IF i > Len(links) THEN <<>>
                          ELSE LinkEntries(links[i], cat, coll)
                                 \o Reading(n, "links", i + 1, cat, coll)

(***************************************************************************)
(* The entries that a query returns.                                       *)
(***************************************************************************)
(* OFFSET counts every entry when no filter is pushed, objects or not, and *)
(* only the items that pass when one is.                                   *)
Counted(e)  == filtered => e # NotObject /\ Doc[e.id].matches
Returned(e) == e # NotObject /\ (filtered => Doc[e.id].matches)

Rank(p) == Cardinality({q \in 1..p : Counted(entries[q])})

(* The places, up to the p-th entry, of what the query is to return.       *)
DueUpTo(p) == {q \in 1..p : Returned(entries[q]) /\ Rank(q) > offset}

(* The i-th row is the i-th item after OFFSET, with the ids of the         *)
(* documents around it; and between two pages, or at the end, no item of   *)
(* the pages so far is missing, unless the limit is reached.               *)
RowsInOrder ==
  /\ \A i \in 1..Len(rows) :
       \E p \in DueUpTo(Len(entries)) : rows[i] = entries[p] /\ Cardinality(DueUpTo(p)) = i
  /\ status \in {"open", "done"} /\ callee = NoDoc /\ stack = <<>> /\ ~LimitReached =>
       Len(rows) = Cardinality(DueUpTo(Len(entries)))

(***************************************************************************)
(* The pages behind the entries.                                           *)
(***************************************************************************)
(* What decides about the next page: the href and the body it is asked     *)
(* for with.  An href is used up by its page, a body stays.                *)
Slot == [href : {NoHref} \cup {l.href : l \in LinkObject},
         body : {{}} \cup {l.body : l \in LinkObject}]

(* The last next link read counts, wherever it stands.                     *)
NamedBy(l, slot) ==
  [href |-> l.href,
   body |-> IF l.body # {} THEN l.body ELSE IF l.merge THEN slot.body ELSE {}]

NextOf(name, slot) ==
  IF Doc[name].type \in {"Catalog", "Collection", "FeatureCollection"}
  THEN NextAfter(name, 1, slot) ELSE slot

NextByLink(l, slot) ==
  IF l = NotObject \/ l.href = NoHref THEN slot
  ELSE IF l.rel = "next" THEN NamedBy(l, slot)
  ELSE IF Followed(l) /\ <<l.href, {}>> \in DOMAIN Serve THEN NextOf(Serve[<<l.href, {}>>], slot)
  ELSE slot

(* The page that answers q, read while a body is held, and all later ones. *)
PagesFrom(q, body) ==
  IF q \notin DOMAIN Serve THEN <<>>
  ELSE EntriesOf(Serve[q], "", "") \o LaterPages(NextOf(Serve[q], [href |-> NoHref, body |-> body]))

ASSUME PagesAssumption ==
  \A slot \in Slot :
    /\ \A n \in DOMAIN Doc :
         LET links == Doc[n].links
         IN  \A i \in 1..(Len(links) + 1) :
               /\ NextAfter(n, i, slot) \in Slot
               /\ NextAfter(n, i, slot) =
                    IF i > Len(links) THEN slot ELSE NextAfter(n, i + 1, NextByLink(links[i], slot))
    /\ LaterPages(slot) \in Seq(Entry)
    /\ LaterPages(slot) =
         IF slot.href = NoHref THEN <<>> ELSE PagesFrom(<<slot.href, slot.body>>, slot.body)

AllEntries ==
  PagesFrom(<<origin.href, IF origin.href \in StaticHref THEN {} ELSE origin.body>>, {})

(* The pages are those that the next links lead to, each link with its own *)
(* body or, when it merges, with the one before: the reader asks for each  *)
(* of them once, in order, and for all of them unless the limit is reached *)
(* first.                                                                  *)
PagesInOrder ==
  /\ Len(entries) <= Len(AllEntries) /\ entries = SubSeq(AllEntries, 1, Len(entries))
  /\ status = "done" /\ ~LimitReached => entries = AllEntries
=============================================================================
