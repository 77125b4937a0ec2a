------------------------ MODULE ItemReaderOrderProofs ------------------------
(***************************************************************************)
(* The rows of a query are the items between OFFSET and LIMIT, in reading  *)
(* order and with the right ids, for every catalog that Reading describes, *)
(* every server, offset and limit, with and without pushed filters.        *)
(***************************************************************************)
EXTENDS ItemReaderOrder, ItemReaderProofs, FiniteSetTheorems

(***************************************************************************)
(* The invariant.                                                          *)
(***************************************************************************)
(* What is in force inside an open call: the context ids, and what it and  *)
(* the calls below it have yet to list.                                    *)
Scope == [cat : Ids, coll : Ids, left : Seq(Entry)]

Outermost == [cat |-> "", coll |-> "", left |-> <<>>]

Elements(f) == IF f.at = "features" THEN Doc[f.doc].features ELSE Doc[f.doc].links

(* A call opened in the scope outer has the scope inner: its own id hides  *)
(* the one it saved, and it stands at a place of its document.             *)
CallIn(f, outer, inner) ==
  LET d == Doc[f.doc]
  IN  /\ f.i <= Len(Elements(f)) + 1
      /\ f.at = "features" => d.type = "FeatureCollection"
      /\ d.type = "Catalog" => f.saved = outer.cat
      /\ d.type = "Collection" => f.saved = outer.coll
      /\ inner.cat = IF d.type = "Catalog" THEN IdOr(d.id, outer.cat) ELSE outer.cat
      /\ inner.coll = IF d.type = "Collection" THEN IdOr(d.id, outer.coll) ELSE outer.coll
      /\ inner.left = Reading(f.doc, f.at, f.i, inner.cat, inner.coll) \o outer.left

Unwinds(calls, w) ==
  /\ w \in [0..Len(calls) -> Scope]
  /\ w[0] = Outermost
  /\ \A k \in 1..Len(calls) : CallIn(calls[k], w[k - 1], w[k])

Scoped(calls, cat, coll, left) ==
  \E w : /\ Unwinds(calls, w)
         /\ cat = w[Len(calls)].cat /\ coll = w[Len(calls)].coll /\ left = w[Len(calls)].left

(* The entries of the document that is about to be entered.                *)
ToEnter(name, cat, coll) == IF name = NoDoc THEN <<>> ELSE EntriesOf(name, cat, coll)

CalleeEntries == ToEnter(callee, catalog_id, collection_id)

(* The entries end with these, after the first p of them.                  *)
Ahead(p, pending) ==
  /\ Len(entries) = p + Len(pending)
  /\ \A i \in 1..Len(pending) : entries[p + i] = pending[i]

(* After the first p entries: the countdown, and the rows.                 *)
RowsUpTo(p) ==
  /\ row_offset = IF Rank(p) >= offset THEN 0 ELSE offset - Rank(p)
  /\ Len(rows) = Cardinality(DueUpTo(p))
  /\ \A i \in 1..Len(rows) :
       \E q \in DueUpTo(p) : rows[i] = entries[q] /\ Cardinality(DueUpTo(q)) = i

(* The next entry is the first of what the callee and the open calls have  *)
(* yet to list.                                                            *)
Reads(p) ==
  \E left \in Seq(Entry) :
    /\ Scoped(stack, catalog_id, collection_id, left)
    /\ Ahead(p, CalleeEntries \o left)

Progress(p) ==
  /\ RowsUpTo(p)
  /\ status \in {"new", "open"} /\ ~LimitReached => Reads(p)
  /\ status = "done" /\ ~LimitReached => p = Len(entries)

InProgress == \E p \in 0..Len(entries) : Progress(p)

OrderInv ==
  /\ entries \in Seq(Entry)
  /\ row_count = Len(rows)
  /\ row_count > 0 => row_offset = 0
  /\ status = "new" => stack = <<>> /\ callee = NoDoc
  /\ InProgress

(***************************************************************************)
(* Counting.                                                               *)
(***************************************************************************)
(* Ranks and due places are counts and finite sets.                        *)
LEMMA CountsTyped ==
  ASSUME NEW p \in Nat
  PROVE  /\ IsFiniteSet({q \in 1..p : Counted(entries[q])}) /\ Rank(p) \in Nat
         /\ IsFiniteSet(DueUpTo(p)) /\ Cardinality(DueUpTo(p)) \in Nat
<1>1. IsFiniteSet(1..p)
  BY FS_Interval
<1>2. /\ {q \in 1..p : Counted(entries[q])} \in SUBSET (1..p)
      /\ DueUpTo(p) \in SUBSET (1..p)
  BY DEF DueUpTo
<1>3. IsFiniteSet({q \in 1..p : Counted(entries[q])}) /\ IsFiniteSet(DueUpTo(p))
  BY <1>1, <1>2, FS_Subset
<1> QED
  BY <1>3, FS_CardinalityType DEF Rank

(* One more entry: counted, or not; due, or not.                           *)
LEMMA OneMoreEntry ==
  ASSUME NEW p \in Nat
  PROVE  /\ Rank(p + 1) = IF Counted(entries[p + 1]) THEN Rank(p) + 1 ELSE Rank(p)
         /\ LET due == Returned(entries[p + 1]) /\ Rank(p + 1) > offset
            IN  /\ DueUpTo(p + 1) = IF due THEN DueUpTo(p) \cup {p + 1} ELSE DueUpTo(p)
                /\ Cardinality(DueUpTo(p + 1)) =
                     IF due THEN Cardinality(DueUpTo(p)) + 1 ELSE Cardinality(DueUpTo(p))
<1> DEFINE counted(n) == {q \in 1..n : Counted(entries[q])}
           due == Returned(entries[p + 1]) /\ Rank(p + 1) > offset
<1>1. 1..(p + 1) = (1..p) \cup {p + 1} /\ p + 1 \notin 1..p
  OBVIOUS
<1>2. counted(p + 1) = IF Counted(entries[p + 1]) THEN counted(p) \cup {p + 1} ELSE counted(p)
  BY <1>1
<1>3. IsFiniteSet(counted(p)) /\ p + 1 \notin counted(p)
  BY <1>1, CountsTyped
<1>4. Rank(p + 1) = IF Counted(entries[p + 1]) THEN Rank(p) + 1 ELSE Rank(p)
  <2> HIDE DEF counted
  <2>1. Cardinality(counted(p) \cup {p + 1}) = Cardinality(counted(p)) + 1
    BY <1>3, FS_AddElement
  <2>2. Rank(p + 1) = Cardinality(counted(p + 1)) /\ Rank(p) = Cardinality(counted(p))
    BY DEF Rank, counted
  <2> QED
    BY <1>2, <2>1, <2>2
<1>5. DueUpTo(p + 1) = IF due THEN DueUpTo(p) \cup {p + 1} ELSE DueUpTo(p)
  BY <1>1 DEF DueUpTo
<1>6. IsFiniteSet(DueUpTo(p)) /\ p + 1 \notin DueUpTo(p)
  BY <1>1, CountsTyped DEF DueUpTo
<1>7. Cardinality(DueUpTo(p) \cup {p + 1}) = Cardinality(DueUpTo(p)) + 1
  BY <1>6, FS_AddElement
<1> QED
  BY <1>4, <1>5, <1>7

(* The entries so far keep their rank, whatever pages follow.              *)
LEMMA SameEntriesSameCounts ==
  ASSUME NEW n \in Nat, UNCHANGED query, \A q \in 1..n : entries'[q] = entries[q]
  PROVE  \A p \in 0..n : Rank(p)' = Rank(p) /\ DueUpTo(p)' = DueUpTo(p)
<1>1. \A q \in 1..n : (Counted(entries[q])' <=> Counted(entries[q]))
                      /\ (Returned(entries[q])' <=> Returned(entries[q]))
  BY DEF Counted, Returned, query
<1>2. \A p \in 0..n : Rank(p)' = Rank(p)
  <2> SUFFICES ASSUME NEW p \in 0..n PROVE Rank(p)' = Rank(p)
    OBVIOUS
  <2>1. \A q \in 1..p : q \in 1..n
    OBVIOUS
  <2>2. {q \in 1..p : Counted(entries[q])'} = {q \in 1..p : Counted(entries[q])}
    BY <1>1, <2>1
  <2> QED
    BY <2>2 DEF Rank
<1>3. \A p \in 0..n : DueUpTo(p)' = DueUpTo(p)
  <2> SUFFICES ASSUME NEW p \in 0..n PROVE DueUpTo(p)' = DueUpTo(p)
    OBVIOUS
  <2>1. \A q \in 1..p : q \in 1..n /\ q \in 0..n
    OBVIOUS
  <2>2. \A q \in 1..p : (Returned(entries[q])' <=> Returned(entries[q])) /\ Rank(q)' = Rank(q)
    BY <1>1, <1>2, <2>1
  <2>3. offset' = offset
    BY DEF query
  <2> QED
    BY <2>2, <2>3 DEF DueUpTo
<1> QED
  BY <1>2, <1>3

(* What reading one entry does to the countdown and to the rows.           *)
Skips(e) == Counted(e) /\ row_offset > 0 /\ row_offset' = row_offset - 1 /\ rows' = rows

Ignores(e) ==
  ~Returned(e) /\ (row_offset = 0 \/ ~Counted(e)) /\ row_offset' = row_offset /\ rows' = rows

Keeps(e) ==
  Returned(e) /\ row_offset = 0 /\ row_offset' = row_offset /\ rows' = Append(rows, e)

(* Rows that were right stay right while nothing but later entries come.   *)
LEMMA RowsStay ==
  ASSUME entries \in Seq(Entry), NEW p \in 0..Len(entries), RowsUpTo(p), UNCHANGED query,
         row_offset' = row_offset, rows' = rows,
         \A q \in 1..Len(entries) : entries'[q] = entries[q]
  PROVE  RowsUpTo(p)'
<1>1. Len(entries) \in Nat
  BY LenProperties
<1>2. PICK n \in Nat : n = Len(entries)
  BY <1>1
<1>3. \A r \in 0..n : Rank(r)' = Rank(r) /\ DueUpTo(r)' = DueUpTo(r)
  BY <1>2, SameEntriesSameCounts
<1>4. Rank(p)' = Rank(p) /\ DueUpTo(p)' = DueUpTo(p) /\ offset' = offset
  BY <1>2, <1>3 DEF query
<1>5. \A q \in DueUpTo(p) : q \in 0..n /\ q \in 1..n
  BY <1>2 DEF DueUpTo
<1>6. \A q \in DueUpTo(p) : DueUpTo(q)' = DueUpTo(q) /\ entries'[q] = entries[q]
  BY <1>2, <1>3, <1>5
<1> QED
  BY <1>4, <1>6 DEF RowsUpTo

(* Reading one entry.                                                      *)
LEMMA RowsAfterEntry ==
  ASSUME TypeOK, entries \in Seq(Entry), NEW p \in Nat, p + 1 <= Len(entries), RowsUpTo(p),
         UNCHANGED <<query, entries>>,
         NEW e, e = entries[p + 1], Skips(e) \/ Ignores(e) \/ Keeps(e)
  PROVE  RowsUpTo(p + 1)'
<1>1. /\ Rank(p) \in Nat /\ offset \in Nat /\ row_offset \in Nat /\ p + 1 \in Nat
      /\ Cardinality(DueUpTo(p)) \in Nat
  <2>1. offset \in Nat /\ row_offset \in 0..offset
    BY DEF TypeOK
  <2>2. row_offset \in Nat /\ p + 1 \in Nat
    BY <2>1
  <2>3. Rank(p) \in Nat /\ Cardinality(DueUpTo(p)) \in Nat
    BY CountsTyped
  <2> QED
    BY <2>1, <2>2, <2>3
<1> DEFINE due == Returned(e) /\ Rank(p + 1) > offset
<1>2. /\ Rank(p + 1) = IF Counted(e) THEN Rank(p) + 1 ELSE Rank(p)
      /\ DueUpTo(p + 1) = IF due THEN DueUpTo(p) \cup {p + 1} ELSE DueUpTo(p)
      /\ Cardinality(DueUpTo(p + 1)) =
           IF due THEN Cardinality(DueUpTo(p)) + 1 ELSE Cardinality(DueUpTo(p))
  BY OneMoreEntry
<1>3. /\ Rank(p + 1)' = Rank(p + 1)
      /\ \A q \in 0..(p + 1) : DueUpTo(q)' = DueUpTo(q)
      /\ offset' = offset /\ entries' = entries
  BY <1>1, SameEntriesSameCounts DEF query
<1>4. row_offset = IF Rank(p) >= offset THEN 0 ELSE offset - Rank(p)
  BY DEF RowsUpTo
<1>5. Returned(e) => Counted(e)
  BY DEF Returned, Counted
<1>6. row_offset' = IF Rank(p + 1) >= offset THEN 0 ELSE offset - Rank(p + 1)
  BY <1>1, <1>2, <1>4, <1>5 DEF Skips, Ignores, Keeps
<1>7. \A q \in DueUpTo(p) : q \in 0..(p + 1)
  BY DEF DueUpTo
<1>8. CASE Skips(e) \/ Ignores(e)
  <2>1. ~due /\ rows' = rows
    BY <1>1, <1>2, <1>4, <1>8 DEF Skips, Ignores
  <2>2. DueUpTo(p + 1) = DueUpTo(p)
    BY <1>2, <2>1
  <2>3. DueUpTo(p + 1)' = DueUpTo(p)
    BY <1>1, <1>3, <2>2
  <2> QED
    BY <1>3, <1>6, <1>7, <2>1, <2>3 DEF RowsUpTo
<1>9. CASE Keeps(e)
  <2>1. Rank(p) >= offset
    BY <1>1, <1>4, <1>9 DEF Keeps
  <2>2. due
    BY <1>1, <1>2, <1>5, <1>9, <2>1 DEF Keeps
  <2>3. rows' = Append(rows, e) /\ rows \in Seq(ItemRow)
    BY <1>9 DEF Keeps, TypeOK
  <2>4. PICK n \in Nat : n = Len(rows)
    BY <2>3, LenProperties
  <2>5. Len(rows') = n + 1 /\ rows'[n + 1] = e /\ \A i \in 1..n : rows'[i] = rows[i]
    BY <2>3, <2>4
  <2>6. n = Cardinality(DueUpTo(p))
    BY <2>4 DEF RowsUpTo
  <2>7. DueUpTo(p + 1)' = DueUpTo(p) \cup {p + 1}
    BY <1>1, <1>2, <1>3, <2>2
  <2>8. Cardinality(DueUpTo(p + 1)') = n + 1
    BY <1>1, <1>2, <1>3, <2>2, <2>6
  <2>9. \A i \in 1..(n + 1) : \E q \in DueUpTo(p + 1)' :
           rows'[i] = entries[q] /\ Cardinality(DueUpTo(q)') = i
    <3>1. ASSUME NEW i \in 1..n
          PROVE  \E q \in DueUpTo(p + 1)' : rows'[i] = entries[q] /\ Cardinality(DueUpTo(q)') = i
      <4>1. PICK q \in DueUpTo(p) : rows[i] = entries[q] /\ Cardinality(DueUpTo(q)) = i
        BY <2>4 DEF RowsUpTo
      <4>2. DueUpTo(q)' = DueUpTo(q)
        BY <1>3, <1>7
      <4> QED
        BY <2>5, <2>7, <4>1, <4>2
    <3>2. \E q \in DueUpTo(p + 1)' :
             rows'[n + 1] = entries[q] /\ Cardinality(DueUpTo(q)') = n + 1
      BY <2>5, <2>7, <2>8
    <3>3. \A i \in 1..(n + 1) : i \in 1..n \/ i = n + 1
      BY <2>4
    <3> QED
      BY <3>1, <3>2, <3>3
  <2> QED
    BY <1>3, <1>6, <2>5, <2>8, <2>9 DEF RowsUpTo
<1> QED
  BY <1>8, <1>9

(***************************************************************************)
(* The documents and the scopes of the open calls.                         *)
(***************************************************************************)
(* The assumption, one document and one place at a time.                   *)
LEMMA ReadingUnfolds ==
  ASSUME NEW n \in DOMAIN Doc, NEW cat \in Ids, NEW coll \in Ids
  PROVE  /\ \A i \in 1..(Len(Doc[n].features) + 1) :
              /\ Reading(n, "features", i, cat, coll) \in Seq(Entry)
              /\ Reading(n, "features", i, cat, coll) =
                   IF i > Len(Doc[n].features) THEN Reading(n, "links", 1, cat, coll)
                   ELSE FeatureEntries(Doc[n].features[i], cat, coll)
                          \o Reading(n, "features", i + 1, cat, coll)
         /\ \A i \in 1..(Len(Doc[n].links) + 1) :
              /\ Reading(n, "links", i, cat, coll) \in Seq(Entry)
              /\ Reading(n, "links", i, cat, coll) =
                   IF i > Len(Doc[n].links) THEN <<>>
                   ELSE LinkEntries(Doc[n].links[i], cat, coll)
                          \o Reading(n, "links", i + 1, cat, coll)
         /\ \A i \in DOMAIN Doc[n].features :
              Doc[n].features[i] # NotObject =>
                Doc[Doc[n].features[i]].type \in {"Feature", "Other", NoType}
  BY ReadingAssumption DEF ReadingAssumption

(* The same of a feature or of a link that is there.                       *)
LEMMA ReadingFeature ==
  ASSUME NEW n \in DOMAIN Doc, NEW cat \in Ids, NEW coll \in Ids,
         NEW i \in 1..Len(Doc[n].features)
  PROVE  /\ Reading(n, "features", i + 1, cat, coll) \in Seq(Entry)
         /\ Reading(n, "features", i, cat, coll) =
              FeatureEntries(Doc[n].features[i], cat, coll)
                \o Reading(n, "features", i + 1, cat, coll)
<1>1. Len(Doc[n].features) \in Nat
  BY DocFields
<1>2. /\ i \in 1..(Len(Doc[n].features) + 1) /\ i + 1 \in 1..(Len(Doc[n].features) + 1)
      /\ ~(i > Len(Doc[n].features))
  BY <1>1
<1> QED
  BY <1>2, ReadingUnfolds

LEMMA ReadingLink ==
  ASSUME NEW n \in DOMAIN Doc, NEW cat \in Ids, NEW coll \in Ids,
         NEW i \in 1..Len(Doc[n].links)
  PROVE  /\ Reading(n, "links", i + 1, cat, coll) \in Seq(Entry)
         /\ Reading(n, "links", i, cat, coll) =
              LinkEntries(Doc[n].links[i], cat, coll) \o Reading(n, "links", i + 1, cat, coll)
<1>1. Len(Doc[n].links) \in Nat
  BY DocFields
<1>2. /\ i \in 1..(Len(Doc[n].links) + 1) /\ i + 1 \in 1..(Len(Doc[n].links) + 1)
      /\ ~(i > Len(Doc[n].links))
  BY <1>1
<1> QED
  BY <1>2, ReadingUnfolds

(* Lists of entries one after the other.                                   *)
LEMMA EntriesAssociative ==
  ASSUME NEW s \in Seq(Entry), NEW t \in Seq(Entry), NEW u \in Seq(Entry)
  PROVE  (s \o t) \o u = s \o (t \o u)
  BY ConcatAssociative

(* The entry of a Feature is a row.                                        *)
LEMMA EntryTyped ==
  ASSUME NEW n \in DOMAIN Doc, NEW cat \in Ids, NEW coll \in Ids
  PROVE  /\ EntryOf(n, cat, coll) \in ItemRow /\ EntryOf(n, cat, coll) \in Entry
         /\ EntryOf(n, cat, coll) # NotObject /\ EntryOf(n, cat, coll).id = n
<1>1. EntryOf(n, cat, coll) \in ItemRow /\ EntryOf(n, cat, coll).id = n
  BY DEF EntryOf, ItemRow, IdOr
<1> QED
  BY <1>1, ReadingAssumption DEF Entry, ReadingAssumption

(* What a document lists.                                                  *)
LEMMA ListedTyped ==
  ASSUME NEW n \in DOMAIN Doc, NEW cat \in Ids, NEW coll \in Ids
  PROVE  EntriesOf(n, cat, coll) \in Seq(Entry)
<1>1. Len(Doc[n].features) \in Nat /\ Len(Doc[n].links) \in Nat
  BY DocFields
<1>2. 1 \in 1..(Len(Doc[n].features) + 1) /\ 1 \in 1..(Len(Doc[n].links) + 1)
  BY <1>1
<1>3. IdOr(Doc[n].id, cat) \in Ids /\ IdOr(Doc[n].id, coll) \in Ids
  BY IdOrTyped
<1>4. /\ Reading(n, "links", 1, IdOr(Doc[n].id, cat), coll) \in Seq(Entry)
      /\ Reading(n, "links", 1, cat, IdOr(Doc[n].id, coll)) \in Seq(Entry)
      /\ Reading(n, "features", 1, cat, coll) \in Seq(Entry)
  BY <1>2, <1>3, ReadingUnfolds
<1>5. <<EntryOf(n, cat, coll)>> \in Seq(Entry)
  BY EntryTyped
<1>6. <<>> \in Seq(Entry)
  BY EmptySeq
<1> QED
  BY <1>4, <1>5, <1>6 DEF EntriesOf

(* Open calls that agree with these up to the m-th, and one more.          *)
LEMMA ScopeOfOneMore ==
  ASSUME NEW calls, NEW w, Unwinds(calls, w), Len(calls) \in Nat,
         NEW m \in Nat, m <= Len(calls),
         NEW calls2, Len(calls2) = m + 1, \A k \in 1..m : calls2[k] = calls[k],
         NEW inner \in Scope, CallIn(calls2[m + 1], w[m], inner)
  PROVE  Scoped(calls2, inner.cat, inner.coll, inner.left)
<1> DEFINE w2 == [k \in 0..(m + 1) |-> IF k = m + 1 THEN inner ELSE w[k]]
<1>1. \A k \in 0..m : k \in 0..Len(calls) /\ k \in 0..(m + 1) /\ k # m + 1
  OBVIOUS
<1>2. w2 \in [0..(m + 1) -> Scope]
  <2>1. \A k \in 0..(m + 1) : k = m + 1 \/ k \in 0..m
    OBVIOUS
  <2>2. \A k \in 0..m : w[k] \in Scope
    BY <1>1 DEF Unwinds
  <2> QED
    BY <2>1, <2>2
<1>3. w2[m + 1] = inner /\ \A k \in 0..m : w2[k] = w[k]
  BY <1>1
<1>4. w2[0] = Outermost
  BY <1>3 DEF Unwinds
<1> HIDE DEF w2
<1>5. ASSUME NEW k \in 1..(m + 1)
      PROVE  CallIn(calls2[k], w2[k - 1], w2[k])
  <2>1. CASE k = m + 1
    <3>1. k - 1 = m /\ m \in 0..m
      BY <2>1
    <3> QED
      BY <1>3, <2>1, <3>1
  <2>2. CASE k \in 1..m
    <3>1. k - 1 \in 0..m /\ k \in 0..m /\ k \in 1..Len(calls)
      BY <2>2
    <3>2. CallIn(calls[k], w[k - 1], w[k])
      BY <3>1 DEF Unwinds
    <3> QED
      BY <1>3, <2>2, <3>1, <3>2
  <2> QED
    BY <2>1, <2>2
<1>6. Unwinds(calls2, w2)
  BY <1>2, <1>4, <1>5 DEF Unwinds
<1> QED
  BY <1>3, <1>6 DEF Scoped

(* Open calls that agree with these and are fewer.                         *)
LEMMA ScopeOfFewer ==
  ASSUME NEW calls, NEW w, Unwinds(calls, w), Len(calls) \in Nat,
         NEW m \in Nat, m <= Len(calls),
         NEW calls2, Len(calls2) = m, \A k \in 1..m : calls2[k] = calls[k]
  PROVE  Scoped(calls2, w[m].cat, w[m].coll, w[m].left)
<1> DEFINE w2 == [k \in 0..m |-> w[k]]
<1>1. \A k \in 0..m : k \in 0..Len(calls)
  OBVIOUS
<1>2. w2 \in [0..m -> Scope] /\ \A k \in 0..m : w2[k] = w[k]
  BY <1>1 DEF Unwinds
<1>3. w2[0] = Outermost
  BY <1>2 DEF Unwinds
<1> HIDE DEF w2
<1>4. \A k \in 1..m : k - 1 \in 0..m /\ k \in 0..m /\ k \in 1..Len(calls)
  OBVIOUS
<1>5. \A k \in 1..m : CallIn(calls2[k], w2[k - 1], w2[k])
  BY <1>2, <1>4 DEF Unwinds
<1>6. Unwinds(calls2, w2)
  BY <1>2, <1>3, <1>5 DEF Unwinds
<1> QED
  BY <1>2, <1>6 DEF Scoped

(* The innermost call and its scope.                                       *)
LEMMA TopScope ==
  ASSUME TypeOK, stack # <<>>, NEW w, Unwinds(stack, w), NEW n \in Nat, n + 1 = Len(stack)
  PROVE  /\ Top \in CallFrame /\ Top = stack[n + 1] /\ Top.doc \in DOMAIN Doc
         /\ w[n] \in Scope /\ w[n + 1] \in Scope
         /\ CallIn(Top, w[n], w[n + 1])
         /\ Len(Elements(Top)) \in Nat
<1>1. Top \in CallFrame /\ Top.doc \in DOMAIN Doc
  BY TopIsFrame DEF TypeOK
<1>2. n \in 0..Len(stack) /\ n + 1 \in 0..Len(stack) /\ n + 1 \in 1..Len(stack) /\ (n + 1) - 1 = n
  OBVIOUS
<1>3. w[n] \in Scope /\ w[n + 1] \in Scope /\ CallIn(stack[n + 1], w[n], w[n + 1])
  BY <1>2 DEF Unwinds
<1>4. Len(Elements(Top)) \in Nat
  BY <1>1, DocFields DEF Elements
<1> QED
  BY <1>1, <1>3, <1>4 DEF Top

(* The innermost call moves on: what it lists on the way comes first.      *)
LEMMA TopMovesOn ==
  ASSUME TypeOK, stack # <<>>,
         NEW left, Scoped(stack, catalog_id, collection_id, left),
         NEW f \in CallFrame, f.doc = Top.doc, f.saved = Top.saved,
         f.i <= Len(Elements(f)) + 1, f.at = "features" => Top.at = "features",
         stack' = [stack EXCEPT ![Len(stack)] = f],
         NEW X \in Seq(Entry), NEW more \in Seq(Entry),
         more = Reading(f.doc, f.at, f.i, catalog_id, collection_id),
         Reading(Top.doc, Top.at, Top.i, catalog_id, collection_id) = X \o more
  PROVE  \E rest \in Seq(Entry) :
           left = X \o rest /\ Scoped(stack', catalog_id, collection_id, rest)
<1>1. PICK n \in Nat : n + 1 = Len(stack)
  <2>1. Len(stack) \in Nat \ {0}
    BY TopIsFrame DEF TypeOK
  <2>2. Len(stack) - 1 \in Nat /\ (Len(stack) - 1) + 1 = Len(stack)
    BY <2>1
  <2> QED
    BY <2>2
<1>2. PICK w : /\ Unwinds(stack, w)
               /\ catalog_id = w[Len(stack)].cat /\ collection_id = w[Len(stack)].coll
               /\ left = w[Len(stack)].left
  BY DEF Scoped
<1>3. /\ Top \in CallFrame /\ w[n] \in Scope /\ w[n + 1] \in Scope
      /\ CallIn(Top, w[n], w[n + 1])
  BY <1>1, <1>2, TopScope
<1>4. PICK below \in Seq(Entry) : below = w[n].left
  BY <1>3 DEF Scope
<1>5. catalog_id = w[n + 1].cat /\ collection_id = w[n + 1].coll /\ left = w[n + 1].left
  BY <1>1, <1>2
<1>6. PICK rest \in Seq(Entry) : rest = more \o below
  BY ConcatProperties
<1>7. left = X \o rest
  <2>1. left = (X \o more) \o below
    BY <1>3, <1>4, <1>5 DEF CallIn
  <2> QED
    BY <1>6, <2>1, EntriesAssociative
<1>8. PICK inner \in Scope :
        inner.cat = catalog_id /\ inner.coll = collection_id /\ inner.left = rest
  <2>1. [cat |-> catalog_id, coll |-> collection_id, left |-> rest] \in Scope
    BY <1>3, <1>5, <1>6 DEF Scope
  <2> QED
    BY <2>1
<1>9. CallIn(f, w[n], inner)
  BY <1>3, <1>4, <1>5, <1>6, <1>8 DEF CallIn
<1>10. Len(stack) - 1 = n /\ n <= Len(stack) /\ Len(stack) \in Nat /\ Len(stack) \in 1..Len(stack)
  <2>1. n \in Nat
    OBVIOUS
  <2> QED
    BY ONLY <1>1, <2>1
<1>11. /\ Len(stack') = n + 1 /\ stack'[n + 1] = f
       /\ \A k \in 1..n : stack'[k] = stack[k]
  <2>1. stack \in Seq(CallFrame)
    BY DEF TypeOK
  <2>2. /\ Len(stack') = Len(stack)
        /\ \A k \in 1..Len(stack) : stack'[k] = IF k = Len(stack) THEN f ELSE stack[k]
    BY <1>10, <2>1, ExceptSeq
  <2>3. \A k \in 1..n : k \in 1..Len(stack) /\ k # Len(stack)
    BY <1>1
  <2> QED
    BY <1>1, <1>10, <2>2, <2>3
<1>12. CallIn(stack'[n + 1], w[n], inner)
  BY <1>9, <1>11
<1>13. Scoped(stack', inner.cat, inner.coll, inner.left)
  BY ONLY <1>2, <1>10, <1>11, <1>12, ScopeOfOneMore
<1> QED
  BY <1>6, <1>7, <1>8, <1>13

(* A loop that advances over its i-th element.                             *)
LEMMA AdvanceMovesOn ==
  ASSUME TypeOK, stack # <<>>, Advance, Top.i <= Len(Elements(Top)),
         NEW left, Scoped(stack, catalog_id, collection_id, left),
         NEW X \in Seq(Entry),
         X = IF Top.at = "features"
             THEN FeatureEntries(Elements(Top)[Top.i], catalog_id, collection_id)
             ELSE LinkEntries(Elements(Top)[Top.i], catalog_id, collection_id)
  PROVE  \E rest \in Seq(Entry) :
           left = X \o rest /\ Scoped(stack', catalog_id, collection_id, rest)
<1>1. Top \in CallFrame /\ catalog_id \in Ids /\ collection_id \in Ids
  BY TopIsFrame DEF TypeOK
<1>2. PICK n \in DOMAIN Doc, i \in Nat \ {0} : n = Top.doc /\ i = Top.i
  BY <1>1 DEF CallFrame
<1>3. PICK f \in CallFrame : f = [Top EXCEPT !.i = Top.i + 1]
  BY <1>1, FrameMoves
<1>4. f.doc = Top.doc /\ f.saved = Top.saved /\ f.at = Top.at /\ f.i = i + 1
  BY <1>1, <1>2, <1>3, FrameMoves DEF CallFrame
<1>5. stack' = [stack EXCEPT ![Len(stack)] = f]
  BY <1>3 DEF Advance, Top
<1>6. PICK size \in Nat : size = Len(Elements(Top))
  BY <1>2, DocFields DEF Elements
<1>7. i \in 1..size
  BY <1>2, <1>6
<1>8. f.i <= Len(Elements(f)) + 1
  <2>1. Elements(f) = Elements(Top)
    BY <1>4 DEF Elements
  <2> QED
    BY <1>4, <1>6, <1>7, <2>1
<1>9. PICK more \in Seq(Entry) :
        /\ more = Reading(n, Top.at, i + 1, catalog_id, collection_id)
        /\ Reading(n, Top.at, i, catalog_id, collection_id) = X \o more
  <2>1. CASE Top.at = "features"
    <3>1. Elements(Top) = Doc[n].features
      BY <1>2, <2>1 DEF Elements
    <3>2. i \in 1..Len(Doc[n].features) /\ X = FeatureEntries(Doc[n].features[i], catalog_id, collection_id)
      BY <1>2, <1>6, <1>7, <2>1, <3>1
    <3>3. /\ Reading(n, "features", i + 1, catalog_id, collection_id) \in Seq(Entry)
          /\ Reading(n, "features", i, catalog_id, collection_id) =
               X \o Reading(n, "features", i + 1, catalog_id, collection_id)
      BY <1>1, <3>2, ReadingFeature
    <3> QED
      BY <2>1, <3>3
  <2>2. CASE Top.at = "links"
    <3>1. Elements(Top) = Doc[n].links
      BY <1>2, <2>2 DEF Elements
    <3>2. i \in 1..Len(Doc[n].links) /\ X = LinkEntries(Doc[n].links[i], catalog_id, collection_id)
      BY <1>2, <1>6, <1>7, <2>2, <3>1
    <3>3. /\ Reading(n, "links", i + 1, catalog_id, collection_id) \in Seq(Entry)
          /\ Reading(n, "links", i, catalog_id, collection_id) =
               X \o Reading(n, "links", i + 1, catalog_id, collection_id)
      BY <1>1, <3>2, ReadingLink
    <3> QED
      BY <2>2, <3>3
  <2> QED
    BY <1>1, <2>1, <2>2 DEF CallFrame
<1>10. /\ more = Reading(f.doc, f.at, f.i, catalog_id, collection_id)
       /\ Reading(Top.doc, Top.at, Top.i, catalog_id, collection_id) = X \o more
  BY <1>2, <1>4, <1>9
<1> QED
  BY <1>4, <1>5, <1>8, <1>10, TopMovesOn

(* EndFeatures turns to the links.                                         *)
LEMMA EndFeaturesMovesOn ==
  ASSUME TypeOK, EndFeatures, NEW left, Scoped(stack, catalog_id, collection_id, left)
  PROVE  left \in Seq(Entry) /\ Scoped(stack', catalog_id, collection_id, left)
<1>1. stack # <<>> /\ Top.at = "features" /\ Top.i > Len(Doc[Top.doc].features)
  BY DEF EndFeatures, Looping, Features
<1>2. /\ Top \in CallFrame /\ Len(stack) \in Nat \ {0}
      /\ catalog_id \in Ids /\ collection_id \in Ids
  BY <1>1, TopIsFrame DEF TypeOK
<1>3. PICK n \in DOMAIN Doc, i \in Nat \ {0} : n = Top.doc /\ i = Top.i
  BY <1>2 DEF CallFrame
<1>4. PICK f \in CallFrame : f = [Top EXCEPT !.at = "links", !.i = 1]
  BY <1>2, FrameMoves
<1>5. f.doc = Top.doc /\ f.saved = Top.saved /\ f.at = "links" /\ f.i = 1
  BY <1>2, <1>4, FrameMoves DEF CallFrame
<1>6. stack' = [stack EXCEPT ![Len(stack)] = f]
  BY <1>4 DEF EndFeatures, Top
<1>7. Len(Doc[n].features) \in Nat /\ Len(Doc[n].links) \in Nat
  BY DocFields
<1>8. i <= Len(Doc[n].features) + 1
  <2>1. PICK w : Unwinds(stack, w)
    BY DEF Scoped
  <2>2. PICK m \in Nat : m + 1 = Len(stack)
    <3>1. Len(stack) - 1 \in Nat /\ (Len(stack) - 1) + 1 = Len(stack)
      BY <1>2
    <3> QED
      BY <3>1
  <2>3. CallIn(Top, w[m], w[m + 1])
    BY <1>1, <2>1, <2>2, TopScope
  <2> QED
    BY <1>1, <1>3, <2>3 DEF CallIn, Elements
<1>9. /\ i \in 1..(Len(Doc[n].features) + 1) /\ 1 \in 1..(Len(Doc[n].links) + 1)
      /\ i > Len(Doc[n].features)
  BY <1>1, <1>3, <1>7, <1>8
<1>10. PICK more \in Seq(Entry) :
         /\ more = Reading(n, "links", 1, catalog_id, collection_id)
         /\ Reading(n, "features", i, catalog_id, collection_id) = more
  BY <1>2, <1>9, ReadingUnfolds
<1>11. PICK X \in Seq(Entry) : X = <<>> /\ more = X \o more
  BY EmptySeq, ConcatEmptySeq
<1>12. f.i <= Len(Elements(f)) + 1 /\ f.at # "features"
  BY <1>3, <1>5, <1>7 DEF Elements
<1>13. /\ more = Reading(f.doc, f.at, f.i, catalog_id, collection_id)
       /\ Reading(Top.doc, Top.at, Top.i, catalog_id, collection_id) = X \o more
  BY <1>1, <1>3, <1>5, <1>10, <1>11
<1>14. \E rest \in Seq(Entry) :
         left = X \o rest /\ Scoped(stack', catalog_id, collection_id, rest)
  BY <1>1, <1>5, <1>6, <1>12, <1>13, TopMovesOn
<1> QED
  BY <1>11, <1>14, ConcatEmptySeq

(***************************************************************************)
(* What a step takes from the entries that are yet to be read.             *)
(***************************************************************************)
(* A step reads these entries and leaves the others to be read.            *)
Takes(taken, left) ==
  \E rest \in Seq(Entry) :
    /\ Scoped(stack', catalog_id', collection_id', rest)
    /\ CalleeEntries \o left = taken \o (CalleeEntries' \o rest)

(* A step that reads one entry, and what it does with it.                  *)
TakesOne(left) == \E e \in Entry : Takes(<<e>>, left) /\ (Skips(e) \/ Ignores(e) \/ Keeps(e))

(* A document lists entries, and no document lists none.                   *)
LEMMA ToEnterTyped ==
  ASSUME NEW name \in DOMAIN Doc \cup {NoDoc}, NEW cat \in Ids, NEW coll \in Ids
  PROVE  ToEnter(name, cat, coll) \in Seq(Entry)
<1>1. CASE name = NoDoc
  BY <1>1, EmptySeq DEF ToEnter
<1>2. CASE name # NoDoc
  BY <1>2, ListedTyped DEF ToEnter
<1> QED
  BY <1>1, <1>2

(* Lists of entries and the empty list.                                    *)
LEMMA NoEntries ==
  ASSUME NEW s \in Seq(Entry)
  PROVE  <<>> \o s = s /\ s \o <<>> = s /\ <<>> \in Seq(Entry)
  BY ConcatEmptySeq, EmptySeq

(* The callee is entered: what it lists comes first.                       *)
LEMMA EnteringTakesNothing ==
  ASSUME TypeOK, EnterCatalog \/ EnterCollection \/ EnterFeatureCollection,
         NEW left \in Seq(Entry), Scoped(stack, catalog_id, collection_id, left)
  PROVE  Takes(<<>>, left)
<1>1. /\ callee \in DOMAIN Doc /\ callee # NoDoc /\ callee' = NoDoc
      /\ catalog_id \in Ids /\ collection_id \in Ids
  BY DEF EnterCatalog, EnterCollection, EnterFeatureCollection, Calling, TypeOK
<1>2. PICK d \in DOMAIN Doc, cat \in Ids, coll \in Ids :
        d = callee /\ cat = catalog_id /\ coll = collection_id
  BY <1>1
<1>3. PICK rest \in Seq(Entry) : rest = EntriesOf(d, cat, coll) \o left
  BY ListedTyped, ConcatProperties
<1>4. IdOr(Doc[d].id, cat) \in Ids /\ IdOr(Doc[d].id, coll) \in Ids
  BY IdOrTyped
<1>5. PICK at \in {"features", "links"}, saved \in Ids, cat2 \in Ids, coll2 \in Ids :
        /\ stack' = Append(stack, [doc |-> d, at |-> at, i |-> 1, saved |-> saved])
        /\ cat2 = catalog_id' /\ coll2 = collection_id'
        /\ EntriesOf(d, cat, coll) = Reading(d, at, 1, cat2, coll2)
        /\ at = "features" => Doc[d].type = "FeatureCollection"
        /\ Doc[d].type = "Catalog" => saved = cat
        /\ Doc[d].type = "Collection" => saved = coll
        /\ cat2 = IF Doc[d].type = "Catalog" THEN IdOr(Doc[d].id, cat) ELSE cat
        /\ coll2 = IF Doc[d].type = "Collection" THEN IdOr(Doc[d].id, coll) ELSE coll
  <2>1. CASE EnterCatalog
    <3>1. /\ Doc[d].type = "Catalog" /\ catalog_id' = IdOr(Doc[d].id, cat) /\ collection_id' = coll
          /\ stack' = Append(stack, [doc |-> d, at |-> "links", i |-> 1, saved |-> cat])
      BY <1>2, <2>1 DEF EnterCatalog, Calling, Frame
    <3>2. EntriesOf(d, cat, coll) = Reading(d, "links", 1, IdOr(Doc[d].id, cat), coll)
      BY <3>1 DEF EntriesOf
    <3> QED
      BY <1>4, <3>1, <3>2
  <2>2. CASE EnterCollection
    <3>1. /\ Doc[d].type = "Collection" /\ catalog_id' = cat /\ collection_id' = IdOr(Doc[d].id, coll)
          /\ stack' = Append(stack, [doc |-> d, at |-> "links", i |-> 1, saved |-> coll])
      BY <1>2, <2>2 DEF EnterCollection, Calling, Frame
    <3>2. EntriesOf(d, cat, coll) = Reading(d, "links", 1, cat, IdOr(Doc[d].id, coll))
      BY <3>1 DEF EntriesOf
    <3> QED
      BY <1>4, <3>1, <3>2
  <2>3. CASE EnterFeatureCollection
    <3>1. PICK at \in {"features", "links"}, saved \in Ids : at = "features" /\ saved = ""
      BY DEF Ids
    <3>2. /\ Doc[d].type = "FeatureCollection" /\ catalog_id' = cat /\ collection_id' = coll
          /\ stack' = Append(stack, [doc |-> d, at |-> at, i |-> 1, saved |-> saved])
      BY <1>2, <2>3, <3>1 DEF EnterFeatureCollection, Calling, Frame, ctx
    <3>3. EntriesOf(d, cat, coll) = Reading(d, at, 1, cat, coll)
      BY <3>1, <3>2 DEF EntriesOf
    <3>4. Doc[d].type # "Catalog" /\ Doc[d].type # "Collection"
      BY <3>2
    <3> QED
      BY <3>2, <3>3, <3>4
  <2> QED
    BY <2>1, <2>2, <2>3
<1>6. PICK f : f = [doc |-> d, at |-> at, i |-> 1, saved |-> saved]
  OBVIOUS
<1>7. PICK n \in Nat : n = Len(stack)
  BY LenProperties DEF TypeOK
<1>8. PICK w : /\ Unwinds(stack, w)
               /\ cat = w[n].cat /\ coll = w[n].coll /\ left = w[n].left
  BY <1>2, <1>7 DEF Scoped
<1>9. PICK inner \in Scope : inner.cat = cat2 /\ inner.coll = coll2 /\ inner.left = rest
  <2>1. [cat |-> cat2, coll |-> coll2, left |-> rest] \in Scope
    BY DEF Scope
  <2> QED
    BY <2>1
<1>10. CallIn(f, w[n], inner)
  <2>1. f.doc = d /\ f.at = at /\ f.i = 1 /\ f.saved = saved
    BY <1>6
  <2>2. f.i <= Len(Elements(f)) + 1
    <3>1. PICK size \in Nat : size = Len(Elements(f))
      BY <2>1, DocFields DEF Elements
    <3> QED
      BY ONLY <2>1, <3>1
  <2>3. inner.left = Reading(f.doc, f.at, f.i, inner.cat, inner.coll) \o w[n].left
    BY <1>3, <1>5, <1>8, <1>9, <2>1
  <2> QED
    BY ONLY <1>5, <1>8, <1>9, <2>1, <2>2, <2>3 DEF CallIn
<1>11. Len(stack') = n + 1 /\ stack'[n + 1] = f /\ \A k \in 1..n : stack'[k] = stack[k]
  <2>1. stack \in Seq(CallFrame)
    BY DEF TypeOK
  <2>2. stack' = Append(stack, f)
    BY <1>5, <1>6
  <2> QED
    BY ONLY <1>7, <2>1, <2>2
<1>12. CallIn(stack'[n + 1], w[n], inner)
  BY <1>10, <1>11
<1>13. Scoped(stack', inner.cat, inner.coll, inner.left)
  BY ONLY <1>7, <1>8, <1>11, <1>12, ScopeOfOneMore
<1>14. CalleeEntries \o left = rest /\ CalleeEntries' = <<>>
  BY <1>1, <1>2, <1>3 DEF CalleeEntries, ToEnter
<1>15. CalleeEntries \o left = <<>> \o (CalleeEntries' \o rest)
  BY <1>14, NoEntries
<1> QED
  BY <1>5, <1>9, <1>13, <1>15 DEF Takes

(* A call returns: it listed nothing more, and the ids are put back.       *)
LEMMA ReturningTakesNothing ==
  ASSUME TypeOK, EndLinks, NEW left \in Seq(Entry), Scoped(stack, catalog_id, collection_id, left)
  PROVE  Takes(<<>>, left)
<1>1. /\ stack # <<>> /\ Top.at = "links" /\ Top.i > Len(Doc[Top.doc].links)
      /\ callee = NoDoc /\ callee' = NoDoc
      /\ stack' = SubSeq(stack, 1, Len(stack) - 1)
  BY DEF EndLinks, Looping, Links, Return
<1>2. /\ Top \in CallFrame /\ Len(stack) \in Nat \ {0}
      /\ catalog_id \in Ids /\ collection_id \in Ids
  BY <1>1, TopIsFrame DEF TypeOK
<1>3. PICK n \in Nat : n + 1 = Len(stack)
  <2>1. Len(stack) - 1 \in Nat /\ (Len(stack) - 1) + 1 = Len(stack)
    BY <1>2
  <2> QED
    BY <2>1
<1>4. PICK w : /\ Unwinds(stack, w)
               /\ catalog_id = w[n + 1].cat /\ collection_id = w[n + 1].coll
               /\ left = w[n + 1].left
  BY <1>3 DEF Scoped
<1>5. CallIn(Top, w[n], w[n + 1]) /\ w[n] \in Scope
  BY <1>1, <1>3, <1>4, TopScope
<1>6. PICK below \in Seq(Entry) : below = w[n].left
  BY <1>5 DEF Scope
<1>7. PICK d \in DOMAIN Doc, i \in Nat \ {0} : d = Top.doc /\ i = Top.i
  BY <1>2 DEF CallFrame
<1>8. PICK size \in Nat : size = Len(Doc[d].links)
  BY DocFields
<1>9. i <= size + 1 /\ i > size
  BY <1>1, <1>5, <1>7, <1>8 DEF CallIn, Elements
<1>10. i \in 1..(size + 1)
  BY <1>7, <1>9
<1>11. Reading(d, "links", i, catalog_id, collection_id) = <<>>
  BY <1>2, <1>8, <1>9, <1>10, ReadingUnfolds
<1>12. left = below
  <2>1. left = Reading(d, "links", i, catalog_id, collection_id) \o below
    BY <1>1, <1>4, <1>5, <1>6, <1>7 DEF CallIn
  <2> QED
    BY <1>11, <2>1, NoEntries
<1>13. catalog_id' = w[n].cat /\ collection_id' = w[n].coll
  <2>1. /\ catalog_id' = IF Doc[d].type = "Catalog" THEN Top.saved ELSE catalog_id
        /\ collection_id' = IF Doc[d].type = "Collection" THEN Top.saved ELSE collection_id
    BY <1>7 DEF EndLinks, Return
  <2>2. /\ Doc[d].type = "Catalog" => Top.saved = w[n].cat
        /\ Doc[d].type = "Collection" => Top.saved = w[n].coll
        /\ Doc[d].type # "Catalog" => catalog_id = w[n].cat
        /\ Doc[d].type # "Collection" => collection_id = w[n].coll
    BY <1>4, <1>5, <1>7 DEF CallIn
  <2> QED
    BY ONLY <2>1, <2>2
<1>14. Len(stack) - 1 = n /\ Len(stack) \in Nat /\ n <= Len(stack)
  BY ONLY <1>2, <1>3
<1>15. Len(stack') = n /\ \A k \in 1..n : stack'[k] = stack[k]
  <2>1. stack \in Seq(CallFrame)
    BY DEF TypeOK
  <2>2. /\ Len(stack') = Len(stack) - 1
        /\ \A k \in 1..(Len(stack) - 1) : stack'[k] = stack[k]
    BY <1>1, <2>1, TopIsFrame
  <2> QED
    BY <1>14, <2>2
<1>16. Scoped(stack', w[n].cat, w[n].coll, w[n].left)
  BY ONLY <1>4, <1>14, <1>15, ScopeOfFewer
<1>17. CalleeEntries = <<>> /\ CalleeEntries' = <<>>
  BY <1>1 DEF CalleeEntries, ToEnter
<1> QED
  BY <1>6, <1>12, <1>13, <1>16, <1>17 DEF Takes

(* The end of the features is no end of the document.                      *)
LEMMA TurningTakesNothing ==
  ASSUME TypeOK, EndFeatures, NEW left \in Seq(Entry),
         Scoped(stack, catalog_id, collection_id, left)
  PROVE  Takes(<<>>, left)
<1>1. Scoped(stack', catalog_id, collection_id, left)
  BY EndFeaturesMovesOn
<1>2. /\ callee = NoDoc /\ callee' = NoDoc
      /\ catalog_id' = catalog_id /\ collection_id' = collection_id
  BY DEF EndFeatures, Looping, ctx
<1>3. CalleeEntries = <<>> /\ CalleeEntries' = <<>>
  BY <1>2 DEF CalleeEntries, ToEnter
<1>4. CalleeEntries \o left = <<>> \o (CalleeEntries' \o left)
  BY <1>3, NoEntries
<1> QED
  BY <1>1, <1>2, <1>4 DEF Takes

(* A loop that advances takes the entries of an element, or hands them to  *)
(* the document it is about to enter.                                      *)
LEMMA AdvanceTakes ==
  ASSUME TypeOK, stack # <<>>, Advance, Top.i <= Len(Elements(Top)), UNCHANGED ctx,
         callee = NoDoc,
         NEW left \in Seq(Entry), Scoped(stack, catalog_id, collection_id, left),
         NEW X \in Seq(Entry),
         X = IF Top.at = "features"
             THEN FeatureEntries(Elements(Top)[Top.i], catalog_id, collection_id)
             ELSE LinkEntries(Elements(Top)[Top.i], catalog_id, collection_id)
  PROVE  /\ CalleeEntries' = X => Takes(<<>>, left)
         /\ CalleeEntries' = <<>> => Takes(X, left)
<1>1. PICK rest \in Seq(Entry) :
        left = X \o rest /\ Scoped(stack', catalog_id, collection_id, rest)
  BY AdvanceMovesOn
<1>2. CalleeEntries \o left = left
  BY NoEntries DEF CalleeEntries, ToEnter
<1>3. Scoped(stack', catalog_id', collection_id', rest)
  BY <1>1 DEF ctx
<1>4. ASSUME CalleeEntries' = X
      PROVE  Takes(<<>>, left)
  <2>1. PICK all \in Seq(Entry) : all = X \o rest
    BY ConcatProperties
  <2>2. CalleeEntries \o left = <<>> \o (CalleeEntries' \o rest)
    BY <1>1, <1>2, <1>4, <2>1, NoEntries
  <2> QED
    BY <1>3, <2>2 DEF Takes
<1>5. ASSUME CalleeEntries' = <<>>
      PROVE  Takes(X, left)
  <2>1. CalleeEntries \o left = X \o (CalleeEntries' \o rest)
    BY <1>1, <1>2, <1>5, NoEntries
  <2> QED
    BY <1>3, <2>1 DEF Takes
<1> QED
  BY <1>4, <1>5

(* The element of "features" that a loop is looking at.                    *)
LEMMA ElementIsEntry ==
  ASSUME TypeOK, stack # <<>>, OnFeature
  PROVE  /\ Features[Top.i] \in DOMAIN Doc \cup {NotObject}
         /\ Features[Top.i] # NotObject =>
              Doc[Features[Top.i]].type \in {"Feature", "Other", NoType}
         /\ Top.at = "features" /\ Top.i <= Len(Elements(Top))
         /\ Elements(Top)[Top.i] = Features[Top.i]
<1>1. Top.at = "features" /\ Top.i <= Len(Features)
  BY DEF OnFeature, Looping
<1>2. PICK d \in DOMAIN Doc, i \in Nat \ {0} : d = Top.doc /\ i = Top.i
  BY TopIsFrame DEF TypeOK, CallFrame
<1>3. Elements(Top) = Doc[d].features /\ Features = Doc[d].features
  BY <1>1, <1>2 DEF Elements, Features
<1>4. PICK size \in Nat : size = Len(Doc[d].features)
  BY DocFields
<1>5. i \in 1..size
  BY <1>1, <1>2, <1>3, <1>4
<1>6. DOMAIN Doc[d].features = 1..size
  BY <1>4, DocFields, LenProperties
<1>7. Doc[d].features[i] # NotObject =>
        Doc[Doc[d].features[i]].type \in {"Feature", "Other", NoType}
  BY <1>5, <1>6, ReadingAssumption DEF ReadingAssumption
<1>8. Features[Top.i] \in DOMAIN Doc \cup {NotObject}
  BY EntriesTyped
<1> QED
  BY <1>1, <1>2, <1>3, <1>7, <1>8

(* An element that the OFFSET skips unread is counted.                     *)
LEMMA SkipEntryTakesOne ==
  ASSUME TypeOK, SkipEntry, NEW left \in Seq(Entry),
         Scoped(stack, catalog_id, collection_id, left)
  PROVE  TakesOne(left)
<1>1. /\ stack # <<>> /\ OnFeature /\ Advance /\ UNCHANGED ctx
      /\ callee = NoDoc /\ callee' = NoDoc /\ SkipsUnread
      /\ row_offset' = row_offset - 1 /\ rows' = rows
  BY DEF SkipEntry, OnFeature, Looping, out
<1>2. catalog_id \in Ids /\ collection_id \in Ids
  BY DEF TypeOK
<1>3. /\ Features[Top.i] \in DOMAIN Doc \cup {NotObject}
      /\ Top.at = "features" /\ Top.i <= Len(Elements(Top))
      /\ Elements(Top)[Top.i] = Features[Top.i]
  BY <1>1, ElementIsEntry
<1>4. PICK e \in Entry : FeatureEntries(Features[Top.i], catalog_id, collection_id) = <<e>>
  BY <1>2, <1>3, EntryTyped DEF FeatureEntries, Entry
<1>5. <<e>> \in Seq(Entry) /\ CalleeEntries' = <<>>
  BY <1>1, <1>4 DEF CalleeEntries, ToEnter
<1>6. Takes(<<e>>, left)
  BY <1>1, <1>3, <1>4, <1>5, AdvanceTakes
<1>7. Skips(e)
  BY <1>1 DEF Skips, Counted, SkipsUnread
<1> QED
  BY <1>6, <1>7 DEF TakesOne

(* A Feature is entered next; any other element lists nothing.             *)
LEMMA CallFeatureTakes ==
  ASSUME TypeOK, CallFeature, NEW left \in Seq(Entry),
         Scoped(stack, catalog_id, collection_id, left)
  PROVE  /\ UNCHANGED <<row_offset, rows>>
         /\ Takes(<<>>, left) \/ TakesOne(left)
<1>1. /\ stack # <<>> /\ OnFeature /\ Advance /\ UNCHANGED ctx
      /\ callee = NoDoc /\ ~SkipsUnread /\ row_offset' = row_offset /\ rows' = rows
      /\ callee' = IF Features[Top.i] = NotObject THEN NoDoc ELSE Features[Top.i]
  BY DEF CallFeature, OnFeature, Looping, out
<1>2. catalog_id \in Ids /\ collection_id \in Ids /\ row_offset \in Nat
      /\ catalog_id' = catalog_id /\ collection_id' = collection_id
  BY <1>1 DEF TypeOK, ctx
<1>3. PICK f \in DOMAIN Doc \cup {NotObject} : f = Features[Top.i]
  BY <1>1, ElementIsEntry
<1>4. /\ Top.at = "features" /\ Top.i <= Len(Elements(Top)) /\ Elements(Top)[Top.i] = f
      /\ f # NotObject => Doc[f].type \in {"Feature", "Other", NoType}
  BY <1>1, <1>3, ElementIsEntry
<1>5. CASE f # NotObject /\ Doc[f].type = "Feature"
  <2>1. f \in DOMAIN Doc /\ f # NoDoc /\ callee' = f
    BY <1>1, <1>3, <1>5, ReaderAssumption DEF ReaderAssumption
  <2>2. CalleeEntries' = FeatureEntries(f, catalog_id, collection_id)
    BY <1>2, <1>5, <2>1 DEF CalleeEntries, ToEnter, EntriesOf, FeatureEntries
  <2>3. FeatureEntries(f, catalog_id, collection_id) \in Seq(Entry)
    BY <1>2, <1>5, <2>1, EntryTyped DEF FeatureEntries
  <2>4. Takes(<<>>, left)
    BY <1>1, <1>4, <2>2, <2>3, AdvanceTakes
  <2> QED
    BY <1>1, <2>4
<1>6. CASE ~(f # NotObject /\ Doc[f].type = "Feature")
  <2>1. FeatureEntries(f, catalog_id, collection_id) = <<NotObject>>
    BY <1>6 DEF FeatureEntries
  <2>2. NotObject \in Entry /\ <<NotObject>> \in Seq(Entry)
    BY DEF Entry
  <2>3. CalleeEntries' = <<>>
    <3>1. CASE f = NotObject
      BY <1>1, <1>3, <3>1 DEF CalleeEntries, ToEnter
    <3>2. CASE f # NotObject
      <4>1. Doc[f].type # "Feature" /\ Doc[f].type \in {"Other", NoType}
        BY <1>4, <1>6, <3>2
      <4>2. Doc[f].type \notin {"Feature", "Catalog", "Collection", "FeatureCollection"}
        BY <4>1, ReaderAssumption DEF ReaderAssumption, Known
      <4>3. EntriesOf(f, catalog_id', collection_id') = <<>>
        BY <4>2 DEF EntriesOf
      <4> QED
        BY <1>1, <1>3, <3>2, <4>3 DEF CalleeEntries, ToEnter
    <3> QED
      BY <3>1, <3>2
  <2>4. Takes(<<NotObject>>, left)
    BY <1>1, <1>4, <2>1, <2>2, <2>3, AdvanceTakes
  <2>5. Ignores(NotObject)
    BY <1>1, <1>2 DEF Ignores, Returned, Counted, SkipsUnread
  <2> QED
    BY <1>1, <2>2, <2>4, <2>5 DEF TakesOne
<1> QED
  BY <1>5, <1>6

(* The link that a loop is looking at.                                     *)
LEMMA LinkIsElement ==
  ASSUME TypeOK, stack # <<>>, OnLink
  PROVE  /\ Link \in LinkObject \cup {NotObject}
         /\ Top.at = "links" /\ Top.i <= Len(Elements(Top))
         /\ Elements(Top)[Top.i] = Link
<1>1. Top.at = "links" /\ Top.i <= Len(Links)
  BY DEF OnLink, Looping
<1>2. Elements(Top) = Links
  BY <1>1 DEF Elements, Links
<1> QED
  BY <1>1, <1>2, EntriesTyped DEF Link

(* A link that is passed over, or kept for the next page, lists nothing.   *)
LEMMA PassingALinkTakesNothing ==
  ASSUME TypeOK, SkipLink \/ StoreNextLink, ~LimitReached, NEW left \in Seq(Entry),
         Scoped(stack, catalog_id, collection_id, left)
  PROVE  Takes(<<>>, left)
<1>1. /\ stack # <<>> /\ OnLink /\ Advance /\ UNCHANGED ctx
      /\ callee = NoDoc /\ callee' = NoDoc
  BY DEF SkipLink, StoreNextLink, OnLink, Looping
<1>2. ~Followed(Link)
  BY DEF SkipLink, StoreNextLink, Readable, Followed, NeedConsumeLink
<1>3. LinkEntries(Link, catalog_id, collection_id) = <<>>
  BY <1>2 DEF LinkEntries
<1>4. CalleeEntries' = <<>> /\ <<>> \in Seq(Entry)
  BY <1>1, NoEntries DEF CalleeEntries, ToEnter
<1> QED
  BY <1>1, <1>3, <1>4, LinkIsElement, AdvanceTakes

(* The document of a child link is entered next, and is no page.           *)
LEMMA FollowingTakesNothing ==
  ASSUME TypeOK, FollowLink, status' # "failed", NEW left \in Seq(Entry),
         Scoped(stack, catalog_id, collection_id, left)
  PROVE  Takes(<<>>, left) /\ entries' = entries \o <<>>
<1>1. /\ stack # <<>> /\ OnLink /\ Advance /\ UNCHANGED ctx /\ callee = NoDoc
      /\ Readable /\ NeedConsumeLink(Link.rel)
      /\ Fetch(CatalogRequest(Link.href, {}))
  BY DEF FollowLink, OnLink, Looping
<1>2. /\ CatalogRequest(Link.href, {}).href = Link.href
      /\ CatalogRequest(Link.href, {}).body = {}
  BY DEF CatalogRequest
<1>3. /\ <<Link.href, {}>> \in DOMAIN Serve /\ callee' = Serve[<<Link.href, {}>>]
      /\ entries' = entries \o <<>>
  BY <1>1, <1>2 DEF Fetch, PageEntries
<1>4. callee' \in DOMAIN Doc /\ callee' # NoDoc
  BY <1>3, ReaderAssumption DEF ReaderAssumption
<1>5. catalog_id' = catalog_id /\ collection_id' = collection_id
      /\ catalog_id \in Ids /\ collection_id \in Ids
  BY <1>1 DEF ctx, TypeOK
<1>6. LinkEntries(Link, catalog_id, collection_id) = EntriesOf(callee', catalog_id, collection_id)
  BY <1>1, <1>3 DEF LinkEntries, Followed, Readable
<1>7. CalleeEntries' = EntriesOf(callee', catalog_id, collection_id)
  BY <1>4, <1>5 DEF CalleeEntries, ToEnter
<1>8. EntriesOf(callee', catalog_id, collection_id) \in Seq(Entry)
  BY <1>4, <1>5, ListedTyped
<1>9. Takes(<<>>, left)
  BY <1>1, <1>6, <1>7, <1>8, LinkIsElement, AdvanceTakes
<1> QED
  BY <1>3, <1>9

(* An object of an unknown type is no document and no item.                *)
LEMMA IgnoringTakesNothing ==
  ASSUME TypeOK, IgnoreOther, NEW left \in Seq(Entry),
         Scoped(stack, catalog_id, collection_id, left)
  PROVE  Takes(<<>>, left)
<1>1. /\ callee # NoDoc /\ callee' = NoDoc /\ Doc[callee].type = "Other"
      /\ stack' = stack /\ catalog_id' = catalog_id /\ collection_id' = collection_id
  BY DEF IgnoreOther, Calling, ctx
<1>2. CalleeEntries = <<>> /\ CalleeEntries' = <<>>
  BY <1>1 DEF CalleeEntries, ToEnter, EntriesOf
<1> QED
  BY <1>1, <1>2 DEF Takes

(* A Feature is skipped, rejected or kept as the next item.                *)
LEMMA FeatureTakesOne ==
  ASSUME TypeOK, SkipFeature \/ RejectFeature \/ SkipMatchingFeature \/ KeepFeature,
         NEW left \in Seq(Entry), Scoped(stack, catalog_id, collection_id, left)
  PROVE  TakesOne(left)
<1>1. /\ callee \in DOMAIN Doc /\ callee # NoDoc /\ callee' = NoDoc /\ Doc[callee].type = "Feature"
      /\ stack' = stack /\ catalog_id' = catalog_id /\ collection_id' = collection_id
      /\ catalog_id \in Ids /\ collection_id \in Ids /\ row_offset \in Nat
  BY DEF SkipFeature, RejectFeature, SkipMatchingFeature, KeepFeature, ReadsFeature,
         Calling, ctx, TypeOK
<1>2. PICK e \in Entry : e = Row(callee)
  BY <1>1, EntryTyped DEF Row
<1>3. e # NotObject /\ e.id = callee
  BY <1>1, <1>2, EntryTyped DEF Row
<1>4. CalleeEntries = <<e>> /\ CalleeEntries' = <<>>
  BY <1>1, <1>2 DEF CalleeEntries, ToEnter, EntriesOf, Row
<1>5. Takes(<<e>>, left)
  <2>1. CalleeEntries \o left = <<e>> \o (CalleeEntries' \o left)
    BY <1>4, NoEntries
  <2> QED
    BY <1>1, <2>1 DEF Takes
<1>6. Skips(e) \/ Ignores(e) \/ Keeps(e)
  <2>1. CASE SkipFeature
    BY <1>3, <2>1 DEF SkipFeature, SkipsUnread, Skips, Counted, out
  <2>2. CASE SkipMatchingFeature
    BY <1>3, <2>2 DEF SkipMatchingFeature, SkipsMatching, Passes, Skips, Counted, out
  <2>3. CASE RejectFeature
    BY <1>3, <2>3 DEF RejectFeature, Passes, Ignores, Returned, Counted, out
  <2>4. CASE KeepFeature
    <3>1. row_offset = 0
      BY <1>1, <2>4 DEF KeepFeature, ReadsFeature, SkipsUnread, SkipsMatching
    <3> QED
      BY <1>2, <1>3, <2>4, <3>1 DEF KeepFeature, Passes, Keeps, Returned
  <2> QED
    BY <2>1, <2>2, <2>3, <2>4
<1> QED
  BY <1>5, <1>6 DEF TakesOne

(* Between two pages nothing is open and nothing is left.                  *)
LEMMA NothingOpen ==
  ASSUME stack = <<>>, callee = NoDoc,
         NEW left, Scoped(stack, catalog_id, collection_id, left)
  PROVE  left = <<>> /\ catalog_id = "" /\ collection_id = "" /\ CalleeEntries = <<>>
<1>1. Len(stack) = 0
  OBVIOUS
<1>2. PICK w : /\ Unwinds(stack, w)
               /\ catalog_id = w[0].cat /\ collection_id = w[0].coll /\ left = w[0].left
  BY <1>1 DEF Scoped
<1>3. w[0] = Outermost
  BY <1>2 DEF Unwinds
<1>4. w[0].cat = "" /\ w[0].coll = "" /\ w[0].left = <<>>
  <2>1. Outermost.cat = ""
    BY DEF Outermost
  <2>2. Outermost.coll = ""
    BY DEF Outermost
  <2>3. Outermost.left = <<>>
    BY DEF Outermost
  <2> QED
    BY ONLY <1>3, <2>1, <2>2, <2>3
<1>5. CalleeEntries = <<>>
  BY DEF CalleeEntries, ToEnter
<1> QED
  BY <1>2, <1>4, <1>5

(* A page brings what its document lists, outside of any Catalog.          *)
LEMMA PageBringsEntries ==
  ASSUME TypeOK, stack = <<>>, callee = NoDoc, UNCHANGED <<stack, ctx>>,
         NEW req, Fetch(req), status' # "failed",
         NEW left, Scoped(stack, catalog_id, collection_id, left)
  PROVE  /\ Scoped(stack', catalog_id', collection_id', <<>>)
         /\ CalleeEntries' \in Seq(Entry)
         /\ entries' = entries \o CalleeEntries'
<1>1. left = <<>> /\ catalog_id = "" /\ collection_id = ""
  BY NothingOpen
<1>2. callee' \in DOMAIN Doc /\ callee' # NoDoc
  BY ReaderAssumption DEF ReaderAssumption, Fetch
<1>3. catalog_id' = "" /\ collection_id' = "" /\ stack' = stack
  BY <1>1 DEF ctx
<1>4. CalleeEntries' = EntriesOf(callee', "", "")
  BY <1>2, <1>3 DEF CalleeEntries, ToEnter
<1>5. entries' = entries \o EntriesOf(callee', "", "")
  BY <1>2 DEF Fetch, PageEntries
<1>6. PICK outer \in Ids : outer = ""
  BY DEF Ids
<1>7. PICK page \in DOMAIN Doc : page = callee'
  BY <1>2
<1>8. EntriesOf(page, outer, outer) \in Seq(Entry)
  BY ListedTyped
<1> QED
  BY <1>1, <1>3, <1>4, <1>5, <1>6, <1>7, <1>8

(***************************************************************************)
(* Every step keeps the invariant.                                         *)
(***************************************************************************)
(* Reading the first of the entries that are left.                         *)
LEMMA AheadMovesOn ==
  ASSUME entries \in Seq(Entry), NEW p \in Nat, NEW e \in Entry, NEW more \in Seq(Entry),
         Ahead(p, <<e>> \o more), entries' = entries
  PROVE  p + 1 <= Len(entries) /\ e = entries[p + 1] /\ Ahead(p + 1, more)'
<1>0. PICK one \in Seq(Entry) : one = <<e>> /\ Len(one) = 1 /\ one[1] = e
  <2>1. <<e>> \in Seq(Entry) /\ Len(<<e>>) = 1 /\ <<e>>[1] = e
    OBVIOUS
  <2> QED
    BY <2>1
<1>1. PICK all \in Seq(Entry), m \in Nat : all = one \o more /\ m = Len(more)
  BY ConcatProperties, LenProperties
<1>2. Len(all) = m + 1 /\ all[1] = e /\ \A i \in 1..m : all[i + 1] = more[i]
  <2>1. /\ Len(all) = Len(one) + Len(more)
        /\ \A i \in 1..(Len(one) + Len(more)) :
             all[i] = IF i <= Len(one) THEN one[i] ELSE more[i - Len(one)]
    BY <1>1, ConcatProperties
  <2>2. /\ Len(all) = 1 + m
        /\ \A i \in 1..(1 + m) : all[i] = IF i <= 1 THEN one[i] ELSE more[i - 1]
    BY <1>0, <1>1, <2>1
  <2>3. \A i \in 1..m : i + 1 \in 1..(1 + m) /\ ~(i + 1 <= 1) /\ (i + 1) - 1 = i
    OBVIOUS
  <2>4. 1 \in 1..(1 + m)
    OBVIOUS
  <2> QED
    BY <1>0, <2>2, <2>3, <2>4
<1>3. Len(entries) = p + (m + 1) /\ \A i \in 1..(m + 1) : entries[p + i] = all[i]
  BY <1>0, <1>1, <1>2 DEF Ahead
<1>4. 1 \in 1..(m + 1) /\ \A i \in 1..m : i + 1 \in 1..(m + 1) /\ (p + 1) + i = p + (i + 1)
  OBVIOUS
<1>5. e = entries[p + 1] /\ \A i \in 1..m : entries[(p + 1) + i] = more[i]
  <2>1. e = entries[p + 1]
    BY <1>2, <1>3, <1>4
  <2>2. ASSUME NEW i \in 1..m PROVE entries[(p + 1) + i] = more[i]
    <3>1. entries[p + (i + 1)] = all[i + 1]
      BY <1>3, <1>4
    <3> QED
      BY <1>2, <1>4, <3>1
  <2> QED
    BY <2>1, <2>2
<1>6. p + 1 <= Len(entries) /\ Len(entries) = (p + 1) + m
  BY <1>3
<1> QED
  BY <1>1, <1>5, <1>6 DEF Ahead

(* Progress up to some entry.                                              *)
LEMMA ProgressMade ==
  ASSUME NEW p \in 0..Len(entries'), Progress(p)'
  PROVE  InProgress'
<1> SUFFICES \E q \in 0..Len(entries') : Progress(q)'
  BY DEF InProgress
<1> WITNESS p \in 0..Len(entries')
<1> QED
  OBVIOUS

(* The limit, once reached, stays reached.                                 *)
LEMMA LimitStaysReached ==
  ASSUME TypeOK, [Next]_vars, ~LimitReached'
  PROVE  ~LimitReached
<1>1. row_limit' = row_limit /\ row_limit \in Nat /\ row_count \in Nat
  BY OffsetStaysTyped DEF query, TypeOK
<1>2. row_count' = row_count \/ row_count' = row_count + 1
  BY RowSteps DEF out
<1> QED
  BY <1>1, <1>2 DEF LimitReached

(* A step that neither reads an entry nor asks for a page.                 *)
LEMMA QuietStep ==
  ASSUME TypeOK, entries \in Seq(Entry), NEW p \in 0..Len(entries), RowsUpTo(p),
         UNCHANGED <<query, row_offset, rows, entries>>,
         status' \in {"new", "open"} /\ ~LimitReached' =>
           \E left \in Seq(Entry) : Ahead(p, CalleeEntries \o left) /\ Takes(<<>>, left),
         status' = "done" /\ ~LimitReached' => p = Len(entries),
         callee' \in DOMAIN Doc \cup {NoDoc}, catalog_id' \in Ids, collection_id' \in Ids
  PROVE  p \in 0..Len(entries') /\ Progress(p)'
<1>1. entries' = entries
  OBVIOUS
<1>2. RowsUpTo(p)'
  BY RowsStay
<1>3. ASSUME status' \in {"new", "open"}, ~LimitReached'
      PROVE  Reads(p)'
  <2>1. PICK left \in Seq(Entry) : Ahead(p, CalleeEntries \o left) /\ Takes(<<>>, left)
    BY <1>3
  <2>2. PICK rest \in Seq(Entry) :
          /\ Scoped(stack', catalog_id', collection_id', rest)
          /\ CalleeEntries \o left = <<>> \o (CalleeEntries' \o rest)
    BY <2>1 DEF Takes
  <2>3. CalleeEntries' \in Seq(Entry)
    BY ToEnterTyped DEF CalleeEntries
  <2>4. PICK more \in Seq(Entry) : more = CalleeEntries' \o rest
    BY <2>3, ConcatProperties
  <2>5. CalleeEntries \o left = more
    BY <2>2, <2>4, NoEntries
  <2>6. Ahead(p, more)'
    BY <1>1, <2>1, <2>5 DEF Ahead
  <2> QED
    BY <2>2, <2>4, <2>6 DEF Reads
<1> QED
  BY <1>1, <1>2, <1>3 DEF Progress

(* A step that reads one entry.                                            *)
LEMMA TakingStep ==
  ASSUME TypeOK, entries \in Seq(Entry), NEW p \in 0..Len(entries), RowsUpTo(p),
         UNCHANGED <<query, entries>>, status' = "open",
         NEW left \in Seq(Entry), Ahead(p, CalleeEntries \o left), TakesOne(left),
         callee' \in DOMAIN Doc \cup {NoDoc}, catalog_id' \in Ids, collection_id' \in Ids
  PROVE  p + 1 \in 0..Len(entries') /\ Progress(p + 1)'
<1>1. entries' = entries /\ p \in Nat /\ Len(entries) \in Nat
  BY LenProperties
<1>2. PICK e \in Entry, rest \in Seq(Entry) :
        /\ Skips(e) \/ Ignores(e) \/ Keeps(e)
        /\ Scoped(stack', catalog_id', collection_id', rest)
        /\ CalleeEntries \o left = <<e>> \o (CalleeEntries' \o rest)
  BY DEF TakesOne, Takes
<1>3. CalleeEntries' \in Seq(Entry)
  BY ToEnterTyped DEF CalleeEntries
<1>4. PICK more \in Seq(Entry) : more = CalleeEntries' \o rest
  BY <1>3, ConcatProperties
<1>5. p + 1 <= Len(entries) /\ e = entries[p + 1] /\ Ahead(p + 1, more)'
  BY <1>1, <1>2, <1>4, AheadMovesOn
<1>6. RowsUpTo(p + 1)'
  BY <1>1, <1>2, <1>5, RowsAfterEntry
<1>7. Reads(p + 1)'
  BY <1>2, <1>4, <1>5 DEF Reads
<1> QED
  BY <1>1, <1>5, <1>6, <1>7 DEF Progress

(* A step that asks for a page.                                            *)
LEMMA PageStep ==
  ASSUME TypeOK, entries \in Seq(Entry), NEW p \in 0..Len(entries), RowsUpTo(p),
         ~LimitReached => Reads(p),
         stack = <<>>, callee = NoDoc, NEW req, Fetch(req),
         UNCHANGED <<query, row_offset, rows, stack, ctx>>, LimitReached' = LimitReached
  PROVE  entries' \in Seq(Entry) /\ p \in 0..Len(entries') /\ Progress(p)'
<1>1. PICK page \in Seq(Entry) : page = PageEntries(callee') /\ entries' = entries \o page
  <2>1. callee' \in DOMAIN Doc \cup {NoDoc}
    BY ReaderAssumption DEF ReaderAssumption, Fetch
  <2>2. PICK outer \in Ids : outer = ""
    BY DEF Ids
  <2>3. PageEntries(callee') = ToEnter(callee', outer, outer)
    BY <2>2 DEF PageEntries, ToEnter
  <2>4. ToEnter(callee', outer, outer) \in Seq(Entry)
    BY <2>1, <2>2, ToEnterTyped
  <2> QED
    BY <2>3, <2>4 DEF Fetch
<1>2. PICK n \in Nat, m \in Nat : n = Len(entries) /\ m = Len(page)
  BY <1>1, LenProperties
<1>3. /\ Len(entries') = n + m
      /\ \A i \in 1..(n + m) : entries'[i] = IF i <= n THEN entries[i] ELSE page[i - n]
  BY <1>1, <1>2, ConcatProperties
<1>4. \A q \in 1..n : q \in 1..(n + m) /\ q <= n
  BY <1>2
<1>5. \A q \in 1..Len(entries) : entries'[q] = entries[q]
  BY <1>2, <1>3, <1>4
<1>6. RowsUpTo(p)'
  BY <1>5, RowsStay
<1>7. status' \in {"open", "failed"}
  BY DEF Fetch
<1>8. ASSUME status' \in {"new", "open"}, ~LimitReached'
      PROVE  Reads(p)'
  <2>1. PICK left \in Seq(Entry) :
          Scoped(stack, catalog_id, collection_id, left) /\ Ahead(p, CalleeEntries \o left)
    BY <1>8 DEF Reads
  <2>2. status' # "failed"
    BY <1>7, <1>8
  <2>3. /\ Scoped(stack', catalog_id', collection_id', <<>>)
        /\ CalleeEntries' \in Seq(Entry)
        /\ entries' = entries \o CalleeEntries'
    BY <2>1, <2>2, PageBringsEntries
  <2>4. left = <<>> /\ CalleeEntries = <<>>
    BY <2>1, NothingOpen
  <2>5. p = n
    <3>1. Ahead(p, <<>>)
      BY <2>1, <2>4, NoEntries
    <3>2. Len(<<>>) = 0
      OBVIOUS
    <3> QED
      BY <1>2, <3>1, <3>2 DEF Ahead
  <2>6. PICK next_page \in Seq(Entry), size \in Nat :
          next_page = CalleeEntries' /\ size = Len(next_page)
    BY <2>3, LenProperties
  <2>7. /\ Len(entries') = n + size
        /\ \A i \in 1..(n + size) : entries'[i] = IF i <= n THEN entries[i] ELSE next_page[i - n]
    BY <1>2, <2>3, <2>6, ConcatProperties
  <2>8. \A i \in 1..size : n + i \in 1..(n + size) /\ ~(n + i <= n) /\ (n + i) - n = i
    OBVIOUS
  <2>9. \A i \in 1..size : entries'[n + i] = next_page[i]
    BY <2>7, <2>8
  <2>10. Ahead(p, next_page)'
    BY <2>5, <2>6, <2>7, <2>9 DEF Ahead
  <2>11. <<>> \in Seq(Entry) /\ CalleeEntries' \o <<>> = next_page
    BY <2>6, NoEntries
  <2> QED
    BY <2>3, <2>10, <2>11 DEF Reads
<1>9. entries' \in Seq(Entry) /\ p \in 0..Len(entries')
  BY <1>1, <1>2, <1>3, ConcatProperties
<1> QED
  BY <1>6, <1>7, <1>8, <1>9 DEF Progress

(* The simple parts of the invariant.                                      *)
LEMMA CountsStay ==
  ASSUME TypeOK, OrderInv, [Next]_vars
  PROVE  /\ row_count' = Len(rows')
         /\ row_count' > 0 => row_offset' = 0
         /\ status' = "new" => stack' = <<>> /\ callee' = NoDoc
<1>1. /\ row_count = Len(rows) /\ row_count \in Nat /\ row_offset \in Nat
      /\ row_count > 0 => row_offset = 0
  BY DEF OrderInv, TypeOK
<1>2. row_count' = Len(rows')
  <2>1. CASE UNCHANGED out
    BY <1>1, <2>1 DEF out
  <2>2. CASE row_count' = row_count + 1 /\ rows' = Append(rows, Row(callee)) /\ Row(callee) \in ItemRow
    <3>1. Len(rows') = Len(rows) + 1
      BY <2>2, AppendProperties DEF TypeOK
    <3> QED
      BY <1>1, <2>2, <3>1
  <2> QED
    BY <2>1, <2>2, RowSteps
<1>3. row_count' > 0 => row_offset' = 0
  <2>1. CASE KeepFeature
    BY <1>1, <2>1 DEF KeepFeature, ReadsFeature, SkipsUnread, SkipsMatching
  <2>2. CASE SkipEntry \/ SkipFeature \/ SkipMatchingFeature
    BY <1>1, <2>2 DEF SkipEntry, SkipFeature, SkipMatchingFeature, SkipsUnread, SkipsMatching, out
  <2>3. CASE \/ ReadFirstPage \/ ReadNextPage \/ NoMorePages
             \/ ReturnAtLimit \/ MissingType \/ IgnoreOther
             \/ EnterCatalog \/ EnterCollection \/ EnterFeatureCollection
             \/ InvalidFeature \/ RejectFeature
             \/ StopFeatures \/ CallFeature \/ EndFeatures
             \/ StopLinks \/ EndLinks \/ SkipLink \/ StoreNextLink \/ RefuseNextLink \/ FollowLink
             \/ UNCHANGED vars
    <3>1. row_offset' = row_offset /\ UNCHANGED out
      BY <2>3 DEF ReadFirstPage, ReadNextPage, NoMorePages, ReturnAtLimit, MissingType,
         IgnoreOther, EnterCatalog, EnterCollection, EnterFeatureCollection, InvalidFeature,
         RejectFeature, StopFeatures, CallFeature, EndFeatures, StopLinks, EndLinks, SkipLink,
         StoreNextLink, RefuseNextLink, FollowLink, Throw, vars
    <3> QED
      BY <1>1, <3>1 DEF out
  <2> QED
    BY <2>1, <2>2, <2>3, StepCases
<1>4. ASSUME status' = "new"
      PROVE  stack' = <<>> /\ callee' = NoDoc
  <2>1. status = "new" /\ stack = <<>> /\ callee = NoDoc
    BY <1>4, NewOnlyAtStart DEF OrderInv
  <2>2. UNCHANGED vars
    BY <1>4, <2>1, StepCases DEF Fetch, ReadFirstPage, ReadNextPage, FollowLink, NoMorePages,
       BetweenPages, ReturnAtLimit, MissingType, IgnoreOther, EnterCatalog, EnterCollection,
       EnterFeatureCollection, SkipFeature, InvalidFeature, RejectFeature, SkipMatchingFeature,
       KeepFeature, ReadsFeature, SkipEntry, CallFeature, StopFeatures, EndFeatures, StopLinks,
       EndLinks, SkipLink, StoreNextLink, RefuseNextLink, OnFeature, OnLink, Looping, Calling
  <2> QED
    BY <2>1, <2>2 DEF vars
<1> QED
  BY <1>2, <1>3, <1>4

(* The invariant after any step.                                           *)
LEMMA OrderStep ==
  ASSUME TypeOK, OrderInv, [Next]_vars
  PROVE  OrderInv'
<1> SUFFICES entries' \in Seq(Entry) /\ InProgress'
  BY CountsStay DEF OrderInv
<1>1. /\ UNCHANGED query
      /\ callee' \in DOMAIN Doc \cup {NoDoc} /\ catalog_id' \in Ids /\ collection_id' \in Ids
  BY OffsetStaysTyped, CalleeStaysTyped, ContextStaysTyped
<1>2. entries \in Seq(Entry)
  BY DEF OrderInv
<1>3. PICK p \in 0..Len(entries) : Progress(p)
  BY DEF OrderInv, InProgress
<1>4. RowsUpTo(p)
  BY <1>3 DEF Progress
<1>5. ASSUME status \in {"new", "open"}, ~LimitReached
      PROVE  \E left \in Seq(Entry) : /\ Scoped(stack, catalog_id, collection_id, left)
                                      /\ Ahead(p, CalleeEntries \o left)
  BY <1>3, <1>5 DEF Progress, Reads
<1>6. CASE \/ EnterCatalog \/ EnterCollection \/ EnterFeatureCollection \/ IgnoreOther
           \/ EndFeatures \/ EndLinks \/ SkipLink \/ StoreNextLink
  <2>1. /\ UNCHANGED <<row_offset, rows, entries>> /\ status = "open" /\ status' = "open"
    BY <1>6 DEF EnterCatalog, EnterCollection, EnterFeatureCollection, IgnoreOther, EndFeatures,
       EndLinks, SkipLink, StoreNextLink, Calling, OnLink, Looping, out, io
  <2>2. ASSUME ~LimitReached'
        PROVE  \E left \in Seq(Entry) : Ahead(p, CalleeEntries \o left) /\ Takes(<<>>, left)
    <3>1. ~LimitReached
      BY <2>2, LimitStaysReached
    <3>2. PICK left \in Seq(Entry) : /\ Scoped(stack, catalog_id, collection_id, left)
                                     /\ Ahead(p, CalleeEntries \o left)
      BY <1>5, <2>1, <3>1
    <3>3. Takes(<<>>, left)
      BY <1>6, <3>1, <3>2, EnteringTakesNothing, IgnoringTakesNothing, TurningTakesNothing,
         ReturningTakesNothing, PassingALinkTakesNothing
    <3> QED
      BY <3>2, <3>3
  <2>3. p \in 0..Len(entries') /\ Progress(p)'
    BY <1>1, <1>2, <1>4, <2>1, <2>2, QuietStep
  <2> QED
    BY <1>2, <2>1, <2>3, ProgressMade
<1>7. CASE FollowLink
  <2>1. UNCHANGED <<row_offset, rows>> /\ status = "open" /\ status' \in {"open", "failed"}
    BY <1>7 DEF FollowLink, OnLink, Looping, Fetch, out
  <2>2. entries' = entries
    <3>1. entries' = entries \o <<>>
      BY <1>7 DEF FollowLink, OnLink, Looping, Fetch, PageEntries
    <3> QED
      BY <1>2, <3>1, NoEntries, ProgressMade
  <2>3. ASSUME status' \in {"new", "open"}, ~LimitReached'
        PROVE  \E left \in Seq(Entry) : Ahead(p, CalleeEntries \o left) /\ Takes(<<>>, left)
    <3>1. ~LimitReached /\ status' # "failed"
      BY <2>3, LimitStaysReached
    <3>2. PICK left \in Seq(Entry) : /\ Scoped(stack, catalog_id, collection_id, left)
                                     /\ Ahead(p, CalleeEntries \o left)
      BY <1>5, <2>1, <3>1
    <3> QED
      BY <1>7, <3>1, <3>2, FollowingTakesNothing
  <2>4. p \in 0..Len(entries') /\ Progress(p)'
    BY <1>1, <1>2, <1>4, <2>1, <2>2, <2>3, QuietStep
  <2> QED
    BY <1>2, <2>2, <2>4, ProgressMade
<1>8. CASE \/ ReturnAtLimit \/ StopFeatures \/ StopLinks
           \/ MissingType \/ InvalidFeature \/ RefuseNextLink
  <2>1. /\ UNCHANGED <<row_offset, rows, entries>>
        /\ status' = "failed" \/ (LimitReached /\ UNCHANGED <<out, status>> /\ status = "open")
    BY <1>8 DEF ReturnAtLimit, StopFeatures, StopLinks, MissingType, InvalidFeature,
       RefuseNextLink, Throw, OnFeature, OnLink, Looping, out, io
  <2>2. LimitReached /\ UNCHANGED out => LimitReached'
    BY <1>1 DEF LimitReached, out, query
  <2>3. ~(status' \in {"new", "open"} /\ ~LimitReached') /\ status' # "done"
    BY <2>1, <2>2
  <2>4. p \in 0..Len(entries') /\ Progress(p)'
    BY <1>1, <1>2, <1>4, <2>1, <2>3, QuietStep
  <2> QED
    BY <1>2, <2>1, <2>4, ProgressMade
<1>9. CASE NoMorePages
  <2>1. /\ UNCHANGED <<row_offset, rows, entries>> /\ status = "open" /\ status' = "done"
        /\ stack = <<>> /\ callee = NoDoc
    BY <1>9 DEF NoMorePages, BetweenPages, out, io
  <2>2. ASSUME ~LimitReached'
        PROVE  p = Len(entries)
    <3>1. ~LimitReached
      BY <2>2, LimitStaysReached
    <3>2. PICK left \in Seq(Entry) : /\ Scoped(stack, catalog_id, collection_id, left)
                                     /\ Ahead(p, CalleeEntries \o left)
      BY <1>5, <2>1, <3>1
    <3>3. left = <<>> /\ CalleeEntries = <<>>
      BY <2>1, <3>2, NothingOpen
    <3>4. Ahead(p, <<>>)
      BY <3>2, <3>3, NoEntries
    <3>5. Len(<<>>) = 0 /\ p \in Nat
      BY <1>3
    <3> QED
      BY <3>4, <3>5 DEF Ahead
  <2>3. p \in 0..Len(entries') /\ Progress(p)'
    BY <1>1, <1>2, <1>4, <2>1, <2>2, QuietStep
  <2> QED
    BY <1>2, <2>1, <2>3, ProgressMade
<1>10. CASE SkipFeature \/ RejectFeature \/ SkipMatchingFeature \/ KeepFeature \/ SkipEntry
  <2>1. entries' = entries /\ status = "open" /\ status' = "open"
    BY <1>10 DEF SkipFeature, RejectFeature, SkipMatchingFeature, KeepFeature, SkipEntry,
       ReadsFeature, Calling, OnFeature, Looping, io
  <2>2. ~LimitReached
    <3>1. CASE SkipEntry
      <4>1. row_offset > 0 /\ row_offset \in Nat
        BY <3>1 DEF SkipEntry, SkipsUnread, TypeOK
      <4>2. row_count \in Nat /\ row_limit \in Nat /\ ~(row_count > 0)
        BY <4>1 DEF OrderInv, TypeOK
      <4> QED
        BY <4>2 DEF LimitReached
    <3>2. CASE SkipFeature \/ RejectFeature \/ SkipMatchingFeature \/ KeepFeature
      BY <3>2 DEF SkipFeature, RejectFeature, SkipMatchingFeature, KeepFeature, ReadsFeature,
         Calling
    <3> QED
      BY <1>10, <3>1, <3>2
  <2>3. PICK left \in Seq(Entry) : /\ Scoped(stack, catalog_id, collection_id, left)
                                   /\ Ahead(p, CalleeEntries \o left)
    BY <1>5, <2>1, <2>2
  <2>4. TakesOne(left)
    BY <1>10, <2>3, FeatureTakesOne, SkipEntryTakesOne
  <2>5. p + 1 \in 0..Len(entries') /\ Progress(p + 1)'
    BY <1>1, <1>2, <1>4, <2>1, <2>3, <2>4, TakingStep
  <2> QED
    BY <1>2, <2>1, <2>5, ProgressMade
<1>11. CASE CallFeature
  <2>1. /\ UNCHANGED <<row_offset, rows, entries>> /\ status = "open" /\ status' = "open"
        /\ ~LimitReached
    BY <1>11 DEF CallFeature, OnFeature, Looping, out, io
  <2>2. PICK left \in Seq(Entry) : /\ Scoped(stack, catalog_id, collection_id, left)
                                   /\ Ahead(p, CalleeEntries \o left)
    BY <1>5, <2>1
  <2>3. CASE Takes(<<>>, left)
    <3>1. p \in 0..Len(entries') /\ Progress(p)'
      BY <1>1, <1>2, <1>4, <2>1, <2>2, <2>3, QuietStep
    <3> QED
      BY <1>2, <2>1, <3>1, ProgressMade
  <2>4. CASE TakesOne(left)
    <3>1. p + 1 \in 0..Len(entries') /\ Progress(p + 1)'
      BY <1>1, <1>2, <1>4, <2>1, <2>2, <2>4, TakingStep
    <3> QED
      BY <1>2, <2>1, <3>1, ProgressMade
  <2> QED
    BY <1>11, <2>2, <2>3, <2>4, CallFeatureTakes
<1>12. CASE ReadFirstPage \/ ReadNextPage
  <2>1. /\ stack = <<>> /\ callee = NoDoc /\ status \in {"new", "open"}
        /\ UNCHANGED <<row_offset, out, rows, stack, ctx>>
    BY <1>12 DEF ReadFirstPage, ReadNextPage, BetweenPages, OrderInv, out
  <2>2. PICK req : Fetch(req)
    BY <1>12 DEF ReadFirstPage, ReadNextPage
  <2>3. LimitReached' = LimitReached
    BY <1>1, <2>1 DEF LimitReached, out, query
  <2>4. ~LimitReached => Reads(p)
    BY <1>3, <2>1 DEF Progress
  <2>5. entries' \in Seq(Entry) /\ p \in 0..Len(entries') /\ Progress(p)'
    BY <1>1, <1>2, <1>4, <2>1, <2>2, <2>3, <2>4, PageStep
  <2> QED
    BY <2>5, ProgressMade
<1>13. CASE UNCHANGED vars
  <2>1. /\ UNCHANGED <<row_offset, rows, entries, status>>
        /\ UNCHANGED <<stack, catalog_id, collection_id, callee>>
    BY <1>13 DEF vars, out, io, ctx
  <2>2. ASSUME status' \in {"new", "open"}, ~LimitReached'
        PROVE  \E left \in Seq(Entry) : Ahead(p, CalleeEntries \o left) /\ Takes(<<>>, left)
    <3>1. PICK left \in Seq(Entry) : /\ Scoped(stack, catalog_id, collection_id, left)
                                     /\ Ahead(p, CalleeEntries \o left)
      BY <1>5, <2>1, <2>2, LimitStaysReached
    <3>2. CalleeEntries' = CalleeEntries /\ CalleeEntries \in Seq(Entry)
      BY <2>1, ToEnterTyped DEF CalleeEntries, TypeOK
    <3>3. PICK all \in Seq(Entry) : all = CalleeEntries \o left
      BY <3>2, ConcatProperties
    <3>4. Takes(<<>>, left)
      BY <2>1, <3>1, <3>2, <3>3, NoEntries DEF Takes
    <3> QED
      BY <3>1, <3>4
  <2>3. ASSUME status' = "done", ~LimitReached'
        PROVE  p = Len(entries)
    BY <1>3, <2>1, <2>3, LimitStaysReached DEF Progress
  <2>4. p \in 0..Len(entries') /\ Progress(p)'
    BY <1>1, <1>2, <1>4, <2>1, <2>2, <2>3, QuietStep
  <2> QED
    BY <1>2, <2>1, <2>4, ProgressMade
<1> QED
  BY <1>6, <1>7, <1>8, <1>9, <1>10, <1>11, <1>12, <1>13, StepCases

(* Before the first page nothing is listed and nothing is due.             *)
LEMMA OrderAtStart == Init => OrderInv
<1> SUFFICES ASSUME Init PROVE OrderInv
  OBVIOUS
<1>1. /\ entries = <<>> /\ rows = <<>> /\ row_count = 0 /\ row_offset = offset
      /\ stack = <<>> /\ callee = NoDoc /\ status = "new"
      /\ catalog_id = "" /\ collection_id = ""
  BY DEF Init
<1>2. entries \in Seq(Entry) /\ Len(entries) = 0 /\ Len(rows) = 0 /\ Len(stack) = 0
  BY <1>1, EmptySeq
<1>3. offset \in Nat
  BY TypedAtStart DEF TypeOK
<1>4. {q \in 1..0 : Counted(entries[q])} = {} /\ DueUpTo(0) = {}
  BY DEF DueUpTo
<1>5. Rank(0) = 0 /\ Cardinality(DueUpTo(0)) = 0
  BY <1>4, FS_EmptySet DEF Rank
<1>6. RowsUpTo(0)
  <2>1. row_offset = IF Rank(0) >= offset THEN 0 ELSE offset - Rank(0)
    <3>1. row_offset = offset
      BY <1>1
    <3>2. PICK n \in Nat : n = offset
      BY <1>3
    <3>3. IF 0 >= n THEN n = 0 ELSE n = n - 0
      OBVIOUS
    <3> QED
      BY <1>5, <3>1, <3>2, <3>3
  <2> QED
    BY <1>2, <1>5, <2>1 DEF RowsUpTo
<1>7. Reads(0)
  <2>1. PICK outer \in Ids : outer = ""
    BY DEF Ids
  <2>2. PICK w : w = [k \in 0..0 |-> Outermost]
    OBVIOUS
  <2>3. Outermost \in Scope
    <3>1. Outermost = [cat |-> outer, coll |-> outer, left |-> <<>>]
      BY <2>1 DEF Outermost
    <3> QED
      BY <3>1, NoEntries DEF Scope
  <2>4. Unwinds(stack, w) /\ w[0] = Outermost
    BY <1>2, <2>2, <2>3 DEF Unwinds
  <2>5. Outermost.cat = "" /\ Outermost.coll = ""
    BY DEF Outermost
  <2>6. Outermost.left = <<>>
    BY DEF Outermost
  <2>7. Scoped(stack, catalog_id, collection_id, <<>>)
    BY <1>1, <1>2, <2>4, <2>5, <2>6 DEF Scoped
  <2>8. CalleeEntries = <<>> /\ <<>> \in Seq(Entry)
    BY <1>1, EmptySeq DEF CalleeEntries, ToEnter
  <2>9. CalleeEntries \o <<>> = <<>>
    BY <2>8, NoEntries
  <2>10. Ahead(0, <<>>)
    <3>1. Len(<<>>) = 0 /\ Len(entries) = 0
      BY <1>2
    <3>2. \A i \in 1..0 : entries[0 + i] = <<>>[i]
      OBVIOUS
    <3> QED
      BY <3>1, <3>2 DEF Ahead
  <2> QED
    BY <2>7, <2>8, <2>9, <2>10 DEF Reads
<1>8. Progress(0)
  BY <1>1, <1>6, <1>7 DEF Progress
<1>9. InProgress
  BY <1>2, <1>8 DEF InProgress
<1> QED
  <2>1. row_count = Len(rows) /\ ~(row_count > 0)
    <3>1. row_count = 0 /\ Len(rows) = 0
      BY <1>1, <1>2
    <3> QED
      BY ONLY <3>1
  <2>2. stack = <<>> /\ callee = NoDoc
    BY <1>1
  <2> QED
    BY <1>2, <1>9, <2>1, <2>2 DEF OrderInv

(* The rows of a query are the items of its pages in reading order, none   *)
(* missing and none twice, from OFFSET on and up to LIMIT, and with the    *)
(* ids of the Catalog and the Collection they are in.                      *)
THEOREM RowsComeInOrder == Spec => []RowsInOrder
<1>1. TypeOK /\ OrderInv /\ [Next]_vars => OrderInv'
  BY OrderStep
<1>2. OrderInv => RowsInOrder
  <2> SUFFICES ASSUME OrderInv PROVE RowsInOrder
    OBVIOUS
  <2>1. entries \in Seq(Entry)
    BY DEF OrderInv
  <2>2. PICK n \in Nat : n = Len(entries)
    BY <2>1, LenProperties
  <2>3. PICK p \in 0..n : Progress(p)
    BY <2>2 DEF OrderInv, InProgress
  <2>4. RowsUpTo(p)
    BY <2>3 DEF Progress
  <2>5. \A q \in 1..p : q \in 1..n
    OBVIOUS
  <2>6. \A q \in DueUpTo(p) : q \in DueUpTo(n)
    BY <2>5 DEF DueUpTo
  <2>7. \A i \in 1..Len(rows) :
          \E q \in DueUpTo(n) : rows[i] = entries[q] /\ Cardinality(DueUpTo(q)) = i
    BY <2>4, <2>6 DEF RowsUpTo
  <2>8. ASSUME status \in {"open", "done"}, callee = NoDoc, stack = <<>>, ~LimitReached
        PROVE  Len(rows) = Cardinality(DueUpTo(n))
    <3>1. p = n
      <4>1. CASE status = "done"
        BY <2>2, <2>3, <2>8, <4>1 DEF Progress
      <4>2. CASE status = "open"
        <5>1. PICK left \in Seq(Entry) : /\ Scoped(stack, catalog_id, collection_id, left)
                                         /\ Ahead(p, CalleeEntries \o left)
          BY <2>3, <2>8, <4>2 DEF Progress, Reads
        <5>2. left = <<>> /\ CalleeEntries = <<>>
          BY <2>8, <5>1, NothingOpen
        <5>3. Ahead(p, <<>>)
          BY <5>1, <5>2, NoEntries
        <5>4. Len(<<>>) = 0 /\ p \in Nat
          OBVIOUS
        <5> QED
          BY <2>2, <5>3, <5>4 DEF Ahead
      <4> QED
        BY <2>8, <4>1, <4>2
    <3> QED
      BY <2>4, <3>1 DEF RowsUpTo
  <2> QED
    BY <2>2, <2>7, <2>8 DEF RowsInOrder
<1> QED
  BY <1>1, <1>2, OrderAtStart, TypeInvariant, PTL DEF Spec

(***************************************************************************)
(* The pages.                                                              *)
(***************************************************************************)
Held == [href |-> next.href, body |-> next.body]

(* The slot after a document has been read, and after an open call has     *)
(* read what it has not read yet.                                          *)
AfterName(name, slot) == IF name = NoDoc THEN slot ELSE NextOf(name, slot)

AfterCall(f, slot) == NextAfter(f.doc, IF f.at = "links" THEN f.i ELSE 1, slot)

AtLink(f) == f.at = "links" => f.i <= Len(Doc[f.doc].links) + 1

(* The open calls return one after the other, the innermost first.         *)
Winds(calls, slot, end) ==
  \E w : /\ w \in [0..Len(calls) -> Slot]
         /\ w[Len(calls)] = slot /\ w[0] = end
         /\ \A k \in 1..Len(calls) : AtLink(calls[k]) /\ w[k - 1] = AfterCall(calls[k], w[k])

(* The pages yet to come are those behind the slot that the calls end with.*)
PagesAhead ==
  \E end \in Slot :
    Winds(stack, AfterName(callee, Held), end) /\ AllEntries = entries \o LaterPages(end)

NoPageAfterLimit == LimitReached /\ next.href = NoHref

PageInv ==
  /\ Held \in Slot
  /\ entries \in Seq(Entry)
  /\ status = "new" => stack = <<>> /\ callee = NoDoc /\ entries = <<>>
                       /\ next.href = NoHref /\ next.body = {}
  /\ \E later \in Seq(Entry) : AllEntries = entries \o later
  /\ status = "open" => NoPageAfterLimit \/ PagesAhead
  /\ status = "done" /\ ~LimitReached => entries = AllEntries

(* The slot is a slot, whatever is read.                                   *)
LEMMA NextUnfolds ==
  ASSUME NEW n \in DOMAIN Doc, NEW slot \in Slot, NEW i \in 1..(Len(Doc[n].links) + 1)
  PROVE  /\ NextAfter(n, i, slot) \in Slot
         /\ NextAfter(n, i, slot) =
              IF i > Len(Doc[n].links) THEN slot
              ELSE NextAfter(n, i + 1, NextByLink(Doc[n].links[i], slot))
  BY PagesAssumption DEF PagesAssumption

LEMMA LaterUnfolds ==
  ASSUME NEW slot \in Slot
  PROVE  /\ LaterPages(slot) \in Seq(Entry)
         /\ LaterPages(slot) = IF slot.href = NoHref THEN <<>>
                               ELSE PagesFrom(<<slot.href, slot.body>>, slot.body)
  BY PagesAssumption DEF PagesAssumption

LEMMA NextOfTyped ==
  ASSUME NEW n \in DOMAIN Doc, NEW slot \in Slot
  PROVE  NextOf(n, slot) \in Slot
<1>1. 1 \in 1..(Len(Doc[n].links) + 1)
  BY DocFields
<1>2. NextAfter(n, 1, slot) \in Slot
  BY <1>1, NextUnfolds
<1> QED
  BY <1>2 DEF NextOf

LEMMA AfterNameTyped ==
  ASSUME NEW n \in DOMAIN Doc \cup {NoDoc}, NEW slot \in Slot
  PROVE  AfterName(n, slot) \in Slot
  BY NextOfTyped DEF AfterName

LEMMA NamedByTyped ==
  ASSUME NEW l \in LinkObject, NEW slot \in Slot
  PROVE  NamedBy(l, slot) \in Slot
  BY DEF NamedBy, Slot

(* The open calls and the innermost one: which stands at a place of its    *)
(* document.                                                               *)
LEMMA TopWinds ==
  ASSUME TypeOK, stack # <<>>, NEW slot \in Slot, NEW end \in Slot, Winds(stack, slot, end)
  PROVE  /\ AtLink(Top) /\ AfterCall(Top, slot) \in Slot
         /\ Winds(SubSeq(stack, 1, Len(stack) - 1), AfterCall(Top, slot), end)
<1>1. /\ Len(stack) \in Nat \ {0}
      /\ Len(SubSeq(stack, 1, Len(stack) - 1)) = Len(stack) - 1
      /\ \A k \in 1..(Len(stack) - 1) : SubSeq(stack, 1, Len(stack) - 1)[k] = stack[k]
  BY TopIsFrame DEF TypeOK
<1>2. PICK m \in Nat : m = Len(stack) - 1 /\ Len(stack) = m + 1
  BY <1>1
<1>3. PICK w \in [0..(m + 1) -> Slot] :
        /\ w[m + 1] = slot /\ w[0] = end
        /\ \A k \in 1..(m + 1) : AtLink(stack[k]) /\ w[k - 1] = AfterCall(stack[k], w[k])
  BY <1>2 DEF Winds
<1>4. m + 1 \in 1..(m + 1) /\ (m + 1) - 1 = m /\ m \in 0..(m + 1)
  OBVIOUS
<1>5. AtLink(Top) /\ w[m] = AfterCall(Top, slot)
  BY <1>2, <1>3, <1>4 DEF Top
<1>6. w[m] \in Slot
  BY <1>3, <1>4
<1>7. PICK v \in [0..m -> Slot] : \A k \in 0..m : v[k] = w[k]
  <2>1. \A k \in 0..m : k \in 0..(m + 1)
    OBVIOUS
  <2>2. [k \in 0..m |-> w[k]] \in [0..m -> Slot]
    BY <1>3, <2>1
  <2> QED
    BY <2>2
<1>8. \A k \in 1..m : /\ AtLink(stack[k]) /\ v[k - 1] = AfterCall(stack[k], v[k])
  <2>1. \A k \in 1..m : k \in 1..(m + 1) /\ k - 1 \in 0..m /\ k \in 0..m
    OBVIOUS
  <2> QED
    BY <1>3, <1>7, <2>1
<1>9. v[m] = w[m] /\ v[0] = end
  BY <1>3, <1>7
<1>10. Winds(SubSeq(stack, 1, Len(stack) - 1), w[m], end)
  BY <1>1, <1>2, <1>7, <1>8, <1>9 DEF Winds
<1> QED
  BY <1>5, <1>6, <1>10

(* Open calls that agree below the innermost, which may have moved on.     *)
LEMMA WindsOfOneMore ==
  ASSUME NEW calls, NEW more, NEW m \in Nat, Len(calls) = m, Len(more) = m + 1,
         \A k \in 1..m : more[k] = calls[k],
         NEW slot \in Slot, NEW end \in Slot, AtLink(more[m + 1]),
         Winds(calls, AfterCall(more[m + 1], slot), end)
  PROVE  Winds(more, slot, end)
<1>1. PICK w \in [0..m -> Slot] :
        /\ w[m] = AfterCall(more[m + 1], slot) /\ w[0] = end
        /\ \A k \in 1..m : AtLink(calls[k]) /\ w[k - 1] = AfterCall(calls[k], w[k])
  BY DEF Winds
<1>2. PICK v \in [0..(m + 1) -> Slot] : v[m + 1] = slot /\ \A k \in 0..m : v[k] = w[k]
  <2>1. PICK v : v = [k \in 0..(m + 1) |-> IF k = m + 1 THEN slot ELSE w[k]]
    OBVIOUS
  <2>2. \A k \in 0..(m + 1) : k # m + 1 => k \in 0..m
    OBVIOUS
  <2>3. v \in [0..(m + 1) -> Slot]
    BY <1>1, <2>1, <2>2
  <2>4. \A k \in 0..m : k \in 0..(m + 1) /\ k # m + 1
    OBVIOUS
  <2>5. \A k \in 0..m : v[k] = w[k]
    BY <2>1, <2>4
  <2>6. v[m + 1] = slot
    BY <2>1
  <2> QED
    BY <2>3, <2>5, <2>6
<1>3. ASSUME NEW k \in 1..(m + 1)
      PROVE  AtLink(more[k]) /\ v[k - 1] = AfterCall(more[k], v[k])
  <2>1. CASE k = m + 1
    <3>1. k - 1 = m /\ m \in 0..m
      BY <2>1
    <3> QED
      BY <1>1, <1>2, <2>1, <3>1
  <2>2. CASE k # m + 1
    <3>1. k \in 1..m /\ k - 1 \in 0..m /\ k \in 0..m
      BY <2>2
    <3> QED
      BY <1>1, <1>2, <3>1
  <2> QED
    BY <2>1, <2>2
<1>4. v[0] = end
  BY <1>1, <1>2
<1> QED
  BY <1>2, <1>3, <1>4 DEF Winds

(* The innermost call moves on, and the slot with it, so that what it will *)
(* leave in the slot is the same.                                          *)
LEMMA TopWindsOn ==
  ASSUME TypeOK, stack # <<>>, NEW f \in CallFrame, AtLink(f),
         stack' = [stack EXCEPT ![Len(stack)] = f],
         NEW slot \in Slot, NEW after \in Slot, NEW end \in Slot,
         AfterCall(f, after) = AfterCall(Top, slot), Winds(stack, slot, end)
  PROVE  Winds(stack', after, end)
<1>1. /\ Len(stack) \in Nat \ {0} /\ stack \in Seq(CallFrame)
      /\ Len(SubSeq(stack, 1, Len(stack) - 1)) = Len(stack) - 1
      /\ \A k \in 1..(Len(stack) - 1) : SubSeq(stack, 1, Len(stack) - 1)[k] = stack[k]
  BY TopIsFrame DEF TypeOK
<1>2. PICK m \in Nat : m = Len(stack) - 1 /\ Len(stack) = m + 1
  BY <1>1
<1>3. /\ Len(stack') = Len(stack)
      /\ \A k \in 1..Len(stack) : stack'[k] = IF k = Len(stack) THEN f ELSE stack[k]
  BY <1>1, ExceptSeq
<1>4. \A k \in 1..m : k \in 1..(m + 1) /\ k # m + 1
  OBVIOUS
<1>5. PICK below : /\ Len(below) = m /\ \A k \in 1..m : below[k] = stack[k]
                   /\ Winds(below, AfterCall(f, after), end)
  <2>1. Winds(SubSeq(stack, 1, Len(stack) - 1), AfterCall(f, after), end)
    BY TopWinds
  <2> QED
    BY <1>1, <1>2, <2>1
<1>6. PICK calls : calls = stack'
  OBVIOUS
<1>7. /\ Len(calls) = m + 1 /\ calls[m + 1] = f
      /\ \A k \in 1..m : calls[k] = below[k]
  BY <1>1, <1>2, <1>3, <1>4, <1>5, <1>6
<1>8. Winds(calls, after, end)
  BY <1>5, <1>7, WindsOfOneMore
<1> QED
  BY <1>6, <1>8

(* The loop over features has no bearing on the slot.                      *)
LEMMA FeatureWinds ==
  ASSUME TypeOK, OnFeature, Advance, NEW slot \in Slot, NEW end \in Slot,
         Winds(stack, slot, end)
  PROVE  Winds(stack', slot, end)
<1>1. stack # <<>> /\ Top.at = "features"
  BY DEF OnFeature, Looping
<1>2. Top \in CallFrame
  BY <1>1, TopIsFrame DEF TypeOK
<1>3. PICK f \in CallFrame : f = [Top EXCEPT !.i = Top.i + 1]
  BY <1>2, FrameMoves
<1>4. f.doc = Top.doc /\ f.at = "features"
  BY <1>1, <1>2, <1>3, FrameMoves
<1>5. stack' = [stack EXCEPT ![Len(stack)] = f]
  BY <1>3 DEF Advance, Top
<1>6. AtLink(f) /\ AfterCall(f, slot) = AfterCall(Top, slot)
  BY <1>1, <1>4 DEF AtLink, AfterCall
<1> QED
  BY <1>1, <1>5, <1>6, TopWindsOn

(* The loop over links leaves in the slot what the link does.              *)
LEMMA LinkWinds ==
  ASSUME TypeOK, OnLink, Advance, NEW slot \in Slot, NEW after \in Slot, NEW end \in Slot,
         after = NextByLink(Link, slot), Winds(stack, slot, end)
  PROVE  Winds(stack', after, end)
<1>1. stack # <<>> /\ Top.at = "links" /\ Top.i <= Len(Links)
  BY DEF OnLink, Looping
<1>2. Top \in CallFrame
  BY <1>1, TopIsFrame DEF TypeOK
<1>3. PICK n \in DOMAIN Doc, i \in Nat \ {0} : n = Top.doc /\ i = Top.i
  BY <1>2 DEF CallFrame
<1>4. PICK f \in CallFrame : f = [Top EXCEPT !.i = Top.i + 1]
  BY <1>2, FrameMoves
<1>5. f.doc = n /\ f.at = "links" /\ f.i = i + 1
  BY <1>1, <1>2, <1>3, <1>4, FrameMoves DEF CallFrame
<1>6. stack' = [stack EXCEPT ![Len(stack)] = f]
  BY <1>4 DEF Advance, Top
<1>7. PICK size \in Nat : size = Len(Doc[n].links)
  BY DocFields
<1>8. i <= size
  BY <1>1, <1>3, <1>7 DEF Links
<1>9. i \in 1..(size + 1) /\ ~(i > size) /\ i + 1 <= size + 1
  BY <1>8
<1>10. NextAfter(n, i, slot) = NextAfter(n, i + 1, NextByLink(Doc[n].links[i], slot))
  BY <1>7, <1>9, NextUnfolds
<1>11. AtLink(f)
  BY <1>5, <1>7, <1>9 DEF AtLink
<1>12. Link = Doc[n].links[i]
  BY <1>3 DEF Link, Links
<1>13. AfterCall(f, after) = AfterCall(Top, slot)
  BY <1>1, <1>3, <1>5, <1>10, <1>12 DEF AfterCall
<1> QED
  BY <1>1, <1>6, <1>11, <1>13, TopWindsOn

(* The links follow the features.                                          *)
LEMMA TurningWinds ==
  ASSUME TypeOK, EndFeatures, NEW slot \in Slot, NEW end \in Slot, Winds(stack, slot, end)
  PROVE  Winds(stack', slot, end)
<1>1. stack # <<>> /\ Top.at = "features"
  BY DEF EndFeatures, Looping
<1>2. Top \in CallFrame
  BY <1>1, TopIsFrame DEF TypeOK
<1>3. PICK n \in DOMAIN Doc : n = Top.doc
  BY <1>2 DEF CallFrame
<1>4. PICK f \in CallFrame : f = [Top EXCEPT !.at = "links", !.i = 1]
  BY <1>2, FrameMoves
<1>5. f.doc = n /\ f.at = "links" /\ f.i = 1
  BY <1>2, <1>3, <1>4, FrameMoves DEF CallFrame
<1>6. stack' = [stack EXCEPT ![Len(stack)] = f]
  BY <1>4 DEF EndFeatures, Top
<1>7. AtLink(f)
  BY <1>5, DocFields DEF AtLink
<1>8. AfterCall(f, slot) = AfterCall(Top, slot)
  BY <1>1, <1>3, <1>5 DEF AfterCall
<1> QED
  BY <1>1, <1>6, <1>7, <1>8, TopWindsOn

(* A call that has read its links returns and leaves the slot as it is.    *)
LEMMA ReturningWinds ==
  ASSUME TypeOK, EndLinks, NEW slot \in Slot, NEW end \in Slot, Winds(stack, slot, end)
  PROVE  Winds(stack', slot, end)
<1>1. /\ stack # <<>> /\ Top.at = "links" /\ Top.i > Len(Links)
      /\ stack' = SubSeq(stack, 1, Len(stack) - 1)
  BY DEF EndLinks, Looping, Return
<1>2. Top \in CallFrame
  BY <1>1, TopIsFrame DEF TypeOK
<1>3. PICK n \in DOMAIN Doc, i \in Nat \ {0} : n = Top.doc /\ i = Top.i
  BY <1>2 DEF CallFrame
<1>4. PICK size \in Nat : size = Len(Doc[n].links)
  BY DocFields
<1>5. AtLink(Top) /\ Winds(stack', AfterCall(Top, slot), end)
  BY <1>1, TopWinds
<1>6. i > size /\ i <= size + 1
  BY <1>1, <1>3, <1>4, <1>5 DEF AtLink, Links
<1>7. i \in 1..(size + 1)
  BY <1>6
<1>8. NextAfter(n, i, slot) = slot
  BY <1>4, <1>6, <1>7, NextUnfolds
<1>9. AfterCall(Top, slot) = slot
  BY <1>1, <1>3, <1>8 DEF AfterCall
<1> QED
  BY <1>5, <1>9

(* A call opened for a document ends as the document does.                 *)
LEMMA EnteringWinds ==
  ASSUME TypeOK, EnterCatalog \/ EnterCollection \/ EnterFeatureCollection,
         NEW slot \in Slot, NEW end \in Slot, Winds(stack, NextOf(callee, slot), end)
  PROVE  Winds(stack', slot, end)
<1>1. PICK f : /\ stack' = Append(stack, f) /\ f.doc = callee /\ f.i = 1
               /\ f.at \in {"links", "features"}
  <2>1. \A at \in {"links", "features"} : \A saved :
          /\ Frame(at, saved).doc = callee /\ Frame(at, saved).i = 1
          /\ Frame(at, saved).at = at
    BY DEF Frame
  <2>2. \E at \in {"links", "features"} : \E saved : stack' = Append(stack, Frame(at, saved))
    BY DEF EnterCatalog, EnterCollection, EnterFeatureCollection
  <2> QED
    BY <2>1, <2>2
<1>2. callee \in DOMAIN Doc
  BY DEF EnterCatalog, EnterCollection, EnterFeatureCollection, Calling, TypeOK
<1>3. Doc[callee].type \in {"Catalog", "Collection", "FeatureCollection"}
  BY DEF EnterCatalog, EnterCollection, EnterFeatureCollection, Calling
<1>4. AtLink(f)
  BY <1>1, <1>2, DocFields DEF AtLink
<1>5. AfterCall(f, slot) = NextOf(callee, slot)
  BY <1>1, <1>3 DEF AfterCall, NextOf
<1>6. stack \in Seq(CallFrame)
  BY DEF TypeOK
<1>7. PICK m \in Nat : m = Len(stack)
  BY <1>6, LenProperties
<1>8. /\ Len(stack') = m + 1 /\ stack'[m + 1] = f
      /\ \A k \in 1..m : stack'[k] = stack[k]
  BY <1>1, <1>6, <1>7
<1> QED
  BY <1>4, <1>5, <1>7, <1>8, WindsOfOneMore

(* Documents other than a listing of links name no next page.              *)
LEMMA LeafKeepsSlot ==
  ASSUME NEW n, Doc[n].type \in {"Feature", "Other", NoType}, NEW slot
  PROVE  NextOf(n, slot) = slot
<1>1. NoType \notin {"Catalog", "Collection", "FeatureCollection"}
  BY ReaderAssumption DEF ReaderAssumption, Known
<1> QED
  BY <1>1 DEF NextOf

(* A step of the reader within a page leaves the slot that the open calls  *)
(* will end with.                                                          *)
WindsOn == \A end \in Slot : Winds(stack, AfterName(callee, Held), end)
                             => Winds(stack', AfterName(callee', Held'), end)

LEMMA LeafWindsOn ==
  ASSUME TypeOK, Held \in Slot,
         IgnoreOther \/ SkipFeature \/ RejectFeature \/ SkipMatchingFeature \/ KeepFeature
  PROVE  WindsOn
<1>1. /\ callee # NoDoc /\ Doc[callee].type \in {"Feature", "Other", NoType}
      /\ callee' = NoDoc /\ stack' = stack /\ next' = next
  BY DEF IgnoreOther, SkipFeature, RejectFeature, SkipMatchingFeature, KeepFeature, ReadsFeature,
     Calling
<1>2. AfterName(callee, Held) = Held /\ AfterName(callee', Held') = Held
  BY <1>1, LeafKeepsSlot DEF AfterName, Held
<1> QED
  BY <1>1, <1>2 DEF WindsOn

LEMMA EnteringWindsOn ==
  ASSUME TypeOK, Held \in Slot, EnterCatalog \/ EnterCollection \/ EnterFeatureCollection
  PROVE  WindsOn
<1>1. callee # NoDoc /\ callee' = NoDoc /\ next' = next
  BY DEF EnterCatalog, EnterCollection, EnterFeatureCollection, Calling
<1>2. AfterName(callee, Held) = NextOf(callee, Held) /\ AfterName(callee', Held') = Held
  BY <1>1 DEF AfterName, Held
<1> QED
  BY <1>2, EnteringWinds DEF WindsOn

LEMMA FeatureWindsOn ==
  ASSUME TypeOK, Held \in Slot, SkipEntry \/ CallFeature
  PROVE  WindsOn
<1>1. OnFeature /\ Advance /\ next' = next /\ callee = NoDoc /\ stack # <<>>
  BY DEF SkipEntry, CallFeature, OnFeature, Looping
<1>2. callee' = NoDoc \/ (callee' # NoDoc /\ Doc[callee'].type \in {"Feature", "Other", NoType})
  <2>1. CASE SkipEntry
    BY <1>1, <2>1 DEF SkipEntry
  <2>2. CASE CallFeature
    <3>1. PICK n \in DOMAIN Doc, i \in Nat \ {0} : n = Top.doc /\ i = Top.i
      BY <1>1, TopIsFrame DEF TypeOK, CallFrame
    <3>2. i \in 1..Len(Doc[n].features) /\ Features[Top.i] = Doc[n].features[i]
      BY <1>1, <3>1, DocFields DEF OnFeature, Features
    <3>3. i \in DOMAIN Doc[n].features
      BY <3>2, DocFields
    <3>4. Features[Top.i] = NotObject
          \/ Doc[Features[Top.i]].type \in {"Feature", "Other", NoType}
      BY <3>2, <3>3, ReadingAssumption DEF ReadingAssumption
    <3> QED
      BY <2>2, <3>4 DEF CallFeature
  <2> QED
    BY <2>1, <2>2
<1>3. AfterName(callee, Held) = Held /\ AfterName(callee', Held') = Held
  BY <1>1, <1>2, LeafKeepsSlot DEF AfterName, Held
<1> QED
  BY <1>1, <1>3, FeatureWinds DEF WindsOn

LEMMA TurningWindsOn ==
  ASSUME TypeOK, Held \in Slot, EndFeatures \/ EndLinks
  PROVE  WindsOn
<1>1. callee = NoDoc /\ callee' = NoDoc /\ next' = next
  BY DEF EndFeatures, EndLinks, Looping
<1>2. AfterName(callee, Held) = Held /\ AfterName(callee', Held') = Held
  BY <1>1 DEF AfterName, Held
<1> QED
  BY <1>2, TurningWinds, ReturningWinds DEF WindsOn

LEMMA LinkWindsOn ==
  ASSUME TypeOK, Held \in Slot, SkipLink \/ StoreNextLink \/ (FollowLink /\ status' = "open")
  PROVE  Held' \in Slot /\ WindsOn
<1>1. OnLink /\ Advance /\ callee = NoDoc /\ stack # <<>>
  BY DEF SkipLink, StoreNextLink, FollowLink, OnLink, Looping
<1>2. Link \in LinkObject \cup {NotObject}
  BY <1>1, EntriesTyped
<1>3. Held' \in Slot /\ AfterName(callee', Held') \in Slot
      /\ AfterName(callee', Held') = NextByLink(Link, Held)
  <2>1. CASE SkipLink
    <3>1. next' = next /\ callee' = NoDoc
      BY <1>1, <2>1 DEF SkipLink
    <3>2. AfterName(callee', Held') = Held /\ Held' = Held
      BY <3>1 DEF AfterName, Held
    <3>3. NextByLink(Link, Held) = Held
      BY <2>1 DEF SkipLink, NextByLink, Followed
    <3> QED
      BY <3>2, <3>3
  <2>2. CASE StoreNextLink
    <3>1. /\ callee' = NoDoc /\ next' = RecordNext(Link)
          /\ Link # NotObject /\ Link.href # NoHref /\ Link.rel = "next"
      BY <1>1, <2>2 DEF StoreNextLink, Readable
    <3>2. Held' = NamedBy(Link, Held)
      <4>1. /\ next'.href = Link.href
            /\ next'.body = IF Link.body # {} THEN Link.body
                            ELSE IF Link.merge THEN next.body ELSE {}
        BY <3>1 DEF RecordNext
      <4> QED
        BY <4>1 DEF Held, NamedBy
    <3>3. NextByLink(Link, Held) = NamedBy(Link, Held)
      BY <3>1 DEF NextByLink
    <3>4. NamedBy(Link, Held) \in Slot
      BY <1>2, <3>1, NamedByTyped
    <3> QED
      BY <3>1, <3>2, <3>3, <3>4 DEF AfterName
  <2>3. CASE FollowLink /\ status' = "open"
    <3>1. /\ Fetch(CatalogRequest(Link.href, {})) /\ next' = next
          /\ Link # NotObject /\ Link.href # NoHref /\ NeedConsumeLink(Link.rel)
      BY <2>3 DEF FollowLink, Readable
    <3>2. /\ CatalogRequest(Link.href, {}).href = Link.href
          /\ CatalogRequest(Link.href, {}).body = {}
      BY DEF CatalogRequest
    <3>3. <<Link.href, {}>> \in DOMAIN Serve /\ callee' = Serve[<<Link.href, {}>>]
      BY <2>3, <3>1, <3>2 DEF Fetch
    <3>4. callee' \in DOMAIN Doc /\ callee' # NoDoc
      BY <3>3, ReaderAssumption DEF ReaderAssumption
    <3>5. Held' = Held
      BY <3>1 DEF Held
    <3>6. AfterName(callee', Held') = NextOf(callee', Held)
      BY <3>4, <3>5 DEF AfterName
    <3>7. NextByLink(Link, Held) = NextOf(callee', Held)
      BY <3>1, <3>3 DEF NextByLink, Followed, NeedConsumeLink
    <3>8. NextOf(callee', Held) \in Slot
      BY <3>4, NextOfTyped
    <3> QED
      BY <3>5, <3>6, <3>7, <3>8
  <2> QED
    BY <2>1, <2>2, <2>3
<1>4. AfterName(callee, Held) = Held
  BY <1>1 DEF AfterName
<1> QED
  BY <1>1, <1>3, <1>4, LinkWinds DEF WindsOn

(* Every step but those that ask for a page.                               *)
LEMMA StepInPage ==
  ASSUME TypeOK, Held \in Slot, entries \in Seq(Entry), [Next]_vars, status = "open",
         ~ReadNextPage
  PROVE  /\ entries' = entries /\ Held' \in Slot
         /\ status' = "open" => WindsOn \/ NoPageAfterLimit'
<1>1. CASE ReturnAtLimit \/ StopFeatures \/ StopLinks
  <2>1. /\ LimitReached /\ next' = [next EXCEPT !.href = NoHref]
        /\ UNCHANGED <<query, row_count, entries>>
    BY <1>1 DEF ReturnAtLimit, StopFeatures, StopLinks, out, io
  <2>2. next'.href = NoHref /\ next'.body = next.body
    BY <2>1, ForgetHref
  <2>3. LimitReached'
    BY <2>1 DEF LimitReached, query
  <2>4. Held' \in Slot
    BY <2>2 DEF Held, Slot
  <2> QED
    BY <2>1, <2>2, <2>3, <2>4 DEF NoPageAfterLimit
<1>2. CASE NoMorePages \/ MissingType \/ InvalidFeature \/ RefuseNextLink
  <2>1. next' = next /\ entries' = entries /\ status' # "open"
    BY <1>2 DEF NoMorePages, MissingType, InvalidFeature, RefuseNextLink, Throw, io
  <2> QED
    BY <2>1 DEF Held
<1>3. CASE IgnoreOther \/ SkipFeature \/ RejectFeature \/ SkipMatchingFeature \/ KeepFeature
  <2>1. next' = next /\ entries' = entries
    BY <1>3 DEF IgnoreOther, SkipFeature, RejectFeature, SkipMatchingFeature, KeepFeature, io
  <2> QED
    BY <1>3, <2>1, LeafWindsOn DEF Held
<1>4. CASE EnterCatalog \/ EnterCollection \/ EnterFeatureCollection
  <2>1. next' = next /\ entries' = entries
    BY <1>4 DEF EnterCatalog, EnterCollection, EnterFeatureCollection, io
  <2> QED
    BY <1>4, <2>1, EnteringWindsOn DEF Held
<1>5. CASE SkipEntry \/ CallFeature
  <2>1. next' = next /\ entries' = entries
    BY <1>5 DEF SkipEntry, CallFeature, io
  <2> QED
    BY <1>5, <2>1, FeatureWindsOn DEF Held
<1>6. CASE EndFeatures \/ EndLinks
  <2>1. next' = next /\ entries' = entries
    BY <1>6 DEF EndFeatures, EndLinks, io
  <2> QED
    BY <1>6, <2>1, TurningWindsOn DEF Held
<1>7. CASE SkipLink \/ StoreNextLink
  <2>1. entries' = entries
    BY <1>7 DEF SkipLink, StoreNextLink, io
  <2> QED
    BY <1>7, <2>1, LinkWindsOn
<1>8. CASE FollowLink
  <2>1. /\ next' = next /\ stack # <<>> /\ status' \in {"open", "failed"}
        /\ entries' = entries \o PageEntries(callee')
    BY <1>8 DEF FollowLink, OnLink, Looping, Fetch
  <2>2. entries' = entries
    BY <2>1, NoEntries DEF PageEntries
  <2>3. Held' \in Slot
    BY <2>1 DEF Held
  <2> QED
    BY <1>8, <2>2, <2>3, LinkWindsOn
<1>9. CASE UNCHANGED vars
  <2>1. next' = next /\ entries' = entries /\ stack' = stack /\ callee' = callee
    BY <1>9 DEF vars, io
  <2> QED
    BY <2>1 DEF Held, WindsOn
<1>10. ~ReadFirstPage
  BY DEF ReadFirstPage
<1> QED
  BY <1>1, <1>2, <1>3, <1>4, <1>5, <1>6, <1>7, <1>8, <1>9, <1>10, StepCases

(* A page and all later ones list entries.                                 *)
LEMMA PagesTyped ==
  ASSUME NEW q, NEW body, [href |-> NoHref, body |-> body] \in Slot
  PROVE  PagesFrom(q, body) \in Seq(Entry)
<1>1. CASE q \notin DOMAIN Serve
  BY <1>1, EmptySeq DEF PagesFrom
<1>2. CASE q \in DOMAIN Serve
  <2>1. PICK n \in DOMAIN Doc : n = Serve[q]
    BY <1>2, ReaderAssumption DEF ReaderAssumption
  <2>2. PICK outer \in Ids : outer = ""
    BY DEF Ids
  <2>3. PICK first \in Seq(Entry) : first = EntriesOf(n, "", "")
    BY <2>2, ListedTyped
  <2>4. PICK later \in Seq(Entry) : later = LaterPages(NextOf(n, [href |-> NoHref, body |-> body]))
    BY NextOfTyped, LaterUnfolds
  <2>5. first \o later \in Seq(Entry)
    BY ConcatProperties
  <2> QED
    BY <1>2, <2>1, <2>3, <2>4, <2>5 DEF PagesFrom
<1> QED
  BY <1>1, <1>2

(* A page is asked for when no call is open: it comes next, and then what  *)
(* its links name, or the request fails.                                   *)
LEMMA PageTurns ==
  ASSUME TypeOK, Held \in Slot, entries \in Seq(Entry), stack = <<>>, NEW req, Fetch(req),
         stack' = stack, AllEntries' = AllEntries,
         next'.href = NoHref, next'.body = next.body,
         AllEntries = entries \o PagesFrom(<<req.href, req.body>>, next.body)
  PROVE  /\ entries' \in Seq(Entry) /\ Held' \in Slot /\ status' \in {"open", "failed"}
         /\ \E later \in Seq(Entry) : AllEntries' = entries' \o later
         /\ status' = "open" => PagesAhead'
<1>1. PICK held \in Slot : held = [href |-> NoHref, body |-> next.body] /\ Held' = held
  BY DEF Held, Slot
<1>2. PICK rest \in Seq(Entry) : rest = PagesFrom(<<req.href, req.body>>, next.body)
  BY <1>1, PagesTyped
<1>3. CASE callee' = NoDoc /\ status' = "failed"
  <2>1. entries' = entries
    BY <1>3, NoEntries DEF Fetch, PageEntries
  <2> QED
    BY <1>1, <1>2, <1>3, <2>1
<1>4. CASE /\ <<req.href, req.body>> \in DOMAIN Serve
           /\ callee' = Serve[<<req.href, req.body>>] /\ status' = "open"
  <2>1. PICK n \in DOMAIN Doc : n = callee' /\ n # NoDoc
    BY <1>4, ReaderAssumption DEF ReaderAssumption
  <2>2. PICK outer \in Ids : outer = ""
    BY DEF Ids
  <2>3. PICK first \in Seq(Entry) : first = EntriesOf(n, "", "")
    BY <2>2, ListedTyped
  <2>4. PICK end \in Slot : end = NextOf(n, held)
    BY NextOfTyped
  <2>5. PICK later \in Seq(Entry) : later = LaterPages(end)
    BY LaterUnfolds
  <2>6. rest = first \o later
    BY <1>1, <1>2, <1>4, <2>1, <2>3, <2>4, <2>5 DEF PagesFrom
  <2>7. entries' = entries \o first
    BY <2>1, <2>3 DEF Fetch, PageEntries
  <2>8. entries' \in Seq(Entry)
    BY <2>7, ConcatProperties
  <2>9. AllEntries' = entries' \o later
    <3>1. AllEntries = entries \o (first \o later)
      BY <1>2, <2>6
    <3>2. (entries \o first) \o later = entries \o (first \o later)
      BY EntriesAssociative
    <3> QED
      BY <2>7, <3>1, <3>2
  <2>10. Winds(stack', AfterName(callee', Held'), end)
    <3>1. AfterName(callee', Held') = end
      BY <1>1, <2>1, <2>4 DEF AfterName
    <3>2. PICK w : w = [k \in 0..0 |-> end]
      OBVIOUS
    <3>3. w \in [0..0 -> Slot] /\ w[0] = end
      BY <3>2
    <3>4. Len(stack') = 0
      OBVIOUS
    <3> QED
      BY <3>1, <3>3, <3>4 DEF Winds
  <2>11. PagesAhead'
    BY <2>5, <2>9, <2>10 DEF PagesAhead
  <2> QED
    BY <1>1, <1>4, <2>8, <2>9, <2>11
<1> QED
  BY <1>3, <1>4 DEF Fetch

(* What all pages list does not depend on the state of the reader.         *)
LEMMA AllEntriesStay ==
  ASSUME [Next]_vars
  PROVE  AllEntries' = AllEntries
<1>1. UNCHANGED query
  BY StepCases DEF ReadFirstPage, ReadNextPage, NoMorePages, ReturnAtLimit, MissingType,
     IgnoreOther, EnterCatalog, EnterCollection, EnterFeatureCollection, SkipFeature,
     InvalidFeature, RejectFeature, SkipMatchingFeature, KeepFeature, SkipEntry, StopFeatures,
     CallFeature, EndFeatures, StopLinks, EndLinks, SkipLink, StoreNextLink, RefuseNextLink,
     FollowLink, Throw, vars
<1> QED
  BY <1>1 DEF query, AllEntries

LEMMA NoPageStays ==
  ASSUME TypeOK, [Next]_vars, NoPageAfterLimit
  PROVE  NoPageAfterLimit'
<1>1. LimitReached'
  <2>1. row_limit' = row_limit /\ row_limit \in Nat /\ row_count \in Nat
    BY OffsetStaysTyped DEF query, TypeOK
  <2>2. row_count' = row_count \/ row_count' = row_count + 1
    BY RowSteps DEF out
  <2> QED
    BY <2>1, <2>2 DEF NoPageAfterLimit, LimitReached
<1>2. ~StoreNextLink
  BY DEF NoPageAfterLimit, StoreNextLink, Readable
<1>3. next'.href = NoHref
  BY <1>2, NextSteps, ForgetHref DEF NoPageAfterLimit
<1> QED
  BY <1>1, <1>3 DEF NoPageAfterLimit

(* No call is open and the slot is empty: all pages have come.             *)
LEMMA NothingAhead ==
  ASSUME TypeOK, entries \in Seq(Entry), PagesAhead, stack = <<>>, callee = NoDoc
  PROVE  /\ Held \in Slot
         /\ AllEntries = entries \o LaterPages(Held)
<1>1. PICK end \in Slot :
        Winds(stack, AfterName(callee, Held), end) /\ AllEntries = entries \o LaterPages(end)
  BY DEF PagesAhead
<1>2. PICK w : w[Len(stack)] = AfterName(callee, Held) /\ w[0] = end
  BY <1>1 DEF Winds
<1>3. Len(stack) = 0
  OBVIOUS
<1>4. AfterName(callee, Held) = Held
  BY DEF AfterName
<1>5. Held = end
  BY <1>2, <1>3, <1>4
<1> QED
  BY <1>1, <1>5

LEMMA PagesStep ==
  ASSUME TypeOK, PageInv, [Next]_vars
  PROVE  PageInv'
<1>1. /\ Held \in Slot /\ entries \in Seq(Entry) /\ AllEntries' = AllEntries
      /\ \E later \in Seq(Entry) : AllEntries = entries \o later
  BY AllEntriesStay DEF PageInv
<1>2. CASE ReadFirstPage
  <2>1. /\ stack = <<>> /\ stack' = stack /\ entries = <<>> /\ next' = next
        /\ next.href = NoHref /\ next.body = {}
        /\ Fetch(CatalogRequest(origin.href, origin.body))
    BY <1>2 DEF ReadFirstPage, PageInv
  <2>2. PICK req : req = CatalogRequest(origin.href, origin.body)
    OBVIOUS
  <2>3. <<req.href, req.body>> =
          <<origin.href, IF origin.href \in StaticHref THEN {} ELSE origin.body>>
    BY <2>2 DEF CatalogRequest
  <2>4. PagesFrom(<<req.href, req.body>>, {}) \in Seq(Entry)
    <3>1. [href |-> NoHref, body |-> {}] \in Slot
      BY DEF Slot
    <3> QED
      BY <3>1, PagesTyped
  <2>5. AllEntries = entries \o PagesFrom(<<req.href, req.body>>, next.body)
    <3>1. AllEntries = PagesFrom(<<req.href, req.body>>, {})
      BY <2>3 DEF AllEntries
    <3> QED
      BY <2>1, <2>4, <3>1, NoEntries
  <2>6. /\ entries' \in Seq(Entry) /\ Held' \in Slot /\ status' \in {"open", "failed"}
        /\ \E later \in Seq(Entry) : AllEntries' = entries' \o later
        /\ status' = "open" => PagesAhead'
    BY <1>1, <2>1, <2>2, <2>5, PageTurns
  <2> QED
    BY <2>6 DEF PageInv
<1>3. CASE ReadNextPage
  <2>1. /\ stack = <<>> /\ stack' = stack /\ callee = NoDoc /\ status = "open"
        /\ next.href # NoHref /\ next' = [next EXCEPT !.href = NoHref]
    BY <1>3 DEF ReadNextPage, BetweenPages
  <2>2. PICK req : /\ Fetch(req) /\ req.href = next.href /\ req.body = next.body
    BY <1>3 DEF ReadNextPage
  <2>3. PagesAhead
    BY <2>1 DEF PageInv, NoPageAfterLimit
  <2>4. AllEntries = entries \o LaterPages(Held)
    BY <1>1, <2>1, <2>3, NothingAhead
  <2>5. LaterPages(Held) = PagesFrom(<<req.href, req.body>>, next.body)
    BY <1>1, <2>1, <2>2, LaterUnfolds DEF Held
  <2>6. next'.href = NoHref /\ next'.body = next.body
    BY <2>1, ForgetHref
  <2>7. /\ entries' \in Seq(Entry) /\ Held' \in Slot /\ status' \in {"open", "failed"}
        /\ \E later \in Seq(Entry) : AllEntries' = entries' \o later
        /\ status' = "open" => PagesAhead'
    BY <1>1, <2>1, <2>2, <2>4, <2>5, <2>6, PageTurns
  <2> QED
    BY <2>7 DEF PageInv
<1>4. CASE status = "open" /\ ~ReadNextPage
  <2>1. /\ entries' = entries /\ Held' \in Slot
        /\ status' = "open" => WindsOn \/ NoPageAfterLimit'
    BY <1>1, <1>4, StepInPage
  <2>2. status' # "new"
    BY <1>4, StepCases, NewOnlyAtStart
  <2>3. ASSUME status' = "open" PROVE NoPageAfterLimit' \/ PagesAhead'
    <3>1. CASE NoPageAfterLimit
      BY <3>1, NoPageStays
    <3>2. CASE PagesAhead /\ WindsOn
      <4>1. PICK end \in Slot :
              Winds(stack, AfterName(callee, Held), end) /\ AllEntries = entries \o LaterPages(end)
        BY <3>2 DEF PagesAhead
      <4>2. Winds(stack', AfterName(callee', Held'), end)
        BY <3>2, <4>1 DEF WindsOn
      <4> QED
        BY <1>1, <2>1, <4>1, <4>2 DEF PagesAhead
    <3> QED
      BY <1>4, <2>1, <2>3, <3>1, <3>2 DEF PageInv
  <2>4. ASSUME status' = "done", ~LimitReached' PROVE entries' = AllEntries'
    <3>1. NoMorePages
      BY <1>4, <2>4, StepCases DEF ReadFirstPage, ReadNextPage, ReturnAtLimit, MissingType,
         IgnoreOther, EnterCatalog, EnterCollection, EnterFeatureCollection, SkipFeature,
         InvalidFeature, RejectFeature, SkipMatchingFeature, KeepFeature, SkipEntry,
         StopFeatures, CallFeature, EndFeatures, StopLinks, EndLinks, SkipLink, StoreNextLink,
         RefuseNextLink, FollowLink, Throw, Fetch, vars
    <3>2. /\ stack = <<>> /\ callee = NoDoc /\ next.href = NoHref
      BY <3>1 DEF NoMorePages, BetweenPages
    <3>3. PagesAhead
      BY <1>4, <2>4, LimitStaysReached DEF PageInv, NoPageAfterLimit
    <3>4. AllEntries = entries \o LaterPages(Held)
      BY <1>1, <3>2, <3>3, NothingAhead
    <3>5. LaterPages(Held) = <<>>
      BY <1>1, <3>2, LaterUnfolds DEF Held
    <3> QED
      BY <1>1, <2>1, <3>4, <3>5, NoEntries
  <2> QED
    BY <1>1, <2>1, <2>2, <2>3, <2>4 DEF PageInv
<1>5. CASE status # "open" /\ ~ReadFirstPage
  <2>1. UNCHANGED vars
    BY <1>5, StepCases DEF ReadNextPage, NoMorePages, BetweenPages, ReturnAtLimit, MissingType,
       IgnoreOther, EnterCatalog, EnterCollection, EnterFeatureCollection, SkipFeature,
       InvalidFeature, RejectFeature, SkipMatchingFeature, KeepFeature, ReadsFeature, Calling,
       SkipEntry, StopFeatures, CallFeature, OnFeature, EndFeatures, StopLinks, EndLinks,
       SkipLink, StoreNextLink, RefuseNextLink, FollowLink, OnLink, Looping
  <2>2. /\ UNCHANGED <<status, stack, callee, entries, next>> /\ Held' = Held
    BY <2>1 DEF vars, io, Held
  <2> QED
    BY <1>1, <1>5, <2>2, LimitStaysReached DEF PageInv
<1> QED
  BY <1>2, <1>3, <1>4, <1>5

(* The pages that a query asks for are those its next links lead to, in    *)
(* order and each once, with the body of the link or the one it merges     *)
(* with; and all of them, unless the limit is reached or a request fails.  *)
THEOREM PagesComeInOrder == Spec => []PagesInOrder
<1>1. Init => PageInv
  <2> SUFFICES ASSUME Init PROVE PageInv
    OBVIOUS
  <2>1. /\ entries = <<>> /\ stack = <<>> /\ callee = NoDoc /\ status = "new"
        /\ next.href = NoHref /\ next.body = {}
    BY DEF Init
  <2>2. Held \in Slot /\ [href |-> NoHref, body |-> {}] \in Slot
    BY <2>1 DEF Held, Slot
  <2>3. PICK all \in Seq(Entry) : all = AllEntries
    BY <2>2, PagesTyped DEF AllEntries
  <2>4. entries \in Seq(Entry) /\ AllEntries = entries \o all
    BY <2>1, <2>3, NoEntries
  <2> QED
    BY <2>1, <2>2, <2>4 DEF PageInv
<1>2. TypeOK /\ PageInv /\ [Next]_vars => PageInv'
  BY PagesStep
<1>3. PageInv => PagesInOrder
  <2> SUFFICES ASSUME PageInv PROVE PagesInOrder
    OBVIOUS
  <2>1. PICK later \in Seq(Entry) : AllEntries = entries \o later
    BY DEF PageInv
  <2>2. entries \in Seq(Entry)
    BY DEF PageInv
  <2>3. /\ Len(entries) <= Len(AllEntries)
        /\ entries = SubSeq(AllEntries, 1, Len(entries))
    BY <2>1, <2>2, ConcatProperties, SubSeqProperties
  <2> QED
    BY <2>3 DEF PageInv, PagesInOrder
<1> QED
  BY <1>1, <1>2, <1>3, TypeInvariant, PTL DEF Spec

=============================================================================
