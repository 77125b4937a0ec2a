----------------------- MODULE CollectionReaderProofs -----------------------
(***************************************************************************)
(* STAC_Collections keeps the promise of a table function for every        *)
(* catalog, cyclic ones included, and every size of a chunk.               *)
(***************************************************************************)
EXTENDS CollectionReader, SequenceTheorems, TLAPS

Call == [doc : DOMAIN Doc, at : {"collections", "links"}, i : Nat \ {0}, saved : Ids]

(* A call that loops over the listed objects was made for a listing.       *)
CallFrame == {f \in Call : f.at = "collections" => Doc[f.doc].listed # NotObject}

Row == [id : DOMAIN Doc, catalog : Ids]

RowsTyped    == rows \in Seq(Row)
ReadingTyped == /\ catalog_id \in Ids /\ stack \in Seq(CallFrame)
                /\ callee \in DOMAIN Doc \cup {NoDoc}
StatusTyped  == status \in {"new", "open", "bound", "exhausted", "failed"}
ChunksTyped  == current_idx \in 0..Len(rows) /\ delivered \in Seq(1..Len(rows))

Typed == RowsTyped /\ ReadingTyped /\ StatusTyped /\ ChunksTyped

LEMMA TypedSuffices == Typed => TypeOK
<1> SUFFICES ASSUME Typed PROVE TypeOK
  OBVIOUS
<1>1. stack \in Seq(Call)
  BY DEF Typed, ReadingTyped, CallFrame
<1> QED
  BY <1>1 DEF Typed, TypeOK, RowsTyped, ReadingTyped, StatusTyped, ChunksTyped, Call, Row

(* Only an object with a list of collections is read as a listing.         *)
LEMMA ListingHasList ==
  ASSUME NEW n \in DOMAIN Doc, TypeOf(n) = "Collections"
  PROVE  Doc[n].listed # NotObject
<1>1. DocShape(Doc[n])
  BY CollectionAssumption
<1> QED BY <1>1 DEF DocShape, TypeOf

LEMMA StepCases ==
  ASSUME [Next]_vars
  PROVE  \/ ReadFirstPage \/ MissingType \/ IgnoreOther \/ EnterCatalog \/ EnterListing
         \/ EnterCollection \/ MissingId \/ CallListed \/ EndListed \/ SkipLink
         \/ StoreNextLink \/ FollowLink \/ Return \/ ReadNextPage \/ BindReturns
         \/ Execute \/ UNCHANGED vars
BY DEF Next, ReadContentOfObject

(***************************************************************************)
(* Calls.                                                                  *)
(***************************************************************************)
LEMMA FetchTyped ==
  ASSUME NEW href, Fetch(href)
  PROVE  callee' \in DOMAIN Doc \cup {NoDoc} /\ status' \in {"open", "failed"}
BY CollectionAssumption DEF Fetch

LEMMA TopIsFrame ==
  ASSUME stack \in Seq(CallFrame), stack # <<>>
  PROVE  /\ Len(stack) \in 1..Len(stack) /\ Top \in CallFrame
         /\ SubSeq(stack, 1, Len(stack) - 1) \in Seq(CallFrame)
<1>1. PICK n \in Nat : n = Len(stack)
  OBVIOUS
<1>2. n > 0 /\ n \in 1..n
  BY <1>1
<1>3. Top \in CallFrame
  BY <1>1, <1>2 DEF Top
<1>4. SubSeq(stack, 1, n - 1) \in Seq(CallFrame)
  BY <1>1, <1>2, SubSeqProperties
<1> QED BY <1>1, <1>2, <1>3, <1>4

LEMMA LoopsMove ==
  ASSUME stack \in Seq(CallFrame), stack # <<>>,
         \/ Advance
         \/ stack' = [stack EXCEPT ![Len(stack)].at = "links", ![Len(stack)].i = 1]
  PROVE  stack' \in Seq(CallFrame)
<1>1. Len(stack) \in 1..Len(stack) /\ Top \in CallFrame
  BY TopIsFrame
<1>2. CASE Advance
  <2>1. stack' = [stack EXCEPT ![Len(stack)] = [Top EXCEPT !.i = Top.i + 1]]
    BY <1>1, <1>2 DEF Advance, Top
  <2>2. Top.i + 1 \in Nat \ {0}
    BY <1>1 DEF CallFrame, Call
  <2>3. [Top EXCEPT !.i = Top.i + 1] \in CallFrame
    BY <1>1, <2>2 DEF CallFrame, Call
  <2> QED BY <1>1, <2>1, <2>3, ExceptSeq
<1>3. CASE stack' = [stack EXCEPT ![Len(stack)].at = "links", ![Len(stack)].i = 1]
  <2>1. stack' = [stack EXCEPT ![Len(stack)] = [Top EXCEPT !.at = "links", !.i = 1]]
    BY <1>1, <1>3 DEF Top
  <2>2. [Top EXCEPT !.at = "links", !.i = 1] \in CallFrame
    <3>1. Top \in Call
      BY <1>1 DEF CallFrame
    <3>2. ASSUME NEW f, f = [Top EXCEPT !.at = "links", !.i = 1]
          PROVE  f \in Call /\ f.at # "collections"
      <4>1. f.at = "links" /\ f \in Call
        <5>1. /\ Top.doc \in DOMAIN Doc /\ Top.saved \in Ids
              /\ Top = [doc |-> Top.doc, at |-> Top.at, i |-> Top.i, saved |-> Top.saved]
          BY <3>1 DEF Call
        <5>2. f = [doc |-> Top.doc, at |-> "links", i |-> 1, saved |-> Top.saved]
          BY <3>2, <5>1
        <5> QED BY <5>1, <5>2 DEF Call
      <4>2. "links" # "collections"
        OBVIOUS
      <4> QED BY <4>1, <4>2
    <3> QED BY <3>2 DEF CallFrame
  <2> QED BY <1>1, <2>1, <2>2, ExceptSeq
<1> QED BY <1>2, <1>3

LEMMA CallsStayTyped ==
  ASSUME Typed, [Next]_vars
  PROVE  ReadingTyped'
<1>1. ReadingTyped
  BY DEF Typed
<1>2. CASE ReadFirstPage \/ ReadNextPage
  <2>1. UNCHANGED <<catalog_id, stack>> /\ callee' \in DOMAIN Doc \cup {NoDoc}
    BY <1>2, FetchTyped DEF ReadFirstPage, ReadNextPage
  <2> QED BY <1>1, <2>1 DEF ReadingTyped
<1>3. CASE MissingType \/ MissingId \/ BindReturns \/ Execute \/ UNCHANGED vars
  <2>1. UNCHANGED <<catalog_id, stack, callee>>
    BY <1>3 DEF MissingType, MissingId, Throw, BindReturns, Execute, vars, reading
  <2> QED BY <1>1, <2>1 DEF ReadingTyped
<1>4. CASE IgnoreOther
  BY <1>1, <1>4 DEF IgnoreOther, ReadingTyped
<1>5. CASE EnterCatalog \/ EnterListing \/ EnterCollection
  <2>1. callee \in DOMAIN Doc
    BY <1>1, <1>5 DEF EnterCatalog, EnterListing, EnterCollection, Calling, ReadingTyped
  <2>2. /\ Frame("links") \in CallFrame
        /\ EnterListing => Frame("collections") \in CallFrame
    <3>1. EnterListing => Doc[callee].listed # NotObject
      BY <2>1, ListingHasList DEF EnterListing, Calling
    <3> QED BY <1>1, <2>1, <3>1 DEF Frame, CallFrame, Call, ReadingTyped
  <2>3. stack' \in Seq(CallFrame) /\ callee' = NoDoc
    BY <1>1, <1>5, <2>2 DEF EnterCatalog, EnterListing, EnterCollection, ReadingTyped
  <2>4. Doc[callee].id \in Ids
    BY <2>1 DEF Ids
  <2>5. catalog_id' \in Ids
    BY <1>1, <1>5, <2>4 DEF EnterCatalog, EnterListing, EnterCollection, IdOr, ReadingTyped
  <2> QED BY <2>3, <2>5 DEF ReadingTyped
<1>6. CASE CallListed
  <2>1. stack # <<>> /\ stack \in Seq(CallFrame)
    BY <1>1, <1>6 DEF CallListed, Looping, ReadingTyped
  <2>2. stack' \in Seq(CallFrame)
    BY <1>6, <2>1, LoopsMove DEF CallListed
  <2>3. Top \in CallFrame /\ Top.at = "collections"
    BY <1>6, <2>1, TopIsFrame DEF CallListed, Looping
  <2>4. Listed \in Seq(DOMAIN Doc \cup {NotObject}) /\ Top.i \in 1..Len(Listed)
    <3>1. DocShape(Doc[Top.doc]) /\ Doc[Top.doc].listed # NotObject
      BY <2>3, CollectionAssumption DEF CallFrame, Call
    <3>2. Listed \in Seq(DOMAIN Doc \cup {NotObject})
      BY <3>1 DEF Listed, DocShape
    <3>3. Top.i \in Nat \ {0} /\ Top.i <= Len(Listed)
      BY <1>6, <2>3 DEF CallListed, CallFrame, Call
    <3> QED BY <3>2, <3>3
  <2>5. callee' \in DOMAIN Doc \cup {NoDoc}
    BY <1>6, <2>4 DEF CallListed
  <2> QED BY <1>1, <1>6, <2>2, <2>5 DEF CallListed, ReadingTyped
<1>7. CASE EndListed \/ SkipLink \/ StoreNextLink
  <2>1. stack # <<>> /\ stack \in Seq(CallFrame)
    BY <1>1, <1>7 DEF EndListed, SkipLink, StoreNextLink, OnLink, Looping, ReadingTyped
  <2>2. stack' \in Seq(CallFrame)
    BY <1>7, <2>1, LoopsMove DEF EndListed, SkipLink, StoreNextLink
  <2> QED BY <1>1, <1>7, <2>2 DEF EndListed, SkipLink, StoreNextLink, ReadingTyped
<1>8. CASE FollowLink
  <2>1. stack # <<>> /\ stack \in Seq(CallFrame)
    BY <1>1, <1>8 DEF FollowLink, OnLink, Looping, ReadingTyped
  <2>2. stack' \in Seq(CallFrame)
    BY <1>8, <2>1, LoopsMove DEF FollowLink
  <2>3. callee' \in DOMAIN Doc \cup {NoDoc} /\ catalog_id' = catalog_id
    BY <1>8, FetchTyped DEF FollowLink
  <2> QED BY <1>1, <2>2, <2>3 DEF ReadingTyped
<1>9. CASE Return
  <2>1. stack # <<>> /\ stack \in Seq(CallFrame)
    BY <1>1, <1>9 DEF Return, Looping, ReadingTyped
  <2>2. stack' \in Seq(CallFrame) /\ Top.saved \in Ids
    BY <1>9, <2>1, TopIsFrame DEF Return, CallFrame, Call
  <2> QED BY <1>1, <1>9, <2>2 DEF Return, ReadingTyped
<1> QED BY <1>2, <1>3, <1>4, <1>5, <1>6, <1>7, <1>8, <1>9, StepCases

(***************************************************************************)
(* Rows and chunks.                                                        *)
(***************************************************************************)
(* Only EnterCollection makes a row, only Execute hands rows out.          *)
LEMMA RowSteps ==
  ASSUME [Next]_vars
  PROVE  /\ EnterCollection \/ rows' = rows
         /\ Execute \/ UNCHANGED <<current_idx, delivered>>
BY StepCases DEF ReadFirstPage, MissingType, IgnoreOther, EnterCatalog, EnterListing,
   EnterCollection, MissingId, CallListed, EndListed, SkipLink, StoreNextLink, FollowLink,
   Return, ReadNextPage, BindReturns, Execute, Throw, vars

(* A chunk ends behind the rows handed out, and not behind the last one.   *)
LEMMA ChunkEndInRows ==
  ASSUME RowsTyped, ChunksTyped
  PROVE  /\ ChunkEnd \in Nat /\ current_idx \in Nat /\ Len(rows) \in Nat
         /\ current_idx <= ChunkEnd /\ ChunkEnd <= Len(rows)
         /\ ChunkEnd = current_idx => current_idx = Len(rows)
<1>1. PICK n \in Nat : n = Len(rows)
  BY DEF RowsTyped
<1>2. VectorSize \in Nat \ {0}
  BY CollectionAssumption
<1>3. current_idx \in 0..n
  BY <1>1 DEF ChunksTyped
<1> QED BY <1>1, <1>2, <1>3 DEF ChunkEnd

NextRows == [k \in 1..(ChunkEnd - current_idx) |-> current_idx + k]

LEMMA NextRowsTyped ==
  ASSUME RowsTyped, ChunksTyped
  PROVE  NextRows \in Seq(1..Len(rows)) /\ Len(NextRows) = ChunkEnd - current_idx
<1>1. PICK m \in Nat : m = ChunkEnd - current_idx
  BY ChunkEndInRows
<1>2. \A k \in 1..m : current_idx + k \in 1..Len(rows)
  BY <1>1, ChunkEndInRows
<1>3. NextRows = [k \in 1..m |-> current_idx + k]
  BY <1>1 DEF NextRows
<1>4. NextRows \in [1..m -> 1..Len(rows)]
  BY <1>2, <1>3
<1> QED BY <1>1, <1>4

LEMMA RowsStayTyped ==
  ASSUME Typed, [Next]_vars
  PROVE  RowsTyped' /\ Len(rows) <= Len(rows)'
<1>1. rows \in Seq(Row)
  BY DEF Typed, RowsTyped
<1>2. CASE rows' = rows
  BY <1>1, <1>2 DEF RowsTyped
<1>3. CASE EnterCollection
  <2>1. callee \in DOMAIN Doc /\ catalog_id \in Ids
    BY <1>3 DEF EnterCollection, Calling, Typed, ReadingTyped
  <2>2. [id |-> callee, catalog |-> catalog_id] \in Row
    BY <2>1 DEF Row
  <2> QED BY <1>1, <1>3, <2>2 DEF EnterCollection, RowsTyped
<1> QED BY <1>2, <1>3, RowSteps

LEMMA ChunksStayTyped ==
  ASSUME Typed, [Next]_vars
  PROVE  ChunksTyped'
<1>1. RowsTyped /\ ChunksTyped
  BY DEF Typed
<1>2. CASE Execute
  <2>1. current_idx' = ChunkEnd /\ delivered' = delivered \o NextRows /\ rows' = rows
    BY <1>2 DEF Execute, NextRows
  <2>2. delivered' \in Seq(1..Len(rows))
    BY <1>1, <2>1, NextRowsTyped DEF ChunksTyped
  <2>3. current_idx' \in 0..Len(rows)
    BY <1>1, <2>1, ChunkEndInRows
  <2> QED BY <2>1, <2>2, <2>3 DEF ChunksTyped
<1>3. CASE UNCHANGED <<current_idx, delivered>>
  <2>1. PICK m \in Nat : m = Len(rows)
    BY <1>1 DEF RowsTyped
  <2>2. PICK n \in Nat : n = Len(rows')
    BY RowsStayTyped DEF RowsTyped
  <2>3. m <= n
    BY <2>1, <2>2, RowsStayTyped
  <2>4. current_idx \in 0..m /\ delivered \in Seq(1..m)
    BY <1>1, <2>1 DEF ChunksTyped
  <2>5. 1..m \subseteq 1..n /\ current_idx \in 0..n
    BY <2>3, <2>4
  <2>6. delivered \in Seq(1..n)
    BY <2>4, <2>5
  <2> QED BY <1>3, <2>2, <2>5, <2>6 DEF ChunksTyped
<1> QED BY <1>2, <1>3, RowSteps

LEMMA StatusStaysTyped ==
  ASSUME Typed, [Next]_vars
  PROVE  StatusTyped'
<1>1. StatusTyped
  BY DEF Typed
<1>2. CASE ReadFirstPage \/ ReadNextPage \/ FollowLink
  BY <1>2, FetchTyped DEF ReadFirstPage, ReadNextPage, FollowLink, StatusTyped
<1> QED BY <1>1, <1>2, StepCases DEF MissingType, IgnoreOther, EnterCatalog, EnterListing,
   EnterCollection, MissingId, CallListed, EndListed, SkipLink, StoreNextLink,
   Return, BindReturns, Execute, Throw, vars, StatusTyped

LEMMA TypedAtStart == Init => Typed
<1> SUFFICES ASSUME Init PROVE Typed
  OBVIOUS
<1>1. rows = <<>> /\ stack = <<>> /\ delivered = <<>> /\ current_idx = 0
  BY DEF Init
<1>2. RowsTyped
  BY <1>1, EmptySeq DEF RowsTyped
<1>3. ReadingTyped
  <2>1. catalog_id \in Ids /\ callee \in {NoDoc}
    BY DEF Init, Ids
  <2>2. stack \in Seq(CallFrame)
    BY <1>1, EmptySeq
  <2> QED BY <2>1, <2>2 DEF ReadingTyped
<1>5. StatusTyped
  BY DEF Init, StatusTyped
<1>4. ChunksTyped
  BY <1>1 DEF ChunksTyped
<1> QED BY <1>2, <1>3, <1>4, <1>5 DEF Typed

LEMMA TypedInvariant == Spec => []Typed
<1>1. Typed /\ [Next]_vars => Typed'
  BY CallsStayTyped, RowsStayTyped, ChunksStayTyped, StatusStaysTyped DEF Typed
<1> QED BY <1>1, TypedAtStart, PTL DEF Spec

(* The state of the reader and of the scan keeps its type for every        *)
(* catalog: no chunk ever ends behind the rows.                            *)
THEOREM TypeCorrect == Spec => []TypeOK
BY TypedInvariant, TypedSuffices, PTL

(***************************************************************************)
(* Refinement.                                                             *)
(***************************************************************************)
(* Execute knows how many rows it has handed out.                          *)
Counted == Len(delivered) = current_idx

LEMMA CountedKept ==
  ASSUME Typed, Counted, [Next]_vars
  PROVE  Counted'
<1>1. RowsTyped /\ ChunksTyped /\ delivered \in Seq(1..Len(rows))
  BY DEF Typed, ChunksTyped
<1>2. CASE Execute
  <2>1. delivered' = delivered \o NextRows /\ current_idx' = ChunkEnd
    BY <1>2 DEF Execute, NextRows
  <2>2. PICK m \in Nat : m = ChunkEnd
    BY <1>1, ChunkEndInRows
  <2>3. PICK n \in Nat : n = current_idx
    BY <1>1, ChunkEndInRows
  <2>4. Len(NextRows) = m - n /\ Len(delivered) = n
    BY <1>1, <2>2, <2>3, NextRowsTyped DEF Counted
  <2>5. Len(delivered') = Len(delivered) + Len(NextRows)
    BY <1>1, <2>1, NextRowsTyped
  <2>6. Len(delivered') = m
    BY <2>2, <2>3, <2>4, <2>5
  <2> QED BY <2>1, <2>2, <2>6 DEF Counted
<1>3. CASE UNCHANGED <<current_idx, delivered>>
  BY <1>3 DEF Counted
<1> QED BY <1>2, <1>3, RowSteps

(* A chunk with rows in it is an Emit of the abstract scan, an empty one   *)
(* is its Exhaust.                                                         *)
LEMMA ExecuteEmits ==
  ASSUME Typed, Counted, Execute
  PROVE  T!Next
<1>1. RowsTyped /\ ChunksTyped /\ delivered \in Seq(1..Len(rows))
  BY DEF Typed, ChunksTyped
<1>2. /\ delivered' = delivered \o NextRows /\ UNCHANGED rows /\ status = "bound"
      /\ status' = IF ChunkEnd = current_idx THEN "exhausted" ELSE "bound"
  BY DEF Execute, NextRows
<1>3. CASE ChunkEnd = current_idx
  <2>1. NextRows = <<>>
    <3>1. NextRows \in Seq(1..Len(rows)) /\ Len(NextRows) = 0
      BY <1>1, <1>3, ChunkEndInRows, NextRowsTyped
    <3> QED BY <3>1
  <2>2. delivered' = delivered
    BY <1>1, <1>2, <2>1
  <2>3. Len(delivered) = Len(rows)
    BY <1>1, <1>3, ChunkEndInRows DEF Counted
  <2> QED BY <1>2, <1>3, <2>2, <2>3 DEF T!Next, T!Exhaust
<1>4. CASE ChunkEnd # current_idx
  <2>1. ChunkEnd \in Len(delivered)..Len(rows)
    BY <1>1, ChunkEndInRows DEF Counted
  <2>2. NextRows = T!Numbers(Len(delivered), ChunkEnd)
    BY DEF NextRows, Counted, T!Numbers
  <2> QED BY <1>2, <1>4, <2>1, <2>2 DEF T!Next, T!Emit
<1> QED BY <1>3, <1>4

(* While Bind reads, rows are produced, or nothing happens that a scan     *)
(* could tell; when Bind returns there is no more to come.                 *)
LEMMA BindProduces ==
  ASSUME Typed, [Next]_vars, ~Execute
  PROVE  [T!Next]_(T!scan)
<1>1. UNCHANGED delivered
  BY RowSteps
<1>2. Len(rows) \in Nat /\ Len(rows') \in Nat /\ Len(rows') >= Len(rows)
  BY RowsStayTyped DEF Typed, RowsTyped
<1>3. CASE status \in {"new", "open"} /\ status' # "exhausted"
  BY <1>1, <1>2, <1>3 DEF T!Next, T!Produce
<1>4. CASE UNCHANGED <<rows, status>>
  BY <1>1, <1>4 DEF T!scan
<1>5. \/ status \in {"new", "open"} /\ status' # "exhausted"
      \/ UNCHANGED <<rows, status>>
  <2>1. CASE ReadFirstPage \/ ReadNextPage \/ FollowLink
    BY <2>1, FetchTyped DEF ReadFirstPage, ReadNextPage, BetweenPages, FollowLink, OnLink, Looping
  <2>2. CASE MissingType \/ MissingId \/ IgnoreOther \/ EnterCatalog \/ EnterListing
             \/ EnterCollection
    BY <2>2 DEF MissingType, MissingId, IgnoreOther, EnterCatalog, EnterListing,
       EnterCollection, Calling, Throw
  <2>3. CASE CallListed \/ EndListed \/ SkipLink \/ StoreNextLink \/ Return
    BY <2>3 DEF CallListed, EndListed, SkipLink, StoreNextLink, Return, OnLink, Looping
  <2>4. CASE BindReturns \/ UNCHANGED vars
    BY <2>4 DEF BindReturns, BetweenPages, vars
  <2> QED BY <2>1, <2>2, <2>3, <2>4, StepCases
<1> QED BY <1>3, <1>4, <1>5

(* STAC_Collections implements TableScan, whatever the catalog and the     *)
(* size of a chunk.                                                        *)
THEOREM CollectionsRefineTableScan == Spec => ImplementsTableScan
<1>1. Init => T!Init /\ Counted
  BY DEF Init, T!Init, Counted
<1>2. Typed /\ Counted /\ [Next]_vars => [T!Next]_(T!scan) /\ Counted'
  BY ExecuteEmits, BindProduces, CountedKept
<1> QED BY <1>1, <1>2, TypedInvariant, PTL DEF Spec, ImplementsTableScan, T!Spec

(***************************************************************************)
(* The order of the rows.                                                  *)
(***************************************************************************)
(* Parts of a catalog read one after the other.                            *)
LEMMA PartFields ==
  ASSUME NEW p \in Part
  PROVE  /\ p.rows \in Seq(Row) /\ p.next \in Hrefs
         /\ p = [rows |-> p.rows, next |-> p.next]
BY DEF Part, Row

LEMMA RowsAssociative ==
  ASSUME NEW s \in Seq(Row), NEW t \in Seq(Row), NEW u \in Seq(Row)
  PROVE  (s \o t) \o u = s \o (t \o u)
BY ConcatAssociative

LEMMA RowsConcatenated ==
  ASSUME NEW s \in Seq(Row), NEW t \in Seq(Row)
  PROVE  /\ s \o t \in Seq(Row) /\ Len(s) \in Nat /\ Len(t) \in Nat
         /\ Len(s \o t) = Len(s) + Len(t)
         /\ \A i \in 1..(Len(s) + Len(t)) :
              (s \o t)[i] = IF i <= Len(s) THEN s[i] ELSE t[i - Len(s)]
BY ConcatProperties, LenProperties

LEMMA PartOf ==
  ASSUME NEW r \in Seq(Row), NEW h \in Hrefs
  PROVE  [rows |-> r, next |-> h] \in Part
BY DEF Part, Row

LEMMA ThenTyped ==
  ASSUME NEW a \in Part, NEW b \in Part
  PROVE  Then(a, b) \in Part
<1>1. a.rows \o b.rows \in Seq(Row)
  BY PartFields, ConcatProperties
<1>2. PICK h \in Hrefs : h = IF b.next = NoHref THEN a.next ELSE b.next
  BY PartFields
<1> QED BY <1>1, <1>2, PartOf DEF Then

LEMMA NothingGiven ==
  /\ Nothing \in Part
  /\ \A p \in Part : Then(Nothing, p) = p /\ Then(p, Nothing) = p
<1>1. Nothing \in Part
  BY EmptySeq, PartOf DEF Nothing, Hrefs
<1>2. ASSUME NEW p \in Part PROVE Then(Nothing, p) = p /\ Then(p, Nothing) = p
  <2>1. PICK r \in Seq(Row), h \in Hrefs : p = [rows |-> r, next |-> h]
    BY PartFields
  <2>2. <<>> \o r = r /\ r \o <<>> = r
    BY ConcatEmptySeq
  <2> QED BY <2>1, <2>2 DEF Then, Nothing
<1> QED BY <1>1, <1>2

LEMMA ThenAssociative ==
  ASSUME NEW a \in Part, NEW b \in Part, NEW c \in Part
  PROVE  Then(Then(a, b), c) = Then(a, Then(b, c))
<1>1. (a.rows \o b.rows) \o c.rows = a.rows \o (b.rows \o c.rows)
  BY PartFields, RowsAssociative
<1>2. PICK r, s, t, ab, bc :
        r = a.rows /\ s = b.rows /\ t = c.rows /\ ab = Then(a, b) /\ bc = Then(b, c)
  OBVIOUS
<1>3. /\ ab.rows = r \o s /\ ab.next = IF b.next = NoHref THEN a.next ELSE b.next
      /\ bc.rows = s \o t /\ bc.next = IF c.next = NoHref THEN b.next ELSE c.next
  BY ONLY <1>2 DEF Then
<1>4. PICK rst : rst = (r \o s) \o t /\ rst = r \o (s \o t)
  BY <1>1, <1>2
<1>5. Then(ab, c) = [rows |-> rst, next |-> IF c.next = NoHref THEN ab.next ELSE c.next]
  BY ONLY <1>2, <1>3, <1>4 DEF Then
<1>6. Then(a, bc) = [rows |-> rst, next |-> IF bc.next = NoHref THEN a.next ELSE bc.next]
  BY ONLY <1>2, <1>3, <1>4 DEF Then
<1>7. PICK g : /\ g = IF c.next = NoHref THEN ab.next ELSE c.next
               /\ g = IF bc.next = NoHref THEN a.next ELSE bc.next
  BY ONLY <1>3
<1>8. Then(ab, c) = [rows |-> rst, next |-> g] /\ Then(a, bc) = [rows |-> rst, next |-> g]
  BY ONLY <1>5, <1>6, <1>7
<1> QED BY ONLY <1>2, <1>8

(* The recursion equations, one place at a time.                           *)
LEMMA ListSizes ==
  ASSUME NEW n \in DOMAIN Doc
  PROVE  /\ Len(Doc[n].links) \in Nat
         /\ \A i \in 1..Len(Doc[n].links) :
              Doc[n].links[i] # NotObject => Doc[n].links[i] \in LinksOf(n)
         /\ Doc[n].listed # NotObject =>
              Len(Doc[n].listed) \in Nat /\ Doc[n].listed \in Seq(DOMAIN Doc \cup {NotObject})
<1>1. DocShape(Doc[n])
  BY CollectionAssumption
<1>2. PICK S : Doc[n].links \in Seq(S)
  BY <1>1 DEF DocShape
<1>3. DOMAIN Doc[n].links = 1..Len(Doc[n].links) /\ Len(Doc[n].links) \in Nat
  BY <1>2
<1>4. ASSUME Doc[n].listed # NotObject
      PROVE  /\ Doc[n].listed \in Seq(DOMAIN Doc \cup {NotObject})
             /\ Len(Doc[n].listed) \in Nat
  <2>1. Doc[n].listed \in Seq(DOMAIN Doc \cup {NotObject})
    BY <1>1, <1>4 DEF DocShape
  <2> QED BY ONLY <2>1, LenProperties
<1> QED BY ONLY <1>3, <1>4 DEF LinksOf

LEMMA ReadingUnfolds ==
  ASSUME NEW n \in DOMAIN Doc, NEW cat \in Ids
  PROVE  /\ \A i \in 1..(Len(Doc[n].links) + 1) :
              /\ Reading(n, "links", i, cat) \in Part
              /\ Reading(n, "links", i, cat) =
                   IF i > Len(Doc[n].links) THEN Nothing
                   ELSE Then(GivenByLink(Doc[n].links[i], cat), Reading(n, "links", i + 1, cat))
         /\ Doc[n].listed # NotObject => \A i \in 1..(Len(Doc[n].listed) + 1) :
              /\ Reading(n, "collections", i, cat) \in Part
              /\ Reading(n, "collections", i, cat) =
                   IF i > Len(Doc[n].listed) THEN Reading(n, "links", 1, cat)
                   ELSE Then(GivenByElement(Doc[n].listed[i], cat), Reading(n, "collections", i + 1, cat))
BY ReadingAssumption

LEMMA LaterUnfolds ==
  ASSUME NEW h \in Hrefs
  PROVE  /\ Later(h) \in Seq(Row)
         /\ h = NoHref => Later(h) = <<>>
         /\ h # NoHref => Later(h) = Whole(Page(h, ""))
BY ReadingAssumption DEF Row

(* What documents, elements and links give.                                *)
LEMMA IdOrTyped ==
  ASSUME NEW n \in DOMAIN Doc, NEW cat \in Ids
  PROVE  IdOr(Doc[n].id, cat) \in Ids
BY DEF IdOr, Ids

LEMMA RowOfTyped ==
  ASSUME NEW n \in DOMAIN Doc, NEW cat \in Ids
  PROVE  RowOf(n, cat) \in Part
<1>1. [id |-> n, catalog |-> cat] \in Row
  BY DEF Row
<1>2. <<[id |-> n, catalog |-> cat]>> \in Seq(Row)
  BY <1>1
<1> QED BY <1>2, PartOf DEF RowOf, Hrefs

LEMMA GivenTyped ==
  ASSUME NEW n \in DOMAIN Doc, NEW cat \in Ids
  PROVE  GivenBy(n, cat) \in Part
<1>1. ASSUME NEW c \in Ids PROVE Reading(n, "links", 1, c) \in Part
  <2>1. 1 \in 1..(Len(Doc[n].links) + 1)
    BY ListSizes
  <2> QED BY <2>1, ReadingUnfolds
<1>2. TypeOf(n) = "Collections" => Reading(n, "collections", 1, cat) \in Part
  <2>1. SUFFICES ASSUME TypeOf(n) = "Collections" PROVE Reading(n, "collections", 1, cat) \in Part
    OBVIOUS
  <2>2. Doc[n].listed # NotObject
    BY <2>1, ListingHasList
  <2>3. 1 \in 1..(Len(Doc[n].listed) + 1)
    BY <2>2, ListSizes
  <2> QED BY <2>2, <2>3, ReadingUnfolds
<1>3. Then(RowOf(n, cat), Reading(n, "links", 1, cat)) \in Part
  BY <1>1, RowOfTyped, ThenTyped
<1>4. IdOr(Doc[n].id, cat) \in Ids
  BY IdOrTyped
<1> QED BY <1>1, <1>2, <1>3, <1>4, NothingGiven DEF GivenBy

LEMMA PageTyped ==
  ASSUME NEW h, NEW cat \in Ids
  PROVE  Page(h, cat) \in Part
BY GivenTyped, NothingGiven, CollectionAssumption DEF Page

LEMMA LinkTyped ==
  ASSUME NEW n \in DOMAIN Doc, NEW i \in 1..Len(Doc[n].links), NEW cat \in Ids
  PROVE  GivenByLink(Doc[n].links[i], cat) \in Part
<1>1. PICK l : l = Doc[n].links[i]
  OBVIOUS
<1>2. CASE l # NotObject /\ l.rel = "next"
  <2>1. l \in LinksOf(n)
    BY <1>1, <1>2, ListSizes
  <2>2. l.href \in Hrefs
    BY <2>1 DEF Hrefs
  <2>3. [rows |-> <<>>, next |-> l.href] \in Part
    BY <2>2, PartOf, EmptySeq
  <2> QED BY <1>1, <1>2, <2>3 DEF GivenByLink
<1>3. CASE ~(l # NotObject /\ l.rel = "next")
  BY <1>1, <1>3, PageTyped, NothingGiven DEF GivenByLink
<1> QED BY <1>2, <1>3

LEMMA ElementTyped ==
  ASSUME NEW n \in DOMAIN Doc \cup {NotObject}, NEW cat \in Ids
  PROVE  GivenByElement(n, cat) \in Part
BY GivenTyped, NothingGiven DEF GivenByElement

(***************************************************************************)
(* The invariant: where the reader stands in what it is to read.           *)
(***************************************************************************)
(* What is in force inside an open call: the id of the Catalog, and what   *)
(* it and the calls below it have yet to give.                             *)
Scope == [cat : Ids, left : Part]

Outermost == [cat |-> "", left |-> Nothing]

Elements(f) == IF f.at = "collections" THEN Doc[f.doc].listed ELSE Doc[f.doc].links

CallIn(f, outer, inner) ==
  /\ f.i <= Len(Elements(f)) + 1
  /\ TypeOf(f.doc) = "Catalog" => f.saved = outer.cat
  /\ inner.cat = IF TypeOf(f.doc) = "Catalog" THEN IdOr(Doc[f.doc].id, outer.cat) ELSE outer.cat
  /\ inner.left = Then(Reading(f.doc, f.at, f.i, inner.cat), outer.left)

Unwinds(calls, w) ==
  /\ w \in [0..Len(calls) -> Scope]
  /\ w[0] = Outermost
  /\ \A k \in 1..Len(calls) : CallIn(calls[k], w[k - 1], w[k])

Scoped(calls, cat, left) ==
  \E w : Unwinds(calls, w) /\ cat = w[Len(calls)].cat /\ left = w[Len(calls)].left

GivenByCallee == IF callee = NoDoc THEN Nothing ELSE GivenBy(callee, catalog_id)

Sofar == [rows |-> rows, next |-> next_href]

Expected == Whole(Page(origin, ""))

Reads ==
  \E left \in Part :
    /\ Scoped(stack, catalog_id, left)
    /\ Whole(Then(Sofar, Then(GivenByCallee, left))) = Expected

FirstOfExpected == Len(rows) <= Len(Expected) /\ \A i \in 1..Len(rows) : rows[i] = Expected[i]

OrderInv ==
  /\ next_href \in Hrefs
  /\ status = "new" => /\ rows = <<>> /\ next_href = NoHref /\ catalog_id = ""
                       /\ stack = <<>> /\ callee = NoDoc
  /\ status = "open" => Reads
  /\ status \in {"bound", "exhausted"} => rows = Expected
  /\ status = "failed" => FirstOfExpected

LEMMA SofarTyped ==
  ASSUME Typed, next_href \in Hrefs
  PROVE  Sofar \in Part
BY PartOf DEF Sofar, Typed, RowsTyped

LEMMA GivenByCalleeTyped ==
  ASSUME Typed
  PROVE  GivenByCallee \in Part
BY GivenTyped, NothingGiven DEF GivenByCallee, Typed, ReadingTyped

LEMMA WholeTyped ==
  ASSUME NEW p \in Part
  PROVE  Whole(p) \in Seq(Row) /\ Len(p.rows) <= Len(Whole(p))
         /\ Len(Whole(p)) \in Nat /\ Len(p.rows) \in Nat
         /\ \A i \in 1..Len(p.rows) : p.rows[i] = Whole(p)[i]
<1>1. PICK r \in Seq(Row), h \in Hrefs : r = p.rows /\ h = p.next
  BY PartFields
<1>2. PICK later \in Seq(Row) : later = Later(h)
  BY LaterUnfolds
<1>3. PICK m \in Nat, n \in Nat : m = Len(r) /\ n = Len(later)
  BY LenProperties
<1>4. PICK whole \in Seq(Row) :
        /\ whole = r \o later /\ Len(whole) = m + n
        /\ \A i \in 1..(m + n) : whole[i] = IF i <= m THEN r[i] ELSE later[i - m]
  BY ONLY <1>3, RowsConcatenated
<1>5. m <= m + n /\ \A i \in 1..m : i \in 1..(m + n) /\ i <= m
  OBVIOUS
<1>6. Whole(p) = whole
  BY ONLY <1>1, <1>2, <1>4 DEF Whole
<1>7. Len(whole) \in Nat /\ m <= Len(whole) /\ \A i \in 1..m : r[i] = whole[i]
  BY ONLY <1>4, <1>5, m \in Nat, n \in Nat
<1> QED BY ONLY <1>1, <1>3, <1>6, <1>7

(* The rows so far are the first of all that is read in the end.           *)
LEMMA RowsComeFirst ==
  ASSUME Typed, next_href \in Hrefs, NEW more \in Part, Whole(Then(Sofar, more)) = Expected
  PROVE  FirstOfExpected
<1>1. PICK all \in Part : all = Then(Sofar, more)
  BY SofarTyped, ThenTyped
<1>2. rows \in Seq(Row) /\ more.rows \in Seq(Row)
  BY PartFields DEF Typed, RowsTyped
<1>3. all.rows = rows \o more.rows
  BY <1>1 DEF Then, Sofar
<1>4. PICK m \in Nat, n \in Nat, k \in Nat :
        /\ m = Len(rows) /\ n = Len(more.rows) /\ k = Len(Expected)
        /\ Len(all.rows) = m + n
        /\ \A i \in 1..(m + n) : all.rows[i] = IF i <= m THEN rows[i] ELSE more.rows[i - m]
  <2>1. Len(Expected) \in Nat
    BY <1>1, WholeTyped
  <2>2. /\ Len(rows) \in Nat /\ Len(more.rows) \in Nat
        /\ Len(all.rows) = Len(rows) + Len(more.rows)
        /\ \A i \in 1..(Len(rows) + Len(more.rows)) :
             all.rows[i] = IF i <= Len(rows) THEN rows[i] ELSE more.rows[i - Len(rows)]
    BY ONLY <1>2, <1>3, RowsConcatenated
  <2> QED BY ONLY <2>1, <2>2
<1>5. m + n <= k /\ \A i \in 1..(m + n) : all.rows[i] = Expected[i]
  BY <1>1, <1>4, WholeTyped
<1>6. m <= k /\ \A i \in 1..m : i \in 1..(m + n) /\ i <= m
  BY <1>5
<1> QED BY <1>4, <1>5, <1>6 DEF FirstOfExpected

(***************************************************************************)
(* The scopes of the open calls.                                           *)
(***************************************************************************)
(* Open calls that agree with these up to the m-th, and one more.          *)
LEMMA ScopeOfOneMore ==
  ASSUME NEW calls, NEW w, Unwinds(calls, w), Len(calls) \in Nat,
         NEW m \in Nat, m <= Len(calls),
         NEW calls2, Len(calls2) = m + 1, \A k \in 1..m : calls2[k] = calls[k],
         NEW inner \in Scope, CallIn(calls2[m + 1], w[m], inner)
  PROVE  Scoped(calls2, inner.cat, inner.left)
<1> DEFINE w2 == [k \in 0..(m + 1) |-> IF k = m + 1 THEN inner ELSE w[k]]
<1>1. \A k \in 0..m : k \in 0..Len(calls) /\ k \in 0..(m + 1) /\ k # m + 1
  OBVIOUS
<1>2. w2 \in [0..(m + 1) -> Scope]
  <2>1. \A k \in 0..(m + 1) : k = m + 1 \/ k \in 0..m
    OBVIOUS
  <2>2. \A k \in 0..m : w[k] \in Scope
    BY <1>1 DEF Unwinds
  <2> QED BY <2>1, <2>2
<1>3. w2[m + 1] = inner /\ \A k \in 0..m : w2[k] = w[k]
  BY <1>1
<1>4. w2[0] = Outermost
  BY <1>3 DEF Unwinds
<1> HIDE DEF w2
<1>5. ASSUME NEW k \in 1..(m + 1)
      PROVE  CallIn(calls2[k], w2[k - 1], w2[k])
  <2>1. CASE k = m + 1
    <3>1. k - 1 = m /\ m \in 0..m
      BY <2>1
    <3> QED BY <1>3, <2>1, <3>1
  <2>2. CASE k \in 1..m
    <3>1. k - 1 \in 0..m /\ k \in 0..m /\ k \in 1..Len(calls)
      BY <2>2
    <3>2. CallIn(calls[k], w[k - 1], w[k])
      BY <3>1 DEF Unwinds
    <3> QED BY <1>3, <2>2, <3>1, <3>2
  <2> QED BY <2>1, <2>2
<1>6. Unwinds(calls2, w2)
  BY <1>2, <1>4, <1>5 DEF Unwinds
<1> QED BY <1>3, <1>6 DEF Scoped

(* Open calls that agree with these and are fewer.                         *)
LEMMA ScopeOfFewer ==
  ASSUME NEW calls, NEW w, Unwinds(calls, w), Len(calls) \in Nat,
         NEW m \in Nat, m <= Len(calls),
         NEW calls2, Len(calls2) = m, \A k \in 1..m : calls2[k] = calls[k]
  PROVE  Scoped(calls2, w[m].cat, w[m].left)
<1> DEFINE w2 == [k \in 0..m |-> w[k]]
<1>1. \A k \in 0..m : k \in 0..Len(calls)
  OBVIOUS
<1>2. w2 \in [0..m -> Scope] /\ \A k \in 0..m : w2[k] = w[k]
  BY <1>1 DEF Unwinds
<1>3. w2[0] = Outermost
  BY <1>2 DEF Unwinds
<1> HIDE DEF w2
<1>4. \A k \in 1..m : k - 1 \in 0..m /\ k \in 0..m /\ k \in 1..Len(calls)
  OBVIOUS
<1>5. \A k \in 1..m : CallIn(calls2[k], w2[k - 1], w2[k])
  BY <1>2, <1>4 DEF Unwinds
<1>6. Unwinds(calls2, w2)
  BY <1>2, <1>3, <1>5 DEF Unwinds
<1> QED BY <1>2, <1>6 DEF Scoped

(* The innermost call and its scope.                                       *)
LEMMA TopScope ==
  ASSUME Typed, stack # <<>>, NEW w, Unwinds(stack, w)
  PROVE  \E n \in Nat :
           /\ n + 1 = Len(stack) /\ Top = stack[n + 1]
           /\ w[n] \in Scope /\ w[n + 1] \in Scope
           /\ CallIn(Top, w[n], w[n + 1])
<1>1. stack \in Seq(CallFrame)
  BY DEF Typed, ReadingTyped
<1>2. PICK n \in Nat : n + 1 = Len(stack)
  <2>1. PICK m \in Nat : m = Len(stack)
    BY <1>1
  <2>2. m > 0
    BY <1>1, <2>1
  <2>3. m - 1 \in Nat /\ (m - 1) + 1 = m
    BY <2>2
  <2> QED BY <2>1, <2>3
<1>3. n \in 0..Len(stack) /\ n + 1 \in 0..Len(stack) /\ n + 1 \in 1..Len(stack) /\ (n + 1) - 1 = n
  BY <1>2
<1>4. w[n] \in Scope /\ w[n + 1] \in Scope /\ CallIn(stack[n + 1], w[n], w[n + 1])
  BY <1>3 DEF Unwinds
<1> QED BY <1>2, <1>4 DEF Top

(* The documents of the innermost call.                                    *)
LEMMA TopList ==
  ASSUME Typed, stack # <<>>
  PROVE  /\ Top \in CallFrame /\ Top.doc \in DOMAIN Doc /\ Top.i \in Nat \ {0}
         /\ Top.at \in {"collections", "links"}
         /\ Top.at = "collections" => Doc[Top.doc].listed # NotObject
         /\ Len(Elements(Top)) \in Nat
<1>1. Top \in CallFrame
  BY TopIsFrame DEF Typed, ReadingTyped
<1>2. /\ Top.doc \in DOMAIN Doc /\ Top.i \in Nat \ {0} /\ Top.at \in {"collections", "links"}
      /\ Top.at = "collections" => Doc[Top.doc].listed # NotObject
  BY <1>1 DEF CallFrame, Call
<1> QED BY <1>1, <1>2, ListSizes DEF Elements

(* The frames that a loop leaves in the place of its own.                  *)
LEMMA FrameMoves ==
  ASSUME NEW f \in CallFrame
  PROVE  /\ [f EXCEPT !.i = f.i + 1] \in CallFrame
         /\ [f EXCEPT !.at = "links", !.i = 1] \in CallFrame
         /\ LET g == [f EXCEPT !.i = f.i + 1]
            IN  g.doc = f.doc /\ g.saved = f.saved /\ g.at = f.at /\ g.i = f.i + 1
         /\ LET g == [f EXCEPT !.at = "links", !.i = 1]
            IN  g.doc = f.doc /\ g.saved = f.saved /\ g.at = "links" /\ g.i = 1
<1>1. PICK d \in DOMAIN Doc, at \in {"collections", "links"}, i \in Nat \ {0}, saved \in Ids :
        /\ f = [doc |-> d, at |-> at, i |-> i, saved |-> saved]
        /\ at = "collections" => Doc[d].listed # NotObject
  BY DEF CallFrame, Call
<1>2. i + 1 \in Nat \ {0} /\ 1 \in Nat \ {0}
  OBVIOUS
<1>3. /\ [f EXCEPT !.i = f.i + 1] = [doc |-> d, at |-> at, i |-> i + 1, saved |-> saved]
      /\ [f EXCEPT !.at = "links", !.i = 1] = [doc |-> d, at |-> "links", i |-> 1, saved |-> saved]
  <2>1. f = [doc |-> d, at |-> at, i |-> i, saved |-> saved]
    BY <1>1
  <2>2. f.i = i
    BY ONLY <2>1
  <2>3. [f EXCEPT !.i = f.i + 1] = [doc |-> d, at |-> at, i |-> i + 1, saved |-> saved]
    BY ONLY <2>1, <2>2
  <2>4. [f EXCEPT !.at = "links", !.i = 1] = [doc |-> d, at |-> "links", i |-> 1, saved |-> saved]
    <3>1. PICK g : g = [doc |-> d, at |-> "links", i |-> i, saved |-> saved]
      OBVIOUS
    <3>2. [f EXCEPT !.at = "links"] = g
      BY ONLY <2>1, <3>1
    <3>3. [g EXCEPT !.i = 1] = [doc |-> d, at |-> "links", i |-> 1, saved |-> saved]
      BY ONLY <3>1
    <3>4. [f EXCEPT !.at = "links", !.i = 1] = [g EXCEPT !.i = 1]
      BY ONLY <3>2
    <3> QED BY ONLY <3>3, <3>4
  <2> QED BY ONLY <2>3, <2>4
<1>4. [doc |-> d, at |-> at, i |-> i + 1, saved |-> saved] \in CallFrame
  BY <1>1, <1>2 DEF CallFrame, Call
<1>5. [doc |-> d, at |-> "links", i |-> 1, saved |-> saved] \in CallFrame
  BY <1>2 DEF CallFrame, Call
<1> QED BY ONLY <1>1, <1>3, <1>4, <1>5

(* The innermost call moves to another place of its document.              *)
TopBecomes(f) ==
  /\ f \in CallFrame /\ f.doc = Top.doc /\ f.saved = Top.saved
  /\ f.i <= Len(Elements(f)) + 1
  /\ stack' = [stack EXCEPT ![Len(stack)] = f]

(* What it gives on the way comes first.                                   *)
LEMMA TopMovesOn ==
  ASSUME Typed, stack # <<>>, NEW left, Scoped(stack, catalog_id, left),
         NEW f, TopBecomes(f),
         NEW X \in Part, NEW more \in Part, more = Reading(f.doc, f.at, f.i, catalog_id),
         Reading(Top.doc, Top.at, Top.i, catalog_id) = Then(X, more)
  PROVE  \E rest \in Part : left = Then(X, rest) /\ Scoped(stack', catalog_id, rest)
<1>1. PICK w : Unwinds(stack, w) /\ catalog_id = w[Len(stack)].cat /\ left = w[Len(stack)].left
  BY DEF Scoped
<1>2. PICK n \in Nat :
        /\ n + 1 = Len(stack) /\ Top = stack[n + 1]
        /\ w[n] \in Scope /\ w[n + 1] \in Scope /\ CallIn(Top, w[n], w[n + 1])
  BY <1>1, TopScope
<1>3. PICK below \in Part : below = w[n].left
  BY <1>2 DEF Scope
<1>4. catalog_id = w[n + 1].cat /\ left = w[n + 1].left
  BY <1>1, <1>2
<1>5. PICK rest \in Part : rest = Then(more, below)
  BY ThenTyped
<1>6. left = Then(X, rest)
  <2>1. left = Then(Then(X, more), below)
    BY <1>2, <1>3, <1>4 DEF CallIn
  <2> QED BY <1>5, <2>1, ThenAssociative
<1>7. PICK inner \in Scope : inner.cat = catalog_id /\ inner.left = rest
  <2>1. [cat |-> catalog_id, left |-> rest] \in Scope
    BY <1>2, <1>4 DEF Scope
  <2> QED BY <2>1
<1>8. CallIn(f, w[n], inner)
  BY <1>2, <1>3, <1>4, <1>5, <1>7 DEF CallIn, TopBecomes
<1>9. n <= Len(stack) /\ Len(stack) \in Nat /\ Len(stack) \in 1..Len(stack)
  BY ONLY <1>2, n \in Nat
<1>10. /\ Len(stack') = n + 1 /\ stack'[n + 1] = f
       /\ \A k \in 1..n : stack'[k] = stack[k]
  <2>1. stack \in Seq(CallFrame)
    BY DEF Typed, ReadingTyped
  <2>2. /\ Len(stack') = Len(stack)
        /\ \A k \in 1..Len(stack) : stack'[k] = IF k = Len(stack) THEN f ELSE stack[k]
    BY <1>9, <2>1, ExceptSeq DEF TopBecomes
  <2>3. \A k \in 1..n : k \in 1..Len(stack) /\ k # Len(stack)
    BY <1>2
  <2> QED BY <1>2, <1>9, <2>2, <2>3
<1>11. CallIn(stack'[n + 1], w[n], inner)
  BY <1>8, <1>10
<1>12. Scoped(stack', inner.cat, inner.left)
  BY ONLY <1>1, <1>9, <1>10, <1>11, ScopeOfOneMore, n \in Nat, inner \in Scope
<1> QED BY <1>5, <1>6, <1>7, <1>12

(* What a loop meets at its place.                                         *)
GivenAtTop ==
  IF Top.at = "collections" THEN GivenByElement(Elements(Top)[Top.i], catalog_id)
  ELSE GivenByLink(Elements(Top)[Top.i], catalog_id)

LEMMA GivenAtTopTyped ==
  ASSUME Typed, stack # <<>>, Top.i <= Len(Elements(Top))
  PROVE  GivenAtTop \in Part
<1>1. PICK d \in DOMAIN Doc, i \in Nat \ {0}, cat \in Ids :
        d = Top.doc /\ i = Top.i /\ cat = catalog_id
  BY TopList DEF Typed, ReadingTyped
<1>2. CASE Top.at = "collections"
  <2>1. Elements(Top) = Doc[d].listed /\ Doc[d].listed # NotObject
    BY <1>1, <1>2, TopList DEF Elements
  <2>2. Doc[d].listed \in Seq(DOMAIN Doc \cup {NotObject}) /\ Len(Doc[d].listed) \in Nat
    BY <2>1, ListSizes
  <2>3. i \in 1..Len(Doc[d].listed)
    BY <1>1, <2>1, <2>2
  <2>4. Doc[d].listed[i] \in DOMAIN Doc \cup {NotObject}
    BY ONLY <2>2, <2>3, ElementOfSeq
  <2> QED BY <1>1, <1>2, <2>1, <2>4, ElementTyped DEF GivenAtTop
<1>3. CASE Top.at # "collections"
  <2>1. Elements(Top) = Doc[d].links
    BY <1>1, <1>3 DEF Elements
  <2>2. i \in 1..Len(Doc[d].links)
    BY <1>1, <2>1, ListSizes
  <2> QED BY <1>1, <1>3, <2>1, <2>2, LinkTyped DEF GivenAtTop
<1> QED BY <1>2, <1>3

(* A loop that advances over an element.                                   *)
LEMMA AdvanceMovesOn ==
  ASSUME Typed, stack # <<>>, Advance, Top.i <= Len(Elements(Top)),
         NEW left, Scoped(stack, catalog_id, left)
  PROVE  \E rest \in Part : left = Then(GivenAtTop, rest) /\ Scoped(stack', catalog_id, rest)
<1>1. PICK d \in DOMAIN Doc, i \in Nat \ {0}, cat \in Ids :
        d = Top.doc /\ i = Top.i /\ cat = catalog_id
  BY TopList DEF Typed, ReadingTyped
<1>2. PICK X \in Part : X = GivenAtTop
  BY GivenAtTopTyped
<1>3. PICK f \in CallFrame : f = [Top EXCEPT !.i = Top.i + 1]
  BY TopList, FrameMoves
<1>4. f.doc = Top.doc /\ f.saved = Top.saved /\ f.at = Top.at /\ f.i = i + 1
  BY <1>1, <1>3, TopList, FrameMoves
<1>5. stack' = [stack EXCEPT ![Len(stack)] = f]
  BY <1>3 DEF Advance, Top
<1>6. PICK size \in Nat : size = Len(Elements(Top))
  BY TopList
<1>7. i \in 1..size /\ i \in 1..(size + 1) /\ i + 1 \in 1..(size + 1) /\ ~(i > size)
  BY <1>1, <1>6
<1>8. f.i <= Len(Elements(f)) + 1
  <2>1. Elements(f) = Elements(Top)
    BY <1>4 DEF Elements
  <2> QED BY <1>4, <1>6, <1>7, <2>1
<1>9. PICK more \in Part :
        /\ more = Reading(d, Top.at, i + 1, cat)
        /\ Reading(d, Top.at, i, cat) = Then(X, more)
  <2>1. CASE Top.at = "collections"
    <3>1. Elements(Top) = Doc[d].listed /\ Doc[d].listed # NotObject
      BY <1>1, <2>1, TopList DEF Elements
    <3>2. X = GivenByElement(Doc[d].listed[i], cat) /\ size = Len(Doc[d].listed)
      BY <1>1, <1>2, <1>6, <2>1, <3>1 DEF GivenAtTop
    <3>3. /\ Reading(d, "collections", i + 1, cat) \in Part
          /\ Reading(d, "collections", i, cat) = Then(X, Reading(d, "collections", i + 1, cat))
      BY <1>7, <3>1, <3>2, ReadingUnfolds
    <3> QED BY <2>1, <3>3
  <2>2. CASE Top.at = "links"
    <3>1. Elements(Top) = Doc[d].links
      BY <1>1, <2>2 DEF Elements
    <3>2. X = GivenByLink(Doc[d].links[i], cat) /\ size = Len(Doc[d].links)
      BY <1>1, <1>2, <1>6, <2>2, <3>1 DEF GivenAtTop
    <3>3. /\ Reading(d, "links", i + 1, cat) \in Part
          /\ Reading(d, "links", i, cat) = Then(X, Reading(d, "links", i + 1, cat))
      BY <1>7, <3>2, ReadingUnfolds
    <3> QED BY <2>2, <3>3
  <2> QED BY <2>1, <2>2, TopList
<1>10. /\ more = Reading(f.doc, f.at, f.i, catalog_id)
       /\ Reading(Top.doc, Top.at, Top.i, catalog_id) = Then(X, more)
  BY <1>1, <1>4, <1>9
<1>11. TopBecomes(f)
  BY <1>4, <1>5, <1>8 DEF TopBecomes
<1>12. \E rest \in Part : left = Then(X, rest) /\ Scoped(stack', catalog_id, rest)
  BY <1>10, <1>11, TopMovesOn
<1> QED BY ONLY <1>2, <1>12

(***************************************************************************)
(* What a step takes from what is yet to be read.                          *)
(***************************************************************************)
Takes(left) ==
  \E rest \in Part :
    /\ Scoped(stack', catalog_id', rest)
    /\ Then(Sofar, Then(GivenByCallee, left)) = Then(Sofar', Then(GivenByCallee', rest))

(* A loop hands an element to the document it is about to enter, or keeps  *)
(* what it gives.                                                          *)
LEMMA AdvanceTakes ==
  ASSUME Typed, next_href \in Hrefs, stack # <<>>, callee = NoDoc, Advance,
         Top.i <= Len(Elements(Top)), UNCHANGED catalog_id,
         NEW left \in Part, Scoped(stack, catalog_id, left),
         \/ UNCHANGED Sofar /\ GivenByCallee' = GivenAtTop
         \/ Sofar' = Then(Sofar, GivenAtTop) /\ GivenByCallee' = Nothing
  PROVE  Takes(left)
<1>1. PICK rest \in Part : left = Then(GivenAtTop, rest) /\ Scoped(stack', catalog_id, rest)
  BY AdvanceMovesOn
<1>2. PICK X \in Part, s \in Part : X = GivenAtTop /\ s = Sofar
  BY GivenAtTopTyped, SofarTyped
<1>3. GivenByCallee = Nothing /\ Then(Nothing, left) = left /\ Then(Nothing, rest) = rest
  BY NothingGiven DEF GivenByCallee
<1>4. Then(Sofar, Then(GivenByCallee, left)) = Then(s, Then(X, rest))
  BY <1>1, <1>2, <1>3
<1>5. Then(s, Then(X, rest)) = Then(Sofar', Then(GivenByCallee', rest))
  <2>1. CASE UNCHANGED Sofar /\ GivenByCallee' = GivenAtTop
    BY <1>2, <2>1
  <2>2. CASE Sofar' = Then(Sofar, GivenAtTop) /\ GivenByCallee' = Nothing
    BY <1>2, <1>3, <2>2, ThenAssociative
  <2> QED BY <2>1, <2>2
<1> QED BY <1>1, <1>4, <1>5 DEF Takes

(* The elements of a listing are entered one by one.                       *)
LEMMA CallListedTakes ==
  ASSUME Typed, next_href \in Hrefs, CallListed,
         NEW left \in Part, Scoped(stack, catalog_id, left)
  PROVE  Takes(left)
<1>1. /\ stack # <<>> /\ callee = NoDoc /\ Advance /\ UNCHANGED <<catalog_id, Sofar>>
      /\ Top.at = "collections" /\ Top.i <= Len(Listed)
      /\ callee' = IF Listed[Top.i] = NotObject THEN NoDoc ELSE Listed[Top.i]
  BY DEF CallListed, Looping, Sofar
<1>2. Elements(Top) = Listed
  BY <1>1 DEF Elements, Listed
<1>3. PICK d \in DOMAIN Doc, i \in Nat \ {0} : d = Top.doc /\ i = Top.i /\ Doc[d].listed # NotObject
  BY <1>1, TopList
<1>4. PICK n \in DOMAIN Doc \cup {NotObject} : n = Listed[Top.i]
  <2>1. Doc[d].listed \in Seq(DOMAIN Doc \cup {NotObject}) /\ Len(Doc[d].listed) \in Nat
    BY <1>3, ListSizes
  <2>2. Listed = Doc[d].listed /\ i \in 1..Len(Doc[d].listed)
    BY <1>1, <1>3, <2>1 DEF Listed
  <2>3. Doc[d].listed[i] \in DOMAIN Doc \cup {NotObject}
    BY ONLY <2>1, <2>2, ElementOfSeq
  <2> QED BY <1>3, <2>2, <2>3
<1>5. GivenAtTop = GivenByElement(n, catalog_id)
  BY <1>1, <1>2, <1>4 DEF GivenAtTop
<1>6. GivenByCallee' = GivenAtTop
  <2>1. CASE n = NotObject
    BY <1>1, <1>4, <1>5, <2>1 DEF GivenByCallee, GivenByElement
  <2>2. CASE n # NotObject
    <3>1. callee' = n /\ n # NoDoc
      BY <1>1, <1>4, <2>2, CollectionAssumption
    <3> QED BY <1>1, <1>5, <2>2, <3>1 DEF GivenByCallee, GivenByElement
  <2> QED BY <2>1, <2>2
<1> QED BY <1>1, <1>2, <1>6, AdvanceTakes

(* The link that a loop is looking at.                                     *)
LEMMA LinkAtTop ==
  ASSUME Typed, OnLink
  PROVE  /\ stack # <<>> /\ callee = NoDoc /\ Top.at = "links"
         /\ Top.i <= Len(Elements(Top))
         /\ GivenAtTop = GivenByLink(Link, catalog_id)
         /\ Link # NotObject => Link.href \in Hrefs
<1>1. stack # <<>> /\ callee = NoDoc /\ Top.at = "links" /\ Top.i <= Len(Links)
  BY DEF OnLink, Looping
<1>2. Elements(Top) = Links
  BY <1>1 DEF Elements, Links
<1>3. PICK d \in DOMAIN Doc, i \in Nat \ {0} : d = Top.doc /\ i = Top.i
  BY <1>1, TopList
<1>4. Links = Doc[d].links /\ Len(Doc[d].links) \in Nat
  BY <1>3, ListSizes DEF Links
<1>5. i \in 1..Len(Doc[d].links) /\ Link = Doc[d].links[i]
  BY <1>1, <1>3, <1>4 DEF Link
<1>6. Link # NotObject => Link \in LinksOf(d)
  BY <1>5, ListSizes
<1> QED BY <1>1, <1>2, <1>6 DEF GivenAtTop, Link, Hrefs

(* A link is passed over.                                                  *)
LEMMA SkipLinkTakes ==
  ASSUME Typed, next_href \in Hrefs, SkipLink,
         NEW left \in Part, Scoped(stack, catalog_id, left)
  PROVE  Takes(left)
<1>1. /\ OnLink /\ ~(Readable /\ (Link.rel = "next" \/ NeedConsumeLink(Link.rel)))
      /\ Advance /\ UNCHANGED <<catalog_id, Sofar, callee>>
  BY DEF SkipLink, Sofar
<1>2. GivenByLink(Link, catalog_id) = Nothing
  <2>1. CASE Link = NotObject
    BY <2>1 DEF GivenByLink
  <2>2. CASE Link # NotObject /\ Link.href = NoHref
    BY <2>2, ReadingAssumption DEF GivenByLink, Page, Nothing
  <2>3. CASE Link # NotObject /\ Link.href # NoHref
    <3>1. Link.rel # "next" /\ Link.rel # "child"
      BY <1>1, <2>3 DEF Readable, NeedConsumeLink
    <3> QED BY <2>3, <3>1 DEF GivenByLink
  <2> QED BY <2>1, <2>2, <2>3
<1>3. GivenByCallee' = GivenAtTop
  BY <1>1, <1>2, LinkAtTop DEF GivenByCallee
<1> QED BY <1>1, <1>3, LinkAtTop, AdvanceTakes

(* A next link takes the place of the one before.                          *)
LEMMA StoreNextLinkTakes ==
  ASSUME Typed, next_href \in Hrefs, StoreNextLink,
         NEW left \in Part, Scoped(stack, catalog_id, left)
  PROVE  Takes(left) /\ next_href' \in Hrefs
<1>1. /\ OnLink /\ Link # NotObject /\ Link.href # NoHref /\ Link.rel = "next"
      /\ Advance /\ UNCHANGED <<catalog_id, rows, callee>> /\ next_href' = Link.href
  BY DEF StoreNextLink, Readable
<1>2. PICK h \in Hrefs : h = Link.href
  BY <1>1, LinkAtTop
<1>3. GivenAtTop = [rows |-> <<>>, next |-> h]
  BY <1>1, <1>2, LinkAtTop DEF GivenByLink
<1>4. rows \o <<>> = rows
  BY ConcatEmptySeq DEF Typed, RowsTyped
<1>5. Sofar' = Then(Sofar, GivenAtTop)
  BY <1>1, <1>2, <1>3, <1>4 DEF Sofar, Then
<1>6. GivenByCallee' = Nothing
  BY <1>1, LinkAtTop DEF GivenByCallee
<1> QED BY <1>1, <1>2, <1>5, <1>6, LinkAtTop, AdvanceTakes

(* The document of a child link is entered.                                *)
LEMMA FollowLinkTakes ==
  ASSUME Typed, next_href \in Hrefs, FollowLink, status' # "failed",
         NEW left \in Part, Scoped(stack, catalog_id, left)
  PROVE  Takes(left)
<1>1. /\ OnLink /\ Link # NotObject /\ Link.rel = "child"
      /\ Advance /\ UNCHANGED <<catalog_id, Sofar>>
      /\ Link.href \in DOMAIN Serve /\ callee' = Serve[Link.href]
  BY DEF FollowLink, Readable, NeedConsumeLink, Fetch, Sofar
<1>2. callee' # NoDoc
  BY <1>1, CollectionAssumption
<1>3. GivenByLink(Link, catalog_id) = GivenBy(callee', catalog_id)
  BY <1>1 DEF GivenByLink, Page
<1>4. GivenByCallee' = GivenAtTop
  BY <1>1, <1>2, <1>3, LinkAtTop DEF GivenByCallee
<1> QED BY <1>1, <1>4, LinkAtTop, AdvanceTakes

(* The listed objects are read: the links come next.                       *)
LEMMA EndListedTakes ==
  ASSUME Typed, next_href \in Hrefs, EndListed,
         NEW left \in Part, Scoped(stack, catalog_id, left)
  PROVE  Takes(left)
<1>1. /\ stack # <<>> /\ callee = NoDoc /\ UNCHANGED <<catalog_id, Sofar, callee>>
      /\ Top.at = "collections" /\ Top.i > Len(Listed)
      /\ stack' = [stack EXCEPT ![Len(stack)].at = "links", ![Len(stack)].i = 1]
  BY DEF EndListed, Looping, Sofar
<1>2. PICK d \in DOMAIN Doc, i \in Nat \ {0}, cat \in Ids :
        d = Top.doc /\ i = Top.i /\ cat = catalog_id /\ Doc[d].listed # NotObject
  BY <1>1, TopList DEF Typed, ReadingTyped
<1>3. PICK f : f = [Top EXCEPT !.at = "links", !.i = 1]
  OBVIOUS
<1>4. f \in CallFrame /\ f.doc = Top.doc /\ f.saved = Top.saved /\ f.at = "links" /\ f.i = 1
  BY <1>1, <1>3, TopList, FrameMoves
<1>5. stack' = [stack EXCEPT ![Len(stack)] = f]
  <2>1. Len(stack) \in 1..Len(stack)
    BY <1>1, TopIsFrame DEF Typed, ReadingTyped
  <2> QED BY <1>1, <1>3, <2>1 DEF Top
<1>6. TopBecomes(f)
  <2>1. Elements(f) = Doc[d].links
    BY <1>2, <1>4 DEF Elements
  <2>2. PICK size \in Nat : size = Len(Doc[d].links)
    BY ListSizes
  <2>3. f.i <= Len(Elements(f)) + 1
    BY ONLY <1>4, <2>1, <2>2, size \in Nat
  <2> QED BY <1>4, <1>5, <2>3 DEF TopBecomes
<1>7. PICK size \in Nat, links \in Nat : size = Len(Doc[d].listed) /\ links = Len(Doc[d].links)
  BY <1>2, ListSizes
<1>8. i \in 1..(size + 1) /\ i > size /\ 1 \in 1..(links + 1)
  <2>1. i > size
    BY <1>1, <1>2, <1>7 DEF Listed
  <2>2. i <= size + 1
    <3>1. PICK w : Unwinds(stack, w)
      BY DEF Scoped
    <3>2. PICK n \in Nat : CallIn(Top, w[n], w[n + 1])
      BY <1>1, <3>1, TopScope
    <3> QED BY <1>1, <1>2, <1>7, <3>2 DEF CallIn, Elements
  <2> QED BY <2>1, <2>2
<1>9. PICK more \in Part :
        more = Reading(d, "links", 1, cat) /\ Reading(d, "collections", i, cat) = more
  BY <1>2, <1>7, <1>8, ReadingUnfolds
<1>10. PICK X \in Part : X = Nothing
  BY NothingGiven
<1>11. /\ more = Reading(f.doc, f.at, f.i, catalog_id)
       /\ Reading(Top.doc, Top.at, Top.i, catalog_id) = Then(X, more)
  BY <1>1, <1>2, <1>4, <1>9, <1>10, NothingGiven
<1>12. stack # <<>> /\ Scoped(stack, catalog_id, left)
  BY <1>1
<1>13. PICK rest \in Part : left = Then(X, rest) /\ Scoped(stack', catalog_id, rest)
  BY ONLY Typed, <1>6, <1>11, <1>12, TopMovesOn, X \in Part, more \in Part
<1>14. left = rest
  BY <1>10, <1>13, NothingGiven
<1>15. GivenByCallee' = GivenByCallee
  BY <1>1 DEF GivenByCallee
<1> QED BY <1>1, <1>13, <1>14, <1>15 DEF Takes

(* The callee is entered: what it gives comes first, and its row before    *)
(* everything else.                                                        *)
LEMMA EnteringTakes ==
  ASSUME Typed, next_href \in Hrefs, EnterCatalog \/ EnterListing \/ EnterCollection,
         NEW left \in Part, Scoped(stack, catalog_id, left)
  PROVE  Takes(left)
<1>1. PICK d \in DOMAIN Doc, cat \in Ids :
        d = callee /\ cat = catalog_id /\ callee # NoDoc /\ callee' = NoDoc
  BY DEF EnterCatalog, EnterListing, EnterCollection, Calling, Typed, ReadingTyped
<1>2. PICK at \in {"collections", "links"}, cat2 \in Ids, row \in Part :
        /\ stack' = Append(stack, [doc |-> d, at |-> at, i |-> 1, saved |-> cat])
        /\ cat2 = catalog_id'
        /\ cat2 = IF TypeOf(d) = "Catalog" THEN IdOr(Doc[d].id, cat) ELSE cat
        /\ GivenBy(d, cat) = Then(row, Reading(d, at, 1, cat2))
        /\ at = "collections" => Doc[d].listed # NotObject
        /\ Sofar' = Then(Sofar, row)
  <2>1. Then(Sofar, Nothing) = Sofar
    BY SofarTyped, NothingGiven
  <2>2. CASE EnterCatalog
    <3>1. /\ TypeOf(d) = "Catalog" /\ catalog_id' = IdOr(Doc[d].id, cat) /\ Sofar' = Sofar
          /\ stack' = Append(stack, [doc |-> d, at |-> "links", i |-> 1, saved |-> cat])
      BY <1>1, <2>2 DEF EnterCatalog, Calling, Frame, Sofar
    <3>2. IdOr(Doc[d].id, cat) \in Ids
      BY IdOrTyped
    <3>3. GivenBy(d, cat) = Reading(d, "links", 1, IdOr(Doc[d].id, cat))
      BY <3>1 DEF GivenBy
    <3>4. 1 \in 1..(Len(Doc[d].links) + 1)
      BY ListSizes
    <3>5. GivenBy(d, cat) = Then(Nothing, Reading(d, "links", 1, IdOr(Doc[d].id, cat)))
      BY <3>2, <3>3, <3>4, NothingGiven, ReadingUnfolds
    <3> QED BY <2>1, <3>1, <3>2, <3>5, NothingGiven
  <2>3. CASE EnterListing
    <3>1. /\ TypeOf(d) = "Collections" /\ catalog_id' = cat /\ Sofar' = Sofar
          /\ stack' = Append(stack, [doc |-> d, at |-> "collections", i |-> 1, saved |-> cat])
      BY <1>1, <2>3 DEF EnterListing, Calling, Frame, Sofar
    <3>2. Doc[d].listed # NotObject
      BY <3>1, ListingHasList
    <3>3. GivenBy(d, cat) = Reading(d, "collections", 1, cat)
      BY <3>1 DEF GivenBy
    <3>4. 1 \in 1..(Len(Doc[d].listed) + 1)
      BY <3>2, ListSizes
    <3>5. GivenBy(d, cat) = Then(Nothing, Reading(d, "collections", 1, cat))
      BY <3>2, <3>3, <3>4, NothingGiven, ReadingUnfolds
    <3> QED BY <2>1, <3>1, <3>2, <3>5, NothingGiven
  <2>4. CASE EnterCollection
    <3>1. /\ TypeOf(d) = "Collection" /\ Doc[d].id # NoId /\ catalog_id' = cat
          /\ rows' = Append(rows, [id |-> d, catalog |-> cat]) /\ next_href' = next_href
          /\ stack' = Append(stack, [doc |-> d, at |-> "links", i |-> 1, saved |-> cat])
      BY <1>1, <2>4 DEF EnterCollection, Calling, Frame
    <3>2. GivenBy(d, cat) = Then(RowOf(d, cat), Reading(d, "links", 1, cat))
      BY <3>1 DEF GivenBy
    <3>3. rows' = rows \o <<[id |-> d, catalog |-> cat]>>
      <4>1. [id |-> d, catalog |-> cat] \in Row
        BY DEF Row
      <4> QED BY <3>1, <4>1, AppendIsConcat DEF Typed, RowsTyped
    <3>4. Sofar' = Then(Sofar, RowOf(d, cat))
      BY <3>1, <3>3 DEF Sofar, Then, RowOf
    <3> QED BY <3>1, <3>2, <3>4, RowOfTyped
  <2> QED BY <2>2, <2>3, <2>4
<1>3. PICK f : f = [doc |-> d, at |-> at, i |-> 1, saved |-> cat]
  OBVIOUS
<1>4. f.doc = d /\ f.at = at /\ f.i = 1 /\ f.saved = cat
  BY ONLY <1>3
<1>5. PICK size \in Nat : size = Len(Elements(f))
  BY <1>2, <1>4, ListSizes DEF Elements
<1>6. PICK reading1 \in Part : reading1 = Reading(d, at, 1, cat2)
  <2>1. 1 \in 1..(size + 1)
    OBVIOUS
  <2>2. CASE at = "links"
    <3>1. size = Len(Doc[d].links)
      BY <1>4, <1>5, <2>2 DEF Elements
    <3> QED BY <2>1, <2>2, <3>1, ReadingUnfolds
  <2>3. CASE at = "collections"
    <3>1. size = Len(Doc[d].listed) /\ Doc[d].listed # NotObject
      BY <1>2, <1>4, <1>5, <2>3 DEF Elements
    <3> QED BY <2>1, <2>3, <3>1, ReadingUnfolds
  <2> QED BY <2>2, <2>3
<1>7. PICK rest \in Part : rest = Then(reading1, left)
  BY ThenTyped
<1>8. PICK w : Unwinds(stack, w) /\ cat = w[Len(stack)].cat /\ left = w[Len(stack)].left
  BY <1>1 DEF Scoped
<1>9. PICK n \in Nat : n = Len(stack)
  BY DEF Typed, ReadingTyped
<1>10. PICK inner \in Scope : inner.cat = cat2 /\ inner.left = rest
  <2>1. [cat |-> cat2, left |-> rest] \in Scope
    BY DEF Scope
  <2> QED BY <2>1
<1>11. CallIn(f, w[n], inner)
  <2>1. f.i <= Len(Elements(f)) + 1
    BY ONLY <1>4, <1>5, size \in Nat
  <2> QED BY ONLY <1>2, <1>4, <1>6, <1>7, <1>8, <1>9, <1>10, <2>1 DEF CallIn
<1>12. Len(stack') = n + 1 /\ stack'[n + 1] = f /\ \A k \in 1..n : stack'[k] = stack[k]
  <2>1. stack \in Seq(CallFrame) /\ stack' = Append(stack, f)
    BY <1>2, <1>3 DEF Typed, ReadingTyped
  <2> QED BY ONLY <1>9, <2>1
<1>13. CallIn(stack'[n + 1], w[n], inner)
  BY <1>11, <1>12
<1>14. Scoped(stack', inner.cat, inner.left)
  BY ONLY <1>8, <1>9, <1>12, <1>13, ScopeOfOneMore, n \in Nat, inner \in Scope
<1>15. Then(Sofar, Then(GivenByCallee, left)) = Then(Sofar', Then(GivenByCallee', rest))
  <2>1. PICK s \in Part : s = Sofar
    BY SofarTyped
  <2>2. GivenByCallee = Then(row, reading1) /\ GivenByCallee' = Nothing
    BY <1>1, <1>2, <1>6 DEF GivenByCallee
  <2>3. Then(GivenByCallee, left) = Then(row, rest)
    BY <1>7, <2>2, ThenAssociative
  <2>4. Then(s, Then(row, rest)) = Then(Then(s, row), rest)
    BY ThenAssociative
  <2> QED BY <1>2, <2>1, <2>2, <2>3, <2>4, NothingGiven
<1> QED BY <1>2, <1>10, <1>14, <1>15 DEF Takes

(* A call returns: it gave nothing more, and a Catalog puts the id back.   *)
LEMMA ReturningTakes ==
  ASSUME Typed, next_href \in Hrefs, Return,
         NEW left \in Part, Scoped(stack, catalog_id, left)
  PROVE  Takes(left)
<1>1. /\ stack # <<>> /\ callee = NoDoc /\ UNCHANGED <<Sofar, callee>>
      /\ Top.at = "links" /\ Top.i > Len(Links)
      /\ stack' = SubSeq(stack, 1, Len(stack) - 1)
      /\ catalog_id' = IF TypeOf(Top.doc) = "Catalog" THEN Top.saved ELSE catalog_id
  BY DEF Return, Looping, Sofar
<1>2. PICK w : Unwinds(stack, w) /\ catalog_id = w[Len(stack)].cat /\ left = w[Len(stack)].left
  BY DEF Scoped
<1>3. PICK n \in Nat :
        /\ n + 1 = Len(stack) /\ Top = stack[n + 1]
        /\ w[n] \in Scope /\ w[n + 1] \in Scope /\ CallIn(Top, w[n], w[n + 1])
  BY <1>1, <1>2, TopScope
<1>4. PICK d \in DOMAIN Doc, i \in Nat \ {0}, cat \in Ids :
        d = Top.doc /\ i = Top.i /\ cat = catalog_id
  BY <1>1, TopList DEF Typed, ReadingTyped
<1>5. PICK size \in Nat : size = Len(Doc[d].links)
  BY ListSizes
<1>6. i \in 1..(size + 1) /\ i > size
  BY <1>1, <1>3, <1>4, <1>5 DEF CallIn, Elements, Links
<1>7. Reading(d, "links", i, cat) = Nothing
  BY <1>5, <1>6, ReadingUnfolds
<1>8. PICK below \in Part : below = w[n].left
  BY <1>3 DEF Scope
<1>9. left = below
  <2>1. left = Then(Reading(d, "links", i, cat), below)
    BY <1>1, <1>2, <1>3, <1>4, <1>8 DEF CallIn
  <2> QED BY <1>7, <2>1, NothingGiven
<1>10. catalog_id' = w[n].cat
  <2>1. catalog_id = w[n + 1].cat
    BY <1>2, <1>3
  <2> QED BY <1>1, <1>3, <2>1 DEF CallIn
<1>11. n <= Len(stack) /\ Len(stack) \in Nat /\ Len(stack) - 1 = n
  BY ONLY <1>3, n \in Nat
<1>12. Len(stack') = n /\ \A k \in 1..n : stack'[k] = stack[k]
  <2>1. stack \in Seq(CallFrame) /\ stack' = SubSeq(stack, 1, n)
    BY <1>1, <1>11 DEF Typed, ReadingTyped
  <2> QED BY ONLY <1>11, <2>1, SubSeqProperties, n \in Nat
<1>13. Scoped(stack', w[n].cat, w[n].left)
  BY ONLY <1>2, <1>11, <1>12, ScopeOfFewer, n \in Nat
<1>14. GivenByCallee = Nothing /\ GivenByCallee' = Nothing
  BY <1>1 DEF GivenByCallee
<1> QED BY <1>1, <1>8, <1>9, <1>10, <1>13, <1>14 DEF Takes

(* An object of another type gives nothing.                                *)
LEMMA IgnoringTakes ==
  ASSUME Typed, next_href \in Hrefs, IgnoreOther,
         NEW left \in Part, Scoped(stack, catalog_id, left)
  PROVE  Takes(left)
<1>1. /\ TypeOf(callee) = "Other" /\ callee # NoDoc /\ callee' = NoDoc
      /\ UNCHANGED <<stack, catalog_id, Sofar>>
  BY DEF IgnoreOther, Calling, Sofar
<1>2. GivenByCallee = Nothing /\ GivenByCallee' = Nothing
  BY <1>1 DEF GivenByCallee, GivenBy
<1> QED BY <1>1, <1>2 DEF Takes

(* Whatever fails, the rows so far are the first of those expected.        *)
LEMMA OpenReadsFirst ==
  ASSUME Typed, OrderInv, status = "open"
  PROVE  FirstOfExpected
<1>1. PICK left \in Part : Whole(Then(Sofar, Then(GivenByCallee, left))) = Expected
  BY DEF OrderInv, Reads
<1>2. Then(GivenByCallee, left) \in Part
  BY GivenByCalleeTyped, ThenTyped
<1> QED BY <1>1, <1>2, RowsComeFirst DEF OrderInv

(***************************************************************************)
(* Pages.                                                                  *)
(***************************************************************************)
(* Outside all calls nothing is left.                                      *)
LEMMA NothingOpen ==
  ASSUME NEW cat, NEW left, Scoped(<<>>, cat, left)
  PROVE  cat = "" /\ left = Nothing
<1>1. PICK w : Unwinds(<<>>, w) /\ cat = w[0].cat /\ left = w[0].left
  BY DEF Scoped
<1>2. w[0] = Outermost
  BY ONLY <1>1 DEF Unwinds
<1>3. Outermost.cat = "" /\ Outermost.left = Nothing
  BY DEF Outermost
<1> QED BY ONLY <1>1, <1>2, <1>3

LEMMA NothingOpened == Scoped(<<>>, "", Nothing)
<1> DEFINE w == [k \in 0..0 |-> Outermost]
<1>1. Outermost \in Scope
  BY NothingGiven DEF Outermost, Scope, Ids
<1>2. w \in [0..0 -> Scope] /\ w[0] = Outermost
  BY <1>1
<1> HIDE DEF w
<1>3. Unwinds(<<>>, w)
  BY <1>2 DEF Unwinds
<1>4. Outermost.cat = "" /\ Outermost.left = Nothing /\ Len(<<>>) = 0
  BY DEF Outermost
<1>5. "" = w[Len(<<>>)].cat /\ Nothing = w[Len(<<>>)].left
  BY ONLY <1>2, <1>4
<1> QED BY ONLY <1>3, <1>5 DEF Scoped

LEMMA FirstPageReads ==
  ASSUME Typed, OrderInv, ReadFirstPage
  PROVE  OrderInv'
<1>1. /\ rows = <<>> /\ next_href = NoHref /\ catalog_id = "" /\ stack = <<>>
      /\ UNCHANGED <<origin, rows, next_href, catalog_id, stack>>
  BY DEF ReadFirstPage, OrderInv
<1>2. PICK page \in Part : page = Page(origin, "")
  BY PageTyped DEF Ids
<1>3. Expected' = Whole(page) /\ Expected = Whole(page)
  BY <1>1, <1>2 DEF Expected
<1>4. CASE status' = "open"
  <2>1. origin \in DOMAIN Serve /\ callee' = Serve[origin] /\ callee' # NoDoc
    BY <1>4, CollectionAssumption DEF ReadFirstPage, Fetch
  <2>2. GivenByCallee' = page /\ Sofar' = Nothing
    BY <1>1, <1>2, <2>1 DEF GivenByCallee, Page, Sofar, Nothing
  <2>3. Then(Sofar', Then(GivenByCallee', Nothing)) = page /\ Nothing \in Part
    BY <2>2, NothingGiven
  <2>4. Scoped(stack', catalog_id', Nothing)
    BY <1>1, NothingOpened
  <2>5. Reads'
    BY <1>3, <2>3, <2>4 DEF Reads
  <2> QED BY <1>1, <1>4, <2>5 DEF OrderInv
<1>5. CASE status' = "failed"
  <2>1. Len(Expected') \in Nat
    BY <1>3, WholeTyped
  <2>2. rows' = <<>> /\ Len(<<>>) = 0
    BY <1>1
  <2>3. FirstOfExpected'
    BY <2>1, <2>2 DEF FirstOfExpected
  <2> QED BY <1>1, <1>5, <2>3 DEF OrderInv
<1> QED BY <1>4, <1>5, FetchTyped DEF ReadFirstPage

(* Between two pages all is read but what the next one and the pages after *)
(* it list.                                                                *)
LEMMA BetweenPagesLeft ==
  ASSUME Typed, OrderInv, BetweenPages
  PROVE  catalog_id = "" /\ rows \o Later(next_href) = Expected
<1>1. stack = <<>> /\ callee = NoDoc /\ status = "open"
  BY DEF BetweenPages
<1>2. PICK left \in Part : /\ Scoped(<<>>, catalog_id, left)
                           /\ Whole(Then(Sofar, Then(GivenByCallee, left))) = Expected
  BY <1>1 DEF OrderInv, Reads
<1>3. catalog_id = "" /\ left = Nothing
  BY <1>2, NothingOpen
<1>4. GivenByCallee = Nothing /\ Sofar \in Part
  BY <1>1, SofarTyped DEF GivenByCallee, OrderInv
<1>5. Whole(Sofar) = Expected
  BY <1>2, <1>3, <1>4, NothingGiven
<1> QED BY <1>3, <1>5 DEF Whole, Sofar

LEMMA NextPageReads ==
  ASSUME Typed, OrderInv, ReadNextPage
  PROVE  OrderInv'
<1>1. /\ BetweenPages /\ next_href # NoHref /\ next_href' = NoHref /\ Fetch(next_href)
      /\ UNCHANGED <<origin, rows, catalog_id, stack>> /\ NoHref \in Hrefs
  BY DEF ReadNextPage, Hrefs
<1>2. PICK h \in Hrefs : h = next_href
  BY DEF OrderInv
<1>3. catalog_id = "" /\ rows \o Later(h) = Expected
  BY <1>1, <1>2, BetweenPagesLeft
<1>4. PICK page \in Part : page = Page(h, "")
  BY PageTyped DEF Ids
<1>5. Later(h) = page.rows \o Later(page.next)
  BY <1>1, <1>2, <1>4, LaterUnfolds DEF Whole
<1>6. PICK s \in Part : s = [rows |-> rows, next |-> NoHref]
  BY <1>1, PartOf DEF Typed, RowsTyped
<1>7. Whole(Then(s, page)) = Expected
  <2>1. PICK r \in Seq(Row), t \in Seq(Row), u \in Seq(Row) :
          r = rows /\ t = page.rows /\ u = Later(page.next)
    BY PartFields, LaterUnfolds DEF Typed, RowsTyped
  <2>2. (r \o t) \o u = r \o (t \o u)
    BY RowsAssociative
  <2>3. Then(s, page).rows = r \o t /\ Then(s, page).next = page.next
    BY <1>6, <2>1 DEF Then
  <2> QED BY <1>3, <1>5, <2>1, <2>2, <2>3 DEF Whole
<1>8. Sofar' = s /\ Expected' = Expected
  BY <1>1, <1>6 DEF Sofar, Expected
<1>9. CASE status' = "open"
  <2>1. h \in DOMAIN Serve /\ callee' = Serve[h] /\ callee' # NoDoc
    BY <1>1, <1>2, <1>9, CollectionAssumption DEF Fetch
  <2>2. GivenByCallee' = page
    BY <1>1, <1>3, <1>4, <2>1 DEF GivenByCallee, Page
  <2>3. Then(Sofar', Then(GivenByCallee', Nothing)) = Then(s, page) /\ Nothing \in Part
    BY <1>8, <2>2, NothingGiven
  <2>4. Scoped(stack', catalog_id', Nothing)
    BY <1>1, <1>3, NothingOpened DEF BetweenPages
  <2>5. Reads'
    BY <1>7, <1>8, <2>3, <2>4 DEF Reads
  <2> QED BY <1>1, <1>9, <2>5 DEF OrderInv
<1>10. CASE status' = "failed"
  <2>1. FirstOfExpected
    BY <1>1, OpenReadsFirst DEF BetweenPages
  <2>2. FirstOfExpected'
    BY <1>1, <1>8, <2>1 DEF FirstOfExpected
  <2> QED BY <1>1, <1>10, <2>2 DEF OrderInv
<1> QED BY <1>1, <1>9, <1>10, FetchTyped

(* Bind ends when no page is left.                                         *)
LEMMA BindReadsAll ==
  ASSUME Typed, OrderInv, BindReturns
  PROVE  OrderInv'
<1>1. /\ BetweenPages /\ next_href = NoHref /\ status' = "bound"
      /\ UNCHANGED <<origin, rows, next_href>> /\ NoHref \in Hrefs
  BY DEF BindReturns, reading, Hrefs
<1>2. rows \o <<>> = Expected
  BY <1>1, BetweenPagesLeft, LaterUnfolds
<1>3. rows \o <<>> = rows
  BY ConcatEmptySeq DEF Typed, RowsTyped
<1>4. rows' = Expected'
  BY <1>1, <1>2, <1>3 DEF Expected
<1> QED BY <1>1, <1>4 DEF OrderInv

(***************************************************************************)
(* The invariant is kept.                                                  *)
(***************************************************************************)
(* A step inside a page.                                                   *)
LEMMA PageStepsTake ==
  ASSUME Typed, next_href \in Hrefs, status' = "open",
         \/ IgnoreOther \/ EnterCatalog \/ EnterListing \/ EnterCollection \/ CallListed
         \/ EndListed \/ SkipLink \/ StoreNextLink \/ FollowLink \/ Return,
         NEW left \in Part, Scoped(stack, catalog_id, left)
  PROVE  Takes(left) /\ next_href' \in Hrefs
<1>1. Takes(left)
  BY EnteringTakes, ReturningTakes, IgnoringTakes, CallListedTakes, EndListedTakes,
     SkipLinkTakes, StoreNextLinkTakes, FollowLinkTakes
<1>2. StoreNextLink \/ next_href' = next_href
  BY DEF IgnoreOther, EnterCatalog, EnterListing, EnterCollection, CallListed, EndListed,
     SkipLink, FollowLink, Return
<1>3. next_href' \in Hrefs
  BY <1>2, StoreNextLinkTakes
<1> QED BY <1>1, <1>3

LEMMA PageStepsKeepOrder ==
  ASSUME Typed, OrderInv,
         \/ IgnoreOther \/ EnterCatalog \/ EnterListing \/ EnterCollection \/ CallListed
         \/ EndListed \/ SkipLink \/ StoreNextLink \/ FollowLink \/ Return
  PROVE  OrderInv'
<1>1. /\ status = "open" /\ UNCHANGED origin
      /\ status' = "open" \/ (FollowLink /\ status' = "failed")
  <2>1. CASE FollowLink
    <3>1. status = "open" /\ UNCHANGED origin /\ Fetch(Link.href)
      BY <2>1 DEF FollowLink, OnLink, Looping
    <3>2. status' \in {"open", "failed"}
      BY <3>1, FetchTyped
    <3> QED BY <2>1, <3>1, <3>2
  <2>2. CASE IgnoreOther \/ EnterCatalog \/ EnterListing \/ EnterCollection
    BY <2>2 DEF IgnoreOther, EnterCatalog, EnterListing, EnterCollection, Calling
  <2>3. CASE CallListed \/ EndListed \/ SkipLink \/ StoreNextLink \/ Return
    BY <2>3 DEF CallListed, EndListed, SkipLink, StoreNextLink, Return, OnLink, Looping
  <2> QED BY <2>1, <2>2, <2>3
<1>2. Expected' = Expected
  BY <1>1 DEF Expected
<1>3. CASE status' = "open"
  <2>1. PICK left \in Part : /\ Scoped(stack, catalog_id, left)
                             /\ Whole(Then(Sofar, Then(GivenByCallee, left))) = Expected
    BY <1>1 DEF OrderInv, Reads
  <2>2. Takes(left) /\ next_href' \in Hrefs
    BY <1>3, <2>1, PageStepsTake DEF OrderInv
  <2>3. Reads'
    BY <1>2, <2>1, <2>2 DEF Takes, Reads
  <2> QED BY <1>3, <2>2, <2>3 DEF OrderInv
<1>4. CASE FollowLink /\ status' = "failed"
  <2>1. FirstOfExpected
    BY <1>1, OpenReadsFirst
  <2>2. FirstOfExpected' /\ next_href' \in Hrefs
    BY <1>2, <1>4, <2>1 DEF FollowLink, FirstOfExpected, OrderInv
  <2> QED BY <1>4, <2>2 DEF OrderInv
<1> QED BY <1>1, <1>3, <1>4

LEMMA OrderKept ==
  ASSUME Typed, OrderInv, [Next]_vars
  PROVE  OrderInv'
<1>1. CASE MissingType \/ MissingId
  <2>1. /\ status = "open" /\ status' = "failed"
        /\ UNCHANGED <<origin, rows, next_href>>
    BY <1>1 DEF MissingType, MissingId, Throw, Calling, reading
  <2>2. FirstOfExpected'
    BY <2>1, OpenReadsFirst DEF FirstOfExpected, Expected
  <2> QED BY <2>1, <2>2 DEF OrderInv
<1>2. CASE Execute
  <2>1. /\ status = "bound" /\ status' \in {"bound", "exhausted"}
        /\ UNCHANGED <<origin, rows, next_href>>
    BY <1>2 DEF Execute, reading
  <2>2. rows' = Expected'
    BY <2>1 DEF OrderInv, Expected
  <2> QED BY <2>1, <2>2 DEF OrderInv
<1>3. CASE UNCHANGED vars
  <2>1. UNCHANGED <<status, Reads, Expected, FirstOfExpected, rows, next_href, catalog_id,
                    stack, callee>>
    BY <1>3 DEF vars, reading, Reads, Expected, FirstOfExpected, Sofar, GivenByCallee
  <2> QED BY <2>1 DEF OrderInv
<1> QED BY <1>1, <1>2, <1>3, StepCases, FirstPageReads, NextPageReads, BindReadsAll,
     PageStepsKeepOrder

LEMMA OrderAtStart == Init => OrderInv
BY DEF Init, OrderInv, Hrefs

LEMMA OrderSuffices ==
  ASSUME Typed, OrderInv
  PROVE  CollectionsInOrder
<1>1. DOMAIN rows = 1..Len(rows) /\ Len(rows) \in Nat
  BY DEF Typed, RowsTyped
<1>2. CASE status \in {"bound", "exhausted"}
  <2>1. PICK e : e = Expected
    OBVIOUS
  <2>2. rows = e
    BY <1>2, <2>1 DEF OrderInv
  <2>3. Len(rows) <= Len(e) /\ Len(rows) = Len(e) /\ \A i \in DOMAIN rows : rows[i] = e[i]
    BY ONLY <1>1, <2>2
  <2> QED BY <2>1, <2>3 DEF CollectionsInOrder, Expected
<1>3. CASE status \in {"new", "open", "failed"}
  <2>1. FirstOfExpected
    <3>1. CASE status = "new"
      <4>1. PICK page \in Part : page = Page(origin, "")
        BY PageTyped DEF Ids
      <4>2. Len(Expected) \in Nat
        BY <4>1, WholeTyped DEF Expected
      <4>3. rows = <<>>
        BY <3>1 DEF OrderInv
      <4> QED BY <4>2, <4>3 DEF FirstOfExpected
    <3>2. CASE status = "open"
      BY <3>2, OpenReadsFirst
    <3>3. CASE status = "failed"
      BY <3>3 DEF OrderInv
    <3> QED BY <1>3, <3>1, <3>2, <3>3
  <2> QED BY <1>1, <1>3, <2>1 DEF FirstOfExpected, CollectionsInOrder, Expected
<1> QED BY <1>2, <1>3 DEF Typed, StatusTyped

(* Whatever the catalog, the collections of its pages come in reading      *)
(* order, each with the id of the Catalog around it, when the rows of Bind *)
(* are those that the reference lists.                                     *)
THEOREM CollectionsComeInOrder == Spec => []CollectionsInOrder
<1>1. Typed /\ OrderInv /\ [Next]_vars => OrderInv'
  BY OrderKept
<1> QED BY <1>1, OrderAtStart, TypedInvariant, OrderSuffices, PTL DEF Spec

=============================================================================
