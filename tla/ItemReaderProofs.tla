-------------------------- MODULE ItemReaderProofs --------------------------
(***************************************************************************)
(* What the item reader guarantees for every catalog, of any size, shape   *)
(* and depth, cyclic ones and malformed documents included.                *)
(***************************************************************************)
EXTENDS ItemReader, SequenceTheorems, TLAPS

(* Each action of the reader, for the case splits below.                   *)
LEMMA StepCases ==
  ASSUME [Next]_vars
  PROVE  \/ ReadFirstPage \/ ReadNextPage \/ NoMorePages
         \/ ReturnAtLimit \/ MissingType \/ IgnoreOther
         \/ EnterCatalog \/ EnterCollection \/ EnterFeatureCollection
         \/ SkipFeature \/ InvalidFeature \/ RejectFeature
         \/ SkipMatchingFeature \/ KeepFeature
         \/ SkipEntry \/ StopFeatures \/ CallFeature \/ EndFeatures
         \/ StopLinks \/ EndLinks \/ SkipLink \/ StoreNextLink \/ RefuseNextLink \/ FollowLink
         \/ UNCHANGED vars
  BY DEF Next, ReadContentOfObject, ReadContentOfLinks

(***************************************************************************)
(* The call stack: pushing, advancing and returning keep it a stack.       *)
(***************************************************************************)
(* Moving a call on to its next feature, or from features to links.        *)
LEMMA FrameMoves ==
  ASSUME NEW f \in CallFrame
  PROVE  /\ [f EXCEPT !.i = f.i + 1] \in CallFrame
         /\ [f EXCEPT !.i = f.i + 1].doc = f.doc
         /\ [f EXCEPT !.i = f.i + 1].saved = f.saved
         /\ [f EXCEPT !.i = f.i + 1].at = f.at
         /\ [f EXCEPT !.at = "links", !.i = 1] \in CallFrame
         /\ [f EXCEPT !.at = "links", !.i = 1].doc = f.doc
         /\ [f EXCEPT !.at = "links", !.i = 1].saved = f.saved
         /\ [f EXCEPT !.at = "links", !.i = 1].at = "links"
<1>1. f.i + 1 \in Nat \ {0}
  BY DEF CallFrame
<1>2. /\ [f EXCEPT !.i = f.i + 1] \in CallFrame
      /\ [f EXCEPT !.i = f.i + 1].doc = f.doc
      /\ [f EXCEPT !.i = f.i + 1].saved = f.saved
      /\ [f EXCEPT !.i = f.i + 1].at = f.at
  BY <1>1 DEF CallFrame
<1>3. /\ 1 \in Nat \ {0}
      /\ "links" \in {"features", "links"}
  OBVIOUS
<1>4. [f EXCEPT !.at = "links"] \in CallFrame
  BY <1>3 DEF CallFrame
<1>5. [f EXCEPT !.at = "links", !.i = 1] \in CallFrame
  BY <1>3, <1>4 DEF CallFrame
<1>6. [f EXCEPT !.at = "links", !.i = 1].doc = f.doc
  BY DEF CallFrame
<1>7. [f EXCEPT !.at = "links", !.i = 1].saved = f.saved
  BY DEF CallFrame
<1>8. [f EXCEPT !.at = "links", !.i = 1].at = "links"
  BY DEF CallFrame
<1> QED
  BY <1>2, <1>5, <1>6, <1>7, <1>8

(* The innermost call reads a document; returning leaves the calls below.  *)
LEMMA TopIsFrame ==
  ASSUME stack \in Seq(CallFrame), stack # <<>>
  PROVE  /\ Len(stack) \in Nat \ {0}
         /\ Top \in CallFrame
         /\ Top.doc \in DOMAIN Doc
         /\ SubSeq(stack, 1, Len(stack) - 1) \in Seq(CallFrame)
         /\ Len(SubSeq(stack, 1, Len(stack) - 1)) = Len(stack) - 1
         /\ \A k \in 1..(Len(stack) - 1) : SubSeq(stack, 1, Len(stack) - 1)[k] = stack[k]
<1>1. Len(stack) \in Nat \ {0}
  BY EmptySeq
<1>2. \A k \in 1..Len(stack) : stack[k] \in CallFrame
  BY ElementOfSeq
<1>3. Top \in CallFrame
  BY <1>1, <1>2 DEF Top
<1>4. Top.doc \in DOMAIN Doc
  BY <1>3 DEF CallFrame
<1>5. \A k \in 1..(Len(stack) - 1) : stack[k] \in CallFrame
  BY <1>1, <1>2
<1>6. Len(stack) - 1 \in Nat
  BY <1>1
<1>7. PICK n \in Nat : n = Len(stack) - 1
  BY <1>6
<1>8. \A k \in 1..n : stack[k] \in CallFrame
  BY <1>5, <1>7
<1>9. /\ SubSeq(stack, 1, n) \in Seq(CallFrame)
      /\ Len(SubSeq(stack, 1, n)) = IF 1 <= n THEN n - 1 + 1 ELSE 0
      /\ \A k \in 1..(n - 1 + 1) : SubSeq(stack, 1, n)[k] = stack[1 + k - 1]
  BY <1>8, SubSeqProperties
<1>10. Len(SubSeq(stack, 1, n)) = n
  BY <1>9
<1>11. \A k \in 1..n : SubSeq(stack, 1, n)[k] = stack[k]
  BY <1>9
<1> QED
  BY <1>1, <1>3, <1>4, <1>7, <1>9, <1>10, <1>11

(* Advancing a loop changes the position of the innermost call only.       *)
LEMMA AdvanceKeepsCalls ==
  ASSUME stack \in Seq(CallFrame), stack # <<>>, Advance
  PROVE  /\ stack' \in Seq(CallFrame) /\ Len(stack') = Len(stack)
         /\ \A k \in 1..Len(stack) : /\ stack'[k].doc = stack[k].doc
                                     /\ stack'[k].saved = stack[k].saved
                                     /\ stack'[k].at = stack[k].at
<1> DEFINE moved == [Top EXCEPT !.i = @ + 1]
<1>1. Len(stack) \in Nat \ {0} /\ Top \in CallFrame
  BY TopIsFrame
<1>2. /\ moved \in CallFrame /\ moved.doc = Top.doc /\ moved.saved = Top.saved
      /\ moved.at = Top.at
  BY <1>1, FrameMoves
<1>3. stack' = [stack EXCEPT ![Len(stack)] = moved]
  BY DEF Advance, Top
<1>4. /\ stack' \in Seq(CallFrame) /\ Len(stack') = Len(stack)
      /\ \A k \in 1..Len(stack) :
           stack'[k] = IF k = Len(stack) THEN moved ELSE stack[k]
  BY <1>1, <1>2, <1>3, ExceptSeq
<1> QED
  BY <1>1, <1>2, <1>4 DEF Top

(* EndFeatures starts the loop over the links of the same call.            *)
LEMMA EndFeaturesKeepsCalls ==
  ASSUME stack \in Seq(CallFrame), EndFeatures
  PROVE  /\ stack' \in Seq(CallFrame) /\ Len(stack') = Len(stack)
         /\ \A k \in 1..Len(stack) : /\ stack'[k].doc = stack[k].doc
                                     /\ stack'[k].saved = stack[k].saved
                                     /\ stack'[k].at \in {stack[k].at, "links"}
<1> DEFINE moved == [Top EXCEPT !.at = "links", !.i = 1]
<1>1. stack # <<>>
  BY DEF EndFeatures, Looping
<1>2. Len(stack) \in Nat \ {0} /\ Top \in CallFrame
  BY <1>1, TopIsFrame
<1>3. /\ moved \in CallFrame /\ moved.doc = Top.doc /\ moved.saved = Top.saved
      /\ moved.at = "links"
  BY <1>2, FrameMoves
<1>4. stack' = [stack EXCEPT ![Len(stack)] = moved]
  BY <1>2 DEF EndFeatures, Top
<1>5. /\ stack' \in Seq(CallFrame) /\ Len(stack') = Len(stack)
      /\ \A k \in 1..Len(stack) :
           stack'[k] = IF k = Len(stack) THEN moved ELSE stack[k]
  BY <1>2, <1>3, <1>4, ExceptSeq
<1> QED
  BY <1>2, <1>3, <1>5 DEF Top

(***************************************************************************)
(* The documents: what an open call, a feature and a link may name.        *)
(***************************************************************************)
(* A document has the fields its type may use.                             *)
LEMMA DocFields ==
  ASSUME NEW n \in DOMAIN Doc
  PROVE  /\ Doc[n].id \in Ids
         /\ Doc[n].matched \in Nat \cup {-1}
         /\ Doc[n].features \in Seq(DOMAIN Doc \cup {NotObject})
         /\ Doc[n].links \in Seq(LinkObject \cup {NotObject})
         /\ Len(Doc[n].features) \in Nat /\ Len(Doc[n].links) \in Nat
<1>1. DocShape(Doc[n])
  BY ReaderAssumption DEF ReaderAssumption
<1>2. Doc[n].id \in Ids
  BY DEF Ids
<1>3. /\ Doc[n].matched \in Nat \cup {-1}
      /\ Doc[n].features \in Seq(DOMAIN Doc \cup {NotObject})
      /\ Doc[n].links \in Seq(LinkObject \cup {NotObject})
  BY <1>1 DEF DocShape
<1>4. Len(Doc[n].features) \in Nat /\ Len(Doc[n].links) \in Nat
  BY <1>3, LenProperties
<1> QED
  BY <1>2, <1>3, <1>4

(* The id of a document, or the one it inherits.                           *)
LEMMA IdOrTyped ==
  ASSUME NEW n \in DOMAIN Doc, NEW outer \in Ids
  PROVE  IdOr(Doc[n].id, outer) \in Ids
  BY DocFields DEF IdOr

(* The feature or the link that a loop is looking at.                      *)
LEMMA EntriesTyped ==
  ASSUME TypeOK, stack # <<>>
  PROVE  /\ OnFeature => Features[Top.i] \in DOMAIN Doc \cup {NotObject}
         /\ OnLink => Link \in LinkObject \cup {NotObject}
<1>1. Top \in CallFrame /\ Top.doc \in DOMAIN Doc
  BY TopIsFrame DEF TypeOK
<1>2. Top.i \in Nat \ {0}
  BY <1>1 DEF CallFrame
<1>3. ASSUME OnFeature
      PROVE  Features[Top.i] \in DOMAIN Doc \cup {NotObject}
  <2>1. /\ Features \in Seq(DOMAIN Doc \cup {NotObject}) /\ Len(Features) \in Nat
    BY <1>1, DocFields DEF Features
  <2>2. Top.i \in 1..Len(Features)
    BY <1>2, <1>3, <2>1 DEF OnFeature
  <2> QED
    BY <2>1, <2>2, ElementOfSeq
<1>4. ASSUME OnLink
      PROVE  Link \in LinkObject \cup {NotObject}
  <2>1. /\ Links \in Seq(LinkObject \cup {NotObject}) /\ Len(Links) \in Nat
    BY <1>1, DocFields DEF Links
  <2>2. Top.i \in 1..Len(Links)
    BY <1>2, <1>4, <2>1 DEF OnLink
  <2> QED
    BY <2>1, <2>2, ElementOfSeq DEF Link
<1> QED
  BY <1>3, <1>4

(* A request leaves the reader with a document to enter, or with nothing.  *)
LEMMA FetchTyped ==
  ASSUME TypeOK, NEW req, Fetch(req)
  PROVE  /\ callee' \in DOMAIN Doc \cup {NoDoc}
         /\ status' \in {"open", "failed"}
         /\ overfetch' \in Nat
<1>1. overfetch' \in Nat
  BY DEF Fetch, TypeOK
<1>2. callee' \in DOMAIN Doc \cup {NoDoc} /\ status' \in {"open", "failed"}
  BY ReaderAssumption DEF Fetch
<1> QED
  BY <1>1, <1>2

(* Forgetting the href of the next page leaves the rest of it alone.       *)
LEMMA ForgetHref ==
  ASSUME TypeOK, next' = [next EXCEPT !.href = NoHref]
  PROVE  /\ DOMAIN next' = {"href", "method", "merge", "headers", "body", "via"}
         /\ next'.href = NoHref /\ next'.method = next.method
         /\ next'.headers = next.headers /\ next'.body = next.body
         /\ next'.via = next.via
  BY DEF TypeOK

(***************************************************************************)
(* The type invariant.                                                     *)
(***************************************************************************)
(* The reader starts well typed.                                           *)
LEMMA TypedAtStart == Init => TypeOK
<1> SUFFICES ASSUME Init PROVE TypeOK
  OBVIOUS
<1>1. row_limit \in Nat /\ offset \in Nat /\ row_offset \in 0..offset
  <2>1. Offsets \subseteq Nat /\ Limits \subseteq Nat
    BY ReaderAssumption DEF ReaderAssumption
  <2>2. row_limit \in Limits /\ offset \in Offsets /\ row_offset = offset
    BY DEF Init
  <2> QED
    BY <2>1, <2>2
<1>2. rows \in Seq(ItemRow) /\ stack \in Seq(CallFrame)
  BY EmptySeq DEF Init
<1>3. /\ DOMAIN next = {"href", "method", "merge", "headers", "body", "via"}
      /\ next.via = NoLink /\ next.href = NoHref
  BY DEF Init
<1> QED
  BY <1>1, <1>2, <1>3 DEF Init, TypeOK, Ids

(* What is on the stack is left alone, or pushed, advanced or returned.    *)
LEMMA CallsStayTyped ==
  ASSUME TypeOK, [Next]_vars
  PROVE  stack' \in Seq(CallFrame)
<1>1. stack \in Seq(CallFrame)
  BY DEF TypeOK
<1>2. CASE EnterCatalog \/ EnterCollection \/ EnterFeatureCollection
  <2>1. callee \in DOMAIN Doc
    BY <1>2 DEF EnterCatalog, EnterCollection, EnterFeatureCollection, Calling, TypeOK
  <2>2. catalog_id \in Ids /\ collection_id \in Ids /\ "" \in Ids
    BY DEF TypeOK, Ids
  <2>3. \A at \in {"features", "links"}, id \in Ids : Frame(at, id) \in CallFrame
    BY <2>1 DEF Frame, CallFrame
  <2>4. \E f \in CallFrame : stack' = Append(stack, f)
    BY <1>2, <2>2, <2>3 DEF EnterCatalog, EnterCollection, EnterFeatureCollection
  <2> QED
    BY <1>1, <2>4, AppendProperties
<1>3. CASE StopFeatures \/ StopLinks \/ EndLinks
  <2>1. stack # <<>> /\ stack' = SubSeq(stack, 1, Len(stack) - 1)
    BY <1>3 DEF StopFeatures, StopLinks, EndLinks, OnFeature, OnLink, Looping, Return
  <2> QED
    BY <1>1, <2>1, TopIsFrame
<1>4. CASE SkipEntry \/ CallFeature \/ SkipLink \/ StoreNextLink \/ FollowLink
  <2>1. stack # <<>> /\ Advance
    BY <1>4 DEF SkipEntry, CallFeature, SkipLink, StoreNextLink, FollowLink,
                OnFeature, OnLink, Looping
  <2> QED
    BY <1>1, <2>1, AdvanceKeepsCalls
<1>5. CASE EndFeatures
  BY <1>1, <1>5, EndFeaturesKeepsCalls
<1>6. CASE \/ ReadFirstPage \/ ReadNextPage \/ NoMorePages
           \/ ReturnAtLimit \/ MissingType \/ IgnoreOther
           \/ SkipFeature \/ InvalidFeature \/ RejectFeature
           \/ SkipMatchingFeature \/ KeepFeature
           \/ RefuseNextLink \/ UNCHANGED vars
  BY <1>1, <1>6 DEF ReadFirstPage, ReadNextPage, NoMorePages, ReturnAtLimit, MissingType,
     IgnoreOther, SkipFeature, InvalidFeature, RejectFeature, SkipMatchingFeature,
     KeepFeature, RefuseNextLink, Throw, vars
<1> QED
  BY <1>2, <1>3, <1>4, <1>5, <1>6, StepCases

(* Entering a document pushes its id, returning puts an earlier one back.  *)
LEMMA ContextStaysTyped ==
  ASSUME TypeOK, [Next]_vars
  PROVE  catalog_id' \in Ids /\ collection_id' \in Ids
<1>1. catalog_id \in Ids /\ collection_id \in Ids
  BY DEF TypeOK
<1>2. CASE EnterCatalog \/ EnterCollection
  <2>1. callee \in DOMAIN Doc
    BY <1>2 DEF EnterCatalog, EnterCollection, Calling, TypeOK
  <2>2. IdOr(Doc[callee].id, catalog_id) \in Ids /\ IdOr(Doc[callee].id, collection_id) \in Ids
    BY <1>1, <2>1, IdOrTyped
  <2> QED
    BY <1>1, <1>2, <2>2 DEF EnterCatalog, EnterCollection
<1>3. CASE StopLinks \/ EndLinks
  <2>1. Return /\ stack # <<>>
    BY <1>3 DEF StopLinks, EndLinks, OnLink, Looping
  <2>2. Top.saved \in Ids
    BY <2>1, TopIsFrame DEF TypeOK, CallFrame
  <2> QED
    BY <1>1, <2>1, <2>2 DEF Return
<1>4. CASE \/ ReadFirstPage \/ ReadNextPage \/ NoMorePages
           \/ ReturnAtLimit \/ MissingType \/ IgnoreOther \/ EnterFeatureCollection
           \/ SkipFeature \/ InvalidFeature \/ RejectFeature
           \/ SkipMatchingFeature \/ KeepFeature
           \/ SkipEntry \/ StopFeatures \/ CallFeature \/ EndFeatures
           \/ SkipLink \/ StoreNextLink \/ RefuseNextLink \/ FollowLink
           \/ UNCHANGED vars
  BY <1>1, <1>4 DEF ReadFirstPage, ReadNextPage, NoMorePages, ReturnAtLimit, MissingType,
     IgnoreOther, EnterFeatureCollection, SkipFeature, InvalidFeature, RejectFeature,
     SkipMatchingFeature, KeepFeature, SkipEntry, StopFeatures, CallFeature, EndFeatures,
     SkipLink, StoreNextLink, RefuseNextLink, FollowLink, Throw, ctx, vars
<1> QED
  BY <1>2, <1>3, <1>4, StepCases

(* The OFFSET countdown only ever goes down, and stops at zero.            *)
LEMMA OffsetStaysTyped ==
  ASSUME TypeOK, [Next]_vars
  PROVE  row_offset' \in 0..offset /\ UNCHANGED query
<1>1. row_offset \in 0..offset /\ offset \in Nat
  BY DEF TypeOK
<1>2. CASE SkipFeature \/ SkipMatchingFeature \/ SkipEntry
  <2>1. row_offset > 0 /\ row_offset' = row_offset - 1 /\ UNCHANGED query
    BY <1>2 DEF SkipFeature, SkipMatchingFeature, SkipEntry, SkipsUnread, SkipsMatching
  <2> QED
    BY <1>1, <2>1
<1>3. CASE \/ ReadFirstPage \/ ReadNextPage \/ NoMorePages
           \/ ReturnAtLimit \/ MissingType \/ IgnoreOther
           \/ EnterCatalog \/ EnterCollection \/ EnterFeatureCollection
           \/ InvalidFeature \/ RejectFeature \/ KeepFeature
           \/ StopFeatures \/ CallFeature \/ EndFeatures
           \/ StopLinks \/ EndLinks \/ SkipLink \/ StoreNextLink \/ RefuseNextLink \/ FollowLink
           \/ UNCHANGED vars
  BY <1>1, <1>3 DEF ReadFirstPage, ReadNextPage, NoMorePages, ReturnAtLimit, MissingType,
     IgnoreOther, EnterCatalog, EnterCollection, EnterFeatureCollection, InvalidFeature,
     RejectFeature, KeepFeature, StopFeatures, CallFeature, EndFeatures, StopLinks, EndLinks,
     SkipLink, StoreNextLink, RefuseNextLink, FollowLink, Throw, vars
<1> QED
  BY <1>2, <1>3, StepCases

(* Rows are only ever appended, one at a time and below the limit, and     *)
(* each is counted.                                                        *)
LEMMA RowSteps ==
  ASSUME TypeOK, [Next]_vars
  PROVE  \/ UNCHANGED out
         \/ /\ ~LimitReached /\ status = "open" /\ callee # NoDoc
            /\ row_count' = row_count + 1 /\ rows' = Append(rows, Row(callee))
            /\ Row(callee) \in ItemRow
<1>1. CASE KeepFeature
  <2>1. callee \in DOMAIN Doc
    BY <1>1 DEF KeepFeature, ReadsFeature, Calling, TypeOK
  <2>2. catalog_id \in Ids /\ collection_id \in Ids
    BY DEF TypeOK
  <2>3. Row(callee) \in ItemRow
    BY <2>1, <2>2 DEF Row, EntryOf, ItemRow, IdOr
  <2> QED
    BY <1>1, <2>3 DEF KeepFeature, ReadsFeature, Calling
<1>2. CASE \/ ReadFirstPage \/ ReadNextPage \/ NoMorePages
           \/ ReturnAtLimit \/ MissingType \/ IgnoreOther
           \/ EnterCatalog \/ EnterCollection \/ EnterFeatureCollection
           \/ SkipFeature \/ InvalidFeature \/ RejectFeature \/ SkipMatchingFeature
           \/ SkipEntry \/ StopFeatures \/ CallFeature \/ EndFeatures
           \/ StopLinks \/ EndLinks \/ SkipLink \/ StoreNextLink \/ RefuseNextLink \/ FollowLink
           \/ UNCHANGED vars
  BY <1>2 DEF ReadFirstPage, ReadNextPage, NoMorePages, ReturnAtLimit, MissingType,
     IgnoreOther, EnterCatalog, EnterCollection, EnterFeatureCollection, SkipFeature,
     InvalidFeature, RejectFeature, SkipMatchingFeature, SkipEntry, StopFeatures, CallFeature,
     EndFeatures, StopLinks, EndLinks, SkipLink, StoreNextLink, RefuseNextLink, FollowLink,
     Throw, vars
<1> QED
  BY <1>1, <1>2, StepCases

(* The slot of the next page: forgotten, or overwritten by a next link.    *)
LEMMA NextSteps ==
  ASSUME TypeOK, [Next]_vars
  PROVE  \/ UNCHANGED next
         \/ next' = [next EXCEPT !.href = NoHref]
         \/ StoreNextLink /\ Link \in LinkObject /\ next' = RecordNext(Link)
<1>1. CASE ReadNextPage \/ ReturnAtLimit \/ StopFeatures \/ StopLinks
  BY <1>1 DEF ReadNextPage, ReturnAtLimit, StopFeatures, StopLinks
<1>2. CASE StoreNextLink
  <2>1. stack # <<>> /\ OnLink /\ Link # NotObject /\ next' = RecordNext(Link)
    BY <1>2 DEF StoreNextLink, OnLink, Looping, Readable
  <2> QED
    BY <1>2, <2>1, EntriesTyped
<1>3. CASE \/ ReadFirstPage \/ NoMorePages
           \/ MissingType \/ IgnoreOther
           \/ EnterCatalog \/ EnterCollection \/ EnterFeatureCollection
           \/ SkipFeature \/ InvalidFeature \/ RejectFeature
           \/ SkipMatchingFeature \/ KeepFeature
           \/ SkipEntry \/ CallFeature \/ EndFeatures
           \/ EndLinks \/ SkipLink \/ RefuseNextLink \/ FollowLink
           \/ UNCHANGED vars
  BY <1>3 DEF ReadFirstPage, NoMorePages, MissingType, IgnoreOther, EnterCatalog,
     EnterCollection, EnterFeatureCollection, SkipFeature, InvalidFeature, RejectFeature,
     SkipMatchingFeature, KeepFeature, SkipEntry, CallFeature, EndFeatures, EndLinks,
     SkipLink, RefuseNextLink, FollowLink, Throw, vars
<1> QED
  BY <1>1, <1>2, <1>3, StepCases

(* The slot keeps its fields, and the link it follows is a link.           *)
LEMMA NextStaysTyped ==
  ASSUME TypeOK, [Next]_vars
  PROVE  /\ DOMAIN next' = {"href", "method", "merge", "headers", "body", "via"}
         /\ next'.via \in LinkObject \cup {NoLink}
         /\ next'.href \in {NoHref} \cup {l.href : l \in LinkObject}
<1>1. CASE UNCHANGED next
  BY <1>1 DEF TypeOK
<1>2. CASE next' = [next EXCEPT !.href = NoHref]
  BY <1>2, ForgetHref DEF TypeOK
<1>3. CASE Link \in LinkObject /\ next' = RecordNext(Link)
  BY <1>3 DEF RecordNext
<1> QED
  BY <1>1, <1>2, <1>3, NextSteps

(* number_matched is a count that some listing gave, or still unknown.     *)
LEMMA MatchedStaysTyped ==
  ASSUME TypeOK, [Next]_vars
  PROVE  number_matched' \in Nat \cup {-1}
<1>1. CASE EnterFeatureCollection
  <2>1. callee \in DOMAIN Doc
    BY <1>1 DEF EnterFeatureCollection, Calling, TypeOK
  <2>2. Doc[callee].matched \in Nat \cup {-1} /\ number_matched \in Nat \cup {-1}
    BY <2>1, DocFields DEF TypeOK
  <2>3. \/ number_matched' = number_matched
        \/ number_matched' = Doc[callee].matched
    BY <1>1 DEF EnterFeatureCollection
  <2> QED
    BY <2>2, <2>3
<1>2. CASE \/ ReadFirstPage \/ ReadNextPage \/ NoMorePages
           \/ ReturnAtLimit \/ MissingType \/ IgnoreOther
           \/ EnterCatalog \/ EnterCollection
           \/ SkipFeature \/ InvalidFeature \/ RejectFeature
           \/ SkipMatchingFeature \/ KeepFeature
           \/ SkipEntry \/ StopFeatures \/ CallFeature \/ EndFeatures
           \/ StopLinks \/ EndLinks \/ SkipLink \/ StoreNextLink \/ RefuseNextLink \/ FollowLink
           \/ UNCHANGED vars
  BY <1>2 DEF ReadFirstPage, ReadNextPage, NoMorePages, ReturnAtLimit, MissingType,
     IgnoreOther, EnterCatalog, EnterCollection, SkipFeature, InvalidFeature, RejectFeature,
     SkipMatchingFeature, KeepFeature, SkipEntry, StopFeatures, CallFeature, EndFeatures,
     StopLinks, EndLinks, SkipLink, StoreNextLink, RefuseNextLink, FollowLink, Throw, vars,
     TypeOK
<1> QED
  BY <1>1, <1>2, StepCases

(* Only Fetch sends a request: for the first page, for a child link below  *)
(* the limit, and for the next page between two pages.                     *)
RequestSent ==
  \E req :
    /\ Fetch(req)
    /\ \/ ReadFirstPage /\ req.via = NoLink
       \/ FollowLink /\ ~LimitReached /\ req.via = NoLink
       \/ /\ ReadNextPage
          /\ req = [href |-> next.href, method |-> next.method, headers |-> next.headers,
                    body |-> next.body, via |-> next.via]

(* The three actions that fetch send a request.                            *)
LEMMA RequestByFetch ==
  ASSUME ReadFirstPage \/ ReadNextPage \/ FollowLink
  PROVE  RequestSent
<1>1. CASE ReadFirstPage
  <2>1. Fetch(CatalogRequest(origin.href, origin.body))
    BY <1>1 DEF ReadFirstPage
  <2>2. CatalogRequest(origin.href, origin.body).via = NoLink
    BY DEF CatalogRequest
  <2> QED
    BY <1>1, <2>1, <2>2 DEF RequestSent
<1>2. CASE FollowLink
  <2>1. Fetch(CatalogRequest(Link.href, {})) /\ ~LimitReached
    BY <1>2 DEF FollowLink, Readable
  <2>2. CatalogRequest(Link.href, {}).via = NoLink
    BY DEF CatalogRequest
  <2> QED
    BY <1>2, <2>1, <2>2 DEF RequestSent
<1>3. CASE ReadNextPage
  <2>1. Fetch([href |-> next.href, method |-> next.method, headers |-> next.headers,
               body |-> next.body, via |-> next.via])
    BY <1>3 DEF ReadNextPage
  <2> QED
    BY <1>3, <2>1 DEF RequestSent
<1> QED
  BY <1>1, <1>2, <1>3

(* Every other action sends none.                                          *)
LEMMA RequestSteps ==
  ASSUME [Next]_vars
  PROVE  RequestSent \/ UNCHANGED io
<1>1. CASE ReadFirstPage \/ ReadNextPage \/ FollowLink
  BY <1>1, RequestByFetch
<1>2. CASE \/ NoMorePages \/ ReturnAtLimit \/ MissingType \/ IgnoreOther
           \/ EnterCatalog \/ EnterCollection \/ EnterFeatureCollection
           \/ SkipFeature \/ InvalidFeature \/ RejectFeature
           \/ SkipMatchingFeature \/ KeepFeature
           \/ SkipEntry \/ StopFeatures \/ CallFeature \/ EndFeatures
           \/ StopLinks \/ EndLinks \/ SkipLink \/ StoreNextLink \/ RefuseNextLink
           \/ UNCHANGED vars
  BY <1>2 DEF NoMorePages, ReturnAtLimit, MissingType, IgnoreOther, EnterCatalog,
     EnterCollection, EnterFeatureCollection, SkipFeature, InvalidFeature, RejectFeature,
     SkipMatchingFeature, KeepFeature, SkipEntry, StopFeatures, CallFeature, EndFeatures,
     StopLinks, EndLinks, SkipLink, StoreNextLink, RefuseNextLink, Throw, vars
<1> QED
  BY <1>1, <1>2, StepCases

(* What is entered next is a document, or nothing.                         *)
LEMMA CalleeStaysTyped ==
  ASSUME TypeOK, [Next]_vars
  PROVE  /\ callee' \in DOMAIN Doc \cup {NoDoc}
         /\ status' \in {"new", "open", "done", "failed"}
         /\ overfetch' \in Nat
<1>1. CASE RequestSent
  BY <1>1, FetchTyped DEF RequestSent
<1>2. CASE CallFeature
  <2>1. OnFeature /\ stack # <<>>
    BY <1>2 DEF CallFeature, OnFeature, Looping
  <2>2. Features[Top.i] \in DOMAIN Doc \cup {NotObject}
    BY <2>1, EntriesTyped
  <2> QED
    BY <1>2, <2>2 DEF CallFeature, TypeOK, io
<1>3. CASE \/ NoMorePages \/ ReturnAtLimit \/ MissingType \/ IgnoreOther
           \/ EnterCatalog \/ EnterCollection \/ EnterFeatureCollection
           \/ SkipFeature \/ InvalidFeature \/ RejectFeature
           \/ SkipMatchingFeature \/ KeepFeature
           \/ SkipEntry \/ StopFeatures \/ EndFeatures
           \/ StopLinks \/ EndLinks \/ SkipLink \/ StoreNextLink \/ RefuseNextLink
           \/ UNCHANGED vars
  <2>1. /\ overfetch' = overfetch
        /\ callee' = callee \/ callee' = NoDoc
        /\ status' = status \/ status' \in {"done", "failed"}
    BY <1>3 DEF NoMorePages, ReturnAtLimit, MissingType, IgnoreOther, EnterCatalog,
       EnterCollection, EnterFeatureCollection, SkipFeature, InvalidFeature, RejectFeature,
       SkipMatchingFeature, KeepFeature, SkipEntry, StopFeatures, EndFeatures,
       StopLinks, EndLinks, SkipLink, StoreNextLink, RefuseNextLink, Throw, io, vars
  <2> QED
    BY <2>1 DEF TypeOK
<1>4. (ReadFirstPage \/ ReadNextPage \/ FollowLink) => RequestSent
  BY RequestByFetch
<1> QED
  BY <1>1, <1>2, <1>3, <1>4, StepCases

(* All of it together.                                                     *)
LEMMA TypeInvariant == Spec => []TypeOK
<1>1. Init => TypeOK
  BY TypedAtStart
<1>2. TypeOK /\ [Next]_vars => TypeOK'
  <2> SUFFICES ASSUME TypeOK, [Next]_vars PROVE TypeOK'
    OBVIOUS
  <2>1. row_limit' \in Nat /\ offset' \in Nat /\ row_offset' \in 0..offset'
    BY OffsetStaysTyped DEF query, TypeOK
  <2>2. row_count' \in Nat /\ rows' \in Seq(ItemRow)
    <3>1. rows \in Seq(ItemRow) /\ row_count \in Nat
      BY DEF TypeOK
    <3> QED
      BY <3>1, RowSteps, AppendProperties DEF out
  <2> QED
    BY <2>1, <2>2, CallsStayTyped, ContextStaysTyped, NextStaysTyped, MatchedStaysTyped,
       CalleeStaysTyped DEF TypeOK
<1> QED
  BY <1>1, <1>2, PTL DEF Spec

(* Every variable of the reader keeps its type, whatever the documents and *)
(* the links between them: in particular the OFFSET countdown never goes   *)
(* below zero, and every open call and every row belongs to a document.    *)
THEOREM TypeCorrect == Spec => []TypeOK
  BY TypeInvariant

(***************************************************************************)
(* The limit.  row_count counts the rows, and LimitReached is tested after *)
(* each of them; the invariant that carries the bound on the requests says *)
(* that the one request past the limit leaves nothing behind it: no open   *)
(* call, no next page, and a document that ReadContentOfObject refuses.    *)
(***************************************************************************)
LimitInv ==
  /\ row_count = Len(rows)
  /\ row_limit > 0 => row_count <= row_limit

PastLimitInv ==
  /\ overfetch \in {0, 1}
  /\ status = "new" => row_count = 0
  /\ overfetch = 1 => LimitReached /\ stack = <<>> /\ next.href = NoHref

(* STAC_Read never returns more rows than the LIMIT pushed into it, which  *)
(* no operator above the scan would cut.                                   *)
THEOREM LimitIsRespected == Spec => []LimitRespected
<1>1. Init => LimitInv
  <2> SUFFICES ASSUME Init PROVE LimitInv
    OBVIOUS
  <2>1. row_count = 0 /\ rows = <<>>
    BY DEF Init
  <2>2. row_limit \in Nat
    BY TypedAtStart DEF TypeOK
  <2> QED
    BY <2>1, <2>2 DEF LimitInv
<1>2. TypeOK /\ LimitInv /\ [Next]_vars => LimitInv'
  <2> SUFFICES ASSUME TypeOK, LimitInv, [Next]_vars PROVE LimitInv'
    OBVIOUS
  <2>1. row_limit' = row_limit
    BY OffsetStaysTyped DEF query
  <2>2. CASE UNCHANGED out
    BY <2>1, <2>2 DEF LimitInv, out
  <2>3. CASE ~LimitReached /\ row_count' = row_count + 1 /\ rows' = Append(rows, Row(callee))
                /\ Row(callee) \in ItemRow
    <3>1. Len(rows') = Len(rows) + 1 /\ Len(rows) \in Nat
      BY <2>3, AppendProperties, LenProperties DEF TypeOK
    <3>2. row_limit \in Nat /\ row_count \in Nat
      BY DEF TypeOK
    <3>3. row_limit > 0 => row_count < row_limit
      BY <2>3, <3>2 DEF LimitReached
    <3> QED
      BY <2>1, <2>3, <3>1, <3>2, <3>3 DEF LimitInv
  <2> QED
    BY <2>2, <2>3, RowSteps
<1>3. LimitInv => LimitRespected
  BY DEF LimitInv, LimitRespected
<1> QED
  BY <1>1, <1>2, <1>3, TypeInvariant, PTL DEF Spec

(* Before the first page is read there is no row.                          *)
LEMMA NewOnlyAtStart ==
  ASSUME TypeOK, [Next]_vars, status' = "new"
  PROVE  status = "new" /\ row_count' = row_count
<1>1. status' = status \/ status' \in {"open", "done", "failed"}
  BY StepCases DEF Fetch, ReadFirstPage, ReadNextPage, FollowLink, NoMorePages, ReturnAtLimit,
     MissingType, IgnoreOther, EnterCatalog, EnterCollection, EnterFeatureCollection,
     SkipFeature, InvalidFeature, RejectFeature, SkipMatchingFeature, KeepFeature, SkipEntry,
     CallFeature, StopFeatures, EndFeatures, StopLinks, EndLinks, SkipLink, StoreNextLink,
     RefuseNextLink, Throw, vars
<1> QED
  BY <1>1, RowSteps DEF out

(* With no open call and no room for another row, nothing is entered and   *)
(* no next page is recorded.                                               *)
LEMMA NothingPastLimit ==
  ASSUME TypeOK, [Next]_vars, LimitReached, stack = <<>>, next.href = NoHref
  PROVE  stack' = <<>> /\ next'.href = NoHref
<1>1. stack' = <<>>
  BY StepCases DEF ReadFirstPage, ReadNextPage, FollowLink, NoMorePages, ReturnAtLimit,
     MissingType, IgnoreOther, EnterCatalog, EnterCollection, EnterFeatureCollection,
     SkipFeature, InvalidFeature, RejectFeature, SkipMatchingFeature, KeepFeature, SkipEntry,
     ReadsFeature, Calling, OnFeature, OnLink, Looping,
     CallFeature, StopFeatures, EndFeatures, StopLinks, EndLinks, SkipLink, StoreNextLink,
     RefuseNextLink, Throw, vars
<1>2. CASE StoreNextLink
  BY <1>2 DEF StoreNextLink, OnLink, Looping
<1>3. CASE next' = [next EXCEPT !.href = NoHref]
  BY <1>1, <1>3, ForgetHref
<1> QED
  BY <1>1, <1>2, <1>3, NextSteps

(* However many links are left, the reader sends at most one request once  *)
(* it has all the rows it may return.                                      *)
THEOREM OneRequestPastLimit == Spec => []OneFetchPastLimit
<1>1. Init => PastLimitInv
  <2> SUFFICES ASSUME Init PROVE PastLimitInv
    OBVIOUS
  <2>1. overfetch = 0 /\ row_count = 0
    BY DEF Init
  <2> QED
    BY <2>1 DEF PastLimitInv
<1>2. TypeOK /\ PastLimitInv /\ [Next]_vars => PastLimitInv'
  <2> SUFFICES ASSUME TypeOK, PastLimitInv, [Next]_vars PROVE PastLimitInv'
    OBVIOUS
  <2>1. row_limit' = row_limit /\ row_limit \in Nat /\ row_count \in Nat
    BY OffsetStaysTyped DEF query, TypeOK
  <2>2. LimitReached => LimitReached' /\ row_count' = row_count
    BY <2>1, RowSteps DEF LimitReached, out
  <2>3. status' = "new" => row_count' = 0
    BY NewOnlyAtStart DEF PastLimitInv
  <2>4. CASE ReadFirstPage \/ FollowLink
    <3>1. ~LimitReached
      BY <2>1, <2>4 DEF PastLimitInv, ReadFirstPage, FollowLink, Readable, LimitReached
    <3>2. overfetch' = overfetch /\ overfetch = 0
      BY <2>4, <3>1 DEF PastLimitInv, ReadFirstPage, FollowLink, Fetch
    <3> QED
      BY <2>3, <3>2 DEF PastLimitInv
  <2>5. CASE ReadNextPage
    <3>1. next.href # NoHref /\ stack' = <<>> /\ next' = [next EXCEPT !.href = NoHref]
      BY <2>5 DEF ReadNextPage, BetweenPages
    <3>2. next'.href = NoHref
      BY <3>1, ForgetHref
    <3>3. overfetch = 0
      BY <3>1 DEF PastLimitInv
    <3>4. overfetch' \in {0, 1} /\ (overfetch' = 1 => LimitReached)
      BY <2>5, <3>3 DEF ReadNextPage, Fetch
    <3> QED
      BY <2>2, <2>3, <3>1, <3>2, <3>4 DEF PastLimitInv
  <2>6. CASE UNCHANGED io
    BY <2>2, <2>3, <2>6, NothingPastLimit DEF PastLimitInv, io
  <2> QED
    BY <2>4, <2>5, <2>6, RequestSteps DEF RequestSent
<1>3. PastLimitInv => OneFetchPastLimit
  BY DEF PastLimitInv, OneFetchPastLimit
<1> QED
  BY <1>1, <1>2, <1>3, TypeInvariant, PTL DEF Spec

(***************************************************************************)
(* The requests.  The slot of the next page always says what the last next *)
(* link says; only merging carries anything over from the links before.    *)
(***************************************************************************)
NextInv ==
  next.via # NoLink /\ ~next.via.merge =>
    /\ next.href \in {NoHref, next.via.href} /\ next.method = next.via.method
    /\ next.headers = next.via.headers /\ next.body = next.via.body

(* A page is asked for as the server that offered it said, with no header, *)
(* body or method of an earlier next link, unless the link asks to merge.  *)
THEOREM RequestsFollowLinks == Spec => []RequestFollowsLink
<1>1. Init => NextInv /\ RequestFollowsLink
  <2> SUFFICES ASSUME Init PROVE NextInv /\ RequestFollowsLink
    OBVIOUS
  <2>1. next.via = NoLink /\ request = NoLink
    BY DEF Init
  <2> QED
    BY <2>1 DEF NextInv, RequestFollowsLink
<1>2. TypeOK /\ NextInv /\ RequestFollowsLink /\ [Next]_vars => (NextInv /\ RequestFollowsLink)'
  <2> SUFFICES ASSUME TypeOK, NextInv, RequestFollowsLink, [Next]_vars
               PROVE  NextInv' /\ RequestFollowsLink'
    OBVIOUS
  <2>1. NextInv'
    <3>1. CASE UNCHANGED next
      BY <3>1 DEF NextInv
    <3>2. CASE next' = [next EXCEPT !.href = NoHref]
      BY <3>2, ForgetHref DEF NextInv
    <3>3. CASE next' = RecordNext(Link)
      <4>1. next'.via = Link /\ next'.href = Link.href /\ next'.method = Link.method
        BY <3>3 DEF RecordNext
      <4>2. ~Link.merge => next'.headers = Link.headers /\ next'.body = Link.body
        BY <3>3 DEF RecordNext
      <4> QED
        BY <4>1, <4>2 DEF NextInv
    <3> QED
      BY <3>1, <3>2, <3>3, NextSteps
  <2>2. RequestFollowsLink'
    <3>1. CASE UNCHANGED io
      BY <3>1 DEF RequestFollowsLink, io
    <3>2. ASSUME NEW req, Fetch(req), req.via = NoLink
          PROVE  RequestFollowsLink'
      BY <3>2 DEF Fetch, RequestFollowsLink
    <3>3. ASSUME NEW req, Fetch(req), ReadNextPage,
                 req = [href |-> next.href, method |-> next.method, headers |-> next.headers,
                        body |-> next.body, via |-> next.via]
          PROVE  RequestFollowsLink'
      <4>1. request' = req /\ next.href # NoHref
        BY <3>3 DEF Fetch, ReadNextPage
      <4>2. /\ req.via = next.via /\ req.href = next.href /\ req.method = next.method
            /\ req.headers = next.headers /\ req.body = next.body
        BY <3>3
      <4> QED
        BY <4>1, <4>2 DEF NextInv, RequestFollowsLink
    <3> QED
      BY <3>1, <3>2, <3>3, RequestSteps DEF RequestSent
  <2> QED
    BY <2>1, <2>2
<1> QED
  BY <1>1, <1>2, TypeInvariant, PTL DEF Spec

(***************************************************************************)
(* The context.  A call that reads a Catalog or a Collection saves the id  *)
(* it found and puts it back when it returns, so the ids in force are      *)
(* those of the innermost call that has one, if every saved id was that    *)
(* of the calls below, and only listings loop over features.               *)
(***************************************************************************)
SavedIsOuter(k) ==
  LET d == Doc[stack[k].doc]
  IN  /\ d.type = "Catalog" => GivenByInnermost(stack[k].saved, "Catalog", k - 1)
      /\ d.type = "Collection" => GivenByInnermost(stack[k].saved, "Collection", k - 1)
      /\ stack[k].at = "features" => d.type = "FeatureCollection"

ContextInv == ContextFollowsStack /\ \A k \in 1..Len(stack) : SavedIsOuter(k)

(* Only the documents of the first n calls matter.                         *)
LEMMA SameDocsSameIds ==
  ASSUME NEW n \in Nat, \A k \in 1..n : stack'[k].doc = stack[k].doc
  PROVE  \A id, type : GivenByInnermost(id, type, n) => GivenByInnermost(id, type, n)'
<1> SUFFICES ASSUME NEW id, NEW type, GivenByInnermost(id, type, n)
             PROVE  GivenByInnermost(id, type, n)'
  OBVIOUS
<1>1. Naming(type, n)' = Naming(type, n)
  BY DEF Naming
<1>2. \A k \in Naming(type, n) : stack'[k].doc = stack[k].doc
  BY DEF Naming
<1> QED
  BY <1>1, <1>2 DEF GivenByInnermost

(* A call that has an id hides those below, any other call hides nothing.  *)
LEMMA OneMoreCall ==
  ASSUME NEW n \in Nat, NEW type
  PROVE  /\ n + 1 \in Naming(type, n + 1) =>
              GivenByInnermost(Doc[stack[n + 1].doc].id, type, n + 1)
         /\ n + 1 \notin Naming(type, n + 1) =>
              \A id : GivenByInnermost(id, type, n) <=> GivenByInnermost(id, type, n + 1)
<1>1. n + 1 \in 1..(n + 1) /\ \A k \in 1..(n + 1) : k <= n + 1
  OBVIOUS
<1>2. ASSUME n + 1 \in Naming(type, n + 1)
      PROVE  GivenByInnermost(Doc[stack[n + 1].doc].id, type, n + 1)
  <2>1. \A k \in Naming(type, n + 1) : k <= n + 1
    BY <1>1 DEF Naming
  <2> QED
    BY <1>2, <2>1 DEF GivenByInnermost
<1>3. ASSUME n + 1 \notin Naming(type, n + 1)
      PROVE  Naming(type, n) = Naming(type, n + 1)
  <2>1. \A k \in 1..(n + 1) : k \in 1..n \/ k = n + 1
    OBVIOUS
  <2>2. \A k \in 1..n : k \in 1..(n + 1)
    OBVIOUS
  <2> QED
    BY <1>3, <2>1, <2>2 DEF Naming
<1> QED
  BY <1>2, <1>3 DEF GivenByInnermost

(* The ids saved by the calls that a step leaves alone stay right.         *)
LEMMA CallsBelowStay ==
  ASSUME NEW n \in Nat,
         \A k \in 1..n : SavedIsOuter(k),
         \A k \in 1..n : /\ stack'[k].doc = stack[k].doc
                         /\ stack'[k].saved = stack[k].saved
                         /\ stack'[k].at \in {stack[k].at, "links"}
  PROVE  \A k \in 1..n : SavedIsOuter(k)'
<1> SUFFICES ASSUME NEW k \in 1..n PROVE SavedIsOuter(k)'
  OBVIOUS
<1>1. k - 1 \in Nat /\ \A j \in 1..(k - 1) : j \in 1..n
  OBVIOUS
<1>2. \A j \in 1..(k - 1) : stack'[j].doc = stack[j].doc
  BY <1>1
<1>3. \A id, type : GivenByInnermost(id, type, k - 1) => GivenByInnermost(id, type, k - 1)'
  BY <1>1, <1>2, SameDocsSameIds
<1>4. SavedIsOuter(k)
  OBVIOUS
<1>5. /\ stack'[k].doc = stack[k].doc /\ stack'[k].saved = stack[k].saved
      /\ stack'[k].at = "features" => stack[k].at = "features"
  OBVIOUS
<1> QED
  BY <1>3, <1>4, <1>5 DEF SavedIsOuter

(* What a step does to the open calls and to the context ids.              *)
LEMMA StackSteps ==
  ASSUME [Next]_vars
  PROVE  \/ UNCHANGED <<stack, ctx>>
         \/ Advance /\ stack # <<>> /\ UNCHANGED ctx
         \/ EndFeatures \/ StopFeatures
         \/ Return /\ Looping("links")
         \/ EnterCatalog \/ EnterCollection \/ EnterFeatureCollection
<1>1. CASE \/ ReadFirstPage \/ ReadNextPage \/ NoMorePages
           \/ ReturnAtLimit \/ MissingType \/ IgnoreOther
           \/ SkipFeature \/ InvalidFeature \/ RejectFeature
           \/ SkipMatchingFeature \/ KeepFeature \/ RefuseNextLink \/ UNCHANGED vars
  BY <1>1 DEF ReadFirstPage, ReadNextPage, NoMorePages, ReturnAtLimit, MissingType,
     IgnoreOther, SkipFeature, InvalidFeature, RejectFeature, SkipMatchingFeature,
     KeepFeature, RefuseNextLink, Throw, vars
<1>2. CASE SkipEntry \/ CallFeature \/ SkipLink \/ StoreNextLink \/ FollowLink
  BY <1>2 DEF SkipEntry, CallFeature, SkipLink, StoreNextLink, FollowLink, OnFeature, OnLink,
     Looping
<1>3. CASE StopLinks \/ EndLinks
  BY <1>3 DEF StopLinks, EndLinks, OnLink
<1> QED
  BY <1>1, <1>2, <1>3, StepCases

(* Advancing or turning to the links: the same documents are being read.   *)
LEMMA ContextWhileLooping ==
  ASSUME TypeOK, ContextInv, stack # <<>>, (Advance /\ UNCHANGED ctx) \/ EndFeatures
  PROVE  ContextInv'
<1>1. UNCHANGED ctx
  BY DEF EndFeatures
<1>2. /\ Len(stack) \in Nat /\ Len(stack') = Len(stack)
      /\ \A k \in 1..Len(stack) : /\ stack'[k].doc = stack[k].doc
                                  /\ stack'[k].saved = stack[k].saved
                                  /\ stack'[k].at \in {stack[k].at, "links"}
  BY AdvanceKeepsCalls, EndFeaturesKeepsCalls, TopIsFrame DEF TypeOK
<1>3. \A id, type : GivenByInnermost(id, type, Len(stack)) =>
                    (\A n : n = Len(stack) => GivenByInnermost(id, type, n)')
  <2> DEFINE n == Len(stack)
  <2>1. PICK m \in Nat : m = n
    BY <1>2
  <2>2. \A id, type : GivenByInnermost(id, type, m) => GivenByInnermost(id, type, m)'
    BY <1>2, <2>1, SameDocsSameIds
  <2> QED
    BY <2>1, <2>2
<1>4. ContextFollowsStack'
  BY <1>1, <1>2, <1>3 DEF ContextInv, ContextFollowsStack, ctx
<1>5. \A k \in 1..Len(stack) : SavedIsOuter(k)'
  BY <1>2, CallsBelowStay DEF ContextInv
<1> QED
  BY <1>2, <1>4, <1>5 DEF ContextInv

(* Returning: the ids put back are those of the calls that remain.         *)
LEMMA ContextAfterReturn ==
  ASSUME TypeOK, ContextInv, StopFeatures \/ (Return /\ Looping("links"))
  PROVE  ContextInv'
<1>1. stack # <<>> /\ stack' = SubSeq(stack, 1, Len(stack) - 1)
  BY DEF StopFeatures, OnFeature, Looping, Return
<1>2. Len(stack) \in Nat \ {0}
  BY <1>1, TopIsFrame DEF TypeOK
<1>3. PICK n \in Nat : n + 1 = Len(stack)
  BY <1>2
<1>4. Len(stack') = n /\ \A k \in 1..n : stack'[k] = stack[k]
  BY <1>1, <1>3, TopIsFrame DEF TypeOK
<1>5. SavedIsOuter(n + 1) /\ Top = stack[n + 1] /\ \A k \in 1..n : SavedIsOuter(k)
  BY <1>3 DEF ContextInv, Top
<1>6. \A type : n + 1 \in Naming(type, n + 1) => Doc[Top.doc].type = type
  BY <1>5 DEF Naming
<1>7. GivenByInnermost(catalog_id', "Catalog", n)
  <2>1. CASE Doc[Top.doc].type = "Catalog"
    <3>1. Return
      BY <1>5, <2>1 DEF SavedIsOuter, StopFeatures, OnFeature, Looping, Top
    <3>2. catalog_id' = stack[n + 1].saved
      BY <1>5, <2>1, <3>1 DEF Return
    <3> QED
      BY <1>5, <2>1, <3>2 DEF SavedIsOuter
  <2>2. CASE Doc[Top.doc].type # "Catalog"
    <3>1. catalog_id' = catalog_id
      BY <2>2 DEF Return, StopFeatures, ctx
    <3>2. GivenByInnermost(catalog_id, "Catalog", n + 1)
      BY <1>3 DEF ContextInv, ContextFollowsStack
    <3>3. n + 1 \notin Naming("Catalog", n + 1)
      BY <1>6, <2>2
    <3> QED
      BY <3>1, <3>2, <3>3, OneMoreCall
  <2> QED
    BY <2>1, <2>2
<1>8. GivenByInnermost(collection_id', "Collection", n)
  <2>1. CASE Doc[Top.doc].type = "Collection"
    <3>1. Return
      BY <1>5, <2>1 DEF SavedIsOuter, StopFeatures, OnFeature, Looping, Top
    <3>2. collection_id' = stack[n + 1].saved
      BY <1>5, <2>1, <3>1 DEF Return
    <3> QED
      BY <1>5, <2>1, <3>2 DEF SavedIsOuter
  <2>2. CASE Doc[Top.doc].type # "Collection"
    <3>1. collection_id' = collection_id
      BY <2>2 DEF Return, StopFeatures, ctx
    <3>2. GivenByInnermost(collection_id, "Collection", n + 1)
      BY <1>3 DEF ContextInv, ContextFollowsStack
    <3>3. n + 1 \notin Naming("Collection", n + 1)
      BY <1>6, <2>2
    <3> QED
      BY <3>1, <3>2, <3>3, OneMoreCall
  <2> QED
    BY <2>1, <2>2
<1>9. \A id, type : GivenByInnermost(id, type, n) => GivenByInnermost(id, type, n)'
  BY <1>4, SameDocsSameIds
<1>10. ContextFollowsStack'
  BY <1>4, <1>7, <1>8, <1>9 DEF ContextFollowsStack
<1>11. \A k \in 1..n : SavedIsOuter(k)'
  BY <1>4, <1>5, CallsBelowStay
<1> QED
  BY <1>4, <1>10, <1>11 DEF ContextInv

(* The same of the state after a step.                                     *)
LEMMA OneMoreCallNext ==
  ASSUME NEW n \in Nat, NEW type
  PROVE  (/\ n + 1 \in Naming(type, n + 1) =>
               GivenByInnermost(Doc[stack[n + 1].doc].id, type, n + 1)
          /\ n + 1 \notin Naming(type, n + 1) =>
               \A id : GivenByInnermost(id, type, n) <=> GivenByInnermost(id, type, n + 1))'
<1>1. /\ n + 1 \in Naming(type, n + 1) =>
           GivenByInnermost(Doc[stack[n + 1].doc].id, type, n + 1)
      /\ n + 1 \notin Naming(type, n + 1) =>
           \A id : GivenByInnermost(id, type, n) <=> GivenByInnermost(id, type, n + 1)
  BY OneMoreCall
<1> QED
  BY <1>1, PTL

(* Entering: a document with an id gives it, any other keeps the outer id. *)
Named(type, d, outer) == IF d.type = type /\ d.id # NoId THEN d.id ELSE outer

(* Pushing a call whose saved id and at are those of its document.         *)
LEMMA ContextAfterPush ==
  ASSUME TypeOK, ContextInv,
         NEW f \in CallFrame, stack' = Append(stack, f),
         NEW d, d = Doc[f.doc],
         f.at = "features" => d.type = "FeatureCollection",
         d.type = "Catalog" => f.saved = catalog_id,
         d.type = "Collection" => f.saved = collection_id,
         catalog_id' = Named("Catalog", d, catalog_id),
         collection_id' = Named("Collection", d, collection_id)
  PROVE  ContextInv'
<1>1. PICK n \in Nat : n = Len(stack)
  BY LenProperties DEF TypeOK
<1>2. /\ Len(stack') = n + 1 /\ stack'[n + 1] = f
      /\ \A k \in 1..n : stack'[k] = stack[k]
  <2>1. stack \in Seq(CallFrame)
    BY DEF TypeOK
  <2> QED
    BY <1>1, <2>1, AppendProperties
<1>3. \A id, type : GivenByInnermost(id, type, n) => GivenByInnermost(id, type, n)'
  BY <1>2, SameDocsSameIds
<1>4. \A type : n + 1 \in Naming(type, n + 1)' <=> d.type = type /\ d.id # NoId
  <2>1. n + 1 \in 1..(n + 1)
    OBVIOUS
  <2> QED
    BY <1>2, <2>1 DEF Naming
<1>5. ASSUME NEW type, NEW id, GivenByInnermost(id, type, n)
      PROVE  /\ d.type = type /\ d.id # NoId => GivenByInnermost(d.id, type, n + 1)'
             /\ ~(d.type = type /\ d.id # NoId) => GivenByInnermost(id, type, n + 1)'
  <2>1. CASE d.type = type /\ d.id # NoId
    <3>1. GivenByInnermost(Doc[stack[n + 1].doc].id, type, n + 1)'
      BY <1>4, <2>1, OneMoreCallNext
    <3> QED
      BY <1>2, <2>1, <3>1
  <2>2. CASE ~(d.type = type /\ d.id # NoId)
    <3>1. GivenByInnermost(id, type, n)'
      BY <1>3, <1>5
    <3>2. n + 1 \notin Naming(type, n + 1)'
      BY <1>4, <2>2
    <3> QED
      BY <2>2, <3>1, <3>2, OneMoreCallNext
  <2> QED
    BY <2>1, <2>2
<1>6. /\ GivenByInnermost(catalog_id, "Catalog", n)
      /\ GivenByInnermost(collection_id, "Collection", n)
  BY <1>1 DEF ContextInv, ContextFollowsStack
<1>7. ContextFollowsStack'
  BY <1>2, <1>5, <1>6 DEF ContextFollowsStack, Named
<1>8. \A k \in 1..n : SavedIsOuter(k)'
  BY <1>1, <1>2, CallsBelowStay DEF ContextInv
<1>9. SavedIsOuter(n + 1)'
  <2>1. /\ d.type = "Catalog" => \A id : id = f.saved => GivenByInnermost(id, "Catalog", n)'
        /\ d.type = "Collection" => \A id : id = f.saved => GivenByInnermost(id, "Collection", n)'
    BY <1>3, <1>6
  <2>2. stack'[n + 1] = f /\ (n + 1) - 1 = n
    BY <1>2
  <2> QED
    BY <2>1, <2>2 DEF SavedIsOuter
<1> QED
  BY <1>2, <1>7, <1>8, <1>9 DEF ContextInv

(* EnterCatalog, EnterCollection and EnterFeatureCollection push a call.   *)
LEMMA ContextAfterEntering ==
  ASSUME TypeOK, ContextInv, EnterCatalog \/ EnterCollection \/ EnterFeatureCollection
  PROVE  ContextInv'
<1>1. callee \in DOMAIN Doc
  BY DEF EnterCatalog, EnterCollection, EnterFeatureCollection, Calling, TypeOK
<1>2. \A at \in {"features", "links"}, id \in Ids :
        /\ Frame(at, id) \in CallFrame /\ Frame(at, id).doc = callee
        /\ Frame(at, id).at = at /\ Frame(at, id).saved = id
  BY <1>1 DEF Frame, CallFrame
<1>3. catalog_id \in Ids /\ collection_id \in Ids /\ "" \in Ids
  BY DEF TypeOK, Ids
<1>4. CASE EnterCatalog
  <2>1. /\ stack' = Append(stack, Frame("links", catalog_id)) /\ Doc[callee].type = "Catalog"
        /\ catalog_id' = Named("Catalog", Doc[callee], catalog_id)
        /\ collection_id' = Named("Collection", Doc[callee], collection_id)
    BY <1>4 DEF EnterCatalog, Calling, IdOr, Named
  <2> QED
    BY <1>2, <1>3, <2>1, ContextAfterPush
<1>5. CASE EnterCollection
  <2>1. /\ stack' = Append(stack, Frame("links", collection_id))
        /\ Doc[callee].type = "Collection"
        /\ catalog_id' = Named("Catalog", Doc[callee], catalog_id)
        /\ collection_id' = Named("Collection", Doc[callee], collection_id)
    BY <1>5 DEF EnterCollection, Calling, IdOr, Named
  <2> QED
    BY <1>2, <1>3, <2>1, ContextAfterPush
<1>6. CASE EnterFeatureCollection
  <2>1. /\ stack' = Append(stack, Frame("features", ""))
        /\ Doc[callee].type = "FeatureCollection"
        /\ catalog_id' = Named("Catalog", Doc[callee], catalog_id)
        /\ collection_id' = Named("Collection", Doc[callee], collection_id)
    BY <1>6 DEF EnterFeatureCollection, Calling, Named, ctx
  <2> QED
    BY <1>2, <1>3, <2>1, ContextAfterPush
<1> QED
  BY <1>4, <1>5, <1>6

(* A row is given the ids of the Catalog and the Collection it was found   *)
(* in, however deep, and whatever was read and left before it.             *)
THEOREM ContextIsRestored == Spec => []ContextFollowsStack
<1>1. Init => ContextInv
  <2> SUFFICES ASSUME Init PROVE ContextInv
    OBVIOUS
  <2>1. stack = <<>> /\ catalog_id = "" /\ collection_id = "" /\ Len(<<>>) = 0
    BY DEF Init
  <2>2. Len(stack) = 0
    BY <2>1
  <2>3. 1..0 = {}
    OBVIOUS
  <2>4. \A type : Naming(type, 0) = {}
    BY <2>3 DEF Naming
  <2>5. ContextFollowsStack
    BY <2>1, <2>2, <2>4 DEF ContextFollowsStack, GivenByInnermost
  <2> QED
    BY <2>2, <2>3, <2>5 DEF ContextInv
<1>2. TypeOK /\ ContextInv /\ [Next]_vars => ContextInv'
  <2> SUFFICES ASSUME TypeOK, ContextInv, [Next]_vars PROVE ContextInv'
    OBVIOUS
  <2>1. CASE UNCHANGED <<stack, ctx>>
    <3>1. stack' = stack /\ catalog_id' = catalog_id /\ collection_id' = collection_id
      BY <2>1 DEF ctx
    <3>2. PICK n \in Nat : n = Len(stack)
      BY LenProperties DEF TypeOK
    <3>3. \A id, type : GivenByInnermost(id, type, n) => GivenByInnermost(id, type, n)'
      BY <3>1, SameDocsSameIds
    <3>4. ContextFollowsStack'
      BY <3>1, <3>2, <3>3 DEF ContextInv, ContextFollowsStack
    <3>5. \A k \in 1..n : SavedIsOuter(k)'
      BY <3>1, <3>2, CallsBelowStay DEF ContextInv
    <3> QED
      BY <3>1, <3>2, <3>4, <3>5 DEF ContextInv
  <2>2. CASE (Advance /\ stack # <<>> /\ UNCHANGED ctx) \/ EndFeatures
    BY <2>2, ContextWhileLooping DEF EndFeatures, Looping
  <2>3. CASE StopFeatures \/ (Return /\ Looping("links"))
    BY <2>3, ContextAfterReturn
  <2>4. CASE EnterCatalog \/ EnterCollection \/ EnterFeatureCollection
    BY <2>4, ContextAfterEntering
  <2> QED
    BY <2>1, <2>2, <2>3, <2>4, StackSteps
<1>3. ContextInv => ContextFollowsStack
  BY DEF ContextInv
<1> QED
  BY <1>1, <1>2, <1>3, TypeInvariant, PTL DEF Spec

=============================================================================
