-------------------------- MODULE ScanOutputProofs --------------------------
(***************************************************************************)
(* Proofs about ScanOutput, for chunks and pages of any size and any       *)
(* number of pages.                                                        *)
(***************************************************************************)
EXTENDS ScanOutput, SequenceTheorems, TLAPS

Row == 1..read

(* What a running or failed call has written to the chunk.                 *)
Held == IF pc \in {"copy", "fetch", "failed"} THEN row_idx ELSE 0

PagesTyped == read \in Nat /\ pages \in Nat /\ pending \in Seq(Row)

CallTyped ==
  /\ i \in 1..(Len(pending) + 1) /\ row_idx \in 0..(VectorSize - 1)
  /\ chunk \in [1..VectorSize -> Row \cup {Garbage}]
  /\ cardinality \in 0..VectorSize
  /\ pc \in {"idle", "copy", "fetch", "exhausted", "failed"}

Typed == PagesTyped /\ CallTyped /\ delivered \in Seq(Row)

(* Where each row is: row k is the k-th handed out, the chunk continues    *)
(* from there, and the reader holds the last rows it has produced.         *)
Placed ==
  /\ \A k \in 1..Len(delivered) : delivered[k] = k
  /\ \A k \in 1..Held : chunk[k] = Len(delivered) + k
  /\ \A j \in 1..Len(pending) : pending[j] = read - Len(pending) + j
  /\ read = Len(delivered) + Held + Len(pending) - (i - 1)
  /\ i - 1 <= Held
  /\ pc \in {"fetch", "exhausted"} => Len(pending) = 0
  /\ pc = "exhausted" => pages = 0

IInv == Typed /\ Placed

(* The sizes that the arithmetic is about, as numbers.                     *)
LEMMA Sizes ==
  ASSUME Typed
  PROVE  /\ Len(delivered) \in Nat /\ Len(pending) \in Nat /\ read \in Nat
         /\ i \in Nat \ {0} /\ i <= Len(pending) + 1
         /\ row_idx \in Nat /\ row_idx <= VectorSize - 1 /\ Held \in 0..row_idx
<1>1. Len(delivered) \in Nat /\ Len(pending) \in Nat
  BY LenProperties DEF Typed, PagesTyped
<1>2. VectorSize \in Nat
  BY ScanAssumption
<1> QED BY <1>1, <1>2 DEF Typed, PagesTyped, CallTyped, Held

LEMMA NumbersTyped ==
  ASSUME NEW m \in Nat, NEW n \in Nat, m <= n
  PROVE  /\ T!Numbers(m, n) \in Seq(1..n)
         /\ Len(T!Numbers(m, n)) = n - m
         /\ \A k \in 1..(n - m) : T!Numbers(m, n)[k] = m + k
<1>1. n - m \in Nat
  OBVIOUS
<1>2. \A k \in 1..(n - m) : m + k \in 1..n
  OBVIOUS
<1>3. T!Numbers(m, n) \in [1..(n - m) -> 1..n]
  BY <1>2 DEF T!Numbers
<1> QED BY <1>1, <1>3 DEF T!Numbers

(* Two sequences with the same numbers at the same places.                 *)
LEMMA IsNumbers ==
  ASSUME NEW m \in Nat, NEW n \in Nat, m <= n, NEW S, NEW s \in Seq(S),
         Len(s) = n - m, \A k \in 1..(n - m) : s[k] = m + k
  PROVE  s = T!Numbers(m, n)
<1>1. DOMAIN s = 1..(n - m) /\ s = [k \in 1..(n - m) |-> s[k]]
  BY LenProperties
<1> QED BY <1>1 DEF T!Numbers

LEMMA StartsRight == Init => IInv
<1> SUFFICES ASSUME Init PROVE IInv
  OBVIOUS
<1>1. /\ read \in Nat /\ pages \in Nat /\ pending = T!Numbers(0, read)
      /\ i = 1 /\ row_idx = 0 /\ chunk = EmptyChunk /\ cardinality = 0
      /\ pc = "idle" /\ delivered = <<>>
  BY ScanAssumption DEF Init
<1>2. /\ pending \in Seq(Row) /\ Len(pending) = read /\ \A k \in 1..read : pending[k] = k
  <2>1. 0 \in Nat /\ 0 <= read /\ read - 0 = read /\ \A k \in 1..read : 0 + k = k
    BY <1>1
  <2>2. /\ pending \in Seq(1..read) /\ Len(pending) = read - 0
        /\ \A k \in 1..(read - 0) : pending[k] = 0 + k
    BY <1>1, <2>1, NumbersTyped
  <2> QED BY <2>1, <2>2 DEF Row
<1>3. delivered \in Seq(Row) /\ Len(delivered) = 0
  BY <1>1, EmptySeq
<1>4. CallTyped
  BY <1>1, <1>2, ScanAssumption DEF CallTyped, EmptyChunk
<1>5. Placed
  BY <1>1, <1>2, <1>3 DEF Placed, Held
<1> QED BY <1>1, <1>2, <1>3, <1>4, <1>5 DEF IInv, Typed, PagesTyped

(***************************************************************************)
(* The steps of a call.                                                    *)
(***************************************************************************)
LEMMA ExecuteKeeps == IInv /\ Execute => IInv'
<1> SUFFICES ASSUME IInv, Execute PROVE IInv'
  OBVIOUS
<1>1. /\ i' = 1 /\ row_idx' = 0 /\ chunk' = EmptyChunk /\ cardinality' = 0
      /\ pc = "idle" /\ pc' = "copy" /\ UNCHANGED <<read, pages, pending, delivered>>
  BY DEF Execute
<1>2. Typed'
  BY <1>1, ScanAssumption, Sizes DEF IInv, Typed, PagesTyped, CallTyped, EmptyChunk, Row
<1>3. Held' = 0 /\ Held = 0
  BY <1>1 DEF Held
<1>4. i = 1
  BY <1>3, Sizes DEF IInv, Placed
<1>5. Placed'
  BY <1>1, <1>3, <1>4, Sizes DEF IInv, Placed
<1> QED BY <1>2, <1>5 DEF IInv

LEMMA CopyRowKeeps == IInv /\ CopyRow => IInv'
<1> SUFFICES ASSUME IInv, CopyRow PROVE IInv'
  OBVIOUS
<1>1. /\ pc = "copy" /\ i <= Len(pending) /\ row_idx < VectorSize - 1
      /\ chunk' = [chunk EXCEPT ![row_idx + 1] = pending[i]]
      /\ i' = i + 1 /\ row_idx' = row_idx + 1
      /\ UNCHANGED <<read, pages, pending, cardinality, pc, delivered>>
  BY DEF CopyRow
<1>2. Held = row_idx /\ Held' = row_idx + 1
  BY <1>1 DEF Held
<1>3. VectorSize \in Nat /\ row_idx + 1 \in 1..VectorSize
  BY <1>1, Sizes, ScanAssumption DEF IInv
<1>4. i \in 1..Len(pending) /\ pending[i] \in Row
  BY <1>1, Sizes, ElementOfSeq DEF IInv, Typed, PagesTyped
<1>5. Typed'
  <2>1. chunk' \in [1..VectorSize -> Row \cup {Garbage}]
    BY <1>1, <1>3, <1>4 DEF IInv, Typed, CallTyped
  <2>2. i' \in 1..(Len(pending) + 1) /\ row_idx' \in 0..(VectorSize - 1)
    BY <1>1, <1>3, Sizes DEF IInv
  <2> QED BY <1>1, <2>1, <2>2 DEF IInv, Typed, PagesTyped, CallTyped, Row
<1>6. pending[i] = Len(delivered) + row_idx + 1
  BY <1>2, <1>4, Sizes DEF IInv, Placed
<1>7. \A k \in 1..(row_idx + 1) : chunk'[k] = Len(delivered) + k
  <2> TAKE k \in 1..(row_idx + 1)
  <2>1. chunk'[k] = IF k = row_idx + 1 THEN pending[i] ELSE chunk[k]
    BY <1>1, <1>3, Sizes DEF IInv, Typed, CallTyped
  <2>2. k # row_idx + 1 => k \in 1..row_idx
    BY Sizes DEF IInv
  <2> QED BY <1>2, <1>6, <2>1, <2>2, Sizes DEF IInv, Placed
<1>8. /\ read = Len(delivered) + (row_idx + 1) + Len(pending) - i
      /\ i <= row_idx + 1
  <2>1. read = Len(delivered) + row_idx + Len(pending) - (i - 1) /\ i - 1 <= row_idx
    BY <1>2 DEF IInv, Placed
  <2> QED BY <2>1, Sizes DEF IInv
<1>9. Placed'
  <2>1. /\ \A k \in 1..Len(delivered) : delivered[k] = k
        /\ \A j \in 1..Len(pending) : pending[j] = read - Len(pending) + j
    BY DEF IInv, Placed
  <2>2. i' - 1 = i
    BY <1>1, Sizes DEF IInv
  <2> QED BY <1>1, <1>2, <1>7, <1>8, <2>1, <2>2 DEF Placed
<1> QED BY <1>5, <1>9 DEF IInv

LEMMA AllCopiedKeeps == IInv /\ AllCopied => IInv'
<1> SUFFICES ASSUME IInv, AllCopied PROVE IInv'
  OBVIOUS
<1>1. /\ pc = "copy" /\ i > Len(pending) /\ pending' = <<>> /\ i' = 1 /\ pc' = "fetch"
      /\ UNCHANGED <<read, pages, row_idx, chunk, cardinality, delivered>>
  BY DEF AllCopied
<1>2. pending' \in Seq(Row) /\ Len(pending') = 0
  BY <1>1, EmptySeq
<1>3. Held' = row_idx /\ Held = row_idx
  BY <1>1 DEF Held
<1>4. Typed'
  BY <1>1, <1>2 DEF IInv, Typed, PagesTyped, CallTyped, Row
<1>5. read = Len(delivered) + row_idx
  BY <1>1, <1>3, Sizes DEF IInv, Placed
<1>6. Placed'
  BY <1>1, <1>2, <1>3, <1>5, Sizes DEF IInv, Placed
<1> QED BY <1>4, <1>6 DEF IInv

LEMMA ReadNextPageKeeps == IInv /\ ReadNextPage => IInv'
<1> SUFFICES ASSUME IInv, ReadNextPage PROVE IInv'
  OBVIOUS
<1>1. PICK n \in Nat : read' = read + n /\ pending' = T!Numbers(read, read + n)
  BY ScanAssumption DEF ReadNextPage
<1>2. /\ pc = "fetch" /\ pages > 0 /\ pages' = pages - 1 /\ pc' = "copy"
      /\ UNCHANGED <<i, row_idx, chunk, cardinality, delivered>>
  BY DEF ReadNextPage
<1>3. read \in Nat /\ pages \in Nat
  BY DEF IInv, Typed, PagesTyped
<1>4. /\ pending' \in Seq(Row') /\ Len(pending') = n
      /\ \A k \in 1..n : pending'[k] = read + k
  <2>1. read + n \in Nat /\ read <= read + n /\ (read + n) - read = n
    BY <1>3
  <2>2. /\ pending' \in Seq(1..(read + n)) /\ Len(pending') = (read + n) - read
        /\ \A k \in 1..((read + n) - read) : pending'[k] = read + k
    BY <1>1, <1>3, <2>1, NumbersTyped
  <2> QED BY <1>1, <2>1, <2>2 DEF Row
<1>5. Row \subseteq Row'
  BY <1>1, <1>3 DEF Row
<1>6. i = 1 /\ Len(pending) = 0 /\ Held = row_idx /\ Held' = row_idx
  BY <1>2, Sizes DEF IInv, Placed, Held
<1>7. Typed'
  <2>1. delivered' \in Seq(Row')
    BY <1>2, <1>5, SeqMonotonic DEF IInv, Typed
  <2>2. chunk' \in [1..VectorSize -> Row' \cup {Garbage}]
    BY <1>2, <1>5 DEF IInv, Typed, CallTyped
  <2>3. PagesTyped'
    BY <1>1, <1>2, <1>3, <1>4 DEF PagesTyped
  <2>4. i' \in 1..(Len(pending') + 1)
    BY <1>2, <1>4, <1>6
  <2> QED BY <1>2, <2>1, <2>2, <2>3, <2>4 DEF IInv, Typed, CallTyped
<1>8. read = Len(delivered) + row_idx
  BY <1>6, Sizes DEF IInv, Placed
<1>9. Placed'
  BY <1>1, <1>2, <1>3, <1>4, <1>6, <1>8, Sizes DEF IInv, Placed
<1> QED BY <1>7, <1>9 DEF IInv

LEMMA FetchFailsKeeps == IInv /\ FetchFails => IInv'
BY DEF FetchFails, IInv, Typed, PagesTyped, CallTyped, Row, Placed, Held

(***************************************************************************)
(* A chunk is returned.                                                    *)
(***************************************************************************)
(* What is handed out continues what was.                                  *)
LEMMA WrittenSlots ==
  ASSUME IInv, pc \in {"copy", "fetch"}
  PROVE  /\ row_idx \in Nat /\ Len(delivered) + row_idx <= read
         /\ SubSeq(chunk, 1, row_idx) = T!Numbers(Len(delivered), Len(delivered) + row_idx)
         /\ delivered \o SubSeq(chunk, 1, row_idx) \in Seq(Row)
         /\ Len(delivered \o SubSeq(chunk, 1, row_idx)) = Len(delivered) + row_idx
         /\ \A k \in 1..(Len(delivered) + row_idx) :
              (delivered \o SubSeq(chunk, 1, row_idx))[k] = k
<1> DEFINE written == SubSeq(chunk, 1, row_idx)
<1>1. Held = row_idx
  BY DEF Held
<1>2. PICK d \in Nat : d = Len(delivered)
  BY Sizes DEF IInv
<1>3. PICK r \in Nat : r = row_idx
  BY Sizes DEF IInv
<1>4. d + r <= read /\ read \in Nat
  BY <1>1, <1>2, <1>3, Sizes DEF IInv, Placed
<1>5. \A k \in 1..r : chunk[k] = d + k
  BY <1>1, <1>2, <1>3 DEF IInv, Placed
<1>6. \A k \in 1..r : chunk[k] \in Row
  BY <1>4, <1>5 DEF Row
<1>7. /\ written \in Seq(Row) /\ Len(written) = r
      /\ \A k \in 1..r : written[k] = d + k
  <2>1. 1 \in Int /\ r \in Int
    OBVIOUS
  <2>2. /\ SubSeq(chunk, 1, r) \in Seq(Row)
        /\ Len(SubSeq(chunk, 1, r)) = IF 1 <= r THEN r - 1 + 1 ELSE 0
        /\ \A k \in 1..(r - 1 + 1) : SubSeq(chunk, 1, r)[k] = chunk[1 + k - 1]
    BY <1>6, <2>1, SubSeqProperties
  <2>3. Len(SubSeq(chunk, 1, r)) = r
    BY <2>2
  <2>4. \A k \in 1..r : SubSeq(chunk, 1, r)[k] = chunk[k]
    BY <2>2
  <2> QED BY <1>3, <1>5, <2>2, <2>3, <2>4
<1>8. written = T!Numbers(d, d + r)
  <2>1. d + r \in Nat /\ d <= d + r /\ (d + r) - d = r
    OBVIOUS
  <2> HIDE DEF written
  <2> QED BY <1>7, <2>1, IsNumbers
<1>9. /\ delivered \o written \in Seq(Row) /\ Len(delivered \o written) = d + r
      /\ \A k \in 1..(d + r) : (delivered \o written)[k] = k
  <2>1. /\ delivered \in Seq(Row) /\ \A k \in 1..d : delivered[k] = k
    BY <1>2 DEF IInv, Typed, Placed
  <2> HIDE DEF written
  <2>2. /\ delivered \o written \in Seq(Row) /\ Len(delivered \o written) = d + r
        /\ \A k \in 1..(d + r) :
             (delivered \o written)[k] = IF k <= d THEN delivered[k] ELSE written[k - d]
    BY <1>2, <1>7, <2>1, ConcatProperties
  <2>3. ASSUME NEW k \in 1..(d + r)
        PROVE  (delivered \o written)[k] = k
    <3>1. CASE k <= d
      BY <2>1, <2>2, <3>1
    <3>2. CASE ~(k <= d)
      <4>1. k - d \in 1..r /\ d + (k - d) = k
        BY <3>2
      <4>2. (delivered \o written)[k] = written[k - d]
        BY <2>2, <4>1
      <4>3. written[k - d] = d + (k - d)
        BY <1>7, <4>1
      <4> QED BY <4>1, <4>2, <4>3
    <3> QED BY <3>1, <3>2
  <2> QED BY <2>2, <2>3
<1> QED BY <1>2, <1>3, <1>4, <1>8, <1>9

LEMMA ReturnFullChunkKeeps == IInv /\ ReturnFullChunk => IInv'
<1> SUFFICES ASSUME IInv, ReturnFullChunk PROVE IInv'
  OBVIOUS
<1>1. /\ pc = "copy" /\ i <= Len(pending) /\ row_idx >= VectorSize - 1
      /\ pending' = SubSeq(pending, i, Len(pending)) /\ i' = 1
      /\ cardinality' = row_idx + 1 /\ delivered' = delivered \o SubSeq(chunk, 1, row_idx)
      /\ UNCHANGED <<read, pages, row_idx, chunk>>
  BY DEF ReturnFullChunk, Return
<1>2. row_idx \in Nat /\ VectorSize \in Nat /\ VectorSize >= 2
      /\ row_idx <= VectorSize - 1
  BY Sizes, ScanAssumption DEF IInv
<1>3. pc' = "idle"
  BY <1>2 DEF ReturnFullChunk, Return
<1>4. PICK m \in Nat : m = Len(pending)
  BY Sizes DEF IInv
<1>5. i \in 1..m
  BY <1>1, <1>4, Sizes DEF IInv
<1>6. /\ pending' \in Seq(Row) /\ Len(pending') = m - i + 1
      /\ \A j \in 1..(m - i + 1) : pending'[j] = pending[i + j - 1]
  <2>1. \A j \in i..m : pending[j] \in Row
    BY <1>4, <1>5, ElementOfSeq DEF IInv, Typed, PagesTyped
  <2> QED BY <1>1, <1>4, <1>5, <2>1, SubSeqProperties
<1>7. Typed'
  <2>1. delivered' \in Seq(Row)
    BY <1>1, WrittenSlots
  <2>2. i' \in 1..(Len(pending') + 1) /\ cardinality' \in 0..VectorSize
    BY <1>1, <1>2, <1>5, <1>6
  <2> QED BY <1>1, <1>3, <1>6, <2>1, <2>2 DEF IInv, Typed, PagesTyped, CallTyped, Row
<1>8. Held = row_idx /\ Held' = 0
  BY <1>1, <1>3 DEF Held
<1>9. Placed'
  <2>1. /\ Len(delivered') = Len(delivered) + row_idx
        /\ \A k \in 1..Len(delivered') : delivered'[k] = k
    BY <1>1, WrittenSlots
  <2>2. read' = Len(delivered') + Len(pending')
    BY <1>1, <1>4, <1>5, <1>6, <1>8, <2>1, Sizes DEF IInv, Placed
  <2>3. \A j \in 1..Len(pending') : pending'[j] = read' - Len(pending') + j
    <3> SUFFICES ASSUME NEW j \in 1..(m - i + 1)
                 PROVE  pending[i + j - 1] = read - (m - i + 1) + j
      BY <1>1, <1>6
    <3>1. i + j - 1 \in 1..m
      BY <1>5
    <3>2. pending[i + j - 1] = read - m + (i + j - 1)
      BY <1>4, <3>1 DEF IInv, Placed
    <3> QED BY <1>5, <3>2, Sizes DEF IInv
  <2>4. Len(pending') \in Nat /\ Len(delivered') \in Nat
    BY <1>5, <1>6, <1>2, <2>1, Sizes DEF IInv
  <2>5. read' = Len(delivered') + Held' + Len(pending') - (i' - 1) /\ i' - 1 <= Held'
    <3>1. i' - 1 = 0 /\ Held' = 0
      BY <1>1, <1>8
    <3>2. PICK a \in Nat : a = Len(delivered')
      BY <2>4
    <3>3. PICK b \in Nat : b = Len(pending')
      BY <2>4
    <3> QED BY <2>2, <3>1, <3>2, <3>3
  <2>6. \A k \in 1..Held' : chunk'[k] = Len(delivered') + k
    BY <1>8
  <2> QED BY <1>3, <2>1, <2>3, <2>5, <2>6 DEF Placed
<1> QED BY <1>7, <1>9 DEF IInv

LEMMA ReturnLastChunkKeeps == IInv /\ ReturnLastChunk => IInv'
<1> SUFFICES ASSUME IInv, ReturnLastChunk PROVE IInv'
  OBVIOUS
<1>1. /\ pc = "fetch" /\ pages = 0
      /\ cardinality' = row_idx /\ delivered' = delivered \o SubSeq(chunk, 1, row_idx)
      /\ pc' \in {"idle", "exhausted"}
      /\ UNCHANGED <<read, pages, pending, i, row_idx, chunk>>
  BY DEF ReturnLastChunk, Return
<1>2. row_idx \in Nat /\ VectorSize \in Nat /\ row_idx <= VectorSize - 1
  BY Sizes, ScanAssumption DEF IInv
<1>3. Typed'
  BY <1>1, <1>2, WrittenSlots DEF IInv, Typed, PagesTyped, CallTyped, Row
<1>4. Held = row_idx /\ Held' = 0 /\ Len(pending) = 0 /\ i = 1
  BY <1>1, Sizes DEF Held, IInv, Placed
<1>5. /\ Len(delivered') = Len(delivered) + row_idx
      /\ \A k \in 1..Len(delivered') : delivered'[k] = k
  BY <1>1, WrittenSlots
<1>6. read = Len(delivered')
  BY <1>4, <1>5, Sizes DEF IInv, Placed
<1>7. Placed'
  BY <1>1, <1>2, <1>4, <1>5, <1>6, Sizes DEF IInv, Placed
<1> QED BY <1>3, <1>7 DEF IInv

LEMMA IInvInvariant == Spec => []IInv
<1>1. IInv /\ [Next]_vars => IInv'
  <2> SUFFICES ASSUME IInv, [Next]_vars PROVE IInv'
    OBVIOUS
  <2>1. CASE UNCHANGED vars
    BY <2>1 DEF vars, IInv, Typed, PagesTyped, CallTyped, Row, Placed, Held
  <2> QED
    BY <2>1, ExecuteKeeps, CopyRowKeeps, ReturnFullChunkKeeps, AllCopiedKeeps,
       ReadNextPageKeeps, FetchFailsKeeps, ReturnLastChunkKeeps DEF Next
<1> QED BY <1>1, StartsRight, PTL DEF Spec

(***************************************************************************)
(* Theorems.                                                               *)
(***************************************************************************)
(* No call writes behind its chunk, and no chunk says that it holds more   *)
(* than its slots.                                                         *)
THEOREM TypeCorrect == Spec => []TypeOK
<1>1. IInv => TypeOK
  BY DEF IInv, Typed, PagesTyped, CallTyped, Row, TypeOK
<1> QED BY <1>1, IInvInvariant, PTL

(* Every row is handed out, in the chunk or waiting, once and in order,    *)
(* whatever the sizes of pages and chunks.                                 *)
THEOREM RowsAreKept == Spec => []NoRowLostOrRepeated
<1>1. ASSUME IInv, pc # "failed"
      PROVE  delivered \o Backlog = T!Numbers(0, read)
  <2>1. PICK d \in Nat : d = Len(delivered)
    BY <1>1, Sizes DEF IInv
  <2>2. PICK m \in Nat : m = Len(pending)
    BY <1>1, Sizes DEF IInv
  <2>3. /\ read \in Nat /\ i \in 1..(m + 1) /\ Held \in Nat
        /\ read = d + Held + m - (i - 1)
        /\ \A k \in 1..d : delivered[k] = k
        /\ \A k \in 1..Held : chunk[k] = d + k
        /\ \A j \in 1..m : pending[j] = read - m + j
        /\ delivered \in Seq(Row) /\ pending \in Seq(Row)
    BY <1>1, <2>1, <2>2, Sizes DEF IInv, Typed, PagesTyped, Placed
  <2>4. /\ Backlog \in Seq(Row) /\ Len(Backlog) = read - d
        /\ \A k \in 1..(read - d) : Backlog[k] = d + k
    <3>1. CASE pc \in {"copy", "fetch"}
      <4> DEFINE written == SubSeq(chunk, 1, row_idx)
                 left    == SubSeq(pending, i, Len(pending))
      <4>1. PICK r \in Nat : r = row_idx
        BY <1>1, Sizes DEF IInv
      <4>2. Held = r
        BY <3>1, <4>1 DEF Held
      <4>3. /\ written \in Seq(Row) /\ Len(written) = r
            /\ \A k \in 1..r : written[k] = d + k
        <5>1. \A k \in 1..r : d + k \in Row /\ chunk[k] = d + k
          BY <2>3, <4>2 DEF Row
        <5>2. /\ SubSeq(chunk, 1, r) \in Seq(Row)
              /\ Len(SubSeq(chunk, 1, r)) = IF 1 <= r THEN r - 1 + 1 ELSE 0
              /\ \A k \in 1..(r - 1 + 1) : SubSeq(chunk, 1, r)[k] = chunk[1 + k - 1]
          BY <5>1, SubSeqProperties
        <5>3. Len(SubSeq(chunk, 1, r)) = r /\ \A k \in 1..r : SubSeq(chunk, 1, r)[k] = chunk[k]
          BY <5>2
        <5> QED BY <4>1, <5>1, <5>2, <5>3
      <4>4. /\ left \in Seq(Row) /\ Len(left) = m - i + 1
            /\ \A k \in 1..(m - i + 1) : left[k] = d + r + k
        <5>1. \A j \in i..m : pending[j] \in Row
          BY <2>2, <2>3, ElementOfSeq
        <5>2. /\ left \in Seq(Row) /\ Len(left) = IF i <= m THEN m - i + 1 ELSE 0
              /\ \A k \in 1..(m - i + 1) : left[k] = pending[i + k - 1]
          BY <2>2, <2>3, <5>1, SubSeqProperties
        <5>3. Len(left) = m - i + 1
          BY <2>3, <5>2
        <5>4. ASSUME NEW k \in 1..(m - i + 1)
              PROVE  left[k] = d + r + k
          <6>1. i + k - 1 \in 1..m
            BY <2>3
          <6>2. left[k] = read - m + (i + k - 1)
            BY <2>3, <5>2, <6>1
          <6>3. read - m + (i + k - 1) = d + r + k
            BY <2>3, <4>2
          <6> QED BY <6>2, <6>3
        <5> QED BY <5>2, <5>3, <5>4
      <4>5. Backlog = written \o left
        BY <3>1 DEF Backlog
      <4>6. read - d = r + (m - i + 1) /\ m - i + 1 \in Nat
        BY <2>3, <4>2
      <4> HIDE DEF written, left
      <4>7. /\ written \o left \in Seq(Row) /\ Len(written \o left) = r + (m - i + 1)
            /\ \A k \in 1..(r + (m - i + 1)) :
                 (written \o left)[k] = IF k <= r THEN written[k] ELSE left[k - r]
        <5>1. Len(written) + Len(left) = r + (m - i + 1)
          BY <4>3, <4>4
        <5>2. /\ written \o left \in Seq(Row) /\ Len(written \o left) = Len(written) + Len(left)
              /\ \A k \in 1..(Len(written) + Len(left)) :
                   (written \o left)[k] = IF k <= Len(written) THEN written[k] ELSE left[k - Len(written)]
          BY <4>3, <4>4, ConcatProperties
        <5> QED BY <4>3, <5>1, <5>2
      <4>8. ASSUME NEW k \in 1..(r + (m - i + 1))
            PROVE  (written \o left)[k] = d + k
        <5>1. CASE k <= r
          BY <4>3, <4>7, <5>1
        <5>2. CASE ~(k <= r)
          <6>1. k - r \in 1..(m - i + 1) /\ d + r + (k - r) = d + k
            BY <4>6, <5>2
          <6>2. (written \o left)[k] = left[k - r]
            BY <4>7, <5>2
          <6>3. left[k - r] = d + r + (k - r)
            BY <4>4, <6>1
          <6> QED BY <6>1, <6>2, <6>3
        <5> QED BY <5>1, <5>2
      <4> QED BY <4>5, <4>6, <4>7, <4>8
    <3>2. CASE pc \notin {"copy", "fetch"}
      <4>1. Backlog = pending /\ Held = 0
        BY <1>1, <3>2 DEF Backlog, Held
      <4>2. i = 1
        BY <1>1, <2>3, <4>1 DEF IInv, Placed
      <4>3. read - d = m /\ read - m = d
        BY <2>3, <4>1, <4>2
      <4> QED BY <2>2, <2>3, <4>1, <4>3
    <3> QED BY <3>1, <3>2
  <2>5. d <= read /\ d + (read - d) = read /\ read - d \in Nat
    BY <2>3
  <2>6. /\ delivered \o Backlog \in Seq(Row) /\ Len(delivered \o Backlog) = d + (read - d)
        /\ \A k \in 1..(d + (read - d)) :
             (delivered \o Backlog)[k] = IF k <= d THEN delivered[k] ELSE Backlog[k - d]
    BY <2>1, <2>3, <2>4, ConcatProperties
  <2>7. ASSUME NEW k \in 1..read
        PROVE  (delivered \o Backlog)[k] = k
    <3>1. CASE k <= d
      BY <2>3, <2>5, <2>6, <3>1
    <3>2. CASE ~(k <= d)
      <4>1. k - d \in 1..(read - d) /\ d + (k - d) = k
        BY <2>5, <3>2
      <4>2. (delivered \o Backlog)[k] = Backlog[k - d]
        BY <2>5, <2>6, <3>2
      <4>3. Backlog[k - d] = d + (k - d)
        BY <2>4, <4>1
      <4> QED BY <4>1, <4>2, <4>3
    <3> QED BY <3>1, <3>2
  <2>8. read \in Nat /\ read - 0 = read /\ \A k \in 1..read : 0 + k = k
    BY <2>3
  <2>9. /\ 0 \in Nat /\ 0 <= read /\ Len(delivered \o Backlog) = read - 0
        /\ \A k \in 1..(read - 0) : (delivered \o Backlog)[k] = 0 + k
    BY <2>5, <2>6, <2>7, <2>8
  <2> QED BY <2>6, <2>8, <2>9, IsNumbers
<1>2. IInv => NoRowLostOrRepeated
  BY <1>1 DEF NoRowLostOrRepeated
<1> QED BY <1>2, IInvInvariant, PTL

(* Execute implements TableScan: a chunk with rows is an Emit, an empty    *)
(* one the Exhaust, and a page is a Produce even if it is empty.           *)
THEOREM ScanRefinesTableScan == Spec => ImplementsTableScan
<1>1. Init => T!Init
  BY ScanAssumption DEF Init, T!Init
<1>2. IInv /\ [Next]_vars => [T!Next]_(T!scan)
  <2> SUFFICES ASSUME IInv, [Next]_vars PROVE [T!Next]_(T!scan)
    OBVIOUS
  <2>1. CASE Execute \/ CopyRow \/ AllCopied \/ FetchFails \/ UNCHANGED vars
    BY <2>1 DEF Execute, CopyRow, AllCopied, FetchFails, vars, T!scan
  <2>2. CASE ReadNextPage
    <3>1. PICK n \in Nat : read' = read + n
      BY <2>2, ScanAssumption DEF ReadNextPage
    <3>2. read \in Nat /\ read' \in Nat /\ read' >= read
      BY <3>1, Sizes DEF IInv
    <3> QED BY <2>2, <3>2 DEF ReadNextPage, T!Next, T!Produce
  <2>3. ASSUME pc \in {"copy", "fetch"}, row_idx > 0, pc' = "idle", UNCHANGED <<pages, read>>,
               delivered' = delivered \o SubSeq(chunk, 1, row_idx)
        PROVE  T!Next
    <3>1. /\ delivered' = delivered \o T!Numbers(Len(delivered), Len(delivered) + row_idx)
          /\ Len(delivered) + row_idx \in Len(delivered)..read
      BY <2>3, WrittenSlots, Sizes DEF IInv
    <3> QED BY <2>3, <3>1 DEF T!Next, T!Emit
  <2>4. CASE ReturnFullChunk
    <3>1. row_idx > 0 /\ row_idx + 1 # 0
      BY <2>4, ScanAssumption, Sizes DEF IInv, ReturnFullChunk
    <3>2. T!Next
      BY <2>3, <2>4, <3>1 DEF ReturnFullChunk, Return
    <3> QED BY <3>2
  <2>5. CASE ReturnLastChunk
    <3>1. CASE row_idx > 0
      <4>1. T!Next
        BY <2>3, <2>5, <3>1 DEF ReturnLastChunk, Return
      <4> QED BY <4>1
    <3>2. CASE ~(row_idx > 0)
      <4>1. row_idx = 0
        BY <3>2, Sizes DEF IInv
      <4>2. SubSeq(chunk, 1, row_idx) = <<>>
        BY <4>1, SubSeqEmpty
      <4>3. delivered' = delivered
        BY <2>5, <4>2, ConcatEmptySeq DEF ReturnLastChunk, Return, IInv, Typed
      <4>4. Len(delivered) = read
        BY <2>5, <4>1, Sizes DEF ReturnLastChunk, IInv, Placed, Held
      <4>5. pc = "fetch" /\ pages = 0 /\ pc' = "exhausted" /\ UNCHANGED <<read, pages>>
        BY <2>5, <4>1 DEF ReturnLastChunk, Return
      <4>6. T!Next
        BY <4>3, <4>4, <4>5 DEF T!Next, T!Exhaust
      <4> QED BY <4>6
    <3> QED BY <3>1, <3>2
  <2> QED BY <2>1, <2>2, <2>4, <2>5 DEF Next
<1> QED BY <1>1, <1>2, IInvInvariant, PTL DEF Spec, ImplementsTableScan, T!Spec
=============================================================================
