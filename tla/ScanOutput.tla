----------------------------- MODULE ScanOutput -----------------------------
(***************************************************************************)
(* STAC_Read::Execute (src/stac/stac_read_functions.cpp): how the rows of  *)
(* the reader are cut into the DataChunks of DuckDB.                       *)
(*                                                                         *)
(* A call first copies the rows left in the reader, then reads page after  *)
(* page until the chunk is full or no page is left; when the chunk is full *)
(* it erases from the reader what it has copied, so that the next call     *)
(* goes on from there.  The reader is what ItemReader makes of a page: any *)
(* number of rows, possibly none.  Rows are numbered in reading order.     *)
(***************************************************************************)
EXTENDS Integers, Sequences

CONSTANTS
  VectorSize,  \* STANDARD_VECTOR_SIZE, 2048
  PageSize,    \* the most rows one page brings (bound of the model)
  MaxPages,    \* the most pages after the first (bound of the model)
  Garbage      \* what a slot holds that was never written

ASSUME ScanAssumption ==
  /\ VectorSize \in Nat /\ VectorSize >= 2
  /\ PageSize \in Nat /\ MaxPages \in Nat
  /\ Garbage \notin Nat

VARIABLES
  read,       \* rows the reader has produced so far (its row_count)
  pages,      \* pages the server still has after the ones read
  pending,    \* reader->rows
  i, row_idx, \* the locals of Execute
  chunk,      \* the slots of the output chunk
  cardinality,\* how many of them it says it holds, once it is returned
  pc,         \* "idle", "copy", "fetch", "exhausted" or "failed"
  delivered   \* history: the rows written to the chunks returned so far

vars == <<read, pages, pending, i, row_idx, chunk, cardinality, pc, delivered>>

T == INSTANCE TableScan WITH more <- pages > 0, produced <- read,
       emitted <- delivered, exhausted <- pc = "exhausted"

EmptyChunk == [slot \in 1..VectorSize |-> Garbage]

(* STAC_Read::Init has read the first page.                                *)
Init ==
  /\ read \in 0..PageSize /\ pages \in 0..MaxPages
  /\ pending = T!Numbers(0, read)
  /\ i = 1 /\ row_idx = 0 /\ chunk = EmptyChunk /\ cardinality = 0
  /\ pc = "idle" /\ delivered = <<>>

(* DuckDB calls Execute with a chunk that has been reset.                  *)
Execute ==
  /\ pc = "idle"
  /\ i' = 1 /\ row_idx' = 0 /\ chunk' = EmptyChunk /\ cardinality' = 0
  /\ pc' = "copy"
  /\ UNCHANGED <<read, pages, pending, delivered>>

CopyRowPastEnd ==
  /\ pc = "copy" /\ i <= Len(pending) /\ row_idx <= VectorSize - 1
  /\ chunk' = [chunk EXCEPT ![row_idx + 1] = pending[i]]
  /\ i' = i + 1 /\ row_idx' = row_idx + 1
  /\ UNCHANGED <<read, pages, pending, cardinality, pc, delivered>>

CopyRow ==
  /\ pc = "copy" /\ i <= Len(pending) /\ row_idx < VectorSize - 1
  /\ chunk' = [chunk EXCEPT ![row_idx + 1] = pending[i]]
  /\ i' = i + 1 /\ row_idx' = row_idx + 1
  /\ UNCHANGED <<read, pages, pending, cardinality, pc, delivered>>

(* The slots before row_idx have been written.                             *)
Return(count) ==
  /\ cardinality' = count
  /\ delivered' = delivered \o SubSeq(chunk, 1, row_idx)
  /\ pc' = IF count = 0 THEN "exhausted" ELSE "idle"

ReturnFullChunkErasingOneMore ==
  /\ pc = "copy" /\ i <= Len(pending) /\ row_idx >= VectorSize - 1
  /\ pending' = SubSeq(pending, i + 1, Len(pending)) /\ i' = 1
  /\ Return(row_idx + 1)
  /\ UNCHANGED <<read, pages, row_idx, chunk>>

(* row_idx is the slot of the next row: it has not been written, and the   *)
(* cardinality of the chunk counts it.                                     *)
ReturnFullChunk ==
  /\ pc = "copy" /\ i <= Len(pending) /\ row_idx >= VectorSize - 1
  /\ pending' = SubSeq(pending, i, Len(pending)) /\ i' = 1
  /\ Return(row_idx + 1)
  /\ UNCHANGED <<read, pages, row_idx, chunk>>

AllCopied ==
  /\ pc = "copy" /\ i > Len(pending)
  /\ pending' = <<>> /\ i' = 1
  /\ pc' = "fetch"
  /\ UNCHANGED <<read, pages, row_idx, chunk, cardinality, delivered>>

(* ReadNextPageOfResults appends the rows of the page, or throws.          *)
ReadNextPage ==
  /\ pc = "fetch" /\ pages > 0
  /\ pages' = pages - 1
  /\ \E n \in 0..PageSize :
       read' = read + n /\ pending' = T!Numbers(read, read + n)
  /\ pc' = "copy"
  /\ UNCHANGED <<i, row_idx, chunk, cardinality, delivered>>

FetchFails ==
  /\ pc = "fetch" /\ pages > 0
  /\ pc' = "failed"
  /\ UNCHANGED <<read, pages, pending, i, row_idx, chunk, cardinality, delivered>>

StopAtFirstEmptyPage ==
  /\ pc = "fetch"
  /\ Return(row_idx)
  /\ UNCHANGED <<read, pages, pending, i, row_idx, chunk>>

ReturnLastChunkIfAny ==
  /\ pc = "fetch" /\ pages = 0 /\ row_idx > 0
  /\ Return(row_idx)
  /\ UNCHANGED <<read, pages, pending, i, row_idx, chunk>>

ReturnLastChunk ==
  /\ pc = "fetch" /\ pages = 0
  /\ Return(row_idx)
  /\ UNCHANGED <<read, pages, pending, i, row_idx, chunk>>

Next == Execute \/ CopyRow \/ ReturnFullChunk \/ AllCopied
          \/ ReadNextPage \/ FetchFails \/ ReturnLastChunk

(* DuckDB calls Execute until a chunk comes back empty.                    *)
Spec == Init /\ [][Next]_vars /\ WF_vars(Next)

(***************************************************************************)
(* Properties.                                                             *)
(***************************************************************************)
TypeOK ==
  /\ read \in Nat /\ pages \in Nat
  /\ pending \in Seq(1..read)
  /\ i \in 1..(Len(pending) + 1) /\ row_idx \in 0..(VectorSize - 1)
  /\ chunk \in [1..VectorSize -> 1..read \cup {Garbage}]
  /\ cardinality \in 0..VectorSize
  /\ pc \in {"idle", "copy", "fetch", "exhausted", "failed"}
  /\ delivered \in Seq(1..read)

(* The rows that are still to be handed out: those copied into the chunk   *)
(* by the running call, and those of the reader it has not copied.         *)
Backlog == IF pc \in {"copy", "fetch"}
           THEN SubSeq(chunk, 1, row_idx) \o SubSeq(pending, i, Len(pending))
           ELSE pending

(* Whatever the pages and the chunks, every row the reader has produced is *)
(* in exactly one place: handed out, in the chunk or waiting, in order.    *)
NoRowLostOrRepeated ==
  pc # "failed" => delivered \o Backlog = T!Numbers(0, read)

(* Execute implements TableScan, if slots that no row was written to do    *)
(* not count.                                                              *)
ImplementsTableScan == T!Spec

(* Every scan ends, or fails.                                              *)
ScanEnds == <>(pc \in {"exhausted", "failed"})

(* "Each row represents a single STAC item."                               *)
EachRowIsAnItem == \A slot \in 1..cardinality : chunk[slot] # Garbage
=============================================================================
