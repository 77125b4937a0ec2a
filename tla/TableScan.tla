------------------------------ MODULE TableScan ------------------------------
(***************************************************************************)
(* What DuckDB expects of a table function, and what STAC_Read promises:   *)
(* the scan hands out the items its reader has produced, each exactly once *)
(* and in order, and says that it is exhausted only when no item is left   *)
(* and none will come.                                                     *)
(* Items are numbered in the order in which the reader produces them.      *)
(***************************************************************************)
EXTENDS Integers, Sequences

VARIABLES
  more,       \* the reader has more pages to read
  produced,   \* how many items the reader has produced so far
  emitted,    \* the items handed out
  exhausted   \* the scan has answered a call with no row

scan == <<more, produced, emitted, exhausted>>

Numbers(m, n) == [k \in 1..(n - m) |-> m + k]

Init == more \in BOOLEAN /\ produced \in Nat /\ emitted = <<>> /\ exhausted = FALSE

(* The reader reads one more page.                                         *)
Produce ==
  /\ ~exhausted /\ more
  /\ more' \in BOOLEAN /\ produced' \in Nat /\ produced' >= produced
  /\ UNCHANGED <<emitted, exhausted>>

(* A call hands out the next items.                                        *)
Emit ==
  /\ ~exhausted
  /\ \E n \in Len(emitted)..produced :
       emitted' = emitted \o Numbers(Len(emitted), n)
  /\ UNCHANGED <<more, produced, exhausted>>

Exhaust ==
  /\ ~exhausted /\ ~more /\ Len(emitted) = produced
  /\ exhausted' = TRUE
  /\ UNCHANGED <<more, produced, emitted>>

Next == Produce \/ Emit \/ Exhaust

Spec == Init /\ [][Next]_scan
=============================================================================
