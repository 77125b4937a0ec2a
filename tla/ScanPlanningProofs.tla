------------------------- MODULE ScanPlanningProofs -------------------------
(***************************************************************************)
(* Whatever the shape of the plan, the filters in it and the columns that  *)
(* DuckDB settles on, Init finds the column of every copied filter.        *)
(***************************************************************************)
EXTENDS ScanPlanning, SequenceTheorems, FiniteSetTheorems, TLAPS

BindData == [filter_expressions : Seq(Column), row_offset : Nat, row_limit : Nat]

PlanInv == PlanShape(plan) /\ todo \in Seq(DOMAIN plan)

BindInv == bind \in [Scans -> BindData]

Settled == phase \in {"optimize", "init", "running"}

ColumnsInv ==
  /\ column_ids \in [Scans -> Seq(Column)]
  /\ ~Settled => \A g \in Scans : Elements(column_ids[g]) = Column

(* What a scan filters on is what a filter of the plan tests above it.     *)
Copied == \A g \in Scans : Elements(bind[g].filter_expressions) \subseteq UsedColumns(g)

(* What a filter of the plan tests is among the columns of the scan.       *)
Kept == Settled => \A g \in Scans : UsedColumns(g) \subseteq Elements(column_ids[g])

Phases == phase \in {"filters", "columns", "optimize", "init", "running"}

IInv == PlanInv /\ BindInv /\ ColumnsInv /\ Copied /\ Kept /\ Phases

(***************************************************************************)
(* Plans.                                                                  *)
(***************************************************************************)
LEMMA NodeFields ==
  ASSUME NEW p, PlanShape(p), NEW n \in DOMAIN p
  PROVE  /\ p \in Seq(Node) /\ p[n] \in Node
         /\ p[n].kids \in Seq(Nat) /\ p[n].columns \in Seq(Column)
         /\ p[n].kids \in Seq(DOMAIN p)
<1>1. p \in Seq(Node) /\ p[n] \in Node
  BY DEF PlanShape
<1>2. p[n].kids \in Seq(Nat) /\ p[n].columns \in Seq(Column)
  BY <1>1 DEF Node
<1>3. DOMAIN p = 1..Len(p) /\ Len(p) \in Nat /\ n \in Nat \ {0}
  BY <1>1
<1>4. \A k \in DOMAIN p[n].kids : p[n].kids[k] \in (n + 1)..Len(p)
  BY DEF PlanShape, IsTree
<1>5. \A k \in DOMAIN p[n].kids : p[n].kids[k] \in DOMAIN p
  BY <1>3, <1>4
<1>6. p[n].kids \in Seq(DOMAIN p)
  BY <1>2, <1>5
<1> QED BY <1>1, <1>2, <1>6

(* The filters found above a scan test columns.                            *)
LEMMA FilterOfColumns ==
  ASSUME NEW p, PlanShape(p), NEW g
  PROVE  FilterOf(p, g) \in Seq(Column)
<1> DEFINE over == {n \in DOMAIN p : p[n].op = "FILTER" /\ p[n].kids = <<g>>}
<1>1. CASE over = {}
  BY <1>1 DEF FilterOf
<1>2. CASE over # {}
  <2>1. (CHOOSE n \in over : TRUE) \in DOMAIN p
    BY <1>2
  <2>2. p[CHOOSE n \in over : TRUE].columns \in Seq(Column)
    BY <2>1, NodeFields
  <2> QED BY <1>2, <2>2 DEF FilterOf
<1> QED BY <1>1, <1>2

(* Two plans that differ in their limits only have the same filters.       *)
LEMMA SameFilters ==
  ASSUME NEW p, NEW q, DOMAIN p = DOMAIN q,
         \A n \in DOMAIN p :
           p[n].op = q[n].op /\ p[n].kids = q[n].kids /\ p[n].columns = q[n].columns
  PROVE  /\ Gets(p) = Gets(q)
         /\ \A g : FilterOf(p, g) = FilterOf(q, g)
<1>1. Gets(p) = Gets(q)
  BY DEF Gets
<1>2. ASSUME NEW g
      PROVE  FilterOf(p, g) = FilterOf(q, g)
  <2> DEFINE over(r) == {n \in DOMAIN r : r[n].op = "FILTER" /\ r[n].kids = <<g>>}
  <2>1. over(p) = over(q)
    OBVIOUS
  <2>2. CASE over(p) = {}
    BY <2>1, <2>2 DEF FilterOf
  <2>3. CASE over(p) # {}
    <3>1. (CHOOSE n \in over(p) : TRUE) = (CHOOSE n \in over(q) : TRUE)
      BY <2>1
    <3>2. (CHOOSE n \in over(p) : TRUE) \in DOMAIN p
      BY <2>3
    <3>3. p[CHOOSE n \in over(p) : TRUE].columns = q[CHOOSE n \in over(q) : TRUE].columns
      BY <3>1, <3>2
    <3> QED BY <2>1, <2>3, <3>3 DEF FilterOf
  <2> QED BY <2>2, <2>3
<1> QED BY <1>1, <1>2

(* What comes to be visited next is in the plan.                           *)
LEMMA VisitsPlan ==
  ASSUME PlanInv, todo # <<>>
  PROVE  /\ Head1 \in DOMAIN plan /\ Tail(todo) \in Seq(DOMAIN plan)
         /\ plan[Head1].kids \o Tail(todo) \in Seq(DOMAIN plan)
<1>1. Head1 \in DOMAIN plan /\ Tail(todo) \in Seq(DOMAIN plan)
  BY DEF PlanInv, Head1
<1>2. plan[Head1].kids \in Seq(DOMAIN plan)
  BY <1>1, NodeFields DEF PlanInv
<1> QED BY <1>1, <1>2

(***************************************************************************)
(* Filters.                                                                *)
(***************************************************************************)
(* A copied expression tests the columns that the expression tests.        *)
LEMMA CopiesTestTheSame ==
  ASSUME PlanInv, ColumnsInv, ~Settled, NEW g \in Scans
  PROVE  FilterCopies(g) = FilterOf(plan, g)
<1> DEFINE found == FilterOf(plan, g)
<1>1. found \in Seq(Column)
  BY FilterOfColumns DEF PlanInv
<1>2. ASSUME NEW i \in DOMAIN found
      PROVE  TableColumn(g, Binding(g, found[i])) = found[i]
  <2>1. found[i] \in Column
    BY <1>1
  <2>2. \E k \in DOMAIN column_ids[g] : column_ids[g][k] = found[i]
    BY <2>1 DEF ColumnsInv, Elements
  <2>3. column_ids[g][CHOOSE k \in DOMAIN column_ids[g] : column_ids[g][k] = found[i]] = found[i]
    BY <2>2
  <2> QED BY <2>3 DEF TableColumn, Binding
<1>3. FilterCopies(g) = [i \in DOMAIN found |-> found[i]]
  BY <1>2 DEF FilterCopies
<1>4. found = [i \in DOMAIN found |-> found[i]]
  BY <1>1
<1> QED BY <1>3, <1>4

LEMMA PushdownKeeps ==
  ASSUME IInv, PushdownComplexFilter
  PROVE  IInv'
<1> DEFINE g == Head1
<1>1. g \in Scans /\ Tail(todo) \in Seq(DOMAIN plan)
  BY VisitsPlan DEF IInv, PushdownComplexFilter, Scans, Gets
<1>2. ~Settled /\ FilterCopies(g) = FilterOf(plan, g)
  <2>1. ~Settled
    BY DEF PushdownComplexFilter, Settled
  <2> QED BY <1>1, <2>1, CopiesTestTheSame DEF IInv
<1>3. FilterOf(plan, g) \in Seq(Column)
  BY FilterOfColumns DEF IInv, PlanInv
<1>4. UNCHANGED <<plan, column_ids, phase>> /\ todo' = Tail(todo)
  BY DEF PushdownComplexFilter
<1>5. /\ bind' \in [Scans -> BindData]
      /\ \A h \in Scans : Elements(bind'[h].filter_expressions) \subseteq UsedColumns(h)
  <2>1. CASE bind' = bind
    BY <2>1 DEF IInv, BindInv, Copied
  <2>2. CASE bind' = [bind EXCEPT ![g].filter_expressions = FilterOf(plan, g)]
    <3>1. bind \in [Scans -> BindData]
      BY DEF IInv, BindInv
    <3>2. /\ [bind[g] EXCEPT !.filter_expressions = FilterOf(plan, g)] \in BindData
          /\ [bind[g] EXCEPT !.filter_expressions = FilterOf(plan, g)].filter_expressions
               = FilterOf(plan, g)
      BY <1>1, <1>3, <3>1 DEF BindData
    <3>3. bind' = [bind EXCEPT ![g] = [bind[g] EXCEPT !.filter_expressions = FilterOf(plan, g)]]
      BY <2>2
    <3>4. bind' \in [Scans -> BindData]
      BY <1>1, <3>1, <3>2, <3>3
    <3>5. \A h \in Scans : Elements(bind'[h].filter_expressions) \subseteq UsedColumns(h)
      BY <1>1, <3>1, <3>2, <3>3 DEF UsedColumns, IInv, Copied
    <3> QED BY <3>4, <3>5
  <2> QED BY <1>2, <2>1, <2>2 DEF PushdownComplexFilter
<1>6. PlanInv' /\ ColumnsInv' /\ Kept' /\ Phases'
  BY <1>1, <1>4 DEF IInv, PlanInv, ColumnsInv, Kept, Phases, Settled, Scans, Gets, UsedColumns
<1>7. BindInv' /\ Copied'
  BY <1>4, <1>5 DEF BindInv, Copied, Scans, UsedColumns
<1> QED BY <1>6, <1>7 DEF IInv

LEMMA PruningKeeps ==
  ASSUME IInv, PruneColumns
  PROVE  IInv'
<1>1. UNCHANGED <<plan, bind, todo>> /\ phase' = "optimize"
  BY DEF PruneColumns
<1>2. /\ column_ids' \in [Scans -> Seq(Column)]
      /\ \A g \in Scans : UsedColumns(g) \subseteq Elements(column_ids'[g])
  <2>1. PICK lists \in [Scans -> ColumnList] :
          /\ \A g \in Scans : UsedColumns(g) \subseteq Elements(lists[g])
          /\ column_ids' = lists
    BY DEF PruneColumns
  <2>2. ColumnList \subseteq Seq(Column)
    BY PlanningAssumption
  <2> QED BY <2>1, <2>2
<1>3. PlanInv' /\ BindInv' /\ Copied' /\ Phases'
  BY <1>1 DEF IInv, PlanInv, BindInv, Copied, Phases, Scans, UsedColumns
<1>4. ColumnsInv' /\ Kept'
  BY <1>1, <1>2 DEF ColumnsInv, Kept, Settled, Scans, UsedColumns
<1> QED BY <1>3, <1>4 DEF IInv

(***************************************************************************)
(* Limits.                                                                 *)
(***************************************************************************)
(* A LIMIT without its values is still a node of the same kind.            *)
LEMMA LimitTaken ==
  ASSUME NEW d \in Node
  PROVE  LET e == [d EXCEPT !.limit = Unset, !.offset = Unset] IN
         /\ e \in Node
         /\ e.op = d.op /\ e.kids = d.kids /\ e.columns = d.columns
BY DEF Node

LEMMA PushLimitKeepsPlan ==
  ASSUME PlanInv, PushLimit
  PROVE  /\ PlanInv' /\ DOMAIN plan' = DOMAIN plan
         /\ \A n \in DOMAIN plan : /\ plan'[n].op = plan[n].op
                                   /\ plan'[n].kids = plan[n].kids
                                   /\ plan'[n].columns = plan[n].columns
<1> DEFINE taken == [plan[Head1] EXCEPT !.limit = Unset, !.offset = Unset]
<1>1. Head1 \in DOMAIN plan /\ Tail(todo) \in Seq(DOMAIN plan)
  BY VisitsPlan DEF PushLimit, Visiting
<1>2. plan \in Seq(Node) /\ plan[Head1] \in Node
  BY <1>1, NodeFields DEF PlanInv
<1>3. taken \in Node /\ taken.op = plan[Head1].op
      /\ taken.kids = plan[Head1].kids /\ taken.columns = plan[Head1].columns
  BY <1>2, LimitTaken
<1>4. plan' = [plan EXCEPT ![Head1] = taken] /\ todo' = Tail(todo)
  BY DEF PushLimit
<1>5. plan' \in Seq(Node) /\ Len(plan') = Len(plan) /\ DOMAIN plan' = DOMAIN plan
  BY <1>1, <1>2, <1>3, <1>4
<1>6. \A n \in DOMAIN plan : /\ plan'[n].op = plan[n].op
                             /\ plan'[n].kids = plan[n].kids
                             /\ plan'[n].columns = plan[n].columns
  BY <1>2, <1>3, <1>4
<1>7. plan' # <<>>
  BY <1>1, <1>5
<1>8. PlanShape(plan')
  BY <1>5, <1>6, <1>7 DEF PlanInv, PlanShape, IsTree
<1> QED BY <1>1, <1>4, <1>5, <1>6, <1>8 DEF PlanInv

(* The scan below a LIMIT gets two numbers.                                *)
LEMMA PushLimitKeepsBind ==
  ASSUME PlanInv, BindInv, PushLimit
  PROVE  /\ bind' \in [Scans -> BindData]
         /\ \A g \in Scans : bind'[g].filter_expressions = bind[g].filter_expressions
<1> DEFINE g == plan[Head1].kids[1]
           limit == plan[Head1].limit
           offset == IF plan[Head1].offset = Unset THEN bind[g].row_offset
                     ELSE plan[Head1].offset
           data == [bind[g] EXCEPT !.row_limit = limit, !.row_offset = offset]
<1>1. Head1 \in DOMAIN plan /\ plan[Head1].op = "LIMIT"
  BY VisitsPlan DEF PushLimit, Visiting
<1>2. plan[Head1].kids # <<>> /\ plan[Head1].kids \in Seq(DOMAIN plan)
  BY <1>1, NodeFields DEF PlanInv, PlanShape
<1>3. g \in Scans
  <2>1. g \in DOMAIN plan
    BY <1>2
  <2> QED BY <2>1 DEF PushLimit, IsStacRead, Child, Scans, Gets
<1>4. bind \in [Scans -> BindData] /\ bind[g] \in BindData
  BY <1>3 DEF BindInv
<1>5. limit \in Nat /\ offset \in Nat
  BY <1>4 DEF PushLimit, ConstantLimit, BindData
<1>6. data \in BindData /\ data.filter_expressions = bind[g].filter_expressions
  BY <1>4, <1>5 DEF BindData
<1>7. bind' = [bind EXCEPT ![g] = data]
  BY <1>4 DEF PushLimit, BindData
<1> QED BY <1>3, <1>4, <1>6, <1>7

LEMMA PushLimitKeeps ==
  ASSUME IInv, PushLimit
  PROVE  IInv'
<1>1. UNCHANGED <<column_ids, phase>> /\ phase = "optimize"
  BY DEF PushLimit, Visiting
<1>2. PlanInv' /\ Scans' = Scans /\ \A g : FilterOf(plan', g) = FilterOf(plan, g)
  BY PushLimitKeepsPlan, SameFilters DEF IInv, Scans
<1>3. \A g : UsedColumns(g)' = UsedColumns(g)
  BY <1>2 DEF UsedColumns
<1>4. BindInv' /\ Copied'
  BY <1>2, <1>3, PushLimitKeepsBind DEF IInv, BindInv, Copied
<1>5. ColumnsInv' /\ Kept' /\ Phases'
  BY <1>1, <1>2, <1>3 DEF IInv, ColumnsInv, Kept, Phases, Settled
<1> QED BY <1>2, <1>4, <1>5 DEF IInv

(***************************************************************************)
(* Init.                                                                   *)
(***************************************************************************)
(* A column that a copy tests is tested in the plan, so it was kept.       *)
LEMMA AllColumnsFound ==
  ASSUME IInv, phase = "init"
  PROVE  Remappable
<1>1. ASSUME NEW g \in Scans, NEW i \in DOMAIN bind[g].filter_expressions
      PROVE  Has(g, bind[g].filter_expressions[i])
  <2>1. bind[g].filter_expressions[i] \in Elements(bind[g].filter_expressions)
    BY DEF Elements
  <2>2. bind[g].filter_expressions[i] \in Elements(column_ids[g])
    BY <2>1 DEF IInv, Copied, Kept, Settled
  <2> QED BY <2>2 DEF Has, Elements
<1> QED BY <1>1 DEF Remappable

(* The other steps change what is to be visited, or the phase.             *)
LEMMA VisitsKeep ==
  ASSUME IInv, UNCHANGED <<plan, bind, column_ids>>, todo' \in Seq(DOMAIN plan),
         Phases', Settled' = Settled
  PROVE  IInv'
BY DEF IInv, PlanInv, BindInv, ColumnsInv, Copied, Kept, Scans, UsedColumns

LEMMA StepKeeps ==
  ASSUME IInv, [Next]_vars
  PROVE  IInv'
<1>1. CASE FindScans \/ Recurse
  <2>1. todo # <<>> /\ Descend
    BY <1>1 DEF FindScans, Recurse, Visiting
  <2>2. todo' \in Seq(DOMAIN plan)
    BY <2>1, VisitsPlan DEF IInv, Descend
  <2>3. UNCHANGED <<plan, bind, column_ids, phase>>
    BY <1>1 DEF FindScans, Recurse
  <2> QED BY <2>2, <2>3, VisitsKeep DEF IInv, Phases, Settled
<1>2. CASE PushdownComplexFilter
  BY <1>2, PushdownKeeps
<1>3. CASE FiltersPushed
  <2>1. todo' \in Seq(DOMAIN plan) /\ UNCHANGED <<plan, bind, column_ids>>
    BY <1>3 DEF IInv, PlanInv, FiltersPushed
  <2> QED BY <1>3, <2>1, VisitsKeep DEF FiltersPushed, Phases, Settled
<1>4. CASE PruneColumns
  BY <1>4, PruningKeeps
<1>5. CASE CallOptimize
  <2>1. UNCHANGED <<plan, bind, column_ids, phase>> /\ todo' = <<1>>
    BY <1>5 DEF CallOptimize
  <2>2. 1 \in DOMAIN plan
    BY DEF IInv, PlanInv, PlanShape
  <2>3. todo' \in Seq(DOMAIN plan)
    BY <2>1, <2>2
  <2> QED BY <2>1, <2>3, VisitsKeep DEF IInv, Phases, Settled
<1>6. CASE PushLimit
  BY <1>6, PushLimitKeeps
<1>7. CASE LeaveSubtree
  <2>1. todo # <<>> /\ todo' = Tail(todo)
    BY <1>7 DEF LeaveSubtree, Visiting
  <2>2. todo' \in Seq(DOMAIN plan)
    BY <2>1, VisitsPlan DEF IInv
  <2>3. UNCHANGED <<plan, bind, column_ids, phase>>
    BY <1>7 DEF LeaveSubtree
  <2> QED BY <2>2, <2>3, VisitsKeep DEF IInv, Phases, Settled
<1>8. CASE Optimized
  <2>1. todo' \in Seq(DOMAIN plan) /\ UNCHANGED <<plan, bind, column_ids>>
    BY <1>8 DEF IInv, PlanInv, Optimized
  <2> QED BY <1>8, <2>1, VisitsKeep DEF Optimized, Phases, Settled
<1>9. CASE InitScans
  <2>1. phase = "init" /\ Remappable
    BY <1>9, AllColumnsFound DEF InitScans
  <2>2. phase' = "running" /\ UNCHANGED <<plan, bind, column_ids, todo>>
    BY <1>9, <2>1 DEF InitScans
  <2>3. todo' \in Seq(DOMAIN plan)
    BY <2>2 DEF IInv, PlanInv
  <2> QED BY <2>1, <2>2, <2>3, VisitsKeep DEF Phases, Settled
<1>10. CASE UNCHANGED vars
  BY <1>10, VisitsKeep DEF vars, IInv, PlanInv, Phases, Settled
<1> QED BY <1>1, <1>2, <1>3, <1>4, <1>5, <1>6, <1>7, <1>8, <1>9, <1>10 DEF Next

LEMMA IInvAtStart == Init => IInv
<1> SUFFICES ASSUME Init PROVE IInv
  OBVIOUS
<1>1. PlanShape(plan) /\ todo = <<1>> /\ ~Settled /\ Phases
  BY PlanningAssumption DEF Init, Settled, Phases
<1>2. PlanInv
  <2>1. 1 \in DOMAIN plan
    BY <1>1 DEF PlanShape
  <2> QED BY <1>1, <2>1 DEF PlanInv
<1>3. \A g \in Scans : bind[g].filter_expressions = <<>>
  BY DEF Init
<1>4. BindInv /\ Copied
  <2>1. BindInv
    BY DEF Init, BindInv, BindData
  <2>2. Elements(<<>>) = {}
    BY DEF Elements
  <2> QED BY <1>3, <2>1, <2>2 DEF Copied
<1>5. ColumnsInv
  <2>1. column_ids \in [Scans -> {l \in ColumnList : Elements(l) = Column}]
    BY DEF Init
  <2>2. ColumnList \subseteq Seq(Column)
    BY PlanningAssumption
  <2> QED BY <2>1, <2>2 DEF ColumnsInv
<1> QED BY <1>1, <1>2, <1>4, <1>5 DEF IInv, Kept

(* No plan makes Init fail: a filter that was copied to a scan finds its   *)
(* columns there, because DuckDB keeps the filter in the plan and with it  *)
(* the columns (PushdownComplexFilter must not clear the expressions).     *)
THEOREM FiltersFindTheirColumns == Spec => []PlanningSucceeds
<1>1. IInv => PlanningSucceeds
  BY DEF IInv, Phases, PlanningSucceeds
<1>2. IInv /\ [Next]_vars => IInv'
  BY StepKeeps
<1> QED BY <1>1, <1>2, IInvAtStart, PTL DEF Spec
(***************************************************************************)
(* Induction over the natural numbers: the set of those that have a        *)
(* property, rather than the property, is what the theorems quantify over. *)
(***************************************************************************)
(* A nonempty set of natural numbers has a least element.                  *)
LEMMA LeastNumber ==
  ASSUME NEW T \in SUBSET Nat, T # {}
  PROVE  \E m \in T : \A n \in T : m <= n
<1> DEFINE upto == {0..k : k \in T}
<1>1. upto \subseteq FiniteSubsetsOf(Nat) /\ upto # {}
  <2>1. ASSUME NEW k \in T PROVE 0..k \in SUBSET Nat /\ IsFiniteSet(0..k)
    BY FS_Interval
  <2> QED BY <2>1 DEF FiniteSubsetsOf
<1>2. PICK X \in upto : \A Y \in upto : <<Y, X>> \notin StrictSubsetOrdering(Nat)
  <2> HIDE DEF upto
  <2> QED BY <1>1, WFMin, FS_StrictSubsetOrderingWellFounded
<1>3. PICK m \in T : X = 0..m
  OBVIOUS
<1>4. ASSUME NEW n \in T, n < m
      PROVE  FALSE
  <2>1. 0..n \in upto
    OBVIOUS
  <2>2. 0..n \subseteq 0..m /\ 0..n # 0..m /\ 0..n \subseteq Nat /\ 0..m \subseteq Nat
    BY <1>4
  <2> QED BY <1>2, <1>3, <2>1, <2>2 DEF StrictSubsetOrdering
<1> QED BY <1>4

LEMMA Induction ==
  ASSUME NEW P, 0 \in P, \A n \in Nat : n \in P => n + 1 \in P
  PROVE  Nat \subseteq P
<1> DEFINE rest == {n \in Nat : n \notin P}
<1> SUFFICES ASSUME rest # {} PROVE FALSE
  OBVIOUS
<1>1. PICK m \in rest : \A n \in rest : m <= n
  BY LeastNumber
<1>2. m - 1 \in Nat /\ m - 1 \in P
  BY <1>1
<1> QED BY <1>1, <1>2

(* A set of numbers up to some n has a greatest element.                   *)
LEMMA GreatestNumber ==
  ASSUME NEW n \in Nat, NEW T \in SUBSET (1..n), T # {}
  PROVE  \E m \in T : \A k \in T : k <= m
<1> DEFINE below == {n - k : k \in T}
<1>1. below \in SUBSET Nat /\ below # {}
  <2>1. \A k \in T : n - k \in Nat
    OBVIOUS
  <2> QED BY <2>1
<1>2. PICK d \in below : \A e \in below : d <= e
  <2> HIDE DEF below
  <2> QED BY ONLY <1>1, LeastNumber
<1>3. PICK m \in T : d = n - m
  OBVIOUS
<1>4. ASSUME NEW k \in T PROVE k <= m
  <2>1. n - k \in below
    OBVIOUS
  <2> QED BY <1>2, <1>3, <2>1
<1> QED BY <1>4

(***************************************************************************)
(* Selecting.                                                              *)
(***************************************************************************)
(* f[i] is what is selected of the first i elements.                       *)
Selects(s, set, n, f) ==
  f = [i \in 0..n |-> IF i = 0 THEN <<>> ELSE AddIf(f[i - 1], s[i], set)]

LEMMA SelectUnfolds ==
  ASSUME NEW s, NEW set, Len(s) \in Nat
  PROVE  \E f : Selects(s, set, Len(s), f) /\ Select(s, set) = f[Len(s)]
<1> DEFINE P == {n \in Nat : \E f : Selects(s, set, n, f)}
<1>1. 0 \in P
  <2>1. Selects(s, set, 0, [i \in 0..0 |-> <<>>])
    BY DEF Selects
  <2> QED BY <2>1
<1>2. ASSUME NEW n \in Nat, n \in P
      PROVE  n + 1 \in P
  <2>1. PICK f : Selects(s, set, n, f)
    BY <1>2
  <2> DEFINE next == [i \in 0..(n + 1) |-> IF i = n + 1 THEN AddIf(f[n], s[n + 1], set) ELSE f[i]]
  <2>2. ASSUME NEW i \in 0..(n + 1)
        PROVE  next[i] = IF i = 0 THEN <<>> ELSE AddIf(next[i - 1], s[i], set)
    <3>1. CASE i = n + 1
      BY <3>1
    <3>2. CASE i # n + 1
      <4>1. i \in 0..n
        BY <3>2
      <4>2. f[i] = IF i = 0 THEN <<>> ELSE AddIf(f[i - 1], s[i], set)
        BY <2>1, <4>1 DEF Selects
      <4>3. next[i] = f[i] /\ (i # 0 => next[i - 1] = f[i - 1])
        BY <4>1
      <4> HIDE DEF next
      <4> QED BY <4>2, <4>3
    <3> QED BY <3>1, <3>2
  <2>3. next = [i \in 0..(n + 1) |-> next[i]]
    OBVIOUS
  <2>4. Selects(s, set, n + 1, next)
    <3> HIDE DEF next
    <3> QED BY <2>2, <2>3 DEF Selects
  <2> QED BY <2>4
<1>3. Len(s) \in P
  <2> HIDE DEF P
  <2> QED BY <1>1, <1>2, Induction
<1>4. \E f : Selects(s, set, Len(s), f)
  BY <1>3
<1> QED BY <1>4, Zenon DEF Select, Selects

LEMMA SelectsStep ==
  ASSUME NEW X, NEW s \in Seq(X), NEW set, NEW f, Selects(s, set, Len(s), f)
  PROVE  /\ f[0] = <<>>
         /\ \A i \in Nat : i + 1 <= Len(s) => f[i + 1] = AddIf(f[i], s[i + 1], set)
<1>1. Len(s) \in Nat
  OBVIOUS
<1> QED BY ONLY <1>1, Selects(s, set, Len(s), f) DEF Selects

(* What is selected is a sequence of elements of the set.                  *)
LEMMA SelectsTyped ==
  ASSUME NEW X, NEW s \in Seq(X), NEW set, NEW f, Selects(s, set, Len(s), f)
  PROVE  \A i \in 0..Len(s) : f[i] \in Seq(X)
<1> DEFINE P == {i \in Nat : i <= Len(s) => f[i] \in Seq(X)}
<1>1. 0 \in P
  <2>1. f[0] = <<>>
    BY ONLY SelectsStep, s \in Seq(X), Selects(s, set, Len(s), f)
  <2>2. <<>> \in Seq(X)
    OBVIOUS
  <2> QED BY <2>1, <2>2
<1>2. ASSUME NEW i \in Nat, i \in P PROVE i + 1 \in P
  <2> SUFFICES ASSUME i + 1 <= Len(s) PROVE f[i + 1] \in Seq(X)
    OBVIOUS
  <2>1. f[i] \in Seq(X) /\ i \in 0..(Len(s) - 1)
    BY <1>2
  <2>2. f[i + 1] = AddIf(f[i], s[i + 1], set)
    BY <2>1, SelectsStep
  <2>3. s[i + 1] \in X
    BY <2>1, ElementOfSeq
  <2>4. Append(f[i], s[i + 1]) \in Seq(X)
    BY ONLY <2>1, <2>3, AppendProperties
  <2> QED BY ONLY <2>1, <2>2, <2>4 DEF AddIf
<1>3. Nat \subseteq P
  <2> HIDE DEF P
  <2> QED BY <1>1, <1>2, Induction
<1> QED BY <1>3

LEMMA SelectTyped ==
  ASSUME NEW X, NEW s \in Seq(X), NEW set
  PROVE  Select(s, set) \in Seq(X)
<1>1. PICK f : Selects(s, set, Len(s), f) /\ Select(s, set) = f[Len(s)]
  BY SelectUnfolds
<1> QED BY <1>1, SelectsTyped

(* It has those elements of the sequence that are in the set.              *)
LEMMA ElementsOfAppend ==
  ASSUME NEW X, NEW s \in Seq(X), NEW x \in X
  PROVE  Elements(Append(s, x)) = Elements(s) \cup {x}
<1>1. PICK t \in Seq(X) : t = Append(s, x)
  BY AppendProperties
<1>2. Len(t) = Len(s) + 1 /\ t[Len(s) + 1] = x /\ \A i \in 1..Len(s) : t[i] = s[i]
  BY ONLY <1>1, AppendProperties, s \in Seq(X), x \in X
<1>3. DOMAIN t = 1..Len(t) /\ DOMAIN s = 1..Len(s) /\ Len(s) \in Nat
  BY ONLY s \in Seq(X), t \in Seq(X)
<1>4. DOMAIN t = DOMAIN s \cup {Len(s) + 1}
  BY ONLY <1>2, <1>3
<1>5. Elements(t) = Elements(s) \cup {x}
  BY ONLY <1>2, <1>3, <1>4 DEF Elements
<1> QED BY <1>1, <1>5

LEMMA ElementsSelected ==
  ASSUME NEW X, NEW s \in Seq(X), NEW set
  PROVE  Elements(Select(s, set)) = Elements(s) \cap set
<1>1. PICK f : Selects(s, set, Len(s), f) /\ Select(s, set) = f[Len(s)]
  BY SelectUnfolds
<1> DEFINE upto(i) == {s[j] : j \in 1..i}
           P == {i \in Nat : i <= Len(s) => Elements(f[i]) = upto(i) \cap set}
<1>2. 0 \in P
  <2>1. f[0] = <<>>
    BY ONLY <1>1, SelectsStep, s \in Seq(X)
  <2>2. Elements(<<>>) = {} /\ upto(0) = {}
    BY DEF Elements
  <2> QED BY <2>1, <2>2
<1>3. ASSUME NEW i \in Nat, i \in P PROVE i + 1 \in P
  <2> SUFFICES ASSUME i + 1 <= Len(s) PROVE Elements(f[i + 1]) = upto(i + 1) \cap set
    OBVIOUS
  <2>1. Elements(f[i]) = upto(i) \cap set /\ i \in 0..(Len(s) - 1)
    BY <1>3
  <2>2. f[i + 1] = AddIf(f[i], s[i + 1], set)
    BY ONLY <1>1, SelectsStep, i + 1 <= Len(s), i \in Nat, s \in Seq(X)
  <2>3. s[i + 1] \in X /\ f[i] \in Seq(X)
    BY <1>1, <2>1, ElementOfSeq, SelectsTyped
  <2>4. Elements(Append(f[i], s[i + 1])) = Elements(f[i]) \cup {s[i + 1]}
    BY ONLY <2>3, ElementsOfAppend
  <2>5. 1..(i + 1) = 1..i \cup {i + 1}
    OBVIOUS
  <2>6. upto(i + 1) = upto(i) \cup {s[i + 1]}
    BY <2>5
  <2> HIDE DEF upto
  <2> QED BY ONLY <2>1, <2>2, <2>4, <2>6 DEF AddIf
<1>4. Nat \subseteq P
  <2> HIDE DEF P
  <2> QED BY <1>2, <1>3, Induction
<1>5. Len(s) \in Nat /\ DOMAIN s = 1..Len(s)
  OBVIOUS
<1>6. Elements(f[Len(s)]) = upto(Len(s)) \cap set
  BY <1>4, <1>5
<1>7. upto(Len(s)) = Elements(s)
  BY <1>5 DEF Elements
<1> QED BY <1>1, <1>6, <1>7

(* Of a sequence with one more element.                                    *)
LEMMA SelectAppend ==
  ASSUME NEW X, NEW s \in Seq(X), NEW x \in X, NEW set
  PROVE  Select(Append(s, x), set) = AddIf(Select(s, set), x, set)
<1>1. PICK t \in Seq(X) : t = Append(s, x)
  BY AppendProperties
<1>2. Len(t) = Len(s) + 1 /\ t[Len(s) + 1] = x /\ \A i \in 1..Len(s) : t[i] = s[i]
  BY ONLY <1>1, AppendProperties, s \in Seq(X), x \in X
<1>3. PICK f : Selects(s, set, Len(s), f) /\ Select(s, set) = f[Len(s)]
  BY SelectUnfolds
<1>4. PICK g : Selects(t, set, Len(t), g) /\ Select(t, set) = g[Len(t)]
  BY SelectUnfolds
<1> DEFINE P == {i \in Nat : i <= Len(s) => f[i] = g[i]}
<1>5. 0 \in P
  <2>1. f[0] = <<>> /\ g[0] = <<>>
    BY ONLY <1>3, <1>4, SelectsStep, s \in Seq(X), t \in Seq(X)
  <2> QED BY <2>1
<1>6. ASSUME NEW i \in Nat, i \in P PROVE i + 1 \in P
  <2> SUFFICES ASSUME i + 1 <= Len(s) PROVE f[i + 1] = g[i + 1]
    OBVIOUS
  <2>1. i + 1 <= Len(t) /\ f[i] = g[i] /\ i + 1 \in 1..Len(s)
    BY <1>2, <1>6
  <2>2. f[i + 1] = AddIf(f[i], s[i + 1], set)
    BY ONLY <1>3, SelectsStep, i + 1 <= Len(s), i \in Nat, s \in Seq(X)
  <2>3. g[i + 1] = AddIf(g[i], t[i + 1], set)
    BY ONLY <1>4, <2>1, SelectsStep, i \in Nat, t \in Seq(X)
  <2>4. s[i + 1] = t[i + 1]
    BY <1>2, <2>1
  <2> QED BY ONLY <2>1, <2>2, <2>3, <2>4
<1>7. Nat \subseteq P
  <2> HIDE DEF P
  <2> QED BY <1>5, <1>6, Induction
<1>8. Len(s) \in Nat /\ Len(s) + 1 <= Len(t)
  BY <1>2
<1>9. f[Len(s)] = g[Len(s)]
  BY <1>7, <1>8
<1>10. g[Len(s) + 1] = AddIf(g[Len(s)], t[Len(s) + 1], set)
  BY ONLY <1>4, <1>8, SelectsStep, t \in Seq(X)
<1> QED BY ONLY <1>1, <1>2, <1>3, <1>4, <1>9, <1>10

LEMMA SelectAll ==
  ASSUME NEW X, NEW s \in Seq(X), NEW set, Elements(s) \subseteq set
  PROVE  Select(s, set) = s
<1>1. PICK f : Selects(s, set, Len(s), f) /\ Select(s, set) = f[Len(s)]
  BY SelectUnfolds
<1> DEFINE P == {i \in Nat : i <= Len(s) => Len(f[i]) = i /\ \A j \in 1..i : f[i][j] = s[j]}
<1>2. 0 \in P
  <2>1. f[0] = <<>>
    BY ONLY <1>1, SelectsStep, s \in Seq(X)
  <2> QED BY <2>1
<1>3. ASSUME NEW i \in Nat, i \in P PROVE i + 1 \in P
  <2> SUFFICES ASSUME i + 1 <= Len(s)
               PROVE  Len(f[i + 1]) = i + 1 /\ \A j \in 1..(i + 1) : f[i + 1][j] = s[j]
    OBVIOUS
  <2>1. Len(f[i]) = i /\ (\A j \in 1..i : f[i][j] = s[j]) /\ i \in 0..(Len(s) - 1)
    BY <1>3
  <2>2. s[i + 1] \in X /\ s[i + 1] \in set /\ f[i] \in Seq(X)
    BY <1>1, <2>1, ElementOfSeq, SelectsTyped DEF Elements
  <2>3. f[i + 1] = Append(f[i], s[i + 1])
    <3>1. f[i + 1] = AddIf(f[i], s[i + 1], set)
      BY ONLY <1>1, SelectsStep, i + 1 <= Len(s), i \in Nat, s \in Seq(X)
    <3> QED BY ONLY <2>2, <3>1 DEF AddIf
  <2>4. Len(f[i + 1]) = i + 1 /\ f[i + 1][i + 1] = s[i + 1] /\ \A j \in 1..i : f[i + 1][j] = f[i][j]
    BY ONLY <2>1, <2>2, <2>3, AppendProperties
  <2>5. 1..(i + 1) = 1..i \cup {i + 1}
    OBVIOUS
  <2> QED BY ONLY <2>1, <2>4, <2>5
<1>4. Nat \subseteq P
  <2> HIDE DEF P
  <2> QED BY <1>2, <1>3, Induction
<1>5. Len(f[Len(s)]) = Len(s) /\ \A j \in 1..Len(s) : f[Len(s)][j] = s[j]
  BY <1>4
<1>6. f[Len(s)] \in Seq(X)
  BY <1>1, SelectsTyped
<1> QED BY ONLY <1>1, <1>5, <1>6, SeqEqual, s \in Seq(X)

(* Selecting what a wider selection left changes nothing.                  *)
LEMMA SelectTwice ==
  ASSUME NEW X, NEW s \in Seq(X), NEW wide, NEW set \in SUBSET wide
  PROVE  Select(Select(s, wide), set) = Select(s, set)
<1>1. PICK f : Selects(s, wide, Len(s), f) /\ Select(s, wide) = f[Len(s)]
  BY SelectUnfolds
<1>2. PICK g : Selects(s, set, Len(s), g) /\ Select(s, set) = g[Len(s)]
  BY SelectUnfolds
<1> DEFINE P == {i \in Nat : i <= Len(s) => Select(f[i], set) = g[i]}
<1>3. 0 \in P
  <2>1. f[0] = <<>> /\ g[0] = <<>>
    BY ONLY <1>1, <1>2, SelectsStep, s \in Seq(X)
  <2>2. Select(<<>>, set) = <<>>
    <3>1. Elements(<<>>) \subseteq set /\ <<>> \in Seq(X)
      BY DEF Elements
    <3> QED BY ONLY <3>1, SelectAll
  <2> QED BY <2>1, <2>2
<1>4. ASSUME NEW i \in Nat, i \in P PROVE i + 1 \in P
  <2> SUFFICES ASSUME i + 1 <= Len(s) PROVE Select(f[i + 1], set) = g[i + 1]
    OBVIOUS
  <2>1. Select(f[i], set) = g[i] /\ i \in 0..(Len(s) - 1)
    BY <1>4
  <2>2. f[i + 1] = AddIf(f[i], s[i + 1], wide) /\ g[i + 1] = AddIf(g[i], s[i + 1], set)
    BY ONLY <1>1, <1>2, SelectsStep, i + 1 <= Len(s), i \in Nat, s \in Seq(X)
  <2>3. s[i + 1] \in X /\ f[i] \in Seq(X)
    BY <1>1, <2>1, ElementOfSeq, SelectsTyped
  <2>4. Select(Append(f[i], s[i + 1]), set) = AddIf(g[i], s[i + 1], set)
    BY ONLY <2>1, <2>3, SelectAppend
  <2> QED BY ONLY <2>1, <2>2, <2>4, set \in SUBSET wide DEF AddIf
<1>5. Nat \subseteq P
  <2> HIDE DEF P
  <2> QED BY <1>3, <1>4, Induction
<1>6. Select(f[Len(s)], set) = g[Len(s)]
  BY <1>5
<1> QED BY <1>1, <1>2, <1>6

(***************************************************************************)
(* The meaning of a plan.                                                  *)
(***************************************************************************)
(* Above rows that are the same, a node gives the same.                    *)
LEMMA RowsOfSame ==
  ASSUME NEW d, NEW scan, NEW f, NEW g,
         d.op # "GET" => d.kids # <<>>, d.op = "UNION" => Len(d.kids) = 2,
         d.kids \in Seq(Nat),
         d.op # "GET" => \A k \in DOMAIN d.kids : f[d.kids[k]] = g[d.kids[k]]
  PROVE  RowsOf(d, scan, f) = RowsOf(d, scan, g)
<1>1. d.op # "GET" => 1 \in DOMAIN d.kids
  OBVIOUS
<1>2. d.op = "UNION" => 2 \in DOMAIN d.kids
  OBVIOUS
<1>3. d.op # "GET" => f[d.kids[1]] = g[d.kids[1]]
  BY ONLY <1>1, d.op # "GET" => \A k \in DOMAIN d.kids : f[d.kids[k]] = g[d.kids[k]]
<1>4. d.op = "UNION" => f[d.kids[2]] = g[d.kids[2]]
  BY ONLY <1>2, d.op # "GET" => \A k \in DOMAIN d.kids : f[d.kids[k]] = g[d.kids[k]]
<1>5. CASE d.op = "GET"
  BY ONLY <1>5 DEF RowsOf
<1>6. CASE d.op = "UNION"
  <2>1. RowsOf(d, scan, f) = f[d.kids[1]] \o f[d.kids[2]]
    BY ONLY <1>6 DEF RowsOf
  <2>2. RowsOf(d, scan, g) = g[d.kids[1]] \o g[d.kids[2]]
    BY ONLY <1>6 DEF RowsOf
  <2> QED BY ONLY <1>3, <1>4, <1>6, <2>1, <2>2
<1>7. CASE d.op \notin {"GET", "UNION"}
  <2>1. f[d.kids[1]] = g[d.kids[1]]
    BY ONLY <1>3, <1>7
  <2> QED BY ONLY <1>7, <2>1 DEF RowsOf
<1> QED BY ONLY <1>5, <1>6, <1>7

(* rows[n] is what node n gives, for the nodes of the set.                 *)
Means(p, scans, set, rows) == rows = [n \in set |-> RowsOf(p[n], scans[n], rows)]

(* The last m nodes.                                                       *)
LastNodes(p, m) == {n \in DOMAIN p : Len(p) - n < m}

LEMMA MeaningUnfolds ==
  ASSUME NEW p, PlanShape(p), NEW scans
  PROVE  \E rows : Means(p, scans, DOMAIN p, rows) /\ Meaning(p, scans) = rows[1]
<1> DEFINE P == {m \in Nat : \E f : Means(p, scans, LastNodes(p, m), f)}
<1>1. DOMAIN p = 1..Len(p) /\ Len(p) \in Nat
  BY DEF PlanShape
<1>2. 0 \in P
  <2>1. LastNodes(p, 0) = {}
    BY <1>1 DEF LastNodes
  <2>2. Means(p, scans, {}, [n \in {} |-> <<>>])
    BY DEF Means
  <2> QED BY <2>1, <2>2
<1>3. ASSUME NEW m \in Nat, m \in P PROVE m + 1 \in P
  <2>1. PICK f : Means(p, scans, LastNodes(p, m), f)
    BY <1>3
  <2>2. CASE m >= Len(p)
    <3>1. LastNodes(p, m + 1) = LastNodes(p, m)
      BY <1>1, <2>2 DEF LastNodes
    <3>2. Means(p, scans, LastNodes(p, m + 1), f)
      <4> QED BY ONLY <2>1, <3>1
    <3> QED BY <3>2
  <2>3. CASE m < Len(p)
    <3>1. PICK r \in DOMAIN p : r = Len(p) - m
      BY <1>1, <2>3
    <3>2. LastNodes(p, m + 1) = LastNodes(p, m) \cup {r} /\ r \notin LastNodes(p, m)
      BY <1>1, <3>1 DEF LastNodes
    <3> DEFINE next == [n \in LastNodes(p, m) \cup {r} |-> IF n = r THEN RowsOf(p[r], scans[r], f) ELSE f[n]]
    <3>3. \A n \in LastNodes(p, m) : next[n] = f[n]
      BY <3>2
    <3>4. next[r] = RowsOf(p[r], scans[r], f)
      OBVIOUS
    <3>5. next = [n \in LastNodes(p, m) \cup {r} |-> next[n]]
      OBVIOUS
    <3> HIDE DEF next
    <3>6. ASSUME NEW n \in LastNodes(p, m) \cup {r}
          PROVE  next[n] = RowsOf(p[n], scans[n], next)
      <4>1. n \in DOMAIN p
        BY DEF LastNodes
      <4>2. \A k \in DOMAIN p[n].kids : p[n].kids[k] \in LastNodes(p, m)
        <5>1. \A k \in DOMAIN p[n].kids : p[n].kids[k] \in (n + 1)..Len(p)
          BY <4>1 DEF PlanShape, IsTree
        <5>2. Len(p) - n <= m /\ n \in Nat
          BY <1>1, <3>1, <3>2 DEF LastNodes
        <5> QED BY <1>1, <5>1, <5>2 DEF LastNodes
      <4>3. \A k \in DOMAIN p[n].kids : f[p[n].kids[k]] = next[p[n].kids[k]]
        BY ONLY <3>3, <4>2
      <4>4. RowsOf(p[n], scans[n], f) = RowsOf(p[n], scans[n], next)
        <5>1. PICK d : d = p[n]
          OBVIOUS
        <5>2. /\ d.op # "GET" => d.kids # <<>>
              /\ d.op = "UNION" => Len(d.kids) = 2
          BY <4>1, <5>1 DEF PlanShape
        <5>3. d.kids \in Seq(Nat)
          BY <4>1, <5>1, NodeFields
        <5> QED BY ONLY <4>3, <5>1, <5>2, <5>3, RowsOfSame
      <4>5. CASE n = r
        BY ONLY <3>4, <4>4, <4>5
      <4>6. CASE n # r
        <5>1. n \in LastNodes(p, m)
          BY <4>6
        <5>2. f[n] = RowsOf(p[n], scans[n], f)
          BY <2>1, <5>1 DEF Means
        <5> QED BY ONLY <3>3, <4>4, <5>1, <5>2
      <4> QED BY ONLY <4>5, <4>6
    <3>7. Means(p, scans, LastNodes(p, m + 1), next)
      <4>1. PICK set : set = LastNodes(p, m) \cup {r}
        OBVIOUS
      <4>2. next = [n \in set |-> next[n]] /\ \A n \in set : next[n] = RowsOf(p[n], scans[n], next)
        BY ONLY <3>5, <3>6, <4>1
      <4>3. next = [n \in set |-> RowsOf(p[n], scans[n], next)]
        BY ONLY <4>2
      <4> QED BY ONLY <3>2, <4>1, <4>3 DEF Means
    <3> QED BY <3>7
  <2> QED BY <1>1, <2>2, <2>3
<1>4. Nat \subseteq P
  <2> HIDE DEF P
  <2> QED BY <1>2, <1>3, Induction
<1>5. LastNodes(p, Len(p)) = DOMAIN p
  BY <1>1 DEF LastNodes
<1>6. \E f : Means(p, scans, DOMAIN p, f)
  <2>1. Len(p) \in P
    BY <1>1, <1>4
  <2> QED BY <1>5, <2>1
<1> QED BY <1>6, Zenon DEF Meaning, Means

(***************************************************************************)
(* What has been taken from the query.                                     *)
(***************************************************************************)
(* The limit of node n is in the scan below it, and no longer in the plan. *)
Pushed(n) ==
  LET d == query[n] IN
  /\ d.op = "LIMIT" /\ d.limit \in Nat /\ d.offset \in Nat \cup {Unset}
  /\ plan[n] = [d EXCEPT !.limit = Unset, !.offset = Unset]
  /\ d.kids[1] \in Scans
  /\ bind[d.kids[1]].row_limit = d.limit
  /\ bind[d.kids[1]].row_offset = IF d.offset = Unset THEN 0 ELSE d.offset

NoLimit(g) == bind[g].row_limit = 0 /\ bind[g].row_offset = 0

LimitsInv ==
  /\ PlanShape(query) /\ DOMAIN plan = DOMAIN query
  /\ \A n \in DOMAIN plan : plan[n] = query[n] \/ Pushed(n)
  /\ \A g \in Scans : NoLimit(g) \/ \E n \in DOMAIN plan : Pushed(n) /\ query[n].kids[1] = g

(* All the expressions of a filter are copied, in their order, or none.    *)
CopiesInv == \A g \in Scans : bind[g].filter_expressions \in {<<>>, FilterOf(plan, g)}

(* A running scan has the places of the columns that its copies test.      *)
Places(g) ==
  [i \in DOMAIN bind[g].filter_expressions |-> Position(g, bind[g].filter_expressions[i])]

StateInv == gstate = [g \in Scans |-> IF phase = "running" THEN Places(g) ELSE <<>>]

TypesInv == column_ids \in [Scans -> ColumnList] /\ runs \in 0..Registered

ResultInv == LimitsInv /\ CopiesInv /\ StateInv /\ TypesInv

(* A taken limit leaves the rest of the node.                              *)
LEMMA PushedNode ==
  ASSUME LimitsInv, NEW n \in DOMAIN plan
  PROVE  /\ n \in DOMAIN query /\ query[n] \in Node
         /\ plan[n].op = query[n].op /\ plan[n].kids = query[n].kids
         /\ plan[n].columns = query[n].columns
         /\ Pushed(n) => plan[n].limit = Unset /\ plan[n].offset = Unset
<1>1. n \in DOMAIN query /\ query[n] \in Node
  BY NodeFields DEF LimitsInv
<1>2. plan[n] = query[n] \/ Pushed(n)
  BY DEF LimitsInv
<1>3. ASSUME Pushed(n)
      PROVE  /\ plan[n].op = query[n].op /\ plan[n].kids = query[n].kids
             /\ plan[n].columns = query[n].columns
             /\ plan[n].limit = Unset /\ plan[n].offset = Unset
  <2>1. plan[n] = [query[n] EXCEPT !.limit = Unset, !.offset = Unset]
    BY <1>3 DEF Pushed
  <2> QED BY ONLY <1>1, <2>1 DEF Node
<1> QED BY ONLY <1>1, <1>2, <1>3

(* A scan has one node above it, and so one limit to take.                 *)
LEMMA OneAbove ==
  ASSUME LimitsInv, NEW m \in DOMAIN plan, NEW n \in DOMAIN plan,
         query[m].op # "GET", query[n].op # "GET",
         query[m].kids[1] = query[n].kids[1]
  PROVE  m = n
<1>1. m \in DOMAIN query /\ n \in DOMAIN query
  BY DEF LimitsInv
<1>2. query[m].kids \in Seq(Nat) /\ query[m].kids # <<>> /\ query[n].kids \in Seq(Nat) /\ query[n].kids # <<>>
  BY <1>1, NodeFields DEF LimitsInv, PlanShape
<1>3. 1 \in DOMAIN query[m].kids /\ 1 \in DOMAIN query[n].kids
  BY ONLY <1>2
<1> QED BY <1>1, <1>3 DEF LimitsInv, PlanShape, IsTree

(* Steps that leave the plan and what the scans have alone.                *)
LEMMA QuietKeeps ==
  ASSUME ResultInv, UNCHANGED <<query, plan, bind, column_ids, gstate>>, runs' \in 0..Registered,
         (phase' = "running") = (phase = "running")
  PROVE  ResultInv'
<1>1. LimitsInv' /\ CopiesInv' /\ TypesInv'
  BY DEF ResultInv, LimitsInv, CopiesInv, TypesInv, Pushed, NoLimit, Scans
<1>2. \A g : Places(g)' = Places(g)
  BY DEF Places, Position
<1>3. StateInv'
  BY <1>2 DEF ResultInv, StateInv, Scans
<1> QED BY <1>1, <1>3 DEF ResultInv

(* While no scan runs, none has filters.                                   *)
LEMMA NotRunningKeeps ==
  ASSUME StateInv, UNCHANGED <<plan, gstate>>, phase # "running", phase' # "running"
  PROVE  StateInv'
BY DEF StateInv, Scans

LEMMA PushdownChanges ==
  ASSUME IInv, PushdownComplexFilter, NEW h \in Scans
  PROVE  /\ bind'[h].row_limit = bind[h].row_limit /\ bind'[h].row_offset = bind[h].row_offset
         /\ bind'[h].filter_expressions \in {bind[h].filter_expressions, FilterOf(plan, h)}
<1> DEFINE g == Head1
<1>1. g \in Scans
  BY VisitsPlan DEF IInv, PushdownComplexFilter, Scans, Gets
<1>2. FilterCopies(g) = FilterOf(plan, g)
  <2>1. ~Settled
    BY DEF PushdownComplexFilter, Settled
  <2> QED BY <1>1, <2>1, CopiesTestTheSame DEF IInv
<1>3. bind \in [Scans -> BindData]
  BY DEF IInv, BindInv
<1>4. CASE bind' = bind
  BY <1>4
<1>5. CASE bind' = [bind EXCEPT ![g].filter_expressions = FilterOf(plan, g)]
  <2>1. bind' = [bind EXCEPT ![g] = [bind[g] EXCEPT !.filter_expressions = FilterOf(plan, g)]]
    BY ONLY <1>5
  <2>2. bind'[h] = IF h = g THEN [bind[g] EXCEPT !.filter_expressions = FilterOf(plan, g)] ELSE bind[h]
    BY ONLY <1>1, <1>3, <2>1, h \in Scans
  <2>3. bind[h] \in BindData
    BY ONLY <1>3, h \in Scans
  <2> HIDE DEF g
  <2> QED BY ONLY <2>2, <2>3 DEF BindData
<1> QED BY <1>2, <1>4, <1>5 DEF PushdownComplexFilter

LEMMA PushdownKeepsResult ==
  ASSUME IInv, ResultInv, PushdownComplexFilter
  PROVE  ResultInv'
<1>1. UNCHANGED <<query, plan, column_ids, gstate, runs, phase>> /\ phase = "filters"
  BY DEF PushdownComplexFilter
<1>2. Scans' = Scans
  BY <1>1 DEF Scans
<1>3. \A h \in Scans : /\ bind'[h].row_limit = bind[h].row_limit
                       /\ bind'[h].row_offset = bind[h].row_offset
                       /\ bind'[h].filter_expressions \in {bind[h].filter_expressions, FilterOf(plan, h)}
  BY PushdownChanges
<1>4. \A n : Pushed(n) => Pushed(n)'
  BY <1>1, <1>2, <1>3 DEF Pushed
<1>5. LimitsInv'
  BY <1>1, <1>2, <1>3, <1>4 DEF ResultInv, LimitsInv, NoLimit
<1>6. CopiesInv'
  BY <1>1, <1>2, <1>3 DEF ResultInv, CopiesInv
<1>7. StateInv'
  BY <1>1, NotRunningKeeps DEF ResultInv
<1>8. TypesInv'
  BY <1>1, <1>2 DEF ResultInv, TypesInv
<1> QED BY <1>5, <1>6, <1>7, <1>8 DEF ResultInv

LEMMA PruningKeepsResult ==
  ASSUME ResultInv, PruneColumns
  PROVE  ResultInv'
<1>1. UNCHANGED <<query, plan, bind, gstate, runs>> /\ phase = "columns" /\ phase' = "optimize"
  BY DEF PruneColumns
<1>2. column_ids' \in [Scans -> ColumnList]
  BY DEF PruneColumns
<1>3. LimitsInv' /\ CopiesInv'
  BY <1>1 DEF ResultInv, LimitsInv, CopiesInv, Pushed, NoLimit, Scans
<1>4. StateInv'
  BY <1>1, NotRunningKeeps DEF ResultInv
<1>5. TypesInv'
  BY <1>1, <1>2 DEF ResultInv, TypesInv, Scans
<1> QED BY <1>3, <1>4, <1>5 DEF ResultInv

(* Only a limit that is still in the plan is pushed, to a scan without.    *)
LEMMA PushLimitKeepsLimits ==
  ASSUME IInv, ResultInv, PushLimit
  PROVE  LimitsInv'
<1> DEFINE g == plan[Head1].kids[1]
           limit == plan[Head1].limit
           offset == IF plan[Head1].offset = Unset THEN bind[g].row_offset
                     ELSE plan[Head1].offset
           data == [bind[g] EXCEPT !.row_limit = limit, !.row_offset = offset]
<1>1. Head1 \in DOMAIN plan /\ plan[Head1].op = "LIMIT" /\ ConstantLimit(Head1)
  BY VisitsPlan DEF PushLimit, Visiting, IInv
<1>2. LimitsInv /\ PlanInv /\ BindInv
  BY DEF ResultInv, IInv
<1>3. g \in Scans
  <2>1. plan[Head1].kids # <<>> /\ plan[Head1].kids \in Seq(DOMAIN plan)
    BY <1>1, <1>2, NodeFields DEF PlanInv, PlanShape
  <2>2. g \in DOMAIN plan
    BY <2>1
  <2> QED BY <2>2 DEF PushLimit, IsStacRead, Child, Scans, Gets
<1>4. ~Pushed(Head1)
  <2>1. Unset \notin Nat
    BY PlanningAssumption
  <2> QED BY <1>1, <1>2, <2>1, PushedNode DEF ConstantLimit
<1>5. plan[Head1] = query[Head1]
  BY <1>1, <1>2, <1>4 DEF LimitsInv
<1>6. \A m \in DOMAIN plan : Pushed(m) /\ m # Head1 => query[m].kids[1] # g
  BY <1>1, <1>2, <1>5, OneAbove DEF Pushed
<1>7. NoLimit(g)
  BY <1>2, <1>3, <1>4, <1>6 DEF LimitsInv
<1>8. bind \in [Scans -> BindData] /\ bind[g] \in BindData
  BY <1>2, <1>3 DEF BindInv
<1>9. bind' = [bind EXCEPT ![g] = data]
  BY <1>8 DEF PushLimit, BindData
<1>10. /\ data.row_limit = limit
       /\ data.row_offset = IF plan[Head1].offset = Unset THEN 0 ELSE plan[Head1].offset
  BY <1>7, <1>8 DEF BindData, NoLimit
<1>11. bind'[g] = data /\ \A h \in Scans : h # g => bind'[h] = bind[h]
  <2> HIDE DEF data, g
  <2> QED BY ONLY <1>3, <1>8, <1>9
<1>12. /\ plan'[Head1] = [query[Head1] EXCEPT !.limit = Unset, !.offset = Unset]
       /\ \A m \in DOMAIN plan : m # Head1 => plan'[m] = plan[m]
  <2>1. plan' = [plan EXCEPT ![Head1] = [plan[Head1] EXCEPT !.limit = Unset, !.offset = Unset]]
    BY DEF PushLimit
  <2> QED BY ONLY <1>1, <1>5, <2>1
<1>13. UNCHANGED query /\ DOMAIN plan' = DOMAIN plan /\ Scans' = Scans
  <2>1. Scans' = Scans
    BY <1>2, PushLimitKeepsPlan, SameFilters DEF Scans
  <2> QED BY <1>2, <2>1, PushLimitKeepsPlan DEF PushLimit
<1>14. PICK here \in DOMAIN plan : here = Head1
  BY <1>1
<1>15. PICK scan \in Scans : scan = g
  BY <1>3
<1>16. scan = query[here].kids[1]
  BY <1>5, <1>14, <1>15
<1>17. /\ query[here].limit \in Nat /\ query[here].op = "LIMIT"
       /\ query[here].offset \in Nat \cup {Unset}
  BY <1>1, <1>5, <1>14 DEF ConstantLimit
<1>18. /\ bind'[scan].row_limit = query[here].limit
       /\ bind'[scan].row_offset = IF query[here].offset = Unset THEN 0 ELSE query[here].offset
       /\ \A h \in Scans : h # scan => bind'[h] = bind[h]
  BY ONLY <1>5, <1>10, <1>11, <1>14, <1>15
<1>19. /\ plan'[here] = [query[here] EXCEPT !.limit = Unset, !.offset = Unset]
       /\ \A m \in DOMAIN plan : m # here => plan'[m] = plan[m]
  BY <1>12, <1>14
<1>20. \A m \in DOMAIN plan : Pushed(m) /\ m # here => query[m].kids[1] # scan
  BY <1>6, <1>14, <1>15
<1> HIDE DEF g, limit, offset, data
<1>21. Pushed(here)'
  BY ONLY <1>13, <1>16, <1>17, <1>18, <1>19 DEF Pushed
<1>22. ASSUME NEW m \in DOMAIN plan, m # here, Pushed(m)
       PROVE  Pushed(m)'
  <2>1. query[m].kids[1] \in Scans /\ query[m].kids[1] # scan
    BY <1>20, <1>22 DEF Pushed
  <2>2. bind'[query[m].kids[1]] = bind[query[m].kids[1]] /\ plan'[m] = plan[m]
    BY ONLY <1>18, <1>19, <1>22, <2>1
  <2> QED BY ONLY <1>13, <1>22, <2>2 DEF Pushed
<1>23. \A n \in DOMAIN plan : plan'[n] = query[n] \/ Pushed(n)'
  BY ONLY <1>2, <1>19, <1>21, <1>22 DEF LimitsInv
<1>24. ASSUME NEW h \in Scans
       PROVE  NoLimit(h)' \/ \E n \in DOMAIN plan : Pushed(n)' /\ query[n].kids[1] = h
  <2>1. CASE h = scan
    BY ONLY <1>16, <1>21, <2>1, here \in DOMAIN plan
  <2>2. CASE h # scan /\ NoLimit(h)
    BY ONLY <1>18, <2>2, h \in Scans DEF NoLimit
  <2>3. CASE h # scan /\ ~NoLimit(h)
    <3>1. PICK n \in DOMAIN plan : Pushed(n) /\ query[n].kids[1] = h
      BY ONLY <1>2, <2>3, h \in Scans DEF LimitsInv
    <3>2. Pushed(n)'
      BY ONLY <1>16, <1>22, <2>3, <3>1
    <3> QED BY ONLY <3>1, <3>2
  <2> QED BY ONLY <2>1, <2>2, <2>3
<1>25. PlanShape(query)' /\ DOMAIN plan' = DOMAIN query'
  BY ONLY <1>2, <1>13 DEF LimitsInv, PlanShape, IsTree
<1> QED BY ONLY <1>13, <1>23, <1>24, <1>25 DEF LimitsInv

LEMMA PushLimitKeepsResult ==
  ASSUME IInv, ResultInv, PushLimit
  PROVE  ResultInv'
<1>1. UNCHANGED <<query, column_ids, gstate, runs, phase>> /\ phase = "optimize"
  BY DEF PushLimit, Visiting
<1>2. Scans' = Scans /\ \A g : FilterOf(plan', g) = FilterOf(plan, g)
  BY PushLimitKeepsPlan, SameFilters DEF IInv, Scans
<1>3. \A g \in Scans : bind'[g].filter_expressions = bind[g].filter_expressions
  BY PushLimitKeepsBind DEF IInv
<1>4. CopiesInv'
  BY <1>2, <1>3 DEF ResultInv, CopiesInv
<1>5. StateInv'
  BY <1>1, <1>2 DEF ResultInv, StateInv
<1>6. TypesInv'
  BY <1>1, <1>2 DEF ResultInv, TypesInv
<1> QED BY <1>4, <1>5, <1>6, PushLimitKeepsLimits DEF ResultInv

LEMMA InitKeepsResult ==
  ASSUME IInv, ResultInv, InitScans
  PROVE  ResultInv'
<1>1. phase = "init" /\ Remappable
  BY AllColumnsFound DEF InitScans
<1>2. UNCHANGED <<query, plan, bind, column_ids, runs>> /\ phase' = "running"
  BY <1>1 DEF InitScans
<1>3. LimitsInv' /\ CopiesInv' /\ TypesInv'
  BY <1>2 DEF ResultInv, LimitsInv, CopiesInv, TypesInv, Pushed, NoLimit, Scans
<1>4. gstate' = [g \in Scans |-> Places(g)]
  BY <1>1 DEF InitScans, Places
<1>5. \A g : Places(g)' = Places(g)
  BY <1>2 DEF Places, Position
<1>6. StateInv'
  BY <1>2, <1>4, <1>5 DEF StateInv, Scans
<1> QED BY <1>3, <1>6 DEF ResultInv

LEMMA StepKeepsResult ==
  ASSUME IInv, ResultInv, [Next]_vars
  PROVE  ResultInv'
<1>1. CASE FindScans \/ FiltersPushed \/ LeaveSubtree \/ Recurse \/ Optimized \/ UNCHANGED vars
  <2>1. UNCHANGED <<query, plan, bind, column_ids, gstate, runs>> /\ (phase' = "running") = (phase = "running")
    BY <1>1 DEF FindScans, FiltersPushed, LeaveSubtree, Recurse, Optimized, vars
  <2>2. runs' \in 0..Registered
    BY <2>1 DEF ResultInv, TypesInv
  <2> QED BY <2>1, <2>2, QuietKeeps
<1>2. CASE CallOptimize
  <2>1. UNCHANGED <<query, plan, bind, column_ids, gstate, phase>> /\ runs > 0 /\ runs' = runs - 1
    BY <1>2 DEF CallOptimize
  <2>2. runs' \in 0..Registered
    BY <2>1, PlanningAssumption DEF ResultInv, TypesInv
  <2> QED BY <2>1, <2>2, QuietKeeps
<1>3. CASE PushdownComplexFilter
  BY <1>3, PushdownKeepsResult
<1>4. CASE PruneColumns
  BY <1>4, PruningKeepsResult
<1>5. CASE PushLimit
  BY <1>5, PushLimitKeepsResult
<1>6. CASE InitScans
  BY <1>6, InitKeepsResult
<1> QED BY <1>1, <1>2, <1>3, <1>4, <1>5, <1>6 DEF Next

LEMMA ResultAtStart == Init => ResultInv
<1> SUFFICES ASSUME Init PROVE ResultInv
  OBVIOUS
<1>1. LimitsInv
  <2>1. PlanShape(query) /\ plan = query
    BY PlanningAssumption DEF Init
  <2>2. \A g \in Scans : NoLimit(g)
    BY DEF Init, NoLimit
  <2> QED BY <2>1, <2>2 DEF LimitsInv
<1>2. CopiesInv
  BY DEF Init, CopiesInv
<1>3. StateInv
  BY DEF Init, StateInv
<1>4. TypesInv
  <2>1. column_ids \in [Scans -> {l \in ColumnList : Elements(l) = Column}]
    BY DEF Init
  <2>2. runs \in 0..Registered
    BY PlanningAssumption DEF Init
  <2> QED BY <2>1, <2>2 DEF TypesInv
<1> QED BY <1>1, <1>2, <1>3, <1>4 DEF ResultInv

LEMMA ResultInductive == Spec => [](IInv /\ ResultInv)
<1>1. IInv /\ ResultInv /\ [Next]_vars => IInv' /\ ResultInv'
  BY StepKeeps, StepKeepsResult
<1> QED BY <1>1, IInvAtStart, ResultAtStart, PTL DEF Spec

(***************************************************************************)
(* What a running scan gives.                                              *)
(***************************************************************************)
(* A copied filter finds its column at its place.                          *)
LEMMA PlaceOfColumn ==
  ASSUME IInv, Settled, NEW g \in Scans, NEW i \in DOMAIN bind[g].filter_expressions
  PROVE  /\ Places(g)[i] \in DOMAIN column_ids[g]
         /\ column_ids[g][Places(g)[i]] = bind[g].filter_expressions[i]
<1>1. PICK column : column = bind[g].filter_expressions[i]
  OBVIOUS
<1>2. PICK ids \in Seq(Column) : ids = column_ids[g]
  BY DEF IInv, ColumnsInv
<1>3. DOMAIN ids = 1..Len(ids) /\ Len(ids) \in Nat
  BY ONLY ids \in Seq(Column)
<1>4. column \in Elements(ids)
  <2>1. column \in Elements(bind[g].filter_expressions)
    BY <1>1 DEF Elements
  <2> QED BY <1>2, <2>1 DEF IInv, Copied, Kept
<1> DEFINE at == {k \in DOMAIN ids : ids[k] = column}
<1>5. at \in SUBSET (1..Len(ids)) /\ at # {}
  BY ONLY <1>3, <1>4 DEF Elements
<1>6. PICK k \in at : \A j \in at : j <= k
  <2> HIDE DEF at
  <2> QED BY ONLY <1>3, <1>5, GreatestNumber
<1>7. k \in DOMAIN ids /\ ids[k] = column /\ \A j \in DOMAIN ids : ids[j] = column => j <= k
  BY ONLY <1>6
<1>8. Position(g, column) \in DOMAIN ids /\ ids[Position(g, column)] = column
  BY ONLY <1>2, <1>7 DEF Position
<1>9. Places(g)[i] = Position(g, column)
  BY ONLY <1>1, i \in DOMAIN bind[g].filter_expressions DEF Places
<1> QED BY ONLY <1>1, <1>2, <1>8, <1>9

(* The planner never leaves a scan with a limit that is no number or a     *)
(* filter on a column that it does not have, for any plan and columns.     *)
THEOREM PlanningTyped == Spec => []TypeOK
<1>1. IInv /\ ResultInv => TypeOK
  <2> SUFFICES ASSUME IInv, ResultInv PROVE TypeOK
    OBVIOUS
  <2>1. ASSUME NEW g \in Scans
        PROVE  gstate[g] \in Seq(DOMAIN column_ids[g])
    <3>1. CASE phase # "running"
      <4>1. gstate[g] = <<>>
        BY <3>1 DEF ResultInv, StateInv
      <4> QED BY ONLY <4>1, EmptySeq
    <3>2. CASE phase = "running"
      <4>1. gstate[g] = Places(g)
        BY <3>2 DEF ResultInv, StateInv
      <4>2. PICK copies \in Seq(Column) : copies = bind[g].filter_expressions
        BY DEF IInv, BindInv, BindData
      <4>3. \A i \in DOMAIN copies : Places(g)[i] \in DOMAIN column_ids[g]
        BY <3>2, <4>2, PlaceOfColumn DEF Settled
      <4>4. Places(g) = [i \in DOMAIN copies |-> Places(g)[i]]
        BY ONLY <4>2 DEF Places
      <4>5. DOMAIN copies = 1..Len(copies) /\ Len(copies) \in Nat
        BY ONLY copies \in Seq(Column)
      <4> QED BY ONLY <4>1, <4>3, <4>4, <4>5
    <3> QED BY <3>1, <3>2
  <2>2. ASSUME NEW g \in Scans
        PROVE  /\ bind[g].filter_expressions \in Seq(Column)
               /\ bind[g].row_offset \in Nat /\ bind[g].row_limit \in Nat
               /\ column_ids[g] \in ColumnList
    BY DEF IInv, BindInv, BindData, ResultInv, TypesInv
  <2>3. PlanShape(plan) /\ todo \in Seq(DOMAIN plan)
    BY DEF IInv, PlanInv
  <2>4. DOMAIN plan = DOMAIN query /\ runs \in 0..Registered
    BY DEF ResultInv, LimitsInv, TypesInv
  <2>5. phase \in {"filters", "columns", "optimize", "init", "running", "failed"}
    BY DEF IInv, Phases
  <2> QED BY <2>1, <2>2, <2>3, <2>4, <2>5 DEF TypeOK
<1> QED BY <1>1, ResultInductive, PTL

(* The scan evaluates the copies as they stand.                            *)
LEMMA EvalOfCopies ==
  ASSUME IInv, ResultInv, phase = "running", NEW g \in Scans, NEW item
  PROVE  Eval(g, item) <=>
           LET copies == bind[g].filter_expressions IN
           \/ \E i \in DOMAIN copies : item.test[copies[i]] = "error"
           \/ \A i \in DOMAIN copies : item.test[copies[i]] = "true"
<1>1. PICK copies : copies = bind[g].filter_expressions
  OBVIOUS
<1>2. gstate[g] = Places(g) /\ DOMAIN Places(g) = DOMAIN copies
  BY <1>1 DEF ResultInv, StateInv, Places
<1>3. \A i \in DOMAIN copies : /\ Places(g)[i] \in DOMAIN column_ids[g]
                               /\ column_ids[g][Places(g)[i]] = copies[i]
  BY <1>1, PlaceOfColumn DEF Settled
<1> DEFINE input == [i \in DOMAIN column_ids[g] |-> item.test[column_ids[g][i]]]
           value == [i \in DOMAIN gstate[g] |-> input[gstate[g][i]]]
<1>4. \A i \in DOMAIN copies : input[Places(g)[i]] = item.test[copies[i]]
  BY ONLY <1>3
<1>5. value = [i \in DOMAIN copies |-> item.test[copies[i]]]
  <2> HIDE DEF input
  <2> QED BY ONLY <1>2, <1>4
<1>6. Eval(g, item) <=> \/ \E i \in DOMAIN value : value[i] = "error"
                        \/ \A i \in DOMAIN value : value[i] = "true"
  BY DEF Eval
<1> HIDE DEF value
<1>7. Eval(g, item) <=> \/ \E i \in DOMAIN copies : item.test[copies[i]] = "error"
                        \/ \A i \in DOMAIN copies : item.test[copies[i]] = "true"
  BY ONLY <1>5, <1>6
<1> QED BY ONLY <1>1, <1>7

Passing(g) == {item \in Elements(Item) : Eval(g, item)}

LEMMA SkipNone ==
  ASSUME NEW X, NEW s \in Seq(X)
  PROVE  Drop(s, 0) = s /\ Take(s, Len(s)) = s
BY SubSeqFull DEF Drop, Take

LEMMA CutTyped ==
  ASSUME NEW X, NEW s \in Seq(X), NEW n \in Nat
  PROVE  Drop(s, n) \in Seq(X) /\ Take(s, n) \in Seq(X)
<1>1. \A i \in (n + 1)..Len(s) : s[i] \in X
  BY ElementOfSeq
<1>2. Drop(s, n) \in Seq(X)
  BY <1>1, SubSeqProperties DEF Drop
<1>3. PICK m \in Nat : m = (IF n < Len(s) THEN n ELSE Len(s))
  OBVIOUS
<1>4. \A i \in 1..m : s[i] \in X
  BY <1>3, ElementOfSeq
<1>5. Take(s, n) \in Seq(X)
  BY <1>3, <1>4, SubSeqProperties DEF Take
<1> QED BY <1>2, <1>5

(* Without copies every item passes.                                       *)
LEMMA AllPass ==
  ASSUME IInv, ResultInv, phase = "running", NEW g \in Scans, bind[g].filter_expressions = <<>>
  PROVE  Select(Item, Passing(g)) = Item
<1>1. Passing(g) = Elements(Item)
  <2>1. DOMAIN bind[g].filter_expressions = {}
    OBVIOUS
  <2>2. \A item : Eval(g, item)
    BY <2>1, EvalOfCopies
  <2> QED BY <2>2 DEF Passing
<1>2. Item \in Seq(ItemShape)
  BY PlanningAssumption
<1> QED BY ONLY <1>1, <1>2, SelectAll

Untouched(g) == bind[g].filter_expressions = <<>> /\ NoLimit(g)

LEMMA UntouchedGivesAll ==
  ASSUME IInv, ResultInv, phase = "running", NEW g \in Scans, Untouched(g)
  PROVE  Scanned(g) = Item
<1>1. Select(Item, Passing(g)) = Item
  BY AllPass DEF Untouched
<1>2. Drop(Item, 0) = Item
  BY SkipNone, PlanningAssumption
<1>3. bind[g].row_limit = 0 /\ bind[g].row_offset = 0
  BY DEF Untouched, NoLimit
<1> QED BY ONLY <1>1, <1>2, <1>3 DEF Scanned, Passing

(* A limit in the scan gives what it would give above it.                  *)
LEMMA LimitInScan ==
  ASSUME IInv, ResultInv, phase = "running", NEW n \in DOMAIN plan, Pushed(n)
  PROVE  LET g == query[n].kids[1] IN
         Limited(Scanned(g), plan[n]) = Limited(Item, query[n])
<1>1. PICK g \in Scans : g = query[n].kids[1]
  BY DEF Pushed
<1>2. PICK d \in Node : d = query[n]
  BY PushedNode DEF ResultInv
<1>3. /\ d.limit \in Nat \ {0} /\ d.offset \in Nat \cup {Unset}
      /\ bind[g].row_limit = d.limit
      /\ bind[g].row_offset = IF d.offset = Unset THEN 0 ELSE d.offset
  <2>1. d.limit \in Nat /\ d.limit \in {Unset, Computed} \cup (Nat \ {0})
    BY <1>2 DEF Pushed, Node
  <2>2. d.limit \in Nat \ {0}
    BY ONLY <2>1, PlanningAssumption
  <2> QED BY <1>1, <1>2, <2>2 DEF Pushed
<1>4. plan[n].limit = Unset /\ plan[n].offset = Unset /\ plan[n].op = "LIMIT" /\ plan[n].kids = d.kids
  BY <1>2, PushedNode DEF ResultInv, Pushed
<1>5. FilterOf(plan, g) = <<>>
  <2>1. ASSUME NEW m \in DOMAIN plan, plan[m].op = "FILTER", plan[m].kids = <<g>>
        PROVE  FALSE
    <3>1. query[m].op = "FILTER" /\ query[m].kids[1] = g
      BY <2>1, PushedNode DEF ResultInv
    <3>2. query[n].op = "LIMIT"
      BY DEF Pushed
    <3> QED BY <1>1, <3>1, <3>2, OneAbove DEF ResultInv
  <2> QED BY <2>1 DEF FilterOf
<1>6. bind[g].filter_expressions = <<>>
  BY <1>5 DEF ResultInv, CopiesInv
<1>7. Select(Item, Passing(g)) = Item /\ Item \in Seq(ItemShape)
  BY <1>6, AllPass, PlanningAssumption
<1>8. PICK offset \in Nat : offset = bind[g].row_offset
  BY <1>3
<1>9. Scanned(g) = Take(Drop(Item, offset), d.limit)
  BY ONLY <1>3, <1>7, <1>8 DEF Scanned, Passing
<1>10. PICK given \in Seq(ItemShape) : given = Scanned(g)
  BY ONLY <1>3, <1>7, <1>9, CutTyped, offset \in Nat
<1>11. Limited(given, plan[n]) = given
  <2>1. Limited(given, plan[n]) = Take(Drop(given, 0), Len(given))
    BY ONLY <1>4, PlanningAssumption DEF Limited, LimitValue
  <2> QED BY ONLY <2>1, SkipNone, given \in Seq(ItemShape)
<1>12. Limited(Item, d) = Take(Drop(Item, offset), d.limit)
  <2>1. LimitValue(d.limit, Len(Item)) = d.limit
    BY ONLY <1>3, PlanningAssumption DEF LimitValue
  <2>2. LimitValue(d.offset, 0) = offset
    BY ONLY <1>3, <1>8, PlanningAssumption DEF LimitValue
  <2> QED BY ONLY <2>1, <2>2 DEF Limited
<1> QED BY ONLY <1>1, <1>2, <1>9, <1>10, <1>11, <1>12

(* A filter in the scan leaves all that the filter above it does.          *)
LEMMA FilterInScan ==
  ASSUME IInv, ResultInv, phase = "running",
         NEW g \in Scans, bind[g].filter_expressions # <<>>, NoLimit(g)
  PROVE  Filtered(Scanned(g), bind[g].filter_expressions) = Filtered(Item, bind[g].filter_expressions)
<1>1. PICK copies \in Seq(Column) : copies = bind[g].filter_expressions
  BY DEF IInv, BindInv, BindData
<1>2. Item \in Seq(ItemShape)
  BY PlanningAssumption
<1> DEFINE on == {item \in Elements(Item) : GoesOn(item, copies)}
<1>3. ASSUME NEW item, GoesOn(item, copies)
      PROVE  Eval(g, item)
  <2>1. DOMAIN copies = 1..Len(copies) /\ Len(copies) \in Nat
    BY ONLY copies \in Seq(Column)
  <2>2. \/ \E i \in DOMAIN copies : item.test[copies[i]] = "error"
        \/ \A i \in DOMAIN copies : item.test[copies[i]] = "true"
    <3>1. ASSUME NEW i \in DOMAIN copies, NEW j \in 1..(i - 1)
          PROVE  j \in DOMAIN copies
      BY ONLY <2>1, <3>1
    <3> QED BY ONLY <1>3, <3>1 DEF GoesOn
  <2> QED BY <1>1, <2>2, EvalOfCopies
<1>4. on \subseteq Passing(g)
  BY <1>3 DEF Passing
<1>5. Scanned(g) = Select(Item, Passing(g))
  <2>1. Select(Item, Passing(g)) \in Seq(ItemShape)
    BY <1>2, SelectTyped
  <2>2. Drop(Select(Item, Passing(g)), 0) = Select(Item, Passing(g))
    BY ONLY <2>1, SkipNone
  <2>3. bind[g].row_limit = 0 /\ bind[g].row_offset = 0
    BY DEF NoLimit
  <2> QED BY ONLY <2>2, <2>3 DEF Scanned, Passing
<1>6. Elements(Select(Item, Passing(g))) = Elements(Item) \cap Passing(g)
  BY ONLY <1>2, ElementsSelected
<1>7. {item \in Elements(Select(Item, Passing(g))) : GoesOn(item, copies)} = on
  BY ONLY <1>4, <1>6
<1>8. Filtered(Scanned(g), copies) = Select(Select(Item, Passing(g)), on)
  BY ONLY <1>5, <1>7 DEF Filtered
<1>9. Filtered(Item, copies) = Select(Item, on)
  BY DEF Filtered
<1>10. Select(Select(Item, Passing(g)), on) = Select(Item, on)
  <2> HIDE DEF on
  <2> QED BY ONLY <1>2, <1>4, SelectTwice
<1> QED BY ONLY <1>1, <1>8, <1>9, <1>10

(* A scan that something was pushed into is below one node, which gives    *)
(* the same above it as above all items.                                   *)
LEMMA TouchedIsBelow ==
  ASSUME IInv, ResultInv, phase = "running", NEW g \in Scans, ~Untouched(g)
  PROVE  \E n \in DOMAIN plan :
           /\ plan[n].op # "GET" /\ plan[n].op # "UNION" /\ plan[n].kids[1] = g
           /\ \A p, q, a, b : p[g] = Scanned(g) /\ q[g] = Item
                              => RowsOf(plan[n], a, p) = RowsOf(query[n], b, q)
<1>1. CASE ~NoLimit(g)
  <2>1. PICK n \in DOMAIN plan : Pushed(n) /\ query[n].kids[1] = g
    BY <1>1 DEF ResultInv, LimitsInv
  <2>2. /\ plan[n].op = "LIMIT" /\ query[n].op = "LIMIT"
        /\ plan[n].kids[1] = g /\ query[n].kids[1] = g
    BY <2>1, PushedNode DEF Pushed, ResultInv
  <2>3. Limited(Scanned(g), plan[n]) = Limited(Item, query[n])
    BY <2>1, LimitInScan
  <2>4. ASSUME NEW p, NEW q, NEW a, NEW b, p[g] = Scanned(g), q[g] = Item
        PROVE  RowsOf(plan[n], a, p) = RowsOf(query[n], b, q)
    <3>1. RowsOf(plan[n], a, p) = Limited(p[g], plan[n])
      BY ONLY <2>2 DEF RowsOf
    <3>2. RowsOf(query[n], b, q) = Limited(q[g], query[n])
      BY ONLY <2>2 DEF RowsOf
    <3> QED BY ONLY <2>3, <2>4, <3>1, <3>2
  <2> QED BY ONLY <2>2, <2>4, n \in DOMAIN plan
<1>2. CASE NoLimit(g) /\ bind[g].filter_expressions # <<>>
  <2>1. FilterOf(plan, g) # <<>> /\ bind[g].filter_expressions = FilterOf(plan, g)
    BY <1>2 DEF ResultInv, CopiesInv
  <2>2. PICK n \in DOMAIN plan : /\ plan[n].op = "FILTER" /\ plan[n].kids = <<g>>
                                 /\ FilterOf(plan, g) = plan[n].columns
    BY ONLY <2>1 DEF FilterOf
  <2>3. query[n] = plan[n]
    <3>1. query[n].op = "FILTER"
      BY <2>2, PushedNode DEF ResultInv
    <3> QED BY <3>1 DEF ResultInv, LimitsInv, Pushed
  <2>4. Filtered(Scanned(g), plan[n].columns) = Filtered(Item, plan[n].columns)
    <3>1. Filtered(Scanned(g), bind[g].filter_expressions) = Filtered(Item, bind[g].filter_expressions)
      BY <1>2, FilterInScan
    <3> QED BY ONLY <2>1, <2>2, <3>1
  <2>5. plan[n].kids[1] = g
    BY ONLY <2>2
  <2>6. ASSUME NEW p, NEW q, NEW a, NEW b, p[g] = Scanned(g), q[g] = Item
        PROVE  RowsOf(plan[n], a, p) = RowsOf(query[n], b, q)
    <3>1. RowsOf(plan[n], a, p) = Filtered(p[g], plan[n].columns)
      BY ONLY <2>2, <2>5 DEF RowsOf
    <3>2. RowsOf(plan[n], b, q) = Filtered(q[g], plan[n].columns)
      BY ONLY <2>2, <2>5 DEF RowsOf
    <3> QED BY ONLY <2>3, <2>4, <2>6, <3>1, <3>2
  <2> QED BY ONLY <2>2, <2>5, <2>6, n \in DOMAIN plan
<1> QED BY <1>1, <1>2 DEF Untouched

(* Only a scan gives what it is given.                                     *)
LEMMA RowsOfOthers ==
  ASSUME NEW d, d.op # "GET", NEW a, NEW b, NEW rows
  PROVE  RowsOf(d, a, rows) = RowsOf(d, b, rows)
<1>1. CASE d.op = "UNION"
  BY ONLY <1>1 DEF RowsOf
<1>2. CASE d.op # "UNION"
  BY ONLY <1>2, d.op # "GET" DEF RowsOf
<1> QED BY ONLY <1>1, <1>2

ScannedRows == [g \in Scans |-> Scanned(g)]
AllRows == [g \in Scans |-> Item]

(* Every node gives the same, but for a scan that something was pushed     *)
(* into: p and q are the rows of the plan and of the query.                *)
LEMMA SameRowsAbove ==
  ASSUME IInv, ResultInv, phase = "running",
         NEW p, Means(plan, ScannedRows, DOMAIN plan, p),
         NEW q, Means(query, AllRows, DOMAIN plan, q),
         NEW n \in DOMAIN plan, plan[n].op # "GET" \/ Untouched(n),
         \A k \in DOMAIN plan[n].kids :
           LET m == plan[n].kids[k] IN plan[m].op # "GET" \/ Untouched(m) => p[m] = q[m]
  PROVE  p[n] = q[n]
<1>1. /\ p[n] = RowsOf(plan[n], ScannedRows[n], p)
      /\ q[n] = RowsOf(query[n], AllRows[n], q)
      /\ \A g \in Scans : p[g] = RowsOf(plan[g], ScannedRows[g], p) /\ q[g] = RowsOf(query[g], AllRows[g], q)
  BY DEF Means, Scans, Gets
<1>2. \A g \in Scans : p[g] = Scanned(g) /\ q[g] = Item
  <2> SUFFICES ASSUME NEW g \in Scans PROVE p[g] = Scanned(g) /\ q[g] = Item
    OBVIOUS
  <2>1. g \in DOMAIN plan /\ plan[g].op = "GET"
    BY DEF Scans, Gets
  <2>2. query[g].op = "GET"
    BY <2>1, PushedNode DEF ResultInv
  <2>3. ScannedRows[g] = Scanned(g) /\ AllRows[g] = Item
    BY DEF ScannedRows, AllRows
  <2> QED BY ONLY <1>1, <2>1, <2>2, <2>3, g \in Scans DEF RowsOf
<1>3. CASE plan[n].op = "GET"
  <2>1. n \in Scans /\ Untouched(n)
    BY <1>3 DEF Scans, Gets
  <2>2. Scanned(n) = Item
    BY <2>1, UntouchedGivesAll
  <2> QED BY ONLY <1>2, <2>1, <2>2
<1>4. CASE /\ plan[n].op # "GET"
           /\ \E k \in DOMAIN plan[n].kids :
                plan[plan[n].kids[k]].op = "GET" /\ ~Untouched(plan[n].kids[k])
  <2>1. PICK k \in DOMAIN plan[n].kids :
          plan[plan[n].kids[k]].op = "GET" /\ ~Untouched(plan[n].kids[k])
    BY <1>4
  <2>2. plan[n].kids \in Seq(DOMAIN plan)
    BY NodeFields DEF IInv, PlanInv
  <2>3. PICK g \in Scans : g = plan[n].kids[k]
    BY <2>1, <2>2 DEF Scans, Gets
  <2>4. PICK m \in DOMAIN plan :
          /\ plan[m].op # "GET" /\ plan[m].kids[1] = g
          /\ \A x, y, a, b : x[g] = Scanned(g) /\ y[g] = Item => RowsOf(plan[m], a, x) = RowsOf(query[m], b, y)
    BY <2>1, <2>3, TouchedIsBelow
  <2>5. m = n
    <3>1. plan[m].kids # <<>> /\ plan[m].kids \in Seq(Nat)
      BY <2>4, NodeFields DEF IInv, PlanInv, PlanShape
    <3>2. 1 \in DOMAIN plan[m].kids
      BY ONLY <3>1
    <3> QED BY <2>1, <2>3, <2>4, <3>2 DEF IInv, PlanInv, PlanShape, IsTree
  <2> QED BY ONLY <1>1, <1>2, <2>4, <2>5
<1>5. CASE /\ plan[n].op # "GET"
           /\ \A k \in DOMAIN plan[n].kids :
                plan[plan[n].kids[k]].op # "GET" \/ Untouched(plan[n].kids[k])
  <2>1. plan[n].kids # <<>> /\ plan[n].kids \in Seq(Nat) /\ plan[n].op = "UNION" => Len(plan[n].kids) = 2
    BY <1>5, NodeFields DEF IInv, PlanInv, PlanShape
  <2>2. ~Pushed(n)
    <3>1. SUFFICES ASSUME Pushed(n) PROVE FALSE
      OBVIOUS
    <3>2. PICK g \in Scans : g = query[n].kids[1]
      BY <3>1 DEF Pushed
    <3>3. plan[n].kids = query[n].kids
      BY PushedNode DEF ResultInv
    <3>4. 1 \in DOMAIN plan[n].kids
      BY <1>5, NodeFields DEF IInv, PlanInv, PlanShape
    <3>5. Untouched(g)
      <4>1. plan[g].op = "GET"
        BY DEF Scans, Gets
      <4> QED BY ONLY <1>5, <3>2, <3>3, <3>4, <4>1
    <3>6. bind[g].row_limit = query[n].limit /\ query[n].limit \in Nat
      BY ONLY <3>1, <3>2 DEF Pushed
    <3>7. query[n].limit # 0
      <4>1. query[n].limit \in {Unset, Computed} \cup (Nat \ {0})
        BY PushedNode DEF ResultInv, Node
      <4> QED BY ONLY <3>6, <4>1, PlanningAssumption
    <3> QED BY <3>5, <3>6, <3>7 DEF Untouched, NoLimit
  <2>3. plan[n] = query[n]
    BY <2>2 DEF ResultInv, LimitsInv
  <2>4. PICK d : d = plan[n]
    OBVIOUS
  <2>5. \A k \in DOMAIN d.kids : p[d.kids[k]] = q[d.kids[k]]
    BY <1>5, <2>4
  <2>6. d.kids # <<>> /\ d.kids \in Seq(Nat) /\ (d.op = "UNION" => Len(d.kids) = 2) /\ d.op # "GET"
    BY <1>5, <2>4, NodeFields DEF IInv, PlanInv, PlanShape
  <2>7. RowsOf(d, ScannedRows[n], p) = RowsOf(d, ScannedRows[n], q)
    BY ONLY <2>5, <2>6, RowsOfSame
  <2>8. RowsOf(d, ScannedRows[n], q) = RowsOf(d, AllRows[n], q)
    BY ONLY <2>6, RowsOfOthers
  <2> QED BY ONLY <1>1, <2>3, <2>4, <2>7, <2>8
<1> QED BY ONLY <1>3, <1>4, <1>5

LEMMA SameRows ==
  ASSUME IInv, ResultInv, phase = "running",
         NEW p, Means(plan, ScannedRows, DOMAIN plan, p),
         NEW q, Means(query, AllRows, DOMAIN plan, q)
  PROVE  \A n \in DOMAIN plan : plan[n].op # "GET" \/ Untouched(n) => p[n] = q[n]
<1> DEFINE P == {m \in Nat : \A n \in LastNodes(plan, m) : plan[n].op # "GET" \/ Untouched(n) => p[n] = q[n]}
<1>1. DOMAIN plan = 1..Len(plan) /\ Len(plan) \in Nat
  BY DEF IInv, PlanInv, PlanShape
<1>2. 0 \in P
  <2>1. LastNodes(plan, 0) = {}
    BY <1>1 DEF LastNodes
  <2> QED BY <2>1
<1>3. ASSUME NEW m \in Nat, m \in P PROVE m + 1 \in P
  <2>1. ASSUME NEW n \in LastNodes(plan, m + 1), plan[n].op # "GET" \/ Untouched(n)
        PROVE  p[n] = q[n]
    <3>1. n \in DOMAIN plan
      BY DEF LastNodes
    <3>2. \A k \in DOMAIN plan[n].kids : plan[n].kids[k] \in LastNodes(plan, m)
      <4>1. \A k \in DOMAIN plan[n].kids : plan[n].kids[k] \in (n + 1)..Len(plan)
        BY <3>1 DEF IInv, PlanInv, PlanShape, IsTree
      <4>2. Len(plan) - n < m + 1 /\ n \in Nat
        BY <1>1, <3>1 DEF LastNodes
      <4> QED BY ONLY <1>1, <4>1, <4>2, m \in Nat DEF LastNodes
    <3>3. \A k \in DOMAIN plan[n].kids :
            plan[plan[n].kids[k]].op # "GET" \/ Untouched(plan[n].kids[k])
              => p[plan[n].kids[k]] = q[plan[n].kids[k]]
      BY <1>3, <3>2
    <3> QED BY <2>1, <3>1, <3>3, SameRowsAbove
  <2> QED BY <2>1
<1>4. Nat \subseteq P
  <2> HIDE DEF P
  <2> QED BY <1>2, <1>3, Induction
<1>5. LastNodes(plan, Len(plan)) = DOMAIN plan
  BY <1>1 DEF LastNodes
<1>6. Len(plan) \in P
  BY ONLY <1>1, <1>4
<1> QED BY <1>5, <1>6

(* For every plan, catalog, list of columns and number of registrations,   *)
(* the query returns what it would if nothing were pushed into its scans.  *)
THEOREM PushdownPreservesResult == Spec => []SameResult
<1>1. IInv /\ ResultInv => SameResult
  <2> SUFFICES ASSUME IInv, ResultInv, phase = "running"
               PROVE  Meaning(plan, ScannedRows) = Meaning(query, AllRows)
    BY DEF SameResult, ScannedRows, AllRows
  <2>1. PlanShape(plan) /\ PlanShape(query) /\ DOMAIN query = DOMAIN plan
    BY DEF IInv, PlanInv, ResultInv, LimitsInv
  <2>2. PICK p : Means(plan, ScannedRows, DOMAIN plan, p) /\ Meaning(plan, ScannedRows) = p[1]
    BY ONLY <2>1, MeaningUnfolds
  <2>3. PICK q : Means(query, AllRows, DOMAIN plan, q) /\ Meaning(query, AllRows) = q[1]
    BY ONLY <2>1, MeaningUnfolds
  <2>4. 1 \in DOMAIN plan /\ DOMAIN plan = 1..Len(plan) /\ Len(plan) \in Nat
    BY <2>1 DEF PlanShape
  <2>5. plan[1].op # "GET" \/ Untouched(1)
    <3>1. SUFFICES ASSUME plan[1].op = "GET", ~Untouched(1) PROVE FALSE
      OBVIOUS
    <3>2. 1 \in Scans
      BY <2>4, <3>1 DEF Scans, Gets
    <3>3. PICK n \in DOMAIN plan : plan[n].op # "GET" /\ plan[n].kids[1] = 1
      BY <3>1, <3>2, TouchedIsBelow
    <3>4. 1 \in DOMAIN plan[n].kids
      BY <2>1, <3>3, NodeFields DEF PlanShape
    <3>5. plan[n].kids[1] \in (n + 1)..Len(plan)
      BY <2>1, <3>4 DEF PlanShape, IsTree
    <3> QED BY ONLY <2>4, <3>3, <3>5
  <2>6. p[1] = q[1]
    BY <2>2, <2>3, <2>4, <2>5, SameRows
  <2> QED BY ONLY <2>2, <2>3, <2>6
<1> QED BY <1>1, ResultInductive, PTL
=============================================================================
