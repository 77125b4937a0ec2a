---------------------------- MODULE ScanPlanning ----------------------------
(***************************************************************************)
(* From a bound plan to a running scan: the three hooks by which DuckDB    *)
(* lets STAC_Read change what it reads (src/stac/stac_read_functions.cpp). *)
(*                                                                         *)
(*   PushdownComplexFilter copies the filters that stand above the scan,   *)
(*     and leaves them in the plan;                                        *)
(*   Optimize moves a LIMIT and its OFFSET from the plan into the scan;    *)
(*   Init translates the columns of the copied filters to positions in the *)
(*     list of columns that DuckDB has settled on in between.              *)
(*                                                                         *)
(* A plan is a tree of operators with node 1 as its root; the leaves are   *)
(* the scans (GET).  All scans read the same catalog.                      *)
(***************************************************************************)
EXTENDS Integers, Sequences, FiniteSets

CONSTANTS
  Plan,         \* the plans to optimize, see PlanShape
  Column,       \* the columns of the table function
  Item,         \* the items of the catalog, in reading order, see ItemShape
  ColumnList,   \* the column lists the planner may give to a scan
  Registered,   \* how often Optimize is registered: by STAC_Read and STAC_Search
  Unset,        \* BoundLimitNode(): no LIMIT, no OFFSET
  Computed,     \* a LIMIT or OFFSET that is not a constant
  ComputedValue \* what it turns out to be

Operators == {"LIMIT", "ORDER_BY", "AGGREGATE", "PROJECTION", "FILTER", "UNION", "GET"}

(* columns: what the expressions of a FILTER test; name: the function of a *)
(* GET.  A LIMIT 0 never gets here: DuckDB replaces it by an empty result  *)
(* before.                                                                 *)
Node ==
  [op : Operators, kids : Seq(Nat), columns : Seq(Column), name : STRING,
   limit : {Unset, Computed} \cup (Nat \ {0}), offset : {Unset, Computed} \cup Nat]

(* A tree whose nodes are numbered from the root on.                       *)
IsTree(p) ==
  \A n \in DOMAIN p : \A i \in DOMAIN p[n].kids :
    /\ p[n].kids[i] \in (n + 1)..Len(p)
    /\ \A m \in DOMAIN p : \A j \in DOMAIN p[m].kids :
         p[n].kids[i] = p[m].kids[j] => n = m /\ i = j

PlanShape(p) ==
  /\ p \in Seq(Node) /\ p # <<>>
  /\ \A n \in DOMAIN p :
       /\ p[n].op # "GET" => p[n].kids # <<>>
       /\ p[n].op = "UNION" => Len(p[n].kids) = 2
  /\ IsTree(p)

(* What the test on a column says of an item.                              *)
ItemShape == [id : Nat, test : [Column -> {"true", "false", "null", "error"}]]

ASSUME PlanningAssumption ==
  /\ \A p \in Plan : PlanShape(p)
  /\ Item \in Seq(ItemShape)
  /\ ColumnList \subseteq Seq(Column)
  /\ Registered \in Nat /\ ComputedValue \in Nat
  /\ Unset \notin Nat /\ Computed \notin Nat /\ Unset # Computed

VARIABLES
  query,      \* the plan as the query says it
  plan,       \* the plan as it is now
  bind,       \* bind[g]: the BindData of scan g
  column_ids, \* column_ids[g]: the columns of scan g
  gstate,     \* gstate[g]: the filters of its running scan, by position
  phase,      \* "filters", "columns", "optimize", "init", "running", "failed"
  todo,       \* the nodes still to be visited in this phase
  runs        \* how often Optimize has still to be called

vars == <<query, plan, bind, column_ids, gstate, phase, todo, runs>>

Elements(s) == {s[i] : i \in DOMAIN s}

Gets(p) == {n \in DOMAIN p : p[n].op = "GET"}

Scans == Gets(plan)

(* What Bind leaves in the bind data.                                      *)
Init ==
  /\ query \in Plan /\ plan = query
  /\ bind = [g \in Scans |-> [filter_expressions |-> <<>>, row_offset |-> 0, row_limit |-> 0]]
  /\ column_ids \in [Scans -> {l \in ColumnList : Elements(l) = Column}]
  /\ gstate = [g \in Scans |-> <<>>]
  /\ phase = "filters" /\ todo = <<1>> /\ runs = Registered

Head1 == todo[1]

Descend == todo' = plan[Head1].kids \o Tail(todo)

(***************************************************************************)
(* Filter pushdown.                                                        *)
(***************************************************************************)
(* The expressions of the FILTER that stands directly above scan g.        *)
FilterOf(p, g) ==
  LET over == {n \in DOMAIN p : p[n].op = "FILTER" /\ p[n].kids = <<g>>}
  IN  IF over = {} THEN <<>> ELSE p[CHOOSE n \in over : TRUE].columns

(* An expression refers to a column by its place in the list of the scan.  *)
Binding(g, column) == CHOOSE i \in DOMAIN column_ids[g] : column_ids[g][i] = column

TableColumnAsBound(g, binding) == binding - 1

TableColumn(g, binding) == column_ids[g][binding]

FilterCopies(g) ==
  LET found == FilterOf(plan, g)
  IN  [i \in DOMAIN found |-> TableColumn(g, Binding(g, found[i]))]

PushAndClearFilters ==
  /\ phase = "filters" /\ todo # <<>> /\ plan[Head1].op = "GET"
  /\ bind' = [bind EXCEPT ![Head1].filter_expressions = FilterCopies(Head1)]
  /\ plan' = [n \in DOMAIN plan |->
                IF plan[n].op = "FILTER" /\ plan[n].kids = <<Head1>>
                THEN [plan[n] EXCEPT !.op = "PROJECTION"] ELSE plan[n]]
  /\ todo' = Tail(todo)
  /\ UNCHANGED <<query, column_ids, gstate, phase, runs>>

(* The expressions stay in the plan as well.                               *)
PushdownComplexFilter ==
  /\ phase = "filters" /\ todo # <<>> /\ plan[Head1].op = "GET"
  /\ bind' = IF FilterCopies(Head1) = <<>> THEN bind
             ELSE [bind EXCEPT ![Head1].filter_expressions = FilterCopies(Head1)]
  /\ todo' = Tail(todo)
  /\ UNCHANGED <<query, plan, column_ids, gstate, phase, runs>>

(* DuckDB looks for the scans.                                             *)
FindScans ==
  /\ phase = "filters" /\ todo # <<>> /\ plan[Head1].op # "GET"
  /\ Descend
  /\ UNCHANGED <<query, plan, bind, column_ids, gstate, phase, runs>>

FiltersPushed ==
  /\ phase = "filters" /\ todo = <<>>
  /\ phase' = "columns"
  /\ UNCHANGED <<query, plan, bind, column_ids, gstate, todo, runs>>

(* DuckDB drops, adds and reorders columns, but keeps those that a filter  *)
(* in the plan tests.                                                      *)
UsedColumns(g) == Elements(FilterOf(plan, g))

PruneColumns ==
  /\ phase = "columns"
  /\ \E lists \in [Scans -> ColumnList] :
       /\ \A g \in Scans : UsedColumns(g) \subseteq Elements(lists[g])
       /\ column_ids' = lists
  /\ phase' = "optimize"
  /\ UNCHANGED <<query, plan, bind, gstate, todo, runs>>

(***************************************************************************)
(* LIMIT pushdown: Optimize, once for every registration.                  *)
(***************************************************************************)
CallOptimize ==
  /\ phase = "optimize" /\ todo = <<>> /\ runs > 0
  /\ todo' = <<1>> /\ runs' = runs - 1
  /\ UNCHANGED <<query, plan, bind, column_ids, gstate, phase>>

Visiting == phase = "optimize" /\ todo # <<>>

Child(n) == plan[plan[n].kids[1]]

AnyLimit(n) == plan[n].limit # Unset

(* Only a constant LIMIT, with a constant OFFSET or none.                  *)
ConstantLimit(n) == plan[n].limit \in Nat /\ plan[n].offset \in Nat \cup {Unset}

IsStacRead(n) == Child(n).op = "GET" /\ Child(n).name = "stac_read"

PushLimit ==
  /\ Visiting /\ plan[Head1].op = "LIMIT"
  /\ ConstantLimit(Head1) /\ IsStacRead(Head1)
  /\ LET g == plan[Head1].kids[1] IN
       bind' = [bind EXCEPT ![g].row_limit = plan[Head1].limit,
                            ![g].row_offset = IF plan[Head1].offset = Unset THEN @
                                              ELSE plan[Head1].offset]
  /\ plan' = [plan EXCEPT ![Head1].limit = Unset, ![Head1].offset = Unset]
  /\ todo' = Tail(todo)
  /\ UNCHANGED <<query, column_ids, gstate, phase, runs>>

(* What is below such a LIMIT is not visited.                              *)
LeaveSubtree ==
  /\ Visiting /\ plan[Head1].op = "LIMIT"
  /\ ~ConstantLimit(Head1) \/ Child(Head1).op \in {"ORDER_BY", "AGGREGATE"}
  /\ todo' = Tail(todo)
  /\ UNCHANGED <<query, plan, bind, column_ids, gstate, phase, runs>>

Recurse ==
  /\ Visiting
  /\ plan[Head1].op = "LIMIT" =>
       /\ ConstantLimit(Head1) /\ ~IsStacRead(Head1)
       /\ Child(Head1).op \notin {"ORDER_BY", "AGGREGATE"}
  /\ Descend
  /\ UNCHANGED <<query, plan, bind, column_ids, gstate, phase, runs>>

Optimized ==
  /\ phase = "optimize" /\ todo = <<>> /\ runs = 0
  /\ phase' = "init"
  /\ UNCHANGED <<query, plan, bind, column_ids, gstate, todo, runs>>

(***************************************************************************)
(* Init, when the plan is executed.                                        *)
(***************************************************************************)
Has(g, column) == \E i \in DOMAIN column_ids[g] : column_ids[g][i] = column

(* The map from columns to positions keeps the last one.                   *)
Position(g, column) ==
  CHOOSE i \in DOMAIN column_ids[g] :
    /\ column_ids[g][i] = column
    /\ \A j \in DOMAIN column_ids[g] : column_ids[g][j] = column => j <= i

Remappable == \A g \in Scans :
  LET f == bind[g].filter_expressions IN \A i \in DOMAIN f : Has(g, f[i])

(* "filter column was pruned from the projected columns" is thrown unless  *)
(* every column is found.                                                  *)
InitScans ==
  /\ phase = "init"
  /\ gstate' = IF ~Remappable THEN gstate
               ELSE [g \in Scans |-> [i \in DOMAIN bind[g].filter_expressions |->
                       Position(g, bind[g].filter_expressions[i])]]
  /\ phase' = IF Remappable THEN "running" ELSE "failed"
  /\ UNCHANGED <<query, plan, bind, column_ids, todo, runs>>

Next ==
  \/ FindScans \/ PushdownComplexFilter \/ FiltersPushed \/ PruneColumns
  \/ CallOptimize \/ PushLimit \/ LeaveSubtree \/ Recurse \/ Optimized
  \/ InitScans

Spec == Init /\ [][Next]_vars

(***************************************************************************)
(* What the running scan gives.                                            *)
(***************************************************************************)
(* FilterEval::Eval: one row with the projected columns; an item is kept   *)
(* when evaluating throws, for any of the expressions.                     *)
Eval(g, item) ==
  LET input == [i \in DOMAIN column_ids[g] |-> item.test[column_ids[g][i]]]
      value == [i \in DOMAIN gstate[g] |-> input[gstate[g][i]]]
  IN  \/ \E i \in DOMAIN value : value[i] = "error"
      \/ \A i \in DOMAIN value : value[i] = "true"

(* Those of the elements of s that are in the set.                         *)
AddIf(selected, x, set) == IF x \in set THEN Append(selected, x) ELSE selected

Select(s, set) ==
  LET Of[i \in 0..Len(s)] == IF i = 0 THEN <<>> ELSE AddIf(Of[i - 1], s[i], set)
  IN  Of[Len(s)]

Drop(s, n) == SubSeq(s, n + 1, Len(s))
Take(s, n) == SubSeq(s, 1, IF n < Len(s) THEN n ELSE Len(s))

(* What ItemReader makes of a filter, an offset and a limit.               *)
Scanned(g) ==
  LET rest == Drop(Select(Item, {item \in Elements(Item) : Eval(g, item)}), bind[g].row_offset)
  IN  IF bind[g].row_limit = 0 THEN rest ELSE Take(rest, bind[g].row_limit)

(***************************************************************************)
(* What a plan means, given what its scans give.                           *)
(***************************************************************************)
LimitValue(v, unset) == CASE v = Unset -> unset [] v = Computed -> ComputedValue [] OTHER -> v

Limited(s, d) == Take(Drop(s, LimitValue(d.offset, 0)), LimitValue(d.limit, Len(s)))

(* Expressions are evaluated in order up to the first that is not true; an *)
(* item on which that one throws goes on, to make the query fail if and    *)
(* when it is reached.                                                     *)
GoesOn(item, columns) ==
  \A i \in DOMAIN columns :
    \/ item.test[columns[i]] \in {"true", "error"}
    \/ \E j \in 1..(i - 1) : item.test[columns[j]] = "error"

Filtered(s, columns) == Select(s, {item \in Elements(s) : GoesOn(item, columns)})

(* ORDER BY stands for any order other than that of the catalog, AGGREGATE *)
(* for a count.                                                            *)
Ordered(s) == [i \in DOMAIN s |-> s[Len(s) + 1 - i]]
Counted(s) == <<[id |-> Len(s), test |-> [c \in Column |-> "true"]]>>

(* What node d gives, above the nodes that give rows; scan if it is one.   *)
RowsOf(d, scan, rows) ==
  CASE d.op = "GET"       -> scan
    [] d.op = "LIMIT"     -> Limited(rows[d.kids[1]], d)
    [] d.op = "FILTER"    -> Filtered(rows[d.kids[1]], d.columns)
    [] d.op = "ORDER_BY"  -> Ordered(rows[d.kids[1]])
    [] d.op = "AGGREGATE" -> Counted(rows[d.kids[1]])
    [] d.op = "UNION"     -> rows[d.kids[1]] \o rows[d.kids[2]]
    [] OTHER              -> rows[d.kids[1]]

Meaning(p, scans) ==
  LET Rows[n \in DOMAIN p] == RowsOf(p[n], scans[n], Rows) IN Rows[1]

(***************************************************************************)
(* Properties.                                                             *)
(***************************************************************************)
(* Every definition is used with the values it is made for: a scan never   *)
(* gets a LIMIT or an OFFSET that is not a number.                         *)
TypeOK ==
  /\ PlanShape(plan) /\ DOMAIN plan = DOMAIN query
  /\ \A g \in Scans :
       /\ bind[g].filter_expressions \in Seq(Column)
       /\ bind[g].row_offset \in Nat /\ bind[g].row_limit \in Nat
       /\ column_ids[g] \in ColumnList
       /\ gstate[g] \in Seq(DOMAIN column_ids[g])
  /\ phase \in {"filters", "columns", "optimize", "init", "running", "failed"}
  /\ todo \in Seq(DOMAIN plan) /\ runs \in 0..Registered

(* Whatever is pushed down and wherever DuckDB moves the columns, the      *)
(* query returns what it would return if the scan gave every item and the  *)
(* plan were executed as written: nothing is limited or skipped twice, or  *)
(* dropped by a filter on the wrong column.                                *)
SameResult ==
  phase = "running" =>
    Meaning(plan, [g \in Scans |-> Scanned(g)]) = Meaning(query, [g \in Scans |-> Item])

(* Every query can be executed: Init never finds that the column of a      *)
(* copied filter is gone.                                                  *)
PlanningSucceeds == phase # "failed"
=============================================================================
