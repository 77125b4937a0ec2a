--------------------------- MODULE MCScanPlanning ---------------------------
(***************************************************************************)
(* Plans for ScanPlanning: every chain of up to two operators above one    *)
(* scan, many chains of three, and unions of two scans.                    *)
(***************************************************************************)
EXTENDS ScanPlanning

Op(op) == [op |-> op, kids |-> <<>>, limit |-> Unset, offset |-> Unset,
           columns |-> <<>>, name |-> ""]
Limit(limit, offset) == [Op("LIMIT") EXCEPT !.limit = limit, !.offset = offset]
Filter(columns) == [Op("FILTER") EXCEPT !.columns = columns]
Get(name) == [Op("GET") EXCEPT !.name = name]

(* Each operator above the next one.                                       *)
Chain(ops) == [n \in DOMAIN ops |->
                 IF n = Len(ops) THEN ops[n] ELSE [ops[n] EXCEPT !.kids = <<n + 1>>]]

(* The same, with the nodes numbered from m + 1 on.                        *)
Shifted(p, m) == [n \in DOMAIN p |->
                    [p[n] EXCEPT !.kids = [i \in DOMAIN @ |-> @[i] + m]]]

Union(p, q) == <<[Op("UNION") EXCEPT !.kids = <<2, Len(p) + 2>>]>>
                 \o Shifted(p, 1) \o Shifted(q, Len(p) + 1)

Over(d, p) == <<[d EXCEPT !.kids = <<2>>]>> \o Shifted(p, 1)

Limits == {Limit(1, Unset), Limit(3, Unset), Limit(2, 1), Limit(1, 3), Limit(2, 0),
           Limit(Unset, 2), Limit(Computed, Unset), Limit(2, Computed)}
Others == {Filter(<<0>>), Filter(<<1, 0>>), Op("ORDER_BY"), Op("AGGREGATE"), Op("PROJECTION")}

Above == Limits \cup Others

Deep == {Limit(3, Unset), Limit(2, 1), Filter(<<0>>), Filter(<<1, 0>>), Op("ORDER_BY"), Op("AGGREGATE")}

Read == Get("stac_read")

Chains ==
  {Chain(<<Read>>)} \cup {Chain(<<a, Read>>) : a \in Above}
    \cup {Chain(<<a, b, Read>>) : a \in Above, b \in Above}
    \cup {Chain(<<a, b, c, Read>>) : a \in Deep, b \in Deep, c \in Deep}

Searches == {Chain(<<a, Get("stac_search")>>) : a \in Above}

Branches == {Chain(<<Read>>), Chain(<<Limit(2, 1), Read>>), Chain(<<Filter(<<1>>), Read>>),
             Chain(<<Limit(1, Unset), Op("ORDER_BY"), Limit(3, Unset), Read>>)}

Unions == {Union(p, q) : p \in Branches, q \in Branches}
            \cup {Over(a, Union(p, q)) : a \in Limits, p \in Branches, q \in Branches}

Plans == Chains \cup Searches \cup Unions

(* Items on which the tests disagree, throw, and say null.                 *)
Tests(a, b) == [c \in {0, 1} |-> IF c = 0 THEN a ELSE b]
Items == <<[id |-> 101, test |-> Tests("true", "false")],
           [id |-> 102, test |-> Tests("true", "true")],
           [id |-> 103, test |-> Tests("error", "false")],
           [id |-> 104, test |-> Tests("null", "true")],
           [id |-> 105, test |-> Tests("true", "true")],
           [id |-> 106, test |-> Tests("false", "error")]>>

ColumnLists == {<<>>, <<0>>, <<1>>, <<0, 1>>, <<1, 0>>, <<0, 1, 0>>}
=============================================================================
