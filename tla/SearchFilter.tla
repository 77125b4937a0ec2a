---------------------------- MODULE SearchFilter ----------------------------
(***************************************************************************)
(* The criteria of STAC_Search, from its named parameters to the body of   *)
(* the request (src/stac/search_filter.cpp and BindSearch in               *)
(* src/stac/stac_read_functions.cpp).                                      *)
(*                                                                         *)
(* A body is a sequence of braces, commas, keys and values.  What the code *)
(* puts in quotes or formats itself is a value; filter, fields and sortby  *)
(* are copied as the user wrote them, which is JSON or not.                *)
(***************************************************************************)
EXTENDS Integers, Sequences

CONSTANT Unset    \* a named parameter that is not there, a NULL geometry

ParameterNames == {"collections", "ids", "datetime", "bbox", "intersects",
                   "filter", "filter_lang", "fields", "sortby", "max_items"}

Least(a, b)    == IF a <= b THEN a ELSE b
Greatest(a, b) == IF a <= b THEN b ELSE a

(* GeometryExtent::Extend, by the first and the second corner.             *)
Extent(corners) ==
  [x_min |-> Least(corners[1], corners[3]), y_min |-> Least(corners[2], corners[4]),
   x_max |-> Greatest(corners[1], corners[3]), y_max |-> Greatest(corners[2], corners[4])]

OrElse(value, default) == IF value = Unset THEN default ELSE value

\* A negative number is kept.
MaxItemsAsGiven(param) == IF param = Unset THEN 0 ELSE param

MaxItems(param) == IF param = Unset THEN 0 ELSE Greatest(param, 0)

(* params has a value for every parameter name; an empty filter, fields or *)
(* sortby is Unset as well.                                                *)
BindThrows(params) == params.bbox # Unset /\ Len(params.bbox) # 4

BindSearch(params) ==
  [collections |-> OrElse(params.collections, <<>>),
   ids         |-> OrElse(params.ids, <<>>),
   datetime    |-> OrElse(params.datetime, ""),
   bbox        |-> IF params.bbox = Unset THEN Unset ELSE Extent(params.bbox),
   intersects  |-> params.intersects,
   filter      |-> params.filter,
   filter_lang |-> OrElse(params.filter_lang, "cql2-json"),
   fields      |-> params.fields,
   sortby      |-> params.sortby,
   max_items   |-> MaxItems(params.max_items)]

\* The test of a criterion is missing from IsEmpty.
IsEmptyWithoutSortby(filter) ==
  /\ filter.collections = <<>> /\ filter.ids = <<>> /\ filter.datetime = ""
  /\ filter.bbox = Unset /\ filter.intersects = Unset
  /\ filter.filter = Unset /\ filter.fields = Unset
  /\ filter.max_items <= 0

IsEmpty(filter) ==
  /\ filter.collections = <<>> /\ filter.ids = <<>> /\ filter.datetime = ""
  /\ filter.bbox = Unset /\ filter.intersects = Unset
  /\ filter.filter = Unset /\ filter.fields = Unset /\ filter.sortby = Unset
  /\ filter.max_items <= 0

(* A member of the body: whether it is written, its key and its value.     *)
Criterion(given, key, value) == [given |-> given, key |-> key, value |-> value]

Quoted(value) == <<"json", value>>

(* intersects is what ParseGeometryAsGeoJson made of the geometry.         *)
Criteria(filter, intersects) ==
  <<Criterion(filter.collections # <<>>, "collections", Quoted(filter.collections)),
    Criterion(filter.ids # <<>>,         "ids",         Quoted(filter.ids)),
    Criterion(filter.datetime # "",      "datetime",    Quoted(filter.datetime)),
    Criterion(filter.bbox # Unset,       "bbox",        Quoted(filter.bbox)),
    Criterion(filter.intersects # Unset, "intersects",  Quoted(intersects)),
    Criterion(filter.filter # Unset,     "filter_lang", Quoted(filter.filter_lang)),
    Criterion(filter.filter # Unset,     "filter",      filter.filter),
    Criterion(filter.fields # Unset,     "fields",      filter.fields),
    Criterion(filter.sortby # Unset,     "sortby",      filter.sortby),
    Criterion(filter.max_items > 0,      "limit",       Quoted(filter.max_items))>>

Comma == <<"punct", ",">>
Open  == <<"punct", "{">>
Close == <<"punct", "}">>
Pair(criterion) == <<<<"key", criterion.key>>, <<"value", criterion.value>>>>

Start == [first_param |-> TRUE, text |-> <<Open>>]

(* written: the text so far, and whether nothing has been written yet.     *)
AddCriterion(written, criterion) ==
  IF ~criterion.given THEN written
  ELSE [first_param |-> FALSE,
        text |-> written.text \o (IF written.first_param THEN <<>> ELSE <<Comma>>) \o Pair(criterion)]

(* The text with the criteria written one after the other.                 *)
Written(criteria) ==
  LET W[i \in 0..Len(criteria)] ==
        IF i = 0 THEN Start ELSE AddCriterion(W[i - 1], criteria[i])
  IN  W[Len(criteria)].text

AsQueryJson(filter, intersects) == Append(Written(Criteria(filter, intersects)), Close)
=============================================================================
