---------------------------- MODULE JsonGeometry ----------------------------
(***************************************************************************)
(* Geometries as GeoJSON and as WKT (src/stac/json_geometry.cpp): the WKT  *)
(* of a row from the "geometry" of a Feature, and the "intersects" of a    *)
(* search from a GEOMETRY value.                                           *)
(*                                                                         *)
(* A WKT text is a sequence of words, numerals, parentheses and commas;    *)
(* white space, which the reader skips after every token, is left out.     *)
(***************************************************************************)
EXTENDS JsonValue

CONSTANTS
  Numerals,  \* the decimal numerals that coordinates are written with
  Short,     \* what an ostream writes of a number by default: six digits
  Fixed,     \* what it writes of a number with std::fixed, setprecision(10)
  MaxDepth   \* Geometry::MAX_RECURSION_DEPTH

ASSUME GeometryAssumption ==
  /\ "0" \in Numerals
  /\ Short \in [Numerals -> Numerals] /\ Fixed \in [Numerals -> Numerals]
  /\ MaxDepth \in Nat \ {0}

-----------------------------------------------------------------------------
(***************************************************************************)
(* GeoJSON to WKT.                                                         *)
(***************************************************************************)
Parens(text)     == <<"(">> \o text \o <<")">>
Separated(texts) ==
  FlattenSeq([i \in DOMAIN texts |-> IF i = 1 THEN texts[i] ELSE <<",">> \o texts[i]])

\* The two numbers are the wrong way round.
CoordinateToStringSwapped(json) ==
  IF /\ Is("arr", json) /\ Len(json[2]) >= 2
     /\ IsNumber(json[2][1]) /\ IsNumber(json[2][2])
  THEN <<Short[GetReal(json[2][2])], Short[GetReal(json[2][1])]>>
  ELSE <<Throw>>

CoordinateToString(json) ==
  IF /\ Is("arr", json) /\ Len(json[2]) >= 2
     /\ IsNumber(json[2][1]) /\ IsNumber(json[2][2])
  THEN <<Short[GetReal(json[2][1])], Short[GetReal(json[2][2])]>>
  ELSE <<Throw>>

CoordinateSequenceToString(json) ==
  IF Elements(json) = <<>> THEN <<Throw>>
  ELSE Separated([i \in DOMAIN json[2] |-> CoordinateToString(json[2][i])])

RingsToString(json) ==
  Separated([i \in DOMAIN Elements(json) |-> Parens(CoordinateSequenceToString(json[2][i]))])

RECURSIVE ParseGeometryAsWKT(_)
ParseGeometryAsWKT(json) ==
  LET type    == Get(json, "type")
      coords  == Get(json, "coordinates")
      geoms   == Get(json, "geometries")
      each(Op(_)) == Separated([i \in DOMAIN coords[2] |-> Parens(Op(coords[2][i]))])
      text ==
        CASE type[2] = "Point"           -> <<"POINT">> \o Parens(CoordinateToString(coords))
          [] type[2] = "LineString"      -> <<"LINESTRING">> \o Parens(CoordinateSequenceToString(coords))
          [] type[2] = "Polygon"         -> <<"POLYGON">> \o Parens(RingsToString(coords))
          [] type[2] = "MultiPoint"      -> <<"MULTIPOINT">> \o Parens(each(CoordinateToString))
          [] type[2] = "MultiLineString" -> <<"MULTILINESTRING">> \o Parens(each(CoordinateSequenceToString))
          [] type[2] = "MultiPolygon"    -> <<"MULTIPOLYGON">> \o Parens(each(RingsToString))
          [] type[2] = "GeometryCollection" /\ Is("arr", geoms) ->
               <<"GEOMETRYCOLLECTION">>
               \o Parens(Separated([i \in DOMAIN geoms[2] |-> ParseGeometryAsWKT(geoms[2][i])]))
          [] OTHER -> <<Throw>>
  IN  IF ~Is("obj", json) THEN <<>>
      ELSE IF ~Is("str", type) \/ ~Is("arr", coords) THEN <<Throw>>
      ELSE text

-----------------------------------------------------------------------------
(***************************************************************************)
(* WKT to GeoJSON.  A part of the reader returns what it has written and   *)
(* the rest of the text, or that it has thrown.                            *)
(***************************************************************************)
Read(out, rest) == [ok |-> TRUE, out |-> out, rest |-> rest]
MakeError       == [ok |-> FALSE, out |-> Missing, rest |-> <<>>]

TryMatch(text, token) == text # <<>> /\ Head(text) = token
After(text, token)    == IF TryMatch(text, token) THEN Tail(text) ELSE text

WriteVertex(text, dims) ==
  IF Len(text) >= dims /\ \A d \in 1..dims : text[d] \in Numerals
  THEN Read(Arr([d \in 1..dims |-> Real(Fixed[text[d]])]), SubSeq(text, dims + 1, Len(text)))
  ELSE MakeError

(* What the word at the front announces: the GeoJSON type and, for a type  *)
(* that has a list in parentheses, what its elements are.                  *)
WktTypes ==
  [POINT              |-> [name |-> "Point",              of |-> "none"],
   LINESTRING         |-> [name |-> "LineString",         of |-> "vertex"],
   POLYGON            |-> [name |-> "Polygon",            of |-> "ring"],
   MULTIPOINT         |-> [name |-> "MultiPoint",         of |-> "point"],
   MULTILINESTRING    |-> [name |-> "MultiLineString",    of |-> "line"],
   MULTIPOLYGON       |-> [name |-> "MultiPolygon",       of |-> "polygon"],
   GEOMETRYCOLLECTION |-> [name |-> "GeometryCollection", of |-> "geometry"]]

AfterSrid(text) ==
  IF ~TryMatch(text, "SRID") THEN text
  ELSE IF Len(text) >= 4 /\ text[2] = "=" /\ text[3] \in Numerals /\ text[4] = ";"
       THEN SubSeq(text, 5, Len(text))
       ELSE <<>>

(* at: the depth of a geometry and whether it has Z and M.                 *)
Dims(at) == 2 + (IF at.z THEN 1 ELSE 0) + (IF at.m THEN 1 ELSE 0)

(* WriteVertexSequence, WriteRingSequence and the loops of SerializeGeoJson*)
(* are one loop, over elements of the kind of; written has those before.   *)
RECURSIVE ReadElements(_, _, _, _), ReadElement(_, _, _), SerializeGeoJson(_, _)

ReadList(text, of, at) ==
  IF TryMatch(text, "(") THEN ReadElements(Tail(text), of, at, <<>>) ELSE MakeError

ReadElements(text, of, at, written) ==
  LET e   == ReadElement(text, of, at)
      all == Append(written, e.out)
  IN  IF ~e.ok THEN MakeError
      ELSE IF TryMatch(e.rest, ",") THEN ReadElements(Tail(e.rest), of, at, all)
      ELSE IF TryMatch(e.rest, ")") THEN Read(Arr(all), Tail(e.rest))
      ELSE MakeError

ReadInParens(text, dims) ==
  LET v == WriteVertex(Tail(text), dims)
  IN  IF TryMatch(text, "(") /\ v.ok /\ TryMatch(v.rest, ")") THEN Read(v.out, Tail(v.rest))
      ELSE MakeError

(* The points of a MULTIPOINT may each be in parentheses.                  *)
ReadPoint(text, dims) ==
  LET inner == After(text, "(")
      p     == IF TryMatch(inner, "EMPTY") THEN Read(Null, Tail(inner)) ELSE WriteVertex(inner, dims)
  IN  IF ~TryMatch(text, "(") \/ ~p.ok THEN p
      ELSE IF TryMatch(p.rest, ")") THEN Read(p.out, Tail(p.rest)) ELSE MakeError

ReadElement(text, of, at) ==
  CASE of = "vertex"   -> WriteVertex(text, Dims(at))
    [] of = "ring"     -> ReadList(text, "vertex", at)
    [] of = "point"    -> ReadPoint(text, Dims(at))
    [] of = "geometry" -> SerializeGeoJson(text, [at EXCEPT !.depth = @ + 1])
    [] of \in {"line", "polygon"} ->
         IF TryMatch(text, "EMPTY") THEN Read(Arr(<<>>), Tail(text))
         ELSE ReadList(text, IF of = "line" THEN "vertex" ELSE "ring", at)

(* The parts of a collection have Z and M like the collection.             *)
SameDims(parent, at) == parent.depth = 0 \/ (parent.z = at.z /\ parent.m = at.m)

SerializeGeoJson(text, parent) ==
  LET start == AfterSrid(text)
      word  == start[1]
      z     == TryMatch(Tail(start), "Z")
      m     == TryMatch(After(Tail(start), "Z"), "M")
      body  == After(After(Tail(start), "Z"), "M")
      at    == [depth |-> parent.depth, z |-> z, m |-> m]
      coords == IF TryMatch(body, "EMPTY") THEN Read(Arr(<<>>), Tail(body))
                ELSE IF word = "POINT" THEN ReadInParens(body, Dims(at))
                ELSE ReadList(body, WktTypes[word].of, at)
      key   == IF word = "GEOMETRYCOLLECTION" THEN "geometries" ELSE "coordinates"
      object == [k \in {"type", key} |-> IF k = "type" THEN Text(WktTypes[word].name) ELSE coords.out]
  IN  IF \/ parent.depth = MaxDepth \/ start = <<>> \/ word \notin DOMAIN WktTypes
         \/ ~SameDims(parent, at) \/ ~coords.ok
      THEN MakeError
      ELSE Read(Obj(object), coords.rest)

(* text is what the value of "intersects" is as a string.                  *)
ParseGeometryAsGeoJson(text) == SerializeGeoJson(text, [depth |-> 0, z |-> FALSE, m |-> FALSE])
=============================================================================
