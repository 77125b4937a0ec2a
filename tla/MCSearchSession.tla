--------------------------- MODULE MCSearchSession ---------------------------
(***************************************************************************)
(* Calls, answers and documents for SearchSession, each varying one thing  *)
(* at a time, and what should become of them.                              *)
(***************************************************************************)
EXTENDS SearchSession, JsonGeometry

Digits == {"0", "1", "2", "10", "46.5", "-7.25", "12.3456789", "12.3457", "1.00000000004", "2.9", "4326"}
SixDigits == [n \in Digits |-> CASE n = "12.3456789" -> "12.3457" [] n = "1.00000000004" -> "1" [] OTHER -> n]
TenPlaces == [n \in Digits |-> IF n = "1.00000000004" THEN "1" ELSE n]

LowerNames ==
  ("GET" :> "get") @@ ("POST" :> "post") @@ ("HEAD" :> "head") @@ ("Accept" :> "accept") @@
  ("User-Agent" :> "user-agent") @@
  [n \in {"get", "post", "head", "delete", "put", "patch", "accept", "user-agent"} |-> n]

-----------------------------------------------------------------------------
(***************************************************************************)
(* Geometries: what DuckDB prints of them and the GeoJSON they are.        *)
(***************************************************************************)
At(x, y)         == Arr(<<Real(x), Real(y)>>)
Geo(type, coordinates) == Obj([type |-> Text(type), coordinates |-> coordinates])
Collection(geometries) == Obj([type |-> Text("GeometryCollection"), geometries |-> Arr(geometries)])

P  == <<"1", "46.5">>
L  == <<"(", "1", "46.5", ",", "-7.25", "1.00000000004", ",", "1", "46.5", ")">>
LJ == Arr(<<At("1", "46.5"), At("-7.25", "1"), At("1", "46.5")>>)

InWkt ==
  (<<"POINT">> \o Parens(P) :> Geo("Point", At("1", "46.5"))) @@
  (<<"POINT", "EMPTY">> :> Geo("Point", Arr(<<>>))) @@
  (<<"POINT", "Z">> \o Parens(P \o <<"10">>) :> Geo("Point", Arr(<<Real("1"), Real("46.5"), Real("10")>>))) @@
  (<<"POINT", "M">> \o Parens(P \o <<"2">>) :> Geo("Point", Arr(<<Real("1"), Real("46.5"), Real("2")>>))) @@
  (<<"LINESTRING">> \o L :> Geo("LineString", LJ)) @@
  (<<"POLYGON">> \o Parens(L \o <<",">> \o L) :> Geo("Polygon", Arr(<<LJ, LJ>>))) @@
  (<<"MULTIPOINT">> \o L :> Geo("MultiPoint", LJ)) @@
  (<<"MULTIPOINT">> \o Parens(Parens(P) \o <<",">> \o <<"EMPTY">>) :>
     Geo("MultiPoint", Arr(<<At("1", "46.5"), Null>>))) @@
  (<<"MULTILINESTRING">> \o Parens(L \o <<",">> \o <<"EMPTY">>) :>
     Geo("MultiLineString", Arr(<<LJ, Arr(<<>>)>>))) @@
  (<<"MULTIPOLYGON">> \o Parens(Parens(L) \o <<",">> \o <<"EMPTY">> \o <<",">> \o Parens(L)) :>
     Geo("MultiPolygon", Arr(<<Arr(<<LJ>>), Arr(<<>>), Arr(<<LJ>>)>>))) @@
  (<<"GEOMETRYCOLLECTION", "EMPTY">> :> Collection(<<>>)) @@
  (<<"GEOMETRYCOLLECTION", "Z">>
     \o Parens(<<"POINT", "Z">> \o Parens(P \o <<"10">>) \o <<",", "LINESTRING", "Z", "EMPTY">>) :>
     Collection(<<Geo("Point", Arr(<<Real("1"), Real("46.5"), Real("10")>>)), Geo("LineString", Arr(<<>>))>>))

(* One level deeper than MaxDepth.                                         *)
TooDeep == <<"GEOMETRYCOLLECTION">> \o Parens(<<"GEOMETRYCOLLECTION">> \o Parens(<<"POINT">> \o Parens(P)))

(* The reader makes of each text the geometry it stands for, whatever its  *)
(* type, the number of its dimensions and its empty parts, and refuses to  *)
(* go deeper than MaxDepth.                                                *)
ASSUME IntersectsIsRead ==
  /\ \A text \in DOMAIN InWkt : ParseGeometryAsGeoJson(text) = Read(InWkt[text], <<>>)
  /\ ~ParseGeometryAsGeoJson(TooDeep).ok

-----------------------------------------------------------------------------
(***************************************************************************)
(* Documents.                                                              *)
(***************************************************************************)
ALink(href, rel) == Obj([href |-> Text(href), rel |-> Text(rel)])
AnAsset(href)    == Obj([href |-> Text(href), roles |-> Arr(<<Text("data"), Null, Text("cog")>>)])
Box4             == Arr(<<Real("1"), Real("2"), Whole("10"), Real("46.5")>>)

Feature(geometry) ==
  [id |-> Text("i"), geometry |-> geometry, bbox |-> Box4, stac_version |-> Text("1.0.0"),
   stac_extensions |-> Arr(<<>>), links |-> Arr(<<>>), assets |-> Obj([thumb |-> AnAsset("t.png")]),
   properties |-> Obj([datetime |-> Null])]

Spot   == Geo("Point", At("12.3456789", "46.5"))
Line   == Arr(<<At("1", "2"), At("12.3456789", "46.5")>>)

Readable == [
  point      |-> Obj(Feature(Spot)),
  altitude   |-> Obj(Feature(Geo("Point", Arr(<<Real("1"), Real("2"), Real("10")>>)))),
  integers   |-> Obj(Feature(Geo("Point", Arr(<<Whole("10"), Real("2")>>)))),
  line       |-> Obj(Feature(Geo("LineString", Line))),
  area       |-> Obj(Feature(Geo("Polygon", Arr(<<Line, Line>>)))),
  points     |-> Obj(Feature(Geo("MultiPoint", Line))),
  lines      |-> Obj(Feature(Geo("MultiLineString", Arr(<<Line, Line>>)))),
  areas      |-> Obj(Feature(Geo("MultiPolygon", Arr(<<Arr(<<Line, Line>>), Arr(<<Line>>)>>)))),
  mixed      |-> Obj(Feature(Obj([type |-> Text("GeometryCollection"), coordinates |-> Arr(<<>>),
                                  geometries |-> Arr(<<Spot, Geo("LineString", Line)>>)]))),
  box6       |-> Obj([Feature(Spot) EXCEPT !.bbox =
                   Arr(<<Real("1"), Real("2"), Real("-7.25"), Real("10"), Real("46.5"), Real("2.9")>>)]),
  nobox      |-> Obj([Feature(Spot) EXCEPT !.bbox = Arr(<<Real("1"), Null, Real("10"), Real("46.5")>>)]),
  links      |-> Obj([Feature(Spot) EXCEPT
                   !.links = Arr(<<ALink("s", "self"), Obj([href |-> Text("x")]), Null, ALink("p", "parent")>>),
                   !.assets = Obj([thumb |-> Null, data |-> AnAsset("d.tif")]),
                   !.stac_extensions = Arr(<<Text("eo"), Whole("1"), Text("proj")>>)])]

Unreadable == [
  garbage    |-> NotJson,
  anonymous  |-> Obj([Feature(Spot) EXCEPT !.id = Whole("10")]),
  nowhere    |-> Obj([Feature(Spot) EXCEPT !.geometry = Null]),
  unboxed    |-> Obj([Feature(Spot) EXCEPT !.bbox = Missing]),
  bare       |-> Obj([Feature(Spot) EXCEPT !.assets = Missing]),
  short      |-> Obj(Feature(Geo("LineString", Arr(<<At("1", "2"), Arr(<<Real("1")>>)>>)))),
  text       |-> Obj(Feature(Geo("Point", Arr(<<Text("1"), Real("2")>>)))),
  emptyring  |-> Obj(Feature(Geo("Polygon", Arr(<<Line, Arr(<<>>)>>)))),
  circle     |-> Obj(Feature(Geo("Circle", At("1", "2")))),
  collection |-> Obj(Feature(Collection(<<Spot>>)))]

(* Geometries that this code writes and DuckDB does not read.              *)
Uncastable == [
  hollow     |-> Obj(Feature(Geo("Polygon", Arr(<<>>)))),
  nopoints   |-> Obj(Feature(Geo("MultiPoint", Arr(<<>>)))),
  patched    |-> Obj(Feature(Geo("MultiPolygon", Arr(<<Arr(<<Line>>), Arr(<<>>)>>))))]

AllDocuments == Readable @@ Unreadable @@ Uncastable

(* Which documents are complete Features, and whose geometry DuckDB reads, *)
(* whatever the reader of this code makes of them.                         *)
ASSUME DocumentsAreTold ==
  \A d \in DOMAIN AllDocuments :
    LET json == AllDocuments[d]
    IN  /\ d \in DOMAIN Unreadable <=> json = NotJson \/ FeatureThrows(json)
        /\ d \notin DOMAIN Unreadable =>
             (d \in DOMAIN Readable <=> Castable(ParseGeometryAsWKT(json[2].geometry)))

-----------------------------------------------------------------------------
(***************************************************************************)
(* Calls and answers.                                                      *)
(***************************************************************************)
NoParams == [n \in ParameterNames |-> Unset]
NoConfig == [http_timeout |-> 60, http_follow_redirects |-> TRUE, http_proxy |-> NoProxy,
             http_proxy_username |-> "", http_proxy_password |-> "", http_user_agent |-> ""]
NoSecret == [http_proxy |-> NoProxy, http_proxy_username |-> "", http_proxy_password |-> "",
             username |-> "", password |-> "", bearer_token |-> "", extra_http_headers |-> <<>>]

Call == [static |-> FALSE, sized |-> TRUE, url |-> [scheme |-> TRUE, host |-> "api", path |-> "/search"],
         params |-> NoParams, config |-> NoConfig, secret |-> NoSecret, link |-> Unset,
         reads_geometry |-> TRUE]

Json(v) == <<"json", v>>
Values == [
  collections |-> {<<>>, <<"K">>, <<"K", "M">>},
  ids         |-> {<<"i">>},
  datetime    |-> {"2024"},
  bbox        |-> {<<1, 2, 3, 4>>, <<3, 2, 1, 4>>, <<1, 2, 3>>, <<1, 2, 3, 4, 5, 6>>},
  intersects  |-> DOMAIN InWkt \cup {TooDeep},
  filter      |-> {Json("eo:cloud_cover")},
  filter_lang |-> {"cql2-json"},
  fields      |-> {Json("fields")},
  sortby      |-> {Json("sortby")},
  max_items   |-> {-1, 0, 5}]

OneParameter == UNION {{[NoParams EXCEPT ![n] = v] : v \in Values[n]} : n \in ParameterNames}
Typical == [
  collections |-> <<"K", "M">>, ids |-> <<"i">>, datetime |-> "2024", bbox |-> <<1, 2, 3, 4>>,
  intersects |-> <<"POINT">> \o Parens(P), filter |-> Json("eo:cloud_cover"),
  filter_lang |-> "cql2-json", fields |-> Json("fields"), sortby |-> Json("sortby"), max_items |-> 5]
TwoParameters ==
  {[NoParams EXCEPT ![n] = Typical[n], ![o] = Typical[o]] : n, o \in ParameterNames}

Extras == {<<>>, <<<<"Accept", "a">>>>, <<<<"Accept", "a">>, <<"accept", "b">>, <<"Accept", "c">>>>,
           <<<<"user-agent", "u">>, <<"Accept", "a">>>>}
(* The reader tells the case of a name apart.                              *)
TwoSpellings == ("Accept" :> "l") @@ ("accept" :> "m")
NextLinks == {[method |-> m, headers |-> h, body |-> <<>>] :
                m \in {"get", "HEAD"}, h \in {NoHeaders, [accept |-> "l"], TwoSpellings}}

Connections ==
  {[Call EXCEPT !.secret.extra_http_headers = e, !.link = l, !.config.http_user_agent = a] :
     e \in Extras, l \in NextLinks \cup {Unset}, a \in {"", "mine"}}

Calls ==
  {[Call EXCEPT !.params = p] : p \in OneParameter \cup TwoParameters}
  \cup Connections
  \cup {[Call EXCEPT !.static = TRUE, !.sized = s] : s \in BOOLEAN}
  \cup {[Call EXCEPT !.url.scheme = FALSE], [Call EXCEPT !.reads_geometry = FALSE]}

Body(coding, sound, ratio, doc) == [coding |-> coding, sound |-> sound, ratio |-> ratio, doc |-> doc]
Response(status, body) == [error |-> "", status |-> status, body |-> body]

Codings == {"plain", "gzip", "zstd", "zstd_stream"}
AnswerSet ==
  {Response(200, Body("plain", TRUE, 1, d)) : d \in DOMAIN AllDocuments}
  \cup {Response(200, Body(c, s, r, "point")) : c \in Codings, s \in BOOLEAN, r \in {3, 11}}
  \cup {Response(c, Body("plain", TRUE, 1, "point")) : c \in {201, 404}}
  \cup {[error |-> "timeout", status |-> 0, body |-> NoBody]}

-----------------------------------------------------------------------------
(***************************************************************************)
(* Properties.                                                             *)
(***************************************************************************)
(* A geometry in the plane, its numbers as they are written.               *)
RECURSIVE Planar(_, _)
Planar(json, written) ==
  IF ~Is("arr", json) THEN json
  ELSE IF json[2] # <<>> /\ IsNumber(json[2][1])
       THEN Arr([i \in 1..2 |-> Real(written[json[2][i][2]])])
       ELSE Arr([i \in DOMAIN json[2] |-> Planar(json[2][i], written)])

PlanarGeometry(json, written) ==
  LET planar(g) == Geo(g[2].type[2], Planar(g[2].coordinates, written))
  IN  IF Get(json, "geometries") = Missing THEN planar(json)
      ELSE Collection([i \in DOMAIN json[2].geometries[2] |-> planar(json[2].geometries[2][i])])

(* The text in the row is read back, by the reader of "intersects", as the *)
(* geometry of the Feature in the plane with six digits: same type, same   *)
(* nesting of rings and parts, same order of x and y.  Coordinates written *)
(* as integers are the exception (finding row_denotes_feature).            *)
RowHoldsGeometry ==
  phase = "row" /\ DocumentRead \in DOMAIN Readable \ {"integers"} =>
    ParseGeometryAsGeoJson(row.geometry).out = PlanarGeometry(TheFeature.geometry, Short)

-----------------------------------------------------------------------------
(***************************************************************************)
(* What the documents say and the code does not do.                        *)
(***************************************************************************)
Survey == [survey |-> Obj([Feature(Geo("Point", Arr(<<Whole("10"), Real("12.3456789")>>)))
             EXCEPT !.bbox = Arr(<<Real("1"), Real("2"), Real("-7.25"), Real("10"), Real("46.5"), Real("2.9")>>)])]
SurveyFile == {[Call EXCEPT !.static = TRUE]}

Corners(bbox) ==
  LET n == Len(bbox[2]) \div 2
  IN  <<GetNum(bbox[2][1]), GetNum(bbox[2][2]), GetNum(bbox[2][n + 1]), GetNum(bbox[2][n + 2])>>

(* "Parses a GeoJSON geometry object to its WKT representation" and        *)
(* "Parses a STAC bbox array to a DuckDB BoundingBox value": the geometry  *)
(* and the box of the row, in the plane, are those of the Feature.         *)
RowDenotesFeature ==
  phase = "row" =>
    /\ ParseGeometryAsGeoJson(row.geometry).out =
         PlanarGeometry(TheFeature.geometry, [n \in Digits |-> n])
    /\ row.bbox = Corners(TheFeature.bbox)

ProxiedTextSearch ==
  {[Call EXCEPT !.config.http_proxy = [host |-> "proxy", port |-> 3128],
                !.params.filter = <<"text", "eo:cloud_cover < 10">>,
                !.params.filter_lang = "cql2-text"]}

(* "Execute HTTP request with given settings" and a filter_lang that "can  *)
(* be either cql2-json or cql2-text": the request goes through the proxy   *)
(* of the setting, and its body is JSON.                                   *)
RequestSaysWhatWasAsked ==
  wire # Unset =>
    /\ wire.proxy = scenario.config.http_proxy
    /\ \A i \in DOMAIN wire.body : wire.body[i][1] = "value" => wire.body[i][2][1] = "json"
=============================================================================
