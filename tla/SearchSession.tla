---------------------------- MODULE SearchSession ----------------------------
(***************************************************************************)
(* One request of STAC_Read or STAC_Search and the row it yields: the      *)
(* parameters of the call become criteria and a request, the request goes  *)
(* through the settings of the connection, the answer or the file is       *)
(* decoded and parsed, and a Feature becomes a row that DuckDB accepts or  *)
(* not.  Many requests and many items are in ItemReader, the cache between *)
(* the request and the connection in HttpCache.                            *)
(***************************************************************************)
EXTENDS SearchFilter, HttpClient, ItemFeature, FiniteSets

CONSTANTS
  GeometryAsGeoJson(_), \* ParseGeometryAsGeoJson of JsonGeometry
  Scenarios,  \* calls: path, parameters, connection, a next link or Unset, and
              \* whether the query reads the geometry
  Answers,    \* what a server may answer
  Documents   \* name of a document -> its JSON, or NotJson

(* A text that is not JSON.                                                *)
NotJson == <<"garbage">>

(* DuckDB gives a parameter a value of its type, and the headers of a      *)
(* secret as the entries of a MAP.  A server sends one of the documents,   *)
(* and the parser gives an array as the sequence of its elements.          *)
ASSUME SessionAssumption ==
  /\ Unset \notin Int /\ Unset # "" /\ Unset # <<>> /\ Unset \notin Answers
  /\ Unset \notin [x_min : Int, y_min : Int, x_max : Int, y_max : Int]
  /\ \A s \in Scenarios :
       /\ s.params.max_items \in Int \cup {Unset}
       /\ s.params.bbox \in Seq(Int) \cup {Unset}
       /\ s.secret.extra_http_headers \in Seq(STRING \X STRING)
  /\ \A a \in Answers :
       /\ a.body \in [coding : STRING, sound : BOOLEAN, ratio : Nat, doc : STRING]
       /\ a.error = "" => a.body.doc \in DOMAIN Documents
  /\ \A d \in DOMAIN Documents :
       Documents[d] # NotJson =>
         \A field \in DOMAIN Documents[d][2] :
           LET value == Documents[d][2][field]
           IN  Is("arr", value) => value[2] \in Seq(Range(value[2]))

VARIABLES
  scenario,
  filter,     \* the SearchFilter, once it is bound
  wire,       \* the request as it is sent, or Unset
  answer,     \* what came back for it, or Unset
  content,    \* the text to parse, or Unset
  row,        \* the row, or Unset
  phase

vars == <<scenario, filter, wire, answer, content, row, phase>>

Init ==
  /\ scenario \in Scenarios
  /\ filter = Unset /\ wire = Unset /\ answer = Unset /\ content = Unset /\ row = Unset
  /\ phase = "bind"

Fail == phase' = "failed"

(***************************************************************************)
(* BindSearch.                                                             *)
(***************************************************************************)
Bind ==
  /\ phase = "bind" /\ ~BindThrows(scenario.params)
  /\ filter' = BindSearch(scenario.params)
  /\ phase' = "open"
  /\ UNCHANGED <<scenario, wire, answer, content, row>>

RefuseBbox ==
  /\ phase = "bind" /\ BindThrows(scenario.params)
  /\ Fail
  /\ UNCHANGED <<scenario, filter, wire, answer, content, row>>

(***************************************************************************)
(* ReadContentOfCatalog, or ReadNextPageOfResults for a next link.         *)
(***************************************************************************)
IsStaticCatalog == scenario.link = Unset /\ scenario.static

(* A file that tells its size is read with one call, which may return less.*)
ReadFile ==
  /\ phase = "open" /\ IsStaticCatalog
  /\ \E d \in DOMAIN Documents, whole \in BOOLEAN :
       /\ ~scenario.sized => whole
       /\ content' = [NoBody EXCEPT !.sound = whole, !.doc = d]
  /\ phase' = "read"
  /\ UNCHANGED <<scenario, filter, wire, answer, row>>

Intersects == GeometryAsGeoJson(filter.intersects)

RequestThrows ==
  /\ scenario.link = Unset /\ ~IsStaticCatalog
  /\ filter.intersects # Unset /\ ~Intersects.ok

NoHeaders == [n \in {} |-> ""]

Request ==
  IF scenario.link # Unset THEN scenario.link
  ELSE IF IsEmpty(filter) THEN [method |-> "GET", headers |-> NoHeaders, body |-> <<>>]
  ELSE [method |-> "POST", headers |-> NoHeaders,
        body |-> AsQueryJson(filter, IF filter.intersects = Unset THEN Unset ELSE Intersects.out)]

(* ParseUrl refuses a URL without a scheme.                                *)
SendRequest ==
  /\ phase = "open" /\ ~IsStaticCatalog /\ ~RequestThrows /\ scenario.url.scheme
  /\ wire' \in WireRequests(ReaderSettings(scenario.config, scenario.secret), scenario.url,
                            Request.method, Request.headers, Request.body, "application/json")
  /\ phase' = "sent"
  /\ UNCHANGED <<scenario, filter, answer, content, row>>

RefuseRequest ==
  /\ phase = "open" /\ ~IsStaticCatalog /\ (RequestThrows \/ ~scenario.url.scheme)
  /\ Fail
  /\ UNCHANGED <<scenario, filter, wire, answer, content, row>>

Answered ==
  /\ phase = "sent"
  /\ answer' \in Answers
  /\ IF Refused(ResponseData(answer'))
     THEN Fail /\ UNCHANGED content
     ELSE content' = ResponseData(answer').body /\ phase' = "read"
  /\ UNCHANGED <<scenario, filter, wire, row>>

(***************************************************************************)
(* ReadContentOfObject, for a document that is a Feature.                  *)
(***************************************************************************)
Parsed == IF content.coding = "plain" /\ content.sound THEN Documents[content.doc] ELSE NotJson

IsRead == Parsed # NotJson /\ ~FeatureThrows(Parsed)

ReadFeature ==
  /\ phase = "read" /\ IsRead
  /\ row' = FixedColumns(Parsed, [catalog |-> "", collection |-> ""])
  /\ phase' = "execute"
  /\ UNCHANGED <<scenario, filter, wire, answer, content>>

RefuseDocument ==
  /\ phase = "read" /\ ~IsRead
  /\ Fail
  /\ UNCHANGED <<scenario, filter, wire, answer, content, row>>

(***************************************************************************)
(* Execute sets the cells of the columns that the query reads; DuckDB      *)
(* casts the text of the geometry to GEOMETRY with the reader that         *)
(* WktReader is a copy of.                                                 *)
(***************************************************************************)
Castable(text) == GeometryAsGeoJson(text).ok

Execute ==
  /\ phase = "execute"
  /\ IF scenario.reads_geometry => Castable(row.geometry)
     THEN phase' = "row" /\ UNCHANGED row
     ELSE Fail /\ row' = Unset
  /\ UNCHANGED <<scenario, filter, wire, answer, content>>

Next ==
  \/ Bind \/ RefuseBbox
  \/ ReadFile \/ SendRequest \/ RefuseRequest \/ Answered
  \/ ReadFeature \/ RefuseDocument \/ Execute

Spec == Init /\ [][Next]_vars

(***************************************************************************)
(* Properties.                                                             *)
(***************************************************************************)
(* Every step finds what it uses: a filter with a number of items and a    *)
(* box whose bounds are in order, an answer of the server, a document.     *)
TypeOK ==
  /\ scenario \in Scenarios
  /\ phase \in {"bind", "open", "sent", "read", "execute", "row", "failed"}
  /\ phase \notin {"bind", "failed"} =>
       /\ filter.max_items \in Nat
       /\ filter.bbox # Unset =>
            filter.bbox.x_min <= filter.bbox.x_max /\ filter.bbox.y_min <= filter.bbox.y_max
  /\ wire # Unset => wire.method \in {"get", "head", "delete", "post", "put", "patch"}
  /\ answer # Unset => answer \in Answers
  /\ phase \in {"execute", "row"} => IsRead

(* What the parameters ask of the server, as keys and JSON values.         *)
Asked(params) ==
  LET list(n) == IF OrElse(params[n], <<>>) = <<>> THEN {} ELSE {<<n, Quoted(params[n])>>}
      text(n) == IF params[n] = Unset THEN {} ELSE {<<n, params[n]>>}
      box     == Extent(params.bbox)
      shape   == GeometryAsGeoJson(params.intersects).out
      lang    == OrElse(params.filter_lang, "cql2-json")
  IN  list("collections") \cup list("ids")
      \cup text("filter") \cup text("fields") \cup text("sortby")
      \cup (IF OrElse(params.datetime, "") = "" THEN {} ELSE {<<"datetime", Quoted(params.datetime)>>})
      \cup (IF params.bbox = Unset THEN {} ELSE {<<"bbox", Quoted(box)>>})
      \cup (IF params.intersects = Unset THEN {} ELSE {<<"intersects", Quoted(shape)>>})
      \cup (IF params.filter = Unset THEN {} ELSE {<<"filter_lang", Quoted(lang)>>})
      \cup (IF params.max_items = Unset THEN {}
            ELSE IF params.max_items <= 0 THEN {} ELSE {<<"limit", Quoted(params.max_items)>>})

(* An object: a comma between any two members and nowhere else.            *)
IsObject(body) ==
  /\ Len(body) % 3 = 1 /\ body[1] = Open /\ body[Len(body)] = Close
  /\ \A i \in 2..(Len(body) - 1) :
       /\ i % 3 = 2 => body[i][1] = "key"
       /\ i % 3 = 0 => body[i][1] = "value"
       /\ i % 3 = 1 => body[i] = Comma
Members(body) ==
  {<<body[i][2], body[i + 1][2]>> : i \in {j \in DOMAIN body : body[j][1] = "key"}}

(* A search sends exactly the criteria it was given, each once, in an      *)
(* object that is well formed whichever of them come first and last; a     *)
(* call without criteria is a GET with no body.                            *)
CriteriaAreSent ==
  wire # Unset /\ scenario.link = Unset =>
    IF Asked(scenario.params) = {} THEN wire.method = "get" /\ wire.body = <<>>
    ELSE /\ wire.method = "post" /\ IsObject(wire.body)
         /\ Members(wire.body) = Asked(scenario.params)
         /\ 3 * Cardinality(Asked(scenario.params)) + 1 = Len(wire.body)

(* The headers of the next link are sent as the link says, two spellings   *)
(* of one name both; of those of the secret one, in any spelling, and only *)
(* where the link is silent; the user agent of the setting only where both *)
(* are.                                                                    *)
HeaderPrecedence ==
  wire # Unset =>
    TakesPrecedence(wire.headers,
                    IF scenario.link = Unset THEN {} ELSE Pairs(scenario.link.headers),
                    Range(scenario.secret.extra_http_headers),
                    Nonempty(scenario.config.http_user_agent, DefaultUserAgent))

(* A whole document came back: read from the file to its end, or sent with *)
(* status 200 under a coding that this code undoes.  A zstd stream that    *)
(* does not state its size is given room for ten times its own.            *)
WholeDocument ==
  \/ answer = Unset /\ content.sound
  \/ /\ answer # Unset /\ answer.error = "" /\ answer.status = 200 /\ answer.body.sound
     /\ answer.body.coding \in {"plain", "gzip", "zstd", "zstd_stream"}
     /\ answer.body.coding = "zstd_stream" => answer.body.ratio <= 10

DocumentRead == IF answer = Unset THEN content.doc ELSE answer.body.doc
TheFeature   == Documents[DocumentRead][2]

(* A complete Feature, with a geometry that DuckDB accepts where the query *)
(* reads it.                                                               *)
HasRow(json) ==
  /\ json # NotJson
  /\ \A field \in DOMAIN Required : Is(Required[field], Get(json, field))
  /\ LET text == GeometryAsWKT(Get(json, "geometry"))
     IN  ~Throws(text) /\ (scenario.reads_geometry => Castable(text))

(* A row comes from nothing but a whole document with a complete Feature,  *)
(* whose geometry this code writes and DuckDB accepts where it is read,    *)
(* and every such document gives its row: no truncated file, error page or *)
(* undecoded body ends in a row, and no coding or stray link loses one.    *)
RowIffReadable ==
  phase \in {"row", "failed"} /\ (answer # Unset \/ content # Unset) =>
    (phase = "row" <=> WholeDocument /\ HasRow(Documents[DocumentRead]))

(* An invalid link, asset or extension costs the row nothing but itself:   *)
(* the others are there, in the order of the document.                     *)
RowHoldsLinks ==
  phase = "row" =>
    LET links == TheFeature.links[2]
        valid == {i \in DOMAIN links : IsLink(links[i])}
    IN  /\ Len(row.links) = Cardinality(valid)
        /\ \A i \in valid : row.links[Cardinality(valid \cap 1..i)].href = links[i][2].href[2]
        /\ DOMAIN row.assets = {k \in DOMAIN TheFeature.assets[2] : IsAsset(TheFeature.assets[2][k])}
        /\ Range(row.extensions) = {e[2] : e \in {x \in Range(TheFeature.stac_extensions[2]) : Is("str", x)}}
=============================================================================
