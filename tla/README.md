# Formal models of the DuckDB STAC extension

This directory holds TLA+ models of the extension, the TLC configurations that
check them on small instances, and TLAPS proofs of what holds for every
instance. Paths below are those of the repository; line numbers in
`PROJECT.json` say which code each definition stands for.

## 1. The system

The extension adds three table functions to DuckDB. `STAC_Read` returns the
items of a STAC catalog, which may be a tree of static JSON files or an HTTP
API with paged answers; `STAC_Search` posts search criteria to an API;
`STAC_Collections` lists collections.

| component | code | state it keeps | operations |
|---|---|---|---|
| STACReader, ItemReader | `stac_reader.cpp`, `stac_read_functions.cpp:47-305` | rows, row_count, the OFFSET countdown, number_matched, the ids of the Catalog and Collection being read, one slot for the next page (href, method, headers, body, merge), and the C++ call stack | ReadContentOfObject, ReadContentOfLinks, ReadNextPageOfResults |
| HTTP response cache | `http_request.cpp:493-606` | process-wide: a mutex and a map from request keys to responses with their time | ExecuteHttpRequest with a ttl: look up, fetch, store, prune |
| STAC_Read scan | `stac_read_functions.cpp:813-861` | the rows waiting in the reader, the output chunk | Execute |
| HTTP transport | `http_request.cpp:1-491`, `stac_reader.cpp:15-118` | none between calls | ExtractHttpSettings, ExecuteHttpRequest of the native and the Emscripten client, decompression, reading of files |
| SearchFilter | `search_filter.cpp`, `stac_read_functions.cpp:951-1026` | the criteria of one search | BindSearch, IsEmpty, AsQueryJson |
| JsonGeometry | `json_geometry.cpp` | none | GeoJSON to WKT for rows, WKT to GeoJSON for criteria |
| JsonObject | `json_object.cpp` | none | bbox, links, assets, extensions, values of properties |
| STAC_Read, STAC_Search planning | `stac_read_functions.cpp:522-702, 951-1026` | BindData: path, criteria, schema, filters, row_offset, row_limit | Bind, PushdownComplexFilter, Optimize, Init |
| CollectionReader, STAC_Collections | `stac_read_functions.cpp:308-511, 1112-1214` | rows, slot for the next page | Bind reads every page, Execute |
| ItemSchema | `stac_schema.cpp` | columns found in the first items, number_matched | ParseSchemaOfObject, ParseSchemaOfLinks |
| FilterEval | `filter_eval.cpp` | an expression executor and a one-row chunk | HasExpressions, Eval |
| types and casts, function builder, extension loading | the other files | none | conversions, registration |

How they interact. DuckDB binds the function: `Bind` fetches the first page
(through the cache, ttl 30 s) for the schema. The planner then calls
`PushdownComplexFilter`, which copies filters into the bind data, and
`Optimize`, which moves a constant LIMIT and OFFSET from the plan into the bind
data and removes them from the plan. `Init` creates an `ItemReader`, fetches the
first page again (through the cache) and lets the reader traverse it: each
"child", "item" or "items" link is fetched and read recursively. `Execute` is
called until it returns an empty chunk; it copies rows, erases what it copied
and asks the reader for the next page (ttl 0, past the cache). All reading is
sequential within a query; queries run on different threads and share only the
HTTP cache.

What is hard:

* **Concurrency**: check, fetch and store in the cache are three steps with two
  critical sections; any number of threads and the clock interleave.
* **Ordering and re-entrance**: the traversal is mutually recursive and works
  on members of the reader (countdown, count, ids, next-page slot) that every
  level reads and writes, and it may return early from any depth.
* **Boundaries**: OFFSET and LIMIT are consumed in several places and nothing
  above the scan corrects them; chunks end in the middle of pages.
* **Failure**: any request may fail, and a failure is an exception through all
  open calls.
* **Liveness**: pages and links come from a server that decides how long the
  scan goes on.

What makes each component correct:

* reader: exactly the items between OFFSET and LIMIT come out, in reading order
  and with the ids of the documents around them; a page request says what its
  link says; reading stops soon after the limit, and always stops on a finite
  acyclic catalog;
* cache: bounded size; an answer is the answer to the same request, and not
  older than promised; every call returns;
* scan: every row the reader produced is handed out once and in order, and the
  scan ends only when no page is left;
* planning: the rewritten plan returns what the original plan would have;
* schema: every column has a value of its type in each row, or NULL;
* search: the request carries exactly the criteria of the call, as JSON, and
  under each name the headers of the source that takes precedence;
* conversions: the WKT of a geometry denotes the geometry of the GeoJSON; what
  is cut, undecodable or malformed never becomes a row.

The hazards behind these are listed one by one, with their lines, under
`hazards` in `PROJECT.json`, together with the properties that cover them.

## 2. The models

### HttpCache

One process per thread, with a program counter: `StartRequest` enters the
cached `ExecuteHttpRequest`; `Bypass`, `Hit`, `Expire` and `Miss` are the
outcomes of the first critical section (lines 573-589); `Fetch` is the request
itself (591-592), which ends with a good or an error response; `Store` is the
second critical section with the pruning (595-603). `Tick` moves the steady
clock. A critical section is one step, because the mutex is held from its first
to its last access. `Pruned` gives every set of keys that pruning may leave,
since `begin()` of an unordered map is whichever entry it happens to be.

A response remembers the request that it answers and the time of the answer;
the code does not, but the properties are about them. The text of the key is
modelled as the tuple of its parts.

### ItemReader

The state is the members of `STACReader` and `ItemReader`. The recursion is an
explicit stack: a frame is a call of `ReadContentOfObject` that is looping over
`features` or `links`, with the document, the position and the id it will put
back. `callee` is the document about to be entered: one action per way in which
`ReadContentOfObject` may begin (limit reached, no type, Catalog, Collection,
FeatureCollection, the six ends of a Feature, any other type), one per step of
the two loops, and `ReadFirstPage`, `ReadNextPage`, `NoMorePages` for `Init` and
`ReadNextPageOfResults`. A throw ends the reader in status `failed`: no caller
in the reader catches it for good.

Documents are the constant `Doc`: functions from names to records with type,
id, features and links. A server is the constant `Serve`, from an href and a body to
a document; any request may fail instead. What is abstracted: the values in a
row (a row is the name of its item and its two context ids), the reasons for
which a Feature is refused (`valid`), the evaluation of a pushed filter
(`matches`, true as well when the filter throws, as `FilterEval::Eval` then
keeps the item), and relative hrefs, which are resolved in the constants.
`entries` is a history: what the pages list that were asked for so far.

`ItemReaderOrder` says what those lists are and what the rows have to do with
them. The reference, `Reading(n, at, i, cat, coll)`, is what a document lists
from one of its places on, with the context passed down as arguments, and
without a countdown, a count, a limit or a call stack. It is a constant with its
recursion equations as an assumption (`ReadingAssumption`), because the prover
loses its arithmetic in a module with a recursive operator; a catalog without a
cycle of links has exactly one such function, which `MCItemReader` computes by
recursion, and TLC checks that it satisfies the equations. The elements of
"features" are Features or objects that list nothing, since an OFFSET skips an
element without looking inside. `RowsInOrder` relates the rows to the entries.

`PagesInOrder` says that the pages behind the entries are those the next links
lead to. Its reference is a function of the slot in which the reader keeps the
next page (`Slot`: href and body, what decides about the answer):
`NextAfter(n, i, slot)` is the slot after the links of a document from the i-th
on, child documents included, and `LaterPages(slot)` what all pages from there
list. Both are constants with their recursion equations (`PagesAssumption`),
which `MCItemReader` meets for catalogs without a cycle of links or pages: it lists
the next links that a document leads to, and then the pages, one after the other.

### TableScan and ScanOutput

`TableScan` is what DuckDB relies on: a scan hands out the produced items in
order and each once, and reports exhaustion only when nothing is left and no
page will come. `ScanOutput` is `Execute` with its locals, chunk by chunk and
row by row, over a reader that brings any number of rows per page. The copying
loop stands twice in the code, before and inside the page loop; it is one set
of actions here. The refinement substitutes
`more <- pages > 0`, `produced <- read` and `emitted <- delivered`. `delivered`
is a history of the rows written to the chunks that were returned;
`cardinality` is what the code tells DuckDB of a chunk, which is one more when
the chunk is full (finding `scan_output_garbage`).

### CollectionReader

`STAC_Collections` from the first request to the last chunk. The traversal has
the form of ItemReader's, with what differs: only "child" links are followed,
an object without a type may be a listing, and the row of a Collection is made
before its links are read. There is no OFFSET and no LIMIT, because Bind creates
the reader with zeros. Bind reads all pages before Execute hands out any row;
`T == INSTANCE TableScan` says that the whole scan keeps the promise of a table
function. What else a next link carries than its href is in ItemReader.

The reference of `CollectionsInOrder` has the form of ItemReader's. What a part
of a catalog gives is a pair (`Part`): its rows, and the next page that it names
last, since all open calls share one slot for it. `Then` reads one part after
another; `Reading` is what a document gives from a place on, `Later` what the
pages from an href on list, both constants with their recursion equations.

### ScanPlanning

The planner hooks of `STAC_Read`, in the order in which DuckDB calls them:
filter pushdown (`FindScans`, `PushdownComplexFilter`), the column lists being
settled (`PruneColumns`, DuckDB's own step), `Optimize` once for each of its two
registrations, and `Init`. A plan is a function from node numbers to operators
with their children, each child with a greater number than its parent and one
parent only (`IsTree`), so that the rewriting of `Optimize` is a visit of nodes
(`todo`) and the meaning of a plan a recursive function. The operators that
matter are a LIMIT, what stops it (ORDER BY, AGGREGATE), what it passes
(PROJECTION, FILTER, UNION) and the scans.

DuckDB's own part is modelled from how the code relies on it and marked as
external: filters sit directly above a scan when they are pushed, columns
tested by a filter of the plan are kept, and `LIMIT 0` never reaches
`Optimize`. `SameResult` compares the meaning of the rewritten plan over what
the scans now give (`Scanned`: pushed filters, OFFSET, LIMIT) with the meaning of
the original plan over all items. A scan is taken to keep items in order as
ItemReader's `RowsInOrder` says.

### ItemSchema

Bind's pass over the catalog for the columns, with the ids as arguments of the
recursion and a frame for each open `ParseSchemaOfLinks`. The module ends with
the other half: how the reader puts the properties of any item into a row and
`ValueOf` finds them again under these columns. `iter` walks through the
properties of one Feature, one action per property; which items are sampled is
decided by the two ids joined with a slash, as in the code. JSON values have a kind and a
number; `IntWidth` stands for the 32 bits of INTEGER, scaled down.

`ValueUnderItsName` quantifies over every Feature, so it is also about rows of
a page that changed between Bind, which gave the columns, and Init.

`ColumnsOfFirstItems` compares the columns with a reference that keeps no state.
The constant `Samples(n, cat, coll)` is the sequence of items that document `n`
gives to the schema when it is read below these ids, and `SamplesBelow` the part
that its links give from one of them on; `SamplesAssumption` states their
recursion equations, and `MCItemSchema` defines both by recursion. Of these items
the first of each pair of joined ids counts (`Firsts`); the place of a property is
the number of its item and its number there, and the columns are the places at
which a key comes first (`FirstIn`), in the order `Before`.

### JsonGeometry

`JsonValue` has the shape of the JSON values that JsonGeometry and ItemFeature read.

Both directions of `json_geometry.cpp`. A WKT text is a sequence of tokens; a
JSON value is a pair of its kind and content; numbers are members of the
constant `Numerals`, and `Short` and `Fixed` say what a stream makes of one
with its default precision and with `setprecision(10)`. The three nested loops
over lists of `GeoJsonWriter` and `SerializeGeoJson` are one operator over the
kind of the elements (`ReadElements`). An exception is the token `Throw` in one
direction and a result that is not `ok` in the other.

### SearchFilter

`BindSearch`, `IsEmpty` and `AsQueryJson`. The body is a sequence of braces,
commas, keys and values; the criteria are folded into it one by one with the
flag `first_param` of the code, so that a comma too many or too few is visible.
Values are JSON or not: the code quotes or formats some itself and copies
filter, fields and sortby as they are. The text of a string is not modelled.

### HttpClient

The settings of a connection (`ExtractHttpSettings`), what the native client
sends under them (`WireRequests`) and what it makes of the answer
(`ResponseData`). `RequestHeaders` is a set of possible results because the
extra headers are an unordered map. DuckDB's `ParseHTTPProxyHost` and the HTTP
library are external: the first puts the default port where there is none, the
second is a multimap of headers that ignores case.

### ItemFeature

The fixed columns of a Feature: the fields it must have, its ids, geometry,
box, links, assets and extensions. The loops that skip invalid links, roles and
extensions are one function (`Kept`), a recursive one and not an operator, so that
theorems can be about it.

### SearchSession

The composition: a call is bound (`Bind`, `RefuseBbox`), its request is sent or
its file read (`SendRequest`, `RefuseRequest`, `ReadFile`), an answer comes
(`Answered`: any error, status or coding), the document is parsed
(`ReadFeature`, `RefuseDocument`) and Execute hands the row to DuckDB, which
casts the geometry if the query reads it (`Execute`). The reader that DuckDB
uses for that is the one `WktReader` says it copies. A file that tells its size
is read with one call, which may bring a part of it. Many documents and pages
are in ItemReader, the cache in HttpCache. What JsonGeometry makes of the
criterion `intersects` and of the geometry of a Feature are constants
(`GeometryAsGeoJson`, `GeometryAsWKT`), so that theorems about a session reach no
recursive operator; `MCSearchSession` gives them those of JsonGeometry.

`RowIffReadable` and `RowHoldsLinks` are about any document. Which geometries can
be written, and which texts DuckDB reads, `RowIffReadable` takes from the code:
it says that what is cut, refused or not decoded gives no row and that nothing
else is lost on the way, not that the code accepts every valid geometry (it
refuses a GeometryCollection, and writes a Polygon without rings as a text that
DuckDB does not read). Which documents of the instance are complete Features,
and whose geometry DuckDB reads, is written down by hand in `MCSearchSession` and
compared with what the code makes of them (`DocumentsAreTold`), as are the
geometries of a search (`IntersectsIsRead`).

The reader keeps the headers of a next link in a map that tells the case of a
name apart (`http_request.hpp:30`), and the request puts all of them into the
multimap, which does not. A next link that spells a name in two ways has both
sent, and so has one that merges with an earlier link. `HeaderPrecedence` says
so: under a name go all headers of the link, else one of the secret, else the
user agent. The instance has such a link (`TwoSpellings`).

## 3. What the runs check

| run | instance | shows |
|---|---|---|
| `http_cache` | 2 threads, 2 searches, one of them also spelled "post", a PUT, ttl 0 and 1, one entry, latency 1, clock to 3 | type, `CacheBounded`, `AnswersSameRequest`, `FreshEnough` |
| `item_reader` | a tree of depth 4, a search of five pages, a .json Catalog with two listings, malformed catalogs; offsets 0-4 and 9, limits 0-7, with and without filters | type, `LimitRespected`, `OneFetchPastLimit`, `ContextFollowsStack`, `RequestFollowsLink`, `RowsInOrder`, `PagesInOrder`, `Terminates` |
| `item_reader_search` | a search of a .json Catalog with two listings of two pages | violation: criteria dropped, one listing paged, a merging link sent without the search |
| `scan_output` | chunks of 3 slots, pages of 0 to 6 rows, up to 3 more pages | type, `NoRowLostOrRepeated`, `ImplementsTableScan`, `ScanEnds` |
| `scan_output_garbage` | the same | violation: a full chunk counts an unwritten slot |
| `scan_planning` | chains of up to 3 operators over 6 items, unions of two scans, 6 column lists of 2 columns | type, `SameResult`, `PlanningSucceeds` |
| `collections` | a static tree, an API of 4 pages, malformed catalogs, chunks of 2 | type, `CollectionsInOrder`, `ImplementsTableScan`, `Terminates` |
| `item_schema` | catalogs of up to four levels, listings, malformed ones | type, `ValueUnderItsName`, `ColumnsOfFirstItems`, `Terminates` |
| `item_schema_numbers` | a listing whose second item has other numbers | violation: numbers are truncated and rounded |
| `search_session` | every parameter with several values and any two together, 12 geometries as criteria, clashing headers, next links, files, errors and codings, 25 documents | type, `CriteriaAreSent`, `HeaderPrecedence`, `RowIffReadable`, `RowHoldsGeometry`, `RowHoldsLinks` |
| `row_denotes_feature` | a file with one Feature | violation: an integer coordinate becomes 0, digits are cut, a box of six numbers is misread |
| `request_as_asked` | a CQL2 text filter through a proxy with a port | violation: the body is no JSON, the port is lost |

Bounds, and why they are enough.

* Cache: two threads make every pair of critical sections race; with one entry
  and two keys every store competes for the room, and the second spelling of
  one search makes two requests share a key. With ttl 1 and the clock going to
  3 an entry is fresh, at its limit and expired; ttl 0 calls bypass the cache
  beside the others. `Latency` bounds the time an answer travels, without which
  no age could be promised; `MaxNow` only stops the clock. The proofs remove
  the bounds on threads, requests, entries and latency.
* Reader: the tree has every type of document, a Catalog without an id, a
  Collection that overrides and an item that names its own collection, a
  `features` array with an element that is not an object, links that are not
  objects or have no href. The offsets and limits go past the number of items,
  so that each boundary falls before, inside and after every document. The search has a page with own
  headers and body, one that resets them, one that merges headers, one that
  merges without a body, and an empty page.
* Scan: with chunks of three slots (two usable rows) pages of up to six rows are empty, shorter,
  equal to and several times a chunk, and cut at every position.
* Planning: a chain of two operators has every pair of a LIMIT with what may
  stand below and above it, one of three a LIMIT on each side of something;
  unions give a query two scans with bind data of their own. Limits and offsets
  are smaller than, equal to and greater than each other, and reach the number
  of items that pass the filters; the tests of the six items disagree, say null and throw. The column lists drop, swap,
  repeat and keep columns.
* Collections: the pages hold rows for more than two chunks, one page is empty,
  next links stand in the pages and in Collections inside them, so that the
  last one read wins, and a failure may come at any request.
* Session: scenarios vary one or two things at a time, since parameters,
  connection and document meet only in the request and the row. Any two
  parameters make every criterion first, last and alone in the body. Geometries
  have every type, empty parts, Z and M, and one is a level deeper than
  `MaxDepth`; documents lack each kind of field or have it with another type.
  The numerals are whole, fractional, negative, longer than six digits and
  longer than ten places.
* Schema: items of one pair of ids are met on several ways, keys come twice in an item, in
  other items with another type, and in another order.

Fairness. The readers, the schema pass and `Execute` are sequential code that
DuckDB calls until the scan is exhausted, so weak fairness of their next step
is what the code has; no property of the cache or of the planner needs any. `Terminates` needs acyclic
catalogs, as the code does. The reader, the scan and a session really stop, hence
`CHECK_DEADLOCK FALSE` in their configurations.

Every property of a passing run has a mutant in `PROJECT.json`: a plausible bug
in one definition under which TLC finds the property violated. The definitions
of these bugs stand before the ones they replace (`Pruned` and
`PrunedWithoutEviction`, for example) and are used nowhere else.

Disagreements between the code and its documentation, each with a run, are
under `findings` in `PROJECT.json`. A run may show several: TLC stops at a
state in which the stated property fails, and each finding says which part of
that state is its own. `RowHoldsGeometry` and `RowHoldsLinks` of the passing run
state what holds beside the findings: rows are right for coordinates with a
decimal point, up to six digits. More were met that have no run: the key of the
cache leaves out the settings of the connection, although
`http_request.cpp:523` calls it unique; the setting `http_request_cache` is read
and not consulted; the timeout of the setting is overridden
(`stac_reader.cpp:21`); a GeometryCollection, which has no coordinates, is refused
for want of them (`json_geometry.cpp:412`), and the query with it; a next link
that spells one header in two ways, or merges with one that spells it in
another, has both sent (`stac_reader.cpp:196`, `http_request.cpp:406`), while of two
spellings in the secret one is sent;
`Optimize` is registered for STAC_Search (line 1088, "Register optimizer
extension for LIMIT pushdown") but pushes into `stac_read` only (line 737), and
properties that only later items have are not columns although
`stac_schema.hpp:23` says "All the column names".

## 4. What is proved

The modules whose names end in `Proofs` are checked by TLAPS. They assume only
the named assumptions on the constants (`CacheAssumption`, `ReaderAssumption`,
`CollectionAssumption`, `PlanningAssumption`, `ScanAssumption`,
`SchemaAssumption`, `ClientAssumption`, `SessionAssumption`, and for the
references of the readers and of the schema a `ReadingAssumption` each,
`PagesAssumption` and `SamplesAssumption`), which TLC evaluates in the runs.

Two remarks on the method. An induction over data, such as the nodes of a plan,
is done with the theorem that finite subsets are well-founded
(`FS_StrictSubsetOrderingWellFounded`): a counterexample would have a smallest
one. A recursive function is unfolded by proving that a function with its
equation exists.

HttpCache, for any threads, requests, ttls, latency and number of entries:

* `TypeCorrect`. `TypeInv` adds to the types that a call under way has a
  request and that a thread about to store or return has an answer.
* `CacheIsBounded`. Inductive with the finiteness of the entries; the argument
  is in `StoreKeepsSize`: pruning leaves fewer than MaxEntries keys, or the
  cache was not full, and a store adds at most one.
* `AnswersMatch`. Needs that each entry sits under the key of the request it
  answers, and that equal keys mean equal url, method, body and headers.
* `AnswersAreFresh`. Needs that an entry's answer is at most Latency older than
  its `created_at`, which holds because time does not pass a thread that is
  about to store by more; `HitIsFresh` adds up latency, ttl and call time.

ItemReader, for every set of documents, including cyclic and malformed ones,
every server, offset and limit:

* `TypeCorrect`, one lemma per group of variables. It includes that the OFFSET
  countdown stays between 0 and OFFSET, where the unsigned counter of the code
  would wrap.
* `LimitIsRespected`. Needs that `row_count` is the number of rows.
* `OneRequestPastLimit`. `LimitReached` never becomes false again; the
  invariant says that after the request past the limit there is no open call
  and no next page, so that nothing but refusing its document remains.
* `RequestsFollowLinks`. The slot of the next page agrees with the link it was
  last filled from, unless that link merges.
* `ContextIsRestored`. The ids alone are not inductive: returning needs that
  every open call saved the id that was in force below it, and that only
  listings, which saved nothing, may return from the loop over features
  (`SavedIsOuter`).
* `RowsComeInOrder` (in `ItemReaderOrderProofs`), for every catalog that has a
  `Reading`, and every OFFSET and LIMIT, with and without pushed filters. The
  invariant (`OrderInv`) names the number of entries read so far, p: the open
  calls unwind into scopes, each with the context of one call and what it and
  the calls below have yet to list, and the entries after p are what the callee
  and the innermost scope list; the countdown is OFFSET less the counted
  entries up to p, and never below zero; the rows are the entries up to p that
  are due. Each step lemma says how many entries a step moves p by, a skip of
  the features in one jump included.
* `PagesComeInOrder` (there too), for every catalog that also has a `NextAfter`
  and `LaterPages`. The slot alone is not inductive: in the middle of a traversal
  it is neither the one the page began with nor the one it ends with. The
  invariant (`PageInv`) lets the open calls wind up from the innermost to the
  outermost (`Winds`), each taking the slot from what the calls inside leave to
  what is left after its own remaining links; the entries so far and the pages
  behind the slot at the end of this winding are all pages (`PagesAhead`). A link
  read is the first step of the winding, a return drops its inner end. Once the
  limit is reached the reader throws the slot away (`NoPageAfterLimit`), and the
  pages so far are the first of all.

CollectionReader, for every set of documents and every size of a chunk, cyclic
catalogs included but for the last theorem:

* `TypeCorrect`. Needs that a call looping over listed objects was made for an
  object that has such a list (`CallFrame`).
* `CollectionsRefineTableScan`. Every step while Bind reads is a Produce of
  TableScan or a stutter, a chunk with rows is an Emit and an empty one the
  Exhaust; the invariant is that `current_idx` counts the rows handed out.
* `CollectionsComeInOrder`, for every catalog that has a `Reading` and a
  `Later`. `Then(Sofar, Then(GivenByCallee, left))`, where `left` is what the
  open calls have yet to give, and all pages after it, is what the query lists,
  from the first request until Bind returns: each step moves a part of it to the
  left (`Takes`), and the laws of `Then` (it is associative and has a neutral
  part) do the rest. A failed request leaves the first of these rows.

ScanPlanning, for every plan, any number of registrations and any column lists:

* `FiltersFindTheirColumns`. A copy tests what a filter of the plan tests
  (`Copied`) and what a filter of the plan tests is among the columns of the
  scan (`Kept`). The first needs that a reference is translated through the
  column list of the moment, the second that DuckDB keeps the columns of
  filters it finds in the plan, which is why the code must leave them there;
  `Optimize` changes neither, since it rewrites limits only (`SameFilters`).
* `PlanningTyped`. Optimize keeps the plan a tree, and what it puts into a scan
  is a constant LIMIT and OFFSET of the query.
* `PushdownPreservesResult`: the rewritten plan returns what the query says. The
  invariant (`ResultInv`) says of every node that it is the query's or one whose
  limit was moved (`Pushed`), of every scan that its copies are all filters above
  it or none, and that its limit is its parent's. The argument goes down the
  numbers of the nodes: only a scan that was touched gives something else than
  before, and then the node above it gives the same, because a LIMIT in the scan
  is the LIMIT above it, and filtering twice is filtering once (an item that the
  copies refuse is refused above as well). It needs that a scan has one parent.

ScanOutput, for every size of a chunk and any pages:

* `TypeCorrect`, which says that no slot outside the chunk is written.
* `RowsAreKept`. What was returned, the written slots of the chunk and the rest
  of the pending rows are, one after the other, the rows read. The invariant
  (`Placed`) says of every place which row it holds, counted from the first row
  delivered and from the last one pending, and that the counts add up.
* `ScanRefinesTableScan`. A page is a Produce of TableScan, a returned chunk an
  Emit or a stutter, the empty chunk at the end the Exhaust; that nothing is
  left then follows from `RowsAreKept`.

ItemSchema, for every catalog, cyclic and malformed ones included but for the
last theorem:

* `TypeCorrect`. Every frame keeps its count of items at one at most.
* `ValuesUnderTheirNames`. The index of a key and the name of a column are each
  other's inverse (`Indexed`), kept by the one action that adds a column
  (`AddColumnKeeps`, `ColumnSteps`). A row is then read with the same inverse.
* `ColumnsComeFromFirstItems`, for every catalog that has `Samples`. The invariant
  (`Taken`) splits the items expected into those taken so far, what the call about
  to be made gives and what the open calls have yet to give (`Waiting`); the
  recorded pairs are those of the items taken; and the columns are those of the
  places read so far (`UpTo`), which while the properties of an item are read end
  before `iter`. A step over documents or links moves a part of the expected items
  to the left (`Passes`), a known pair adds no place (`KnownAddsNothing`), a new
  one adds its own, behind all others (`NewAddsItsOwn`), and reading a property
  adds one place: its key has a column already (`KnownKey`) or gets the last one
  (`NewKey`).

SearchSession with SearchFilter and HttpClient (in `SearchSessionProofs`), for
all parameters, answers, headers and settings:

* `SessionTyped`. A box that was not refused has its bounds in order.
* `EmptyIffNothingIsWritten`: the list of tests in `IsEmpty` and the list of
  criteria in `AsQueryJson` agree.
* `SearchSendsItsCriteria`: the body has a member for each criterion given and
  no other, with commas between members and nowhere else. `AsQueryJson` is a fold
  of ten criteria; the proof follows the bodies after each of them (`Written`)
  with the invariant that the flag `first_param` is true exactly until the first
  criterion is written (`Lists`, `OnceEach`).
* `HeadersTakePrecedence`: under each name, in whatever spelling, go the headers
  of the caller and no other, where there are any; else one of the extra headers,
  whichever spelling is met first; else the user agent, once.
* `SessionHeadersTakePrecedence`: the same for every session, whose headers are
  those of the next link, in any spellings. The headers of the secret are the
  first entry of each name in its MAP (`FirstOfEach`), and precedence over the
  whole MAP follows from precedence over these.
* `RowOfWholeDocuments`, for any documents and answers and whatever the two
  directions of JsonGeometry make of a geometry. The invariant (`RowInv`) says how
  far a document came, and of a failure at which of three points: no text,
  a refused answer, or a text that gives no row. `ParsedIsDocument` is the step
  from the text to the document: what is parsed is the document if it came whole,
  and no JSON in every other case, since what is cut or stays encoded does not
  parse.
* `RowKeepsValidLinks`, for any document whose arrays are sequences
  (`SessionAssumption`). The lemma behind it is `KeptSays`: a loop that skips
  elements keeps those at the good places, as many as there are of them, the one
  at place i where the count of good places up to i says.

Only model-checked: liveness and everything else that is about ENABLED (out of
the prover's reach), and `RowHoldsGeometry` of SearchSession. It says that the
reader of WKT gives back what its writer wrote, which is an induction over nested
lists of any depth through the recursive operators of JsonGeometry; TLC checks it
for a geometry of every type.

## 5. What is not modelled

* The Emscripten client (`http_request.cpp:289-359`). It sends no headers and no
  body and ignores the content type; it is built for another platform and its
  transport is a script.
* Cookies and the list of response headers: they are collected in
  `HttpResponseData` and no code of the reader uses them.
* The wording of errors, and that the message of an error answer is taken from
  its body only when its content type is exactly `application/json`.
* The text of strings, quotes in them, and the spelling of keys; logging.
* The descriptive objects of a Collection (extent, providers, summaries), the
  struct types and the casts between them: they keep no state.
* The function builder and the registration of functions with their
  documentation: it runs once, at load time, in one thread.
* The hooks of STAC_Read that only report: progress, estimated cardinality, the
  text of a plan. Progress is computed from a count that is read with 32 bits.
* Catalogs whose links or pages form a cycle: the code has no guard against
  them and does not end. The safety theorems hold for them as well, but for those
  about a reference (`ReadingAssumption`, `PagesAssumption`, `SamplesAssumption`),
  since such a catalog lists no finite sequence.
* Filters that give another answer each time (`random()`): the code evaluates a
  filter on the item and DuckDB once more on the row; ScanPlanning takes both
  answers to be the same.
* `LIMIT 0`, which the code would push as no limit: DuckDB replaces it before
  `Optimize`. Plans that are bound once and optimized again.
* Columns with equal names (a property called `id`): DuckDB compares names, in
  Bind, outside of this code.
