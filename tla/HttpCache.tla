----------------------------- MODULE HttpCache -----------------------------
(***************************************************************************)
(* The process-wide cache of HTTP responses (src/stac/http_request.cpp).   *)
(*                                                                         *)
(* HttpRequest::ExecuteHttpRequest with a TTL runs on the thread of every  *)
(* query that reads a catalog over HTTP.  It takes the mutex to look the   *)
(* request up, releases it, talks to the server, and takes the mutex again *)
(* to store the answer: the two critical sections are atomic steps here,   *)
(* and everything between them interleaves with the other threads and with *)
(* the clock.                                                              *)
(***************************************************************************)
EXTENDS Integers, FiniteSets, Functions

CONSTANTS
  Caller,      \* the threads that execute HTTP requests
  Request,     \* the requests they make, see RequestShape
  Ttl,         \* the ttl_seconds they pass: 30 at bind, 0 for a next page
  MaxEntries,  \* HTTP_REQUEST_CACHE_MAX_ENTRIES
  Latency,     \* longest time from the server's answer to its arrival
  MaxNow,      \* the clock stops here (bound of the model only)
  NoCall, NoAnswer

(* What a request carries: the arguments of ExecuteHttpRequest, and the    *)
(* settings the thread extracted from its own connection and secrets.      *)
RequestShape(r) == DOMAIN r = {"url", "method", "headers", "body", "settings"}

ASSUME CacheAssumption ==
  /\ MaxEntries \in Nat \ {0}
  /\ Latency \in Nat
  /\ MaxNow \in Nat
  /\ Ttl \subseteq Nat
  /\ \A r \in Request : RequestShape(r)

VARIABLES
  now,      \* the steady clock, in seconds
  entries,  \* the cache: key -> [response, created_at]
  pc,       \* pc[c]: where thread c is in ExecuteHttpRequest
  call,     \* call[c]: its request, its ttl and when it was made
  answer    \* answer[c]: the response thread c holds

vars == <<now, entries, pc, call, answer>>

(***************************************************************************)
(* Requests and keys.                                                      *)
(***************************************************************************)
Upper(m) == CASE m \in {"GET", "get"}   -> "GET"
              [] m \in {"POST", "post"} -> "POST"
              [] OTHER                  -> m

IsCacheableHttpMethod(m) == Upper(m) \in {"GET", "POST"}

KeyWithoutBody(r) == <<r.url, Upper(r.method), r.headers>>

(* The key is the text of url, method, content type, body and sorted       *)
(* headers; the content type is the same in every call, and the settings   *)
(* are not part of the key.                                                *)
BuildHttpCacheKey(r) == <<r.url, Upper(r.method), r.body, r.headers>>

Key == {BuildHttpCacheKey(r) : r \in Request}

(***************************************************************************)
(* What the variables hold.  A response remembers, for the properties, the *)
(* request the server answered and when it answered.                       *)
(***************************************************************************)
Response == [req : Request, at : 0..MaxNow, ok : BOOLEAN]
Entry    == [response : Response, created_at : 0..MaxNow]
Call     == [req : Request, ttl : Ttl, at : 0..MaxNow]

TypeOK ==
  /\ now \in 0..MaxNow
  /\ DOMAIN entries \subseteq Key
  /\ entries \in [DOMAIN entries -> Entry]
  /\ pc \in [Caller -> {"idle", "lookup", "fetch", "store", "returned"}]
  /\ call \in [Caller -> Call \cup {NoCall}]
  /\ answer \in [Caller -> Response \cup {NoAnswer}]

Init ==
  /\ now = 0
  /\ entries = [k \in {} |-> NoAnswer]
  /\ pc = [c \in Caller |-> "idle"]
  /\ call = [c \in Caller |-> NoCall]
  /\ answer = [c \in Caller |-> NoAnswer]

Goto(c, label) == pc' = [pc EXCEPT ![c] = label]

UseCache(cl) == cl.ttl > 0 /\ IsCacheableHttpMethod(cl.req.method)

KeyOf(c) == BuildHttpCacheKey(call[c].req)

NeverExpired(k, ttl) == FALSE

Expired(k, ttl) == now - entries[k].created_at > ttl

(***************************************************************************)
(* ExecuteHttpRequest.                                                     *)
(***************************************************************************)
StartRequest(c) ==
  /\ pc[c] \in {"idle", "returned"}
  /\ \E r \in Request, t \in Ttl :
       call' = [call EXCEPT ![c] = [req |-> r, ttl |-> t, at |-> now]]
  /\ answer' = [answer EXCEPT ![c] = NoAnswer]
  /\ Goto(c, "lookup")
  /\ UNCHANGED <<now, entries>>

(* The request does not use the cache.                                     *)
Bypass(c) ==
  /\ pc[c] = "lookup" /\ ~UseCache(call[c])
  /\ Goto(c, "fetch")
  /\ UNCHANGED <<now, entries, call, answer>>

(* First critical section: a fresh entry answers the request...            *)
Hit(c) ==
  /\ pc[c] = "lookup" /\ UseCache(call[c])
  /\ KeyOf(c) \in DOMAIN entries
  /\ ~Expired(KeyOf(c), call[c].ttl)
  /\ answer' = [answer EXCEPT ![c] = entries[KeyOf(c)].response]
  /\ Goto(c, "returned")
  /\ UNCHANGED <<now, entries, call>>

(* ... an expired one is erased ...                                        *)
Expire(c) ==
  /\ pc[c] = "lookup" /\ UseCache(call[c])
  /\ KeyOf(c) \in DOMAIN entries
  /\ Expired(KeyOf(c), call[c].ttl)
  /\ entries' = Restrict(entries, DOMAIN entries \ {KeyOf(c)})
  /\ Goto(c, "fetch")
  /\ UNCHANGED <<now, call, answer>>

(* ... and with none there is nothing to do under the lock.                *)
Miss(c) ==
  /\ pc[c] = "lookup" /\ UseCache(call[c])
  /\ KeyOf(c) \notin DOMAIN entries
  /\ Goto(c, "fetch")
  /\ UNCHANGED <<now, entries, call, answer>>

(* The uncached ExecuteHttpRequest: the server answers with a page or an   *)
(* error status, or the transport fails; every outcome is a response.      *)
Fetch(c) ==
  /\ pc[c] = "fetch"
  /\ \E ok \in BOOLEAN :
       answer' = [answer EXCEPT ![c] = [req |-> call[c].req, at |-> now, ok |-> ok]]
  /\ Goto(c, IF UseCache(call[c]) THEN "store" ELSE "returned")
  /\ UNCHANGED <<now, entries, call>>

(* The key sets that pruning with this ttl may leave: expired entries go,  *)
(* and one more (whichever begin() is) if the cache is still full.         *)
PrunedWithoutEviction(ttl) == {{k \in DOMAIN entries : ~Expired(k, ttl)}}

Pruned(ttl) ==
  LET live == {k \in DOMAIN entries : ~Expired(k, ttl)}
  IN  IF Cardinality(live) >= MaxEntries
      THEN {live \ {k} : k \in live}
      ELSE {live}

StoreExpiryTime(c) ==
  /\ pc[c] = "store"
  /\ \E kept \in IF Cardinality(DOMAIN entries) >= MaxEntries
                 THEN Pruned(call[c].ttl) ELSE {DOMAIN entries} :
       entries' = [k \in kept \cup {KeyOf(c)} |->
                     IF k = KeyOf(c) THEN [response |-> answer[c], created_at |-> now + call[c].ttl]
                                     ELSE entries[k]]
  /\ Goto(c, "returned")
  /\ UNCHANGED <<now, call, answer>>

(* Second critical section: make room, then insert or overwrite.           *)
Store(c) ==
  /\ pc[c] = "store"
  /\ \E kept \in IF Cardinality(DOMAIN entries) >= MaxEntries
                 THEN Pruned(call[c].ttl) ELSE {DOMAIN entries} :
       entries' = [k \in kept \cup {KeyOf(c)} |->
                     IF k = KeyOf(c) THEN [response |-> answer[c], created_at |-> now]
                                     ELSE entries[k]]
  /\ Goto(c, "returned")
  /\ UNCHANGED <<now, call, answer>>

(* Time passes; an answer is on its way for at most Latency seconds.       *)
Tick ==
  /\ now < MaxNow
  /\ \A c \in Caller : pc[c] = "store" => now - answer[c].at < Latency
  /\ now' = now + 1
  /\ UNCHANGED <<entries, pc, call, answer>>

Step(c) ==
  Bypass(c) \/ Hit(c) \/ Expire(c) \/ Miss(c) \/ Fetch(c) \/ Store(c)

Next == Tick \/ \E c \in Caller : StartRequest(c) \/ Step(c)

Spec == Init /\ [][Next]_vars

(***************************************************************************)
(* Properties.                                                             *)
(***************************************************************************)
Returned(c) == pc[c] = "returned"

(* Whatever the threads do, the cache holds at most MaxEntries responses   *)
(* (HTTP_REQUEST_CACHE_MAX_ENTRIES prevents unbounded memory growth).      *)
CacheBounded == Cardinality(DOMAIN entries) <= MaxEntries

SameRequest(r, s) ==
  /\ r.url = s.url /\ r.body = s.body /\ r.headers = s.headers
  /\ Upper(r.method) = Upper(s.method)

(* A thread is only ever handed the answer to the request it made, even    *)
(* when another thread obtained it: same URL, method, headers and body.    *)
AnswersSameRequest ==
  \A c \in Caller : Returned(c) => SameRequest(answer[c].req, call[c].req)

(* A call that uses the cache gets an answer the server gave at most       *)
(* ttl + Latency before the call; a call that does not (a next page, read  *)
(* with ttl 0) gets one the server gave during the call.  Error responses  *)
(* are cached too, so this also bounds how long a failure is replayed.     *)
FreshEnough ==
  \A c \in Caller : Returned(c) =>
    answer[c].at >= call[c].at - IF UseCache(call[c]) THEN call[c].ttl + Latency ELSE 0
=============================================================================
