-------------------------- MODULE HttpCacheProofs --------------------------
(***************************************************************************)
(* What the cache of HTTP responses guarantees for any number of threads   *)
(* and requests, any capacity, any ttl and any interleaving.               *)
(***************************************************************************)
EXTENDS HttpCache, FiniteSetTheorems, TLAPS

(* Each action of a thread, for the case splits below.                     *)
LEMMA StepCases ==
  ASSUME [Next]_vars
  PROVE  \/ \E c \in Caller : StartRequest(c) \/ Bypass(c) \/ Hit(c) \/ Expire(c)
                                \/ Miss(c) \/ Fetch(c) \/ Store(c)
         \/ Tick \/ UNCHANGED vars
  BY DEF Next, Step

(***************************************************************************)
(* Type correctness.  Where a thread is says what it holds.                *)
(***************************************************************************)
Holds ==
  \A c \in Caller :
    /\ pc[c] # "idle" => call[c] \in Call
    /\ pc[c] \in {"store", "returned"} => answer[c] \in Response

TypeInv == TypeOK /\ Holds

(* The entries after a Store: the kept ones and the new one.               *)
LEMMA StoreEffect ==
  ASSUME NEW c \in Caller, Store(c)
  PROVE  \E kept \in SUBSET DOMAIN entries :
           /\ \/ kept = DOMAIN entries /\ ~(Cardinality(DOMAIN entries) >= MaxEntries)
              \/ kept \in Pruned(call[c].ttl)
           /\ DOMAIN entries' = kept \cup {KeyOf(c)}
           /\ \A k \in DOMAIN entries' :
                entries'[k] = IF k = KeyOf(c)
                              THEN [response |-> answer[c], created_at |-> now]
                              ELSE entries[k]
           /\ entries' = [k \in kept \cup {KeyOf(c)} |-> entries'[k]]
<1>1. PICK kept \in IF Cardinality(DOMAIN entries) >= MaxEntries
                    THEN Pruned(call[c].ttl) ELSE {DOMAIN entries} :
        entries' = [k \in kept \cup {KeyOf(c)} |->
                     IF k = KeyOf(c) THEN [response |-> answer[c], created_at |-> now]
                                     ELSE entries[k]]
  BY DEF Store
<1>2. \A s \in Pruned(call[c].ttl) : s \subseteq DOMAIN entries
  BY DEF Pruned
<1>3. kept \in SUBSET DOMAIN entries
  BY <1>1, <1>2
<1> QED
  BY <1>1, <1>3

(* An entry that is stored is well typed.                                  *)
LEMMA StoreTyped ==
  ASSUME TypeInv, NEW c \in Caller, Store(c)
  PROVE  DOMAIN entries' \subseteq Key /\ entries' \in [DOMAIN entries' -> Entry]
<1>1. PICK kept \in SUBSET DOMAIN entries :
        /\ DOMAIN entries' = kept \cup {KeyOf(c)}
        /\ \A k \in DOMAIN entries' :
             entries'[k] = IF k = KeyOf(c)
                           THEN [response |-> answer[c], created_at |-> now]
                           ELSE entries[k]
        /\ entries' = [k \in kept \cup {KeyOf(c)} |-> entries'[k]]
  BY StoreEffect
<1>2. call[c] \in Call /\ answer[c] \in Response /\ now \in 0..MaxNow
  BY DEF TypeInv, TypeOK, Holds, Store
<1>3. KeyOf(c) \in Key
  BY <1>2 DEF KeyOf, Key, Call
<1>4. [response |-> answer[c], created_at |-> now] \in Entry
  BY <1>2 DEF Entry
<1>5. \A k \in DOMAIN entries : entries[k] \in Entry /\ k \in Key
  BY DEF TypeInv, TypeOK
<1> QED
  BY <1>1, <1>3, <1>4, <1>5

(* A thread that waits for an answer knows its request, and one that       *)
(* stores or returns has an answer.                                        *)
LEMMA TypeInvariant == Spec => []TypeInv
<1>1. Init => TypeInv
  BY CacheAssumption DEF CacheAssumption, Init, TypeInv, TypeOK, Holds
<1>2. TypeInv /\ [Next]_vars => TypeInv'
  <2> SUFFICES ASSUME TypeInv, [Next]_vars PROVE TypeInv'
    OBVIOUS
  <2> USE CacheAssumption DEF CacheAssumption, TypeInv, TypeOK, Holds, Goto
  <2>1. ASSUME NEW c \in Caller, StartRequest(c) PROVE TypeInv'
    <3>1. PICK r \in Request, t \in Ttl :
            call' = [call EXCEPT ![c] = [req |-> r, ttl |-> t, at |-> now]]
      BY <2>1 DEF StartRequest
    <3>2. [req |-> r, ttl |-> t, at |-> now] \in Call
      BY <3>1 DEF Call
    <3> QED
      BY <2>1, <3>1, <3>2 DEF StartRequest
  <2>2. ASSUME NEW c \in Caller, Bypass(c) PROVE TypeInv'
    BY <2>2 DEF Bypass
  <2>3. ASSUME NEW c \in Caller, Hit(c) PROVE TypeInv'
    <3>1. entries[KeyOf(c)].response \in Response
      BY <2>3 DEF Hit, Entry
    <3> QED
      BY <2>3, <3>1 DEF Hit
  <2>4. ASSUME NEW c \in Caller, Expire(c) PROVE TypeInv'
    <3>1. /\ DOMAIN entries' \subseteq Key
          /\ entries' \in [DOMAIN entries' -> Entry]
      BY <2>4 DEF Expire, Restrict
    <3> QED
      BY <2>4, <3>1 DEF Expire
  <2>5. ASSUME NEW c \in Caller, Miss(c) PROVE TypeInv'
    BY <2>5 DEF Miss
  <2>6. ASSUME NEW c \in Caller, Fetch(c) PROVE TypeInv'
    <3>1. PICK ok \in BOOLEAN :
            answer' = [answer EXCEPT ![c] = [req |-> call[c].req, at |-> now, ok |-> ok]]
      BY <2>6 DEF Fetch
    <3>2. [req |-> call[c].req, at |-> now, ok |-> ok] \in Response
      BY <2>6 DEF Fetch, Call, Response
    <3> QED
      BY <2>6, <3>1, <3>2 DEF Fetch
  <2>7. ASSUME NEW c \in Caller, Store(c) PROVE TypeInv'
    <3>1. DOMAIN entries' \subseteq Key /\ entries' \in [DOMAIN entries' -> Entry]
      BY <2>7, StoreTyped
    <3> QED
      BY <2>7, <3>1 DEF Store
  <2>8. CASE Tick
    BY <2>8 DEF Tick
  <2>9. CASE UNCHANGED vars
    BY <2>9 DEF vars
  <2> QED
    BY <2>1, <2>2, <2>3, <2>4, <2>5, <2>6, <2>7, <2>8, <2>9, StepCases
<1> QED
  BY <1>1, <1>2, PTL DEF Spec

(* The variables keep their types.                                         *)
THEOREM TypeCorrect == Spec => []TypeOK
<1>1. TypeInv => TypeOK
  BY DEF TypeInv
<1> QED
  BY <1>1, TypeInvariant, PTL

(***************************************************************************)
(* The size of the cache.                                                  *)
(***************************************************************************)
SizeInv == IsFiniteSet(DOMAIN entries) /\ CacheBounded

(* Storing leaves room first: of a full cache at least one entry goes,     *)
(* whichever of the two ways of pruning it is that finds it.               *)
LEMMA StoreKeepsSize ==
  ASSUME TypeInv, SizeInv, NEW c \in Caller, Store(c)
  PROVE  SizeInv'
<1>1. PICK kept \in SUBSET DOMAIN entries :
        /\ \/ kept = DOMAIN entries /\ ~(Cardinality(DOMAIN entries) >= MaxEntries)
           \/ kept \in Pruned(call[c].ttl)
        /\ DOMAIN entries' = kept \cup {KeyOf(c)}
  BY StoreEffect
<1>2. IsFiniteSet(kept) /\ Cardinality(kept) <= Cardinality(DOMAIN entries)
  BY <1>1, FS_Subset DEF SizeInv
<1>3. Cardinality(kept) < MaxEntries
  <2>1. CASE kept = DOMAIN entries /\ ~(Cardinality(DOMAIN entries) >= MaxEntries)
    BY <2>1, <1>2, FS_CardinalityType, CacheAssumption DEF SizeInv, CacheAssumption
  <2>2. CASE kept \in Pruned(call[c].ttl)
    <3> DEFINE live == {k \in DOMAIN entries : ~Expired(k, call[c].ttl)}
    <3>1. IsFiniteSet(live) /\ Cardinality(live) \in Nat
      BY FS_Subset, FS_CardinalityType DEF SizeInv
    <3>2. Cardinality(live) <= Cardinality(DOMAIN entries)
      BY FS_Subset DEF SizeInv
    <3>3. CASE Cardinality(live) >= MaxEntries
      <4>1. PICK k \in live : kept = live \ {k}
        BY <2>2, <3>3 DEF Pruned
      <4>2. Cardinality(kept) = Cardinality(live) - 1
        BY <3>1, <4>1, FS_RemoveElement
      <4>3. Cardinality(DOMAIN entries) \in Nat
        BY FS_CardinalityType DEF SizeInv
      <4> QED
        BY <3>1, <3>2, <4>2, <4>3, CacheAssumption DEF SizeInv, CacheBounded, CacheAssumption
    <3>4. CASE ~(Cardinality(live) >= MaxEntries)
      <4>1. kept = live
        BY <2>2, <3>4 DEF Pruned
      <4> QED
        BY <3>1, <3>4, <4>1, CacheAssumption DEF CacheAssumption
    <3> QED
      BY <3>3, <3>4
  <2> QED
    BY <1>1, <2>1, <2>2
<1>4. /\ IsFiniteSet(kept \cup {KeyOf(c)})
      /\ Cardinality(kept \cup {KeyOf(c)}) <= Cardinality(kept) + 1
  <2>1. /\ IsFiniteSet(kept \cup {KeyOf(c)})
        /\ Cardinality(kept \cup {KeyOf(c)}) =
             IF KeyOf(c) \in kept THEN Cardinality(kept) ELSE Cardinality(kept) + 1
    BY <1>2, FS_AddElement
  <2>2. Cardinality(kept) \in Nat
    BY <1>2, FS_CardinalityType
  <2> QED
    BY <2>1, <2>2
<1>5. /\ Cardinality(kept) \in Nat /\ Cardinality(kept \cup {KeyOf(c)}) \in Nat
  BY <1>2, <1>4, FS_CardinalityType
<1> QED
  BY <1>1, <1>3, <1>4, <1>5, CacheAssumption DEF SizeInv, CacheBounded, CacheAssumption

(* The cache never holds more than MaxEntries responses, although every    *)
(* thread prunes with the ttl of its own call, which may expire nothing.   *)
THEOREM CacheIsBounded == Spec => []CacheBounded
<1>1. Init => SizeInv
  BY FS_EmptySet, CacheAssumption DEF Init, SizeInv, CacheBounded, CacheAssumption
<1>2. TypeInv /\ SizeInv /\ [Next]_vars => SizeInv'
  <2> SUFFICES ASSUME TypeInv, SizeInv, [Next]_vars PROVE SizeInv'
    OBVIOUS
  <2>1. ASSUME NEW c \in Caller, Expire(c) PROVE SizeInv'
    <3>1. DOMAIN entries' \subseteq DOMAIN entries
      BY <2>1 DEF Expire, Restrict
    <3>2. /\ IsFiniteSet(DOMAIN entries')
          /\ Cardinality(DOMAIN entries') <= Cardinality(DOMAIN entries)
      BY <3>1, FS_Subset DEF SizeInv
    <3> QED
      BY <3>2, FS_CardinalityType, CacheAssumption DEF SizeInv, CacheBounded, CacheAssumption
  <2>2. ASSUME NEW c \in Caller, Store(c) PROVE SizeInv'
    BY <2>2, StoreKeepsSize
  <2>3. CASE UNCHANGED entries
    BY <2>3 DEF SizeInv, CacheBounded
  <2> QED
    BY <2>1, <2>2, <2>3, StepCases
       DEF StartRequest, Bypass, Hit, Miss, Fetch, Tick, vars
<1>3. SizeInv => CacheBounded
  BY DEF SizeInv
<1> QED
  BY <1>1, <1>2, <1>3, TypeInvariant, PTL DEF Spec

(***************************************************************************)
(* Whose answer a thread gets.                                             *)
(***************************************************************************)
KeyInv ==
  /\ \A k \in DOMAIN entries : BuildHttpCacheKey(entries[k].response.req) = k
  /\ \A c \in Caller : pc[c] \in {"store", "returned"} =>
       BuildHttpCacheKey(answer[c].req) = BuildHttpCacheKey(call[c].req)

(* An answer belongs to the request of the thread that gets it, whoever    *)
(* obtained it: the key tells requests apart by all but their settings.    *)
THEOREM AnswersMatch == Spec => []AnswersSameRequest
<1>1. Init => KeyInv
  BY DEF Init, KeyInv
<1>2. TypeInv /\ KeyInv /\ [Next]_vars => KeyInv'
  <2> SUFFICES ASSUME TypeInv, KeyInv, [Next]_vars PROVE KeyInv'
    OBVIOUS
  <2> USE DEF TypeInv, TypeOK, Holds, KeyInv, Goto, KeyOf
  <2>1. ASSUME NEW c \in Caller, StartRequest(c) PROVE KeyInv'
    BY <2>1 DEF StartRequest
  <2>2. ASSUME NEW c \in Caller, Bypass(c) PROVE KeyInv'
    BY <2>2 DEF Bypass
  <2>3. ASSUME NEW c \in Caller, Hit(c) PROVE KeyInv'
    BY <2>3 DEF Hit
  <2>4. ASSUME NEW c \in Caller, Expire(c) PROVE KeyInv'
    BY <2>4 DEF Expire, Restrict
  <2>5. ASSUME NEW c \in Caller, Miss(c) PROVE KeyInv'
    BY <2>5 DEF Miss
  <2>6. ASSUME NEW c \in Caller, Fetch(c) PROVE KeyInv'
    <3>1. PICK ok \in BOOLEAN :
            answer' = [answer EXCEPT ![c] = [req |-> call[c].req, at |-> now, ok |-> ok]]
      BY <2>6 DEF Fetch
    <3> QED
      BY <2>6, <3>1 DEF Fetch
  <2>7. ASSUME NEW c \in Caller, Store(c) PROVE KeyInv'
    <3>1. PICK kept \in SUBSET DOMAIN entries :
            /\ DOMAIN entries' = kept \cup {KeyOf(c)}
            /\ \A k \in DOMAIN entries' :
                 entries'[k] = IF k = KeyOf(c)
                               THEN [response |-> answer[c], created_at |-> now]
                               ELSE entries[k]
      BY <2>7, StoreEffect
    <3>2. \A k \in DOMAIN entries' : BuildHttpCacheKey(entries'[k].response.req) = k
      BY <2>7, <3>1 DEF Store
    <3> QED
      BY <2>7, <3>2 DEF Store
  <2>8. CASE Tick
    BY <2>8 DEF Tick
  <2>9. CASE UNCHANGED vars
    BY <2>9 DEF vars
  <2> QED
    BY <2>1, <2>2, <2>3, <2>4, <2>5, <2>6, <2>7, <2>8, <2>9, StepCases
<1>3. KeyInv => AnswersSameRequest
  BY DEF KeyInv, AnswersSameRequest, SameRequest, BuildHttpCacheKey, Returned
<1> QED
  BY <1>1, <1>2, <1>3, TypeInvariant, PTL DEF Spec

(***************************************************************************)
(* How old an answer may be.                                               *)
(***************************************************************************)
(* The times of a call are numbers.                                        *)
LEMMA CallTimes ==
  ASSUME NEW x \in Call
  PROVE  x.at \in Nat /\ x.ttl \in Nat
<1>1. x.ttl \in Ttl /\ x.at \in 0..MaxNow
  BY DEF Call
<1>2. Ttl \subseteq Nat /\ 0..MaxNow \subseteq Nat
  BY CacheAssumption DEF CacheAssumption
<1> QED
  BY <1>1, <1>2

AgeOf(c) ==
  /\ pc[c] # "idle" => call[c].at <= now
  /\ pc[c] = "store" => /\ UseCache(call[c])
                         /\ answer[c].at >= call[c].at /\ now - answer[c].at <= Latency
  /\ Returned(c) =>
       answer[c].at >= call[c].at - IF UseCache(call[c]) THEN call[c].ttl + Latency ELSE 0

EntriesFresh ==
  \A k \in DOMAIN entries : entries[k].response.at >= entries[k].created_at - Latency

AgeInv == EntriesFresh /\ \A c \in Caller : AgeOf(c)

(* A step of one thread leaves the calls and answers of the others alone.  *)
LEMMA OthersKeepTheirAge ==
  ASSUME TypeInv, AgeInv, NEW c \in Caller, now' = now, EntriesFresh', AgeOf(c)',
         \A d \in Caller \ {c} : pc'[d] = pc[d] /\ call'[d] = call[d] /\ answer'[d] = answer[d]
  PROVE  AgeInv'
<1>1. ASSUME NEW d \in Caller \ {c} PROVE AgeOf(d)'
  <2>1. pc'[d] = pc[d] /\ call'[d] = call[d] /\ answer'[d] = answer[d] /\ AgeOf(d)
    BY DEF AgeInv
  <2> QED
    BY <2>1 DEF AgeOf, Returned, UseCache
<1> QED
  BY <1>1 DEF AgeInv

(* A hit is at most ttl seconds old as the cache counts, from the moment   *)
(* the answer was stored: so it was given at most Latency seconds before.  *)
LEMMA HitIsFresh ==
  ASSUME TypeInv, AgeInv, NEW c \in Caller, Hit(c)
  PROVE  answer'[c].at >= call[c].at - (call[c].ttl + Latency)
<1> DEFINE e == entries[KeyOf(c)]
<1>1. e \in Entry /\ call[c] \in Call /\ now \in 0..MaxNow
  BY DEF Hit, TypeInv, TypeOK, Holds
<1>2. /\ e.response.at \in Nat /\ e.created_at \in Nat
      /\ call[c].at \in Nat /\ call[c].ttl \in Nat /\ now \in Nat /\ Latency \in Nat
  <2>1. e.response \in Response /\ e.created_at \in Nat
    BY <1>1 DEF Entry
  <2>2. e.response.at \in Nat
    BY <2>1 DEF Response
  <2>3. call[c].at \in Nat /\ call[c].ttl \in Nat
    BY <1>1, CallTimes
  <2> QED
    BY <1>1, <2>1, <2>2, <2>3, CacheAssumption DEF CacheAssumption
<1>3. now - e.created_at <= call[c].ttl
  BY <1>2 DEF Hit, Expired
<1>4. e.response.at >= e.created_at - Latency /\ call[c].at <= now
  BY DEF AgeInv, EntriesFresh, AgeOf, Hit
<1>5. answer'[c] = e.response
  BY DEF Hit, TypeInv, TypeOK
<1> QED
  BY <1>2, <1>3, <1>4, <1>5

(* No answer is older than the call allows: ttl and a transfer when the    *)
(* call uses the cache, not older than the call itself when it does not.   *)
THEOREM AnswersAreFresh == Spec => []FreshEnough
<1>1. Init => AgeInv
  BY DEF Init, AgeInv, EntriesFresh, AgeOf, Returned
<1>2. TypeInv /\ AgeInv /\ [Next]_vars => AgeInv'
  <2> SUFFICES ASSUME TypeInv, AgeInv, [Next]_vars PROVE AgeInv'
    OBVIOUS
  <2>0. /\ pc \in [Caller -> {"idle", "lookup", "fetch", "store", "returned"}]
        /\ now \in Nat /\ Latency \in Nat
        /\ call \in [Caller -> Call \cup {NoCall}]
        /\ answer \in [Caller -> Response \cup {NoAnswer}]
        /\ EntriesFresh
    BY CacheAssumption DEF TypeInv, TypeOK, CacheAssumption, AgeInv
  <2>t. ASSUME NEW c \in Caller, pc[c] # "idle"
        PROVE  /\ call[c].at \in Nat /\ call[c].ttl \in Nat /\ call[c].at <= now
               /\ pc[c] \in {"store", "returned"} => answer[c].at \in Nat
    <3>1. call[c] \in Call
      BY <2>t DEF TypeInv, Holds
    <3>2. call[c].at \in Nat /\ call[c].ttl \in Nat
      BY <3>1, CallTimes
    <3>3. call[c].at <= now
      BY <2>t DEF AgeInv, AgeOf
    <3>4. pc[c] \in {"store", "returned"} => answer[c].at \in Nat
      BY CacheAssumption DEF TypeInv, Holds, Response, CacheAssumption
    <3> QED
      BY <3>2, <3>3, <3>4
  <2>1. ASSUME NEW c \in Caller, StartRequest(c) PROVE AgeInv'
    <3>1. PICK r \in Request, t \in Ttl :
            call' = [call EXCEPT ![c] = [req |-> r, ttl |-> t, at |-> now]]
      BY <2>1 DEF StartRequest
    <3>2. AgeOf(c)'
      BY <2>0, <2>1, <3>1 DEF StartRequest, Goto, AgeOf, Returned
    <3> QED
      BY <2>0, <2>1, <3>1, <3>2, OthersKeepTheirAge DEF StartRequest, Goto, EntriesFresh
  <2>2. ASSUME NEW c \in Caller, Bypass(c) \/ Miss(c) PROVE AgeInv'
    <3>1. AgeOf(c)'
      BY <2>0, <2>2, <2>t DEF Bypass, Miss, Goto, AgeOf, Returned
    <3> QED
      BY <2>0, <2>2, <3>1, OthersKeepTheirAge DEF Bypass, Miss, Goto, EntriesFresh
  <2>3. ASSUME NEW c \in Caller, Hit(c) PROVE AgeInv'
    <3>1. call'[c] = call[c] /\ pc'[c] = "returned" /\ now' = now /\ UseCache(call'[c])
      BY <2>0, <2>3 DEF Hit, Goto
    <3>2. call'[c].at <= now'
      BY <2>3, <2>t, <3>1 DEF Hit
    <3>3. AgeOf(c)'
      BY <2>3, <3>1, <3>2, HitIsFresh DEF AgeOf, Returned
    <3> QED
      BY <2>0, <2>3, <3>3, OthersKeepTheirAge DEF Hit, Goto, EntriesFresh
  <2>4. ASSUME NEW c \in Caller, Expire(c) PROVE AgeInv'
    <3>1. AgeOf(c)'
      BY <2>0, <2>4, <2>t DEF Expire, Goto, AgeOf, Returned
    <3>2. EntriesFresh'
      BY <2>0, <2>4 DEF Expire, Restrict, EntriesFresh
    <3> QED
      BY <2>0, <2>4, <3>1, <3>2, OthersKeepTheirAge DEF Expire, Goto
  <2>6. ASSUME NEW c \in Caller, Fetch(c) PROVE AgeInv'
    <3>1. PICK ok \in BOOLEAN :
            answer' = [answer EXCEPT ![c] = [req |-> call[c].req, at |-> now, ok |-> ok]]
      BY <2>6 DEF Fetch
    <3>2. answer'[c].at = now /\ call'[c] = call[c] /\ now' = now
      BY <2>0, <2>6, <3>1 DEF Fetch
    <3>3. pc'[c] = IF UseCache(call[c]) THEN "store" ELSE "returned"
      BY <2>0, <2>6 DEF Fetch, Goto
    <3>4. call[c].at \in Nat /\ call[c].at <= now
      BY <2>6, <2>t DEF Fetch
    <3>5. CASE UseCache(call[c])
      BY <2>0, <3>2, <3>3, <3>4, <3>5, OthersKeepTheirAge, <2>6, <3>1
         DEF AgeOf, Returned, Fetch, Goto, EntriesFresh
    <3>6. CASE ~UseCache(call[c])
      <4>1. AgeOf(c)'
        BY <2>0, <3>2, <3>3, <3>4, <3>6 DEF AgeOf, Returned
      <4> QED
        BY <2>0, <2>6, <3>1, <4>1, OthersKeepTheirAge DEF Fetch, Goto, EntriesFresh
    <3> QED
      BY <3>5, <3>6
  <2>7. ASSUME NEW c \in Caller, Store(c) PROVE AgeInv'
    <3>1. PICK kept \in SUBSET DOMAIN entries :
            /\ DOMAIN entries' = kept \cup {KeyOf(c)}
            /\ \A k \in DOMAIN entries' :
                 entries'[k] = IF k = KeyOf(c)
                               THEN [response |-> answer[c], created_at |-> now]
                               ELSE entries[k]
      BY <2>7, StoreEffect
    <3>2. /\ call[c].at \in Nat /\ call[c].ttl \in Nat /\ call[c].at <= now
          /\ answer[c].at \in Nat
      BY <2>7, <2>t DEF Store
    <3>3. /\ now - answer[c].at <= Latency /\ answer[c].at >= call[c].at
          /\ UseCache(call[c])
      BY <2>7 DEF Store, AgeInv, AgeOf
    <3>4. answer[c].at >= now - Latency
      BY <2>0, <3>2, <3>3
    <3>5. EntriesFresh'
      BY <2>0, <3>1, <3>4 DEF EntriesFresh
    <3>6. answer[c].at >= call[c].at - (call[c].ttl + Latency)
      BY <2>0, <3>2, <3>3
    <3>7. /\ call'[c] = call[c] /\ answer'[c] = answer[c] /\ now' = now
          /\ pc'[c] = "returned"
      BY <2>0, <2>7 DEF Store, Goto
    <3>8. AgeOf(c)'
      BY <3>2, <3>3, <3>6, <3>7 DEF AgeOf, Returned
    <3> QED
      BY <2>0, <2>7, <3>5, <3>8, OthersKeepTheirAge DEF Store, Goto
  <2>8. CASE Tick
    <3>1. /\ now' = now + 1
          /\ UNCHANGED <<entries, pc, call, answer>>
          /\ \A c \in Caller : pc[c] = "store" => now - answer[c].at < Latency
      BY <2>8 DEF Tick
    <3>2. ASSUME NEW c \in Caller PROVE AgeOf(c)'
      <4>1. AgeOf(c)
        BY DEF AgeInv
      <4>2. pc[c] # "idle" => call[c].at <= now + 1
        BY <2>0, <2>t
      <4>0. now' = now + 1
        BY <3>1
      <4>4. pc' = pc /\ call' = call /\ answer' = answer
        BY <3>1
      <4>5. pc[c] = "store" => UseCache(call[c]) /\ answer[c].at >= call[c].at
        BY <4>1 DEF AgeOf
      <4>6. pc[c] # "idle" => call[c].at <= now'
        BY <3>1, <4>2
      <4>7. ASSUME pc[c] = "store" PROVE now' - answer[c].at <= Latency
        <5>1. now - answer[c].at < Latency /\ answer[c].at \in Nat
          BY <2>t, <3>1, <4>7
        <5> QED
          BY <2>0, <4>0, <5>1
      <4> QED
        BY <4>1, <4>4, <4>5, <4>6, <4>7 DEF AgeOf, Returned
    <3> QED
      BY <2>0, <3>1, <3>2 DEF AgeInv, EntriesFresh
  <2>9. CASE UNCHANGED vars
    BY <2>9 DEF vars, AgeInv, EntriesFresh, AgeOf, Returned, UseCache
  <2> QED
    BY <2>1, <2>2, <2>3, <2>4, <2>6, <2>7, <2>8, <2>9, StepCases
<1>3. AgeInv => FreshEnough
  BY DEF AgeInv, AgeOf, FreshEnough
<1> QED
  BY <1>1, <1>2, <1>3, TypeInvariant, PTL DEF Spec
=============================================================================
