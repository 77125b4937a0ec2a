----------------------------- MODULE HttpClient -----------------------------
(***************************************************************************)
(* One HTTP request without the cache: the settings of the connection, the *)
(* request that is sent, and what becomes of the answer                    *)
(* (src/stac/http_request.cpp, and ExecuteHttpRequest of                   *)
(* src/stac/stac_reader.cpp).  The cache around it is HttpCache.           *)
(*                                                                         *)
(* The library that sends the request is outside of this code; its headers *)
(* are a multimap that ignores the case of names.                          *)
(***************************************************************************)
EXTENDS Integers, Sequences

CONSTANTS
  Lower,     \* name of a method or header -> the same in lower case
  DefaultUserAgent

ASSUME ClientAssumption ==
  /\ {"User-Agent", "GET", "POST"} \subseteq DOMAIN Lower
  /\ Lower["GET"] = "get" /\ Lower["POST"] = "post"

Same(a, b) == Lower[a] = Lower[b]

(* A proxy as it is written, "host" (port 0) or "host:port", or none.      *)
NoProxy == [host |-> "", port |-> 0]
DefaultPort == 80

ParseHTTPProxyHost(proxy) ==
  [host |-> proxy.host, port |-> IF proxy.port = 0 THEN DefaultPort ELSE proxy.port]

Nonempty(a, b) == IF a # "" THEN a ELSE b

(* The first of the extra headers of one name, in the order of the map.    *)
FirstOfEach(headers) ==
  [n \in {headers[i][1] : i \in DOMAIN headers} |->
     headers[CHOOSE i \in DOMAIN headers :
               headers[i][1] = n /\ \A j \in 1..(i - 1) : headers[j][1] # n][2]]

ExtractHttpSettings(config, secret) ==
  [timeout         |-> config.http_timeout,
   follow          |-> config.http_follow_redirects,
   proxy           |-> IF secret.http_proxy # NoProxy THEN secret.http_proxy
                       ELSE [config.http_proxy EXCEPT !.port = 0],
   proxy_port      |-> IF config.http_proxy # NoProxy
                       THEN ParseHTTPProxyHost(config.http_proxy).port ELSE DefaultPort,
   proxy_username  |-> Nonempty(secret.http_proxy_username, config.http_proxy_username),
   proxy_password  |-> Nonempty(secret.http_proxy_password, config.http_proxy_password),
   username        |-> secret.username,
   password        |-> secret.password,
   bearer_token    |-> secret.bearer_token,
   extra_headers   |-> FirstOfEach(secret.extra_http_headers),
   user_agent      |-> Nonempty(config.http_user_agent, DefaultUserAgent)]

(* stac_reader.cpp asks for the settings and overrides the timeout.        *)
RequestTimeout == 30
ReaderSettings(config, secret) ==
  [ExtractHttpSettings(config, secret) EXCEPT !.timeout = RequestTimeout]

-----------------------------------------------------------------------------
(***************************************************************************)
(* The request on the wire.                                                *)
(***************************************************************************)
Pairs(headers) == {<<n, headers[n]>> : n \in DOMAIN headers}
Named(headers, name) == {h \in headers : Same(h[1], name)}

\* Extra headers are added beside the header of the same name.
RequestHeadersBeside(headers, settings) ==
  LET sent == Pairs(headers) \cup Pairs(settings.extra_headers)
  IN  {sent \cup (IF Named(sent, "User-Agent") = {} THEN {<<"User-Agent", settings.user_agent>>} ELSE {})}

(* Every set of headers that the loops may produce: extra_headers is an    *)
(* unordered map, so of two extra names that differ in case either may be  *)
(* inserted first.                                                         *)
RequestHeaders(headers, settings) ==
  LET call  == Pairs(headers)
      extra == {h \in Pairs(settings.extra_headers) : Named(call, h[1]) = {}}
      kept  == {E \in SUBSET extra : \A h \in extra : \E e \in E : Named(E, h[1]) = {e}}
      agent == {<<"User-Agent", settings.user_agent>>}
  IN  {call \cup E \cup (IF Named(call \cup E, "User-Agent") = {} THEN agent ELSE {}) : E \in kept}

(* Under each name, in whatever spelling, go the headers that the caller   *)
(* asked for and no other; where the caller is silent, one of the extra    *)
(* headers; where both are, the user agent.                                *)
TakesPrecedence(sent, asked, extra, agent) ==
  \A name \in {h[1] : h \in sent \cup asked \cup extra} \cup {"User-Agent"} :
    \/ Named(asked, name) # {} /\ Named(sent, name) = Named(asked, name)
    \/ /\ Named(asked, name) = {}
       /\ \E h \in sent :
            /\ Named(sent, name) = {h}
            /\ h \in extra \/ (Named(extra, name) = {} /\ h = <<"User-Agent", agent>>)

(* DuckDB parses settings.proxy once more, now without the port of the     *)
(* setting, and overwrites proxy_port.                                     *)
ClientProxy(settings) ==
  IF settings.proxy.host = "" THEN NoProxy ELSE ParseHTTPProxyHost(settings.proxy)

Path(url) == IF url.path = "" THEN "/" ELSE url.path

HasBody(method) == Lower[method] \in {"post", "put", "patch"}

(* What a call sends; a method that is none of the five is taken for GET.  *)
WireRequests(settings, url, method, headers, body, content_type) ==
  LET known == Lower[method] \in {"head", "delete", "post", "put", "patch"}
  IN  {[host |-> url.host, path |-> Path(url),
        method |-> IF known THEN Lower[method] ELSE "get",
        headers |-> h,
        body |-> IF HasBody(method) THEN body ELSE <<>>,
        content_type |-> IF HasBody(method) THEN Nonempty(content_type, "application/octet-stream") ELSE "",
        proxy |-> ClientProxy(settings),
        proxy_login |-> IF settings.proxy.host # "" THEN settings.proxy_username ELSE "",
        basic |-> IF settings.username # "" /\ settings.password # "" THEN settings.username ELSE "",
        bearer |-> settings.bearer_token,
        follow |-> settings.follow,
        timeout |-> settings.timeout] : h \in RequestHeaders(headers, settings)}

-----------------------------------------------------------------------------
(***************************************************************************)
(* The answer.  A body is a document under a coding, sound if it is whole; *)
(* ratio is how many times larger it becomes when it is decoded.           *)
(***************************************************************************)
Decodes(body) ==
  \/ body.coding \in {"gzip", "zstd"} /\ body.sound
  \/ body.coding = "zstd_stream" /\ body.sound /\ body.ratio <= 10

(* What fails to decode stays as it is.                                    *)
Decoded(body) == IF Decodes(body) THEN [body EXCEPT !.coding = "plain"] ELSE body

NoBody == [coding |-> "plain", sound |-> TRUE, ratio |-> 1, doc |-> "nothing"]
Failure(error) == [error |-> error, status |-> 0, body |-> NoBody]

(* answer: what the library returns, an error or a response.               *)
ResponseData(answer) ==
  IF answer.error # "" THEN Failure("HTTP request failed")
  ELSE [error |-> "", status |-> answer.status, body |-> Decoded(answer.body)]

\* Only errors of the transport are refused.
RefusedUnlessAnswered(response) == response.error # ""

(* ExecuteHttpRequest of the reader throws for anything but 200.           *)
Refused(response) == response.status # 200 \/ response.error # ""
=============================================================================
