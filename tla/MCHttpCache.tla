---------------------------- MODULE MCHttpCache ----------------------------
(***************************************************************************)
(* A small instance of HttpCache: two searches of one URL that differ in   *)
(* the body, one of them also written "post" by the next link of a server  *)
(* and sent under the settings of another connection, which share a key    *)
(* all the same, and a method that is never cached.                        *)
(***************************************************************************)
EXTENDS HttpCache, TLC

NoHeaders == "no headers"

R(method, body, settings) ==
  [url |-> "search", method |-> method, headers |-> NoHeaders,
   body |-> body, settings |-> settings]

Searches == {R("POST", "q1", "s1"), R("POST", "q2", "s1"), R("post", "q1", "s2"),
             R("PUT", "q1", "s1")}

Symmetric == Permutations(Caller)
=============================================================================
