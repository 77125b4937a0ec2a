\* Two threads, two searches, one of them spelled twice, a method that is
\* never cached, and room for one entry.
SPECIFICATION Spec
CONSTANTS
  Caller = {c1, c2}
  Request <- Searches
  Ttl = {0, 1}
  MaxEntries = 1
  Latency = 1
  MaxNow = 3
  NoCall = NoCall
  NoAnswer = NoAnswer
SYMMETRY Symmetric
INVARIANTS TypeOK CacheBounded AnswersSameRequest FreshEnough
