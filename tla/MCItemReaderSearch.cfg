\* A search of a .json catalog with two listings whose next links merge.
SPECIFICATION Spec
CONSTANTS
  Doc <- AllDocs
  Serve <- Served
  StaticHref <- StaticFiles
  LinkObject <- AllLinks
  Reading <- ReadingOf
  NextAfter <- NextAfterOf
  LaterPages <- LaterPagesOf
  Origin <- StaticSearch
  Offsets = {0}
  Limits = {0}
  NoDoc = NoDoc
  NoHref = NoHref
  NoId = NoId
  NoType = NoType
  NotObject = NotObject
  NoLink = NoLink
INVARIANT SearchFindsHits
CHECK_DEADLOCK FALSE
