\* Every offset and limit around the seven items of a static tree and the five
\* pages of a search, with and without pushed filters.
SPECIFICATION Spec
CONSTANTS
  Doc <- AllDocs
  Serve <- Served
  StaticHref <- StaticFiles
  LinkObject <- AllLinks
  Reading <- ReadingOf
  NextAfter <- NextAfterOf
  LaterPages <- LaterPagesOf
  Origin <- Wellformed
  Offsets = {0, 1, 2, 3, 4, 9}
  Limits = {0, 1, 2, 3, 4, 5, 6, 7}
  NoDoc = NoDoc
  NoHref = NoHref
  NoId = NoId
  NoType = NoType
  NotObject = NotObject
  NoLink = NoLink
INVARIANTS TypeOK LimitRespected OneFetchPastLimit ContextFollowsStack RequestFollowsLink RowsInOrder PagesInOrder
PROPERTY Terminates
CHECK_DEADLOCK FALSE
