\* A static tree, an API of three pages and two malformed catalogs; chunks of
\* two rows.
SPECIFICATION Spec
CONSTANTS
  Doc <- AllDocs
  Serve <- Served
  Origin <- Origins
  VectorSize = 2
  Reading <- ReadingOf
  Later <- LaterOf
  NoDoc = NoDoc
  NoHref = NoHref
  NoId = NoId
  NotObject = NotObject
INVARIANTS TypeOK CollectionsInOrder
PROPERTIES ImplementsTableScan Terminates
CHECK_DEADLOCK FALSE
