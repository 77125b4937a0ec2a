\* A static tree of three levels, a listing and two malformed catalogs.
SPECIFICATION Spec
CONSTANTS
  Doc <- AllDocs
  Serve <- Served
  Origin <- Origins
  FirstProperty = 9
  IntWidth = 5
  Samples <- SamplesOf
  SamplesBelow <- SamplesFrom
  NoDoc = NoDoc
  NoHref = NoHref
  NoId = NoId
  NotObject = NotObject
  NoProperties = NoProperties
  NULL = NULL
  ConversionError = ConversionError
INVARIANTS TypeOK ValueUnderItsName ColumnsOfFirstItems
PROPERTY Terminates
CHECK_DEADLOCK FALSE
