\* An item whose numbers do not fit the columns of the first one.
SPECIFICATION Spec
CONSTANTS
  Doc <- Numbers
  Serve <- Served
  Origin = {"numbers"}
  FirstProperty = 9
  IntWidth = 5
  Samples <- SamplesOf
  SamplesBelow <- SamplesFrom
  NoDoc = NoDoc
  NoHref = NoHref
  NoId = NoId
  NotObject = NotObject
  NoProperties = NoProperties
  NULL = NULL
  ConversionError = ConversionError
INVARIANT NumbersArePreserved
CHECK_DEADLOCK FALSE
