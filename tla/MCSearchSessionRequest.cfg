\* A search with a CQL2 text filter through a proxy with a port.
SPECIFICATION Spec
CONSTANTS
  GeometryAsWKT <- ParseGeometryAsWKT
  GeometryAsGeoJson <- ParseGeometryAsGeoJson
  Numerals <- Digits
  Short <- SixDigits
  Fixed <- TenPlaces
  MaxDepth = 2
  Unset = Unset
  Lower <- LowerNames
  DefaultUserAgent = "duckdb"
  Scenarios <- ProxiedTextSearch
  Answers <- AnswerSet
  Documents <- AllDocuments
INVARIANT RequestSaysWhatWasAsked
CHECK_DEADLOCK FALSE
