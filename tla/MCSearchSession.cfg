\* Calls with every parameter and any two of them, connections with headers of
\* their own, files, and every kind of answer.
SPECIFICATION Spec
CONSTANTS
  GeometryAsWKT <- ParseGeometryAsWKT
  GeometryAsGeoJson <- ParseGeometryAsGeoJson
  Numerals <- Digits
  Short <- SixDigits
  Fixed <- TenPlaces
  MaxDepth = 2
  Unset = Unset
  Lower <- LowerNames
  DefaultUserAgent = "duckdb"
  Scenarios <- Calls
  Answers <- AnswerSet
  Documents <- AllDocuments
INVARIANTS TypeOK CriteriaAreSent HeaderPrecedence RowIffReadable RowHoldsGeometry RowHoldsLinks
CHECK_DEADLOCK FALSE
