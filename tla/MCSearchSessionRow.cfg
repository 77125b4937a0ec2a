\* A file with one Feature: an integer, a long fraction and a box of six numbers.
SPECIFICATION Spec
CONSTANTS
  GeometryAsWKT <- ParseGeometryAsWKT
  GeometryAsGeoJson <- ParseGeometryAsGeoJson
  Numerals <- Digits
  Short <- SixDigits
  Fixed <- TenPlaces
  MaxDepth = 2
  Unset = Unset
  Lower <- LowerNames
  DefaultUserAgent = "duckdb"
  Scenarios <- SurveyFile
  Answers = {}
  Documents <- Survey
INVARIANT RowDenotesFeature
CHECK_DEADLOCK FALSE
