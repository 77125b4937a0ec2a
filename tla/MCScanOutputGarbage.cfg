\* A page that fills more than one chunk.
SPECIFICATION Spec
CONSTANTS
  VectorSize = 3
  PageSize = 6
  MaxPages = 3
  Garbage = Garbage
INVARIANT EachRowIsAnItem
CHECK_DEADLOCK FALSE
