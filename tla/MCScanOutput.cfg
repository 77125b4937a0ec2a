\* Chunks of three slots; pages of nothing up to two chunks and more.
SPECIFICATION Spec
CONSTANTS
  VectorSize = 3
  PageSize = 6
  MaxPages = 3
  Garbage = Garbage
INVARIANTS TypeOK NoRowLostOrRepeated
PROPERTIES ImplementsTableScan ScanEnds
CHECK_DEADLOCK FALSE
