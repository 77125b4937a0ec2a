\* Chains of up to three operators over a scan of six items, and unions of scans.
SPECIFICATION Spec
CONSTANTS
  Plan <- Plans
  Column = {0, 1}
  Item <- Items
  ColumnList <- ColumnLists
  Registered = 2
  Unset = Unset
  Computed = Computed
  ComputedValue = 1
INVARIANTS TypeOK SameResult PlanningSucceeds
CHECK_DEADLOCK FALSE
