\* Three days with a Saturday among them, and three runs that may die.
\* The system stops with its last run.
CHECK_DEADLOCK FALSE
SPECIFICATION Spec
CONSTANTS
  LastDay = 3
  Saturdays = {2}
  Minutes <- ThreeMinutes
  BarLen = 2
  Archive <- SmallArchive
  Padding <- SmallPadding
  MaxRetries = 2
  MaxRuns = 3
INVARIANTS
  TypeOK
  StoreIsArchive
PROPERTIES
  RowsAreFinal
