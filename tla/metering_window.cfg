SPECIFICATION Spec
CONSTANTS
  LastMonth = 3
  DaysIn <- UnevenMonths
  Slots = 3
  Buffer = 2
  MaxReports = 2
INVARIANTS TypeOK UsageIsPast StartsInItsMonth EveryMonthIsReported
\* The bounded clock stops.
CHECK_DEADLOCK FALSE
