SPECIFICATION FairSpec
CONSTANTS
  Admins = {a1}
  a1 = a1
  MaxInstances = 2
  MaxMonths = 2
  Limit = 1
  Receiver = "service"
  Crashes = TRUE
  ItemRejects = TRUE
  AlertsFail = TRUE
INVARIANTS
  TypeOK
  OneMonthsBills
PROPERTIES
  JobEnds
\* All ticks and retries of the bounded behaviour may be over.
CHECK_DEADLOCK FALSE
