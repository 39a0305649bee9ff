SPECIFICATION Spec
CONSTANTS
  Admins = {a1}
  a1 = a1
  MaxInstances = 1
  MaxMonths = 1
  Limit = 1
  Receiver = "cronjob"
  Crashes = FALSE
  ItemRejects = FALSE
  AlertsFail = FALSE
INVARIANTS
  MonthlyJobRuns
\* All ticks and retries of the bounded behaviour may be over.
CHECK_DEADLOCK FALSE
