SPECIFICATION Spec
CONSTANTS
  Admins = {a1, a2}
  a1 = a1
  a2 = a2
  MaxInstances = 3
  MaxMonths = 2
  Limit = 2
  Receiver = "service"
  Crashes = FALSE
  ItemRejects = FALSE
  AlertsFail = FALSE
SYMMETRY AdminSymmetry
INVARIANTS
  NothingLostSilently
  RetrySuccessMeansBilled
PROPERTIES
  JobEndsListedOrTold
  KeepsLedger
\* All ticks and retries of the bounded behaviour may be over.
CHECK_DEADLOCK FALSE
