SPECIFICATION FairSpec
CONSTANTS
  Requests = {r1, r2, r3}
  Instances = {i1, i2}
  r1 = r1
  r2 = r2
  r3 = r3
  i1 = i1
  i2 = i2
  Operations <- Admin
  Products <- OneProduct
  RepeatPut = TRUE
  Overlap = TRUE
  Crashes = TRUE
  MeteringRejects = TRUE
INVARIANTS
  TypeOK
  InProgressIsRunning
  ProvisionedUntilDeprovisioned
PROPERTIES
  AnswerOnce
  DeprovisionSettles
\* Every request may have been handled and the process be idle.
CHECK_DEADLOCK FALSE
