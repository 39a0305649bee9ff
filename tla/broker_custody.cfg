SPECIFICATION Spec
CONSTANTS
  Requests = {r1, r2, r3, r4}
  Instances = {i1}
  r1 = r1
  r2 = r2
  r3 = r3
  r4 = r4
  i1 = i1
  Operations <- Admin
  Products <- BothProducts
  RepeatPut = FALSE
  Overlap = TRUE
  Crashes = TRUE
  MeteringRejects = FALSE
SYMMETRY RequestAndInstanceSymmetry
INVARIANTS
  ChargedBeforeRelease
  NoLeakedLicense
  SuccessMeansGone
PROPERTIES
  KeepsCustody
\* Every request may have been handled and the process be idle.
CHECK_DEADLOCK FALSE
