SPECIFICATION Spec
CONSTANTS
  Requests = {r1, r2}
  Instances = {i1}
  r1 = r1
  r2 = r2
  i1 = i1
  Operations <- Lifecycle
  Products <- OneProduct
  RepeatPut = FALSE
  Overlap = FALSE
  Crashes = FALSE
  MeteringRejects = TRUE
SYMMETRY RequestAndInstanceSymmetry
INVARIANTS
  ChargedBeforeRelease
\* Every request may have been handled and the process be idle.
CHECK_DEADLOCK FALSE
