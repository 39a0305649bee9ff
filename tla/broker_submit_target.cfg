SPECIFICATION Spec
CONSTANTS
  Requests = {r1, r2, r3}
  Instances = {i1, i2}
  r1 = r1
  r2 = r2
  r3 = r3
  i1 = i1
  i2 = i2
  Operations <- Submits
  Products <- OneProduct
  RepeatPut = FALSE
  Overlap = FALSE
  Crashes = FALSE
  MeteringRejects = FALSE
SYMMETRY RequestAndInstanceSymmetry
INVARIANTS
  SubmitBillsRequested
\* Every request may have been handled and the process be idle.
CHECK_DEADLOCK FALSE
