SPECIFICATION Spec
CONSTANTS
  Calls = {c1, c2}
  c1 = c1
  c2 = c2
  Boot = Boot
  MaxVersion = 5
  Plans <- PlanCounts
  Undated <- Timeless
  MaxExits = 1
SYMMETRY CallSymmetry
INVARIANTS
  TypeOK
  ExactWhenQuiet
  NeverOlderThanCall
  OfferedPlanIsFound
\* Every call may have been answered.
CHECK_DEADLOCK FALSE
