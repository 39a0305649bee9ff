SPECIFICATION Spec
CONSTANTS
  Requests = {r1}
  r1 = r1
  Identities <- TokenIds
  Allowlist <- DocumentedIds
  ApiKeys = {k1}
  k1 = k1
  Refreshes = {f1, f2}
  f1 = f1
  f2 = f2
  MaxVersion = 3
  MaxFaults = 2
INVARIANTS
  ListedIsLetIn
\* Every request and every fault of the bounded behaviour may be over.
CHECK_DEADLOCK FALSE
