SPECIFICATION FairSpec
CONSTANTS
  Requests = {r1}
  r1 = r1
  Identities <- TokenIds
  Allowlist <- ListedName
  ApiKeys = {k1}
  k1 = k1
  Refreshes = {f1, f2, f3}
  f1 = f1
  f2 = f2
  f3 = f3
  MaxVersion = 3
  MaxFaults = 3
INVARIANTS
  TypeOK
  TokenIsLetIn
  ApiKeyIsLetIn
PROPERTIES
  CatchesUp
\* Every request and every fault of the bounded behaviour may be over.
CHECK_DEADLOCK FALSE
