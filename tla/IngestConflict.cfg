SPECIFICATION Spec
CONSTANTS
  r1 = r1  r2 = r2  r3 = r3
  a = a  b = b  v1 = v1  v2 = v2  v3 = v3  v4 = v4  v5 = v5  c = c  d = d
  TxnId <- AllIds
  Customer <- AllCustomers
  Request <- TwoRequests
  Calls <- SameIngest
  Instants <- OneInstant
  PoolSize = 2
CHECK_DEADLOCK FALSE
SYMMETRY Symmetric
INVARIANT DuplicateIs409
