SPECIFICATION Spec
CONSTANTS
  r1 = r1  r2 = r2  r3 = r3
  a = a  b = b  v1 = v1  v2 = v2  v3 = v3  v4 = v4  v5 = v5  c = c  d = d
  TxnId <- AllIds
  Customer <- AllCustomers
  Request <- OneRequest
  Calls <- NullMetadata
  Instants <- OneInstant
  PoolSize = 1
CHECK_DEADLOCK FALSE
INVARIANT StoredIsAccepted
