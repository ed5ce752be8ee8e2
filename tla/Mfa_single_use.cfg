SPECIFICATION MfaSpec
CONSTANTS
  MfaRequests = {m1, m2}
  MaxSecret = 2
  MaxBatch = 2
  BatchSize = 1
  MaxStep = 2
  Skew = 1
INVARIANTS SomeCodeSingleUse
CHECK_DEADLOCK FALSE
