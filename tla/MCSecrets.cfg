SPECIFICATION MCSpec
CONSTANTS
  MfaRequests = {m1, m2}
  MaxSecret = 2
  MaxBatch = 2
  BatchSize = 1
  MaxStep = 2
  Skew = 1
  Requests = {r1, r2}
  Tenants = {t1, t2}
  MaxStarts = 5
  MaxAttempts = 1
SYMMETRY MCSymmetry
INVARIANTS MfaTypeOK NoReplay CodeSpendBound EnabledHasBackupCodes TypeOK SingleUseBound LiveTokensBound OtpAttemptBound
PROPERTIES OffNeedsCode ForceLiftedByNewPassword
CHECK_DEADLOCK FALSE
