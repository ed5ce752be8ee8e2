SPECIFICATION Spec
CONSTANTS
  Requests = {r1, r2}
  Tenants = {t1}
  MaxStarts = 6
  MaxAttempts = 1
INVARIANTS SomeSecretSingleUse
CHECK_DEADLOCK FALSE
