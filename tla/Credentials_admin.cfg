SPECIFICATION Spec
CONSTANTS
  Requests = {r1, r2}
  Tenants = {t1, t2}
  MaxStarts = 2
  MaxAttempts = 1
PROPERTIES AdminStaysInTenant
CHECK_DEADLOCK FALSE
