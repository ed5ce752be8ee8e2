SPECIFICATION Spec
CONSTANTS
  Requests = {r1, r2}
  Users = {u1, u2}
  Tokens = {t1, t2}
  Backends = {"postgres", "redis"}
SYMMETRY MCSymmetry
INVARIANTS TypeOK AuditTrail Reachable
PROPERTIES ImplementsContract
CHECK_DEADLOCK FALSE
