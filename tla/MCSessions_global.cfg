SPECIFICATION Spec
CONSTANTS
  Requests = {r1, r2}
  Users = {u1, u2}
  Tokens = {t1, t2}
  Backends = {"postgres"}
INVARIANTS GlobalLogoutEverywhere
CHECK_DEADLOCK FALSE
