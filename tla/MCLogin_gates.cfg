SPECIFICATION Spec
CONSTANTS
  Requests = {r1, r2}
  Users = {u1}
  Challenges = {c1}
  ChangeTokens = {t1}
  LockAfter = 2
  MaxMfaAttempts = 2
  Surfaces <- MCPaths
SYMMETRY MCSymmetry
INVARIANTS GatesCommonToEveryLogin
