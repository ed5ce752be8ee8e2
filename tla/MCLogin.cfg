SPECIFICATION Spec
CONSTANTS
  Requests = {r1, r2}
  Users = {u1}
  Challenges = {c1}
  ChangeTokens = {t1}
  LockAfter = 2
  MaxMfaAttempts = 2
  Surfaces <- MCSurfaces
SYMMETRY MCSymmetry
INVARIANTS TypeOK ChallengeRedeemedOnce AttemptBound LockoutBound SecondFactorEnforced ClosedAccountStaysOut
