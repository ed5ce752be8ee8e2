SPECIFICATION GuessSpec
CONSTANTS
  Requests = {r1}
  Users = {u1}
  Challenges = {c1, c2}
  ChangeTokens = {}
  LockAfter = 3
  MaxMfaAttempts = 2
  MaxWrongCodes = 4
  Surfaces <- GuessSurfaces
INVARIANTS WrongCodesLock
CHECK_DEADLOCK FALSE
