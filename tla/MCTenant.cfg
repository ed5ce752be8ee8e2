SPECIFICATION MCSpec
CONSTANTS
  Requests = {r1, r2}
  Tenants = {x, y}
  Addresses = {i}
  Mobiles = {j}
  Usernames = {k}
  Accounts = {l}
  MaxStarts = 3
  MaxStates = 2
  MaxCost = 6
  Movers = {r1, r2}
  Uids = {a, b}
  Permissions = {x, y}
  MaxRoles = 3
  MaxOps = 3
  Handlers = {r1, r2}
  Packages = {x, y}
  MaxVersions = 2
  MaxRotations = 1
  MaxClock = 4
  TTL = 2
  MinRefresh = 1
  Latency = 1
SYMMETRY MCSymmetry
INVARIANTS TypeOK OauthLinkProven MembershipEarned OrphansExplained StateRedeemedOnce AccessTypeOK CachesTypeOK SchemaCurrentWhenQuiet ConfigStaleBound KeyAnswerBounds
PROPERTIES AcyclicUnlessRaced AllowExplained DenyHonoured
CHECK_DEADLOCK FALSE
