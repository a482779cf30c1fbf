SPECIFICATION MCSpec
CONSTANTS
  User = {"u1"}
  Client = {"c1"}
  Group = {"host", "path"}
  Mounted = {"path"}
  AuthUsers <- MCAuthUsers
  Request = {x1, x2}
  authCodeTTL = 1
  accessTTL = 1
  refreshTTL = 2
  maxUsedJTI = 2
  MaxTime = 2
  MaxIds = 3
  MaxConsents = 2
  MaxRestarts = 1
CHECK_DEADLOCK FALSE
SYMMETRY Symmetry
INVARIANTS
  GrantsSound
  SessionNeedsAccount
  RevocationBounded

  
