SPECIFICATION Spec
CONSTANTS
  Ids = {a1, a2}
  MaxLogins = 2
  MaxKeys = 2
INVARIANTS
  NewestLoginKept
PROPERTIES
  OneEnabledLeft
  SignInAndRefreshEnd
CHECK_DEADLOCK FALSE
