SPECIFICATION FairSpec
CONSTANTS
  Callers = {r1, r2}
  MaxIssued = 2
INVARIANTS RefreshIsShared FileNeverSpent
PROPERTIES EveryCallReturns
