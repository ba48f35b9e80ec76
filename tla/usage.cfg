SPECIFICATION Spec
CONSTANTS
  MaxScans = 2
  MaxRefreshes = 3
  MaxObs = 1
INVARIANTS CardsOfLatest CatchesUp
PROPERTIES RefreshSettles
CHECK_DEADLOCK FALSE
