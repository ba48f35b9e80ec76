SPECIFICATION FilesSpec
CONSTANTS
  Seats = {s1}
  NoSeat = n0
  Threads = {t1, t2}
  MaxLogins = 1
  MaxCalls = 2
  MaxFailures = 1
SYMMETRY Symmetry
INVARIANTS SeatsKept ListCatchesUp EveryFileMoved
PROPERTIES OneEnabledKept
CHECK_DEADLOCK FALSE
