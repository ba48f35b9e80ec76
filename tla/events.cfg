SPECIFICATION FairSpec
CONSTANTS
  Clients = {c1}
  Parts = {a, b}
  Cap = 2
  Interval = 2
  MaxChanges = 1
  MaxPosts = 3
INVARIANTS NeverSilentlyBehind RegisteredAreOpen MessagesInOrder
PROPERTIES Observed ChangesAreSeen
CHECK_DEADLOCK FALSE
