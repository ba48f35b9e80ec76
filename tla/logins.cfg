CONSTANTS
    MaxLogins = 2
    MaxCancels = 2
    Callers = {c1, c2}
SPECIFICATION FairSpec
INVARIANTS
    OneLoginShown
    EndsAsAsked
PROPERTIES
    SignInEnds
CHECK_DEADLOCK FALSE
