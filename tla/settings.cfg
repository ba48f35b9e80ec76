CONSTANTS
    Callers = {t1, t2}
    MaxEvents = 3
SPECIFICATION Spec
SYMMETRY Symmetry
INVARIANTS
    BackendSeesPreferences
    CacheFresh
    UserWorkKept
PROPERTIES
    OthersKept
CHECK_DEADLOCK FALSE
