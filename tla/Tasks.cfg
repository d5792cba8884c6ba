CONSTANTS
    Callers = {c1}
    MaxCalls = 2
    MaxTimers = 2
    None = None
SPECIFICATION Spec
INVARIANTS
    TypeOK
    RefsMatchOwners
    ClientOutlivesWork
    DisposeIsFinal
PROPERTIES
    DestructorEnds
CHECK_DEADLOCK FALSE
