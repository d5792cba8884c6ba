CONSTANTS
    Users = {u1, u2}
    MaxPendingWrites = 2
    MaxWrites = 3
    MaxWaits = 1
    MaxTroubles = 2
SPECIFICATION Spec
INVARIANTS
    TypeOK
    NoHardAssertFails
    ResponsesMatchPipeline
    NoneUndone
    HandlersHearTheTruth
    WaitersHeldBack
PROPERTIES
    ImplementsDurableWrites
    Drains
CHECK_DEADLOCK FALSE
