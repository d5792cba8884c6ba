CONSTANTS
    Queries = {q1, q2}
    Denied = {q2}
    MaxGets = 2
    MaxVersions = 2
    MaxTroubles = 1
SPECIFICATION Spec
INVARIANTS
    TypeOK
    NoHardAssertFails
    AnsweredOnce
    AnswersFresh
PROPERTIES
    GetsAnswered
CHECK_DEADLOCK FALSE
