SPECIFICATION Spec
CONSTANTS
    Requests = {r1, r2, r3}
    Demoters = {d}
    Restarters = {s}
    QueuePermits = {p1, p2}
    InboxCapacity = 2
    None = None
CHECK_DEADLOCK FALSE
INVARIANTS
    TypeOK
    OneGenerationAtATime
    DemotionExcludesGeneration
    NoReplacementOverWork
    PermitsAreAccountedFor
PROPERTIES
    AdmittedIsAnswered
