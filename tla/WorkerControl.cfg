SPECIFICATION Spec
CONSTANTS
    r1 = r1
    r2 = r2
    r3 = r3
    m1 = m1
    m2 = m2
    Requests = {r1, r2}
    Models = {m1, m2}
    Catalog = {m1, m2}
    Kind <- KindOf
    Wants <- WantsOf
    Faults = {"crash", "launchFails", "loadFails"}
    Controls = {"limit", "clear", "demote", "shutdown"}
    PipeBound = 2
    None = None
    NoConfig = NoConfig
CHECK_DEADLOCK FALSE
INVARIANTS
    TypeOK
    ControlReachesIdleWorker
    ServedByItsModel
    PublishedModelIsLoaded
PROPERTIES
    QueuedControlIsApplied
    ServiceIsImplemented
