SPECIFICATION Spec
CONSTANTS
    r1 = r1
    r2 = r2
    r3 = r3
    m1 = m1
    m2 = m2
    Requests = {r1, r2}
    Models = {m1, m2}
    Catalog = {m1, m2}
    Kind <- KindOf
    Wants <- WantsOf
    Faults = {"loadFails"}
    Controls = {}
    PipeBound = 3
    None = None
    NoConfig = NoConfig
CHECK_DEADLOCK FALSE
INVARIANTS
    WellBehavedWorkerKept
