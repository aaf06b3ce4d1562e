SPECIFICATION Spec
CONSTANTS
    NoLimit = 0
    Settings = {0, 1}
    Machine = 2
    Policies = {p1, p2}
    Listeners = {l1, l2}
    MaxEdits = 1
    MaxCalls = 2
    MaxRequests = 2
    MaxFailures = 1
    Faults = {"refusal"}
    None = None
CHECK_DEADLOCK FALSE
INVARIANTS
    PendingHasAnOwner
