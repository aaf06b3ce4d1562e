CONSTANTS
    Models = {a}
    weights = weights
    index = index
    Files = {weights, index}
    Size <- SizeForTLC
    Width = 2
    Lingering = {"replace", "open", "truncate", "intent", "preFail", "publish", "write"}
    Overlap = TRUE
    Failures = {"store", "removal", "report"}
    MaxCommands = 2
    MaxCrashes = 0
    MaxFaults = 1
    None = None
SPECIFICATION Spec
CHECK_DEADLOCK FALSE
INVARIANTS PauseHolds CancelHolds
