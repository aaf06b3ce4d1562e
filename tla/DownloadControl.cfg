CONSTANTS
    Models = {a}
    weights = weights
    index = index
    Files = {index}
    Size <- SizeForTLC
    Width = 2
    Lingering = {"recover", "create", "replace", "open", "truncate", "intent", "pause", "fail", "preFail", "publish", "write"}
    Overlap = TRUE
    Failures = {"store", "removal", "report", "disconnect"}
    MaxCommands = 2
    MaxCrashes = 1
    MaxFaults = 1
    None = None
SPECIFICATION Spec
CHECK_DEADLOCK FALSE
PROPERTY ControlReturns
