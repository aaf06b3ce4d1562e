CONSTANTS
    Models = {a}
    weights = weights
    index = index
    Files = {weights, index}
    Size <- SizeForTLC
    Width = 2
    Lingering = {"recover", "create", "replace", "open", "intent", "pause", "fail", "preFail", "publish"}
    Overlap = FALSE
    Failures = {"store", "report", "disconnect"}
    MaxCommands = 2
    MaxCrashes = 1
    MaxFaults = 1
    None = None
SPECIFICATION Spec
CHECK_DEADLOCK FALSE
INVARIANTS TypeOK PublicationIsVerified
