CONSTANTS
    Models = {a}
    weights = weights
    index = index
    Files = {weights, index}
    Size <- SizeForTLC
    Width = 2
    Lingering = {"recover", "replace", "open", "intent", "pause", "fail", "preFail", "publish"}
    Overlap = FALSE
    Failures = {}
    MaxCommands = 2
    MaxCrashes = 1
    MaxFaults = 1
    None = None
SPECIFICATION Spec
INVARIANTS TypeOK PublicationIsVerified PauseHolds CancelHolds IdleIsResumable
