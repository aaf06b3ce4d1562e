CONSTANTS
    Models = {a}
    weights = weights
    index = index
    Files = {index}
    Size <- SizeForTLC
    Width = 2
    Lingering = {"recover", "replace"}
    Overlap = TRUE
    Failures = {}
    MaxCommands = 2
    MaxCrashes = 0
    MaxFaults = 0
    None = None
SPECIFICATION Spec
INVARIANT PauseHolds
