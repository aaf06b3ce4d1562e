CONSTANTS
    Models = {a}
    weights = weights
    index = index
    Files = {index}
    Size <- SizeForTLC
    Width = 2
    Lingering = {}
    Overlap = FALSE
    Failures = {"disconnect"}
    MaxCommands = 2
    MaxCrashes = 0
    MaxFaults = 1
    None = None
SPECIFICATION Spec
INVARIANT PauseHolds
