CONSTANTS
    Models = {a}
    weights = weights
    index = index
    Files = {index}
    Size <- SizeForTLC
    Width = 2
    Lingering = {"create"}
    Overlap = FALSE
    Failures = {}
    MaxCommands = 1
    MaxCrashes = 0
    MaxFaults = 0
    None = None
SPECIFICATION Spec
INVARIANT CancelHolds
