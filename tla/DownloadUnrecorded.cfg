CONSTANTS
    Models = {a}
    weights = weights
    index = index
    Files = {index}
    Size <- SizeForTLC
    Width = 2
    Lingering = {}
    Overlap = FALSE
    Failures = {"report"}
    MaxCommands = 0
    MaxCrashes = 0
    MaxFaults = 1
    None = None
SPECIFICATION Spec
INVARIANT IdleIsResumable
