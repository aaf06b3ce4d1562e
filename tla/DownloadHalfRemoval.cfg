CONSTANTS
    Models = {a}
    weights = weights
    index = index
    Files = {index}
    Size <- SizeForTLC
    Width = 2
    Lingering = {"intent"}
    Overlap = FALSE
    Failures = {"removal"}
    MaxCommands = 1
    MaxCrashes = 0
    MaxFaults = 1
    None = None
SPECIFICATION Spec
CHECK_DEADLOCK FALSE
INVARIANT PublicationIsVerified
