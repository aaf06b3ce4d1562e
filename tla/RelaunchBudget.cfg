SPECIFICATION Spec
CONSTANTS
    MaxRelaunches = 2
    Window = 4
    Backoff = 1
    Horizon = 10
INVARIANTS
    TypeOK
    AdmissionsWithinBudget
    NoRelaunchOverRunningWorker
PROPERTIES
    BackoffRespected
    ExhaustionIsFinal
    ContainedWorkerRecovers
