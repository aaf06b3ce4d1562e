SPECIFICATION PersistentOperator
CONSTANTS
    MaxRelaunches = 1
    Window = 2
    Backoff = 1
    Horizon = 4
PROPERTIES
    RestartClearsLatch
