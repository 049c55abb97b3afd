SPECIFICATION WorkerFairSpec
CONSTANTS
    t1 = t1
    t2 = t2
    Tasks = {t1, t2}
    Concurrency = 2
    MaxRetry = 1
    MaxSignals = 1
    MaxCrashes = 0
PROPERTIES
    ExitIsGraceful
