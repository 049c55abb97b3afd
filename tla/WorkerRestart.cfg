SPECIFICATION WorkerFairSpec
CONSTANTS
    t1 = t1
    t2 = t2
    Tasks = {t1, t2}
    Concurrency = 2
    MaxRetry = 1
    MaxSignals = 2
    MaxCrashes = 1
INVARIANTS
    OneLiveHandler
    OneShutdown
    WorkerInv
PROPERTIES
    TasksSettle
    SignalledStops
