SPECIFICATION FairSpec
CONSTANTS
    Procs = {server, worker1, worker2}
    Version <- EmbeddedVersions
    MaxErrors = 1
    MaxStarts = 2
INVARIANTS
    MigrationsTypeOK
    RecordedRanOnce
    ServingIsMigrated
PROPERTIES
    SomeoneServes
