SPECIFICATION Spec
CONSTANTS
    Procs = {server, worker1}
    Version <- EmbeddedVersions
    MaxErrors = 0
    MaxStarts = 0
INVARIANTS
    ServingRanEveryFile
