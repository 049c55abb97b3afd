SPECIFICATION ServerFairSpec
CONSTANTS
    n1 = n1
    Callers = {c1, c2, l1}
    Listers = {l1}
    Names = {n1}
    NameOf <- OneName
    NoOrg = NoOrg
    MaxErrors = 1
INVARIANTS
    OrgInv
    OneOrganization
    NamesAreUnique
    FailsForCause
    CleanExitDrains
    ReadyIsTrue
PROPERTIES
    SignalledExits
    ProbeIsAnswered
