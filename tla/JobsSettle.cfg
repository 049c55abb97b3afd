SPECIFICATION FairSpec
CONSTANTS
    s1 = s1  s2 = s2
    p1 = p1  p2 = p2  p3 = p3  x1 = x1  d1 = d1  k1 = k1
    m1 = m1  ip1 = ip1  ip2 = ip2
    NoStack = NoStack  NoReq = NoReq  NoIP = NoIP
    Stacks = {s1}
    Requests = {p1, p2, x1, d1}
    Models = {m1}
    IPs = {ip1}
    Op <- MCOp
    StackOf <- DefaultStack
    ModelOf <- OneModel
    DepOf <- DeploymentOf
    MaxRetry = 1
    Concurrency = 1
    FaultBudget <- ExternalAndRestart
    ClientWaits = FALSE
INVARIANTS
    AcceptedJobTracked
    TaskHasRow
PROPERTIES
    AcceptedJobSettles
