SPECIFICATION RoutedFrom
CONSTANTS
    s1 = s1  s2 = s2
    d1 = d1  d2 = d2  k1 = k1
    m1 = m1  m2 = m2  n1 = n1
    ip1 = ip1  ip2 = ip2
    NoStack = NoStack  NoReq = NoReq  NoIP = NoIP  NoModel = NoModel
    Stacks = {s1, s2}
    Requests = {d1, d2, k1}
    Models = {m1, m2}
    IPs = {ip1, ip2}
    Op <- MCOp
    StackOf <- MCStackOf
    ModelOf <- MCModelOf
    DepOf <- MCDepOf
    MaxRetry = 0
    Concurrency = 1
    FaultBudget <- NoFaults
    ClientWaits = TRUE
    Names = {n1}
    NameOf <- MCNameOf
    Proxied = {q1, q2}
    HasDefaultTarget = TRUE
    Spellings = {"stored"}
    TTL = 2
    RRPeriod = 2
    RedisAttempts = 4
    MaxGlitches = 1
INVARIANTS
    SteadyIsServed
    OutrunIsInvalidated
PROPERTIES
    TurnsRotate
    RoutesConverge
