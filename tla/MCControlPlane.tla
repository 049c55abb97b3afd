--------------------------- MODULE MCControlPlane ---------------------------
(***************************************************************************)
(* The workloads and the fault budgets of the TLC runs of ControlPlane.    *)
(* A request may stay unsent, so a workload stands for all its subsets.    *)
(***************************************************************************)
EXTENDS ControlPlane, TLC

CONSTANTS s1, s2,                  \* stacks
          p1, p2, p3, x1,          \* provision and destroy requests
          d1, k1,                  \* deploy and delete requests
          m1, ip1, ip2             \* model, addresses

OpOf(r) == CASE r \in {p1, p2, p3} -> "provision"
             [] r = x1 -> "destroy"
             [] r = d1 -> "deploy"
             [] r = k1 -> "delete"

MCOp == [r \in Requests |-> OpOf(r)]

\* Everything is about one stack.
OneStack == [r \in Requests |-> s1]

\* Deploys and deletes leave the choice of the cluster to the server; the
\* last provision request is for the second stack.
DefaultStack == [r \in Requests |->
    IF r \in {d1, k1} THEN NoStack
    ELSE IF r = p3 THEN s2 ELSE s1]

DeploymentOf == [r \in Requests |-> IF r = k1 THEN d1 ELSE r]

OneModel == [r \in Requests |-> m1]

Budget(io, ext, lost, restart, abort) ==
    [k \in FaultKinds |-> CASE k = "io" -> io [] k = "ext" -> ext
                            [] k = "lost" -> lost [] k = "restart" -> restart
                            [] k = "abort" -> abort]

NoFaults == Budget(0, 0, 0, 0, 0)
ExternalOnly == Budget(0, 2, 0, 0, 0)
ExternalAndLost == Budget(0, 2, 2, 1, 1)
StoreAndLost == Budget(1, 0, 1, 0, 0)
LostTwice == Budget(0, 0, 2, 0, 0)
ExternalAndRestart == Budget(0, 2, 0, 1, 0)

\* Addresses are interchangeable.
IPSymmetry == Permutations({ip1, ip2})
=============================================================================
