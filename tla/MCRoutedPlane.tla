--------------------------- MODULE MCRoutedPlane ---------------------------
(***************************************************************************)
(* The behaviours of RoutedPlane from the moment at which two stacks have  *)
(* been provisioned, one VM each, and the model is deployed on the second. *)
(* Then one of the same name, in another namespace, is deployed on the     *)
(* first, so that the name has two targets, and deleted from it again.     *)
(***************************************************************************)
EXTENDS RoutedPlane, TLC

CONSTANTS s1, s2, d1, d2, k1, m1, m2, n1, ip1, ip2

MCOp == [r \in Requests |-> IF r = k1 THEN "delete" ELSE "deploy"]
MCStackOf == [r \in Requests |-> IF r = d2 THEN s2 ELSE s1]
MCModelOf == [r \in Requests |-> IF r = d2 THEN m2 ELSE m1]
MCNameOf == [m \in Models |-> n1]
MCDepOf == [r \in Requests |-> IF r = k1 THEN d1 ELSE r]

VMs == (s1 :> ip1) @@ (s2 :> ip2)

Deployed ==
    /\ clusters = [s \in Stacks |-> [status |-> "active", addr |-> VMs[s]]]
    /\ infra = VMs
    /\ deployments = [d \in Requests |->
         IF d = d2 THEN [status |-> "active", cluster |-> s2, url |-> ip2]
         ELSE [status |-> Absent, cluster |-> NoStack, url |-> NoIP]]
    /\ kube = {<<ip2, m2>>}
    /\ jobs = [r \in Requests |-> IF r = d2 THEN "completed" ELSE Absent]
    /\ tasks = [t \in TaskIds |-> NoTask]
    /\ runs = [t \in TaskIds |-> NoRun]
    /\ reqs = [r \in Requests |->
         IF r = d2 THEN [pc |-> "accepted", cluster |-> s2]
         ELSE [pc |-> "unsent", cluster |-> NoStack]]
    /\ faults = [k \in FaultKinds |-> 0]

DeployedInit == Deployed /\ HistoryInit

RoutedFrom == DeployedInit /\ [][RoutedNext]_allVars /\ RoutedFairness

NoFaults == [k \in FaultKinds |-> 0]
=============================================================================
