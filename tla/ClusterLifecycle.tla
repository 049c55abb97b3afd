-------------------------- MODULE ClusterLifecycle --------------------------
(***************************************************************************)
(* What the control plane promises about a cluster to a client that waits  *)
(* for its requests to settle: the status of its row, the address the row  *)
(* holds, and the VM, move together in this way and in no other.           *)
(***************************************************************************)
CONSTANTS Stacks, IPs, NoIP

VARIABLES status, addr, vm

lifecycle == <<status, addr, vm>>

Statuses == {"absent", "provisioning", "installing", "active", "failed",
             "destroying", "destroyed"}

LifecycleTypeOK ==
    /\ status \in [Stacks -> Statuses]
    /\ addr \in [Stacks -> IPs \cup {NoIP}]
    /\ vm \in [Stacks -> IPs \cup {NoIP}]

LifecycleInit ==
    /\ status = [s \in Stacks |-> "absent"]
    /\ addr = [s \in Stacks |-> NoIP]
    /\ vm = [s \in Stacks |-> NoIP]

Move(s, from, to) == /\ status[s] \in from
                     /\ status' = [status EXCEPT ![s] = to]

\* A provision request takes a stack that is free, and forgets its address.
Claim(s) == /\ Move(s, {"absent", "failed", "destroyed"}, "provisioning")
            /\ addr' = [addr EXCEPT ![s] = NoIP]
            /\ UNCHANGED vm

\* A provision run starts, or starts again after a failure or a loss.
Install(s) == /\ Move(s, {"provisioning", "installing", "failed", "active"},
                      "installing")
              /\ UNCHANGED <<addr, vm>>

\* The VM comes and goes only under these two statuses.
ChangeVM(s) == /\ status[s] \in {"installing", "destroying"}
               /\ \E ip \in IPs \cup {NoIP} : vm' = [vm EXCEPT ![s] = ip]
               /\ UNCHANGED <<status, addr>>

Activate(s) == /\ Move(s, {"installing"}, "active")
               /\ vm[s] # NoIP
               /\ addr' = [addr EXCEPT ![s] = vm[s]]
               /\ UNCHANGED vm

Abandon(s) == /\ Move(s, {"installing", "destroying"}, "failed")
              /\ UNCHANGED <<addr, vm>>

\* A destroy run starts, or starts again after a failure or a loss.
Retire(s) == /\ Move(s, {"active", "failed", "destroying", "destroyed"},
                     "destroying")
             /\ UNCHANGED <<addr, vm>>

Release(s) == /\ Move(s, {"destroying"}, "destroyed")
              /\ vm[s] = NoIP
              /\ addr' = [addr EXCEPT ![s] = NoIP]
              /\ UNCHANGED vm

LifecycleNext ==
    \E s \in Stacks : \/ Claim(s) \/ Install(s) \/ ChangeVM(s) \/ Activate(s)
                      \/ Abandon(s) \/ Retire(s) \/ Release(s)

LifecycleSpec == LifecycleInit /\ [][LifecycleNext]_lifecycle

(***************************************************************************)
(* The promise in one formula: an active cluster is backed by the VM its   *)
(* row points at, a destroyed one has neither VM nor address.              *)
(***************************************************************************)
StatusTellsVM ==
    \A s \in Stacks :
        /\ status[s] = "active" => vm[s] # NoIP /\ addr[s] = vm[s]
        /\ status[s] \in {"absent", "destroyed"} => vm[s] = NoIP /\ addr[s] = NoIP
=============================================================================
