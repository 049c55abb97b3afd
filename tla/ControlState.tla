---------------------------- MODULE ControlState ----------------------------
(***************************************************************************)
(* The state shared by Tark's API server and worker:                       *)
(*                                                                         *)
(*   clusters, deployments, jobs   the PostgreSQL tables (internal/store)  *)
(*   tasks                         the Asynq tasks kept in Redis           *)
(*   runs                          the handler goroutines of the worker    *)
(*   reqs                          the HTTP requests of the API server     *)
(*   infra, kube                   the cloud VMs and the Kubernetes        *)
(*                                 objects that live on them               *)
(*   faults                        how many faults of each kind happened   *)
(*                                                                         *)
(* A workload is a set of HTTP requests, each of which may or may not be   *)
(* sent, at any time.  A request stands for the job ID generated for it    *)
(* and, when it deploys a model, for the ID of the deployment it creates.  *)
(* A stack name stands for the ID of the cluster row that has this name:   *)
(* rows are never deleted and names are unique, so the two correspond.     *)
(***************************************************************************)
EXTENDS Naturals, FiniteSets

CONSTANTS
    Stacks,       \* stack names (= cluster IDs)
    NoStack,      \* the empty cluster ID of a request or a task payload
    Requests,     \* the HTTP requests of the workload
    NoReq,        \* no request
    Models,       \* (namespace, name) pairs of model deployments
    IPs,          \* public addresses the cloud can assign to a VM
    NoIP,         \* no address: an empty public_ip or kubeconfig, no VM
    Op,           \* what a request asks for
    StackOf,      \* the stack a request names (NoStack: none was given)
    ModelOf,      \* the model a request deploys or deletes
    DepOf,        \* the deployment a request creates or deletes
    MaxRetry,     \* asynq.MaxRetry of every task
    Concurrency,  \* asynq.Config.Concurrency of the worker
    FaultBudget,  \* how many faults of each kind a behaviour may contain
    ClientWaits   \* TRUE: a request is sent only when its stack is quiet

ClusterOps == {"provision", "destroy"}
ModelOps == {"deploy", "delete"}

(***************************************************************************)
(* The faults.  "io": a call of the store or of Redis returns an error.    *)
(* "ext": a call of Pulumi, SSH or Kubernetes returns an error.  "lost": a *)
(* task's timeout or lease expires, or the worker crashes.  "restart": the *)
(* worker stops gracefully and pushes its tasks back.  "abort": the API    *)
(* server dies in the middle of a request.                                 *)
(*                                                                         *)
(* A client that goes away does not end its handler: the store calls that  *)
(* follow fail with the context of the request ("io"), but the enqueue has *)
(* a context of its own.                                                   *)
(***************************************************************************)
FaultKinds == {"io", "ext", "lost", "restart", "abort"}

ASSUME ConstantsAssumption ==
    /\ NoStack \notin Stacks
    /\ NoReq \notin Requests
    /\ NoIP \notin IPs
    /\ Op \in [Requests -> ClusterOps \cup ModelOps]
    /\ StackOf \in [Requests -> Stacks \cup {NoStack}]
    /\ ModelOf \in [Requests -> Models]
    /\ DepOf \in [Requests -> Requests]
    /\ MaxRetry \in Nat
    /\ Concurrency \in Nat \ {0}
    /\ FaultBudget \in [FaultKinds -> Nat]
    /\ ClientWaits \in BOOLEAN

(***************************************************************************)
(* Cluster requests name a stack.  A deploy request creates a deployment   *)
(* of its own; a delete request names the deployment of a deploy request.  *)
(***************************************************************************)
ASSUME WorkloadAssumption ==
    \A r \in Requests :
        /\ Op[r] \in ClusterOps => StackOf[r] \in Stacks
        /\ Op[r] = "deploy" => DepOf[r] = r
        /\ Op[r] = "delete" => /\ Op[DepOf[r]] = "deploy"
                               /\ StackOf[r] = StackOf[DepOf[r]]
                               /\ ModelOf[r] = ModelOf[DepOf[r]]

(***************************************************************************)
(* The task a request enqueues.  Its ID is what Asynq deduplicates on:     *)
(* "provision:<cluster>", "destroy:<stack>", "deploy:<deployment>" and     *)
(* "delete:<deployment>".                                                  *)
(***************************************************************************)
TaskOf(r) == [kind |-> Op[r],
              id   |-> IF Op[r] \in ClusterOps THEN StackOf[r] ELSE DepOf[r]]

TaskIds == {TaskOf(r) : r \in Requests}

ClusterStatus == {"provisioning", "installing", "active", "failed",
                  "destroying", "destroyed"}
DeploymentStatus == {"pending", "building", "deploying", "active", "failed",
                     "deleting", "deleted", "orphaned"}
JobStatus == {"queued", "running", "completed", "failed"}

\* No row has this status: it marks the rows that do not exist.
Absent == "absent"

(***************************************************************************)
(* Where a request is in its handler, and where a run is in its handler.   *)
(***************************************************************************)
InFlight == {"create", "reset", "record", "enqueue"}
Answered == {"accepted", "conflict", "error", "aborted"}
RequestPC == {"unsent"} \cup InFlight \cup Answered

RunPC == {"idle", "installing", "running", "up", "fetch", "destroying",
          "destroy", "cascade", "building", "connect", "apply", "deploying",
          "wait", "deleting", "remove", "save", "complete", "ok",
          "markFailed", "failJob", "err"}

VARIABLES clusters, deployments, jobs, tasks, runs, reqs, infra, kube, faults

vars == <<clusters, deployments, jobs, tasks, runs, reqs, infra, kube, faults>>

(***************************************************************************)
(* The kubeconfig and the public IP of a cluster row are written together  *)
(* and never apart; addr is the VM that both point at.  The kubeconfig is  *)
(* rewritten to the public IP before it is stored.                         *)
(***************************************************************************)
ClusterRow == [status : ClusterStatus \cup {Absent}, addr : IPs \cup {NoIP}]
DeploymentRow == [status  : DeploymentStatus \cup {Absent},
                  cluster : Stacks \cup {NoStack},
                  url     : IPs \cup {NoIP}]
TaskRow == [state   : {"none", "waiting", "active", "archived"},
            job     : Requests \cup {NoReq},
            retried : 0 .. MaxRetry]
Run == [pc : RunPC, ip : IPs \cup {NoIP}]
Request == [pc : RequestPC, cluster : Stacks \cup {NoStack}]

NoTask == [state |-> "none", job |-> NoReq, retried |-> 0]
NoRun == [pc |-> "idle", ip |-> NoIP]

TypeOK ==
    /\ clusters \in [Stacks -> ClusterRow]
    /\ deployments \in [Requests -> DeploymentRow]
    /\ jobs \in [Requests -> JobStatus \cup {Absent}]
    /\ tasks \in [TaskIds -> TaskRow]
    /\ runs \in [TaskIds -> Run]
    /\ reqs \in [Requests -> Request]
    /\ infra \in [Stacks -> IPs \cup {NoIP}]
    /\ kube \subseteq IPs \X Models
    /\ faults \in [FaultKinds -> Nat]

Init ==
    /\ clusters = [s \in Stacks |-> [status |-> Absent, addr |-> NoIP]]
    /\ deployments = [d \in Requests |->
                        [status |-> Absent, cluster |-> NoStack, url |-> NoIP]]
    /\ jobs = [r \in Requests |-> Absent]
    /\ tasks = [t \in TaskIds |-> NoTask]
    /\ runs = [t \in TaskIds |-> NoRun]
    /\ reqs = [r \in Requests |-> [pc |-> "unsent", cluster |-> NoStack]]
    /\ infra = [s \in Stacks |-> NoIP]
    /\ kube = {}
    /\ faults = [k \in FaultKinds |-> 0]

-----------------------------------------------------------------------------
(* Faults *)

Fault(k) == /\ faults[k] < FaultBudget[k]
            /\ faults' = [faults EXCEPT ![k] = @ + 1]

NoFault == UNCHANGED faults

-----------------------------------------------------------------------------
(* The store (internal/store/postgres.go).  An UPDATE of a row that does   *)
(* not exist changes nothing and is not an error.                          *)

ClusterExists(s) == clusters[s].status # Absent
DeploymentExists(d) == deployments[d].status # Absent

CreateCluster(s) ==
    /\ ~ClusterExists(s)
    /\ clusters' = [clusters EXCEPT
                      ![s] = [status |-> "provisioning", addr |-> NoIP]]

UpdateClusterDetails(s, st, ip) ==
    clusters' = [clusters EXCEPT
                   ![s] = IF @.status = Absent THEN @
                          ELSE [status |-> st, addr |-> ip]]

ResetCluster(s) == UpdateClusterDetails(s, "provisioning", NoIP)

UpdateClusterStatus(s, st) == UpdateClusterDetails(s, st, clusters[s].addr)

CreateDeployment(d, s) ==
    deployments' = [deployments EXCEPT
                      ![d] = [status |-> "pending", cluster |-> s, url |-> NoIP]]

UpdateDeploymentServiceURL(d, st, ip) ==
    deployments' = [deployments EXCEPT
                      ![d] = IF @.status = Absent THEN @
                             ELSE [status |-> st, cluster |-> @.cluster, url |-> ip]]

UpdateDeploymentStatus(d, st) ==
    UpdateDeploymentServiceURL(d, st, deployments[d].url)

UpdateDeploymentsStatusByCluster(s, st) ==
    deployments' = [d \in Requests |->
        IF /\ deployments[d].cluster = s
           /\ deployments[d].status \notin {Absent, "deleted", "failed"}
        THEN [deployments[d] EXCEPT !.status = st]
        ELSE deployments[d]]

CreateJob(r) == jobs' = [jobs EXCEPT ![r] = "queued"]

UpdateJobStatus(r, st) ==
    jobs' = [jobs EXCEPT ![r] = IF @ = Absent THEN @ ELSE st]

-----------------------------------------------------------------------------
(* The task queue, as the worker package uses Asynq (external).            *)

TaskStack(t) == reqs[tasks[t].job].cluster

Live(t) == tasks[t].state \in {"waiting", "active"}

At(t, kind, pc) == t.kind = kind /\ runs[t].pc = pc

Goto(t, pc) == runs' = [runs EXCEPT ![t].pc = pc]

(***************************************************************************)
(* Which stacks a request may touch, and when a client that waits for its  *)
(* earlier requests to settle sends this one.                              *)
(***************************************************************************)
Touches(r) == IF StackOf[r] = NoStack THEN Stacks ELSE {StackOf[r]}

Quiet(r) ==
    \A q \in Requests :
        Touches(q) \cap Touches(r) # {} =>
            /\ reqs[q].pc \notin InFlight
            /\ ~Live(TaskOf(q))

MaySend(r, op) == /\ Op[r] = op
                  /\ reqs[r].pc = "unsent"
                  /\ ClientWaits => Quiet(r)

Answer(r, pc) == reqs' = [reqs EXCEPT ![r].pc = pc]

AnswerFor(r, s, pc) == reqs' = [reqs EXCEPT ![r] = [pc |-> pc, cluster |-> s]]
=============================================================================
