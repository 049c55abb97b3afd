---------------------------- MODULE ControlPlane ----------------------------
(***************************************************************************)
(* The control plane: API server and worker together, over the shared      *)
(* database and the shared queue.                                          *)
(***************************************************************************)
EXTENDS ClusterControl, ModelControl

\* The whole workload is answered and the queue is drained.
Finished == /\ \A r \in Requests : reqs[r].pc \in Answered
            /\ \A t \in TaskIds : ~Live(t)
            /\ UNCHANGED vars

Next == JobNext \/ ClusterNext \/ ModelNext \/ Finished

Spec == Init /\ [][Next]_vars

-----------------------------------------------------------------------------
(***************************************************************************)
(* Fairness.  A handler that is running takes its next step: a request is  *)
(* served until it is answered, a run goes on until it returns, and the    *)
(* worker polls its queues, so that a waiting task is started when a slot  *)
(* stays free.  Sending a request and every fault are not fair.            *)
(***************************************************************************)
HandlerStep(r) ==
    \/ CreateClusterRow(r) \/ ResetClusterRow(r) \/ CreateDeploymentRow(r)
    \/ CreateJobRecord(r) \/ Enqueue(r)

RunStep(t) ==
    \/ SetInstalling(t) \/ ProvisionCluster(t) \/ FetchKubeconfig(t)
    \/ SaveActive(t) \/ SetDestroying(t) \/ DestroyCluster(t)
    \/ SaveDestroyed(t) \/ OrphanDeployments(t) \/ MarkClusterFailed(t)
    \/ Connect(t) \/ MarkDeploymentFailed(t) \/ SetBuilding(t)
    \/ ApplyModel(t) \/ SetDeploying(t) \/ WaitHealthy(t) \/ SaveDeployed(t)
    \/ SetDeleting(t) \/ RemoveModel(t) \/ SaveDeleted(t)
    \/ JobRunning(t) \/ CompleteJob(t) \/ FailJob(t)
    \/ ReturnNil(t) \/ ReturnErr(t)

Fairness == /\ \A r \in Requests : WF_vars(HandlerStep(r))
            /\ \A t \in TaskIds : WF_vars(StartTask(t)) /\ WF_vars(RunStep(t))

FairSpec == Spec /\ Fairness

-----------------------------------------------------------------------------
(* Safety, whatever the interleaving and whatever fails                    *)

(***************************************************************************)
(* Every row that the handler of a queued or running task updates exists,  *)
(* and is the row of the cluster the task was accepted for: an UPDATE by   *)
(* the worker is never silently lost on a missing row.  The API handlers   *)
(* write the row before they enqueue, and only enqueue if that succeeded.  *)
(***************************************************************************)
TaskHasRow ==
    \A t \in TaskIds : Live(t) =>
        LET s == TaskStack(t) IN
        /\ t.kind = "provision" => s = t.id
        /\ t.kind = "destroy" => s \in {t.id, NoStack}
        /\ t.kind \in ModelOps => /\ DeploymentExists(t.id)
                                  /\ deployments[t.id].cluster = s
                                  /\ s # NoStack
        /\ s # NoStack => ClusterExists(s)

Unsettled(r) == jobs[r] \in {"queued", "running"}

(***************************************************************************)
(* As long as no call of the store or of Redis fails, a job that was       *)
(* accepted and that polls as queued or running has its task in the queue: *)
(* no request is forgotten.  Its task can be archived only if a run was    *)
(* lost (timeout, lease, crash).                                           *)
(***************************************************************************)
AcceptedJobTracked ==
    faults["io"] = 0 =>
        \A r \in Requests :
            reqs[r].pc = "accepted" /\ Unsettled(r) =>
                /\ tasks[TaskOf(r)].job = r
                /\ tasks[TaskOf(r)].state = "archived" => faults["lost"] > 0

-----------------------------------------------------------------------------
(* The inductive invariant behind TaskHasRow and AcceptedJobTracked        *)

\* The task that Redis holds under an ID was enqueued by a request for it.
QueueInv ==
    \A t \in TaskIds :
        /\ tasks[t].state = "none" <=> tasks[t].job = NoReq
        /\ tasks[t].state = "active" <=> runs[t].pc # "idle"
        /\ tasks[t].job # NoReq =>
              /\ TaskOf(tasks[t].job) = t
              /\ reqs[tasks[t].job].pc \in {"accepted", "error"}

\* The rows that the task of request r works on.
HasRows(r) ==
    LET s == reqs[r].cluster IN
    /\ Op[r] = "provision" => s = StackOf[r]
    /\ Op[r] = "destroy" => s \in {StackOf[r], NoStack}
    /\ Op[r] \in ModelOps => /\ DeploymentExists(DepOf[r])
                             /\ deployments[DepOf[r]].cluster = s
                             /\ s # NoStack
    /\ s # NoStack => ClusterExists(s)

(***************************************************************************)
(* A request has its rows from the moment it is past the step that writes  *)
(* them, a deployment has no row before its request wrote it, and each     *)
(* request is at a step of its own handler.                                *)
(***************************************************************************)
RowInvOf(r) ==
    /\ \/ reqs[r].pc \in {"record", "enqueue"}
       \/ tasks[TaskOf(r)].job = r
       => HasRows(r)
    /\ reqs[r].pc = "reset" => /\ Op[r] = "provision"
                               /\ reqs[r].cluster = StackOf[r]
                               /\ ClusterExists(StackOf[r])
    /\ reqs[r].pc = "create" =>
          /\ Op[r] \in {"provision", "deploy"}
          /\ Op[r] = "provision" => reqs[r].cluster = StackOf[r]
          /\ Op[r] = "deploy" => /\ reqs[r].cluster # NoStack
                                 /\ ClusterExists(reqs[r].cluster)
    /\ Op[r] = "deploy" /\ reqs[r].pc \in {"unsent", "create"} =>
          ~DeploymentExists(r)

\* The foreign key of deployments.
HasCluster(d) ==
    DeploymentExists(d) => /\ deployments[d].cluster # NoStack
                           /\ ClusterExists(deployments[d].cluster)

RowInv == \A r \in Requests : RowInvOf(r) /\ HasCluster(r)

\* A run that is about to return has settled its job.
ReturnInv ==
    faults["io"] = 0 =>
        \A t \in TaskIds :
            runs[t].pc \in {"ok", "err"} => ~Unsettled(tasks[t].job)

ControlInv == TypeOK /\ QueueInv /\ RowInv /\ ReturnInv /\ AcceptedJobTracked

-----------------------------------------------------------------------------
(* Safety when clients wait for their requests to settle (ClientWaits) and *)
(* no call of the store fails                                              *)

(***************************************************************************)
(* A cluster that is reported active is backed by the VM whose address and *)
(* credentials its row holds, whatever Pulumi calls failed and whatever    *)
(* runs were lost on the way.                                              *)
(***************************************************************************)
ActiveIsBacked ==
    \A s \in Stacks :
        clusters[s].status = "active" => /\ clusters[s].addr # NoIP
                                         /\ infra[s] = clusters[s].addr

\* A cluster that is reported destroyed has no VM left that costs money.
DestroyedIsGone ==
    \A s \in Stacks : clusters[s].status = "destroyed" => infra[s] = NoIP

(***************************************************************************)
(* "Cascade the destruction event to any running model deployments": when  *)
(* the destroy task is done with a cluster, no deployment of that cluster  *)
(* is still reported as running or as about to run.                        *)
(***************************************************************************)
DestroyIsCascaded ==
    \A t \in TaskIds :
        /\ t.kind = "destroy"
        /\ clusters[t.id].status = "destroyed"
        /\ tasks[t].state = "none"
        => \A d \in Requests :
              deployments[d].cluster = t.id =>
                  deployments[d].status \notin
                      {"pending", "building", "deploying", "active"}

\* Asynq has given up on the destruction of the stack.
GivenUp(s) == \E t \in TaskIds :
    t.kind = "destroy" /\ t.id = s /\ tasks[t].state = "archived"

\* Another deployment of the same name was made on the same cluster.
SharesName(d) == \E q \in Requests \ {d} :
    /\ DeploymentExists(q)
    /\ ModelOf[q] = ModelOf[d]
    /\ deployments[q].cluster = deployments[d].cluster

\* The deployment is on the VM of its cluster, and its url says so.
Served(d) == /\ deployments[d].url = infra[deployments[d].cluster]
             /\ <<deployments[d].url, ModelOf[d]>> \in kube

(***************************************************************************)
(* A deployment the proxy routes to (active, on an active cluster) points  *)
(* at the VM of its cluster, and the model's objects are there.  It takes  *)
(* that no Pulumi or Kubernetes call failed, that Asynq did not give up on *)
(* the destruction of the cluster (a destroy that ends half way, or before *)
(* its cascade, leaves the deployments of the old VM active for the next   *)
(* one), and that no other deployment had the same objects.                *)
(***************************************************************************)
RoutedIsServed ==
    faults["ext"] = 0 =>
    \A d \in Requests :
        /\ deployments[d].status = "active"
        /\ clusters[deployments[d].cluster].status = "active"
        /\ ~GivenUp(deployments[d].cluster)
        /\ ~SharesName(d)
        => Served(d)

-----------------------------------------------------------------------------
(* The inductive invariant behind these                                    *)

\* Clients wait for their requests to settle, and the store does not fail.
Patient == ClientWaits /\ FaultBudget["io"] = 0

\* The request is being handled, or its task is queued or running.
Busy(r) == \/ reqs[r].pc \in InFlight
           \/ tasks[TaskOf(r)].job = r /\ Live(TaskOf(r))

\* At most one request or task at a time is under way for a stack.
OneAtATime ==
    \A q, r \in Requests :
        Busy(q) /\ Busy(r) /\ q # r => Touches(q) \cap Touches(r) = {}

\* What a request found or wrote still holds: nobody else is at work there.
RequestFits(r) ==
    LET status == clusters[StackOf[r]].status IN
    /\ Op[r] = "provision" =>
          /\ reqs[r].pc = "reset" => status \in {"destroyed", "failed"}
          /\ reqs[r].pc \in {"record", "enqueue"} => status = "provisioning"
    /\ Op[r] = "destroy" /\ reqs[r].pc \in {"record", "enqueue"} =>
          IF reqs[r].cluster = NoStack THEN status = Absent
          ELSE status \in {"active", "failed", "destroying"}
    /\ Op[r] = "deploy" /\ Busy(r) =>
          /\ reqs[r].cluster \in Touches(r)
          /\ clusters[reqs[r].cluster].status = "active"

\* A provision run works on a stack that is installing, and knows its VM.
ProvisionFits(t) ==
    LET status == clusters[t.id].status
        pc == runs[t].pc
    IN
    /\ status \in {"provisioning", "installing", "failed", "active"}
    /\ pc \in {"running", "up", "fetch", "save", "markFailed"} => status = "installing"
    /\ pc \in {"fetch", "save"} => runs[t].ip # NoIP /\ infra[t.id] = runs[t].ip

\* A destroy run works on a stack that is destroying, or that never was.
DestroyFits(t) ==
    LET status == clusters[t.id].status
        pc == runs[t].pc
    IN
    IF TaskStack(t) = NoStack THEN status = Absent
    ELSE /\ status \in {"active", "failed", "destroying", "destroyed"}
         /\ pc \in {"destroy", "save", "markFailed"} => status = "destroying"
         /\ pc = "save" => infra[t.id] = NoIP
         /\ pc = "cascade" => status = "destroyed"

RunFits(t) == Live(t) => /\ t.kind = "provision" => ProvisionFits(t)
                         /\ t.kind = "destroy" => DestroyFits(t)

VMFits(s) ==
    /\ clusters[s].status = Absent => infra[s] = NoIP
    /\ clusters[s].status = "active" => /\ clusters[s].addr # NoIP
                                        /\ infra[s] = clusters[s].addr
    /\ clusters[s].status = "destroyed" => infra[s] = NoIP

\* A deployment is on a cluster that its request may touch.
Placed(d) == DeploymentExists(d) => deployments[d].cluster \in Touches(d)

StackInv == /\ OneAtATime
            /\ \A d \in Requests : Placed(d)
            /\ \A r \in Requests : RequestFits(r)
            /\ \A t \in TaskIds : RunFits(t)
            /\ \A s \in Stacks : VMFits(s)

Running == {"pending", "building", "deploying", "active"}

\* A destroyed stack has no running deployment, or its cascade is to come.
Cascaded(s) ==
    clusters[s].status = "destroyed" =>
        \/ \A d \in Requests :
              deployments[d].cluster = s => deployments[d].status \notin Running
        \/ \E t \in TaskIds : /\ t.kind = "destroy" /\ t.id = s
                              /\ tasks[t].state # "none"
                              /\ runs[t].pc \notin {"complete", "ok"}

CascadeInv == \A s \in Stacks : Cascaded(s)

\* The runs of the model handlers, and the objects that they work on.
ModelRunFits(t) ==
    /\ t.kind = "deploy" =>
          /\ runs[t].pc \in {"apply", "deploying", "wait", "save"} =>
                runs[t].ip = clusters[TaskStack(t)].addr
          /\ runs[t].pc = "save" => Objects(t) \subseteq kube
    /\ t.kind = "delete" /\ runs[t].pc \notin {"idle", "deleting"} =>
          deployments[t.id].status # "active"

DistinctVMs == \A x, y \in Stacks :
    infra[x] = infra[y] /\ infra[x] # NoIP => x = y

NothingFailed == /\ \A s \in Stacks : clusters[s].status # "failed"
                 /\ \A t \in TaskIds : t.kind \in ClusterOps => runs[t].pc # "markFailed"

\* Nobody provisions a stack that still has a deployment to be routed to.
NoneLeftBehind(r) ==
    Op[r] = "provision" /\ Busy(r) =>
        \A d \in Requests :
            /\ deployments[d].status = "active"
            /\ deployments[d].cluster = StackOf[r]
            => GivenUp(StackOf[r])

ServedInv ==
    /\ \A t \in TaskIds : ModelRunFits(t)
    /\ DistinctVMs
    /\ faults["ext"] = 0 => NothingFailed /\ \A r \in Requests : NoneLeftBehind(r)
    /\ RoutedIsServed

(***************************************************************************)
(* A patient client's requests and their tasks have their stack to         *)
(* themselves and find in the rows, the VMs and the objects what the steps *)
(* before them left, whatever fails, is lost or is repeated in between.    *)
(***************************************************************************)
SerialInv == StackInv /\ CascadeInv /\ ServedInv

(***************************************************************************)
(* The cluster rows and the VMs follow the lifecycle of ClusterLifecycle.  *)
(***************************************************************************)
Lifecycle == INSTANCE ClusterLifecycle WITH
    status <- [s \in Stacks |-> clusters[s].status],
    addr   <- [s \in Stacks |-> clusters[s].addr],
    vm     <- infra

ImplementsLifecycle == Lifecycle!LifecycleSpec

-----------------------------------------------------------------------------
(* Liveness *)

(***************************************************************************)
(* An accepted job that has a row is eventually completed or failed for    *)
(* good, under fair scheduling, if no run is lost and no store call fails: *)
(* the polling client gets its answer, across worker restarts and retries. *)
(***************************************************************************)
AcceptedJobSettles ==
    \A r \in Requests : <>[](reqs[r].pc = "accepted" => ~Unsettled(r))

-----------------------------------------------------------------------------
(* What the code and its documentation say and the code does not ensure    *)

(***************************************************************************)
(* HandleDestroy refuses a provisioning or installing cluster because it   *)
(* "is still being provisioned, cannot destroy yet": then some request or  *)
(* some task is provisioning it.                                           *)
(***************************************************************************)
StillBeingProvisioned ==
    \A s \in Stacks :
        clusters[s].status \in {"provisioning", "installing"} =>
            \E r \in Requests :
                /\ Op[r] = "provision" /\ StackOf[r] = s
                /\ reqs[r].pc \in InFlight \/ Live(TaskOf(r))

(***************************************************************************)
(* The ctx.Done() branch of the deploy handler's health loop fails the     *)
(* deployment: one whose task Asynq has given up on is not reported as     *)
(* still being deployed.                                                   *)
(***************************************************************************)
GivenUpIsNotDeploying ==
    \A t \in TaskIds :
        t.kind = "deploy" /\ tasks[t].state = "archived" =>
            deployments[t.id].status # "deploying"

(***************************************************************************)
(* HandleDeleteDeployment calls deleted and orphaned terminal states: a    *)
(* deployment never leaves them.                                           *)
(***************************************************************************)
TerminalStaysTerminal ==
    [][\A d \in Requests :
          deployments[d].status \in {"deleted", "orphaned"} =>
              deployments'[d].status \in {"deleted", "orphaned"}]_vars
=============================================================================
