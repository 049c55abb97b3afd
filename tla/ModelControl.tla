---------------------------- MODULE ModelControl ----------------------------
(***************************************************************************)
(* Deploying and deleting a model: PostDeploy and HandleDeleteDeployment   *)
(* of the API server, handleDeployModelTask and handleDeleteModelTask of   *)
(* the worker, and the Kubernetes calls they make.                         *)
(*                                                                         *)
(* No step below reads the Redis routing cache.  Module RoutedPlane adds   *)
(* the calls by which these handlers invalidate it.                        *)
(***************************************************************************)
EXTENDS JobControl

-----------------------------------------------------------------------------
(* API server: POST /api/deploy *)

(***************************************************************************)
(* resolveClusterID: the cluster that the request names, if it is active,  *)
(* or else an active one.  The code takes the newest active one; creation  *)
(* times are not modelled.                                                 *)
(***************************************************************************)
LookupForDeploy(r) ==
    LET active == {s \in Touches(r) : clusters[s].status = "active"}
    IN
    /\ MaySend(r, "deploy")
    /\ \/ \E s \in active : AnswerFor(r, s, "create") /\ NoFault
       \/ active = {} /\ AnswerFor(r, NoStack, "error") /\ NoFault
       \/ AnswerFor(r, NoStack, "error") /\ Fault("io")
    /\ UNCHANGED <<clusters, deployments, jobs, tasks, runs, infra, kube>>

\* The default cluster is resolved a second time for the row.
CreateDeploymentRowResolvingAgain(r) ==
    /\ reqs[r].pc = "create" /\ Op[r] = "deploy"
    /\ \E s \in Touches(r) : /\ clusters[s].status = "active"
                             /\ CreateDeployment(DepOf[r], s)
    /\ Answer(r, "record") /\ NoFault
    /\ UNCHANGED <<clusters, jobs, tasks, runs, infra, kube>>

CreateDeploymentRow(r) ==
    /\ reqs[r].pc = "create" /\ Op[r] = "deploy"
    /\ \/ /\ CreateDeployment(DepOf[r], reqs[r].cluster)
          /\ Answer(r, "record") /\ NoFault
       \/ Answer(r, "error") /\ Fault("io") /\ UNCHANGED deployments
    /\ UNCHANGED <<clusters, jobs, tasks, runs, infra, kube>>

-----------------------------------------------------------------------------
(* API server: DELETE /api/deployments/:id.  No job record is created: the *)
(* handler goes from its lookup straight to the queue.                     *)

LookupForDelete(r) ==
    LET d == deployments[DepOf[r]]
    IN
    /\ MaySend(r, "delete")
    /\ \/ d.status = Absent /\ AnswerFor(r, NoStack, "error") /\ NoFault
       \/ /\ d.status \in {"deleted", "deleting", "orphaned"}
          /\ AnswerFor(r, d.cluster, "conflict") /\ NoFault
       \/ /\ d.status \notin {"deleted", "deleting", "orphaned", Absent}
          /\ AnswerFor(r, d.cluster, "enqueue") /\ NoFault
       \/ AnswerFor(r, NoStack, "error") /\ Fault("io")
    /\ UNCHANGED <<clusters, deployments, jobs, tasks, runs, infra, kube>>

-----------------------------------------------------------------------------
(* Kubernetes.  The objects of a model have its name: <<ip, model>> stands *)
(* for the Deployment and the Service of model on the VM at ip.  A call    *)
(* that fails may have created or deleted one of the two.                  *)

Reachable(t) == runs[t].ip \in IPs /\ infra[TaskStack(t)] = runs[t].ip

Objects(t) == {<<runs[t].ip, ModelOf[t.id]>>}

DeployModel(t) == kube' = kube \cup Objects(t)

DeleteModel(t) == kube' = kube \ Objects(t)

-----------------------------------------------------------------------------
(* Worker: steps common to both handlers *)

\* The status writes whose errors are logged and ignored.
TryUpdateDeploymentStatus(t, st) ==
    \/ UpdateDeploymentStatus(t.id, st) /\ NoFault
    \/ Fault("io") /\ UNCHANGED deployments

(***************************************************************************)
(* GetCluster, decryptKubeconfig and NewFromKubeConfig.  The address read  *)
(* here is used until the run ends.  A blank kubeconfig is an error.  When *)
(* GetCluster itself fails the delete handler leaves the deployment as it  *)
(* is.                                                                     *)
(***************************************************************************)
Connect(t) ==
    LET ip == clusters[TaskStack(t)].addr
    IN
    /\ t.kind \in ModelOps /\ runs[t].pc = "connect"
    /\ \/ /\ ip # NoIP /\ NoFault
          /\ runs' = [runs EXCEPT ![t] =
               [pc |-> IF t.kind = "deploy" THEN "apply" ELSE "remove", ip |-> ip]]
       \/ ip = NoIP /\ Goto(t, "markFailed") /\ NoFault
       \/ /\ Fault("io")
          /\ Goto(t, IF t.kind = "deploy" THEN "markFailed" ELSE "failJob")
    /\ UNCHANGED <<clusters, deployments, jobs, tasks, reqs, infra, kube>>

MarkDeploymentFailed(t) ==
    /\ t.kind \in ModelOps /\ runs[t].pc = "markFailed"
    /\ TryUpdateDeploymentStatus(t, "failed")
    /\ Goto(t, "failJob")
    /\ UNCHANGED <<clusters, jobs, tasks, reqs, infra, kube>>

-----------------------------------------------------------------------------
(* Worker: handleDeployModelTask *)

SetBuilding(t) ==
    /\ At(t, "deploy", "building")
    /\ TryUpdateDeploymentStatus(t, "building")
    /\ Goto(t, "running")
    /\ UNCHANGED <<clusters, jobs, tasks, reqs, infra, kube>>

ApplyModel(t) ==
    /\ At(t, "deploy", "apply")
    /\ \/ Reachable(t) /\ DeployModel(t) /\ Goto(t, "deploying") /\ NoFault
       \/ ~Reachable(t) /\ UNCHANGED kube /\ Goto(t, "markFailed") /\ NoFault
       \/ /\ Reachable(t) /\ (DeployModel(t) \/ UNCHANGED kube)
          /\ Goto(t, "markFailed") /\ Fault("ext")
    /\ UNCHANGED <<clusters, deployments, jobs, tasks, reqs, infra>>

SetDeploying(t) ==
    /\ At(t, "deploy", "deploying")
    /\ TryUpdateDeploymentStatus(t, "deploying")
    /\ Goto(t, "wait")
    /\ UNCHANGED <<clusters, jobs, tasks, reqs, infra, kube>>

\* The health loop: it takes a Service on the VM to accept the connection.
WaitHealthy(t) ==
    /\ At(t, "deploy", "wait")
    /\ \/ Objects(t) \subseteq kube /\ Goto(t, "save") /\ NoFault
       \/ ~(Objects(t) \subseteq kube) /\ Goto(t, "markFailed") /\ NoFault
       \/ Goto(t, "markFailed") /\ Fault("ext")
    /\ UNCHANGED <<clusters, deployments, jobs, tasks, reqs, infra, kube>>

\* If this write fails the deployment is not marked failed, only the job is.
SaveDeployed(t) ==
    /\ At(t, "deploy", "save")
    /\ \/ /\ UpdateDeploymentServiceURL(t.id, "active", runs[t].ip)
          /\ Goto(t, "complete") /\ NoFault
       \/ Goto(t, "failJob") /\ Fault("io") /\ UNCHANGED deployments
    /\ UNCHANGED <<clusters, jobs, tasks, reqs, infra, kube>>

-----------------------------------------------------------------------------
(* Worker: handleDeleteModelTask *)

\* The objects are deleted while the deployment is still marked active.
SkipSetDeleting(t) ==
    /\ At(t, "delete", "deleting")
    /\ Goto(t, "running") /\ NoFault
    /\ UNCHANGED <<clusters, deployments, jobs, tasks, reqs, infra, kube>>

SetDeleting(t) ==
    /\ At(t, "delete", "deleting")
    /\ TryUpdateDeploymentStatus(t, "deleting")
    /\ Goto(t, "running")
    /\ UNCHANGED <<clusters, jobs, tasks, reqs, infra, kube>>

RemoveModel(t) ==
    /\ At(t, "delete", "remove")
    /\ \/ Reachable(t) /\ DeleteModel(t) /\ Goto(t, "save") /\ NoFault
       \/ ~Reachable(t) /\ UNCHANGED kube /\ Goto(t, "markFailed") /\ NoFault
       \/ /\ Reachable(t) /\ (DeleteModel(t) \/ UNCHANGED kube)
          /\ Goto(t, "markFailed") /\ Fault("ext")
    /\ UNCHANGED <<clusters, deployments, jobs, tasks, reqs, infra>>

\* If this write fails the handler returns without failing the job.
SaveDeleted(t) ==
    /\ At(t, "delete", "save")
    /\ \/ /\ UpdateDeploymentStatus(t.id, "deleted")
          /\ Goto(t, "complete") /\ NoFault
       \/ Goto(t, "err") /\ Fault("io") /\ UNCHANGED deployments
    /\ UNCHANGED <<clusters, jobs, tasks, reqs, infra, kube>>

-----------------------------------------------------------------------------
ModelNext ==
    \/ \E r \in Requests :
          LookupForDeploy(r) \/ CreateDeploymentRow(r) \/ LookupForDelete(r)
    \/ \E t \in TaskIds :
          \/ Connect(t) \/ MarkDeploymentFailed(t)
          \/ SetBuilding(t) \/ ApplyModel(t) \/ SetDeploying(t)
          \/ WaitHealthy(t) \/ SaveDeployed(t)
          \/ SetDeleting(t) \/ RemoveModel(t) \/ SaveDeleted(t)
=============================================================================
