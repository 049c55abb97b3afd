--------------------------- MODULE ClusterControl ---------------------------
(***************************************************************************)
(* Provisioning and destroying a cluster: the handlers HandleProvision and *)
(* HandleDestroy of the API server, handleProvisionClusterTask and         *)
(* handleDestroyClusterTask of the worker, and the Pulumi and SSH calls    *)
(* the worker makes.                                                       *)
(***************************************************************************)
EXTENDS JobControl

-----------------------------------------------------------------------------
(* API server: POST /api/provision *)

(***************************************************************************)
(* The body is valid (an invalid one is refused before any state is read). *)
(* An error of the lookup is treated like a stack that has no row; an      *)
(* error of ensureDefaultOrganization ends the request.                    *)
(***************************************************************************)
LookupForProvision(r) ==
    LET s == StackOf[r]
        status == clusters[s].status
    IN
    /\ MaySend(r, "provision")
    /\ \/ status \in {"destroyed", "failed"} /\ AnswerFor(r, s, "reset") /\ NoFault
       \/ status = Absent /\ AnswerFor(r, s, "create") /\ NoFault
       \/ /\ status \notin {"destroyed", "failed", Absent}
          /\ AnswerFor(r, s, "conflict") /\ NoFault
       \/ AnswerFor(r, s, "create") /\ Fault("io")
       \/ AnswerFor(r, s, "error") /\ Fault("io")
    /\ UNCHANGED <<clusters, deployments, jobs, tasks, runs, infra, kube>>

\* The unique index on (org_id, name) refuses a second row.
CreateClusterRow(r) ==
    /\ reqs[r].pc = "create" /\ Op[r] = "provision"
    /\ \/ CreateCluster(reqs[r].cluster) /\ Answer(r, "record") /\ NoFault
       \/ /\ ClusterExists(reqs[r].cluster)
          /\ Answer(r, "error") /\ NoFault
          /\ UNCHANGED clusters
       \/ Answer(r, "error") /\ Fault("io") /\ UNCHANGED clusters
    /\ UNCHANGED <<deployments, jobs, tasks, runs, infra, kube>>

\* The row is deleted, and inserted again.
ResetByReplacing(r) ==
    /\ reqs[r].pc = "reset"
    /\ clusters' = [clusters EXCEPT
                      ![reqs[r].cluster] = [status |-> Absent, addr |-> NoIP]]
    /\ Answer(r, "create") /\ NoFault
    /\ UNCHANGED <<deployments, jobs, tasks, runs, infra, kube>>

(***************************************************************************)
(* The row is reset whatever its status is by now: the UPDATE has no       *)
(* condition on the status that was read.                                  *)
(***************************************************************************)
ResetClusterRow(r) ==
    /\ reqs[r].pc = "reset"
    /\ \/ ResetCluster(reqs[r].cluster) /\ Answer(r, "record") /\ NoFault
       \/ Answer(r, "error") /\ Fault("io") /\ UNCHANGED clusters
    /\ UNCHANGED <<deployments, jobs, tasks, runs, infra, kube>>

-----------------------------------------------------------------------------
(* API server: POST /api/destroy *)

\* The status switch of HandleDestroy without its refusals.
LookupForDestroyUnguarded(r) ==
    /\ MaySend(r, "destroy")
    /\ AnswerFor(r, IF ClusterExists(StackOf[r]) THEN StackOf[r] ELSE NoStack, "record")
    /\ NoFault
    /\ UNCHANGED <<clusters, deployments, jobs, tasks, runs, infra, kube>>

(***************************************************************************)
(* A stack without a row, or whose lookup failed, is destroyed untracked:  *)
(* with an empty cluster ID.                                               *)
(***************************************************************************)
LookupForDestroy(r) ==
    LET s == StackOf[r]
        status == clusters[s].status
    IN
    /\ MaySend(r, "destroy")
    /\ \/ status = Absent /\ AnswerFor(r, NoStack, "record") /\ NoFault
       \/ /\ status \in {"destroyed", "provisioning", "installing"}
          /\ AnswerFor(r, NoStack, "conflict") /\ NoFault
       \/ /\ status \in {"active", "failed", "destroying"}
          /\ AnswerFor(r, s, "record") /\ NoFault
       \/ AnswerFor(r, NoStack, "record") /\ Fault("io")
    /\ UNCHANGED <<clusters, deployments, jobs, tasks, runs, infra, kube>>

-----------------------------------------------------------------------------
(* Pulumi (external).  An up creates the VM of the stack, keeps it, or     *)
(* replaces it (another region or size was asked for).  One that fails may *)
(* have done any of this, or only the first half of a replacement.  The VM *)
(* of a run that is lost in Pulumi is covered by the loss of the run right *)
(* after the call.  What ran on a VM goes with it.                         *)

FreshIPs == IPs \ {infra[s] : s \in Stacks}

SetVM(s, ip) ==
    /\ infra' = [infra EXCEPT ![s] = ip]
    /\ kube' = IF ip = infra[s] THEN kube
               ELSE {obj \in kube : obj[1] # infra[s]}

PulumiUp(s, ip) == /\ ip \in IPs
                   /\ ip \in FreshIPs \cup {infra[s]}
                   /\ SetVM(s, ip)

PulumiUpFails(s) == \E ip \in FreshIPs \cup {infra[s], NoIP} : SetVM(s, ip)

PulumiDestroy(s) == SetVM(s, NoIP)

PulumiDestroyFails(s) == \E ip \in {infra[s], NoIP} : SetVM(s, ip)

-----------------------------------------------------------------------------
(* Worker: handleProvisionClusterTask *)

\* The error of this write is logged and ignored.
SetInstalling(t) ==
    /\ At(t, "provision", "installing")
    /\ \/ UpdateClusterStatus(TaskStack(t), "installing") /\ NoFault
       \/ Fault("io") /\ UNCHANGED clusters
    /\ Goto(t, "running")
    /\ UNCHANGED <<deployments, jobs, tasks, reqs, infra, kube>>

ProvisionCluster(t) ==
    /\ At(t, "provision", "up")
    /\ \/ \E ip \in IPs : /\ PulumiUp(t.id, ip) /\ NoFault
                          /\ runs' = [runs EXCEPT ![t] = [pc |-> "fetch", ip |-> ip]]
       \/ PulumiUpFails(t.id) /\ Fault("ext") /\ Goto(t, "markFailed")
    /\ UNCHANGED <<clusters, deployments, jobs, tasks, reqs>>

(***************************************************************************)
(* fetchKubeconfigWithRetry, the rewriting of the server line and the      *)
(* encryption.  It takes a VM at the address to answer.                    *)
(***************************************************************************)
FetchKubeconfig(t) ==
    /\ At(t, "provision", "fetch")
    /\ \/ infra[t.id] = runs[t].ip /\ Goto(t, "save") /\ NoFault
       \/ infra[t.id] # runs[t].ip /\ Goto(t, "markFailed") /\ NoFault
       \/ Goto(t, "markFailed") /\ Fault("ext")
    /\ UNCHANGED <<clusters, deployments, jobs, tasks, reqs, infra, kube>>

SaveActive(t) ==
    /\ At(t, "provision", "save")
    /\ \/ /\ UpdateClusterDetails(TaskStack(t), "active", runs[t].ip)
          /\ Goto(t, "complete") /\ NoFault
       \/ Goto(t, "markFailed") /\ Fault("io") /\ UNCHANGED clusters
    /\ UNCHANGED <<deployments, jobs, tasks, reqs, infra, kube>>

-----------------------------------------------------------------------------
(* Worker: handleDestroyClusterTask.  An untracked run writes no row.      *)

Tracked(t) == TaskStack(t) # NoStack

\* The cluster is destroyed without being marked as destroying first.
SkipSetDestroying(t) ==
    /\ At(t, "destroy", "destroying")
    /\ Goto(t, "destroy") /\ NoFault
    /\ UNCHANGED <<clusters, deployments, jobs, tasks, reqs, infra, kube>>

SetDestroying(t) ==
    /\ At(t, "destroy", "destroying")
    /\ \/ Tracked(t) /\ UpdateClusterStatus(TaskStack(t), "destroying") /\ NoFault
       \/ ~Tracked(t) /\ UNCHANGED clusters /\ NoFault
       \/ Tracked(t) /\ Fault("io") /\ UNCHANGED clusters
    /\ Goto(t, "destroy")
    /\ UNCHANGED <<deployments, jobs, tasks, reqs, infra, kube>>

\* The error of Pulumi is ignored.
DestroyClusterIgnoringErrors(t) ==
    /\ At(t, "destroy", "destroy")
    /\ Goto(t, "save")
    /\ \/ PulumiDestroy(t.id) /\ NoFault
       \/ PulumiDestroyFails(t.id) /\ Fault("ext")
    /\ UNCHANGED <<clusters, deployments, jobs, tasks, reqs>>

DestroyCluster(t) ==
    /\ At(t, "destroy", "destroy")
    /\ \/ PulumiDestroy(t.id) /\ Goto(t, "save") /\ NoFault
       \/ PulumiDestroyFails(t.id) /\ Goto(t, "markFailed") /\ Fault("ext")
    /\ UNCHANGED <<clusters, deployments, jobs, tasks, reqs>>

\* If this write fails the cluster is not marked failed, only the job is.
SaveDestroyed(t) ==
    /\ At(t, "destroy", "save")
    /\ \/ /\ Tracked(t)
          /\ UpdateClusterDetails(TaskStack(t), "destroyed", NoIP)
          /\ Goto(t, "cascade") /\ NoFault
       \/ ~Tracked(t) /\ Goto(t, "complete") /\ NoFault /\ UNCHANGED clusters
       \/ Tracked(t) /\ Goto(t, "failJob") /\ Fault("io") /\ UNCHANGED clusters
    /\ UNCHANGED <<deployments, jobs, tasks, reqs, infra, kube>>

\* The handler completes the job without the cascade.
SkipOrphanDeployments(t) ==
    /\ At(t, "destroy", "cascade")
    /\ Goto(t, "complete") /\ NoFault
    /\ UNCHANGED <<clusters, deployments, jobs, tasks, reqs, infra, kube>>

\* The cascade.  Its error is logged and ignored.
OrphanDeployments(t) ==
    /\ At(t, "destroy", "cascade")
    /\ \/ UpdateDeploymentsStatusByCluster(TaskStack(t), "orphaned") /\ NoFault
       \/ Fault("io") /\ UNCHANGED deployments
    /\ Goto(t, "complete")
    /\ UNCHANGED <<clusters, jobs, tasks, reqs, infra, kube>>

-----------------------------------------------------------------------------
\* Both handlers mark the cluster failed, then the job.
MarkClusterFailed(t) ==
    /\ t.kind \in ClusterOps /\ runs[t].pc = "markFailed"
    /\ \/ Tracked(t) /\ UpdateClusterStatus(TaskStack(t), "failed") /\ NoFault
       \/ ~Tracked(t) /\ UNCHANGED clusters /\ NoFault
       \/ Tracked(t) /\ Fault("io") /\ UNCHANGED clusters
    /\ Goto(t, "failJob")
    /\ UNCHANGED <<deployments, jobs, tasks, reqs, infra, kube>>

ClusterNext ==
    \/ \E r \in Requests :
          \/ LookupForProvision(r) \/ CreateClusterRow(r) \/ ResetClusterRow(r)
          \/ LookupForDestroy(r)
    \/ \E t \in TaskIds :
          \/ SetInstalling(t) \/ ProvisionCluster(t) \/ FetchKubeconfig(t)
          \/ SaveActive(t)
          \/ SetDestroying(t) \/ DestroyCluster(t) \/ SaveDestroyed(t)
          \/ OrphanDeployments(t)
          \/ MarkClusterFailed(t)
=============================================================================
