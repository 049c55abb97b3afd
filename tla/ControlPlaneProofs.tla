------------------------- MODULE ControlPlaneProofs -------------------------
(***************************************************************************)
(* ControlInv is an invariant of the control plane, for every workload,    *)
(* every number of stacks, addresses, retries and workers, and every fault *)
(* budget.  TypeOK, TaskHasRow and AcceptedJobTracked follow from it.      *)
(*                                                                         *)
(* Most steps of the worker only write rows and move a run on.  WorkStep   *)
(* says so once; that WorkStep preserves the invariant is proved once.     *)
(***************************************************************************)
EXTENDS ControlPlane, TLAPS

FaultsGrow == /\ faults' \in [FaultKinds -> Nat]
              /\ \A k \in FaultKinds : faults'[k] >= faults[k]

\* No row disappears, and none is created by an UPDATE.
RowsKept ==
    /\ \A s \in Stacks : ClusterExists(s) => clusters'[s].status # Absent
    /\ \A d \in Requests :
          /\ DeploymentExists(d) <=> deployments'[d].status # Absent
          /\ deployments'[d].cluster = deployments[d].cluster

WorkStep(t) ==
    /\ runs[t].pc \notin {"idle", "ok", "err"}
    /\ \E run \in Run : /\ run.pc \notin {"idle", "ok"}
                        /\ run.pc = "err" => faults'["io"] > 0
                        /\ runs' = [runs EXCEPT ![t] = run]
    /\ UNCHANGED <<jobs, tasks, reqs>>
    /\ clusters' \in [Stacks -> ClusterRow]
    /\ deployments' \in [Requests -> DeploymentRow]
    /\ infra' \in [Stacks -> IPs \cup {NoIP}]
    /\ kube' \subseteq IPs \X Models
    /\ RowsKept
    /\ FaultsGrow

-----------------------------------------------------------------------------
(* Facts about tasks and about the fault counters                          *)

\* A task ID determines what the task is about (the four taskID formats).
LEMMA TaskFacts ==
    /\ \A r \in Requests : /\ TaskOf(r) \in TaskIds
                           /\ TaskOf(r).kind = Op[r]
                           /\ Op[r] \in ClusterOps => TaskOf(r).id = StackOf[r]
                           /\ Op[r] \in ModelOps => TaskOf(r).id = DepOf[r]
    /\ \A t \in TaskIds : /\ t.kind \in ClusterOps \cup ModelOps
                          /\ t.kind \in ClusterOps => t.id \in Stacks
                          /\ t.kind \in ModelOps => t.id \in Requests
BY ConstantsAssumption, WorkloadAssumption
   DEF TaskIds, TaskOf, ClusterOps, ModelOps

\* A fault counter only ever grows, by one.
LEMMA FaultGrows ==
    ASSUME faults \in [FaultKinds -> Nat], NEW k \in FaultKinds,
           NoFault \/ Fault(k)
    PROVE  FaultsGrow /\ (Fault(k) => faults'[k] > 0)
BY DEF NoFault, Fault, FaultsGrow

\* Where a live task gets its rows from: the request that enqueued it.
LEMMA JobOfTask ==
    ASSUME TypeOK, QueueInv, RowInv, NEW t \in TaskIds, tasks[t].state # "none"
    PROVE  /\ tasks[t].job \in Requests
           /\ TaskOf(tasks[t].job) = t
           /\ Op[tasks[t].job] = t.kind
           /\ HasRows(tasks[t].job)
<1>1. tasks[t].job \in Requests
  BY ConstantsAssumption DEF TypeOK, QueueInv, TaskRow
<1>2. TaskOf(tasks[t].job) = t
  BY <1>1, ConstantsAssumption DEF QueueInv
<1>3. Op[tasks[t].job] = t.kind
  BY <1>1, <1>2, TaskFacts
<1> QED BY <1>1, <1>2, <1>3 DEF RowInv, RowInvOf

-----------------------------------------------------------------------------
(* The writes of the store keep the tables well typed and keep every row   *)

\* UPDATE clusters: the row keeps existing, a missing row stays missing.
LEMMA ClusterUpdate ==
    ASSUME TypeOK, NEW s, NEW st \in ClusterStatus, NEW ip \in IPs \cup {NoIP},
           \/ UpdateClusterDetails(s, st, ip)
           \/ UpdateClusterStatus(s, st)
           \/ ResetCluster(s)
           \/ UNCHANGED clusters
    PROVE  /\ clusters' \in [Stacks -> ClusterRow]
           /\ \A x \in Stacks : ClusterExists(x) => clusters'[x].status # Absent
<1>1. CASE s \in Stacks
  <2>1. clusters[s].addr \in IPs \cup {NoIP}
    BY <1>1 DEF TypeOK, ClusterRow
  <2> QED BY <2>1, <1>1
     DEF TypeOK, ClusterRow, ClusterStatus, Absent, ClusterExists, ResetCluster,
         UpdateClusterDetails, UpdateClusterStatus
<1>2. CASE s \notin Stacks
  BY <1>2 DEF TypeOK, ClusterRow, ClusterStatus, Absent, ClusterExists, ResetCluster,
         UpdateClusterDetails, UpdateClusterStatus
<1> QED BY <1>1, <1>2

\* UPDATE deployments: the same, and the row stays with its cluster.
LEMMA DeploymentUpdate ==
    ASSUME TypeOK, NEW d \in Requests, NEW s, NEW st \in DeploymentStatus,
           NEW ip \in IPs \cup {NoIP},
           \/ UpdateDeploymentServiceURL(d, st, ip)
           \/ UpdateDeploymentStatus(d, st)
           \/ UpdateDeploymentsStatusByCluster(s, st)
           \/ UNCHANGED deployments
    PROVE  /\ deployments' \in [Requests -> DeploymentRow]
           /\ \A x \in Requests :
                 /\ DeploymentExists(x) <=> deployments'[x].status # Absent
                 /\ deployments'[x].cluster = deployments[x].cluster
<1>1. deployments[d].url \in IPs \cup {NoIP}
  BY DEF TypeOK, DeploymentRow
<1>2. ASSUME NEW url \in IPs \cup {NoIP}, UpdateDeploymentServiceURL(d, st, url)
      PROVE  /\ deployments' \in [Requests -> DeploymentRow]
             /\ \A x \in Requests :
                   /\ DeploymentExists(x) <=> deployments'[x].status # Absent
                   /\ deployments'[x].cluster = deployments[x].cluster
  <2>1. deployments[d] \in DeploymentRow
    BY DEF TypeOK
  <2> QED
    BY <1>2, <2>1 DEF TypeOK, DeploymentRow, DeploymentStatus, Absent,
       DeploymentExists, UpdateDeploymentServiceURL
<1>3. ASSUME UpdateDeploymentsStatusByCluster(s, st)
      PROVE  /\ deployments' \in [Requests -> DeploymentRow]
             /\ \A x \in Requests :
                   /\ DeploymentExists(x) <=> deployments'[x].status # Absent
                   /\ deployments'[x].cluster = deployments[x].cluster
  <2>1. \A x \in Requests :
          [deployments[x] EXCEPT !.status = st]
            = [status |-> st, cluster |-> deployments[x].cluster,
               url |-> deployments[x].url]
    BY DEF TypeOK, DeploymentRow
  <2> QED
    BY <1>3, <2>1 DEF TypeOK, DeploymentRow, DeploymentStatus, Absent,
       DeploymentExists, UpdateDeploymentsStatusByCluster
<1>4. CASE UNCHANGED deployments
  BY <1>4 DEF TypeOK, DeploymentExists
<1> QED BY <1>1, <1>2, <1>3, <1>4 DEF UpdateDeploymentStatus

\* Pulumi changes the VM of one stack and removes what ran on the old one.
LEMMA VMUpdate ==
    ASSUME TypeOK, NEW s, NEW ip \in IPs \cup {NoIP}, SetVM(s, ip)
    PROVE  /\ infra' \in [Stacks -> IPs \cup {NoIP}]
           /\ kube' \subseteq IPs \X Models
BY DEF TypeOK, SetVM

-----------------------------------------------------------------------------
(* The steps of the worker that are WorkSteps                              *)

ClusterWork(t) ==
    \/ SetInstalling(t) \/ ProvisionCluster(t) \/ FetchKubeconfig(t)
    \/ SaveActive(t) \/ SetDestroying(t) \/ DestroyCluster(t)
    \/ SaveDestroyed(t) \/ OrphanDeployments(t) \/ MarkClusterFailed(t)

ModelWork(t) ==
    \/ Connect(t) \/ MarkDeploymentFailed(t) \/ SetBuilding(t)
    \/ ApplyModel(t) \/ SetDeploying(t) \/ WaitHealthy(t) \/ SaveDeployed(t)
    \/ SetDeleting(t) \/ RemoveModel(t) \/ SaveDeleted(t)

\* Moving a run on: what Goto does to runs.
LEMMA GotoRun ==
    ASSUME TypeOK, NEW t \in TaskIds, NEW pc \in RunPC \ {"idle", "ok", "err"},
           Goto(t, pc)
    PROVE  \E run \in Run : /\ run.pc \notin {"idle", "ok"}
                            /\ run.pc = "err" => faults'["io"] > 0
                            /\ runs' = [runs EXCEPT ![t] = run]
<1>1. runs[t] \in Run
  BY DEF TypeOK
<1>2. [runs[t] EXCEPT !.pc = pc] \in Run /\ [runs[t] EXCEPT !.pc = pc].pc = pc
  BY <1>1 DEF Run
<1>3. runs' = [runs EXCEPT ![t] = [runs[t] EXCEPT !.pc = pc]]
  BY DEF Goto
<1> QED BY <1>2, <1>3

\* The cluster handlers write the tables of the store, move their run on
\* and leave the queue, the jobs and the requests alone.
LEMMA ClusterWorkIsWork ==
    ASSUME TypeOK, NEW t \in TaskIds, ClusterWork(t)
    PROVE  WorkStep(t)
<1> USE DEF WorkStep, RowsKept, At
<1> DEFINE C == /\ clusters' \in [Stacks -> ClusterRow]
                /\ \A s \in Stacks : ClusterExists(s) => clusters'[s].status # Absent
           D == /\ deployments' \in [Requests -> DeploymentRow]
                /\ \A x \in Requests :
                      /\ DeploymentExists(x) <=> deployments'[x].status # Absent
                      /\ deployments'[x].cluster = deployments[x].cluster
           V == /\ infra' \in [Stacks -> IPs \cup {NoIP}]
                /\ kube' \subseteq IPs \X Models
           R == \E run \in Run : /\ run.pc \notin {"idle", "ok"}
                                 /\ run.pc = "err" => faults'["io"] > 0
                                 /\ runs' = [runs EXCEPT ![t] = run]
<1>f. faults \in [FaultKinds -> Nat] /\ "io" \in FaultKinds /\ "ext" \in FaultKinds
  BY DEF TypeOK, FaultKinds
<1>g. (NoFault \/ Fault("io") \/ Fault("ext")) => FaultsGrow
  BY <1>f, FaultGrows
<1>p. /\ {"running", "markFailed", "fetch", "save", "complete", "destroy",
          "cascade", "failJob"} \subseteq RunPC \ {"idle", "ok", "err"}
      /\ {"installing", "active", "failed", "destroying", "destroyed"}
            \subseteq ClusterStatus
      /\ "orphaned" \in DeploymentStatus
  BY DEF RunPC, ClusterStatus, DeploymentStatus
<1>c. UNCHANGED clusters => C
  BY DEF TypeOK, ClusterExists
<1>d. UNCHANGED deployments => D
  BY DEF TypeOK, DeploymentExists
<1>v. UNCHANGED <<infra, kube>> => V
  BY DEF TypeOK
<1>w. NoIP \in IPs \cup {NoIP} /\ runs[t].ip \in IPs \cup {NoIP}
  BY DEF TypeOK, Run
<1> HIDE DEF C, D, V, R
<1>1. CASE SetInstalling(t)
  <2>1. C BY <1>1, <1>p, <1>w, <1>c, ClusterUpdate DEF SetInstalling, C
  <2>2. R BY <1>1, <1>p, GotoRun DEF SetInstalling, R
  <2> QED BY <1>1, <2>1, <2>2, <1>d, <1>g, <1>v DEF SetInstalling, C, D, V, R
<1>2. CASE ProvisionCluster(t)
  <2>1. R /\ V /\ FaultsGrow
    <3>1. ASSUME NEW ip \in IPs, PulumiUp(t.id, ip), NoFault,
                 runs' = [runs EXCEPT ![t] = [pc |-> "fetch", ip |-> ip]]
          PROVE  R /\ V /\ FaultsGrow
      <4>1. V BY <3>1, VMUpdate DEF PulumiUp, V
      <4>2. [pc |-> "fetch", ip |-> ip] \in Run
        BY DEF Run, RunPC
      <4> QED BY <3>1, <4>1, <4>2, <1>g DEF R
    <3>2. ASSUME PulumiUpFails(t.id), Fault("ext"), Goto(t, "markFailed")
          PROVE  R /\ V /\ FaultsGrow
      <4>1. PICK ip \in FreshIPs \cup {infra[t.id], NoIP} : SetVM(t.id, ip)
        BY <3>2 DEF PulumiUpFails
      <4>2. ip \in IPs \cup {NoIP}
        BY TaskFacts, <1>2 DEF FreshIPs, TypeOK, ProvisionCluster, ClusterOps
      <4>3. V BY <4>1, <4>2, VMUpdate DEF V
      <4> QED BY <3>2, <4>3, <1>g, <1>p, GotoRun DEF R
    <3> QED BY <1>2, <3>1, <3>2 DEF ProvisionCluster
  <2> QED BY <1>2, <2>1, <1>c, <1>d DEF ProvisionCluster, C, D, V, R
<1>3. CASE FetchKubeconfig(t)
  <2>1. R BY <1>3, <1>p, GotoRun DEF FetchKubeconfig, R
  <2> QED BY <1>3, <2>1, <1>c, <1>d, <1>g, <1>v DEF FetchKubeconfig, C, D, V, R
<1>4. CASE SaveActive(t)
  <2>1. C BY <1>4, <1>p, <1>w, <1>c, ClusterUpdate DEF SaveActive, C
  <2>2. R BY <1>4, <1>p, GotoRun DEF SaveActive, R
  <2> QED BY <1>4, <2>1, <2>2, <1>d, <1>g, <1>v DEF SaveActive, C, D, V, R
<1>5. CASE SetDestroying(t)
  <2>1. C BY <1>5, <1>p, <1>w, <1>c, ClusterUpdate DEF SetDestroying, C
  <2>2. R BY <1>5, <1>p, GotoRun DEF SetDestroying, R
  <2> QED BY <1>5, <2>1, <2>2, <1>d, <1>g, <1>v DEF SetDestroying, C, D, V, R
<1>6. CASE DestroyCluster(t)
  <2>1. V
    <3>1. infra[t.id] \in IPs \cup {NoIP}
      BY TaskFacts, <1>6 DEF TypeOK, DestroyCluster, ClusterOps
    <3> QED BY <1>6, <1>w, <3>1, VMUpdate
            DEF DestroyCluster, PulumiDestroy, PulumiDestroyFails, V
  <2>2. R BY <1>6, <1>p, GotoRun DEF DestroyCluster, R
  <2> QED BY <1>6, <2>1, <2>2, <1>c, <1>d, <1>g DEF DestroyCluster, C, D, V, R
<1>7. CASE SaveDestroyed(t)
  <2>1. C BY <1>7, <1>p, <1>w, <1>c, ClusterUpdate DEF SaveDestroyed, C
  <2>2. R BY <1>7, <1>p, GotoRun DEF SaveDestroyed, R
  <2> QED BY <1>7, <2>1, <2>2, <1>d, <1>g, <1>v DEF SaveDestroyed, C, D, V, R
<1>8. CASE OrphanDeployments(t)
  <2>1. D
    <3>1. CASE Requests = {}
      BY <3>1, TaskFacts DEF TaskIds
    <3>2. CASE Requests # {}
      BY <1>8, <3>2, <1>p, <1>w, <1>d, DeploymentUpdate DEF OrphanDeployments, D
    <3> QED BY <3>1, <3>2
  <2>2. R BY <1>8, <1>p, GotoRun DEF OrphanDeployments, R
  <2> QED BY <1>8, <2>1, <2>2, <1>c, <1>g, <1>v DEF OrphanDeployments, C, D, V, R
<1>9. CASE MarkClusterFailed(t)
  <2>1. C BY <1>9, <1>p, <1>w, <1>c, ClusterUpdate DEF MarkClusterFailed, C
  <2>2. R BY <1>9, <1>p, GotoRun DEF MarkClusterFailed, R
  <2> QED BY <1>9, <2>1, <2>2, <1>d, <1>g, <1>v DEF MarkClusterFailed, C, D, V, R
<1> QED BY <1>1, <1>2, <1>3, <1>4, <1>5, <1>6, <1>7, <1>8, <1>9 DEF ClusterWork

\* The model handlers do too.  The cluster a run connects to has a row: that
\* is where TypeOK needs the rest of the invariant.
LEMMA ModelWorkIsWork ==
    ASSUME TypeOK, QueueInv, RowInv, NEW t \in TaskIds, ModelWork(t)
    PROVE  WorkStep(t)
<1> USE DEF WorkStep, RowsKept, At
<1> DEFINE D == /\ deployments' \in [Requests -> DeploymentRow]
                /\ \A x \in Requests :
                      /\ DeploymentExists(x) <=> deployments'[x].status # Absent
                      /\ deployments'[x].cluster = deployments[x].cluster
           V == /\ infra' \in [Stacks -> IPs \cup {NoIP}]
                /\ kube' \subseteq IPs \X Models
           C == /\ clusters' \in [Stacks -> ClusterRow]
                /\ \A s \in Stacks : ClusterExists(s) => clusters'[s].status # Absent
           R == \E run \in Run : /\ run.pc \notin {"idle", "ok"}
                                 /\ run.pc = "err" => faults'["io"] > 0
                                 /\ runs' = [runs EXCEPT ![t] = run]
<1>f. faults \in [FaultKinds -> Nat] /\ "io" \in FaultKinds /\ "ext" \in FaultKinds
  BY DEF TypeOK, FaultKinds
<1>g. /\ (NoFault \/ Fault("io") \/ Fault("ext")) => FaultsGrow
      /\ Fault("io") => faults'["io"] > 0
  BY <1>f, FaultGrows
<1>p. /\ {"running", "markFailed", "apply", "remove", "deploying", "wait", "save",
          "complete", "failJob"} \subseteq RunPC \ {"idle", "ok", "err"}
      /\ "err" \in RunPC
      /\ {"building", "deploying", "active", "failed", "deleting", "deleted"}
            \subseteq DeploymentStatus
  BY DEF RunPC, DeploymentStatus
<1>c. UNCHANGED clusters => C
  BY DEF TypeOK, ClusterExists
<1>d. UNCHANGED deployments => D
  BY DEF TypeOK, DeploymentExists
<1>v. UNCHANGED <<infra, kube>> => V
  BY DEF TypeOK
<1>k. t.kind \in ModelOps
  BY DEF ModelWork, Connect, MarkDeploymentFailed, SetBuilding, ApplyModel,
     SetDeploying, WaitHealthy, SaveDeployed, SetDeleting, RemoveModel,
     SaveDeleted, ModelOps
<1>i. t.id \in Requests
  BY <1>k, TaskFacts
<1>w. NoIP \in IPs \cup {NoIP} /\ runs[t].ip \in IPs \cup {NoIP}
  BY DEF TypeOK, Run
<1>a. tasks[t].state # "none"
  <2>1. runs[t].pc # "idle"
    BY DEF ModelWork, Connect, MarkDeploymentFailed, SetBuilding, ApplyModel,
       SetDeploying, WaitHealthy, SaveDeployed, SetDeleting, RemoveModel,
       SaveDeleted
  <2> QED BY <2>1 DEF QueueInv
<1>s. TaskStack(t) \in Stacks
  <2>1. tasks[t].job \in Requests /\ HasRows(tasks[t].job) /\ Op[tasks[t].job] = t.kind
    BY <1>a, JobOfTask
  <2> QED BY <2>1, <1>k DEF HasRows, TaskStack, TypeOK, Request
<1> HIDE DEF C, D, V, R
<1>1. CASE Connect(t)
  <2>1. R
    <3>1. clusters[TaskStack(t)].addr \in IPs \cup {NoIP}
      BY <1>s DEF TypeOK, ClusterRow
    <3>2. ASSUME runs' = [runs EXCEPT ![t] =
                   [pc |-> IF t.kind = "deploy" THEN "apply" ELSE "remove",
                    ip |-> clusters[TaskStack(t)].addr]]
          PROVE  R
      <4> DEFINE new == [pc |-> IF t.kind = "deploy" THEN "apply" ELSE "remove",
                         ip |-> clusters[TaskStack(t)].addr]
      <4>1. new \in Run /\ new.pc \notin {"idle", "ok", "err"}
        BY <3>1, <1>p DEF Run
      <4> QED BY <3>2, <4>1 DEF R
    <3> QED BY <1>1, <3>2, <1>p, GotoRun DEF Connect, R
  <2> QED BY <1>1, <2>1, <1>c, <1>d, <1>g, <1>v DEF Connect, C, D, V, R
<1>2. CASE MarkDeploymentFailed(t)
  <2>1. D BY <1>2, <1>p, <1>w, <1>i, <1>d, DeploymentUpdate
          DEF MarkDeploymentFailed, TryUpdateDeploymentStatus, D
  <2>2. R BY <1>2, <1>p, GotoRun DEF MarkDeploymentFailed, R
  <2> QED BY <1>2, <2>1, <2>2, <1>c, <1>g, <1>v
          DEF MarkDeploymentFailed, TryUpdateDeploymentStatus, C, D, V, R
<1>3. CASE SetBuilding(t)
  <2>1. D BY <1>3, <1>p, <1>w, <1>i, <1>d, DeploymentUpdate
          DEF SetBuilding, TryUpdateDeploymentStatus, D
  <2>2. R BY <1>3, <1>p, GotoRun DEF SetBuilding, R
  <2> QED BY <1>3, <2>1, <2>2, <1>c, <1>g, <1>v
          DEF SetBuilding, TryUpdateDeploymentStatus, C, D, V, R
<1>4. CASE ApplyModel(t)
  <2>1. V BY <1>4, <1>v, <1>w, <1>i, ConstantsAssumption
          DEF ApplyModel, DeployModel, Objects, Reachable, TypeOK, V
  <2>2. R BY <1>4, <1>p, GotoRun DEF ApplyModel, R
  <2> QED BY <1>4, <2>1, <2>2, <1>c, <1>d, <1>g DEF ApplyModel, C, D, V, R
<1>5. CASE SetDeploying(t)
  <2>1. D BY <1>5, <1>p, <1>w, <1>i, <1>d, DeploymentUpdate
          DEF SetDeploying, TryUpdateDeploymentStatus, D
  <2>2. R BY <1>5, <1>p, GotoRun DEF SetDeploying, R
  <2> QED BY <1>5, <2>1, <2>2, <1>c, <1>g, <1>v
          DEF SetDeploying, TryUpdateDeploymentStatus, C, D, V, R
<1>6. CASE WaitHealthy(t)
  <2>1. R BY <1>6, <1>p, GotoRun DEF WaitHealthy, R
  <2> QED BY <1>6, <2>1, <1>c, <1>d, <1>g, <1>v DEF WaitHealthy, C, D, V, R
<1>7. CASE SaveDeployed(t)
  <2>1. D BY <1>7, <1>p, <1>w, <1>i, <1>d, DeploymentUpdate DEF SaveDeployed, D
  <2>2. R BY <1>7, <1>p, GotoRun DEF SaveDeployed, R
  <2> QED BY <1>7, <2>1, <2>2, <1>c, <1>g, <1>v DEF SaveDeployed, C, D, V, R
<1>8. CASE SetDeleting(t)
  <2>1. D BY <1>8, <1>p, <1>w, <1>i, <1>d, DeploymentUpdate
          DEF SetDeleting, TryUpdateDeploymentStatus, D
  <2>2. R BY <1>8, <1>p, GotoRun DEF SetDeleting, R
  <2> QED BY <1>8, <2>1, <2>2, <1>c, <1>g, <1>v
          DEF SetDeleting, TryUpdateDeploymentStatus, C, D, V, R
<1>9. CASE RemoveModel(t)
  <2>1. V BY <1>9, <1>v DEF RemoveModel, DeleteModel, TypeOK, V
  <2>2. R BY <1>9, <1>p, GotoRun DEF RemoveModel, R
  <2> QED BY <1>9, <2>1, <2>2, <1>c, <1>d, <1>g DEF RemoveModel, C, D, V, R
<1>10. CASE SaveDeleted(t)
  <2>1. D BY <1>10, <1>p, <1>w, <1>i, <1>d, DeploymentUpdate DEF SaveDeleted, D
  <2>2. R
    <3>1. ASSUME Goto(t, "err"), Fault("io") PROVE R
      <4>1. runs[t] \in Run
        BY DEF TypeOK
      <4>2. /\ [runs[t] EXCEPT !.pc = "err"] \in Run
            /\ [runs[t] EXCEPT !.pc = "err"].pc = "err"
        BY <4>1, <1>p DEF Run
      <4> QED BY <3>1, <4>2, <1>g DEF Goto, R
    <3> QED BY <1>10, <3>1, <1>p, GotoRun DEF SaveDeleted, R
  <2> QED BY <1>10, <2>1, <2>2, <1>c, <1>g, <1>v DEF SaveDeleted, C, D, V, R
<1> QED BY <1>1, <1>2, <1>3, <1>4, <1>5, <1>6, <1>7, <1>8, <1>9, <1>10
        DEF ModelWork

-----------------------------------------------------------------------------
(* WorkSteps preserve the invariant                                        *)

\* A request keeps its rows as long as no row disappears.
LEMMA HasRowsKept ==
    ASSUME TypeOK, NEW r \in Requests, HasRows(r),
           \A s \in Stacks : ClusterExists(s) => clusters'[s].status # Absent,
           \A d \in Requests : DeploymentExists(d) =>
               /\ deployments'[d].status # Absent
               /\ deployments'[d].cluster = deployments[d].cluster,
           reqs'[r].cluster = reqs[r].cluster
    PROVE  HasRows(r)'
<1>1. DepOf[r] \in Requests /\ reqs[r].cluster \in Stacks \cup {NoStack}
  BY ConstantsAssumption DEF TypeOK, Request
<1> QED BY <1>1 DEF HasRows, ClusterExists, DeploymentExists

\* RowInv depends on the rows only through their existence.
LEMMA RowInvKept ==
    ASSUME TypeOK, RowInv, RowsKept, UNCHANGED reqs,
           \A r \in Requests :
               tasks'[TaskOf(r)].job = r => tasks[TaskOf(r)].job = r
    PROVE  RowInv'
<1> SUFFICES ASSUME NEW r \in Requests PROVE RowInvOf(r)' /\ HasCluster(r)'
  BY DEF RowInv
<1>0. RowInvOf(r) /\ HasCluster(r) /\ deployments[r].cluster \in Stacks \cup {NoStack}
  BY DEF RowInv, TypeOK, DeploymentRow
<1>1. (reqs'[r].pc \in {"record", "enqueue"} \/ tasks'[TaskOf(r)].job = r)
        => HasRows(r)'
  BY HasRowsKept DEF RowInv, RowInvOf, RowsKept
<1>2. StackOf[r] \in Stacks \cup {NoStack} /\ reqs[r].cluster \in Stacks \cup {NoStack}
  BY ConstantsAssumption DEF TypeOK, Request
<1>3. Op[r] = "provision" => StackOf[r] \in Stacks
  BY WorkloadAssumption DEF ClusterOps
<1> QED BY <1>0, <1>1, <1>2, <1>3
        DEF RowInvOf, HasCluster, RowsKept, ClusterExists, DeploymentExists

\* A step of a handler that only writes rows preserves the invariant.
LEMMA WorkKeeps ==
    ASSUME ControlInv, NEW t \in TaskIds, WorkStep(t)
    PROVE  ControlInv'
<1> USE DEF ControlInv
<1>1. PICK run \in Run : /\ run.pc \notin {"idle", "ok"}
                         /\ run.pc = "err" => faults'["io"] > 0
                         /\ runs' = [runs EXCEPT ![t] = run]
  BY DEF WorkStep
<1>2. UNCHANGED <<jobs, tasks, reqs>> /\ FaultsGrow /\ RowsKept
  BY DEF WorkStep
<1>3. {"io", "lost"} \subseteq FaultKinds
  BY DEF FaultKinds
<1>4. TypeOK'
  BY <1>1, <1>2 DEF TypeOK, WorkStep, FaultsGrow
<1>5. QueueInv'
  BY <1>1, <1>2 DEF QueueInv, WorkStep, TypeOK
<1>6. RowInv'
  BY <1>2, RowInvKept
<1>7. ReturnInv'
  BY <1>1, <1>2, <1>3 DEF ReturnInv, Unsettled, FaultsGrow, TypeOK
<1>8. AcceptedJobTracked'
  BY <1>2, <1>3 DEF AcceptedJobTracked, Unsettled, FaultsGrow, TypeOK
<1> QED BY <1>4, <1>5, <1>6, <1>7, <1>8

-----------------------------------------------------------------------------
(* The steps of a request before it is enqueued                            *)

(***************************************************************************)
(* A request whose handler is not over moves on, is refused or is cut off, *)
(* and writes at most its own job and deployment and some cluster's row.   *)
(***************************************************************************)
RequestStep(r) ==
    /\ reqs[r].pc \in {"unsent"} \cup InFlight
    /\ \E q \in Request : /\ q.pc \notin {"unsent", "accepted"}
                          /\ reqs' = [reqs EXCEPT ![r] = q]
    /\ UNCHANGED <<tasks, runs, infra, kube>>
    /\ jobs' \in [Requests -> JobStatus \cup {Absent}]
    /\ \A x \in Requests \ {r} : jobs'[x] = jobs[x]
    /\ clusters' \in [Stacks -> ClusterRow]
    /\ \A s \in Stacks : ClusterExists(s) => clusters'[s].status # Absent
    /\ deployments' \in [Requests -> DeploymentRow]
    /\ \A d \in Requests :
          \/ deployments'[d] = deployments[d]
          \/ /\ d = r /\ ~DeploymentExists(d)
             /\ deployments'[d].cluster \in Stacks
             /\ ClusterExists(deployments'[d].cluster)
    /\ FaultsGrow

\* No task is in the queue for a request that was not enqueued yet.
LEMMA NotEnqueued ==
    ASSUME TypeOK, QueueInv, NEW r \in Requests,
           reqs[r].pc \in {"unsent"} \cup InFlight
    PROVE  \A t \in TaskIds : tasks[t].job # r
BY ConstantsAssumption DEF QueueInv, InFlight, TypeOK, TaskRow

\* Such a step preserves the invariant if the request then has its rows.
LEMMA RequestKeeps ==
    ASSUME ControlInv, NEW r \in Requests, RequestStep(r), RowInvOf(r)'
    PROVE  ControlInv'
<1> USE DEF ControlInv
<1>1. PICK q \in Request : /\ q.pc \notin {"unsent", "accepted"}
                           /\ reqs' = [reqs EXCEPT ![r] = q]
  BY DEF RequestStep
<1>2. \A t \in TaskIds : tasks[t].job # r
  BY NotEnqueued DEF RequestStep
<1>3. UNCHANGED <<tasks, runs>> /\ FaultsGrow
  BY DEF RequestStep
<1>4. {"io", "lost"} \subseteq FaultKinds
  BY DEF FaultKinds
<1>5. TypeOK'
  BY <1>1 DEF TypeOK, RequestStep, FaultsGrow
<1>6. QueueInv'
  BY <1>1, <1>2, <1>3 DEF QueueInv, TypeOK, TaskRow
<1>7. RowInv'
  <2> SUFFICES ASSUME NEW x \in Requests
               PROVE  HasCluster(x)' /\ (x # r => RowInvOf(x)')
    BY DEF RowInv
  <2>0. HasCluster(x)'
    <3>1. HasCluster(x) /\ deployments[x].cluster \in Stacks \cup {NoStack}
      BY DEF RowInv, TypeOK, DeploymentRow
    <3> QED BY <3>1, ConstantsAssumption
            DEF RequestStep, HasCluster, ClusterExists, DeploymentExists
  <2> SUFFICES ASSUME x # r PROVE RowInvOf(x)'
    BY <2>0
  <2>1. reqs'[x] = reqs[x]
    BY <1>1 DEF TypeOK
  <2>2. /\ \A s \in Stacks : ClusterExists(s) => clusters'[s].status # Absent
        /\ \A d \in Requests : DeploymentExists(d) =>
               /\ deployments'[d].status # Absent
               /\ deployments'[d].cluster = deployments[d].cluster
        /\ deployments'[x] = deployments[x]
    BY DEF RequestStep, DeploymentExists
  <2>3. HasRows(x) => HasRows(x)'
    BY <2>1, <2>2, HasRowsKept
  <2>4. /\ StackOf[x] \in Stacks \cup {NoStack}
        /\ reqs[x].cluster \in Stacks \cup {NoStack}
        /\ Op[x] = "provision" => StackOf[x] \in Stacks
    BY ConstantsAssumption, WorkloadAssumption DEF TypeOK, Request, ClusterOps
  <2>5. RowInvOf(x)
    BY DEF RowInv
  <2> QED BY <2>1, <2>2, <2>3, <2>4, <2>5, <1>3
          DEF RowInvOf, ClusterExists, DeploymentExists
<1>8. ReturnInv'
  <2>1. \A t \in TaskIds : runs[t].pc # "idle" =>
           jobs'[tasks[t].job] = jobs[tasks[t].job]
    BY <1>2, ConstantsAssumption DEF RequestStep, QueueInv, TypeOK, TaskRow
  <2> QED BY <2>1, <1>3, <1>4 DEF ReturnInv, Unsettled, FaultsGrow, TypeOK
<1>9. AcceptedJobTracked'
  BY <1>1, <1>3, <1>4 DEF AcceptedJobTracked, Unsettled, FaultsGrow, TypeOK, RequestStep
<1> QED BY <1>5, <1>6, <1>7, <1>8, <1>9

RequestWork(r) ==
    \/ LookupForProvision(r) \/ CreateClusterRow(r) \/ ResetClusterRow(r)
    \/ LookupForDestroy(r) \/ LookupForDeploy(r) \/ CreateDeploymentRow(r)
    \/ LookupForDelete(r) \/ CreateJobRecord(r) \/ ServerDies(r)

\* What Answer and AnswerFor do to the table of requests.
LEMMA AnswerFacts ==
    ASSUME TypeOK, NEW r \in Requests, NEW pc \in RequestPC \ {"unsent", "accepted"}
    PROVE  /\ Answer(r, pc) =>
                /\ \E q \in Request : /\ q.pc \notin {"unsent", "accepted"}
                                      /\ reqs' = [reqs EXCEPT ![r] = q]
                /\ reqs'[r].pc = pc
                /\ reqs'[r].cluster = reqs[r].cluster
           /\ \A s \in Stacks \cup {NoStack} : AnswerFor(r, s, pc) =>
                /\ \E q \in Request : /\ q.pc \notin {"unsent", "accepted"}
                                      /\ reqs' = [reqs EXCEPT ![r] = q]
                /\ reqs'[r].pc = pc
                /\ reqs'[r].cluster = s
<1>1. ASSUME Answer(r, pc)
      PROVE  /\ \E q \in Request : /\ q.pc \notin {"unsent", "accepted"}
                                   /\ reqs' = [reqs EXCEPT ![r] = q]
             /\ reqs'[r].pc = pc
             /\ reqs'[r].cluster = reqs[r].cluster
  <2> DEFINE q == [reqs[r] EXCEPT !.pc = pc]
  <2>1. reqs[r] \in Request
    BY DEF TypeOK
  <2>2. q \in Request /\ q.pc = pc /\ q.cluster = reqs[r].cluster
    BY <2>1 DEF Request
  <2>3. reqs' = [reqs EXCEPT ![r] = q] /\ reqs'[r] = q
    BY <1>1 DEF Answer, TypeOK
  <2> QED BY <2>2, <2>3
<1>2. ASSUME NEW s \in Stacks \cup {NoStack}, AnswerFor(r, s, pc)
      PROVE  /\ \E q \in Request : /\ q.pc \notin {"unsent", "accepted"}
                                   /\ reqs' = [reqs EXCEPT ![r] = q]
             /\ reqs'[r].pc = pc
             /\ reqs'[r].cluster = s
  <2>1. [pc |-> pc, cluster |-> s] \in Request
    BY DEF Request
  <2> QED BY <1>2, <2>1 DEF AnswerFor, TypeOK
<1> QED BY <1>1, <1>2

\* The handlers of the API server, up to the queue, preserve the invariant.
LEMMA RequestWorkKeeps ==
    ASSUME ControlInv, NEW r \in Requests, RequestWork(r)
    PROVE  ControlInv'
<1> USE DEF ControlInv
<1> DEFINE A == \E q \in Request : /\ q.pc \notin {"unsent", "accepted"}
                                   /\ reqs' = [reqs EXCEPT ![r] = q]
           From == reqs[r].pc \in {"unsent"} \cup InFlight
           Refused == reqs'[r].pc \in {"conflict", "error", "aborted"}
<1>f. faults \in [FaultKinds -> Nat] /\ {"io", "abort"} \subseteq FaultKinds
  BY DEF TypeOK, FaultKinds
<1>g. (NoFault \/ Fault("io") \/ Fault("abort")) => FaultsGrow
  BY <1>f, FaultGrows
<1>p. /\ InFlight \cup {"conflict", "error", "aborted"}
            \subseteq RequestPC \ {"unsent", "accepted"}
      /\ InFlight = {"create", "reset", "record", "enqueue"}
  BY DEF RequestPC, InFlight, Answered
<1>t. /\ TypeOK /\ RowInvOf(r)
      /\ reqs[r].cluster \in Stacks \cup {NoStack}
      /\ StackOf[r] \in Stacks \cup {NoStack}
      /\ Op[r] \in ClusterOps => StackOf[r] \in Stacks
      /\ NoStack \notin Stacks
      /\ DepOf[r] \in Requests
  BY ConstantsAssumption, WorkloadAssumption DEF RowInv, TypeOK, Request
<1>n. From => tasks[TaskOf(r)].job # r
  BY NotEnqueued, TaskFacts
<1>r. Refused /\ UNCHANGED tasks /\ From => RowInvOf(r)'
  BY <1>n DEF RowInvOf
<1>c. UNCHANGED clusters =>
        /\ clusters' \in [Stacks -> ClusterRow]
        /\ \A s \in Stacks : ClusterExists(s) => clusters'[s].status # Absent
  BY DEF TypeOK, ClusterExists
<1>d. UNCHANGED deployments =>
        /\ deployments' \in [Requests -> DeploymentRow]
        /\ \A d \in Requests :
              \/ deployments'[d] = deployments[d]
              \/ /\ d = r /\ ~DeploymentExists(d)
                 /\ deployments'[d].cluster \in Stacks
                 /\ ClusterExists(deployments'[d].cluster)
  BY DEF TypeOK
<1>j. UNCHANGED jobs =>
        /\ jobs' \in [Requests -> JobStatus \cup {Absent}]
        /\ \A x \in Requests \ {r} : jobs'[x] = jobs[x]
  BY DEF TypeOK
<1>1. CASE LookupForProvision(r)
  <2>0. From /\ Op[r] = "provision" /\ StackOf[r] \in Stacks
    BY <1>1, <1>t DEF LookupForProvision, MaySend, ClusterOps
  <2>1. \E pc \in {"reset", "create", "conflict", "error"} :
           /\ AnswerFor(r, StackOf[r], pc)
           /\ pc = "reset" => ClusterExists(StackOf[r])
    BY <1>1 DEF LookupForProvision, ClusterExists, Absent
  <2>2. /\ A /\ reqs'[r].cluster = StackOf[r]
        /\ reqs'[r].pc \in {"reset", "create", "conflict", "error"}
        /\ reqs'[r].pc = "reset" => ClusterExists(StackOf[r])
    BY <2>1, <1>p, <1>t, AnswerFacts
  <2>3. RequestStep(r)
    BY <1>1, <2>0, <2>2, <1>c, <1>d, <1>j, <1>g DEF LookupForProvision, RequestStep
  <2>4. RowInvOf(r)'
    BY <1>1, <2>0, <2>2, <1>n DEF LookupForProvision, RowInvOf, ClusterExists
  <2> QED BY <2>3, <2>4, RequestKeeps
<1>2. CASE CreateClusterRow(r)
  <2>0. From /\ Op[r] = "provision" /\ reqs[r].cluster = StackOf[r]
             /\ StackOf[r] \in Stacks
    BY <1>2, <1>p, <1>t DEF CreateClusterRow, RowInvOf, ClusterOps
  <2>1. A /\ reqs'[r].cluster = StackOf[r] /\ reqs'[r].pc \in {"record", "error"}
    BY <1>2, <2>0, <1>p, <1>t, AnswerFacts DEF CreateClusterRow
  <2>2. /\ clusters' \in [Stacks -> ClusterRow]
        /\ \A s \in Stacks : ClusterExists(s) => clusters'[s].status # Absent
    <3>1. ASSUME CreateCluster(StackOf[r])
          PROVE  /\ clusters' \in [Stacks -> ClusterRow]
                 /\ \A s \in Stacks : ClusterExists(s) => clusters'[s].status # Absent
      BY <3>1, <2>0 DEF CreateCluster, TypeOK, ClusterRow, ClusterStatus,
         ClusterExists, Absent
    <3> QED BY <1>2, <2>0, <1>c, <3>1 DEF CreateClusterRow
  <2>3. reqs'[r].pc = "record" => clusters'[StackOf[r]].status # Absent
    BY <1>2, <2>0, <1>t, <1>p, AnswerFacts
       DEF CreateClusterRow, CreateCluster, TypeOK, Absent
  <2>4. RequestStep(r)
    BY <1>2, <2>0, <2>1, <2>2, <1>d, <1>j, <1>g DEF CreateClusterRow, RequestStep
  <2>5. RowInvOf(r)'
    BY <1>2, <2>0, <2>1, <2>3, <1>n
       DEF CreateClusterRow, RowInvOf, HasRows, ClusterExists, ModelOps
  <2> QED BY <2>4, <2>5, RequestKeeps
<1>3. CASE ResetClusterRow(r)
  <2>0. From /\ Op[r] = "provision" /\ reqs[r].cluster = StackOf[r]
             /\ StackOf[r] \in Stacks /\ ClusterExists(StackOf[r])
    BY <1>3, <1>p, <1>t DEF ResetClusterRow, RowInvOf, ClusterOps
  <2>1. A /\ reqs'[r].cluster = StackOf[r] /\ reqs'[r].pc \in {"record", "error"}
    BY <1>3, <2>0, <1>p, <1>t, AnswerFacts DEF ResetClusterRow
  <2>2. /\ clusters' \in [Stacks -> ClusterRow]
        /\ \A s \in Stacks : ClusterExists(s) => clusters'[s].status # Absent
    <3>1. "active" \in ClusterStatus /\ NoIP \in IPs \cup {NoIP}
      BY DEF ClusterStatus
    <3> QED BY <1>3, <3>1, <1>c, ClusterUpdate DEF ResetClusterRow
  <2>4. RequestStep(r)
    BY <1>3, <2>0, <2>1, <2>2, <1>d, <1>j, <1>g DEF ResetClusterRow, RequestStep
  <2>5. RowInvOf(r)'
    BY <1>3, <2>0, <2>1, <2>2, <1>n
       DEF ResetClusterRow, RowInvOf, HasRows, ClusterExists, ModelOps
  <2> QED BY <2>4, <2>5, RequestKeeps
<1>4. CASE LookupForDestroy(r)
  <2>0. From /\ Op[r] = "destroy" /\ StackOf[r] \in Stacks
    BY <1>4, <1>t DEF LookupForDestroy, MaySend, ClusterOps
  <2>1. \E pc \in {"record", "conflict"}, s \in {StackOf[r], NoStack} :
           /\ AnswerFor(r, s, pc)
           /\ pc = "record" /\ s # NoStack => ClusterExists(s)
    BY <1>4 DEF LookupForDestroy, ClusterExists, Absent
  <2>2. /\ A /\ reqs'[r].cluster \in {StackOf[r], NoStack}
        /\ reqs'[r].pc \in {"record", "conflict"}
        /\ reqs'[r].pc = "record" /\ reqs'[r].cluster # NoStack =>
              ClusterExists(reqs'[r].cluster)
    BY <2>1, <1>p, <1>t, AnswerFacts
  <2>3. RequestStep(r)
    BY <1>4, <2>0, <2>2, <1>c, <1>d, <1>j, <1>g DEF LookupForDestroy, RequestStep
  <2>4. RowInvOf(r)'
    BY <1>4, <2>0, <2>2, <1>n
       DEF LookupForDestroy, RowInvOf, HasRows, ClusterExists, ModelOps
  <2> QED BY <2>3, <2>4, RequestKeeps
<1>5. CASE LookupForDeploy(r)
  <2>0. From /\ Op[r] = "deploy" /\ ~DeploymentExists(r)
    BY <1>5, <1>t DEF LookupForDeploy, MaySend, RowInvOf
  <2>1. \/ \E s \in Stacks : AnswerFor(r, s, "create") /\ ClusterExists(s)
        \/ AnswerFor(r, NoStack, "error")
    BY <1>5, <1>t DEF LookupForDeploy, ClusterExists, Absent, Touches
  <2>2. A /\ \/ /\ reqs'[r].pc = "create" /\ reqs'[r].cluster # NoStack
                /\ ClusterExists(reqs'[r].cluster)
             \/ reqs'[r].pc = "error"
    BY <2>1, <1>p, <1>t, AnswerFacts
  <2>3. RequestStep(r)
    BY <1>5, <2>0, <2>2, <1>c, <1>d, <1>j, <1>g DEF LookupForDeploy, RequestStep
  <2>4. RowInvOf(r)'
    BY <1>5, <2>0, <2>2, <1>n
       DEF LookupForDeploy, RowInvOf, ClusterExists, DeploymentExists
  <2> QED BY <2>3, <2>4, RequestKeeps
<1>6. CASE CreateDeploymentRow(r)
  <2>0. From /\ Op[r] = "deploy" /\ DepOf[r] = r /\ ~DeploymentExists(r)
             /\ reqs[r].cluster \in Stacks /\ ClusterExists(reqs[r].cluster)
    BY <1>6, <1>p, <1>t, WorkloadAssumption DEF CreateDeploymentRow, RowInvOf
  <2>1. A /\ reqs'[r].cluster = reqs[r].cluster /\ reqs'[r].pc \in {"record", "error"}
    BY <1>6, <1>p, <1>t, AnswerFacts DEF CreateDeploymentRow
  <2>2. /\ deployments' \in [Requests -> DeploymentRow]
        /\ \A d \in Requests :
              \/ deployments'[d] = deployments[d]
              \/ /\ d = r /\ ~DeploymentExists(d)
                 /\ deployments'[d].cluster \in Stacks
                 /\ ClusterExists(deployments'[d].cluster)
    BY <1>6, <2>0, <1>d DEF CreateDeploymentRow, CreateDeployment, TypeOK,
       DeploymentRow, DeploymentStatus
  <2>3. reqs'[r].pc = "record" => /\ deployments'[r].status # Absent
                                  /\ deployments'[r].cluster = reqs[r].cluster
    BY <1>6, <2>0, <1>t, <1>p, AnswerFacts
       DEF CreateDeploymentRow, CreateDeployment, TypeOK, Absent
  <2>4. RequestStep(r)
    BY <1>6, <2>0, <2>1, <2>2, <1>c, <1>j, <1>g DEF CreateDeploymentRow, RequestStep
  <2>5. RowInvOf(r)'
    BY <1>6, <2>0, <2>1, <2>3, <1>n, <1>t
       DEF CreateDeploymentRow, RowInvOf, HasRows, ClusterExists, DeploymentExists
  <2> QED BY <2>4, <2>5, RequestKeeps
<1>7. CASE LookupForDelete(r)
  <2> DEFINE d == deployments[DepOf[r]]
  <2>0. From /\ Op[r] = "delete" /\ d.cluster \in Stacks \cup {NoStack}
             /\ HasCluster(DepOf[r])
    BY <1>7, <1>t DEF LookupForDelete, MaySend, TypeOK, DeploymentRow, RowInv
  <2>1. \/ AnswerFor(r, d.cluster, "enqueue") /\ DeploymentExists(DepOf[r])
        \/ AnswerFor(r, d.cluster, "conflict")
        \/ AnswerFor(r, NoStack, "error")
    BY <1>7 DEF LookupForDelete, DeploymentExists
  <2>2. A /\ \/ /\ reqs'[r].pc = "enqueue" /\ reqs'[r].cluster = d.cluster
                /\ DeploymentExists(DepOf[r])
             \/ reqs'[r].pc \in {"conflict", "error"}
    BY <2>0, <2>1, <1>p, <1>t, AnswerFacts
  <2>3. RequestStep(r)
    BY <1>7, <2>0, <2>2, <1>c, <1>d, <1>j, <1>g DEF LookupForDelete, RequestStep
  <2>4. RowInvOf(r)'
    BY <1>7, <2>0, <2>2, <1>n DEF LookupForDelete, RowInvOf, HasRows, HasCluster,
       ClusterExists, DeploymentExists
  <2> QED BY <2>3, <2>4, RequestKeeps
<1>8. CASE CreateJobRecord(r)
  <2>0. From /\ HasRows(r)
    BY <1>8, <1>p, <1>t DEF CreateJobRecord, RowInvOf
  <2>1. A /\ reqs'[r].cluster = reqs[r].cluster /\ reqs'[r].pc = "enqueue"
    BY <1>8, <1>p, <1>t, AnswerFacts DEF CreateJobRecord
  <2>2. /\ jobs' \in [Requests -> JobStatus \cup {Absent}]
        /\ \A x \in Requests \ {r} : jobs'[x] = jobs[x]
    BY <1>8, <1>j DEF CreateJobRecord, CreateJob, TypeOK, JobStatus
  <2>3. RequestStep(r)
    BY <1>8, <2>0, <2>1, <2>2, <1>c, <1>d, <1>g DEF CreateJobRecord, RequestStep
  <2>4. RowInvOf(r)'
    BY <1>8, <2>0, <2>1 DEF CreateJobRecord, RowInvOf, HasRows, ClusterExists,
       DeploymentExists
  <2> QED BY <2>3, <2>4, RequestKeeps
<1>9. CASE ServerDies(r)
  <2>1. From /\ A /\ Refused
    BY <1>9, <1>p, <1>t, AnswerFacts DEF ServerDies
  <2>2. RequestStep(r)
    BY <1>9, <2>1, <1>c, <1>d, <1>j, <1>g DEF ServerDies, RequestStep
  <2>3. RowInvOf(r)'
    BY <1>9, <2>1, <1>r DEF ServerDies
  <2> QED BY <2>2, <2>3, RequestKeeps
<1> QED BY <1>1, <1>2, <1>3, <1>4, <1>5, <1>6, <1>7, <1>8, <1>9 DEF RequestWork

-----------------------------------------------------------------------------
(* The steps of the queue and of the job rows                              *)

\* Steps that change neither the tables of rows nor the requests.
LEMMA NoRowChange ==
    ASSUME UNCHANGED <<clusters, deployments>>
    PROVE  RowsKept
BY DEF RowsKept, ClusterExists, DeploymentExists

(***************************************************************************)
(* The task ID is free when a request is accepted, so no accepted request  *)
(* that still waits for its task loses it.                                 *)
(***************************************************************************)
LEMMA EnqueueKeeps ==
    ASSUME ControlInv, NEW r \in Requests, Enqueue(r)
    PROVE  ControlInv'
<1> USE DEF ControlInv
<1> DEFINE t == TaskOf(r)
           task == [state |-> "waiting", job |-> r, retried |-> 0]
<1>f. faults \in [FaultKinds -> Nat] /\ {"io", "lost"} \subseteq FaultKinds
  BY DEF TypeOK, FaultKinds
<1>g. (NoFault \/ Fault("io")) => FaultsGrow
  BY <1>f, FaultGrows
<1>t. t \in TaskIds /\ task \in TaskRow /\ task.state = "waiting" /\ task.job = r
  BY TaskFacts, ConstantsAssumption DEF TaskRow
<1>n. \A u \in TaskIds : tasks[u].job # r
  BY NotEnqueued DEF Enqueue, InFlight
<1>h. reqs[r].pc = "enqueue" /\ HasRows(r) /\ FaultsGrow
      /\ UNCHANGED <<clusters, deployments, jobs, runs, infra, kube>>
  BY <1>g DEF Enqueue, RowInv, RowInvOf
<1> HIDE DEF task
<1>q. PICK pc \in {"accepted", "error"} :
        /\ Answer(r, pc)
        /\ \/ UNCHANGED tasks /\ pc = "error"
           \/ tasks[t].state = "none" /\ tasks' = [tasks EXCEPT ![t] = task]
  BY DEF Enqueue, task
<1>a. /\ reqs' = [reqs EXCEPT ![r] = [reqs[r] EXCEPT !.pc = pc]]
      /\ [reqs[r] EXCEPT !.pc = pc] \in Request
      /\ \A x \in Requests : /\ reqs'[x].cluster = reqs[x].cluster
                             /\ x # r => reqs'[x] = reqs[x]
      /\ reqs'[r].pc = pc
  <2>1. reqs[r] \in Request /\ pc \in RequestPC /\ reqs \in [Requests -> Request]
    BY DEF TypeOK, RequestPC, Answered
  <2>2. reqs' = [reqs EXCEPT ![r] = [reqs[r] EXCEPT !.pc = pc]]
    BY <1>q DEF Answer
  <2>3. /\ [reqs[r] EXCEPT !.pc = pc] \in Request
        /\ [reqs[r] EXCEPT !.pc = pc].pc = pc
        /\ [reqs[r] EXCEPT !.pc = pc].cluster = reqs[r].cluster
    BY <2>1 DEF Request
  <2> QED BY <2>1, <2>2, <2>3
<1>1. TypeOK'
  BY <1>h, <1>t, <1>q, <1>a DEF TypeOK, FaultsGrow
<1>2. QueueInv'
  BY <1>h, <1>t, <1>q, <1>a, <1>n, ConstantsAssumption DEF QueueInv, TypeOK, TaskRow
<1>3. RowInv'
  <2> SUFFICES ASSUME NEW x \in Requests PROVE RowInvOf(x)' /\ HasCluster(x)'
    BY DEF RowInv
  <2>1. HasCluster(x)'
    BY <1>h DEF HasCluster, RowInv, DeploymentExists, ClusterExists
  <2>2. HasRows(x) => HasRows(x)'
    BY <1>h, <1>a DEF HasRows, DeploymentExists, ClusterExists
  <2>3. x # r /\ tasks'[TaskOf(x)].job = x => tasks[TaskOf(x)].job = x
    BY <1>q, <1>t, TaskFacts DEF TypeOK
  <2>4. RowInvOf(x)
    BY DEF RowInv
  <2>5. CASE x = r
    <3>1. reqs'[x].pc \in {"accepted", "error"} /\ HasRows(x)
      BY <2>5, <1>h, <1>a
    <3> QED BY <3>1, <2>1, <2>2 DEF RowInvOf
  <2>6. CASE x # r
    <3>1. reqs'[x] = reqs[x]
      BY <2>6, <1>a
    <3>2. clusters' = clusters /\ deployments' = deployments
      BY <1>h
    <3> QED BY <2>1, <2>2, <2>3, <2>4, <2>6, <3>1, <3>2
            DEF RowInvOf, ClusterExists, DeploymentExists
  <2> QED BY <2>5, <2>6
<1>4. ReturnInv'
  <2>1. \A u \in TaskIds : runs[u].pc # "idle" => tasks'[u] = tasks[u]
    BY <1>q, <1>t DEF QueueInv, TypeOK
  <2> QED BY <2>1, <1>h, <1>f DEF ReturnInv, Unsettled, FaultsGrow
<1>5. AcceptedJobTracked'
  <2> SUFFICES ASSUME faults'["io"] = 0, NEW x \in Requests,
                      reqs'[x].pc = "accepted", jobs[x] \in {"queued", "running"}
               PROVE  /\ tasks'[TaskOf(x)].job = x
                      /\ tasks'[TaskOf(x)].state = "archived" => faults'["lost"] > 0
    BY <1>h DEF AcceptedJobTracked, Unsettled
  <2>1. faults["io"] = 0 /\ (faults["lost"] > 0 => faults'["lost"] > 0)
    BY <1>h, <1>f DEF FaultsGrow
  <2>2. CASE x = r
    BY <2>2, <1>q, <1>a, <1>t DEF TypeOK
  <2>3. CASE x # r
    <3>1. /\ tasks[TaskOf(x)].job = x
          /\ tasks[TaskOf(x)].state = "archived" => faults["lost"] > 0
      BY <2>1, <2>3, <1>a DEF AcceptedJobTracked, Unsettled
    <3>2. tasks[TaskOf(x)].state # "none"
      BY <3>1, TaskFacts, ConstantsAssumption DEF QueueInv
    <3> QED BY <3>1, <3>2, <2>1, <1>q, <1>t, TaskFacts DEF TypeOK
  <2> QED BY <2>2, <2>3
<1> QED BY <1>1, <1>2, <1>3, <1>4, <1>5

\* Asynq hands a waiting task to a handler.
LEMMA StartKeeps ==
    ASSUME ControlInv, NEW t \in TaskIds, StartTask(t)
    PROVE  ControlInv'
<1> USE DEF ControlInv
<1>1. /\ FirstStep(t.kind) \in RunPC
      /\ FirstStep(t.kind) \notin {"idle", "ok", "err"}
  BY TaskFacts DEF FirstStep, RunPC, ClusterOps, ModelOps
<1> DEFINE task == [tasks[t] EXCEPT !.state = "active"]
           run == [pc |-> FirstStep(t.kind), ip |-> NoIP]
<1>2. task \in TaskRow /\ task.state = "active" /\ task.job = tasks[t].job
  BY DEF TypeOK, TaskRow
<1>3. run \in Run /\ run.pc = FirstStep(t.kind)
  BY <1>1 DEF Run
<1>4. /\ tasks' = [tasks EXCEPT ![t] = task] /\ runs' = [runs EXCEPT ![t] = run]
      /\ UNCHANGED <<clusters, deployments, jobs, reqs, infra, kube, faults>>
      /\ tasks[t].state = "waiting"
  BY DEF StartTask, NoFault
<1> HIDE DEF task, run
<1>5. TypeOK'
  BY <1>2, <1>3, <1>4 DEF TypeOK
<1>6. QueueInv'
  BY <1>1, <1>2, <1>3, <1>4, ConstantsAssumption DEF QueueInv, TypeOK
<1>7. RowInv'
  BY <1>2, <1>4, NoRowChange, RowInvKept, TaskFacts DEF TypeOK
<1>8. ReturnInv'
  BY <1>1, <1>2, <1>3, <1>4 DEF ReturnInv, Unsettled, TypeOK
<1>9. AcceptedJobTracked'
  BY <1>2, <1>4, TaskFacts DEF AcceptedJobTracked, Unsettled, TypeOK
<1> QED BY <1>5, <1>6, <1>7, <1>8, <1>9

(***************************************************************************)
(* A handler writes the row of the job of its own task.  No other task has *)
(* that job.                                                               *)
(***************************************************************************)
LEMMA JobStepKeeps ==
    ASSUME ControlInv, NEW t \in TaskIds, JobRunning(t) \/ CompleteJob(t) \/ FailJob(t)
    PROVE  ControlInv'
<1> USE DEF ControlInv
<1>f. faults \in [FaultKinds -> Nat] /\ {"io", "lost"} \subseteq FaultKinds
  BY DEF TypeOK, FaultKinds
<1>g. /\ (NoFault \/ Fault("io")) => FaultsGrow
      /\ Fault("io") => faults'["io"] > 0
  BY <1>f, FaultGrows
<1>k. /\ AfterRunning(t.kind) \in RunPC
      /\ AfterRunning(t.kind) \notin {"idle", "ok", "err"}
  BY TaskFacts DEF AfterRunning, RunPC, ClusterOps, ModelOps
<1>1. PICK st \in {"running", "completed", "failed"}, pc \in RunPC \ {"idle"} :
        /\ TryUpdateJobStatus(t, st) /\ Goto(t, pc)
        /\ pc \in {"ok", "err"} => st # "running"
  BY <1>k DEF JobRunning, CompleteJob, FailJob, RunPC
<1>2. /\ UNCHANGED <<clusters, deployments, tasks, reqs, infra, kube>>
      /\ runs[t].pc \notin {"idle", "ok", "err"}
  BY DEF JobRunning, CompleteJob, FailJob
<1>3. FaultsGrow
  BY <1>1, <1>g DEF TryUpdateJobStatus
<1>4. /\ runs' = [runs EXCEPT ![t] = [runs[t] EXCEPT !.pc = pc]]
      /\ [runs[t] EXCEPT !.pc = pc] \in Run
      /\ [runs[t] EXCEPT !.pc = pc].pc = pc
  <2>1. runs[t] \in Run
    BY DEF TypeOK
  <2> QED BY <1>1, <2>1 DEF Goto, Run
<1> DEFINE j == tasks[t].job
<1>5. j \in Requests /\ TaskOf(j) = t
  BY <1>2, JobOfTask DEF QueueInv
<1>6. \A u \in TaskIds : tasks[u].job = j => u = t
  BY <1>5, ConstantsAssumption DEF QueueInv
<1>7. /\ jobs' \in [Requests -> JobStatus \cup {Absent}]
      /\ \A x \in Requests : x # j => jobs'[x] = jobs[x]
      /\ faults'["io"] = 0 => jobs'[j] \in {st, Absent}
  <2>1. jobs \in [Requests -> JobStatus \cup {Absent}] /\ st \in JobStatus
    BY DEF TypeOK, JobStatus
  <2>2. CASE UpdateJobStatus(j, st)
    BY <2>1, <2>2, <1>5 DEF UpdateJobStatus
  <2>3. CASE Fault("io") /\ UNCHANGED jobs
    BY <2>1, <2>3, <1>g
  <2> QED BY <1>1, <2>2, <2>3 DEF TryUpdateJobStatus
<1> HIDE DEF j
<1>8. TypeOK'
  BY <1>2, <1>3, <1>4, <1>7 DEF TypeOK, FaultsGrow
<1>9. QueueInv'
  BY <1>2, <1>4 DEF QueueInv, TypeOK
<1>10. RowInv'
  BY <1>2, NoRowChange, RowInvKept
<1>11. ReturnInv'
  <2> SUFFICES ASSUME faults'["io"] = 0, NEW u \in TaskIds,
                      runs'[u].pc \in {"ok", "err"}
               PROVE  jobs'[tasks[u].job] \notin {"queued", "running"}
    BY <1>2 DEF ReturnInv, Unsettled
  <2>1. faults["io"] = 0
    BY <1>3, <1>f DEF FaultsGrow
  <2>2. CASE u = t
    <3>1. pc \in {"ok", "err"}
      BY <2>2, <1>4 DEF TypeOK
    <3> QED BY <2>2, <3>1, <1>1, <1>7 DEF j, Absent
  <2>3. CASE u # t
    <3>1. runs[u].pc \in {"ok", "err"}
      BY <2>3, <1>4 DEF TypeOK
    <3>2. tasks[u].job \in Requests /\ tasks[u].job # j
      BY <2>3, <3>1, <1>6, JobOfTask DEF QueueInv
    <3> QED BY <2>1, <3>1, <3>2, <1>7 DEF ReturnInv, Unsettled
  <2> QED BY <2>2, <2>3
<1>12. AcceptedJobTracked'
  <2> SUFFICES ASSUME faults'["io"] = 0, NEW x \in Requests,
                      reqs[x].pc = "accepted", jobs'[x] \in {"queued", "running"}
               PROVE  /\ tasks[TaskOf(x)].job = x
                      /\ tasks[TaskOf(x)].state = "archived" => faults'["lost"] > 0
    BY <1>2 DEF AcceptedJobTracked, Unsettled
  <2>1. faults["io"] = 0 /\ (faults["lost"] > 0 => faults'["lost"] > 0)
    BY <1>3, <1>f DEF FaultsGrow
  <2>2. CASE x = j
    <3>1. tasks[t].state = "active"
      BY <1>2 DEF QueueInv
    <3> QED BY <2>2, <3>1, <1>5 DEF j
  <2>3. CASE x # j
    BY <2>1, <2>3, <1>7 DEF AcceptedJobTracked, Unsettled
  <2> QED BY <2>2, <2>3
<1> QED BY <1>8, <1>9, <1>10, <1>11, <1>12

(***************************************************************************)
(* Asynq ends a run: the task is deleted after its job was settled, waits  *)
(* again, or is archived.                                                  *)
(***************************************************************************)
LEMMA EndRunKeeps ==
    ASSUME ControlInv, NEW t \in TaskIds,
           ReturnNil(t) \/ ReturnErr(t) \/ RunLost(t) \/ RunRequeued(t)
    PROVE  ControlInv'
<1> USE DEF ControlInv
<1>f. faults \in [FaultKinds -> Nat] /\ {"io", "lost", "restart"} \subseteq FaultKinds
  BY DEF TypeOK, FaultKinds
<1>g. /\ (NoFault \/ Fault("lost") \/ Fault("restart")) => FaultsGrow
      /\ Fault("lost") => faults'["lost"] > 0
  BY <1>f, FaultGrows
<1>r. /\ runs[t].pc # "idle" /\ tasks[t] \in TaskRow
      /\ tasks[t].state = "active" /\ tasks[t].job \in Requests
      /\ MaxRetry \in Nat /\ NoTask \in TaskRow /\ NoRun \in Run
      /\ NoReq \notin Requests
  <2>1. runs[t].pc # "idle" /\ tasks[t] \in TaskRow
    BY DEF ReturnNil, ReturnErr, RunLost, RunRequeued, TypeOK
  <2>2. tasks[t].state = "active" /\ tasks[t].job \in Requests
    BY <2>1, JobOfTask DEF QueueInv
  <2> QED BY <2>1, <2>2, ConstantsAssumption
          DEF NoTask, NoRun, TaskRow, Run, RunPC
<1>1. PICK task \in TaskRow :
        /\ EndRun(t, task)
        /\ \/ task = NoTask /\ runs[t].pc = "ok"
           \/ /\ task.job = tasks[t].job
              /\ \/ task.state = "waiting"
                 \/ task.state = "archived" /\ (runs[t].pc = "err" \/ Fault("lost"))
  <2>1. /\ RetryOrArchive(t) \in TaskRow
        /\ RetryOrArchive(t).job = tasks[t].job
        /\ RetryOrArchive(t).state \in {"waiting", "archived"}
    <3>1. [tasks[t] EXCEPT !.state = "archived"]
            = [state |-> "archived", job |-> tasks[t].job, retried |-> tasks[t].retried]
      BY <1>r DEF TaskRow
    <3>2. tasks[t].retried \in 0 .. MaxRetry
      BY <1>r DEF TaskRow
    <3> QED BY <1>r, <3>1, <3>2 DEF RetryOrArchive, TaskRow
  <2>2. /\ [tasks[t] EXCEPT !.state = "waiting"] \in TaskRow
        /\ [tasks[t] EXCEPT !.state = "waiting"].job = tasks[t].job
        /\ [tasks[t] EXCEPT !.state = "waiting"].state = "waiting"
    BY <1>r DEF TaskRow
  <2> QED BY <2>1, <2>2, <1>r DEF ReturnNil, ReturnErr, RunLost, RunRequeued
<1>2. /\ FaultsGrow
      /\ UNCHANGED <<clusters, deployments, jobs, reqs, infra, kube>>
      /\ tasks' = [tasks EXCEPT ![t] = task]
      /\ runs' = [runs EXCEPT ![t] = NoRun]
  BY <1>1, <1>g DEF ReturnNil, ReturnErr, RunLost, RunRequeued, EndRun
<1>3. NoRun.pc = "idle" /\ NoTask.job = NoReq /\ NoTask.state = "none"
  BY DEF NoRun, NoTask
<1>4. TypeOK'
  BY <1>2, <1>r DEF TypeOK, FaultsGrow
<1>5. QueueInv'
  <2> SUFFICES ASSUME NEW u \in TaskIds
               PROVE  /\ tasks'[u].state = "none" <=> tasks'[u].job = NoReq
                      /\ tasks'[u].state = "active" <=> runs'[u].pc # "idle"
                      /\ tasks'[u].job # NoReq =>
                            /\ TaskOf(tasks'[u].job) = u
                            /\ reqs[tasks'[u].job].pc \in {"accepted", "error"}
    BY <1>2 DEF QueueInv, TaskOf
  <2>1. CASE u = t
    <3>1. tasks'[u] = task /\ runs'[u] = NoRun
      BY <2>1, <1>2 DEF TypeOK
    <3> QED BY <2>1, <3>1, <1>1, <1>3, <1>r DEF QueueInv
  <2>2. CASE u # t
    <3>1. tasks'[u] = tasks[u] /\ runs'[u] = runs[u]
      BY <2>2, <1>2 DEF TypeOK
    <3> QED BY <3>1 DEF QueueInv
  <2> QED BY <2>1, <2>2
<1>6. RowInv'
  <2>1. \A x \in Requests : tasks'[TaskOf(x)].job = x => tasks[TaskOf(x)].job = x
    BY <1>1, <1>2, <1>3, <1>r, TaskFacts DEF TypeOK
  <2> QED BY <2>1, <1>2, NoRowChange, RowInvKept
<1>7. ReturnInv'
  <2> SUFFICES ASSUME faults'["io"] = 0, NEW u \in TaskIds,
                      runs'[u].pc \in {"ok", "err"}
               PROVE  jobs[tasks'[u].job] \notin {"queued", "running"}
    BY <1>2 DEF ReturnInv, Unsettled
  <2>1. faults["io"] = 0
    BY <1>2, <1>f DEF FaultsGrow
  <2>2. u # t /\ tasks'[u] = tasks[u] /\ runs'[u] = runs[u]
    BY <1>2, <1>3 DEF TypeOK
  <2> QED BY <2>1, <2>2 DEF ReturnInv, Unsettled
<1>8. AcceptedJobTracked'
  <2> SUFFICES ASSUME faults'["io"] = 0, NEW x \in Requests,
                      reqs[x].pc = "accepted", jobs[x] \in {"queued", "running"}
               PROVE  /\ tasks'[TaskOf(x)].job = x
                      /\ tasks'[TaskOf(x)].state = "archived" => faults'["lost"] > 0
    BY <1>2 DEF AcceptedJobTracked, Unsettled
  <2>1. faults["io"] = 0 /\ (faults["lost"] > 0 => faults'["lost"] > 0)
    BY <1>2, <1>f DEF FaultsGrow
  <2>2. /\ tasks[TaskOf(x)].job = x
        /\ tasks[TaskOf(x)].state = "archived" => faults["lost"] > 0
    BY <2>1 DEF AcceptedJobTracked, Unsettled
  <2>3. CASE TaskOf(x) = t
    <3>1. runs[t].pc \notin {"ok", "err"}
      BY <2>1, <2>2, <2>3 DEF ReturnInv, Unsettled
    <3>2. tasks'[t] = task
      BY <1>2 DEF TypeOK
    <3> QED BY <2>2, <2>3, <3>1, <3>2, <1>1, <1>g
  <2>4. CASE TaskOf(x) # t
    <3>1. tasks'[TaskOf(x)] = tasks[TaskOf(x)]
      BY <2>4, <1>2, TaskFacts DEF TypeOK
    <3> QED BY <2>1, <2>2, <3>1
  <2> QED BY <2>3, <2>4
<1> QED BY <1>4, <1>5, <1>6, <1>7, <1>8

-----------------------------------------------------------------------------
(* The theorems                                                            *)

\* The empty database, the empty queue and the unsent workload satisfy it.
LEMMA InitControlInv == Init => ControlInv
<1> SUFFICES ASSUME Init PROVE ControlInv
  OBVIOUS
<1>1. TypeOK
  BY ConstantsAssumption
     DEF Init, TypeOK, ClusterRow, DeploymentRow, TaskRow, NoTask, Run, NoRun,
         RunPC, Request, RequestPC
<1>2. QueueInv
  BY DEF Init, QueueInv, NoTask, NoRun
<1>3. RowInv
  <2>1. \A r \in Requests : tasks[TaskOf(r)].job # r
    BY TaskFacts, ConstantsAssumption DEF Init, NoTask
  <2> QED BY <2>1 DEF Init, RowInv, RowInvOf, HasCluster, DeploymentExists
<1>4. ReturnInv /\ AcceptedJobTracked
  BY DEF Init, ReturnInv, AcceptedJobTracked, Unsettled, NoRun
<1> QED BY <1>1, <1>2, <1>3, <1>4 DEF ControlInv

\* Every step of the API server, the worker and the queue preserves it.
LEMMA NextControlInv == ControlInv /\ [Next]_vars => ControlInv'
<1> SUFFICES ASSUME ControlInv, [Next]_vars PROVE ControlInv'
  OBVIOUS
<1>1. CASE JobNext
  <2>1. ASSUME NEW r \in Requests, CreateJobRecord(r) \/ Enqueue(r) \/ ServerDies(r)
        PROVE  ControlInv'
    BY <2>1, EnqueueKeeps, RequestWorkKeeps DEF RequestWork
  <2>2. ASSUME NEW t \in TaskIds,
               \/ StartTask(t) \/ JobRunning(t) \/ CompleteJob(t) \/ FailJob(t)
               \/ ReturnNil(t) \/ ReturnErr(t) \/ RunLost(t) \/ RunRequeued(t)
        PROVE  ControlInv'
    BY <2>2, StartKeeps, JobStepKeeps, EndRunKeeps
  <2> QED BY <1>1, <2>1, <2>2 DEF JobNext
<1>2. CASE ClusterNext
  <2>1. \/ \E r \in Requests : RequestWork(r)
        \/ \E t \in TaskIds : ClusterWork(t)
    BY <1>2 DEF ClusterNext, RequestWork, ClusterWork
  <2> QED BY <2>1, RequestWorkKeeps, ClusterWorkIsWork, WorkKeeps DEF ControlInv
<1>3. CASE ModelNext
  <2>1. \/ \E r \in Requests : RequestWork(r)
        \/ \E t \in TaskIds : ModelWork(t)
    BY <1>3 DEF ModelNext, RequestWork, ModelWork
  <2> QED BY <2>1, RequestWorkKeeps, ModelWorkIsWork, WorkKeeps DEF ControlInv
<1>4. CASE UNCHANGED vars
  BY <1>4 DEF vars, ControlInv, TypeOK, QueueInv, RowInv, RowInvOf, HasRows,
     HasCluster, ClusterExists, DeploymentExists, ReturnInv, AcceptedJobTracked,
     Unsettled
<1> QED BY <1>1, <1>2, <1>3, <1>4 DEF Next, Finished

(***************************************************************************)
(* The inductive invariant of the control plane holds in every state, for  *)
(* every workload, whatever fails: what is in Redis, what is in PostgreSQL *)
(* and where the handlers are agree with each other.                       *)
(***************************************************************************)
THEOREM ControlInvariant == Spec => []ControlInv
<1>1. Init => ControlInv
  BY InitControlInv
<1>2. ControlInv /\ [Next]_vars => ControlInv'
  BY NextControlInv
<1> QED BY <1>1, <1>2, PTL DEF Spec

(***************************************************************************)
(* Every table, task and handler keeps its type.  In particular no task is *)
(* retried more than MaxRetry times, and no run works with the address of  *)
(* a cluster that has no row.                                              *)
(***************************************************************************)
THEOREM TypeCorrect == Spec => []TypeOK
<1>1. ControlInv => TypeOK
  BY DEF ControlInv
<1> QED BY <1>1, ControlInvariant, PTL

(***************************************************************************)
(* A queued or running task always finds the rows its handler updates, of  *)
(* the cluster its request was accepted for, in every interleaving of the  *)
(* API server's writes with the worker's and with every fault.             *)
(***************************************************************************)
THEOREM TasksHaveRows == Spec => []TaskHasRow
<1>1. ControlInv => TaskHasRow
  <2> SUFFICES ASSUME ControlInv, NEW t \in TaskIds, Live(t)
               PROVE  LET s == TaskStack(t) IN
                      /\ t.kind = "provision" => s = t.id
                      /\ t.kind = "destroy" => s \in {t.id, NoStack}
                      /\ t.kind \in ModelOps => /\ DeploymentExists(t.id)
                                                /\ deployments[t.id].cluster = s
                                                /\ s # NoStack
                      /\ s # NoStack => ClusterExists(s)
    BY DEF TaskHasRow
  <2> DEFINE r == tasks[t].job
  <2>1. r \in Requests /\ TaskOf(r) = t /\ Op[r] = t.kind /\ HasRows(r)
    BY JobOfTask DEF ControlInv, Live
  <2>2. /\ t.kind \in ClusterOps => t.id = StackOf[r]
        /\ t.kind \in ModelOps => t.id = DepOf[r]
    BY <2>1, TaskFacts
  <2> QED BY <2>1, <2>2 DEF HasRows, TaskStack, ClusterOps
<1> QED BY <1>1, ControlInvariant, PTL

(***************************************************************************)
(* No accepted request is forgotten: while its job polls as unsettled its  *)
(* own task is in Redis, unless a call of the store or of Redis failed,    *)
(* and it is archived only if a run was lost.                              *)
(***************************************************************************)
THEOREM AcceptedJobsTracked == Spec => []AcceptedJobTracked
<1>1. ControlInv => AcceptedJobTracked
  BY DEF ControlInv
<1> QED BY <1>1, ControlInvariant, PTL
=============================================================================
