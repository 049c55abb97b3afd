---------------------------- MODULE SerialProofs ----------------------------
(***************************************************************************)
(* What holds of the control plane when clients wait for their requests to *)
(* settle and no call of the store fails (Patient), for every workload and *)
(* every number of stacks, addresses, retries, workers and other faults.   *)
(*                                                                         *)
(* The argument rests on OneAtATime: a request or a task that is under way *)
(* has its stack to itself, so what it found there still holds when it     *)
(* acts.  OneAtATime is an invariant because a waiting client checks that  *)
(* the stack is quiet and because a task stays the task of its request.    *)
(***************************************************************************)
EXTENDS ControlPlaneProofs

-----------------------------------------------------------------------------
(* Who is under way, and where                                             *)

\* The store does not fail.
LEMMA NoStoreFault ==
    ASSUME Patient, TypeOK
    PROVE  ~Fault("io")
<1>1. faults["io"] \in Nat
  BY DEF TypeOK, FaultKinds
<1> QED BY <1>1 DEF Fault, Patient

\* The request that a live task was enqueued by.
LEMMA OwnerFacts ==
    ASSUME ControlInv, NEW t \in TaskIds, Live(t)
    PROVE  /\ tasks[t].job \in Requests
           /\ Busy(tasks[t].job)
           /\ TaskOf(tasks[t].job) = t
           /\ Op[tasks[t].job] = t.kind
           /\ HasRows(tasks[t].job)
           /\ TaskStack(t) = reqs[tasks[t].job].cluster
           /\ t.kind \in ClusterOps =>
                 /\ t.id \in Stacks /\ t.id # NoStack
                 /\ StackOf[tasks[t].job] = t.id
                 /\ Touches(tasks[t].job) = {t.id}
                 /\ TaskStack(t) \in {t.id, NoStack}
           /\ t.kind = "provision" => TaskStack(t) = t.id
<1>1. /\ tasks[t].job \in Requests /\ TaskOf(tasks[t].job) = t
      /\ Op[tasks[t].job] = t.kind /\ HasRows(tasks[t].job)
  BY JobOfTask DEF ControlInv, Live
<1>2. Busy(tasks[t].job)
  BY <1>1 DEF Busy
<1>3. t.kind \in ClusterOps => /\ t.id \in Stacks /\ t.id # NoStack
                               /\ StackOf[tasks[t].job] = t.id
  BY <1>1, TaskFacts, ConstantsAssumption
<1>4. t.kind \in ClusterOps => Touches(tasks[t].job) = {t.id}
  BY <1>3 DEF Touches
<1>5. /\ t.kind \in ClusterOps => TaskStack(t) \in {t.id, NoStack}
      /\ t.kind = "provision" => TaskStack(t) = t.id
  BY <1>1, <1>3 DEF HasRows, TaskStack, ClusterOps
<1> QED BY <1>1, <1>2, <1>3, <1>4, <1>5 DEF TaskStack

\* What a cluster request touches.
LEMMA TouchFacts ==
    ASSUME NEW r \in Requests
    PROVE  /\ Touches(r) \subseteq Stacks
           /\ Op[r] \in ClusterOps => /\ StackOf[r] \in Stacks
                                      /\ Touches(r) = {StackOf[r]}
BY ConstantsAssumption, WorkloadAssumption DEF Touches

\* Requests with the same task touch the same stacks.
LEMMA SameTask ==
    ASSUME NEW q \in Requests, NEW r \in Requests, TaskOf(q) = TaskOf(r)
    PROVE  Touches(q) = Touches(r)
<1>1. Op[q] = Op[r] /\ Op[q] \in ClusterOps \cup ModelOps
  BY TaskFacts, ConstantsAssumption
<1>2. CASE Op[q] \in ClusterOps
  BY <1>1, <1>2, TaskFacts DEF Touches
<1>3. CASE Op[q] \in ModelOps
  <2>1. DepOf[q] = DepOf[r] /\ DepOf[q] \in Requests
    BY <1>1, <1>3, TaskFacts, ConstantsAssumption
  <2>2. CASE Op[q] = "deploy"
    BY <1>1, <2>1, <2>2, WorkloadAssumption
  <2>3. CASE Op[q] = "delete"
    <3>1. StackOf[q] = StackOf[DepOf[q]]
      BY <2>3, WorkloadAssumption
    <3>2. StackOf[r] = StackOf[DepOf[r]]
      BY <1>1, <2>3, WorkloadAssumption
    <3> QED BY <2>1, <3>1, <3>2 DEF Touches
  <2> QED BY <1>3, <2>2, <2>3 DEF ModelOps
<1> QED BY <1>1, <1>2, <1>3

(***************************************************************************)
(* OneAtATime is kept by a step after which nobody is busy that was not    *)
(* before, except for a request that was sent while its stacks were quiet. *)
(***************************************************************************)
LEMMA OneAtATimeKept ==
    ASSUME ControlInv, OneAtATime, NEW r \in Requests,
           \A q \in Requests \ {r} : Busy(q)' => Busy(q),
           Busy(r)' => Busy(r) \/ Quiet(r)
    PROVE  OneAtATime'
<1> SUFFICES ASSUME NEW p \in Requests, NEW q \in Requests,
                    Busy(p)', Busy(q)', p # q
             PROVE  Touches(p) \cap Touches(q) = {}
  BY DEF OneAtATime, Touches
<1>1. ASSUME NEW x \in Requests, Quiet(r), Busy(x)
      PROVE  Touches(x) \cap Touches(r) = {}
  BY <1>1 DEF Quiet, Busy
<1>2. CASE Busy(p) /\ Busy(q)
  BY <1>2 DEF OneAtATime
<1>3. CASE ~Busy(p)
  BY <1>1, <1>3
<1>4. CASE ~Busy(q)
  BY <1>1, <1>4
<1> QED BY <1>2, <1>3, <1>4

-----------------------------------------------------------------------------
(* A step of somebody who is alone on his stacks                           *)

\* Nobody else is busy where a is.
Alone(a) == \A q \in Requests \ {a} : Busy(q) => Touches(q) \cap Touches(a) = {}

\* The step does nothing to the stack s and to what runs on its VM.
StackSame(s) == /\ clusters'[s] = clusters[s]
                /\ infra'[s] = infra[s]
                /\ \A m \in Models : <<infra[s], m>> \in kube => <<infra[s], m>> \in kube'

(***************************************************************************)
(* The step does nothing to the requests, the tasks, the stacks and the    *)
(* deployments that the request a has nothing to do with.                  *)
(***************************************************************************)
Elsewhere(a) ==
    /\ \A q \in Requests \ {a} : reqs'[q] = reqs[q]
    /\ \A u \in TaskIds : \/ tasks'[u] = tasks[u] /\ runs'[u] = runs[u]
                          \/ /\ u = TaskOf(a) /\ tasks[u].state # "archived"
                             /\ {tasks[u].job, tasks'[u].job} \subseteq {a, NoReq}
    /\ \A s \in Stacks \ Touches(a) : StackSame(s)
    /\ \A d \in Requests :
          /\ DeploymentExists(d) => /\ deployments'[d].status # Absent
                                    /\ deployments'[d].cluster = deployments[d].cluster
          /\ deployments'[d] # deployments[d] =>
                /\ deployments'[d].cluster \in Touches(a)
                /\ DeploymentExists(d) \/ d = a
    /\ faults'["ext"] = 0 => faults["ext"] = 0

\* A busy request is alone, and so is one that a waiting client sends.
LEMMA BusyIsAlone ==
    ASSUME OneAtATime, NEW a \in Requests, Busy(a) \/ Quiet(a)
    PROVE  Alone(a)
<1>1. CASE Busy(a)
  BY <1>1 DEF OneAtATime, Alone
<1>2. CASE Quiet(a)
  BY <1>2 DEF Quiet, Busy, Alone
<1> QED BY <1>1, <1>2

\* The stack of a live task is one that its request touches.
LEMMA OwnStack ==
    ASSUME ControlInv, StackInv, NEW t \in TaskIds, Live(t)
    PROVE  /\ t.kind \in ClusterOps => t.id \in Touches(tasks[t].job)
           /\ t.kind \in ModelOps =>
                 /\ t.id \in Requests
                 /\ t.id = DepOf[tasks[t].job]
                 /\ TaskStack(t) \in Touches(tasks[t].job)
                 /\ TaskStack(t) \in Stacks
                 /\ DeploymentExists(t.id)
                 /\ deployments[t.id].cluster = TaskStack(t)
           /\ t.kind = "deploy" => /\ t.id = tasks[t].job
                                   /\ clusters[TaskStack(t)].status = "active"
<1> DEFINE r == tasks[t].job
<1>1. /\ r \in Requests /\ TaskOf(r) = t /\ Op[r] = t.kind /\ HasRows(r) /\ Busy(r)
      /\ TaskStack(t) = reqs[r].cluster
      /\ t.kind \in ClusterOps => Touches(r) = {t.id}
  BY OwnerFacts
<1>2. t.kind \in ModelOps => t.id = DepOf[r] /\ t.id \in Requests
  BY <1>1, TaskFacts
<1>3. t.kind \in ModelOps => Touches(DepOf[r]) = Touches(r)
  BY <1>1, WorkloadAssumption DEF Touches, ModelOps
<1>4. t.kind \in ModelOps => /\ DeploymentExists(t.id)
                             /\ deployments[t.id].cluster = TaskStack(t)
                             /\ TaskStack(t) \in Touches(r)
  BY <1>1, <1>2, <1>3 DEF HasRows, StackInv, Placed
<1>5. t.kind = "deploy" => /\ t.id = r
                           /\ clusters[TaskStack(t)].status = "active"
  BY <1>1, <1>2, WorkloadAssumption DEF StackInv, RequestFits, ModelOps
<1> QED BY <1>1, <1>2, <1>4, <1>5, TouchFacts

\* Giving up is for good, and a shared name stays shared.
LEMMA ForGood ==
    ASSUME NEW a \in Requests, Elsewhere(a)
    PROVE  /\ \A s \in Stacks : GivenUp(s) => GivenUp(s)'
           /\ \A d \in Requests : DeploymentExists(d) /\ SharesName(d) => SharesName(d)'
BY DEF Elsewhere, GivenUp, SharesName, DeploymentExists

\* What is right for another request stays right.
LEMMA OthersFit ==
    ASSUME ControlInv, SerialInv, NEW a \in Requests, Alone(a), Elsewhere(a),
           NEW r \in Requests, r # a, Busy(r)' => Busy(r)
    PROVE  RequestFits(r)'
<1>1. RequestFits(r) /\ reqs'[r] = reqs[r]
  BY DEF SerialInv, StackInv, Elsewhere
<1>2. \A s \in Touches(r) : Busy(r) => clusters'[s] = clusters[s]
  BY TouchFacts DEF Alone, Elsewhere, StackSame
<1>3. Op[r] \in ClusterOps => StackOf[r] \in Touches(r)
  BY TouchFacts
<1>4. reqs[r].pc \in InFlight => Busy(r)
  BY DEF Busy
<1> QED BY <1>1, <1>2, <1>3, <1>4 DEF RequestFits, InFlight, ClusterOps

\* What is right for the task of another request stays right.
LEMMA OtherRunsFit ==
    ASSUME ControlInv, SerialInv, NEW a \in Requests, Alone(a), Elsewhere(a),
           NEW u \in TaskIds, tasks'[u] = tasks[u], runs'[u] = runs[u],
           tasks[u].job # a
    PROVE  RunFits(u)' /\ ModelRunFits(u)'
<1>1. CASE ~Live(u)
  <2>1. ~Live(u)' /\ runs'[u].pc = "idle"
    BY <1>1 DEF Live, ControlInv, QueueInv
  <2> QED BY <2>1 DEF RunFits, ModelRunFits
<1>2. CASE Live(u)
  <2> DEFINE b == tasks[u].job
  <2>1. /\ b \in Requests /\ Busy(b) /\ b # a /\ reqs'[b] = reqs[b]
        /\ TaskStack(u)' = TaskStack(u)
    BY <1>2, OwnerFacts DEF Elsewhere, TaskStack
  <2>2. \A s \in Touches(b) : StackSame(s) /\ s \notin Touches(a)
    BY <2>1, TouchFacts DEF Alone, Elsewhere
  <2>3. RunFits(u)'
    <3>1. u.kind \in ClusterOps => StackSame(u.id)
      BY <1>2, <2>2, OwnStack DEF SerialInv
    <3> QED BY <1>2, <2>1, <3>1 DEF SerialInv, StackInv, RunFits, ProvisionFits,
               DestroyFits, StackSame, ClusterOps
  <2>4. u.kind \in ModelOps => /\ StackSame(TaskStack(u))
                               /\ deployments'[u.id] = deployments[u.id]
    <3> HAVE u.kind \in ModelOps
    <3>1. /\ TaskStack(u) \in Touches(b) /\ DeploymentExists(u.id)
          /\ deployments[u.id].cluster = TaskStack(u) /\ u.id \in Requests
      BY <1>2, OwnStack DEF SerialInv
    <3> QED BY <3>1, <2>2 DEF Elsewhere
  <2>5. u.kind = "deploy" /\ runs[u].pc = "save" => (Objects(u) \subseteq kube)'
    <3> HAVE u.kind = "deploy" /\ runs[u].pc = "save"
    <3>1. /\ clusters[TaskStack(u)].status = "active" /\ TaskStack(u) \in Stacks
          /\ u.id \in Requests
      BY <1>2, OwnStack DEF SerialInv, ModelOps
    <3>2. /\ runs[u].ip = clusters[TaskStack(u)].addr
          /\ <<runs[u].ip, ModelOf[u.id]>> \in kube
      BY DEF SerialInv, ServedInv, ModelRunFits, Objects
    <3>3. infra[TaskStack(u)] = runs[u].ip
      BY <3>1, <3>2 DEF SerialInv, StackInv, VMFits
    <3>4. <<runs[u].ip, ModelOf[u.id]>> \in kube'
      BY <3>1, <3>2, <3>3, <2>4, ConstantsAssumption DEF StackSame, ModelOps
    <3> QED BY <3>4 DEF Objects
  <2>6. ModelRunFits(u)
    BY DEF SerialInv, ServedInv
  <2>7. ModelRunFits(u)'
    BY <2>1, <2>4, <2>5, <2>6 DEF ModelRunFits, StackSame, ModelOps
  <2> QED BY <2>3, <2>7
<1> QED BY <1>1, <1>2

\* What is right for another stack stays right.
LEMMA OtherStacksFit ==
    ASSUME ControlInv, SerialInv, NEW a \in Requests, Alone(a), Elsewhere(a),
           NEW s \in Stacks \ Touches(a)
    PROVE  VMFits(s)' /\ Cascaded(s)'
<1>1. StackSame(s) /\ VMFits(s) /\ Cascaded(s)
  BY DEF Elsewhere, SerialInv, StackInv, CascadeInv
<1>2. VMFits(s)'
  BY <1>1 DEF StackSame, VMFits
<1>3. ASSUME NEW d \in Requests, deployments'[d].cluster = s
      PROVE  deployments'[d] = deployments[d]
  BY <1>3 DEF Elsewhere
<1>4. ASSUME NEW t \in TaskIds, t.kind = "destroy", t.id = s
      PROVE  tasks'[t] = tasks[t] /\ runs'[t] = runs[t]
  <2>1. t # TaskOf(a)
    BY <1>4, TaskFacts, TouchFacts DEF ClusterOps
  <2> QED BY <2>1 DEF Elsewhere
<1> QED BY <1>1, <1>2, <1>3, <1>4 DEF StackSame, Cascaded

\* A deployment on another stack is served as before.
LEMMA OthersServed ==
    ASSUME ControlInv, SerialInv, NEW a \in Requests, Elsewhere(a), RoutedIsServed,
           faults["ext"] = 0, NEW d \in Requests,
           deployments'[d].cluster \notin Touches(a),
           deployments'[d].status = "active",
           (clusters[deployments[d].cluster].status = "active")',
           ~GivenUp(deployments[d].cluster)', ~SharesName(d)'
    PROVE  Served(d)'
<1>1. deployments'[d] = deployments[d]
  BY DEF Elsewhere
<1>2. DeploymentExists(d) /\ deployments[d].cluster \in Stacks
  BY <1>1, ConstantsAssumption
     DEF DeploymentExists, Absent, ControlInv, RowInv, HasCluster, TypeOK, DeploymentRow
<1>3. StackSame(deployments[d].cluster)
  BY <1>1, <1>2 DEF Elsewhere
<1>4. ~GivenUp(deployments[d].cluster) /\ ~SharesName(d)
  BY <1>1, <1>2, ForGood
<1>5. Served(d)
  BY <1>1, <1>3, <1>4 DEF RoutedIsServed, StackSame
<1> QED BY <1>1, <1>3, <1>5, ConstantsAssumption DEF Served, StackSame

(***************************************************************************)
(* The step of a request, or of its task, keeps the invariant if it leaves *)
(* everything right on the stacks of that request.                         *)
(***************************************************************************)
LEMMA StepKeeps ==
    ASSUME ControlInv, SerialInv, NEW a \in Requests, Busy(a) \/ Quiet(a), Elsewhere(a),
           RequestFits(a)', RunFits(TaskOf(a))', ModelRunFits(TaskOf(a))',
           \A s \in Touches(a) : VMFits(s)' /\ Cascaded(s)',
           DistinctVMs',
           faults'["ext"] = 0 =>
               /\ NothingFailed' /\ NoneLeftBehind(a)'
               /\ \A d \in Requests :
                     /\ deployments'[d].cluster \in Touches(a)
                     /\ deployments'[d].status = "active"
                     /\ (clusters[deployments[d].cluster].status = "active")'
                     /\ ~GivenUp(deployments[d].cluster)'
                     /\ ~SharesName(d)'
                     => Served(d)'
    PROVE  SerialInv'
<1>1. Alone(a)
  BY BusyIsAlone DEF SerialInv, StackInv
<1>2. \A r \in Requests \ {a} : Busy(r)' => Busy(r)
  BY TaskFacts, ConstantsAssumption DEF Busy, Elsewhere, Live
<1>3. OneAtATime'
  BY <1>2, OneAtATimeKept DEF SerialInv, StackInv
<1>4. \A r \in Requests : RequestFits(r)'
  BY <1>1, <1>2, OthersFit
<1>5. \A u \in TaskIds : RunFits(u)' /\ ModelRunFits(u)'
  <2> TAKE u \in TaskIds
  <2>1. CASE u = TaskOf(a)
    BY <2>1
  <2>2. CASE u # TaskOf(a)
    <3>1. tasks[u].job # a
      BY <2>2, ConstantsAssumption DEF ControlInv, QueueInv
    <3>2. tasks'[u] = tasks[u] /\ runs'[u] = runs[u]
      BY <2>2 DEF Elsewhere
    <3> QED BY <1>1, <3>1, <3>2, OtherRunsFit
  <2> QED BY <2>1, <2>2
<1>6. \A s \in Stacks : VMFits(s)' /\ Cascaded(s)'
  BY <1>1, OtherStacksFit
<1>7. \A d \in Requests : Placed(d)'
  BY DEF SerialInv, StackInv, Placed, Elsewhere, DeploymentExists
<1>8. faults'["ext"] = 0 => \A r \in Requests : NoneLeftBehind(r)'
  <2> SUFFICES ASSUME faults'["ext"] = 0, NEW r \in Requests, r # a
               PROVE  NoneLeftBehind(r)'
    OBVIOUS
  <2>1. NoneLeftBehind(r)
    BY DEF SerialInv, ServedInv, Elsewhere
  <2> SUFFICES ASSUME Op[r] = "provision", Busy(r)', NEW d \in Requests,
                      deployments'[d].status = "active",
                      deployments'[d].cluster = StackOf[r]
               PROVE  GivenUp(StackOf[r])'
    BY DEF NoneLeftBehind
  <2>2. Busy(r) /\ StackOf[r] \in Stacks /\ StackOf[r] \notin Touches(a)
    BY <1>1, <1>2, TouchFacts DEF Alone, ClusterOps
  <2>3. deployments'[d] = deployments[d]
    BY <2>2 DEF Elsewhere
  <2> QED BY <2>1, <2>2, <2>3, ForGood DEF NoneLeftBehind
<1>9. RoutedIsServed'
  <2> SUFFICES ASSUME faults'["ext"] = 0, NEW d \in Requests,
                      deployments'[d].status = "active",
                      (clusters[deployments[d].cluster].status = "active")',
                      ~GivenUp(deployments[d].cluster)', ~SharesName(d)'
               PROVE  Served(d)'
    BY DEF RoutedIsServed
  <2>1. RoutedIsServed /\ faults["ext"] = 0
    BY DEF SerialInv, ServedInv, Elsewhere
  <2> QED BY <2>1, OthersServed
<1> QED BY <1>3, <1>4, <1>5, <1>6, <1>7, <1>8, <1>9
        DEF SerialInv, StackInv, CascadeInv, ServedInv

-----------------------------------------------------------------------------
(* The steps of the API server                                             *)

\* A request that is not over has no task, and no other one has its task.
LEMMA NoTaskYet ==
    ASSUME ControlInv, NEW a \in Requests, Alone(a),
           reqs[a].pc \in {"unsent"} \cup InFlight
    PROVE  ~Live(TaskOf(a)) /\ runs[TaskOf(a)].pc = "idle"
<1> DEFINE t == TaskOf(a)
           b == tasks[t].job
<1>1. t \in TaskIds /\ b # a
  BY TaskFacts, NotEnqueued DEF ControlInv
<1>2. ASSUME Live(t) PROVE FALSE
  <2>1. b \in Requests /\ Busy(b) /\ TaskOf(b) = t /\ HasRows(b) /\ Op[b] = t.kind
    BY <1>1, <1>2, OwnerFacts
  <2>2. Touches(b) = Touches(a)
    BY <2>1, SameTask
  <2>3. Touches(b) # {}
    <3>1. CASE Op[b] \in ClusterOps
      BY <2>1, <3>1, TouchFacts
    <3>2. CASE Op[b] \in ModelOps
      BY <2>1, <3>2 DEF HasRows, ControlInv, TypeOK, Request, Touches
    <3> QED BY <3>1, <3>2, <2>1, ConstantsAssumption
  <2> QED BY <1>1, <2>1, <2>2, <2>3 DEF Alone
<1>3. runs[t].pc = "idle"
  BY <1>1, <1>2 DEF Live, ControlInv, QueueInv
<1> QED BY <1>2, <1>3

(***************************************************************************)
(* A handler of the API server keeps the invariant if it finds what it     *)
(* should, resets only rows of its own stack, and creates a deployment     *)
(* only on an active cluster.                                              *)
(***************************************************************************)
LEMMA RequestStepKeeps ==
    ASSUME ControlInv, SerialInv, NEW a \in Requests,
           reqs[a].pc \in {"unsent"} \cup InFlight,
           reqs[a].pc = "unsent" => Quiet(a),
           \A q \in Requests \ {a} : reqs'[q] = reqs[q],
           UNCHANGED <<tasks, runs, infra, kube>>,
           faults'["ext"] = faults["ext"],
           \A s \in Stacks : \/ clusters'[s] = clusters[s]
                             \/ s \in Touches(a) /\ clusters'[s].status = "provisioning",
           \A d \in Requests :
               \/ deployments'[d] = deployments[d]
               \/ /\ d = a /\ ~DeploymentExists(d)
                  /\ deployments'[d].status = "pending"
                  /\ deployments'[d].cluster \in Touches(a)
                  /\ clusters'[deployments'[d].cluster].status = "active",
           /\ reqs[a].pc = "unsent" /\ Op[a] = "provision"
           /\ reqs'[a].pc \in InFlight
           => clusters[StackOf[a]].status \in {"destroyed", "failed", Absent},
           RequestFits(a)'
    PROVE  SerialInv'
<1>1. Busy(a) \/ Quiet(a)
  BY DEF Busy
<1>2. Alone(a)
  BY <1>1, BusyIsAlone DEF SerialInv, StackInv
<1>3. Elsewhere(a)
  BY DEF Elsewhere, StackSame, DeploymentExists
<1>4. RunFits(TaskOf(a))' /\ ModelRunFits(TaskOf(a))'
  <2>1. ~Live(TaskOf(a))' /\ runs'[TaskOf(a)].pc = "idle"
    BY <1>2, NoTaskYet DEF Live
  <2> QED BY <2>1 DEF RunFits, ModelRunFits
<1>5. \A s \in Touches(a) : VMFits(s)' /\ Cascaded(s)'
  <2> TAKE s \in Touches(a)
  <2>1. s \in Stacks /\ VMFits(s) /\ Cascaded(s)
    BY TouchFacts DEF SerialInv, StackInv, CascadeInv
  <2>2. CASE clusters'[s].status = "provisioning"
    BY <2>2 DEF VMFits, Cascaded, Absent
  <2>3. CASE clusters'[s] = clusters[s]
    <3>1. VMFits(s)'
      BY <2>1, <2>3 DEF VMFits
    <3>2. Cascaded(s)'
      BY <2>1, <2>3 DEF Cascaded
    <3> QED BY <3>1, <3>2
  <2> QED BY <2>1, <2>2, <2>3
<1>6. DistinctVMs'
  BY DEF DistinctVMs, SerialInv, ServedInv
<1>7. ASSUME faults'["ext"] = 0
      PROVE  NothingFailed'
  BY <1>7 DEF NothingFailed, SerialInv, ServedInv
<1>8. ASSUME faults'["ext"] = 0
      PROVE  NoneLeftBehind(a)'
  <2> SUFFICES ASSUME Op[a] = "provision", Busy(a)', NEW d \in Requests,
                      deployments'[d].status = "active",
                      deployments'[d].cluster = StackOf[a]
               PROVE  GivenUp(StackOf[a])
    BY DEF NoneLeftBehind, GivenUp
  <2> DEFINE s == StackOf[a]
  <2>1. deployments[d].status = "active" /\ deployments[d].cluster = s
    OBVIOUS
  <2>2. s \in Stacks /\ Touches(a) = {s}
    BY TouchFacts DEF ClusterOps
  <2>3. CASE reqs[a].pc \in InFlight
    BY <2>1, <2>3, <1>8 DEF Busy, NoneLeftBehind, SerialInv, ServedInv
  <2>4. CASE reqs[a].pc = "unsent"
    <3>1. reqs'[a].pc \in InFlight
      <4>1. tasks[TaskOf(a)].job # a
        BY <2>4, NotEnqueued, TaskFacts DEF ControlInv
      <4> QED BY <4>1 DEF Busy
    <3>2. clusters[s].status # Absent
      BY <2>1 DEF ControlInv, RowInv, HasCluster, DeploymentExists, ClusterExists, Absent
    <3>3. clusters[s].status # "failed"
      BY <1>8, <2>2 DEF SerialInv, ServedInv, NothingFailed
    <3>4. clusters[s].status = "destroyed" /\ Cascaded(s)
      BY <2>2, <2>4, <3>1, <3>2, <3>3 DEF SerialInv, CascadeInv
    <3>5. PICK t \in TaskIds : t.kind = "destroy" /\ t.id = s /\ tasks[t].state # "none"
      BY <2>1, <3>4 DEF Cascaded, Running
    <3>6. PICK q \in Requests : t = TaskOf(q)
      BY DEF TaskIds
    <3>7. Touches(q) = {s}
      BY <3>5, <3>6, TaskFacts, TouchFacts DEF ClusterOps
    <3>8. ~Live(t)
      BY <2>2, <2>4, <3>6, <3>7 DEF Quiet
    <3>9. tasks[t].state = "archived"
      BY <3>5, <3>8 DEF Live, ControlInv, TypeOK, TaskRow
    <3> QED BY <3>5, <3>9 DEF GivenUp
  <2> QED BY <2>3, <2>4
<1>9. ASSUME faults'["ext"] = 0, NEW d \in Requests,
             deployments'[d].status = "active",
             (clusters[deployments[d].cluster].status = "active")',
             ~GivenUp(deployments[d].cluster)', ~SharesName(d)'
      PROVE  Served(d)'
  <2>1. deployments'[d] = deployments[d]
    BY <1>9
  <2>2. DeploymentExists(d) /\ deployments[d].cluster \in Stacks
    BY <1>9, <2>1, ConstantsAssumption
       DEF DeploymentExists, Absent, ControlInv, RowInv, HasCluster, TypeOK, DeploymentRow
  <2>3. clusters'[deployments[d].cluster] = clusters[deployments[d].cluster]
    BY <1>9, <2>1, <2>2
  <2>4. ~GivenUp(deployments[d].cluster) /\ ~SharesName(d)
    BY <1>3, <1>9, <2>1, <2>2, ForGood
  <2>5. Served(d)
    BY <1>9, <2>1, <2>3, <2>4 DEF SerialInv, ServedInv, RoutedIsServed
  <2> QED BY <2>1, <2>5 DEF Served
<1> QED BY <1>1, <1>3, <1>4, <1>5, <1>6, <1>7, <1>8, <1>9, StepKeeps

\* The handlers of the API server, up to the queue, keep the invariant.
LEMMA RequestWorkFits ==
    ASSUME Patient, ControlInv, SerialInv, NEW r \in Requests, RequestWork(r)
    PROVE  SerialInv'
<1> DEFINE s == StackOf[r]
           R == /\ \A q \in Requests \ {r} : reqs'[q] = reqs[q]
                /\ UNCHANGED <<tasks, runs, infra, kube>>
                /\ faults'["ext"] = faults["ext"]
           C == UNCHANGED clusters
           D == UNCHANGED deployments
<1>f. /\ faults \in [FaultKinds -> Nat] /\ ~Fault("io")
      /\ NoFault \/ Fault("abort") => faults'["ext"] = faults["ext"]
  BY NoStoreFault DEF ControlInv, TypeOK, NoFault, Fault, FaultKinds
<1>t. /\ reqs \in [Requests -> Request] /\ clusters \in [Stacks -> ClusterRow]
      /\ RowInvOf(r) /\ RequestFits(r)
      /\ Op[r] \in ClusterOps => s \in Stacks /\ Touches(r) = {s}
  BY TouchFacts DEF ControlInv, TypeOK, RowInv, SerialInv, StackInv
<1>q. MaySend(r, Op[r]) => reqs[r].pc = "unsent" /\ Quiet(r)
  BY DEF MaySend, Patient
<1>b. reqs[r].pc \in InFlight => Busy(r)
  BY DEF Busy
<1>n. /\ "unsent" \notin InFlight
      /\ reqs[r].pc \in {"unsent"} \cup InFlight => tasks[TaskOf(r)].job # r
  BY NotEnqueued, TaskFacts DEF InFlight, ControlInv
<1>1. CASE LookupForProvision(r)
  <2>1. PICK pc \in {"reset", "create", "conflict"} :
           /\ reqs' = [reqs EXCEPT ![r] = [pc |-> pc, cluster |-> s]]
           /\ pc = "reset" => clusters[s].status \in {"destroyed", "failed"}
           /\ pc = "create" => clusters[s].status = Absent
    BY <1>1, <1>f DEF LookupForProvision, AnswerFor
  <2>2. reqs[r].pc = "unsent" /\ Quiet(r) /\ Op[r] = "provision"
    BY <1>1, <1>q DEF LookupForProvision, MaySend
  <2>3. R /\ C /\ D
    BY <1>1, <1>f, <1>t, <2>1 DEF LookupForProvision
  <2>4. reqs'[r].pc = pc
    BY <2>1, <1>t
  <2>5. RequestFits(r)'
    BY <2>1, <2>2, <2>3, <2>4 DEF RequestFits
  <2>6. reqs'[r].pc \in InFlight => clusters[s].status \in {"destroyed", "failed", Absent}
    BY <2>1, <2>4 DEF InFlight
  <2> QED BY <2>2, <2>3, <2>5, <2>6, RequestStepKeeps
<1>2. CASE CreateClusterRow(r)
  <2>1. Op[r] = "provision" /\ reqs[r].pc = "create" /\ reqs[r].cluster = s
    BY <1>2, <1>t DEF CreateClusterRow, RowInvOf
  <2>2. PICK pc \in {"record", "error"} :
           /\ Answer(r, pc)
           /\ pc = "record" => CreateCluster(s)
           /\ pc = "error" => C
    BY <1>2, <1>f, <2>1 DEF CreateClusterRow
  <2>3. R /\ D
    BY <1>2, <1>f, <1>t, <2>2 DEF CreateClusterRow, Answer
  <2>4. reqs'[r].pc = pc
    BY <2>2, <1>t DEF Answer, Request
  <2>5. /\ pc = "record" => clusters'[s].status = "provisioning"
        /\ \A x \in Stacks : clusters'[x] = clusters[x] \/ (x = s /\ pc = "record")
    BY <2>1, <2>2, <1>t DEF CreateCluster, ClusterOps
  <2>6. RequestFits(r)'
    BY <2>1, <2>4, <2>5 DEF RequestFits
  <2> QED BY <2>1, <2>3, <2>5, <2>6, <1>n, <1>t, RequestStepKeeps DEF InFlight, ClusterOps
<1>3. CASE ResetClusterRow(r)
  <2>1. /\ Op[r] = "provision" /\ reqs[r].pc = "reset" /\ reqs[r].cluster = s
        /\ clusters[s].status # Absent
    BY <1>3, <1>t DEF ResetClusterRow, RowInvOf, ClusterExists
  <2>2. Answer(r, "record") /\ ResetCluster(s)
    BY <1>3, <1>f, <2>1 DEF ResetClusterRow
  <2>3. R /\ D
    BY <1>3, <1>f, <1>t, <2>2 DEF ResetClusterRow, Answer
  <2>4. reqs'[r].pc = "record"
    BY <2>2, <1>t DEF Answer, Request
  <2>5. /\ clusters'[s].status = "provisioning"
        /\ \A x \in Stacks : clusters'[x] = clusters[x] \/ x = s
    BY <2>1, <2>2, <1>t DEF ResetCluster, UpdateClusterDetails, ClusterOps
  <2>6. RequestFits(r)'
    BY <2>1, <2>4, <2>5 DEF RequestFits
  <2> QED BY <2>1, <2>3, <2>5, <2>6, <1>n, <1>t, RequestStepKeeps DEF InFlight, ClusterOps
<1>4. CASE LookupForDestroy(r)
  <2>1. PICK pc \in {"record", "conflict"}, x \in {s, NoStack} :
           /\ reqs' = [reqs EXCEPT ![r] = [pc |-> pc, cluster |-> x]]
           /\ pc = "record" => IF x = NoStack THEN clusters[s].status = Absent
                               ELSE clusters[s].status \in {"active", "failed", "destroying"}
    BY <1>4, <1>f, <1>t, ConstantsAssumption DEF LookupForDestroy, AnswerFor, MaySend, ClusterOps
  <2>2. reqs[r].pc = "unsent" /\ Quiet(r) /\ Op[r] = "destroy"
    BY <1>4, <1>q DEF LookupForDestroy, MaySend
  <2>3. R /\ C /\ D
    BY <1>4, <1>f, <1>t, <2>1 DEF LookupForDestroy
  <2>4. reqs'[r].pc = pc /\ reqs'[r].cluster = x
    BY <2>1, <1>t
  <2>5. RequestFits(r)'
    BY <2>1, <2>2, <2>3, <2>4 DEF RequestFits
  <2> QED BY <2>2, <2>3, <2>5, RequestStepKeeps
<1>5. CASE LookupForDeploy(r)
  <2>1. PICK pc \in {"create", "error"}, x \in Touches(r) \cup {NoStack} :
           /\ reqs' = [reqs EXCEPT ![r] = [pc |-> pc, cluster |-> x]]
           /\ pc = "create" => x \in Touches(r) /\ clusters[x].status = "active"
    BY <1>5, <1>f DEF LookupForDeploy, AnswerFor
  <2>2. reqs[r].pc = "unsent" /\ Quiet(r) /\ Op[r] = "deploy"
    BY <1>5, <1>q DEF LookupForDeploy, MaySend
  <2>3. R /\ C /\ D
    BY <1>5, <1>f, <1>t, <2>1 DEF LookupForDeploy
  <2>4. reqs'[r].pc = pc /\ reqs'[r].cluster = x
    BY <2>1, <1>t
  <2>5. Busy(r)' => pc = "create"
    BY <2>2, <2>3, <2>4, <1>n DEF Busy, InFlight
  <2>6. RequestFits(r)'
    BY <2>1, <2>2, <2>3, <2>4, <2>5 DEF RequestFits
  <2> QED BY <2>2, <2>3, <2>6, RequestStepKeeps
<1>6. CASE CreateDeploymentRow(r)
  <2>1. /\ Op[r] = "deploy" /\ reqs[r].pc = "create" /\ DepOf[r] = r
        /\ ~DeploymentExists(r) /\ Busy(r)
    BY <1>6, <1>t, <1>b, WorkloadAssumption DEF CreateDeploymentRow, RowInvOf, InFlight
  <2>2. reqs[r].cluster \in Touches(r) /\ clusters[reqs[r].cluster].status = "active"
    BY <2>1, <1>t DEF RequestFits
  <2>3. Answer(r, "record") /\ CreateDeployment(r, reqs[r].cluster)
    BY <1>6, <1>f, <2>1 DEF CreateDeploymentRow
  <2>4. R /\ C
    BY <1>6, <1>f, <1>t, <2>3 DEF CreateDeploymentRow, Answer
  <2>5. reqs'[r].pc = "record" /\ reqs'[r].cluster = reqs[r].cluster
    BY <2>3, <1>t DEF Answer, Request
  <2>6. /\ deployments'[r].status = "pending" /\ deployments'[r].cluster = reqs[r].cluster
        /\ \A d \in Requests : deployments'[d] = deployments[d] \/ d = r
    BY <2>3 DEF CreateDeployment, ControlInv, TypeOK
  <2>7. RequestFits(r)'
    BY <2>1, <2>2, <2>4, <2>5 DEF RequestFits
  <2> QED BY <2>1, <2>2, <2>4, <2>6, <2>7, <1>n, RequestStepKeeps DEF InFlight
<1>7. CASE LookupForDelete(r)
  <2>1. PICK pc, x : reqs' = [reqs EXCEPT ![r] = [pc |-> pc, cluster |-> x]]
    BY <1>7, <1>f DEF LookupForDelete, AnswerFor
  <2>2. reqs[r].pc = "unsent" /\ Quiet(r) /\ Op[r] = "delete"
    BY <1>7, <1>q DEF LookupForDelete, MaySend
  <2>3. R /\ C /\ D
    BY <1>7, <1>f, <1>t, <2>1 DEF LookupForDelete
  <2>4. RequestFits(r)'
    BY <2>2 DEF RequestFits
  <2> QED BY <2>2, <2>3, <2>4, RequestStepKeeps
<1>8. CASE CreateJobRecord(r)
  <2>1. reqs[r].pc = "record" /\ Answer(r, "enqueue") /\ Busy(r)
    BY <1>8, <1>b DEF CreateJobRecord, InFlight
  <2>2. R /\ C /\ D
    BY <1>8, <1>f, <1>t, <2>1 DEF CreateJobRecord, Answer
  <2>3. reqs'[r].pc = "enqueue" /\ reqs'[r].cluster = reqs[r].cluster
    BY <2>1, <1>t DEF Answer, Request
  <2>4. RequestFits(r)'
    BY <2>1, <2>2, <2>3, <1>t DEF RequestFits
  <2> QED BY <2>1, <2>2, <2>4, <1>n, RequestStepKeeps DEF InFlight
<1>9. CASE ServerDies(r)
  <2>1. reqs[r].pc \in InFlight /\ Answer(r, "aborted")
    BY <1>9 DEF ServerDies
  <2>2. R /\ C /\ D
    BY <1>9, <1>f, <1>t, <2>1 DEF ServerDies, Answer
  <2>3. reqs'[r].pc = "aborted"
    BY <2>1, <1>t DEF Answer, Request
  <2>4. ~Busy(r)'
    BY <2>1, <2>2, <2>3, <1>n DEF Busy, InFlight
  <2>5. RequestFits(r)'
    BY <2>3, <2>4 DEF RequestFits
  <2> QED BY <2>1, <2>2, <2>5, <1>n, RequestStepKeeps
<1> QED BY <1>1, <1>2, <1>3, <1>4, <1>5, <1>6, <1>7, <1>8, <1>9 DEF RequestWork

\* So does the enqueueing: the task finds what the request left for it.
LEMMA EnqueueFits ==
    ASSUME Patient, ControlInv, SerialInv, NEW r \in Requests, Enqueue(r)
    PROVE  SerialInv'
<1> DEFINE t == TaskOf(r)
           task == [state |-> "waiting", job |-> r, retried |-> 0]
<1>1. /\ reqs[r].pc = "enqueue" /\ Busy(r)
      /\ UNCHANGED <<clusters, deployments, jobs, runs, infra, kube, faults>>
  BY NoStoreFault DEF Enqueue, Busy, InFlight, ControlInv, NoFault
<1>2. PICK pc \in {"accepted", "error"} :
        /\ Answer(r, pc)
        /\ \/ UNCHANGED tasks /\ pc = "error"
           \/ /\ tasks[t].state = "none"
              /\ tasks' = [tasks EXCEPT ![t] = task]
  BY NoStoreFault DEF Enqueue, ControlInv
<1>3. /\ reqs'[r].pc = pc /\ reqs'[r].cluster = reqs[r].cluster
      /\ \A q \in Requests \ {r} : reqs'[q] = reqs[q]
  BY <1>2 DEF Answer, ControlInv, TypeOK, Request
<1>4. RequestFits(r)'
  <2>1. RequestFits(r)
    BY DEF SerialInv, StackInv
  <2> QED BY <2>1, <1>1, <1>3 DEF RequestFits
<1>5. CASE UNCHANGED tasks
  BY <1>1, <1>3, <1>4, <1>5, RequestStepKeeps DEF InFlight
<1>6. CASE tasks[t].state = "none" /\ tasks' = [tasks EXCEPT ![t] = task]
  <2>1. /\ t \in TaskIds /\ tasks \in [TaskIds -> TaskRow] /\ t.kind = Op[r]
        /\ t.kind \in ClusterOps => t.id = StackOf[r]
    BY TaskFacts DEF ControlInv, TypeOK
  <2>2. tasks[t].job = NoReq /\ runs[t].pc = "idle"
    BY <1>6, <2>1 DEF ControlInv, QueueInv
  <2>3. tasks'[t] = task /\ \A u \in TaskIds \ {t} : tasks'[u] = tasks[u]
    BY <1>6, <2>1
  <2>4. Elsewhere(r)
    BY <1>1, <1>3, <1>6, <2>2, <2>3 DEF Elsewhere, StackSame, DeploymentExists
  <2>5. TaskStack(t)' = reqs[r].cluster
    BY <1>3, <2>3 DEF TaskStack
  <2>6. RunFits(t)' /\ ModelRunFits(t)'
    <3>1. RequestFits(r)
      BY DEF SerialInv, StackInv
    <3>2. t.kind = "provision" => ProvisionFits(t)'
      BY <1>1, <2>1, <2>2, <3>1 DEF ProvisionFits, RequestFits, ClusterOps
    <3>3. t.kind = "destroy" => DestroyFits(t)'
      BY <1>1, <2>1, <2>2, <2>5, <3>1 DEF DestroyFits, RequestFits, ClusterOps
    <3> QED BY <1>1, <2>2, <3>2, <3>3 DEF RunFits, ModelRunFits
  <2>7. \A s \in Touches(r) : VMFits(s)' /\ Cascaded(s)'
    <3> TAKE s \in Touches(r)
    <3>1. VMFits(s) /\ Cascaded(s)
      BY TouchFacts DEF SerialInv, StackInv, CascadeInv
    <3>2. VMFits(s)'
      BY <1>1, <3>1 DEF VMFits
    <3>3. \A u \in TaskIds : tasks[u].state # "none" => tasks'[u] = tasks[u]
      BY <1>6, <2>3
    <3>4. Cascaded(s)'
      BY <1>1, <3>1, <3>3 DEF Cascaded
    <3> QED BY <3>2, <3>4
  <2>8. DistinctVMs' /\ (faults'["ext"] = 0 => NothingFailed')
    BY <1>1 DEF SerialInv, ServedInv, DistinctVMs, NothingFailed
  <2>9. faults'["ext"] = 0 => NoneLeftBehind(r)'
    <3>1. faults'["ext"] = 0 => NoneLeftBehind(r)
      BY <1>1 DEF SerialInv, ServedInv
    <3>2. Op[r] = "provision" => StackOf[r] \in Stacks
      BY TouchFacts DEF ClusterOps
    <3> QED BY <1>1, <2>4, <3>1, <3>2, ForGood DEF NoneLeftBehind
  <2>10. ASSUME faults'["ext"] = 0, NEW d \in Requests,
                deployments'[d].status = "active",
                (clusters[deployments[d].cluster].status = "active")',
                ~GivenUp(deployments[d].cluster)', ~SharesName(d)'
         PROVE  Served(d)'
    <3>1. DeploymentExists(d) /\ deployments[d].cluster \in Stacks
      BY <1>1, <2>10, ConstantsAssumption
         DEF DeploymentExists, Absent, ControlInv, RowInv, HasCluster, TypeOK, DeploymentRow
    <3>2. ~GivenUp(deployments[d].cluster) /\ ~SharesName(d)
      BY <1>1, <2>4, <2>10, <3>1, ForGood
    <3> QED BY <1>1, <2>10, <3>2 DEF SerialInv, ServedInv, RoutedIsServed, Served
  <2> QED BY <1>1, <1>4, <2>4, <2>6, <2>7, <2>8, <2>9, <2>10, StepKeeps
<1> QED BY <1>2, <1>5, <1>6

-----------------------------------------------------------------------------
(* The steps of the worker                                                 *)

(***************************************************************************)
(* What the step of a run on its own stacks must keep: the run is where it *)
(* should be, and the stacks, the tasks and the deployments still agree.   *)
(***************************************************************************)
LEMMA TaskStepKeeps ==
    ASSUME ControlInv, SerialInv, NEW t \in TaskIds, Live(t),
           NEW a \in Requests, a = tasks[t].job, Elsewhere(a), UNCHANGED reqs,
           t.kind = "deploy" => UNCHANGED clusters,
           RunFits(t)', ModelRunFits(t)',
           \A s \in Touches(a) : VMFits(s)' /\ Cascaded(s)',
           DistinctVMs',
           faults'["ext"] = 0 => NothingFailed',
           \A d \in Requests : deployments'[d].status = "active" =>
               \/ t.kind = "deploy"
               \/ /\ deployments[d].status = "active"
                  /\ deployments'[d].cluster = deployments[d].cluster,
           faults'["ext"] = 0 =>
               \A d \in Requests :
                   /\ deployments'[d].cluster \in Touches(a)
                   /\ deployments'[d].status = "active"
                   /\ (clusters[deployments[d].cluster].status = "active")'
                   /\ ~GivenUp(deployments[d].cluster)'
                   /\ ~SharesName(d)'
                   => Served(d)'
    PROVE  SerialInv'
<1>1. /\ Busy(a) /\ TaskOf(a) = t /\ Op[a] = t.kind
      /\ reqs[a].pc \in {"accepted", "error"}
  BY OwnerFacts, ConstantsAssumption DEF ControlInv, QueueInv
<1>2. RequestFits(a)'
  <2>1. RequestFits(a)
    BY <1>1 DEF SerialInv, StackInv
  <2> QED BY <1>1, <2>1 DEF RequestFits
<1>3. faults'["ext"] = 0 => NoneLeftBehind(a)'
  <2> SUFFICES ASSUME faults'["ext"] = 0, Op[a] = "provision", NEW d \in Requests,
                      deployments'[d].status = "active",
                      deployments'[d].cluster = StackOf[a]
               PROVE  GivenUp(StackOf[a])'
    BY DEF NoneLeftBehind
  <2>1. NoneLeftBehind(a) /\ StackOf[a] \in Stacks
    BY <1>1, TouchFacts DEF SerialInv, ServedInv, Elsewhere, ClusterOps
  <2> QED BY <1>1, <2>1, ForGood DEF NoneLeftBehind
<1> QED BY <1>1, <1>2, <1>3, StepKeeps

(***************************************************************************)
(* A step that moves a run on, or ends it, and writes no row that the      *)
(* invariant is about.                                                     *)
(***************************************************************************)
LEMMA CalmRunKeeps ==
    ASSUME ControlInv, SerialInv, NEW t \in TaskIds, Live(t),
           UNCHANGED <<clusters, deployments, reqs, infra, kube>>,
           \A u \in TaskIds \ {t} : tasks'[u] = tasks[u] /\ runs'[u] = runs[u],
           tasks'[t].job \in {tasks[t].job, NoReq},
           faults'["ext"] = 0 => faults["ext"] = 0,
           RunFits(t)', ModelRunFits(t)',
           faults'["ext"] = 0 /\ t.kind \in ClusterOps => runs'[t].pc # "markFailed",
           t.kind = "destroy" =>
               \/ tasks'[t].state # "none" /\ runs'[t].pc \notin {"complete", "ok"}
               \/ runs[t].pc \in {"complete", "ok"}
    PROVE  SerialInv'
<1>1. PICK a \in Requests : a = tasks[t].job /\ Busy(a) /\ TaskOf(a) = t
  BY OwnerFacts
<1>2. Elsewhere(a)
  BY <1>1 DEF Elsewhere, StackSame, DeploymentExists, Live
<1>3. \A s \in Touches(a) : VMFits(s)' /\ Cascaded(s)'
  <2> TAKE s \in Touches(a)
  <2>1. VMFits(s) /\ Cascaded(s)
    BY TouchFacts DEF SerialInv, StackInv, CascadeInv
  <2>2. VMFits(s)'
    BY <2>1 DEF VMFits
  <2>3. Cascaded(s)'
    BY <2>1 DEF Cascaded
  <2> QED BY <2>2, <2>3
<1>4. DistinctVMs' /\ (faults'["ext"] = 0 => NothingFailed')
  BY DEF SerialInv, ServedInv, DistinctVMs, NothingFailed
<1>5. ASSUME faults'["ext"] = 0, NEW d \in Requests,
             deployments'[d].status = "active",
             (clusters[deployments[d].cluster].status = "active")',
             ~GivenUp(deployments[d].cluster)', ~SharesName(d)'
      PROVE  Served(d)'
  <2>1. DeploymentExists(d) /\ deployments[d].cluster \in Stacks
    BY <1>5, ConstantsAssumption
       DEF DeploymentExists, Absent, ControlInv, RowInv, HasCluster, TypeOK, DeploymentRow
  <2>2. ~GivenUp(deployments[d].cluster) /\ ~SharesName(d)
    BY <1>2, <1>5, <2>1, ForGood
  <2> QED BY <1>5, <2>2 DEF SerialInv, ServedInv, RoutedIsServed, Served
<1> QED BY <1>1, <1>2, <1>3, <1>4, <1>5, TaskStepKeeps

\* What is right for a run, spelled out.
LEMMA RunFacts ==
    ASSUME ControlInv, SerialInv, NEW t \in TaskIds
    PROVE  /\ runs \in [TaskIds -> Run] /\ tasks \in [TaskIds -> TaskRow]
           /\ runs[t] \in Run /\ tasks[t] \in TaskRow
           /\ runs[t].pc # "idle" => Live(t) /\ tasks[t].state = "active"
           /\ Live(t) => RunFits(t) /\ tasks[t].job \in Requests
           /\ ModelRunFits(t)
BY OwnerFacts DEF ControlInv, TypeOK, QueueInv, Live, SerialInv, StackInv, ServedInv

\* Asynq hands a task to its handler.
LEMMA StartFits ==
    ASSUME ControlInv, SerialInv, NEW t \in TaskIds, StartTask(t)
    PROVE  SerialInv'
<1>1. /\ runs \in [TaskIds -> Run] /\ tasks \in [TaskIds -> TaskRow]
      /\ RunFits(t) /\ Live(t)
  BY RunFacts DEF StartTask, Live
<1>2. /\ UNCHANGED <<clusters, deployments, reqs, infra, kube, faults>>
      /\ \A u \in TaskIds \ {t} : tasks'[u] = tasks[u] /\ runs'[u] = runs[u]
      /\ tasks'[t].state = "active" /\ tasks'[t].job = tasks[t].job
      /\ runs'[t].pc = FirstStep(t.kind)
  BY <1>1 DEF StartTask, NoFault, TaskRow
<1>3. TaskStack(t)' = TaskStack(t)
  BY <1>2 DEF TaskStack
<1>4. FirstStep(t.kind) \in {"installing", "running", "building", "deleting"}
  BY TaskFacts DEF FirstStep, ClusterOps, ModelOps
<1>5. t.kind = "provision" => FirstStep(t.kind) = "installing"
  BY DEF FirstStep
<1>6. t.kind = "delete" => FirstStep(t.kind) = "deleting"
  BY DEF FirstStep
<1>7. RunFits(t)'
  BY <1>1, <1>2, <1>3, <1>4, <1>5 DEF RunFits, ProvisionFits, DestroyFits
<1>8. ModelRunFits(t)'
  BY <1>2, <1>4, <1>6 DEF ModelRunFits
<1> QED BY <1>1, <1>2, <1>4, <1>7, <1>8, CalmRunKeeps

\* The handler writes the status of its job.
LEMMA JobStepFits ==
    ASSUME Patient, ControlInv, SerialInv, NEW t \in TaskIds,
           JobRunning(t) \/ CompleteJob(t) \/ FailJob(t)
    PROVE  SerialInv'
<1>1. /\ runs \in [TaskIds -> Run] /\ tasks \in [TaskIds -> TaskRow]
      /\ RunFits(t) /\ ModelRunFits(t) /\ Live(t)
  BY RunFacts DEF JobRunning, CompleteJob, FailJob
<1>2. /\ UNCHANGED <<clusters, deployments, tasks, reqs, infra, kube, faults>>
      /\ \E pc : /\ Goto(t, pc)
                 /\ \/ runs[t].pc = "running" /\ pc = AfterRunning(t.kind)
                    \/ runs[t].pc = "complete" /\ pc = "ok"
                    \/ runs[t].pc = "failJob" /\ pc = "err"
  BY NoStoreFault DEF JobRunning, CompleteJob, FailJob, TryUpdateJobStatus, ControlInv, NoFault
<1>3. PICK pc : /\ runs'[t].pc = pc
                /\ \/ runs[t].pc = "running" /\ pc = AfterRunning(t.kind)
                   \/ runs[t].pc = "complete" /\ pc = "ok"
                   \/ runs[t].pc = "failJob" /\ pc = "err"
  BY <1>1, <1>2 DEF Goto, Run
<1>4. \A u \in TaskIds \ {t} : runs'[u] = runs[u]
  BY <1>1, <1>2 DEF Goto
<1>5. TaskStack(t)' = TaskStack(t)
  BY <1>2 DEF TaskStack
<1>6. /\ t.kind = "provision" => AfterRunning(t.kind) = "up"
      /\ t.kind = "destroy" => AfterRunning(t.kind) = "destroying"
      /\ t.kind \in ModelOps => AfterRunning(t.kind) = "connect"
  BY DEF AfterRunning, ModelOps
<1>7. RunFits(t)'
  BY <1>1, <1>2, <1>3, <1>5, <1>6 DEF RunFits, ProvisionFits, DestroyFits, Live
<1>8. ModelRunFits(t)'
  BY <1>1, <1>2, <1>3, <1>6 DEF ModelRunFits, ModelOps
<1>9. t.kind \in ClusterOps => pc # "markFailed"
  BY <1>3, <1>6 DEF ClusterOps
<1>10. t.kind = "destroy" => pc \notin {"complete", "ok"} \/ runs[t].pc \in {"complete", "ok"}
  BY <1>3, <1>6
<1>11. t.kind = "destroy" => tasks'[t].state # "none"
  BY <1>1, <1>2 DEF Live
<1> QED BY <1>1, <1>2, <1>3, <1>4, <1>7, <1>8, <1>9, <1>10, <1>11, CalmRunKeeps

\* Asynq ends a run.
LEMMA EndRunFits ==
    ASSUME ControlInv, SerialInv, NEW t \in TaskIds,
           ReturnNil(t) \/ ReturnErr(t) \/ RunLost(t) \/ RunRequeued(t)
    PROVE  SerialInv'
<1>1. /\ runs \in [TaskIds -> Run] /\ tasks \in [TaskIds -> TaskRow]
      /\ tasks[t] \in TaskRow /\ RunFits(t) /\ Live(t) /\ runs[t].pc # "idle"
  BY RunFacts DEF ReturnNil, ReturnErr, RunLost, RunRequeued
<1>2. /\ RetryOrArchive(t).state # "none" /\ RetryOrArchive(t).job = tasks[t].job
      /\ [tasks[t] EXCEPT !.state = "waiting"].state = "waiting"
      /\ [tasks[t] EXCEPT !.state = "waiting"].job = tasks[t].job
      /\ NoTask.state = "none" /\ NoTask.job = NoReq
  BY <1>1 DEF RetryOrArchive, NoTask, TaskRow
<1>3. PICK task : /\ EndRun(t, task)
                  /\ \/ task.state # "none" /\ task.job = tasks[t].job
                     \/ task.state = "none" /\ task.job = NoReq /\ runs[t].pc = "ok"
  BY <1>2 DEF ReturnNil, ReturnErr, RunLost, RunRequeued
<1>4. /\ UNCHANGED <<clusters, deployments, reqs, infra, kube>>
      /\ tasks'[t] = task /\ runs'[t].pc = "idle"
      /\ \A u \in TaskIds \ {t} : tasks'[u] = tasks[u] /\ runs'[u] = runs[u]
  BY <1>1, <1>3 DEF EndRun, NoRun
<1>5. faults'["ext"] = 0 => faults["ext"] = 0
  BY DEF ReturnNil, ReturnErr, RunLost, RunRequeued, NoFault, Fault,
     ControlInv, TypeOK, FaultKinds
<1>6. RunFits(t)'
  <2> SUFFICES ASSUME Live(t)' PROVE RunFits(t)'
    BY DEF RunFits
  <2>1. task.job = tasks[t].job
    BY <1>3, <1>4 DEF Live
  <2>2. TaskStack(t)' = TaskStack(t)
    BY <1>4, <2>1 DEF TaskStack
  <2> QED BY <1>1, <1>4, <2>2 DEF RunFits, ProvisionFits, DestroyFits
<1>7. ModelRunFits(t)'
  BY <1>4 DEF ModelRunFits
<1> QED BY <1>1, <1>3, <1>4, <1>5, <1>6, <1>7, CalmRunKeeps

(***************************************************************************)
(* A step of a provision or destroy run: it changes the row and the VM of  *)
(* its own stack, and orphans the deployments that are on it.              *)
(***************************************************************************)
LEMMA ClusterRunKeeps ==
    ASSUME ControlInv, SerialInv, NEW t \in TaskIds, Live(t), t.kind \in ClusterOps,
           UNCHANGED <<tasks, reqs>>,
           \A u \in TaskIds \ {t} : runs'[u] = runs[u],
           \A s \in Stacks \ {t.id} : clusters'[s] = clusters[s] /\ infra'[s] = infra[s],
           \A obj \in kube : obj \in kube' \/ obj[1] = infra[t.id],
           \A d \in Requests :
               \/ deployments'[d] = deployments[d]
               \/ /\ DeploymentExists(d) /\ deployments[d].cluster = t.id
                  /\ deployments'[d].cluster = t.id
                  /\ deployments'[d].status = "orphaned",
           faults'["ext"] = 0 => faults["ext"] = 0,
           infra'[t.id] \in FreshIPs \cup {infra[t.id], NoIP},
           RunFits(t)', VMFits(t.id)', Cascaded(t.id)',
           faults'["ext"] = 0 => /\ runs'[t].pc # "markFailed"
                                 /\ clusters'[t.id].status # "failed",
           clusters'[t.id].status = "active" => t.kind = "provision"
    PROVE  SerialInv'
<1>1. PICK a \in Requests : /\ a = tasks[t].job /\ Busy(a) /\ TaskOf(a) = t
                            /\ Op[a] = t.kind /\ StackOf[a] = t.id
                            /\ Touches(a) = {t.id} /\ t.id \in Stacks
  BY OwnerFacts
<1>2. kube \subseteq IPs \X Models /\ infra \in [Stacks -> IPs \cup {NoIP}]
  BY DEF ControlInv, TypeOK
<1>3. \A s \in Stacks \ Touches(a) : StackSame(s)
  <2> SUFFICES ASSUME NEW s \in Stacks, s # t.id, NEW m \in Models, <<infra[s], m>> \in kube
               PROVE  <<infra[s], m>> \in kube'
    BY <1>1 DEF StackSame
  <2>1. infra[s] # NoIP
    BY <1>2, ConstantsAssumption
  <2>2. infra[s] # infra[t.id]
    BY <1>1, <2>1 DEF SerialInv, ServedInv, DistinctVMs
  <2>3. <<infra[s], m>>[1] = infra[s]
    OBVIOUS
  <2> QED BY <2>2, <2>3
<1>4. Elsewhere(a)
  BY <1>1, <1>3 DEF Elsewhere, DeploymentExists, Absent, Live
<1>5. DistinctVMs'
  <2>1. DistinctVMs
    BY DEF SerialInv, ServedInv
  <2> QED BY <1>1, <2>1 DEF DistinctVMs, FreshIPs
<1>6. faults'["ext"] = 0 => NothingFailed'
  BY <1>1 DEF SerialInv, ServedInv, NothingFailed
<1>7. ModelRunFits(t)'
  BY DEF ModelRunFits, ClusterOps
<1>8. ASSUME faults'["ext"] = 0, NEW d \in Requests,
             deployments'[d].cluster = t.id,
             deployments'[d].status = "active",
             (clusters[deployments[d].cluster].status = "active")',
             ~GivenUp(deployments[d].cluster)'
      PROVE  FALSE
  <2>1. t.kind = "provision" /\ deployments'[d] = deployments[d]
    BY <1>8
  <2>2. NoneLeftBehind(a)
    BY <1>8 DEF SerialInv, ServedInv
  <2>3. GivenUp(t.id)
    BY <1>1, <1>8, <2>1, <2>2 DEF NoneLeftBehind
  <2> QED BY <1>1, <1>4, <1>8, <2>3, ForGood
<1> QED BY <1>1, <1>4, <1>5, <1>6, <1>7, <1>8, TaskStepKeeps DEF ClusterOps

\* An UPDATE of the row of an existing cluster.
LEMMA RowWritten ==
    ASSUME TypeOK, NEW s \in Stacks, NEW st, NEW ip,
           clusters[s].status # Absent, UpdateClusterDetails(s, st, ip)
    PROVE  /\ clusters'[s] = [status |-> st, addr |-> ip]
           /\ clusters'[s].status = st /\ clusters'[s].addr = ip
           /\ \A x \in Stacks \ {s} : clusters'[x] = clusters[x]
BY DEF TypeOK, UpdateClusterDetails

\* What a cluster handler finds when it is at work.
LEMMA ClusterRunFacts ==
    ASSUME Patient, ControlInv, SerialInv, NEW t \in TaskIds, ClusterWork(t)
    PROVE  /\ Live(t) /\ t.kind \in ClusterOps /\ t.id \in Stacks
           /\ runs \in [TaskIds -> Run] /\ tasks[t].state = "active"
           /\ VMFits(t.id) /\ Cascaded(t.id)
           /\ UNCHANGED <<tasks, reqs, jobs>> /\ TaskStack(t)' = TaskStack(t)
           /\ t.kind = "provision" => /\ ProvisionFits(t) /\ TaskStack(t) = t.id
                                      /\ clusters[t.id].status # Absent
           /\ t.kind = "destroy" => /\ DestroyFits(t) /\ TaskStack(t) \in {t.id, NoStack}
                                    /\ Tracked(t) => clusters[t.id].status # Absent
           /\ Live(t)' /\ ~Fault("io")
<1>1. t.kind \in ClusterOps /\ runs[t].pc # "idle" /\ UNCHANGED <<tasks, reqs, jobs>>
  BY DEF ClusterWork, At, ClusterOps, SetInstalling, ProvisionCluster, FetchKubeconfig,
     SaveActive, SetDestroying, DestroyCluster, SaveDestroyed, OrphanDeployments,
     MarkClusterFailed
<1>2. /\ Live(t) /\ tasks[t].state = "active" /\ RunFits(t)
      /\ runs \in [TaskIds -> Run]
  BY <1>1, RunFacts
<1>3. /\ t.id \in Stacks /\ t.id # NoStack /\ TaskStack(t) \in {t.id, NoStack}
      /\ t.kind = "provision" => TaskStack(t) = t.id
  BY <1>1, <1>2, OwnerFacts
<1>4. VMFits(t.id) /\ Cascaded(t.id)
  BY <1>3 DEF SerialInv, StackInv, CascadeInv
<1>5. /\ t.kind = "provision" => ProvisionFits(t) /\ clusters[t.id].status # Absent
      /\ t.kind = "destroy" => /\ DestroyFits(t)
                               /\ Tracked(t) => clusters[t.id].status # Absent
  BY <1>2 DEF RunFits, ProvisionFits, DestroyFits, Tracked, Absent
<1>6. TaskStack(t)' = TaskStack(t) /\ Live(t)'
  BY <1>1, <1>2 DEF TaskStack, Live
<1>7. ~Fault("io")
  BY NoStoreFault DEF ControlInv
<1> QED BY <1>1, <1>2, <1>3, <1>4, <1>5, <1>6, <1>7

\* The handlers of provision and destroy tasks keep the invariant.
LEMMA ClusterWorkFits ==
    ASSUME Patient, ControlInv, SerialInv, NEW t \in TaskIds, ClusterWork(t)
    PROVE  SerialInv'
<1> DEFINE s == t.id
           Others == \A u \in TaskIds \ {t} : runs'[u] = runs[u]
           Calm == UNCHANGED <<deployments, infra, kube>> /\ NoFault
           Elsewhat == \A x \in Stacks \ {s} : clusters'[x] = clusters[x]
<1>1. /\ Live(t) /\ t.kind \in ClusterOps /\ s \in Stacks
      /\ runs \in [TaskIds -> Run] /\ tasks[t].state = "active"
      /\ VMFits(s) /\ Cascaded(s)
      /\ UNCHANGED <<tasks, reqs>> /\ TaskStack(t)' = TaskStack(t)
      /\ t.kind = "provision" => /\ ProvisionFits(t) /\ TaskStack(t) = s
                                 /\ clusters[s].status # Absent
      /\ t.kind = "destroy" => /\ DestroyFits(t) /\ TaskStack(t) \in {s, NoStack}
                               /\ Tracked(t) => clusters[s].status # Absent
      /\ Live(t)' /\ ~Fault("io")
  BY ClusterRunFacts
<1>2. /\ TypeOK /\ clusters \in [Stacks -> ClusterRow]
      /\ infra \in [Stacks -> IPs \cup {NoIP}]
      /\ faults \in [FaultKinds -> Nat] /\ "ext" \in FaultKinds
  BY DEF ControlInv, TypeOK, FaultKinds
<1>3. ASSUME NEW pc, Goto(t, pc)
      PROVE  Others /\ runs'[t].pc = pc /\ runs'[t].ip = runs[t].ip
  BY <1>1, <1>3 DEF Goto, Run
<1>4. /\ Fault("ext") => faults'["ext"] # 0
      /\ NoFault => faults'["ext"] = faults["ext"]
  BY <1>2 DEF Fault, NoFault
<1>5. infra[s] \in FreshIPs \cup {infra[s], NoIP}
  OBVIOUS
<1>6. faults["ext"] = 0 => /\ clusters[s].status # "failed"
                           /\ runs[t].pc # "markFailed"
  BY <1>1 DEF SerialInv, ServedInv, NothingFailed
<1>7. ASSUME NEW ip, SetVM(s, ip)
      PROVE  /\ infra'[s] = ip
             /\ \A x \in Stacks \ {s} : infra'[x] = infra[x]
             /\ \A obj \in kube : obj \in kube' \/ obj[1] = infra[s]
  BY <1>1, <1>2, <1>7 DEF SetVM
<1>s. CASE SetInstalling(t)
  <2>1. UpdateClusterDetails(s, "installing", clusters[s].addr) /\ Calm
    BY <1>s, <1>1 DEF SetInstalling, At, UpdateClusterStatus
  <2>2. t.kind = "provision" /\ Others /\ runs'[t].pc = "running"
    BY <1>s, <1>3 DEF SetInstalling, At
  <2>3. clusters'[s].status = "installing" /\ Elsewhat
    BY <1>1, <1>2, <2>1, <2>2, RowWritten
  <2>4. RunFits(t)'
    BY <2>2, <2>3 DEF RunFits, ProvisionFits
  <2>5. VMFits(s)' /\ Cascaded(s)'
    BY <2>3 DEF VMFits, Cascaded, Absent
  <2> QED BY <1>1, <1>4, <1>5, <2>1, <2>2, <2>3, <2>4, <2>5, ClusterRunKeeps
<1>p. CASE ProvisionCluster(t)
  <2>1. /\ t.kind = "provision" /\ runs[t].pc = "up"
        /\ UNCHANGED <<clusters, deployments>>
        /\ clusters[s].status = "installing"
    BY <1>p, <1>1 DEF ProvisionCluster, At, ProvisionFits
  <2>2. PICK ip \in FreshIPs \cup {infra[s], NoIP} :
          /\ SetVM(s, ip)
          /\ \/ /\ ip \in IPs /\ NoFault
                /\ runs' = [runs EXCEPT ![t] = [pc |-> "fetch", ip |-> ip]]
             \/ Fault("ext") /\ Goto(t, "markFailed")
    BY <1>p DEF ProvisionCluster, PulumiUp, PulumiUpFails
  <2>3. /\ Others
        /\ \/ runs'[t] = [pc |-> "fetch", ip |-> ip] /\ ip \in IPs /\ NoFault
           \/ runs'[t].pc = "markFailed" /\ Fault("ext")
    BY <1>1, <1>3, <2>2
  <2>4. RunFits(t)'
    BY <1>7, <2>1, <2>2, <2>3, ConstantsAssumption DEF RunFits, ProvisionFits
  <2>5. VMFits(s)' /\ Cascaded(s)'
    BY <2>1 DEF VMFits, Cascaded, Absent
  <2>6. /\ faults'["ext"] = 0 => faults["ext"] = 0
        /\ faults'["ext"] = 0 => runs'[t].pc # "markFailed" /\ clusters'[s].status # "failed"
    BY <1>4, <2>1, <2>3
  <2> QED BY <1>1, <1>7, <2>1, <2>2, <2>3, <2>4, <2>5, <2>6, ClusterRunKeeps
<1>f. CASE FetchKubeconfig(t)
  <2>1. /\ t.kind = "provision" /\ runs[t].pc = "fetch"
        /\ UNCHANGED <<clusters, deployments, infra, kube>>
        /\ clusters[s].status = "installing" /\ runs[t].ip # NoIP /\ infra[s] = runs[t].ip
    BY <1>f, <1>1 DEF FetchKubeconfig, At, ProvisionFits
  <2>2. PICK pc \in {"save", "markFailed"} :
           Goto(t, pc) /\ (IF pc = "save" THEN NoFault ELSE Fault("ext"))
    BY <1>f, <2>1 DEF FetchKubeconfig
  <2>3. RunFits(t)'
    BY <1>3, <2>1, <2>2 DEF RunFits, ProvisionFits
  <2>4. /\ runs'[t].pc = pc /\ Others
        /\ faults'["ext"] = 0 => faults["ext"] = 0 /\ pc # "markFailed"
    BY <1>3, <1>4, <2>2
  <2>5. VMFits(s)' /\ Cascaded(s)'
    BY <2>1 DEF VMFits, Cascaded, Absent
  <2> QED BY <1>1, <1>5, <2>1, <2>3, <2>4, <2>5, ClusterRunKeeps
<1>a. CASE SaveActive(t)
  <2>1. /\ t.kind = "provision" /\ runs[t].pc = "save" /\ Calm
        /\ UpdateClusterDetails(s, "active", runs[t].ip)
        /\ runs[t].ip # NoIP /\ infra[s] = runs[t].ip
    BY <1>a, <1>1 DEF SaveActive, At, ProvisionFits
  <2>2. Others /\ runs'[t].pc = "complete"
    BY <1>a, <1>1, <1>3 DEF SaveActive
  <2>3. clusters'[s] = [status |-> "active", addr |-> runs[t].ip] /\ Elsewhat
    BY <1>1, <1>2, <2>1, RowWritten
  <2>4. RunFits(t)'
    BY <2>1, <2>2, <2>3 DEF RunFits, ProvisionFits
  <2>5. VMFits(s)' /\ Cascaded(s)'
    BY <2>1, <2>3 DEF VMFits, Cascaded, Absent
  <2> QED BY <1>1, <1>4, <1>5, <2>1, <2>2, <2>3, <2>4, <2>5, ClusterRunKeeps
<1>d. CASE SetDestroying(t)
  <2>1. t.kind = "destroy" /\ runs[t].pc = "destroying" /\ Calm
    BY <1>d, <1>1 DEF SetDestroying, At
  <2>2. Others /\ runs'[t].pc = "destroy"
    BY <1>d, <1>3 DEF SetDestroying
  <2>3. CASE Tracked(t)
    <3>1. UpdateClusterDetails(s, "destroying", clusters[s].addr)
      BY <1>d, <1>1, <2>1, <2>3 DEF SetDestroying, UpdateClusterStatus, Tracked
    <3>2. clusters'[s].status = "destroying" /\ Elsewhat
      BY <1>1, <1>2, <2>1, <2>3, <3>1, RowWritten
    <3>3. RunFits(t)'
      BY <1>1, <2>1, <2>2, <2>3, <3>2 DEF RunFits, DestroyFits, Tracked
    <3>4. VMFits(s)' /\ Cascaded(s)'
      BY <3>2 DEF VMFits, Cascaded, Absent
    <3> QED BY <1>1, <1>4, <1>5, <2>1, <2>2, <3>2, <3>3, <3>4, ClusterRunKeeps
  <2>4. CASE ~Tracked(t)
    <3>1. UNCHANGED clusters /\ clusters[s].status = Absent
      BY <1>d, <1>1, <2>1, <2>4 DEF SetDestroying, DestroyFits, Tracked
    <3>2. RunFits(t)'
      BY <1>1, <2>1, <2>4, <3>1 DEF RunFits, DestroyFits, Tracked
    <3>3. VMFits(s)' /\ Cascaded(s)'
      BY <1>1, <2>1, <3>1 DEF VMFits, Cascaded, Absent
    <3> QED BY <1>1, <1>4, <1>5, <2>1, <2>2, <3>1, <3>2, <3>3, ClusterRunKeeps DEF Absent
  <2> QED BY <2>3, <2>4
<1>v. CASE DestroyCluster(t)
  <2>1. /\ t.kind = "destroy" /\ runs[t].pc = "destroy"
        /\ UNCHANGED <<clusters, deployments>>
        /\ IF Tracked(t) THEN clusters[s].status = "destroying" ELSE clusters[s].status = Absent
    BY <1>v, <1>1 DEF DestroyCluster, At, DestroyFits, Tracked
  <2>2. PICK pc \in {"save", "markFailed"}, ip \in {infra[s], NoIP} :
          /\ SetVM(s, ip) /\ Goto(t, pc)
          /\ pc = "save" => ip = NoIP /\ NoFault
          /\ pc = "markFailed" => Fault("ext")
    BY <1>v DEF DestroyCluster, PulumiDestroy, PulumiDestroyFails
  <2>3. /\ Others /\ runs'[t].pc = pc /\ infra'[s] = ip
        /\ faults'["ext"] = 0 => faults["ext"] = 0 /\ pc # "markFailed"
    BY <1>3, <1>4, <1>7, <2>2
  <2>4. RunFits(t)'
    BY <1>1, <2>1, <2>2, <2>3 DEF RunFits, DestroyFits, Tracked
  <2>5. VMFits(s)' /\ Cascaded(s)'
    BY <1>1, <2>1, <2>3 DEF VMFits, Cascaded, Absent
  <2>6. clusters'[s].status \notin {"active", "failed"}
    BY <2>1 DEF Absent
  <2> QED BY <1>1, <1>7, <2>1, <2>2, <2>3, <2>4, <2>5, <2>6, ClusterRunKeeps
<1>w. CASE SaveDestroyed(t)
  <2>1. t.kind = "destroy" /\ runs[t].pc = "save" /\ Calm
    BY <1>w, <1>1 DEF SaveDestroyed, At
  <2>2. CASE Tracked(t)
    <3>1. UpdateClusterDetails(s, "destroyed", NoIP) /\ infra[s] = NoIP
      BY <1>w, <1>1, <2>1, <2>2 DEF SaveDestroyed, Tracked, DestroyFits
    <3>2. Others /\ runs'[t].pc = "cascade"
      BY <1>w, <1>1, <1>3, <2>1, <2>2 DEF SaveDestroyed
    <3>3. clusters'[s].status = "destroyed" /\ Elsewhat
      BY <1>1, <1>2, <2>1, <2>2, <3>1, RowWritten
    <3>4. RunFits(t)'
      BY <1>1, <2>1, <2>2, <3>2, <3>3 DEF RunFits, DestroyFits, Tracked
    <3>5. VMFits(s)' /\ Cascaded(s)'
      BY <1>1, <2>1, <3>1, <3>2, <3>3 DEF VMFits, Cascaded, Absent
    <3> QED BY <1>1, <1>4, <1>5, <2>1, <3>2, <3>3, <3>4, <3>5, ClusterRunKeeps
  <2>3. CASE ~Tracked(t)
    <3>1. UNCHANGED clusters /\ clusters[s].status = Absent
      BY <1>w, <1>1, <2>1, <2>3 DEF SaveDestroyed, DestroyFits, Tracked
    <3>2. Others /\ runs'[t].pc = "complete"
      BY <1>w, <1>1, <1>3, <2>1, <2>3 DEF SaveDestroyed
    <3>3. RunFits(t)'
      BY <1>1, <2>1, <2>3, <3>1 DEF RunFits, DestroyFits, Tracked
    <3>4. VMFits(s)' /\ Cascaded(s)'
      BY <1>1, <2>1, <3>1 DEF VMFits, Cascaded, Absent
    <3> QED BY <1>1, <1>4, <1>5, <2>1, <3>1, <3>2, <3>3, <3>4, ClusterRunKeeps DEF Absent
  <2> QED BY <2>2, <2>3
<1>o. CASE OrphanDeployments(t)
  <2>1. /\ t.kind = "destroy" /\ runs[t].pc = "cascade" /\ NoFault
        /\ UNCHANGED <<clusters, infra, kube>>
        /\ UpdateDeploymentsStatusByCluster(TaskStack(t), "orphaned")
    BY <1>o, <1>1 DEF OrphanDeployments, At
  <2>2. Others /\ runs'[t].pc = "complete"
    BY <1>o, <1>3 DEF OrphanDeployments
  <2>3. ASSUME NEW d \in Requests
        PROVE  \/ deployments'[d] = deployments[d]
               \/ /\ DeploymentExists(d) /\ deployments[d].cluster = s
                  /\ deployments'[d].cluster = s
                  /\ deployments'[d].status = "orphaned"
    <3>1. deployments[d] \in DeploymentRow /\ HasCluster(d)
      BY DEF ControlInv, TypeOK, RowInv
    <3>2. CASE /\ deployments[d].cluster = TaskStack(t)
               /\ deployments[d].status \notin {Absent, "deleted", "failed"}
      <4>1. /\ deployments'[d].status = "orphaned"
            /\ deployments'[d].cluster = deployments[d].cluster
        BY <2>1, <3>1, <3>2 DEF UpdateDeploymentsStatusByCluster, DeploymentRow
      <4>2. deployments[d].cluster = s
        BY <1>1, <2>1, <3>1, <3>2 DEF HasCluster, DeploymentExists
      <4> QED BY <3>2, <4>1, <4>2 DEF DeploymentExists
    <3>3. CASE ~(/\ deployments[d].cluster = TaskStack(t)
                 /\ deployments[d].status \notin {Absent, "deleted", "failed"})
      BY <2>1, <3>3 DEF UpdateDeploymentsStatusByCluster
    <3> QED BY <3>2, <3>3
  <2>4. RunFits(t)'
    BY <1>1, <2>1, <2>2 DEF RunFits, DestroyFits
  <2>5. VMFits(s)'
    BY <1>1, <2>1 DEF VMFits
  <2>6. Cascaded(s)'
    <3> SUFFICES ASSUME clusters[s].status = "destroyed", NEW d \in Requests,
                        deployments'[d].cluster = s
                 PROVE  deployments'[d].status \notin Running
      BY <2>1 DEF Cascaded
    <3>1. TaskStack(t) = s
      BY <1>1, <2>1 DEF DestroyFits, Absent
    <3>2. deployments[d].cluster = s
      BY <2>3
    <3>3. \/ deployments'[d].status = "orphaned"
          \/ /\ deployments'[d] = deployments[d]
             /\ deployments[d].status \in {Absent, "deleted", "failed"}
      BY <2>1, <3>1, <3>2 DEF UpdateDeploymentsStatusByCluster, ControlInv, TypeOK,
         DeploymentRow
    <3> QED BY <3>3 DEF Running, Absent
  <2>7. clusters'[s].status # "active" /\ (faults'["ext"] = 0 => clusters'[s].status # "failed")
    <3>1. clusters[s].status # "active"
      BY <1>1, <2>1 DEF DestroyFits, Absent
    <3> QED BY <2>1, <3>1, <1>4, <1>6
  <2> QED BY <1>1, <1>4, <1>5, <2>1, <2>2, <2>3, <2>4, <2>5, <2>6, <2>7, ClusterRunKeeps
<1>m. CASE MarkClusterFailed(t)
  <2>1. runs[t].pc = "markFailed" /\ Calm /\ faults["ext"] # 0 /\ faults'["ext"] # 0
    BY <1>m, <1>1, <1>4, <1>6 DEF MarkClusterFailed
  <2>2. Others /\ runs'[t].pc = "failJob"
    BY <1>m, <1>3 DEF MarkClusterFailed
  <2>3. CASE Tracked(t)
    <3>1. TaskStack(t) = s /\ clusters[s].status # Absent
      BY <1>1, <2>3, TaskFacts DEF Tracked, ClusterOps
    <3>2. UpdateClusterDetails(s, "failed", clusters[s].addr)
      BY <1>m, <1>1, <2>3, <3>1 DEF MarkClusterFailed, UpdateClusterStatus
    <3>3. clusters'[s].status = "failed" /\ Elsewhat
      BY <1>1, <1>2, <3>1, <3>2, RowWritten
    <3>4. RunFits(t)'
      BY <1>1, <2>2, <3>1, <3>3 DEF RunFits, DestroyFits, ProvisionFits, Tracked
    <3>5. VMFits(s)' /\ Cascaded(s)'
      BY <3>3 DEF VMFits, Cascaded, Absent
    <3> QED BY <1>1, <1>5, <2>1, <2>2, <3>3, <3>4, <3>5, ClusterRunKeeps
  <2>4. CASE ~Tracked(t)
    <3>1. t.kind = "destroy" /\ UNCHANGED clusters /\ clusters[s].status = Absent
      BY <1>m, <1>1, <2>4, ConstantsAssumption
         DEF MarkClusterFailed, DestroyFits, Tracked, ClusterOps
    <3>2. RunFits(t)'
      BY <1>1, <2>1, <2>4, <3>1 DEF RunFits, DestroyFits, Tracked
    <3>3. VMFits(s)' /\ Cascaded(s)'
      BY <1>1, <2>1, <3>1 DEF VMFits, Cascaded, Absent
    <3> QED BY <1>1, <1>5, <2>1, <2>2, <3>1, <3>2, <3>3, ClusterRunKeeps DEF Absent
  <2> QED BY <2>3, <2>4
<1> QED BY <1>s, <1>p, <1>f, <1>a, <1>d, <1>v, <1>w, <1>o, <1>m DEF ClusterWork

(***************************************************************************)
(* A step of a deploy or delete run: it changes its own deployment, adds   *)
(* objects, and removes only those of a deployment that is being deleted.  *)
(***************************************************************************)
LEMMA ModelRunKeeps ==
    ASSUME ControlInv, SerialInv, NEW t \in TaskIds, Live(t), t.kind \in ModelOps,
           UNCHANGED <<clusters, tasks, reqs, infra>>,
           \A u \in TaskIds \ {t} : runs'[u] = runs[u],
           faults'["ext"] = 0 => faults["ext"] = 0,
           \A d \in Requests \ {t.id} : deployments'[d] = deployments[d],
           deployments'[t.id].status # Absent,
           deployments'[t.id].cluster = deployments[t.id].cluster,
           \/ deployments'[t.id] = deployments[t.id]
           \/ deployments'[t.id].status \notin Running
           \/ t.kind = "deploy" /\ (deployments'[t.id].status = "active" => Served(t.id)'),
           \A obj \in kube :
               \/ obj \in kube'
               \/ /\ Reachable(t) /\ obj = <<runs[t].ip, ModelOf[t.id]>>
                  /\ deployments[t.id].status # "active" /\ UNCHANGED deployments,
           ModelRunFits(t)'
    PROVE  SerialInv'
<1>1. PICK a \in Requests : a = tasks[t].job /\ Busy(a) /\ TaskOf(a) = t
  BY OwnerFacts
<1>2. /\ t.id \in Requests /\ DeploymentExists(t.id)
      /\ deployments[t.id].cluster = TaskStack(t)
      /\ TaskStack(t) \in Stacks /\ TaskStack(t) \in Touches(a)
      /\ t.kind = "deploy" => clusters[TaskStack(t)].status = "active"
  BY <1>1, OwnStack DEF SerialInv
<1>3. ASSUME NEW s \in Stacks, s # TaskStack(t), NEW m \in Models, <<infra[s], m>> \in kube
      PROVE  <<infra[s], m>> \in kube'
  <2>1. <<infra[s], m>> # <<infra[TaskStack(t)], ModelOf[t.id]>>
        \/ infra[TaskStack(t)] = NoIP
    BY <1>2, <1>3 DEF SerialInv, ServedInv, DistinctVMs
  <2> QED BY <1>3, <2>1, ConstantsAssumption DEF Reachable
<1>4. Elsewhere(a)
  BY <1>1, <1>2, <1>3 DEF Elsewhere, StackSame, DeploymentExists, Live
<1>5. \A s \in Touches(a) : VMFits(s)' /\ Cascaded(s)'
  <2> TAKE s \in Touches(a)
  <2>1. VMFits(s) /\ Cascaded(s)
    BY TouchFacts DEF SerialInv, StackInv, CascadeInv
  <2>2. VMFits(s)'
    BY <2>1 DEF VMFits
  <2>3. Cascaded(s)'
    <3> SUFFICES ASSUME clusters[s].status = "destroyed" PROVE Cascaded(s)'
      BY DEF Cascaded
    <3>1. CASE \A d \in Requests :
                 deployments[d].cluster = s => deployments[d].status \notin Running
      <4>1. ASSUME NEW d \in Requests, deployments'[d].cluster = s
            PROVE  deployments'[d].status \notin Running
        BY <1>2, <3>1, <4>1
      <4> QED BY <4>1 DEF Cascaded
    <3>2. CASE \E u \in TaskIds : /\ u.kind = "destroy" /\ u.id = s
                                  /\ tasks[u].state # "none"
                                  /\ runs[u].pc \notin {"complete", "ok"}
      BY <3>2 DEF Cascaded, ModelOps
    <3> QED BY <2>1, <3>1, <3>2 DEF Cascaded
  <2> QED BY <2>2, <2>3
<1>6. DistinctVMs' /\ (faults'["ext"] = 0 => NothingFailed')
  BY DEF SerialInv, ServedInv, DistinctVMs, NothingFailed, ClusterOps, ModelOps
<1>7. ASSUME NEW d \in Requests, deployments'[d].status = "active"
      PROVE  \/ t.kind = "deploy" /\ d = t.id /\ Served(d)'
             \/ deployments'[d] = deployments[d]
  BY <1>2, <1>7 DEF Running
<1>8. ASSUME faults'["ext"] = 0, NEW d \in Requests,
             deployments'[d].status = "active",
             (clusters[deployments[d].cluster].status = "active")',
             ~GivenUp(deployments[d].cluster)', ~SharesName(d)',
             deployments'[d] = deployments[d]
      PROVE  Served(d)'
  <2>1. DeploymentExists(d) /\ deployments[d].cluster \in Stacks
    BY <1>8, ConstantsAssumption
       DEF DeploymentExists, Absent, ControlInv, RowInv, HasCluster, TypeOK, DeploymentRow
  <2>2. ~GivenUp(deployments[d].cluster) /\ ~SharesName(d)
    BY <1>4, <1>8, <2>1, ForGood
  <2>3. Served(d)
    BY <1>8, <2>2 DEF SerialInv, ServedInv, RoutedIsServed
  <2>4. <<deployments[d].url, ModelOf[d]>> \in kube'
    <3> SUFFICES ASSUME Reachable(t), deployments[t.id].status # "active",
                        <<deployments[d].url, ModelOf[d]>> = <<runs[t].ip, ModelOf[t.id]>>
                 PROVE  FALSE
      BY <2>3 DEF Served
    <3>1. ModelOf[d] = ModelOf[t.id] /\ infra[deployments[d].cluster] = infra[TaskStack(t)]
          /\ infra[TaskStack(t)] # NoIP /\ d # t.id
      BY <1>8, <2>3, ConstantsAssumption DEF Served, Reachable
    <3>2. deployments[d].cluster = TaskStack(t)
      BY <1>2, <2>1, <3>1 DEF SerialInv, ServedInv, DistinctVMs
    <3> QED BY <1>2, <2>2, <3>1, <3>2 DEF SharesName
  <2> QED BY <1>8, <2>3, <2>4 DEF Served
<1>9. RunFits(t)'
  BY DEF RunFits, ModelOps
<1> QED BY <1>1, <1>4, <1>5, <1>6, <1>7, <1>8, <1>9, TaskStepKeeps

\* The handlers of deploy and delete tasks keep the invariant.
LEMMA ModelWorkFits ==
    ASSUME Patient, ControlInv, SerialInv, NEW t \in TaskIds, ModelWork(t)
    PROVE  SerialInv'
<1> DEFINE d == t.id
           s == TaskStack(t)
           Others == \A u \in TaskIds \ {t} : runs'[u] = runs[u]
           Write(st, ip) == /\ deployments'[d].status = st
                            /\ deployments'[d].url = ip
                            /\ deployments'[d].cluster = deployments[d].cluster
                            /\ \A x \in Requests \ {d} : deployments'[x] = deployments[x]
<1>1. /\ t.kind \in ModelOps /\ runs[t].pc # "idle"
      /\ UNCHANGED <<clusters, jobs, tasks, reqs, infra>>
  BY DEF ModelWork, At, ModelOps, Connect, MarkDeploymentFailed, SetBuilding, ApplyModel,
     SetDeploying, WaitHealthy, SaveDeployed, SetDeleting, RemoveModel, SaveDeleted
<1>2. /\ Live(t) /\ ModelRunFits(t) /\ runs \in [TaskIds -> Run] /\ runs[t] \in Run
  BY <1>1, RunFacts
<1>3. /\ d \in Requests /\ DeploymentExists(d) /\ deployments[d].cluster = s
      /\ s \in Stacks
      /\ t.kind = "deploy" => clusters[s].status = "active"
  BY <1>1, <1>2, OwnStack DEF SerialInv
<1>4. s' = s
  BY <1>1 DEF TaskStack
<1>5. ASSUME NEW pc, Goto(t, pc)
      PROVE  Others /\ runs'[t].pc = pc /\ runs'[t].ip = runs[t].ip
  BY <1>2, <1>5 DEF Goto, Run
<1>6. ASSUME NEW st, NEW ip, UpdateDeploymentServiceURL(d, st, ip)
      PROVE  Write(st, ip)
  BY <1>3, <1>6 DEF UpdateDeploymentServiceURL, DeploymentExists, ControlInv, TypeOK
<1>7. ASSUME NEW st, TryUpdateDeploymentStatus(t, st)
      PROVE  Write(st, deployments[d].url) /\ NoFault
  <2>1. UpdateDeploymentServiceURL(d, st, deployments[d].url) /\ NoFault
    BY <1>7, NoStoreFault DEF TryUpdateDeploymentStatus, UpdateDeploymentStatus, ControlInv
  <2> QED BY <1>3, <2>1 DEF UpdateDeploymentServiceURL, DeploymentExists, ControlInv, TypeOK
<1>8. NoFault \/ Fault("ext") => (faults'["ext"] = 0 => faults["ext"] = 0)
  BY DEF NoFault, Fault, ControlInv, TypeOK, FaultKinds
<1>9. ~Fault("io")
  BY NoStoreFault DEF ControlInv
<1>c. CASE Connect(t)
  <2>1. /\ runs[t].pc = "connect"
        /\ UNCHANGED <<deployments, kube>> /\ NoFault
    BY <1>c, <1>9 DEF Connect
  <2>2. /\ Others
        /\ \/ runs'[t].pc = "apply" /\ t.kind = "deploy" /\ runs'[t].ip = clusters[s].addr
           \/ runs'[t].pc = "remove" /\ t.kind = "delete"
           \/ runs'[t].pc = "markFailed"
    <3>1. CASE Goto(t, "markFailed")
      BY <3>1, <1>5
    <3>2. CASE runs' = [runs EXCEPT ![t] =
                 [pc |-> IF t.kind = "deploy" THEN "apply" ELSE "remove",
                  ip |-> clusters[s].addr]]
      BY <3>2, <1>1, <1>2 DEF ModelOps
    <3> QED BY <1>c, <1>9, <3>1, <3>2 DEF Connect
  <2>3. ModelRunFits(t)'
    BY <1>1, <1>2, <1>4, <2>1, <2>2 DEF ModelRunFits
  <2> QED BY <1>1, <1>2, <1>3, <1>8, <2>1, <2>2, <2>3, ModelRunKeeps DEF DeploymentExists
<1>f. CASE MarkDeploymentFailed(t)
  <2>1. /\ runs[t].pc = "markFailed" /\ UNCHANGED kube /\ NoFault
        /\ Write("failed", deployments[d].url)
        /\ Others /\ runs'[t].pc = "failJob"
    BY <1>f, <1>5, <1>7 DEF MarkDeploymentFailed
  <2>2. ModelRunFits(t)'
    BY <2>1 DEF ModelRunFits
  <2> QED BY <1>1, <1>2, <1>8, <2>1, <2>2, ModelRunKeeps DEF Running, Absent
<1>b. CASE SetBuilding(t)
  <2>1. /\ t.kind = "deploy" /\ UNCHANGED kube /\ NoFault
        /\ Write("building", deployments[d].url)
        /\ Others /\ runs'[t].pc = "running"
    BY <1>b, <1>5, <1>7 DEF SetBuilding, At
  <2>2. ModelRunFits(t)'
    BY <2>1 DEF ModelRunFits
  <2> QED BY <1>1, <1>2, <1>8, <2>1, <2>2, ModelRunKeeps DEF Absent
<1>a. CASE ApplyModel(t)
  <2>1. /\ t.kind = "deploy" /\ runs[t].pc = "apply" /\ UNCHANGED deployments
        /\ kube \subseteq kube' /\ (NoFault \/ Fault("ext"))
    BY <1>a DEF ApplyModel, At, DeployModel
  <2>2. Others /\ runs'[t].pc \in {"deploying", "markFailed"} /\ runs'[t].ip = runs[t].ip
    BY <1>a, <1>5 DEF ApplyModel
  <2>3. ModelRunFits(t)'
    BY <1>1, <1>2, <1>4, <2>1, <2>2 DEF ModelRunFits
  <2> QED BY <1>1, <1>2, <1>3, <1>8, <2>1, <2>2, <2>3, ModelRunKeeps DEF DeploymentExists
<1>d. CASE SetDeploying(t)
  <2>1. /\ t.kind = "deploy" /\ runs[t].pc = "deploying" /\ UNCHANGED kube /\ NoFault
        /\ Write("deploying", deployments[d].url)
        /\ Others /\ runs'[t].pc = "wait" /\ runs'[t].ip = runs[t].ip
    BY <1>d, <1>5, <1>7 DEF SetDeploying, At
  <2>2. ModelRunFits(t)'
    BY <1>1, <1>2, <1>4, <2>1 DEF ModelRunFits
  <2> QED BY <1>1, <1>2, <1>8, <2>1, <2>2, ModelRunKeeps DEF Absent
<1>h. CASE WaitHealthy(t)
  <2>1. /\ t.kind = "deploy" /\ runs[t].pc = "wait" /\ UNCHANGED <<deployments, kube>>
        /\ NoFault \/ Fault("ext")
    BY <1>h DEF WaitHealthy, At
  <2>2. /\ Others /\ runs'[t].ip = runs[t].ip
        /\ \/ runs'[t].pc = "save" /\ Objects(t) \subseteq kube
           \/ runs'[t].pc = "markFailed"
    BY <1>h, <1>5 DEF WaitHealthy
  <2>3. ModelRunFits(t)'
    BY <1>1, <1>2, <1>4, <2>1, <2>2 DEF ModelRunFits, Objects
  <2> QED BY <1>1, <1>2, <1>3, <1>8, <2>1, <2>2, <2>3, ModelRunKeeps DEF DeploymentExists
<1>s. CASE SaveDeployed(t)
  <2>1. /\ t.kind = "deploy" /\ runs[t].pc = "save" /\ UNCHANGED kube /\ NoFault
        /\ Write("active", runs[t].ip)
        /\ Others /\ runs'[t].pc = "complete"
    BY <1>s, <1>5, <1>6, <1>9 DEF SaveDeployed, At
  <2>2. ModelRunFits(t)'
    BY <2>1 DEF ModelRunFits
  <2>3. Served(d)'
    <3>1. runs[t].ip = clusters[s].addr /\ <<runs[t].ip, ModelOf[d]>> \in kube
      BY <1>2, <2>1 DEF ModelRunFits, Objects
    <3>2. infra[s] = clusters[s].addr
      BY <1>3, <2>1 DEF SerialInv, StackInv, VMFits
    <3> QED BY <1>1, <1>3, <2>1, <3>1, <3>2 DEF Served
  <2> QED BY <1>1, <1>2, <1>8, <2>1, <2>2, <2>3, ModelRunKeeps DEF Absent
<1>e. CASE SetDeleting(t)
  <2>1. /\ t.kind = "delete" /\ UNCHANGED kube /\ NoFault
        /\ Write("deleting", deployments[d].url)
        /\ Others /\ runs'[t].pc = "running"
    BY <1>e, <1>5, <1>7 DEF SetDeleting, At
  <2>2. ModelRunFits(t)'
    BY <2>1 DEF ModelRunFits
  <2> QED BY <1>1, <1>2, <1>8, <2>1, <2>2, ModelRunKeeps DEF Running, Absent
<1>r. CASE RemoveModel(t)
  <2>1. /\ t.kind = "delete" /\ runs[t].pc = "remove" /\ UNCHANGED deployments
        /\ NoFault \/ Fault("ext")
        /\ UNCHANGED kube \/ (Reachable(t) /\ kube' = kube \ {<<runs[t].ip, ModelOf[d]>>})
    BY <1>r DEF RemoveModel, At, DeleteModel, Objects
  <2>2. Others /\ runs'[t].pc \in {"save", "markFailed"}
    BY <1>r, <1>5 DEF RemoveModel
  <2>3. deployments[d].status # "active"
    BY <1>2, <2>1 DEF ModelRunFits
  <2>4. ModelRunFits(t)'
    BY <2>1, <2>2, <2>3 DEF ModelRunFits
  <2> QED BY <1>1, <1>2, <1>3, <1>8, <2>1, <2>2, <2>3, <2>4, ModelRunKeeps
          DEF DeploymentExists
<1>x. CASE SaveDeleted(t)
  <2>1. UpdateDeploymentStatus(d, "deleted") /\ Goto(t, "complete") /\ NoFault
    BY <1>x, <1>9 DEF SaveDeleted
  <2>2. TryUpdateDeploymentStatus(t, "deleted")
    BY <2>1 DEF TryUpdateDeploymentStatus
  <2>3. /\ t.kind = "delete" /\ UNCHANGED kube /\ NoFault
        /\ Write("deleted", deployments[d].url)
        /\ Others /\ runs'[t].pc = "complete"
    BY <1>x, <1>5, <1>7, <2>1, <2>2 DEF SaveDeleted, At
  <2>4. ModelRunFits(t)'
    BY <2>3 DEF ModelRunFits
  <2> QED BY <1>1, <1>2, <1>8, <2>3, <2>4, ModelRunKeeps DEF Running, Absent
<1> QED BY <1>c, <1>f, <1>b, <1>a, <1>d, <1>h, <1>s, <1>e, <1>r, <1>x DEF ModelWork

-----------------------------------------------------------------------------
(* The invariant                                                           *)

\* The empty system satisfies it.
LEMMA InitSerialInv == Init => SerialInv
<1> SUFFICES ASSUME Init PROVE SerialInv
  OBVIOUS
<1>1. /\ \A r \in Requests : reqs[r].pc = "unsent" /\ ~Busy(r)
      /\ \A t \in TaskIds : ~Live(t) /\ runs[t].pc = "idle"
  BY TaskFacts, ConstantsAssumption DEF Init, Busy, Live, InFlight, NoTask, NoRun
<1>2. /\ \A s \in Stacks : clusters[s].status = Absent /\ infra[s] = NoIP
      /\ \A d \in Requests : deployments[d].status = Absent
  BY DEF Init
<1>3. StackInv
  BY <1>1, <1>2 DEF StackInv, OneAtATime, Placed, DeploymentExists, RequestFits, RunFits,
     VMFits, Absent
<1>4. CascadeInv
  BY <1>2 DEF CascadeInv, Cascaded, Absent
<1>5. ServedInv
  BY <1>1, <1>2 DEF ServedInv, ModelRunFits, DistinctVMs, NothingFailed, NoneLeftBehind,
     RoutedIsServed, Absent
<1> QED BY <1>3, <1>4, <1>5 DEF SerialInv

\* Every step of the API server, the worker and the queue preserves it.
LEMMA NextSerialInv ==
    ASSUME Patient, ControlInv, SerialInv, [Next]_vars
    PROVE  SerialInv'
<1>1. CASE JobNext
  <2>1. ASSUME NEW r \in Requests, CreateJobRecord(r) \/ Enqueue(r) \/ ServerDies(r)
        PROVE  SerialInv'
    BY <2>1, EnqueueFits, RequestWorkFits DEF RequestWork
  <2>2. ASSUME NEW t \in TaskIds,
               \/ StartTask(t) \/ JobRunning(t) \/ CompleteJob(t) \/ FailJob(t)
               \/ ReturnNil(t) \/ ReturnErr(t) \/ RunLost(t) \/ RunRequeued(t)
        PROVE  SerialInv'
    BY <2>2, StartFits, JobStepFits, EndRunFits
  <2> QED BY <1>1, <2>1, <2>2 DEF JobNext
<1>2. CASE ClusterNext
  <2>1. \/ \E r \in Requests : RequestWork(r)
        \/ \E t \in TaskIds : ClusterWork(t)
    BY <1>2 DEF ClusterNext, RequestWork, ClusterWork
  <2> QED BY <2>1, RequestWorkFits, ClusterWorkFits
<1>3. CASE ModelNext
  <2>1. \/ \E r \in Requests : RequestWork(r)
        \/ \E t \in TaskIds : ModelWork(t)
    BY <1>3 DEF ModelNext, RequestWork, ModelWork
  <2> QED BY <2>1, RequestWorkFits, ModelWorkFits
<1>4. CASE UNCHANGED vars
  <2>1. StackInv'
    BY <1>4 DEF vars, SerialInv, StackInv, OneAtATime, Busy, Live, Placed, DeploymentExists,
       RequestFits, RunFits, ProvisionFits, DestroyFits, TaskStack, VMFits
  <2>2. CascadeInv'
    BY <1>4 DEF vars, SerialInv, CascadeInv, Cascaded
  <2>3. ServedInv'
    BY <1>4 DEF vars, SerialInv, ServedInv, ModelRunFits, TaskStack, Objects, DistinctVMs,
       NothingFailed, NoneLeftBehind, Busy, Live, GivenUp, RoutedIsServed, SharesName,
       DeploymentExists, Served
  <2> QED BY <2>1, <2>2, <2>3 DEF SerialInv
<1> QED BY <1>1, <1>2, <1>3, <1>4 DEF Next, Finished

(***************************************************************************)
(* When clients wait and the store does not fail, every request and every  *)
(* task that is under way has its stack to itself and finds there what it  *)
(* expects, whatever Pulumi and Kubernetes calls fail, whatever runs are   *)
(* lost, requeued or retried, and whenever the API server dies.            *)
(***************************************************************************)
THEOREM SerialInvariant == ASSUME Patient PROVE Spec => []SerialInv
<1>1. Init => SerialInv
  BY InitSerialInv
<1>2. ControlInv /\ SerialInv /\ [Next]_vars => SerialInv'
  BY NextSerialInv
<1> QED BY <1>1, <1>2, ControlInvariant, PTL DEF Spec

(***************************************************************************)
(* A cluster whose row says active has a VM, at the address in that row,   *)
(* and one whose row says destroyed has none.                              *)
(***************************************************************************)
THEOREM ActiveClustersBacked == ASSUME Patient PROVE Spec => []ActiveIsBacked
<1>1. SerialInv => ActiveIsBacked
  BY DEF SerialInv, StackInv, VMFits, ActiveIsBacked
<1> QED BY <1>1, SerialInvariant, PTL

\* No VM of a cluster that was reported destroyed is left behind.
THEOREM DestroyedClustersGone == ASSUME Patient PROVE Spec => []DestroyedIsGone
<1>1. SerialInv => DestroyedIsGone
  BY DEF SerialInv, StackInv, VMFits, DestroyedIsGone
<1> QED BY <1>1, SerialInvariant, PTL

(***************************************************************************)
(* Once the destroy task of a cluster is done, no deployment on it is      *)
(* reported as running or as about to run, even if the task was lost and   *)
(* retried between the update of the cluster and the cascade.              *)
(***************************************************************************)
THEOREM DestroysCascade == ASSUME Patient PROVE Spec => []DestroyIsCascaded
<1>1. SerialInv => DestroyIsCascaded
  <2> SUFFICES ASSUME SerialInv, NEW t \in TaskIds, t.kind = "destroy",
                      clusters[t.id].status = "destroyed", tasks[t].state = "none",
                      NEW d \in Requests, deployments[d].cluster = t.id
               PROVE  deployments[d].status \notin Running
    BY DEF DestroyIsCascaded, Running
  <2>1. Cascaded(t.id)
    BY TaskFacts DEF SerialInv, CascadeInv, ClusterOps
  <2>2. ASSUME NEW u \in TaskIds, u.kind = "destroy", u.id = t.id
        PROVE  u = t
    BY <2>2 DEF TaskIds, TaskOf
  <2> QED BY <2>1, <2>2 DEF Cascaded
<1> QED BY <1>1, SerialInvariant, PTL

(***************************************************************************)
(* What the proxy routes to is there: an active deployment on an active    *)
(* cluster names the VM of that cluster and its objects run on it, unless  *)
(* a Pulumi or Kubernetes call failed, the destruction of the cluster was  *)
(* given up, or another deployment of the same name shared its objects.    *)
(***************************************************************************)
THEOREM RoutedDeploymentsServed == ASSUME Patient PROVE Spec => []RoutedIsServed
<1>1. SerialInv => RoutedIsServed
  BY DEF SerialInv, ServedInv
<1> QED BY <1>1, SerialInvariant, PTL

-----------------------------------------------------------------------------
(* The control plane implements the lifecycle of ClusterLifecycle          *)

\* The UPDATE of one row, as the lifecycle sees it.
LEMMA RowMoves ==
    ASSUME TypeOK, NEW s \in Stacks, NEW st, NEW ip,
           \/ CreateCluster(s) /\ st = "provisioning" /\ ip = NoIP
           \/ clusters[s].status # Absent /\ UpdateClusterDetails(s, st, ip)
    PROVE  /\ [x \in Stacks |-> clusters'[x].status]
                = [[x \in Stacks |-> clusters[x].status] EXCEPT ![s] = st]
           /\ [x \in Stacks |-> clusters'[x].addr]
                = [[x \in Stacks |-> clusters[x].addr] EXCEPT ![s] = ip]
<1>1. /\ clusters'[s] = [status |-> st, addr |-> ip]
      /\ \A x \in Stacks \ {s} : clusters'[x] = clusters[x]
  BY DEF TypeOK, UpdateClusterDetails, CreateCluster
<1>2. /\ clusters'[s].status = st /\ clusters'[s].addr = ip
      /\ \A x \in Stacks \ {s} : /\ clusters'[x].status = clusters[x].status
                                /\ clusters'[x].addr = clusters[x].addr
  BY <1>1
<1> QED BY <1>2

\* A step that changes neither a row of a cluster nor a VM is a stutter.
LEMMA LifecycleStutters ==
    ASSUME UNCHANGED <<clusters, infra>>
    PROVE  UNCHANGED Lifecycle!lifecycle
BY DEF Lifecycle!lifecycle

(***************************************************************************)
(* The steps of the API server.  A provision request claims a stack that   *)
(* is free: nobody else has touched it since the lookup.                   *)
(***************************************************************************)
LEMMA RequestWorkRefines ==
    ASSUME Patient, ControlInv, SerialInv, NEW r \in Requests, RequestWork(r)
    PROVE  Lifecycle!LifecycleNext \/ UNCHANGED Lifecycle!lifecycle
<1> DEFINE s == StackOf[r]
<1>1. /\ TypeOK /\ RowInvOf(r) /\ RequestFits(r) /\ ~Fault("io")
      /\ Op[r] \in ClusterOps => s \in Stacks
  BY NoStoreFault, TouchFacts DEF ControlInv, RowInv, SerialInv, StackInv
<1>2. ASSUME NEW st \in {Absent, "failed", "destroyed"}, clusters[s].status = st,
             Op[r] = "provision", UNCHANGED infra,
             \/ CreateCluster(s)
             \/ clusters[s].status # Absent /\ UpdateClusterDetails(s, "provisioning", NoIP)
      PROVE  Lifecycle!LifecycleNext
  <2>1. s \in Stacks
    BY <1>1, <1>2 DEF ClusterOps
  <2>2. /\ [x \in Stacks |-> clusters'[x].status]
             = [[x \in Stacks |-> clusters[x].status] EXCEPT ![s] = "provisioning"]
        /\ [x \in Stacks |-> clusters'[x].addr]
             = [[x \in Stacks |-> clusters[x].addr] EXCEPT ![s] = NoIP]
    BY <1>1, <1>2, <2>1, RowMoves
  <2>3. Lifecycle!Claim(s)
    BY <1>2, <2>1, <2>2 DEF Lifecycle!Claim, Lifecycle!Move, Absent
  <2> QED BY <2>1, <2>3 DEF Lifecycle!LifecycleNext
<1>3. CASE CreateClusterRow(r)
  <2>1. Op[r] = "provision" /\ reqs[r].cluster = s /\ UNCHANGED infra
    BY <1>1, <1>3 DEF CreateClusterRow, RowInvOf
  <2>2. CASE UNCHANGED clusters
    BY <2>1, <2>2, LifecycleStutters
  <2>3. CASE CreateCluster(s)
    <3>1. clusters[s].status = Absent
      BY <2>3 DEF CreateCluster, ClusterExists
    <3> QED BY <1>2, <2>1, <2>3, <3>1
  <2> QED BY <1>1, <1>3, <2>1, <2>2, <2>3 DEF CreateClusterRow
<1>4. CASE ResetClusterRow(r)
  <2>1. /\ Op[r] = "provision" /\ reqs[r].cluster = s /\ UNCHANGED infra
        /\ clusters[s].status \in {"destroyed", "failed"}
    BY <1>1, <1>4 DEF ResetClusterRow, RowInvOf, RequestFits
  <2>2. UpdateClusterDetails(s, "provisioning", NoIP)
    BY <1>1, <1>4, <2>1 DEF ResetClusterRow, ResetCluster
  <2> QED BY <1>2, <2>1, <2>2 DEF Absent
<1>5. CASE \/ LookupForProvision(r) \/ LookupForDestroy(r) \/ LookupForDeploy(r)
           \/ CreateDeploymentRow(r) \/ LookupForDelete(r)
           \/ CreateJobRecord(r) \/ ServerDies(r)
  BY <1>5, LifecycleStutters
     DEF LookupForProvision, LookupForDestroy, LookupForDeploy, CreateDeploymentRow,
         LookupForDelete, CreateJobRecord, ServerDies
<1> QED BY <1>3, <1>4, <1>5 DEF RequestWork

(***************************************************************************)
(* The steps of the cluster handlers.  A destroy of a stack that never was *)
(* finds no VM: it changes nothing.                                        *)
(***************************************************************************)
LEMMA ClusterWorkRefines ==
    ASSUME Patient, ControlInv, SerialInv, NEW t \in TaskIds, ClusterWork(t)
    PROVE  Lifecycle!LifecycleNext \/ UNCHANGED Lifecycle!lifecycle
<1> DEFINE s == t.id
           status == clusters[s].status
           Wrote(st, ip) == /\ [x \in Stacks |-> clusters'[x].status]
                                 = [[x \in Stacks |-> clusters[x].status] EXCEPT ![s] = st]
                            /\ [x \in Stacks |-> clusters'[x].addr]
                                 = [[x \in Stacks |-> clusters[x].addr] EXCEPT ![s] = ip]
<1>1. /\ t.kind \in ClusterOps /\ s \in Stacks /\ VMFits(s) /\ ~Fault("io")
      /\ t.kind = "provision" => /\ ProvisionFits(t) /\ TaskStack(t) = s
                                 /\ status # Absent
      /\ t.kind = "destroy" => /\ DestroyFits(t) /\ TaskStack(t) \in {s, NoStack}
                               /\ Tracked(t) => status # Absent
  BY ClusterRunFacts
<1>2. /\ TypeOK /\ clusters \in [Stacks -> ClusterRow]
      /\ infra \in [Stacks -> IPs \cup {NoIP}]
  BY DEF ControlInv, TypeOK
<1>3. [[x \in Stacks |-> clusters[x].addr] EXCEPT ![s] = clusters[s].addr]
        = [x \in Stacks |-> clusters[x].addr]
  BY <1>1
<1>4. ASSUME NEW ip \in IPs \cup {NoIP}, SetVM(s, ip), UNCHANGED clusters,
             status \in {"installing", "destroying"} \/ ip = infra[s]
      PROVE  Lifecycle!LifecycleNext \/ UNCHANGED Lifecycle!lifecycle
  <2>1. CASE status \in {"installing", "destroying"}
    <3>1. Lifecycle!ChangeVM(s)
      BY <1>1, <1>4, <2>1 DEF SetVM, Lifecycle!ChangeVM
    <3> QED BY <1>1, <3>1 DEF Lifecycle!LifecycleNext
  <2>2. CASE ip = infra[s]
    <3>1. infra' = infra
      BY <1>2, <1>4, <2>2 DEF SetVM
    <3> QED BY <1>4, <3>1, LifecycleStutters
  <2> QED BY <1>4, <2>1, <2>2
<1>s. CASE SetInstalling(t)
  <2>1. /\ UpdateClusterDetails(s, "installing", clusters[s].addr) /\ UNCHANGED infra
        /\ status \in {"provisioning", "installing", "failed", "active"}
    BY <1>s, <1>1 DEF SetInstalling, At, UpdateClusterStatus, ProvisionFits
  <2>2. status # Absent
    BY <2>1 DEF Absent
  <2>3. Wrote("installing", clusters[s].addr)
    BY <1>1, <1>2, <2>1, <2>2, RowMoves
  <2>4. Lifecycle!Install(s)
    BY <1>1, <1>3, <2>1, <2>3 DEF Lifecycle!Install, Lifecycle!Move
  <2> QED BY <1>1, <2>4 DEF Lifecycle!LifecycleNext
<1>p. CASE ProvisionCluster(t)
  <2>1. status = "installing" /\ UNCHANGED clusters
    BY <1>p, <1>1 DEF ProvisionCluster, At, ProvisionFits
  <2>2. PICK ip \in FreshIPs \cup {infra[s], NoIP} : SetVM(s, ip)
    BY <1>p DEF ProvisionCluster, PulumiUp, PulumiUpFails
  <2>3. ip \in IPs \cup {NoIP}
    BY <1>1, <1>2 DEF FreshIPs
  <2> QED BY <1>4, <2>1, <2>2, <2>3
<1>a. CASE SaveActive(t)
  <2>1. /\ UpdateClusterDetails(s, "active", runs[t].ip) /\ UNCHANGED infra
        /\ status = "installing" /\ infra[s] = runs[t].ip /\ runs[t].ip # NoIP
    BY <1>a, <1>1 DEF SaveActive, At, ProvisionFits
  <2>2. status # Absent
    BY <2>1 DEF Absent
  <2>3. Wrote("active", runs[t].ip)
    BY <1>1, <1>2, <2>1, <2>2, RowMoves
  <2>4. Lifecycle!Activate(s)
    BY <1>1, <2>1, <2>3 DEF Lifecycle!Activate, Lifecycle!Move
  <2> QED BY <1>1, <2>4 DEF Lifecycle!LifecycleNext
<1>d. CASE SetDestroying(t)
  <2>1. CASE UNCHANGED clusters
    BY <1>d, <2>1, LifecycleStutters DEF SetDestroying
  <2>2. CASE Tracked(t) /\ UpdateClusterStatus(TaskStack(t), "destroying")
    <3>1. /\ UpdateClusterDetails(s, "destroying", clusters[s].addr) /\ UNCHANGED infra
          /\ status \in {"active", "failed", "destroying", "destroyed"}
      BY <1>d, <1>1, <2>2 DEF SetDestroying, At, UpdateClusterStatus, DestroyFits, Tracked
    <3>2. status # Absent
      BY <3>1 DEF Absent
    <3>3. Wrote("destroying", clusters[s].addr)
      BY <1>1, <1>2, <3>1, <3>2, RowMoves
    <3>4. Lifecycle!Retire(s)
      BY <1>1, <1>3, <3>1, <3>3 DEF Lifecycle!Retire, Lifecycle!Move
    <3> QED BY <1>1, <3>4 DEF Lifecycle!LifecycleNext
  <2> QED BY <1>d, <2>1, <2>2 DEF SetDestroying
<1>v. CASE DestroyCluster(t)
  <2>1. /\ status = "destroying" \/ infra[s] = NoIP
        /\ UNCHANGED clusters
    BY <1>v, <1>1 DEF DestroyCluster, At, DestroyFits, VMFits
  <2>2. PICK ip \in {infra[s], NoIP} : SetVM(s, ip)
    BY <1>v DEF DestroyCluster, PulumiDestroy, PulumiDestroyFails
  <2>3. ip \in IPs \cup {NoIP} /\ (status = "destroying" \/ ip = infra[s])
    BY <1>1, <1>2, <2>1, <2>2
  <2> QED BY <1>4, <2>1, <2>2, <2>3
<1>w. CASE SaveDestroyed(t)
  <2>1. CASE UNCHANGED clusters
    BY <1>w, <2>1, LifecycleStutters DEF SaveDestroyed
  <2>2. CASE Tracked(t) /\ UpdateClusterDetails(TaskStack(t), "destroyed", NoIP)
    <3>1. /\ UpdateClusterDetails(s, "destroyed", NoIP) /\ UNCHANGED infra
          /\ status = "destroying" /\ infra[s] = NoIP
      BY <1>w, <1>1, <2>2 DEF SaveDestroyed, At, DestroyFits, Tracked
    <3>2. status # Absent
      BY <3>1 DEF Absent
    <3>3. Wrote("destroyed", NoIP)
      BY <1>1, <1>2, <3>1, <3>2, RowMoves
    <3>4. Lifecycle!Release(s)
      BY <1>1, <3>1, <3>3 DEF Lifecycle!Release, Lifecycle!Move
    <3> QED BY <1>1, <3>4 DEF Lifecycle!LifecycleNext
  <2> QED BY <1>w, <2>1, <2>2 DEF SaveDestroyed
<1>m. CASE MarkClusterFailed(t)
  <2>1. CASE UNCHANGED clusters
    BY <1>m, <2>1, LifecycleStutters DEF MarkClusterFailed
  <2>2. CASE Tracked(t) /\ UpdateClusterStatus(TaskStack(t), "failed")
    <3>1. TaskStack(t) = s /\ runs[t].pc = "markFailed" /\ UNCHANGED infra
      BY <1>m, <1>1, <2>2 DEF MarkClusterFailed, Tracked, ClusterOps
    <3>2. UpdateClusterDetails(s, "failed", clusters[s].addr)
      BY <2>2, <3>1 DEF UpdateClusterStatus
    <3>3. status \in {"installing", "destroying"}
      BY <1>1, <2>2, <3>1 DEF ProvisionFits, DestroyFits, Tracked, ClusterOps
    <3>4. status # Absent
      BY <3>3 DEF Absent
    <3>5. Wrote("failed", clusters[s].addr)
      BY <1>1, <1>2, <3>2, <3>4, RowMoves
    <3>6. Lifecycle!Abandon(s)
      BY <1>1, <1>3, <3>1, <3>3, <3>5 DEF Lifecycle!Abandon, Lifecycle!Move
    <3> QED BY <1>1, <3>6 DEF Lifecycle!LifecycleNext
  <2> QED BY <1>m, <2>1, <2>2 DEF MarkClusterFailed
<1>o. CASE FetchKubeconfig(t) \/ OrphanDeployments(t)
  BY <1>o, LifecycleStutters DEF FetchKubeconfig, OrphanDeployments
<1> QED BY <1>s, <1>p, <1>a, <1>d, <1>v, <1>w, <1>m, <1>o DEF ClusterWork

\* Every step of the control plane is a step of the lifecycle, or none.
LEMMA NextRefines ==
    ASSUME Patient, ControlInv, SerialInv, [Next]_vars
    PROVE  [Lifecycle!LifecycleNext]_(Lifecycle!lifecycle)
<1>1. CASE JobNext
  <2>1. ASSUME NEW r \in Requests, CreateJobRecord(r) \/ ServerDies(r)
        PROVE  [Lifecycle!LifecycleNext]_(Lifecycle!lifecycle)
    BY <2>1, RequestWorkRefines DEF RequestWork
  <2>2. ASSUME NEW r \in Requests, Enqueue(r)
        PROVE  [Lifecycle!LifecycleNext]_(Lifecycle!lifecycle)
    BY <2>2, LifecycleStutters DEF Enqueue
  <2>3. ASSUME NEW t \in TaskIds,
               \/ StartTask(t) \/ JobRunning(t) \/ CompleteJob(t) \/ FailJob(t)
               \/ ReturnNil(t) \/ ReturnErr(t) \/ RunLost(t) \/ RunRequeued(t)
        PROVE  [Lifecycle!LifecycleNext]_(Lifecycle!lifecycle)
    BY <2>3, LifecycleStutters
       DEF StartTask, JobRunning, CompleteJob, FailJob, ReturnNil, ReturnErr, RunLost,
           RunRequeued, EndRun
  <2> QED BY <1>1, <2>1, <2>2, <2>3 DEF JobNext
<1>2. CASE ClusterNext
  <2>1. \/ \E r \in Requests : RequestWork(r)
        \/ \E t \in TaskIds : ClusterWork(t)
    BY <1>2 DEF ClusterNext, RequestWork, ClusterWork
  <2> QED BY <2>1, RequestWorkRefines, ClusterWorkRefines
<1>3. CASE ModelNext
  <2>1. ASSUME NEW r \in Requests,
               LookupForDeploy(r) \/ CreateDeploymentRow(r) \/ LookupForDelete(r)
        PROVE  [Lifecycle!LifecycleNext]_(Lifecycle!lifecycle)
    BY <2>1, RequestWorkRefines DEF RequestWork
  <2>2. ASSUME NEW t \in TaskIds, ModelWork(t)
        PROVE  [Lifecycle!LifecycleNext]_(Lifecycle!lifecycle)
    BY <2>2, LifecycleStutters
       DEF ModelWork, Connect, MarkDeploymentFailed, SetBuilding, ApplyModel, SetDeploying,
           WaitHealthy, SaveDeployed, SetDeleting, RemoveModel, SaveDeleted
  <2> QED BY <1>3, <2>1, <2>2 DEF ModelNext, ModelWork
<1>4. CASE UNCHANGED vars
  BY <1>4, LifecycleStutters DEF vars
<1> QED BY <1>1, <1>2, <1>3, <1>4 DEF Next, Finished

(***************************************************************************)
(* When clients wait and the store does not fail, the rows of the clusters *)
(* and the VMs move as ClusterLifecycle says and in no other way: a stack  *)
(* is claimed only when it is free, its VM comes and goes only while it is *)
(* installing or destroying, and it becomes active only with its VM.       *)
(***************************************************************************)
THEOREM RefinesLifecycle == ASSUME Patient PROVE Spec => ImplementsLifecycle
<1>1. Init => Lifecycle!LifecycleInit
  BY DEF Init, Lifecycle!LifecycleInit, Absent
<1>2. ControlInv /\ SerialInv /\ [Next]_vars
        => [Lifecycle!LifecycleNext]_(Lifecycle!lifecycle)
  BY NextRefines
<1> QED BY <1>1, <1>2, ControlInvariant, SerialInvariant, PTL
        DEF Spec, ImplementsLifecycle, Lifecycle!LifecycleSpec
=============================================================================
