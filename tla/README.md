# Tark control plane: TLA+ models, checks and proofs

Tark provisions single-node Kubernetes clusters on cloud VMs, deploys LLM
servers on them and proxies inference requests to them. An API server (Echo)
writes rows to PostgreSQL and enqueues tasks in Redis through Asynq; a worker
runs the tasks against Pulumi, SSH and Kubernetes and writes the outcome back.
Nothing spans the three stores atomically: there is no transaction over more
than one statement in the handlers, and no lock. What can go wrong is therefore
a matter of order: between requests, between a request and the tasks of earlier
ones, between a run and the retry of a run that was lost.

## 1. Inventory

| Component | State | Operations | Interacts with |
|---|---|---|---|
| API handlers (`internal/http/handlers/provision.go`, `deploy.go`) | none of its own; local variables across store calls | provision, destroy, deploy, delete, lists | store (rows), queue (enqueue) |
| Job records (`handlers/jobs.go`) | `jobs` table | create (best effort), poll | store |
| Queue client (`internal/worker/client.go`, `tasks/`, `queue/`) | Asynq tasks in Redis, by task ID | enqueue with deduplication, 3 retries, timeout | API handlers, worker |
| Worker (`internal/worker/server.go`) | goroutines, `concurrency` at most | four task handlers, shutdown | store, Pulumi, SSH, Kubernetes, routing cache |
| Provisioner (`provisioner.go`, `infra/azure`) | VM and address per stack | up, destroy | worker |
| Kubernetes client (`internal/kube`) | objects by namespace and name | create if missing, delete | worker |
| Store (`internal/store/postgres.go`) | `organizations`, `clusters`, `deployments`, `jobs` | single-statement reads and writes | everyone |
| Migrations (`internal/store/migrate.go`) | `schema_migrations` | applied at start-up by every process | store |
| Proxy (`handlers/proxy.go`, `internal/cache`) | routing cache in Redis (TTL 30 s), round-robin counter, pool of reverse proxies | resolve a model, probe targets, proxy | store, Redis, worker's invalidation |
| Server and worker lifecycle (`internal/app`, `router.go`, `cmd/`) | signal handling, readiness probes | start, ready, drain | all |

Correctness, by component:

* handlers and queue: an accepted request is never forgotten, its task always
  finds the rows it updates, and its job is settled;
* clusters: the status tells the truth about the VM, through failures, retries
  and restarts; a destroyed cluster leaves nothing behind;
* deployments: one that is routed to is served; a terminal state is terminal;
* migrations: nothing runs twice or is recorded unrun, a process serves only a
  migrated database, and racing processes do not all exit;
* proxy: a model that can be served is not refused, whatever is cached; targets
  take turns as long as Redis answers; a stale list does not outlive its
  invalidation or its TTL;
* organizations: concurrent first requests end up with one default organization,
  and a stack name with one cluster row;
* server and worker processes: both stop when told to, the server reports a clean
  exit only if it cut nothing off, a probe is answered even if a service hangs,
  no task is forgotten over exits and crashes, and of the handlers of one task, of
  which one may outlive its run, at most one can still write.

The hard behaviours are listed in `PROJECT.json` under `hazards`, each at the
line where it bites.

## 2. Modules

| Module | Models |
|---|---|
| `ControlState` | the tables, the queue, the handlers' program counters, the VMs and the Kubernetes objects; every write of the store as an operator |
| `JobControl` | the job row, enqueueing, dispatch, retry, archive, timeout, crash, restart |
| `ClusterControl` | `HandleProvision`, `HandleDestroy`, `handleProvisionClusterTask`, `handleDestroyClusterTask`, Pulumi, SSH |
| `ModelControl` | `PostDeploy`, `HandleDeleteDeployment`, `handleDeployModelTask`, `handleDeleteModelTask`, Kubernetes |
| `ControlPlane` | the composition of the four: `Next`, fairness, their properties, the refinement mapping |
| `ClusterLifecycle` | the abstract specification of a cluster: status, address, VM |
| `Discovery` | the inference proxy: `resolveModelTarget` call by call, and the two Redis keys of a model |
| `RoutedPlane` | the composition of `ControlPlane` and `Discovery`, with the worker's calls of `invalidateModelCache` |
| `DefaultOrg` | `ensureDefaultOrganization`, the lookup and the insertion of a cluster by name, the constraints of the two tables |
| `ApiServer` | the server process around those requests: boot, listen, signal, drain, exit, `GET /readyz` |
| `WorkerProcess` | the worker process: `main`, `Server.Run`, the goroutine of `asynq.Server.Run`, leases and recovery |
| `Migrations` | `RunEmbeddedMigrations` in several processes |
| `MCControlPlane`, `MCRoutedPlane`, `MCApiServer`, `MCWorkerProcess`, `MCMigrations` | workloads, fault budgets, initial state of `Routes`, the embedded list of versions |
| `ControlPlaneProofs`, `SerialProofs`, `ClusterLifecycleProofs`, `RoutedProofs`, `ApiServerProofs`, `WorkerProofs`, `MigrationsProofs` | the theorems |

### State and code

A *request* of the workload stands for the HTTP request, for the job ID the
handler generates and, if it is a deploy, for the deployment ID. A *stack*
stands for its cluster row: names are unique and rows are never deleted. A
*task ID* is the pair of kind and subject the handlers build as a string
(`provision:<cluster>`, `destroy:<stack>`, `deploy:<deployment>`,
`delete:<deployment>`). An *address* stands for a VM, and for the kubeconfig and
the public IP of a cluster row, which are always written together. A *model*
stands for a namespace and a name (and the node port that goes with them); the
proxy knows the name only (`NameOf`), which models of two namespaces may share.

Handlers are cut at every call that leaves the process: `reqs[r].pc` and
`runs[t].pc` say which call comes next. What a handler reads and keeps in a
local variable is kept in `reqs[r].cluster` and `runs[t].ip`, so that it can be
stale when it is used. Reads that only produce an answer are not actions.

Faults are counted and bounded per kind (`FaultBudget`):

* `io`: a call of the store or of Redis fails. It has no effect, except that a
  failed enqueue may have added the task. A client that goes away is a case of it:
  its handler goes on, the store calls that follow fail with the context of the
  request, and the enqueue, which has a context of its own, does not.
* `ext`: a call of Pulumi, SSH or Kubernetes fails, possibly half way.
* `lost`: the timeout or the lease of a task expires, or the worker crashes. The
  later writes of that run do not reach the store, because they use the context
  that is done; Asynq retries or archives the task.
* `restart`: a graceful shutdown pushes the task back to its queue.
* `abort`: the API server dies within a request.

`ClientWaits` selects the client: `FALSE`, any interleaving of requests; `TRUE`,
a client that sends a request only when no request and no task for the same
stack is under way.

Proxy. `routes[n]` is the cached list of a model name with the ticks it has left
(`TTL` stands for 30 s), `rr[n]` its counter, `px[q]` a request being handled: what it read from
the cache or the table (`todo`) and what it found healthy (`ok`) are kept in the
request, so that both can be stale. A slot takes any number of requests in turn.
A Redis call, a query or a probe may fail (`MaxGlitches`). A command of Redis whose
answer is an error or is lost may have been executed all the same: a `SET` or a `DEL`,
or any of the `RedisAttempts` times that the client sends an `INCR`. The worker's `DEL` after
a step of a handler is a step of its own: `owed` holds the runs that have it
before them, and such a run takes no other step first unless it is lost.
`steady`, `outrun` and `turn` are history variables that only properties read.

Processes. `ApiServer` keeps where `RunWithGracefulShutdown` is, the listener,
a pending signal and one readiness probe with its two pings; a request may hang
for ever, since requests have no deadline. `WorkerProcess` keeps where `main` and
the goroutine of Asynq are, the state of the Asynq server (`new`, `active`,
`stopped`, `closing` and `closed`: marked closed, and its processor stopped), the two
places a signal arrives in, and for each task its state in Redis and its lease. A
*run* and its *handler* are kept apart. `runs` holds the tasks that Asynq attends to,
one slot each; `handlers` the goroutines, with the attempt they belong to and whether
their context is live. When a task passes its deadline, loses its lease or is pushed
back by the shutdown timeout, Asynq is done with the run, but its handler goes on until
it looks at its context, which `fetchKubeconfigWithRetry` (`server.go:148`) never does;
such a handler may be there beside the next attempt, for as long as it likes. Two orders
are Asynq's: at a deadline or a lost lease the context is cancelled before the
task can be run again; at the shutdown timeout it is cancelled only after the task was
pushed back (`DeferredCancel`), but then this process starts no more runs. With several
worker processes another one may take the task in that moment; one process is modelled.
That a lost lease is seen here first rests on Asynq's clocks: the heartbeater looks every
5 s, and the recoverer leaves a lease alone for 30 s after its end. Asynq is external;
it is modelled from version 0.25, which `go.mod` requires.

### What is abstracted

* The default cluster of a deploy is *some* active cluster, not the newest one.
* A retry may start at any time: back-off delays are not modelled, and any
  waiting task may be next, because the queues are weighted and not strict.
* A model's Deployment and Service are one object; node ports do not collide.
* Targets are listed in any order (the query orders by time of update), and the
  counter is kept modulo `RRPeriod`, a common multiple of the lengths a list can
  have: only remainders by these lengths are observed.
* The pool of reverse proxies is left out: whether a target already has one makes
  no difference to a request. So is the HTTP exchange with the target.
* In `WorkerProcess` a handler only returns, well or badly; what it does is in
  `ControlPlane`, where conversely a lost run takes no further step: one whose handler
  goes on can no longer write, which is what `OneLiveHandler` is for. SIGTSTP, which
  only Asynq handles, is left out.
* In `DefaultOrg` what happens to a cluster row that exists is left to
  `ClusterControl`; conversely `ClusterControl` identifies a cluster with its name,
  which `NamesAreUnique` justifies.
* All four task kinds have the same `MaxRetry`, as in the code (3 there).
* The Azure program, encryption, validation and error texts are not modelled.
  `ConstantsAssumption` and `WorkloadAssumption` say what the constants must be.

## 3. Runs

Run any of them with `tlc -config <run>.cfg <module>`.

| Run (module) | Workload and bounds | Checks |
|---|---|---|
| `Concurrent` (`MCControlPlane`) | 2 stacks with a provision each, a deploy that leaves the cluster to the server, its delete; any interleaving; one `io`, one `lost`; 1 retry; 2 worker slots | `TypeOK`, `AcceptedJobTracked`, `TaskHasRow`, `ControlInv` |
| `Serial` (`MCControlPlane`) | 2 provisions, destroy, deploy, delete of one stack, waiting client; 1 retry; 2 `ext`, 2 `lost`, one each of `restart` and `abort` | `ActiveIsBacked`, `DestroyedIsGone`, `DestroyIsCascaded`, `RoutedIsServed`, `SerialInv`, `ImplementsLifecycle` |
| `JobsSettle` (`MCControlPlane`) | 2 provisions and a destroy of one stack, a deploy that leaves the cluster to the server, any interleaving, one worker slot; 2 `ext`, 1 `restart` | `AcceptedJobTracked`, `TaskHasRow`, `AcceptedJobSettles` |
| `Routes` (`MCRoutedPlane`) | 2 VMs, a model on one of them, another of the same name then deployed to the other and deleted again; 2 proxy requests at a time, any number in all; `TTL` 2, one glitch, an `INCR` sent up to 4 times | `SteadyIsServed`, `OutrunIsInvalidated`, `TurnsRotate`, `RoutesConverge` |
| `ApiServer` (`MCApiServer`) | 2 provisions of one name, 1 listing, readiness probes; one failing store call, a signal and a failing listener at any point | `OrgInv`, `OneOrganization`, `NamesAreUnique`, `FailsForCause`, `CleanExitDrains`, `ReadyIsTrue`, `SignalledExits`, `ProbeIsAnswered` |
| `WorkerRestart` (`MCWorkerProcess`) | 2 tasks, 2 slots, 1 retry; 2 signals, 1 crash | `OneLiveHandler`, `OneShutdown`, `WorkerInv`, `TasksSettle`, `SignalledStops` |
| `MigrationsRace` (`MCMigrations`) | 3 processes, versions 1, 2, 2; one error, two restarts | `MigrationsTypeOK`, `RecordedRanOnce`, `ServingIsMigrated`, `SomeoneServes` |

Why these bounds. A request may stay unsent, so a workload covers all its
subsets. Two requests for the same stack are what a lost update or a task-ID
conflict takes; two addresses are what it takes to tell a VM from the one that
replaced it; one retry distinguishes a first attempt, a repeated one and an
archived task. Two lost runs in `Serial` are what it takes for a task to be archived
without any call having failed. The rows of different stacks interact only through the choice of
the default cluster and through the worker's slots, which `Concurrent` and
`JobsSettle` (one slot) cover. `JobsSettle` has what `Concurrent` has no room for: a
destroy beside the retry of a provision, one of the cluster that a deploy has just
chosen, and a second provision that resets the row under the retry of the first or
meets its archived task. Addresses are interchangeable, hence the symmetry
in `Concurrent` and `Serial`, which check invariants and, with `ImplementsLifecycle`,
a condition on single steps, but no liveness; no property of theirs tells addresses apart.

`Routes` starts where two stacks have been provisioned and the model runs on one:
a state `Serial`'s kind of client reaches, and the first in which there is
something to route. Two targets are what a rotation and a list that lost one of its
targets take; two requests are what it takes to cache an old list after a newer one or
after a `DEL`; two ticks let a key age without expiring. The control plane has no
faults of its own in this run, because the proxy sees only their effect on rows
and VMs, and `SteadyTargetsServe` is proved with all of them. Clients spell the name as it is
stored: with `Spellings = {"stored", "other"}` there are 2.4 million states instead of
one, in which TLC finds no violation of the three safety properties (the proofs cover every
spelling), and `RoutesConverge` takes too long to check. In `ApiServer` the
race for the organization takes two requests, and the listing is a third that has
nothing else to do. In `WorkerRestart` a task has at most two attempts, so one
handler that outlived its run can meet the next; a second task has its own slot beside
them, and what the tasks share is only the slots and the process. The second signal
falls into the shutdown that the first began, or into the next process.

What the conditions of the properties mean. `AcceptedJobTracked` and
`AcceptedJobSettles` speak of behaviours without failing store or queue calls:
the handlers ignore such failures of the job's own row, so nothing of the kind
holds with them. `AcceptedJobSettles` also excludes lost runs (a run lost in the
last attempt leaves its job running, as `HealthWaitTimeout` shows).
`ActiveIsBacked`, `DestroyedIsGone`, `DestroyIsCascaded`, `RoutedIsServed` and
the refinement hold for a waiting client; the violations below show what an
impatient one can bring about. `RoutedIsServed` speaks of behaviours without
failed Pulumi, SSH or Kubernetes calls, of clusters whose destruction Asynq did not
give up (`GivenUp`), and of deployments that share their name with no other on the
same cluster (`SharesName`). Each condition is needed: a destroy that fails half way,
or is lost before its cascade in every attempt, and is followed by a provision leaves
deployments active that point at the old VM, and deployments of one name share their objects.
`OutrunIsInvalidated` is about cached lists that were right when they were cached,
a waiting client, and no failed status write. `SteadyIsServed` has no such
conditions; it excuses only a request whose own probe or query failed, and one that
spells the name in another case than the row: such a request shares the cached list,
because `ModelTargetsKey` folds case, but finds nothing in the table.

Fairness. In `FairSpec` a request handler that is running takes its next step, and
so does a task handler: each is a goroutine whose calls return (every external
call has a timeout or a context). `StartTask` is weakly fair: the worker polls its
queues while a slot is free, and weights do not starve a queue. With one slot this
is only weak fairness of a step that other tasks disable, which is enough because
every workload is finite. `RoutedFairness` says that time passes (keys expire) and that a
proxy request goes on; new requests are not assumed. `ServerFairSpec` makes only
the process itself and its timers fair: 30 s of shutdown, and for a ping the 3 s of
its context (PostgreSQL) or the timeouts of the Redis client, which does not look at
contexts. Store calls and pings may hang. `WorkerFairSpec` assumes that the operator starts a
worker that has ended, that Asynq is done with each run in the end (its task has a
timeout), that a lease without heartbeat expires, and that signals and crashes are
finitely many; not that a handler that Asynq has given up on ever returns. In
`Migrations` a process that is starting goes on; starting it again is not fair.
Sending requests, signals and faults are never fair.

### Disagreements with the code's own statements

Each is a run that TLC refutes; `PROJECT.json` quotes the line.

| Run | Violated | What happens |
|---|---|---|
| `StrandedCluster` | `StillBeingProvisioned` | provision fails for good, its task is archived; the next provision resets the row, the enqueue conflicts with the archived task, the row stays `provisioning` and can be neither provisioned nor destroyed |
| `HealthWaitTimeout` | `GivenUpIsNotDeploying` | the branch for a timeout in the health loop writes with the dead context |
| `TerminalLeft` | `TerminalStaysTerminal` | a deploy that ends after a delete makes the deployment active again |
| `MigrationsChecks` | `ServingRanEveryFile` | two files have version 2; the CHECK constraints are never added |
| `WorkerExit` | `ExitIsGraceful` | SIGTERM reaches Asynq's own handler first; the worker's `Shutdown` then returns at once, `Run` returns, and the process ends while Asynq still waits for the running tasks |

What else the modelling showed, without a statement in the repository to hold it
against:

* Between two attempts of a provision the cluster is `failed`, so a destroy is
  accepted beside the retry (`provision.go:168`). This is why the properties of
  `Serial` need a client that waits.
* An error of the lookup is taken for a stack without a cluster (`provision.go:166`).
  If the client of a destroy goes away just then, its task is enqueued untracked: it takes
  the VM down and no row says so. This is one reason why `Patient` needs a store
  that answers, and a client that waits for its answer.
* A handler can run beside the next attempt at its task for the minutes that
  `fetchKubeconfigWithRetry` sleeps (`server.go:148`). It reads from the VM only, and its
  writes fail with its context: `OneLiveHandler`.
* Two deployments of one name on one cluster share their Kubernetes objects, and
  deleting one takes both down (`vllm.go:145`), hence `SharesName` in `RoutedIsServed`.
* A destroy whose run is lost between the update of the cluster and the cascade
  (`server.go:333`) in each of its attempts ends archived, with the row `destroyed`
  and the deployments still `active`. The next provision makes the cluster active, and the
  proxy routes to deployments of a VM that is gone. The attempt to prove
  `RoutedIsServed` showed this, hence `GivenUp` in it.
* A delete request is answered with a job ID for which no row is ever written, so
  that `AcceptedJobSettles` says nothing of it and the poll answers 404.
* A deploy in flight writes its deployment after the cascade of a destroy, by the
  order of steps that `TerminalLeft` shows for a delete.
* The destroy handler never deletes the routing keys; a `deleting` write that fails
  leaves no later `DEL` either. The TTL and the probes make up for both.
* A list computed before a status change may be cached after the `DEL`
  (`proxy.go:262`). `RoutesConverge` shows that the TTL bounds its life and
  `SteadyIsServed` that no request is refused for it.

## 4. Proofs

`tlapm ControlPlaneProofs.tla` (and the other six modules) check:

| Module | Theorems | What they state |
|---|---|---|
| `ControlPlaneProofs` | `ControlInvariant`, `TypeCorrect`, `TasksHaveRows`, `AcceptedJobsTracked` | `ControlInv`, `TypeOK`, `TaskHasRow`, `AcceptedJobTracked`, with and without waiting clients |
| `SerialProofs` | `SerialInvariant`, `ActiveClustersBacked`, `DestroyedClustersGone`, `DestroysCascade`, `RoutedDeploymentsServed` | under `Patient`: `SerialInv`, `ActiveIsBacked`, `DestroyedIsGone`, `DestroyIsCascaded`, `RoutedIsServed` |
| | `RefinesLifecycle` | under `Patient`: `Spec => ImplementsLifecycle`, the refinement |
| `ClusterLifecycleProofs` | `LifecyclePromise` | `LifecycleSpec => []StatusTellsVM` |
| `RoutedProofs` | `PlaneUndisturbed` | `RoutedSpec => Spec`: all of the above holds beside the proxy too |
| | `SteadyTargetsServe`, `TargetsTakeTurns` | `SteadyIsServed`, `TurnsRotate`, for any client and any faults |
| | `OutrunListsInvalidated` | under `Patient` and `NoDestroys`: `OutrunIsInvalidated` |
| `ApiServerProofs` | `OrgInvariance`, `OneDefaultOrganization`, `ClustersAreNamed`, `FailuresHaveCause` | `OrgInv`, `OneOrganization`, `NamesAreUnique`, `FailsForCause` |
| | `ServerEndsWell`, `ReadinessIsTrue` | `CleanExitDrains`, `ReadyIsTrue` |
| `WorkerProofs` | `WorkerInvariance`, `OneHandlerIsLive`, `ShutdownOnce` | `WorkerInv`, `OneLiveHandler`, `OneShutdown` |
| `MigrationsProofs` | `MigrationsWellTyped`, `NothingRunsTwice`, `ServersAreMigrated` | `MigrationsTypeOK`, `RecordedRanOnce`, `ServingIsMigrated` |

They hold for every workload and any number of stacks, addresses, models, names, requests,
retries, worker slots, faults, tasks, signals, crashes, files and processes.

### The control plane, any client

`ControlInv` is `TypeOK /\ QueueInv /\ RowInv /\ ReturnInv /\ AcceptedJobTracked`,
and no part is inductive alone:

* `QueueInv` ties the three places a task lives in together: Redis, the worker
  and the request it came from. The request of a task in Redis is past its
  enqueue, hence no request that is still in its handler has a task, and no two
  tasks have the same job.
* `RowInv` says a request that is past the step that writes its rows has them,
  and keeps them: no statement deletes a row. `TaskHasRow` is `RowInv` for the
  request of a live task, found through `QueueInv`.
* `TypeOK` needs both: `Connect` copies the address of the row of the task's
  cluster, which has a type only if there is such a row.
* `ReturnInv` says a run about to return has settled its job. Without it,
  `ReturnNil` could drop the task of an unsettled job, and `AcceptedJobTracked`
  would not survive.

The proof reduces the twenty-eight steps of requests and handlers to two
shapes: `WorkStep` (a worker step that writes rows and moves a run on) and
`RequestStep` (an API step that moves one request on), each shown to preserve
`ControlInv` once; the queue's own steps are proved one by one.

### The control plane, a patient client

`Patient` is `ClientWaits /\ FaultBudget["io"] = 0`: a client sends a request only
when nothing is under way for its stack and waits for the answer, and the store answers. Pulumi, SSH and
Kubernetes calls may fail, runs may be lost, pushed back and retried, and the API server may die
within a request, any number of times. The hypothesis is about constants and is
that of the run `Serial`; without its first half the properties are false
(`TerminalLeft`, and the destroy beside a retry), and a failed status write leaves a row
that does not tell what happened.

`SerialInv` is `StackInv /\ CascadeInv /\ ServedInv`:

* `StackInv` starts with `OneAtATime`: two requests that are in their handler or have
  a live task touch different stacks. Only for this reason can `RequestFits`,
  `ProvisionFits` and `DestroyFits` say, for each program counter, which status the row
  has and whether the VM in the handler's variable is the stack's; and `VMFits`
  follows the VM of a row from step to step. `ActiveIsBacked` and `DestroyedIsGone`
  are instances of `VMFits`, but each is broken by the first retry without the
  other parts: that a provision run finds its row `installing`, say.
* `CascadeInv`: a destroyed stack has no running deployment, or a destroy task that is
  not done with it. The disjunct carries the cascade over a lost run and its retry.
* `ServedInv` adds what the runs of the model handlers know (the address they use is
  that of the row; a run about to save `active` has its objects), that no two stacks have
  one VM, that without failed calls no cluster is `failed`, and `NoneLeftBehind`: a
  provision under way finds no active deployment on its stack, unless the destroy
  was given up.

The proof splits a step by the stack it is for. `Alone(a)` says that the request `a`
has its stacks to itself, which `OneAtATime` gives for the one that takes a
step; `Elsewhere(a)` says that the step left alone all that belongs to others. From
these two, lemmas show once that whatever the invariant says of other requests, tasks
and stacks stays true, so that each action is left with what it says of its own.

`RefinesLifecycle` maps each step to one of `ClusterLifecycle`, using `SerialInv` for its
guard:

| Control plane | Lifecycle |
|---|---|
| `CreateClusterRow`, `ResetClusterRow` | `Claim` |
| `SetInstalling` | `Install` |
| `ProvisionCluster`, `DestroyCluster` | `ChangeVM`, or nothing |
| `SaveActive` | `Activate` |
| `MarkClusterFailed` | `Abandon` |
| `SetDestroying` | `Retire` |
| `SaveDestroyed` | `Release` |
| every other step | nothing |

### The proxy

`SteadyIsServed` follows from `SteadyInv` of `RoutedProofs`: every target that has
been routable since a request arrived is in what that request has found healthy or
has still to probe, once it has its list from the table; and a
request that goes by a cached list cannot be refused before it has asked the table.
The proof looks at the control plane only through `PlaneUndisturbed`: whatever a
step of it does to rows and VMs, `steady` is cut down accordingly. Hence it needs
no invariant of the control plane but the types.

`OutrunIsInvalidated` says that a run for the model is under way; that is not
inductive, since a run may have done its `DEL` already. `OutrunInv` says that the run
still has a `DEL` before it: it is in `owed`, or it is a deploy run at a step from which
every way leads to one (`BeforeInvalidation`). `SerialInv` gives that the run
which changed a status is the only one at work on that stack; `NoDestroys` is needed because the destroy
handler never deletes the keys.

`TurnsRotate` follows from `TurnInv`: the counter of a name is below `RRPeriod`, and
modulo the length of the list it points at the target after the last choice, unless the
counter was deleted or an `INCR` failed since: then it may have gone on without a
choice, and the turn is forgotten. Consecutive choices differ by one modulo the length,
over the wrap of the counter too, because every length divides `RRPeriod`; three
lemmas on remainders (`RemainderIsUnique`, `NextRemainder`, `CounterTurns`) carry this.

### Organizations, processes, migrations

`OrgInv` adds to `OneOrganization` and `NamesAreUnique` that there is at most one
organization, that every cluster row belongs to it, and that a request that is
past `ensureDefaultOrganization` holds one. Then `UNIQUE (org_id, name)` is uniqueness of
the name, though the lookup by name may fail. `CauseInv` keeps, for
`FailsForCause`, why a request is where it is: as long as no call has failed, a second lookup finds
an organization, and a request that lists never comes to a cluster row. `LifeInv` says
that nothing is cut off while the server is up and that the probe has received only
results of pings that ended.

`WorkerInv` ties the places of `main` and of the goroutine to the state of the Asynq
server: `Shutdown` closes it under its lock before it drains, so of two drains the
second would have found it closed. `OneLiveHandler` is not inductive: it needs that a
handler with a live context is the one of the present attempt at a task that Asynq attends
to, so that no task with such a handler is waiting or has its lease recovered. This holds until the
processor has stopped; from then on the shutdown timeout breaks it, but then nothing is
dequeued either.
`Migrations` needs `Progress`: a process has passed only files whose version is
recorded.

### Assumptions, and what is only model-checked

Assumptions: `ConstantsAssumption`, `WorkloadAssumption`, `DiscoveryAssumption`,
`OrgAssumption`, `WorkerAssumption`, `MigrationsAssumption`; TLC evaluates each in
the runs.

Every invariant and action property of the passing runs, and the refinement, is
proved. Only model-checked is liveness (`AcceptedJobSettles`, `RoutesConverge`,
`SignalledExits`, `ProbeIsAnswered`, `TasksSettle`, `SignalledStops`,
`SomeoneServes`), which the prover does not reach.

## 5. Plan

1. (done) Core: the control plane and migrations, with their theorems.
2. (done) The proxy and the routing cache, the default organization, the server and
   worker processes, with the theorems above.
3. (done) Proofs for a patient client (`SerialInv` and what follows from it), the
   refinement of `ClusterLifecycle`, `OutrunIsInvalidated` and `TurnsRotate`.
4. Proofs: what `SerialInv` says beside the proxy (a target that is routed to answers), and
   action properties of the rows for any client.

Not modelled:

* A model's Deployment and Service as two objects, and node ports: `DeployModel`
  creates each if it is missing and an error between the two is retried from the
  start, so they differ only within an attempt or after the last one failed, when
  the deployment is `failed` and not routed to; a collision of node
  ports is a failed call (`ext`) to the rest of the system.
* The Azure program (`infra/azure`): declarative wiring of resources without state
  of its own; what an `up` or a `destroy` leaves behind is in `ClusterControl`.
* Configuration, request validation, error formatting, AES-GCM: pure functions.
* SSH and HTTP sessions: pure I/O.
