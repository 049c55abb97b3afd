----------------------------- MODULE JobControl -----------------------------
(***************************************************************************)
(* What every request and every task goes through whatever it is for: the  *)
(* job row, the enqueueing of the task, the dispatch of the task by Asynq, *)
(* and the end of its run: success, error, timeout, crash, restart.        *)
(***************************************************************************)
EXTENDS ControlState

-----------------------------------------------------------------------------
(* API server *)

(***************************************************************************)
(* CreateJobRecord only logs an error of the store.  A destroy request for *)
(* a stack without a row passes a pointer to an empty cluster ID, which is *)
(* no UUID: this INSERT always fails.                                      *)
(***************************************************************************)
CreateJobRecord(r) ==
    /\ reqs[r].pc = "record"
    /\ Answer(r, "enqueue")
    /\ \/ reqs[r].cluster # NoStack /\ CreateJob(r) /\ NoFault
       \/ reqs[r].cluster = NoStack /\ UNCHANGED jobs /\ NoFault
       \/ Fault("io") /\ UNCHANGED jobs
    /\ UNCHANGED <<clusters, deployments, tasks, runs, infra, kube>>

\* A conflict is taken for a task that is already on its way.
EnqueueIgnoringConflict(r) ==
    LET t == TaskOf(r)
    IN
    /\ reqs[r].pc = "enqueue"
    /\ tasks' = IF tasks[t].state = "none"
                THEN [tasks EXCEPT ![t] = [state |-> "waiting", job |-> r, retried |-> 0]]
                ELSE tasks
    /\ Answer(r, "accepted") /\ NoFault
    /\ UNCHANGED <<clusters, deployments, jobs, runs, infra, kube>>

(***************************************************************************)
(* asynq.Client.Enqueue with a TaskID: a conflict with a task that Redis   *)
(* holds in any state, the archived ones included, is an error, and so is  *)
(* a failure of Redis, after which the task may be there all the same.     *)
(* Both are answered with a 500; what the handler wrote before stays.      *)
(***************************************************************************)
Enqueue(r) ==
    LET t == TaskOf(r)
        task == [state |-> "waiting", job |-> r, retried |-> 0]
    IN
    /\ reqs[r].pc = "enqueue"
    /\ \/ /\ tasks[t].state = "none"
          /\ tasks' = [tasks EXCEPT ![t] = task]
          /\ \/ Answer(r, "accepted") /\ NoFault
             \/ Answer(r, "error") /\ Fault("io")
       \/ /\ tasks[t].state # "none"
          /\ Answer(r, "error") /\ NoFault
          /\ UNCHANGED tasks
       \/ /\ Answer(r, "error") /\ Fault("io")
          /\ UNCHANGED tasks
    /\ UNCHANGED <<clusters, deployments, jobs, runs, infra, kube>>

\* The API server dies between two steps of the request.
ServerDies(r) ==
    /\ reqs[r].pc \in InFlight
    /\ Answer(r, "aborted")
    /\ Fault("abort")
    /\ UNCHANGED <<clusters, deployments, jobs, tasks, runs, infra, kube>>

-----------------------------------------------------------------------------
(* Worker: dispatch *)

FirstStep(kind) == CASE kind = "provision" -> "installing"
                     [] kind = "destroy"   -> "running"
                     [] kind = "deploy"    -> "building"
                     [] kind = "delete"    -> "deleting"

(***************************************************************************)
(* The queues are weighted, not strict, so any waiting task may be next.   *)
(* A retry is a waiting task: when its delay is over is not modelled.      *)
(***************************************************************************)
StartTask(t) ==
    /\ tasks[t].state = "waiting"
    /\ Cardinality({u \in TaskIds : tasks[u].state = "active"}) < Concurrency
    /\ tasks' = [tasks EXCEPT ![t].state = "active"]
    /\ runs' = [runs EXCEPT ![t] = [pc |-> FirstStep(t.kind), ip |-> NoIP]]
    /\ NoFault
    /\ UNCHANGED <<clusters, deployments, jobs, reqs, infra, kube>>

-----------------------------------------------------------------------------
(* Worker: the job row.  The handlers ignore the errors of these writes.   *)

TryUpdateJobStatus(t, st) ==
    \/ UpdateJobStatus(tasks[t].job, st) /\ NoFault
    \/ Fault("io") /\ UNCHANGED jobs

AfterRunning(kind) == CASE kind = "provision" -> "up"
                        [] kind = "destroy"   -> "destroying"
                        [] kind = "deploy"    -> "connect"
                        [] kind = "delete"    -> "connect"

JobRunning(t) ==
    /\ runs[t].pc = "running"
    /\ TryUpdateJobStatus(t, "running")
    /\ Goto(t, AfterRunning(t.kind))
    /\ UNCHANGED <<clusters, deployments, tasks, reqs, infra, kube>>

CompleteJob(t) ==
    /\ runs[t].pc = "complete"
    /\ TryUpdateJobStatus(t, "completed")
    /\ Goto(t, "ok")
    /\ UNCHANGED <<clusters, deployments, tasks, reqs, infra, kube>>

\* failJob is forgotten.
SkipFailJob(t) ==
    /\ runs[t].pc = "failJob"
    /\ Goto(t, "err") /\ NoFault
    /\ UNCHANGED <<clusters, deployments, jobs, tasks, reqs, infra, kube>>

FailJob(t) ==
    /\ runs[t].pc = "failJob"
    /\ TryUpdateJobStatus(t, "failed")
    /\ Goto(t, "err")
    /\ UNCHANGED <<clusters, deployments, tasks, reqs, infra, kube>>

-----------------------------------------------------------------------------
(* Worker: how Asynq ends a run (external)                                 *)

EndRun(t, task) ==
    /\ tasks' = [tasks EXCEPT ![t] = task]
    /\ runs' = [runs EXCEPT ![t] = NoRun]
    /\ UNCHANGED <<clusters, deployments, jobs, reqs, infra, kube>>

\* Failed tasks are retried for ever.
RetryForever(t) == [state |-> "waiting", job |-> tasks[t].job,
                    retried |-> tasks[t].retried + 1]

RetryOrArchive(t) ==
    IF tasks[t].retried < MaxRetry
    THEN [state |-> "waiting", job |-> tasks[t].job,
          retried |-> tasks[t].retried + 1]
    ELSE [tasks[t] EXCEPT !.state = "archived"]

\* The handler returned nil: the task is deleted.
ReturnNil(t) == runs[t].pc = "ok" /\ NoFault /\ EndRun(t, NoTask)

\* The handler returned an error: the task is retried, or archived.
ReturnErr(t) == runs[t].pc = "err" /\ NoFault /\ EndRun(t, RetryOrArchive(t))

\* Nothing brings the task of a lost run back.
RunForgotten(t) == runs[t].pc # "idle" /\ Fault("lost") /\ EndRun(t, NoTask)

(***************************************************************************)
(* The timeout or the lease of the task expires or the worker crashes.  No *)
(* later write of this run reaches the store: its context is dead or its   *)
(* process is gone (a handler may go on beside the next attempt, but only  *)
(* one of them can write: OneLiveHandler of WorkerProcess).  That includes *)
(* the writes of the ctx.Done() branch of the deploy handler's health      *)
(* loop, which use the dead context.                                       *)
(***************************************************************************)
RunLost(t) == runs[t].pc # "idle" /\ Fault("lost") /\ EndRun(t, RetryOrArchive(t))

\* The tasks that the shutdown interrupts are dropped.
RunDropped(t) ==
    /\ runs[t].pc # "idle"
    /\ Fault("restart")
    /\ EndRun(t, NoTask)

(***************************************************************************)
(* Server.Run shuts Asynq down when its context is done: a run that is not *)
(* over when the shutdown timeout ends is pushed back to its queue.        *)
(***************************************************************************)
RunRequeued(t) ==
    /\ runs[t].pc # "idle"
    /\ Fault("restart")
    /\ EndRun(t, [tasks[t] EXCEPT !.state = "waiting"])

-----------------------------------------------------------------------------
JobNext ==
    \/ \E r \in Requests : CreateJobRecord(r) \/ Enqueue(r) \/ ServerDies(r)
    \/ \E t \in TaskIds : \/ StartTask(t) \/ JobRunning(t)
                          \/ CompleteJob(t) \/ FailJob(t)
                          \/ ReturnNil(t) \/ ReturnErr(t)
                          \/ RunLost(t) \/ RunRequeued(t)
=============================================================================
