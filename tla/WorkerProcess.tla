--------------------------- MODULE WorkerProcess ---------------------------
(***************************************************************************)
(* The life of the worker process (cmd/worker/main.go, Server.Run of       *)
(* internal/worker) around the Asynq server that it runs.  What the runs   *)
(* of the tasks do is the subject of ControlPlane; here a run only ends.   *)
(*                                                                         *)
(*   queue    the tasks in Redis: state, retries, and whether the lease of *)
(*            an active task is extended by the process that runs it       *)
(*   proc     where main is; it has signal.NotifyContext from "select" on  *)
(*   bg       where the goroutine that calls asynq.Server.Run is           *)
(*   srv      the state of the Asynq server, changed under its lock        *)
(*   ctxDone  the context of NotifyContext is done                         *)
(*   sigs     a signal waits in the channel of asynq's waitForSignals      *)
(*   runs     the tasks whose run Asynq attends to: each takes one slot    *)
(*   handlers the handler goroutines: their task, the attempt at it, and   *)
(*            whether their context is live.  Asynq cannot stop one: when  *)
(*            it gives up on a run it cancels the context and the handler  *)
(*            goes on until it looks (fetchKubeconfigWithRetry never does) *)
(*   budget   how many more signals and crashes may come                   *)
(*                                                                         *)
(* asynq (external) is modelled from its version 0.25: Run is Start, then  *)
(* waitForSignals, then Shutdown; Shutdown does nothing if the server is   *)
(* new or closed, and otherwise waits for the runs until its timeout.  It  *)
(* marks the server closed first ("closing") and stops the processor,      *)
(* which takes tasks until then, a little later ("closed").                *)
(***************************************************************************)
EXTENDS Naturals, FiniteSets

CONSTANTS Tasks, Concurrency, MaxRetry, MaxSignals, MaxCrashes

ASSUME WorkerAssumption ==
    /\ Concurrency \in Nat \ {0}   \* parseConcurrency and NewServer
    /\ MaxRetry \in Nat /\ MaxSignals \in Nat /\ MaxCrashes \in Nat

VARIABLES queue, proc, bg, srv, ctxDone, sigs, runs, handlers, budget

workerVars == <<queue, proc, bg, srv, ctxDone, sigs, runs, handlers, budget>>

Settled == {"none", "archived"}

Absent == [state |-> "none", retried |-> 0, lease |-> "free"]

Waiting == [state |-> "waiting", retried |-> 0, lease |-> "free"]

WorkerInit ==
    /\ queue = [t \in Tasks |-> Waiting]
    /\ proc = "down" /\ bg = "none" /\ srv = "new"
    /\ ctxDone = FALSE /\ sigs = FALSE /\ runs = {} /\ handlers = {}
    /\ budget = [signal |-> MaxSignals, crash |-> MaxCrashes]

\* The process ends; what it was running stays active in Redis.
Gone ==
    /\ proc' = "down" /\ bg' = "none" /\ srv' = "new"
    /\ ctxDone' = FALSE /\ sigs' = FALSE /\ runs' = {} /\ handlers' = {}
    /\ UNCHANGED queue

-----------------------------------------------------------------------------
(* cmd/worker/main.go and Server.Run *)

StartProcess ==
    /\ proc = "down" /\ proc' = "boot"
    /\ UNCHANGED <<queue, bg, srv, ctxDone, sigs, runs, handlers, budget>>

\* The store is connected, the signals are registered, and Run starts the
\* goroutine of Asynq.
Boot ==
    /\ proc = "boot" /\ proc' = "select" /\ bg' = "start"
    /\ UNCHANGED <<queue, srv, ctxDone, sigs, runs, handlers, budget>>

\* NewPostgresStore or NewCipher fails.
BootFails ==
    /\ proc = "boot" /\ budget.crash > 0
    /\ Gone
    /\ budget' = [budget EXCEPT !.crash = @ - 1]

\* Shutdown marks the server closed; Stop may have stopped its processor.
Closing == IF srv = "stopped" THEN "closed" ELSE "closing"

\* Shutdown is called without a look at the state of the server.
ShutdownAgain ==
    /\ proc = "select" /\ ctxDone
    /\ srv' = "closing" /\ proc' = "drain"
    /\ UNCHANGED <<queue, bg, ctxDone, sigs, runs, handlers, budget>>

\* select, case ctx.Done(): Shutdown drains, or returns at once.
MainShutdown ==
    /\ proc = "select" /\ ctxDone
    /\ IF srv \in {"new", "closing", "closed"}
       THEN proc' = "return" /\ UNCHANGED srv
       ELSE proc' = "drain" /\ srv' = Closing
    /\ UNCHANGED <<queue, bg, ctxDone, sigs, runs, handlers, budget>>

\* The processor has its slots back, and Shutdown returns.
Drained == srv = "closed" /\ runs = {}

\* After Shutdown, Run waits for the goroutine as well.
DrainThenWait ==
    /\ proc = "drain" /\ Drained
    /\ proc' = IF bg = "done" THEN "return" ELSE "drain"
    /\ UNCHANGED <<queue, bg, srv, ctxDone, sigs, runs, handlers, budget>>

MainDrained ==
    /\ proc = "drain" /\ Drained
    /\ proc' = "return"
    /\ UNCHANGED <<queue, bg, srv, ctxDone, sigs, runs, handlers, budget>>

\* select, case <-errCh: asynq.Server.Run has returned nil.
MainReceives ==
    /\ proc = "select" /\ bg = "done"
    /\ proc' = "return"
    /\ UNCHANGED <<queue, bg, srv, ctxDone, sigs, runs, handlers, budget>>

\* Run returns, its deferred Close and those of main follow, main returns.
Exit == proc = "return" /\ Gone /\ UNCHANGED budget

-----------------------------------------------------------------------------
(* The goroutine of asynq.Server.Run (external) *)

AsynqStart ==
    /\ bg = "start" /\ bg' = "started" /\ srv' = "active"
    /\ UNCHANGED <<queue, proc, ctxDone, sigs, runs, handlers, budget>>

AsynqNotify ==
    /\ bg = "started" /\ bg' = "wait"
    /\ UNCHANGED <<queue, proc, srv, ctxDone, sigs, runs, handlers, budget>>

\* waitForSignals stops the processor before it returns.
AsynqStop ==
    /\ bg = "wait" /\ sigs
    /\ bg' = "stop" /\ sigs' = FALSE
    /\ srv' = IF srv = "active" THEN "stopped" ELSE srv
    /\ UNCHANGED <<queue, proc, ctxDone, runs, handlers, budget>>

AsynqShutdown ==
    /\ bg = "stop"
    /\ IF srv \in {"closing", "closed"}
       THEN bg' = "done" /\ UNCHANGED srv
       ELSE bg' = "drain" /\ srv' = Closing
    /\ UNCHANGED <<queue, proc, ctxDone, sigs, runs, handlers, budget>>

AsynqDrained ==
    /\ bg = "drain" /\ Drained
    /\ bg' = "done"
    /\ UNCHANGED <<queue, proc, srv, ctxDone, sigs, runs, handlers, budget>>

\* Shutdown stops the processor.
ProcessorStops ==
    /\ srv = "closing" /\ srv' = "closed"
    /\ UNCHANGED <<queue, proc, bg, ctxDone, sigs, runs, handlers, budget>>

-----------------------------------------------------------------------------
(* Tasks (external) *)

ServerVars == <<proc, bg, srv, ctxDone, sigs, budget>>

\* A handler of the present attempt at the task.
Handler(t, live) == [task |-> t, attempt |-> queue[t].retried, live |-> live]

\* The context of a handler is done from now on.
Cancelled(h) == (handlers \ {h}) \cup {[h EXCEPT !.live = FALSE]}

Dequeue(t) ==
    /\ srv \in {"active", "closing"} /\ Cardinality(runs) < Concurrency
    /\ queue[t].state = "waiting"
    /\ queue' = [queue EXCEPT ![t].state = "active", ![t].lease = "held"]
    /\ runs' = runs \cup {t}
    /\ handlers' = handlers \cup {Handler(t, TRUE)}
    /\ UNCHANGED ServerVars

\* The task has no MaxRetry.
RetryForever(t) == [Waiting EXCEPT !.retried = queue[t].retried]

RetryOrArchive(t) ==
    IF queue[t].retried < MaxRetry
    THEN [Waiting EXCEPT !.retried = queue[t].retried + 1]
    ELSE [queue[t] EXCEPT !.state = "archived", !.lease = "free"]

\* The handler returns while Asynq waits for it.
RunEnds(t) ==
    /\ t \in runs /\ runs' = runs \ {t}
    /\ handlers' = handlers \ {Handler(t, TRUE), Handler(t, FALSE)}
    /\ \E after \in {Absent, RetryOrArchive(t)} : queue' = [queue EXCEPT ![t] = after]
    /\ UNCHANGED ServerVars

\* The timeout of the task is over: the context of its handler is done.
Deadline(t) ==
    /\ t \in runs /\ Handler(t, TRUE) \in handlers
    /\ handlers' = Cancelled(Handler(t, TRUE))
    /\ UNCHANGED <<queue, runs, ServerVars>>

\* The processor sees that, and the task fails without its handler.
GiveUp(t) ==
    /\ t \in runs /\ Handler(t, TRUE) \notin handlers
    /\ runs' = runs \ {t}
    /\ queue' = [queue EXCEPT ![t] = RetryOrArchive(t)]
    /\ UNCHANGED <<handlers, ServerVars>>

\* The handler is told nothing of the loss of its lease.
LeaseLostUntold(t) ==
    /\ t \in runs /\ runs' = runs \ {t}
    /\ UNCHANGED <<queue, handlers, ServerVars>>

(***************************************************************************)
(* The heartbeater could not extend the lease, because Redis did not       *)
(* answer, and tells the processor, which cancels the context, frees the   *)
(* slot and leaves the task in Redis to the recoverer.                     *)
(***************************************************************************)
LeaseLost(t) ==
    /\ t \in runs /\ runs' = runs \ {t}
    /\ handlers' = IF Handler(t, TRUE) \in handlers
                   THEN Cancelled(Handler(t, TRUE)) ELSE handlers
    /\ UNCHANGED <<queue, ServerVars>>

(***************************************************************************)
(* The shutdown timeout is over: the processor pushes a run back and only  *)
(* then, on its return, cancels the context (DeferredCancel).              *)
(***************************************************************************)
ShutdownTimeout(t) ==
    /\ "drain" \in {proc, bg} /\ srv = "closed" /\ t \in runs
    /\ queue' = [queue EXCEPT ![t].state = "waiting", ![t].lease = "free"]
    /\ runs' = runs \ {t}
    /\ UNCHANGED <<handlers, ServerVars>>

DeferredCancel(h) ==
    /\ h.live /\ h.task \notin runs
    /\ handlers' = Cancelled(h)
    /\ UNCHANGED <<queue, runs, ServerVars>>

\* A handler that Asynq has given up on returns, and nobody waits for it.
StrayReturns(h) ==
    /\ ~ (h.task \in runs /\ h.attempt = queue[h.task].retried)
    /\ handlers' = handlers \ {h}
    /\ UNCHANGED <<queue, runs, ServerVars>>

(***************************************************************************)
(* The lease of a task that nobody attends to is over: its process is      *)
(* gone, or has lost it.  The recoverer leaves a lease alone until it has  *)
(* been over for 30 s, by when the heartbeater, which looks every 5 s, has *)
(* told a process that lives.                                              *)
(***************************************************************************)
LeaseExpires(t) ==
    /\ queue[t].lease = "held" /\ t \notin runs
    /\ queue' = [queue EXCEPT ![t].lease = "expired"]
    /\ UNCHANGED <<runs, handlers, ServerVars>>

\* The recoverer takes the loss of a run for a failure of it; Shutdown ends
\* it after the processor.
Recover(t) ==
    /\ srv \in {"active", "stopped"} \/ "drain" \in {proc, bg}
    /\ queue[t].lease = "expired"
    /\ queue' = [queue EXCEPT ![t] = RetryOrArchive(t)]
    /\ UNCHANGED <<runs, handlers, ServerVars>>

-----------------------------------------------------------------------------
(* Environment *)

\* SIGTERM or SIGINT: it reaches every channel that is registered by then,
\* and ends a process that has registered none.
Signal ==
    /\ budget.signal > 0
    /\ budget' = [budget EXCEPT !.signal = @ - 1]
    /\ \/ proc = "boot" /\ Gone
       \/ /\ proc \notin {"down", "boot"}
          /\ ctxDone' = TRUE
          /\ sigs' = (sigs \/ bg = "wait")
          /\ UNCHANGED <<queue, proc, bg, srv, runs, handlers>>

Crash ==
    /\ proc # "down" /\ budget.crash > 0
    /\ budget' = [budget EXCEPT !.crash = @ - 1]
    /\ Gone

ProcessStep ==
    \/ StartProcess \/ Boot \/ MainShutdown \/ MainDrained \/ MainReceives \/ Exit
    \/ AsynqStart \/ AsynqNotify \/ AsynqStop \/ AsynqShutdown \/ AsynqDrained
    \/ ProcessorStops

TaskStep(t) == \/ Dequeue(t) \/ RunEnds(t) \/ Deadline(t) \/ GiveUp(t)
               \/ LeaseLost(t) \/ LeaseExpires(t) \/ Recover(t) \/ ShutdownTimeout(t)

StrayStep == \E h \in handlers : DeferredCancel(h) \/ StrayReturns(h)

\* Every task is settled: an idle worker waits for more.
Idle == (\A t \in Tasks : queue[t].state \in Settled) /\ UNCHANGED workerVars

WorkerNext ==
    \/ ProcessStep \/ BootFails \/ StrayStep \/ Signal \/ Crash \/ Idle
    \/ \E t \in Tasks : TaskStep(t)

WorkerSpec == WorkerInit /\ [][WorkerNext]_workerVars

(***************************************************************************)
(* The operator starts the worker again when it has ended; the process     *)
(* goes on when it can; each goroutine, task, timer and lease gets its     *)
(* turn; signals and crashes are finitely many.  A handler that Asynq has  *)
(* given up on need never return.                                          *)
(***************************************************************************)
WorkerFairSpec ==
    /\ WorkerSpec
    /\ WF_workerVars(StartProcess) /\ WF_workerVars(Boot) /\ WF_workerVars(Exit)
    /\ WF_workerVars(MainShutdown \/ MainReceives) /\ WF_workerVars(MainDrained)
    /\ WF_workerVars(AsynqStart \/ AsynqNotify \/ AsynqStop
                       \/ AsynqShutdown \/ AsynqDrained)
    /\ WF_workerVars(ProcessorStops)
    /\ \A t \in Tasks : WF_workerVars(TaskStep(t))

-----------------------------------------------------------------------------
(* Properties *)

\* Every variable has its type.
WorkerTypeOK ==
    /\ queue \in [Tasks -> [state : {"none", "waiting", "active", "archived"},
                            retried : 0 .. MaxRetry,
                            lease : {"free", "held", "expired"}]]
    /\ proc \in {"down", "boot", "select", "drain", "return"}
    /\ bg \in {"none", "start", "started", "wait", "stop", "drain", "done"}
    /\ srv \in {"new", "active", "stopped", "closing", "closed"}
    /\ ctxDone \in BOOLEAN /\ sigs \in BOOLEAN
    /\ runs \subseteq Tasks
    /\ handlers \subseteq [task : Tasks, attempt : 0 .. MaxRetry, live : BOOLEAN]
    /\ budget \in [signal : 0 .. MaxSignals, crash : 0 .. MaxCrashes]

(***************************************************************************)
(* A task may be run again while an earlier handler of it still goes on    *)
(* (server.go:148 sleeps for minutes and looks at no context), after a     *)
(* timeout, a lost lease or a shutdown timeout.  But of the handlers of a  *)
(* task at most one has a live context: the others can no longer write to  *)
(* the store, which is what RunLost of JobControl takes for granted.       *)
(***************************************************************************)
OneLiveHandler ==
    \A g, h \in handlers : g.task = h.task /\ g.live /\ h.live => g = h

(***************************************************************************)
(* A SIGTERM reaches Server.Run and the Asynq server it runs, and both     *)
(* call Shutdown (server.go:84): at most one of the two calls drains.      *)
(***************************************************************************)
OneShutdown == ~(proc = "drain" /\ bg = "drain")

(***************************************************************************)
(* What makes them inductive: where main and the goroutine are agrees with *)
(* the state of the Asynq server; a lease is held by an active task, and   *)
(* by each one that is attended to; and until the processor has stopped, a *)
(* handler with a live context is the one that is attended to.             *)
(***************************************************************************)
WorkerInv ==
    /\ WorkerTypeOK
    /\ proc \in {"down", "boot"} <=> bg = "none"
    /\ bg \in {"none", "start"} <=> srv = "new"
    /\ "drain" \in {proc, bg} => srv \in {"closing", "closed"}
    /\ OneShutdown
    /\ srv = "new" => runs = {} /\ handlers = {}
    /\ \A t \in Tasks : queue[t].state = "active" <=> queue[t].lease # "free"
    /\ \A t \in runs : queue[t].state = "active" /\ queue[t].lease = "held"
    /\ OneLiveHandler
    /\ srv # "closed" =>
          \A h \in handlers :
              h.live => h.task \in runs /\ h.attempt = queue[h.task].retried

(***************************************************************************)
(* Every task is done or archived in the end, also one whose run was cut   *)
(* off by an exit, a crash or a shutdown timeout.                          *)
(***************************************************************************)
TasksSettle == \A t \in Tasks : queue[t].state = "waiting" ~> queue[t].state \in Settled

(***************************************************************************)
(* A worker that was signalled ends, whatever it was doing: before Asynq   *)
(* listens for signals itself, while tasks run, while the goroutine drains.*)
(***************************************************************************)
SignalledStops == ctxDone ~> proc = "down"

(***************************************************************************)
(* "Worker graceful shutdown (SIGTERM handled)" (README.md:416): main ends *)
(* the process only when the shutdown that has begun left nothing running. *)
(***************************************************************************)
ExitIsGraceful ==
    [][Exit /\ srv \in {"closing", "closed"} => runs = {}]_workerVars
=============================================================================
