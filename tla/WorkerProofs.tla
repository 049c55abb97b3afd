---------------------------- MODULE WorkerProofs ----------------------------
(***************************************************************************)
(* The worker process, for any number of tasks, retries, signals, crashes  *)
(* and any concurrency: WorkerInv is inductive, and with it one handler of *)
(* a task at most can still act, and the Asynq server is shut down once.   *)
(***************************************************************************)
EXTENDS WorkerProcess, TLAPS

\* A retried or archived task is a task, and nobody holds its lease.
LEMMA RetryOrArchiveType ==
    ASSUME WorkerInv, NEW t \in Tasks
    PROVE  /\ RetryOrArchive(t) \in [state : {"none", "waiting", "active", "archived"},
                                     retried : 0 .. MaxRetry,
                                     lease : {"free", "held", "expired"}]
           /\ RetryOrArchive(t).state # "active" /\ RetryOrArchive(t).lease = "free"
<1>1. /\ queue[t] \in [state : {"none", "waiting", "active", "archived"},
                       retried : 0 .. MaxRetry,
                       lease : {"free", "held", "expired"}]
      /\ queue[t].retried \in 0 .. MaxRetry
  BY DEF WorkerInv, WorkerTypeOK
<1>2. CASE queue[t].retried < MaxRetry
  <2>1. queue[t].retried + 1 \in 0 .. MaxRetry BY <1>1, <1>2, WorkerAssumption
  <2> QED BY <1>2, <2>1 DEF RetryOrArchive, Waiting
<1>3. CASE ~(queue[t].retried < MaxRetry) BY <1>1, <1>3 DEF RetryOrArchive
<1> QED BY <1>2, <1>3

LEMMA AbsentType ==
    ASSUME WorkerInv
    PROVE  /\ Absent \in [state : {"none", "waiting", "active", "archived"},
                          retried : 0 .. MaxRetry,
                          lease : {"free", "held", "expired"}]
           /\ Absent.state # "active" /\ Absent.lease = "free"
  BY WorkerAssumption DEF Absent

\* The process ends: nothing runs, and the queue is left as it is.
LEMMA GoneInv ==
    ASSUME WorkerInv, Gone, budget' \in [signal : 0 .. MaxSignals, crash : 0 .. MaxCrashes]
    PROVE  WorkerInv'
  BY DEF WorkerInv, WorkerTypeOK, OneLiveHandler, OneShutdown, Gone

\* The steps of main and of the goroutine.
LEMMA ProcessStepInv ==
    ASSUME WorkerInv, ProcessStep
    PROVE  WorkerInv'
<1> USE DEF WorkerInv, WorkerTypeOK, OneLiveHandler, OneShutdown
<1>1. CASE StartProcess BY <1>1 DEF StartProcess
<1>2. CASE Boot BY <1>2 DEF Boot
<1>3. CASE MainShutdown BY <1>3 DEF MainShutdown, Closing
<1>4. CASE MainDrained BY <1>4 DEF MainDrained
<1>5. CASE MainReceives BY <1>5 DEF MainReceives
<1>6. CASE Exit BY <1>6, GoneInv DEF Exit
<1>7. CASE AsynqStart BY <1>7 DEF AsynqStart
<1>8. CASE AsynqNotify BY <1>8 DEF AsynqNotify
<1>9. CASE AsynqStop BY <1>9 DEF AsynqStop
<1>10. CASE AsynqShutdown BY <1>10 DEF AsynqShutdown, Closing
<1>11. CASE AsynqDrained BY <1>11 DEF AsynqDrained
<1>12. CASE ProcessorStops BY <1>12 DEF ProcessorStops
<1> QED BY <1>1, <1>2, <1>3, <1>4, <1>5, <1>6, <1>7, <1>8, <1>9, <1>10, <1>11,
           <1>12 DEF ProcessStep

\* The handler of an attempt is a handler.
LEMMA HandlerType ==
    ASSUME WorkerInv, NEW t \in Tasks, NEW live \in BOOLEAN
    PROVE  /\ Handler(t, live) \in [task : Tasks, attempt : 0 .. MaxRetry, live : BOOLEAN]
           /\ Handler(t, live).task = t /\ Handler(t, live).live = live
           /\ Handler(t, live).attempt = queue[t].retried
  BY DEF WorkerInv, WorkerTypeOK, Handler

\* Cancelling a handler leaves fewer of them with a live context.
LEMMA CancelledType ==
    ASSUME WorkerInv, NEW h \in handlers
    PROVE  /\ Cancelled(h) \subseteq [task : Tasks, attempt : 0 .. MaxRetry, live : BOOLEAN]
           /\ \A g \in Cancelled(h) : g.live => g \in handlers /\ g # h
<1>1. h \in [task : Tasks, attempt : 0 .. MaxRetry, live : BOOLEAN]
  BY DEF WorkerInv, WorkerTypeOK
<1>2. /\ [h EXCEPT !.live = FALSE] \in [task : Tasks, attempt : 0 .. MaxRetry, live : BOOLEAN]
      /\ [h EXCEPT !.live = FALSE].live = FALSE
  BY <1>1
<1> QED BY <1>2 DEF Cancelled, WorkerInv, WorkerTypeOK

\* While the processor works, a live handler of a task that is attended to
\* is the one of the present attempt.
LEMMA LiveIsPresent ==
    ASSUME WorkerInv, srv # "closed", NEW h \in handlers, h.live
    PROVE  h.task \in runs /\ h = Handler(h.task, TRUE)
<1>1. /\ h \in [task : Tasks, attempt : 0 .. MaxRetry, live : BOOLEAN]
      /\ h.task \in runs /\ h.attempt = queue[h.task].retried
  BY DEF WorkerInv, WorkerTypeOK
<1> QED BY <1>1 DEF Handler

\* A task that leaves the runs takes its live handler with it.
LEMMA HandlerLeaves ==
    ASSUME WorkerInv, NEW t \in Tasks, runs' = runs \ {t}, srv' = srv,
           \A g \in handlers' : g.live => g \in handlers /\ g # Handler(t, TRUE),
           \A u \in Tasks : u # t => queue'[u] = queue[u]
    PROVE  /\ OneLiveHandler'
           /\ srv' # "closed" => \A h \in handlers' :
                 h.live => h.task \in runs' /\ h.attempt = queue'[h.task].retried
<1>1. OneLiveHandler' BY DEF OneLiveHandler, WorkerInv
<1>2. ASSUME srv # "closed", NEW h \in handlers', h.live
      PROVE  h.task \in runs' /\ h.attempt = queue'[h.task].retried
  <2>1. h \in handlers /\ h # Handler(t, TRUE) BY <1>2
  <2>2. h.task \in runs /\ h = Handler(h.task, TRUE) BY <1>2, <2>1, LiveIsPresent
  <2>3. h.task # t BY <2>1, <2>2
  <2>4. h.task \in Tasks /\ h.attempt = queue[h.task].retried
    BY <1>2, <2>1 DEF WorkerInv, WorkerTypeOK
  <2> QED BY <2>2, <2>3, <2>4
<1> QED BY <1>1, <1>2

(***************************************************************************)
(* The steps of a task.  A task leaves the runs together with its live     *)
(* handler, unless the processor has stopped and will take no other.       *)
(***************************************************************************)
LEMMA TaskStepInv ==
    ASSUME WorkerInv, NEW t \in Tasks, TaskStep(t)
    PROVE  WorkerInv'
<1> USE DEF ServerVars
<1>1. CASE Dequeue(t)
  <2>1. /\ queue[t].state = "waiting" /\ t \notin runs /\ srv \notin {"new", "closed"}
        /\ handlers' = handlers \cup {Handler(t, TRUE)}
    BY <1>1 DEF Dequeue, WorkerInv
  <2>2. \A h \in handlers : h.live => h.task # t BY <2>1 DEF WorkerInv
  <2>3. OneLiveHandler'
    <3>1. Handler(t, TRUE).task = t BY HandlerType
    <3> SUFFICES ASSUME NEW g \in handlers', NEW h \in handlers',
                        g.task = h.task, g.live, h.live
                 PROVE  g = h
      BY DEF OneLiveHandler
    <3>2. CASE g \in handlers /\ h \in handlers BY <3>2 DEF WorkerInv, OneLiveHandler
    <3>3. CASE g = Handler(t, TRUE) \/ h = Handler(t, TRUE) BY <2>1, <2>2, <3>1, <3>3
    <3> QED BY <2>1, <3>2, <3>3
  <2>4. \A h \in handlers' : h.live => h.task \in runs' /\ h.attempt = queue'[h.task].retried
    BY <1>1, <2>1, <2>2, HandlerType DEF Dequeue, WorkerInv, WorkerTypeOK
  <2>5. WorkerTypeOK' BY <1>1, HandlerType DEF Dequeue, WorkerInv, WorkerTypeOK
  <2> QED BY <1>1, <2>1, <2>3, <2>4, <2>5
          DEF Dequeue, WorkerInv, WorkerTypeOK, OneShutdown
<1>2. CASE RunEnds(t)
  <2>1. PICK after \in {Absent, RetryOrArchive(t)} : queue' = [queue EXCEPT ![t] = after]
    BY <1>2 DEF RunEnds
  <2>2. /\ t \in runs /\ runs' = runs \ {t} /\ UNCHANGED ServerVars
        /\ handlers' = handlers \ {Handler(t, TRUE), Handler(t, FALSE)}
    BY <1>2 DEF RunEnds
  <2>3. \A u \in Tasks : u # t => queue'[u] = queue[u]
    BY <2>1 DEF WorkerInv, WorkerTypeOK
  <2>4. /\ OneLiveHandler'
        /\ srv' # "closed" => \A h \in handlers' :
              h.live => h.task \in runs' /\ h.attempt = queue'[h.task].retried
    BY <2>2, <2>3, HandlerLeaves
  <2>5. /\ after \in [state : {"none", "waiting", "active", "archived"},
                      retried : 0 .. MaxRetry, lease : {"free", "held", "expired"}]
        /\ after.state # "active" /\ after.lease = "free"
    BY <2>1, AbsentType, RetryOrArchiveType
  <2>6. queue'[t] = after BY <2>1 DEF WorkerInv, WorkerTypeOK
  <2>7. WorkerTypeOK' BY <2>1, <2>2, <2>5 DEF WorkerInv, WorkerTypeOK
  <2>8. runs \subseteq Tasks BY DEF WorkerInv, WorkerTypeOK
  <2>9. /\ \A u \in Tasks : queue'[u].state = "active" <=> queue'[u].lease # "free"
        /\ \A u \in runs' : queue'[u].state = "active" /\ queue'[u].lease = "held"
    BY <2>2, <2>3, <2>5, <2>6, <2>8 DEF WorkerInv
  <2>10. srv' = "new" => runs' = {} /\ handlers' = {} BY <2>2 DEF WorkerInv
  <2> QED BY <2>2, <2>4, <2>7, <2>9, <2>10 DEF WorkerInv, OneShutdown
<1>3. CASE Deadline(t)
  <2>1. /\ handlers' = Cancelled(Handler(t, TRUE)) /\ Handler(t, TRUE) \in handlers
        /\ UNCHANGED <<queue, runs, ServerVars>>
    BY <1>3 DEF Deadline
  <2>2. /\ handlers' \subseteq [task : Tasks, attempt : 0 .. MaxRetry, live : BOOLEAN]
        /\ \A g \in handlers' : g.live => g \in handlers
    BY <2>1, CancelledType
  <2> QED BY <1>3, <2>1, <2>2 DEF Deadline, WorkerInv, WorkerTypeOK, OneLiveHandler, OneShutdown
<1>4. CASE GiveUp(t)
  <2>1. /\ t \in runs /\ runs' = runs \ {t} /\ Handler(t, TRUE) \notin handlers
        /\ queue' = [queue EXCEPT ![t] = RetryOrArchive(t)]
        /\ UNCHANGED <<handlers, ServerVars>>
    BY <1>4 DEF GiveUp
  <2>2. \A u \in Tasks : u # t => queue'[u] = queue[u]
    BY <2>1 DEF WorkerInv, WorkerTypeOK
  <2>3. /\ OneLiveHandler'
        /\ srv' # "closed" => \A h \in handlers' :
              h.live => h.task \in runs' /\ h.attempt = queue'[h.task].retried
    BY <2>1, <2>2, HandlerLeaves
  <2>4. queue'[t] = RetryOrArchive(t) BY <2>1 DEF WorkerInv, WorkerTypeOK
  <2>5. WorkerTypeOK' BY <2>1, RetryOrArchiveType DEF WorkerInv, WorkerTypeOK
  <2> QED BY <2>1, <2>2, <2>3, <2>4, <2>5, RetryOrArchiveType DEF WorkerInv, OneShutdown
<1>5. CASE LeaseLost(t)
  <2>1. /\ t \in runs /\ runs' = runs \ {t} /\ UNCHANGED <<queue, ServerVars>>
        /\ handlers' = IF Handler(t, TRUE) \in handlers
                       THEN Cancelled(Handler(t, TRUE)) ELSE handlers
    BY <1>5 DEF LeaseLost
  <2>2. /\ handlers' \subseteq [task : Tasks, attempt : 0 .. MaxRetry, live : BOOLEAN]
        /\ \A g \in handlers' : g.live => g \in handlers /\ g # Handler(t, TRUE)
    BY <2>1, CancelledType DEF WorkerInv, WorkerTypeOK
  <2>3. /\ OneLiveHandler'
        /\ srv' # "closed" => \A h \in handlers' :
              h.live => h.task \in runs' /\ h.attempt = queue'[h.task].retried
    BY <2>1, <2>2, HandlerLeaves
  <2> QED BY <2>1, <2>2, <2>3 DEF WorkerInv, WorkerTypeOK, OneShutdown
<1>6. CASE LeaseExpires(t)
  BY <1>6 DEF LeaseExpires, WorkerInv, WorkerTypeOK, OneLiveHandler, OneShutdown
<1>7. CASE Recover(t)
  <2>1. /\ queue' = [queue EXCEPT ![t] = RetryOrArchive(t)] /\ t \notin runs
        /\ UNCHANGED <<runs, handlers, ServerVars>>
    BY <1>7 DEF Recover, WorkerInv
  <2>2. srv # "closed" => \A h \in handlers : h.live => h.task \in runs /\ h.attempt = queue'[h.task].retried
    BY <2>1 DEF WorkerInv, WorkerTypeOK
  <2> QED BY <2>1, <2>2, RetryOrArchiveType
          DEF WorkerInv, WorkerTypeOK, OneLiveHandler, OneShutdown
<1>8. CASE ShutdownTimeout(t)
  BY <1>8 DEF ShutdownTimeout, WorkerInv, WorkerTypeOK, OneLiveHandler, OneShutdown
<1> QED BY <1>1, <1>2, <1>3, <1>4, <1>5, <1>6, <1>7, <1>8 DEF TaskStep

\* The steps of handlers that Asynq has given up on.
LEMMA StrayStepInv ==
    ASSUME WorkerInv, StrayStep
    PROVE  WorkerInv'
<1>1. PICK h \in handlers : DeferredCancel(h) \/ StrayReturns(h) BY DEF StrayStep
<1>2. UNCHANGED <<queue, runs, ServerVars>> BY <1>1 DEF DeferredCancel, StrayReturns
<1>3. /\ handlers' \subseteq [task : Tasks, attempt : 0 .. MaxRetry, live : BOOLEAN]
      /\ \A g \in handlers' : g.live => g \in handlers
  BY <1>1, CancelledType DEF DeferredCancel, StrayReturns, WorkerInv, WorkerTypeOK
<1>4. handlers = {} => handlers' = {} BY <1>1
<1> QED BY <1>2, <1>3, <1>4 DEF ServerVars, WorkerInv, WorkerTypeOK, OneLiveHandler, OneShutdown

\* A start that fails, signals and crashes.
LEMMA OtherStepInv ==
    ASSUME WorkerInv, BootFails \/ Signal \/ Crash \/ Idle
    PROVE  WorkerInv'
<1>1. CASE BootFails
  <2>1. budget' \in [signal : 0 .. MaxSignals, crash : 0 .. MaxCrashes]
    BY <1>1, WorkerAssumption DEF BootFails, WorkerInv, WorkerTypeOK
  <2> QED BY <1>1, <2>1, GoneInv DEF BootFails
<1>2. CASE Signal
  <2>1. budget' \in [signal : 0 .. MaxSignals, crash : 0 .. MaxCrashes]
    BY <1>2, WorkerAssumption DEF Signal, WorkerInv, WorkerTypeOK
  <2>2. CASE Gone BY <2>1, <2>2, GoneInv
  <2>3. CASE ~Gone
    BY <1>2, <2>1, <2>3 DEF Signal, WorkerInv, WorkerTypeOK, OneLiveHandler, OneShutdown
  <2> QED BY <2>2, <2>3
<1>3. CASE Crash
  <2>1. budget' \in [signal : 0 .. MaxSignals, crash : 0 .. MaxCrashes]
    BY <1>3, WorkerAssumption DEF Crash, WorkerInv, WorkerTypeOK
  <2> QED BY <1>3, <2>1, GoneInv DEF Crash
<1>4. CASE Idle
  BY <1>4 DEF Idle, workerVars, WorkerInv, WorkerTypeOK, OneLiveHandler, OneShutdown
<1> QED BY <1>1, <1>2, <1>3, <1>4

(***************************************************************************)
(* The state of the Asynq server, the positions of the two goroutines that *)
(* may shut it down and the leases in Redis agree at all times.            *)
(***************************************************************************)
THEOREM WorkerInvariance == WorkerSpec => []WorkerInv
<1>1. WorkerInit => WorkerInv
  <2> SUFFICES ASSUME WorkerInit PROVE WorkerInv OBVIOUS
  <2>1. budget \in [signal : 0 .. MaxSignals, crash : 0 .. MaxCrashes]
    BY WorkerAssumption DEF WorkerInit
  <2>2. queue \in [Tasks -> [state : {"none", "waiting", "active", "archived"},
                            retried : 0 .. MaxRetry,
                            lease : {"free", "held", "expired"}]]
    BY WorkerAssumption DEF WorkerInit, Waiting
  <2>3. \A t \in Tasks : queue[t].state = "active" <=> queue[t].lease # "free"
    BY DEF WorkerInit, Waiting
  <2> QED BY <2>1, <2>2, <2>3
      DEF WorkerInit, WorkerInv, WorkerTypeOK, OneLiveHandler, OneShutdown
<1>2. WorkerInv /\ [WorkerNext]_workerVars => WorkerInv'
  <2> SUFFICES ASSUME WorkerInv, [WorkerNext]_workerVars PROVE WorkerInv' OBVIOUS
  <2>1. CASE WorkerNext
    BY <2>1, ProcessStepInv, TaskStepInv, StrayStepInv, OtherStepInv DEF WorkerNext
  <2>2. CASE UNCHANGED workerVars
    BY <2>2 DEF workerVars, WorkerInv, WorkerTypeOK, OneLiveHandler, OneShutdown
  <2> QED BY <2>1, <2>2
<1> QED BY <1>1, <1>2, PTL DEF WorkerSpec

(***************************************************************************)
(* Whatever runs beside a retry of its task, after a timeout, a lost lease *)
(* or a shutdown timeout, its context is done.                             *)
(***************************************************************************)
THEOREM OneHandlerIsLive == WorkerSpec => []OneLiveHandler
<1>1. WorkerInv => OneLiveHandler BY DEF WorkerInv
<1> QED BY <1>1, WorkerInvariance, PTL

(***************************************************************************)
(* Shutdown drains once, whichever of the two goroutines takes the signal  *)
(* first.                                                                  *)
(***************************************************************************)
THEOREM ShutdownOnce == WorkerSpec => []OneShutdown
<1>1. WorkerInv => OneShutdown BY DEF WorkerInv
<1> QED BY <1>1, WorkerInvariance, PTL
=============================================================================
