----------------------------- MODULE ApiServer -----------------------------
(***************************************************************************)
(* The life of the API server process (cmd/server/main.go, internal/app,   *)
(* internal/http/router.go) while it serves the requests of DefaultOrg and *)
(* its own readiness probe.                                                *)
(*                                                                         *)
(*   main      where RunWithGracefulShutdown is                            *)
(*   listener  the goroutine that runs http.Server                         *)
(*   signal    a SIGTERM or SIGINT waits in sigCh                          *)
(*   probe     a request of GET /readyz: its two pings, the results that   *)
(*             its handler has received from them, and its answer          *)
(*                                                                         *)
(* A store call of a request may hang for ever: requests have no timeout   *)
(* of their own.  Only the shutdown and the readiness probe have one.      *)
(***************************************************************************)
EXTENDS DefaultOrg

VARIABLES main, listener, signal, probe

serverVars == <<orgVars, main, listener, signal, probe>>

Services == {"postgres", "redis"}

Exited == {"exit0", "exit1", "killed"}

NoProbe == [pc |-> "idle", ping |-> [s \in Services |-> "none"], got |-> {}]

ServerInit ==
    /\ OrgInit
    /\ main = "boot" /\ listener = "none" /\ signal = FALSE
    /\ probe = NoProbe

Busy == {c \in Callers : calls[c].pc \in Working}

Drained == Busy = {} /\ probe.pc # "wait"

\* The process is gone, and with it every request that is being handled.
Exit(how) ==
    /\ main' = how
    /\ listener' = "closed"
    /\ calls' = [c \in Callers |->
                   IF c \in Busy THEN [calls[c] EXCEPT !.pc = "cut"] ELSE calls[c]]
    /\ probe' = IF probe.pc = "wait" THEN [NoProbe EXCEPT !.pc = "cut"] ELSE NoProbe
    /\ UNCHANGED <<orgs, rows, errors>>

-----------------------------------------------------------------------------
(* RunWithGracefulShutdown *)

\* main connects to the database and to Redis, and starts the HTTP server.
Boot ==
    /\ main = "boot"
    /\ \/ main' = "launched" /\ UNCHANGED <<orgVars, listener, probe>>
       \/ Exit("exit1")
    /\ UNCHANGED signal

\* The goroutine: the port is opened, or Start fails, at once or later.
Listen ==
    /\ main \in {"launched", "waiting"}
    /\ \/ listener = "none" /\ listener' = "open"
       \/ listener \in {"none", "open"} /\ listener' = "failed"
    /\ UNCHANGED <<orgVars, main, signal, probe>>

NotifySignals ==
    /\ main = "launched" /\ main' = "waiting"
    /\ UNCHANGED <<orgVars, listener, signal, probe>>

\* A signal that comes before signal.Notify ends the process; one that comes
\* later waits in sigCh, and does nothing once the shutdown has begun.
Signal ==
    \/ main \in {"boot", "launched"} /\ Exit("killed") /\ UNCHANGED signal
    \/ /\ main = "waiting" /\ ~signal /\ signal' = TRUE
       /\ UNCHANGED <<orgVars, main, listener, probe>>

\* select: the failure of the server and the signal, in either order.
ServerFailed ==
    /\ main = "waiting" /\ listener = "failed"
    /\ Exit("exit1")
    /\ UNCHANGED signal

\* http.Server.Shutdown stops listening before it waits for the requests.
BeginShutdown ==
    /\ main = "waiting" /\ signal
    /\ main' = "draining" /\ listener' = "closed"
    /\ UNCHANGED <<orgVars, signal, probe>>

\* The listener is closed and the requests are not waited for.
CloseAtOnce == main = "draining" /\ Exit("exit0") /\ UNCHANGED signal

ShutdownDone == main = "draining" /\ Drained /\ Exit("exit0") /\ UNCHANGED signal

\* Shutdown is called with a context that never ends.
NoDeadline == FALSE /\ Exit("exit1") /\ UNCHANGED signal

\* 30 seconds are over: Shutdown returns an error and main exits with it.
ShutdownTimesOut == main = "draining" /\ ~Drained /\ Exit("exit1") /\ UNCHANGED signal

-----------------------------------------------------------------------------
(* handleReadyz *)

SetProbe(p) == probe' = p /\ UNCHANGED <<orgVars, main, listener, signal>>

\* The request starts a ping of each service in a goroutine.
ProbeArrives ==
    /\ listener = "open" /\ probe.pc \in {"idle", "ready", "not_ready"}
    /\ SetProbe([pc |-> "wait", ping |-> [s \in Services |-> "sent"], got |-> {}])

PingReturns(s) ==
    /\ probe.pc = "wait" /\ probe.ping[s] = "sent"
    /\ \E result \in {"ok", "failed"} : SetProbe([probe EXCEPT !.ping[s] = result])

\* The ping has no deadline.
PingHangs(s) == FALSE /\ s \in Services /\ UNCHANGED serverVars

\* The 3 seconds of the probe's context end a ping of PostgreSQL, the read
\* or dial timeout of the client one of Redis.
PingTimesOut(s) ==
    /\ probe.pc = "wait" /\ probe.ping[s] = "sent"
    /\ SetProbe([probe EXCEPT !.ping[s] = "failed"])

\* The buffered channel delivers the result.
ReceiveResult(s) ==
    /\ probe.pc = "wait"
    /\ probe.ping[s] \in {"ok", "failed"} /\ s \notin probe.got
    /\ SetProbe([probe EXCEPT !.got = @ \cup {s}])

\* The handler answers on the first result.
AnswerFirst ==
    /\ probe.pc = "wait" /\ probe.got # {}
    /\ SetProbe([probe EXCEPT !.pc =
         IF \A s \in probe.got : probe.ping[s] = "ok" THEN "ready" ELSE "not_ready"])

AnswerProbe ==
    /\ probe.pc = "wait" /\ probe.got = Services
    /\ SetProbe([probe EXCEPT !.pc =
         IF \A s \in Services : probe.ping[s] = "ok" THEN "ready" ELSE "not_ready"])

-----------------------------------------------------------------------------
Request(c) == /\ \/ listener = "open" /\ Receive(c)
                 \/ CallStep(c)
              /\ UNCHANGED <<main, listener, signal, probe>>

Stopped == main \in Exited /\ UNCHANGED serverVars

ServerNext ==
    \/ Boot \/ Listen \/ NotifySignals \/ Signal \/ ServerFailed
    \/ BeginShutdown \/ ShutdownDone \/ ShutdownTimesOut
    \/ ProbeArrives \/ AnswerProbe
    \/ \E s \in Services : PingReturns(s) \/ PingTimesOut(s) \/ ReceiveResult(s)
    \/ \E c \in Callers : Request(c)
    \/ Stopped

ServerSpec == ServerInit /\ [][ServerNext]_serverVars

(***************************************************************************)
(* The process goes on when it can, and its two timers go off.  Requests,  *)
(* pings, signals and failures of the listener are not fair.               *)
(***************************************************************************)
ServerFairSpec ==
    /\ ServerSpec
    /\ WF_serverVars(ServerFailed) /\ WF_serverVars(BeginShutdown)
    /\ WF_serverVars(ShutdownDone \/ ShutdownTimesOut)
    /\ WF_serverVars(AnswerProbe)
    /\ \A s \in Services : WF_serverVars(PingTimesOut(s)) /\ WF_serverVars(ReceiveResult(s))

-----------------------------------------------------------------------------
(* Properties *)

(***************************************************************************)
(* "in-flight request draining with 30s timeout": the server exits with    *)
(* status 0 only if every request it had accepted was answered.            *)
(***************************************************************************)
CleanExitDrains ==
    main = "exit0" => /\ \A c \in Callers : calls[c].pc # "cut"
                      /\ probe.pc # "cut"

(***************************************************************************)
(* A server that got its signal exits, although a request may hang: the    *)
(* timeout of the shutdown sees to it.                                     *)
(***************************************************************************)
SignalledExits == signal ~> main \in Exited

(***************************************************************************)
(* "Returns 200 if all checks pass": /readyz answers ready only if both    *)
(* pings of this very request succeeded, and it leaves no ping behind.     *)
(***************************************************************************)
ReadyIsTrue ==
    /\ probe.pc = "ready" => \A s \in Services : probe.ping[s] = "ok"
    /\ probe.pc = "not_ready" => \A s \in Services : probe.ping[s] # "sent"

(***************************************************************************)
(* "an internal timeout to prevent cascading hangs": a readiness probe is  *)
(* answered, or cut with its server, even if both services hang.           *)
(***************************************************************************)
ProbeIsAnswered == probe.pc = "wait" ~> probe.pc # "wait"
=============================================================================
