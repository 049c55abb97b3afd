---------------------------- MODULE RoutedPlane ----------------------------
(***************************************************************************)
(* The control plane and the inference proxy together.  They meet in two   *)
(* places: the proxy reads the deployment and cluster rows and probes the  *)
(* VMs, and the worker deletes the Redis keys of a model at certain points *)
(* of the deploy and delete handlers.                                      *)
(*                                                                         *)
(* The steps of the control plane are those of ControlPlane.  The DEL that *)
(* a handler issues after one of them is a step of its own: owed is the    *)
(* set of runs that have it before them and take no other step first.      *)
(***************************************************************************)
EXTENDS ControlPlane, Discovery

VARIABLES
    owed,     \* runs whose next call is invalidateModelCache
    steady,   \* history: targets routable ever since the request arrived
    outrun,   \* history: names whose table changed after their list was cached
    turn      \* history: the last list and the last choice by a counter

history == <<steady, outrun, turn>>
allVars == <<vars, routeVars, owed, history>>

-----------------------------------------------------------------------------
(* The worker's calls of invalidateModelCache *)

Steps(t, from, to) == runs[t].pc = from /\ runs'[t].pc = to

\* The delete handler leaves the keys alone.
InvalidatesOnDeploy(t) ==
    /\ t.kind = "deploy"
    /\ \/ Steps(t, "idle", "building") \/ Steps(t, "markFailed", "failJob")
       \/ Steps(t, "save", "failJob") \/ Steps(t, "complete", "ok")

(***************************************************************************)
(* The deploy handler invalidates before it does anything else, when it    *)
(* has marked the deployment failed, when it could not mark it active, and *)
(* after it has completed the job.  The delete handler does after it has   *)
(* marked the deployment deleting.                                         *)
(***************************************************************************)
Invalidates(t) ==
    \/ /\ t.kind = "deploy"
       /\ \/ Steps(t, "idle", "building")
          \/ Steps(t, "markFailed", "failJob")
          \/ Steps(t, "save", "failJob")
          \/ Steps(t, "complete", "ok")
    \/ t.kind = "delete" /\ Steps(t, "deleting", "running")

(***************************************************************************)
(* When the delete handler fails on the kubeconfig it invalidates if       *)
(* decrypting it failed, and does not if the client could not be built.    *)
(* Both happen for a blank kubeconfig, with and without a cipher.          *)
(***************************************************************************)
MayInvalidate(t) ==
    t.kind = "delete" /\ Steps(t, "markFailed", "failJob") /\ runs[t].ip = NoIP

ControlStep ==
    /\ Next
    /\ \A t \in owed : runs'[t] = runs[t] \/ faults' # faults
    /\ \E more \in SUBSET {t \in TaskIds : MayInvalidate(t)} :
          owed' = {t \in owed : runs'[t].pc # "idle"}
                    \cup {t \in TaskIds : Invalidates(t)} \cup more
    /\ UNCHANGED routeVars

\* The call itself.
Invalidate(t) ==
    /\ t \in owed
    /\ owed' = owed \ {t}
    /\ invalidateModelCache(ModelName(t.id))
    /\ UNCHANGED <<vars, px>>

ProxyRequest(q) == (Arrive(q) \/ ProxyStep(q)) /\ UNCHANGED <<vars, owed>>

PassTime == Tick /\ UNCHANGED <<vars, owed>>

-----------------------------------------------------------------------------
(* History *)

ActiveNow == [n \in Names |-> {d \in Requests :
    ModelName(d) = n /\ deployments[d].status = "active"}]

RoutableNow == [n \in Names |-> Routable(n)]

NoTurn == [list |-> <<>>, last |-> <<>>]

\* The request takes one of several targets, as the counter says.
TakesTurn(q) == /\ px[q].pc = "select" /\ px'[q].pc = "proxied"
                /\ Len(px[q].ok) > 1
                /\ glitches' = glitches

\* Its INCR fails, and is executed any number of times.
LosesTurn(q) == /\ px[q].pc = "select" /\ px'[q] # px[q]
                /\ glitches' # glitches

\* A probe or a query of the request fails though the target is well.
OwnGlitch(q) == /\ glitches' # glitches /\ px'[q] # px[q]
                /\ px[q].pc \in {"probeCached", "probeListed", "query"}

\* The SET of the request is executed, whatever its answer is.
Writes(q, n) == /\ px[q].pc \in {"trim", "put"} /\ px'[q] # px[q]
                /\ px[q].model = n
                /\ routes'[n] = [list |-> px[q].ok, ttl |-> TTL]

\* The DEL of a run fails, or the run ends before it comes to it.
InvalidationFails == \/ owed' # owed /\ glitches' # glitches
                     \/ faults'["lost"] # faults["lost"]
                     \/ faults'["restart"] # faults["restart"]

Remember ==
    /\ steady' = [q \in Proxied |->
         IF px'[q].model = NoModel \/ OwnGlitch(q) THEN {}
         ELSE IF px[q].pc = "idle" THEN RoutableNow'[px'[q].model]
         ELSE steady[q] \cap RoutableNow'[px'[q].model]]
    /\ outrun' = {n \in Names :
         /\ routes'[n].list # <<>>
         /\ n \in outrun \/ ActiveNow'[n] # ActiveNow[n]
         /\ ~ \E q \in Proxied : Writes(q, n)
         /\ ~InvalidationFails}
    /\ turn' = [n \in Names |->
         IF \E q \in Proxied : TakesTurn(q) /\ px[q].model = n
         THEN LET q == CHOOSE q \in Proxied : TakesTurn(q) /\ px[q].model = n
              IN  [list |-> px[q].ok, last |-> px'[q].ok]
         ELSE IF \/ rr[n] # 0 /\ rr'[n] = 0
                 \/ \E q \in Proxied : LosesTurn(q) /\ px[q].model = n
              THEN NoTurn
              ELSE turn[n]]

HistoryInit ==
    /\ DiscoveryInit
    /\ owed = {}
    /\ steady = [q \in Proxied |-> {}]
    /\ outrun = {}
    /\ turn = [n \in Names |-> NoTurn]

RoutedInit == Init /\ HistoryInit

RoutedNext ==
    /\ \/ ControlStep
       \/ PassTime
       \/ \E t \in TaskIds : Invalidate(t)
       \/ \E q \in Proxied : ProxyRequest(q)
    /\ Remember

RoutedSpec == RoutedInit /\ [][RoutedNext]_allVars

(***************************************************************************)
(* Time passes, and a proxy request that is being handled goes on.  That   *)
(* new requests arrive is not assumed.                                     *)
(***************************************************************************)
RoutedFairness ==
    WF_routeVars(Tick) /\ \A q \in Proxied : WF_routeVars(ProxyStep(q))

-----------------------------------------------------------------------------
(* Properties *)

(***************************************************************************)
(* A request for a model is answered 503 only if no target of the model    *)
(* was routable (active row, active cluster, answering) all the while the  *)
(* request was handled, or a probe or the query of this request failed.    *)
(* It does not matter what was cached, whether Redis failed, and what the  *)
(* worker and the other requests did in between.  resolveModelTarget.      *)
(***************************************************************************)
SteadyIsServed ==
    \A q \in Proxied :
        px[q].pc = "unavailable" /\ px[q].spelt = "stored" => steady[q] = {}

(***************************************************************************)
(* Consecutive choices from the same list, by whichever requests, take the *)
(* targets in turn (selectRoundRobinTarget), whatever other requests, for  *)
(* lists of other lengths, do between them, until the counter is deleted   *)
(* or an INCR fails: the counter may have gone on for nobody.              *)
(***************************************************************************)
TurnsRotate ==
    [][\A q \in Proxied :
          LET list == px[q].ok
              n == Len(list)
              last == turn[px[q].model].last
          IN
          TakesTurn(q) /\ turn[px[q].model].list = list =>
              \E i \in 1 .. n : /\ <<list[i]>> = last
                                 /\ px'[q].ok = <<list[(i % n) + 1]>>]_allVars

(***************************************************************************)
(* "Cache invalidation on deploy/fail": a list that was cached before the  *)
(* set of active deployments of its model changed does not outlive the run *)
(* of the worker that changed it, unless that run was lost or its DEL      *)
(* failed.  This is so for a client that waits (ClientWaits) and destroys  *)
(* no cluster: the destroy handler never invalidates.  If the store fails  *)
(* to mark a deployment deleting it is not so: the handler goes on and     *)
(* does not invalidate again at its end.  A list that a request computes   *)
(* before the change and caches after the DEL is not covered: see          *)
(* RoutesConverge.                                                         *)
(***************************************************************************)
OutrunIsInvalidated ==
    faults["io"] = 0 =>
        \A n \in outrun : \E t \in TaskIds :
            t.kind \in ModelOps /\ ModelName(t.id) = n /\ runs[t].pc # "idle"

(***************************************************************************)
(* In the end the routes are right: once the control plane has come to     *)
(* rest, whatever was cached by requests that raced with it and whatever   *)
(* DEL failed, every cached list soon consists of the routable targets of  *)
(* its model, and stays so under any number of further requests.           *)
(***************************************************************************)
RoutesConverge ==
    \A n \in Names :
        <>[](routes[n].list # <<>> =>
               {routes[n].list[i] : i \in DOMAIN routes[n].list} = RoutableNow[n])
=============================================================================
