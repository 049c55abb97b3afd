----------------------------- MODULE Discovery -----------------------------
(***************************************************************************)
(* The inference proxy of the API server (internal/http/handlers/proxy.go) *)
(* and the Redis keys it keeps for each model name.  A model is a name in  *)
(* a namespace; the proxy knows the name only, and the models that share   *)
(* it share these keys:                                                    *)
(*                                                                         *)
(*   routes[n]  proxy:model:targets:<n>, the cached list of targets and    *)
(*              the ticks it has left to live (0: there is no such key)    *)
(*   rr[n]      proxy:model:rr:<n>, the round-robin counter                *)
(*   px[q]      the requests of POST /v1/chat/completions that are handled *)
(*                                                                         *)
(* A target is the service URL of a deployment: the address of the VM and  *)
(* the node port of the model, here the pair <<ip, model>>.  It accepts a  *)
(* TCP connection when the objects of the model are on that VM.  Which of  *)
(* the targets have their reverse proxy in proxyByTarget already makes no  *)
(* difference to a request and is not modelled.                            *)
(***************************************************************************)
EXTENDS ControlState, Sequences

CONSTANTS
    Names,          \* the names of models
    NameOf,         \* the name of a model, which others may share
    Proxied,        \* slots for proxy requests handled at the same time
    NoModel,        \* the model of a request that names none
    HasDefaultTarget,  \* a default target is configured
    Spellings,      \* how clients spell a model name: "stored" and/or "other"
    TTL,            \* serviceDiscoveryCacheTTL, in ticks
    RRPeriod,       \* the counter is kept modulo this
    RedisAttempts,  \* how often the client sends a command that fails
    MaxGlitches     \* failures of Redis, the store or a probe

Targets == IPs \X Models

(***************************************************************************)
(* A list never holds more targets than there are deployments.  Only the   *)
(* remainders of the counter by the lengths of the lists are observed, so  *)
(* it is enough to keep it modulo a common multiple of these lengths.      *)
(***************************************************************************)
ASSUME DiscoveryAssumption ==
    /\ NameOf \in [Models -> Names]
    /\ NoModel \notin Names
    /\ IsFiniteSet(Requests)
    /\ HasDefaultTarget \in BOOLEAN
    /\ Spellings \subseteq {"stored", "other"}
    /\ TTL \in Nat \ {0}
    /\ RRPeriod \in Nat \ {0}
    /\ \A n \in 1 .. Cardinality({r \in Requests : Op[r] = "deploy"}) :
          RRPeriod % n = 0
    /\ RedisAttempts \in Nat \ {0}
    /\ MaxGlitches \in Nat

VARIABLES routes, rr, px, glitches

routeVars == <<routes, rr, px, glitches>>

NoRoute == [list |-> <<>>, ttl |-> 0]

ProxyPC == {"idle", "probeCached", "trim", "drop", "query",
            "probeListed", "put", "clear", "select", "proxied", "unavailable"}

(***************************************************************************)
(* todo holds the targets still to be probed, ok those found healthy and   *)
(* later the one selected; cut says that some target was not healthy.      *)
(***************************************************************************)
NoProxyReq == [pc |-> "idle", model |-> NoModel, spelt |-> "stored",
               todo |-> <<>>, ok |-> <<>>, cut |-> FALSE]

DiscoveryInit ==
    /\ routes = [n \in Names |-> NoRoute]
    /\ rr = [n \in Names |-> 0]
    /\ px = [q \in Proxied |-> NoProxyReq]
    /\ glitches = 0

Glitch == glitches < MaxGlitches /\ glitches' = glitches + 1

NoGlitch == UNCHANGED glitches

-----------------------------------------------------------------------------
(* What the proxy reads *)

Target(d) == <<deployments[d].url, ModelOf[d]>>

\* The name of the model of a deployment request.
ModelName(r) == NameOf[ModelOf[r]]

\* The rows that ListActiveDeploymentTargets selects for a name, in whatever
\* namespace.
Listed(name) == {d \in Requests :
                   /\ ModelName(d) = name
                   /\ deployments[d].status = "active"
                   /\ clusters[deployments[d].cluster].status = "active"
                   /\ deployments[d].url # NoIP}

(***************************************************************************)
(* The query orders them by the time of their last update, which is not    *)
(* modelled: any order.                                                    *)
(***************************************************************************)
ListActiveDeploymentTargets(name) ==
    LET rows == Listed(name)
        n == Cardinality(rows)
        orders == {f \in [1 .. n -> rows] : \A d \in rows : \E i \in 1 .. n : f[i] = d}
    IN  {[i \in 1 .. n |-> Target(f[i])] : f \in orders}

isTargetHealthy(tg) == tg \in kube

Routable(name) == {Target(d) : d \in Listed(name)} \cap kube

-----------------------------------------------------------------------------
(* The Redis keys of a name.  ModelTargetsKey and ModelRoundRobinKey fold  *)
(* its case, so every spelling of it shares them.  A command whose answer  *)
(* is an error, or lost, may have been executed all the same.              *)

\* rdb.Set of the targets with a fresh expiry, or its failure, only logged.
setTargetsInCache(name, list) ==
    LET set == routes' = [routes EXCEPT ![name] = [list |-> list, ttl |-> TTL]]
    IN  \/ set /\ NoGlitch
        \/ (set \/ UNCHANGED routes) /\ Glitch

\* rdb.Del of both keys, or its failure, which is only logged.
invalidateModelCache(name) ==
    LET del == /\ routes' = [routes EXCEPT ![name] = NoRoute]
               /\ rr' = [rr EXCEPT ![name] = 0]
    IN  \/ del /\ NoGlitch
        \/ (del \/ UNCHANGED <<routes, rr>>) /\ Glitch

\* Time passes: Redis drops a key whose time is up.
Tick ==
    /\ \E n \in Names : routes[n].ttl > 0
    /\ routes' = [n \in Names |->
         IF routes[n].ttl \leq 1 THEN NoRoute
         ELSE [routes[n] EXCEPT !.ttl = @ - 1]]
    /\ UNCHANGED <<rr, px, glitches>>

-----------------------------------------------------------------------------
(* The handler of a request *)

Move(q, pc) == px' = [px EXCEPT ![q].pc = pc]

(***************************************************************************)
(* A request names a model, and its targets are read from the cache: a     *)
(* miss and an error both send the request to the database.  Or it names   *)
(* none and goes to the default target, if one is set.  A body that is not *)
(* JSON is answered at once.                                               *)
(***************************************************************************)
Arrive(q) ==
    /\ px[q].pc = "idle"
    /\ \/ \E n \in Names, sp \in Spellings :
             LET cached == routes[n].list
                 req == [NoProxyReq EXCEPT !.model = n, !.spelt = sp]
             IN
             \/ /\ cached # <<>>
                /\ px' = [px EXCEPT ![q] = [req EXCEPT !.pc = "probeCached",
                                                     !.todo = cached]]
                /\ NoGlitch
             \/ /\ px' = [px EXCEPT ![q] = [req EXCEPT !.pc = "query"]]
                /\ IF cached = <<>> THEN NoGlitch ELSE Glitch
       \/ /\ px' = [px EXCEPT ![q] = [NoProxyReq EXCEPT !.pc =
                IF HasDefaultTarget THEN "proxied" ELSE "unavailable"]]
          /\ NoGlitch
    /\ UNCHANGED <<routes, rr>>

\* The request gives up when no cached target is healthy.
GiveUpWhenCachedUnhealthy(pc, ok, cut) ==
    IF ok = <<>> THEN "clear"
    ELSE IF pc = "probeListed" THEN "put"
    ELSE IF cut THEN "trim" ELSE "select"

\* The list is written back on every hit.
RefreshOnHit(pc, ok, cut) ==
    IF ok = <<>> THEN IF pc = "probeCached" THEN "drop" ELSE "clear"
    ELSE IF pc = "probeListed" THEN "put" ELSE "trim"

\* What resolveModelTarget does with the targets that were found healthy: a
\* list from the cache is written back only if it lost a target.
AfterProbes(pc, ok, cut) ==
    IF ok = <<>> THEN IF pc = "probeCached" THEN "drop" ELSE "clear"
    ELSE IF pc = "probeListed" THEN "put"
    ELSE IF cut THEN "trim" ELSE "select"

ProbeResult(q, ok, cut) ==
    LET rest == Tail(px[q].todo)
    IN  px' = [px EXCEPT
          ![q].todo = rest, ![q].ok = ok, ![q].cut = cut /\ rest # <<>>,
          ![q].pc = IF rest = <<>> THEN AfterProbes(@, ok, cut) ELSE @]

\* One turn of filterHealthyTargets: a target that does not answer within
\* targetProbeTimeout is left out.
Probe(q) ==
    LET tg == Head(px[q].todo)
        healthy == isTargetHealthy(tg)
    IN
    /\ px[q].pc \in {"probeCached", "probeListed"}
    /\ \/ /\ healthy /\ NoGlitch
          /\ ProbeResult(q, Append(px[q].ok, tg), px[q].cut)
       \/ /\ IF healthy THEN Glitch ELSE NoGlitch
          /\ ProbeResult(q, px[q].ok, TRUE)
    /\ UNCHANGED <<routes, rr>>

\* The healthy targets are cached: all of them, or what is left of a list.
CacheTargets(q) ==
    /\ px[q].pc \in {"trim", "put"}
    /\ setTargetsInCache(px[q].model, px[q].ok)
    /\ Move(q, "select")
    /\ UNCHANGED rr

\* No cached target is healthy: forget them and ask the database.  No listed
\* target is: forget what is cached and answer 503.
ForgetTargets(q) ==
    /\ px[q].pc \in {"drop", "clear"}
    /\ invalidateModelCache(px[q].model)
    /\ Move(q, IF px[q].pc = "drop" THEN "query" ELSE "unavailable")

\* The comparison of model_name is exact: no row has another spelling.
QueryTargets(q) ==
    /\ px[q].pc = "query"
    /\ \/ /\ px[q].spelt = "stored" /\ Listed(px[q].model) # {}
          /\ \E list \in ListActiveDeploymentTargets(px[q].model) :
                px' = [px EXCEPT ![q].pc = "probeListed", ![q].todo = list]
          /\ NoGlitch
       \/ /\ px[q].spelt # "stored" \/ Listed(px[q].model) = {}
          /\ Move(q, "unavailable") /\ NoGlitch
       \/ Move(q, "unavailable") /\ Glitch
    /\ UNCHANGED <<routes, rr>>

Chosen(q, i) == px' = [px EXCEPT ![q].pc = "proxied", ![q].ok = <<px[q].ok[i]>>]

\* The counter is read and never incremented.
SelectWithoutIncrement(q) ==
    LET n == Len(px[q].ok)
    IN
    /\ px[q].pc = "select"
    /\ Chosen(q, (rr[px[q].model] % n) + 1)
    /\ UNCHANGED <<routes, rr, glitches>>

(***************************************************************************)
(* A single target is taken without Redis.  Otherwise the counter is       *)
(* incremented and its old value picks the target.  If an INCR fails, the  *)
(* client sends it again, and after the last attempt the clock picks the   *)
(* target: any one, and any number of the attempts was executed (also if   *)
(* the last one succeeds, after some whose answers were lost).  Then       *)
(* proxyForTarget has a reverse proxy for it and the request is served.    *)
(***************************************************************************)
SelectRoundRobinTarget(q) ==
    LET m == px[q].model
        n == Len(px[q].ok)
    IN
    /\ px[q].pc = "select"
    /\ \/ n = 1 /\ Chosen(q, 1) /\ UNCHANGED rr /\ NoGlitch
       \/ /\ n > 1
          /\ Chosen(q, (rr[m] % n) + 1)
          /\ rr' = [rr EXCEPT ![m] = (@ + 1) % RRPeriod]
          /\ NoGlitch
       \/ /\ n > 1
          /\ \E i \in 1 .. n : Chosen(q, i)
          /\ \E k \in 0 .. RedisAttempts : rr' = [rr EXCEPT ![m] = (@ + k) % RRPeriod]
          /\ Glitch
    /\ UNCHANGED routes

\* The answer is sent; the slot takes the next request.
Respond(q) ==
    /\ px[q].pc \in {"proxied", "unavailable"}
    /\ px' = [px EXCEPT ![q] = NoProxyReq]
    /\ UNCHANGED <<routes, rr, glitches>>

ProxyStep(q) ==
    \/ Probe(q) \/ CacheTargets(q) \/ ForgetTargets(q)
    \/ QueryTargets(q) \/ SelectRoundRobinTarget(q) \/ Respond(q)

DiscoveryNext == Tick \/ \E q \in Proxied : Arrive(q) \/ ProxyStep(q)
=============================================================================
