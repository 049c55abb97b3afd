---------------------------- MODULE RoutedProofs ----------------------------
(***************************************************************************)
(* The control plane with the inference proxy, for any number of stacks,   *)
(* models, requests and proxy requests, any workload and any faults: the   *)
(* composition behaves as the control plane does, and a model with a       *)
(* steady target is served.                                                *)
(***************************************************************************)
EXTENDS RoutedPlane, SerialProofs, FiniteSetTheorems

-----------------------------------------------------------------------------
(***************************************************************************)
(* Every step of the composition is one of the control plane, or leaves    *)
(* its state alone: what is proved of the control plane holds beside the   *)
(* proxy and with the worker's calls of Redis interleaved.                 *)
(***************************************************************************)
THEOREM PlaneUndisturbed == RoutedSpec => Spec
<1>1. RoutedInit => Init BY DEF RoutedInit
<1>2. [RoutedNext]_allVars => [Next]_vars
  <2> SUFFICES ASSUME [RoutedNext]_allVars PROVE [Next]_vars OBVIOUS
  <2>1. CASE ControlStep BY <2>1 DEF ControlStep
  <2>2. CASE PassTime BY <2>2 DEF PassTime
  <2>3. CASE \E t \in TaskIds : Invalidate(t) BY <2>3 DEF Invalidate
  <2>4. CASE \E q \in Proxied : ProxyRequest(q) BY <2>4 DEF ProxyRequest
  <2>5. CASE UNCHANGED allVars BY <2>5 DEF allVars
  <2> QED BY <2>1, <2>2, <2>3, <2>4, <2>5 DEF RoutedNext
<1> QED BY <1>1, <1>2, PTL DEF RoutedSpec, Spec

\* The rows and addresses the proxy reads are well formed.
LEMMA RoutedTypes == RoutedSpec => []TypeOK
  BY PlaneUndisturbed, TypeCorrect, PTL

-----------------------------------------------------------------------------
(* The inductive invariant of SteadyIsServed *)

Elements(s) == {s[i] : i \in 1 .. Len(s)}

ProxyReq == [pc : ProxyPC, model : Names \cup {NoModel},
             spelt : {"stored", "other"}, todo : Seq(Targets),
             ok : Seq(Targets), cut : BOOLEAN]

Route == [list : Seq(Targets), ttl : Nat]

ProxyTypeOK ==
    /\ routes \in [Names -> Route]
    /\ rr \in [Names -> Nat]
    /\ glitches \in Nat
    /\ px \in [Proxied -> ProxyReq]

(***************************************************************************)
(* While the targets that the database listed are probed, a steady target  *)
(* is among those still to be probed or those found healthy.               *)
(***************************************************************************)
RequestInv(q) ==
    /\ px[q].pc = "idle" => px[q].model = NoModel
    /\ px[q].model = NoModel => /\ px[q].pc \in {"idle", "proxied", "unavailable"}
                                /\ steady[q] = {}
    /\ px[q].pc \in {"probeCached", "probeListed"} => px[q].todo # <<>>
    /\ px[q].pc = "probeListed" =>
          steady[q] \subseteq Elements(px[q].todo) \cup Elements(px[q].ok)
    /\ px[q].pc \in {"clear", "unavailable"} /\ px[q].spelt = "stored" =>
          steady[q] = {}

\* Only a run that deploys or deletes a model has keys to delete.
OwedOK == owed \subseteq {t \in TaskIds : t.kind \in ModelOps}

SteadyInv == ProxyTypeOK /\ \A q \in Proxied : RequestInv(q)

\* What a step makes of the steady targets of a request.
LEMMA SteadyStep ==
    ASSUME Remember, NEW q \in Proxied
    PROVE  /\ px'[q].model = NoModel \/ OwnGlitch(q) => steady'[q] = {}
           /\ px[q].pc # "idle" => steady'[q] \subseteq steady[q]
           /\ px[q].pc # "idle" => steady'[q] \subseteq RoutableNow'[px'[q].model]
  BY DEF Remember

\* A step of somebody else.
LEMMA BystanderInv ==
    ASSUME SteadyInv, Remember, NEW q \in Proxied, px'[q] = px[q]
    PROVE  RequestInv(q)'
<1>1. steady'[q] \subseteq steady[q]
  <2>1. CASE px[q].model = NoModel BY <2>1, SteadyStep
  <2>2. CASE px[q].model # NoModel BY <2>2, SteadyStep DEF SteadyInv, RequestInv
  <2> QED BY <2>1, <2>2
<1> QED BY <1>1 DEF SteadyInv, RequestInv

\* The elements of a nonempty sequence are its head and those of its tail.
LEMMA ElementsOfTail ==
    ASSUME NEW S, NEW s \in Seq(S), s # <<>>
    PROVE  /\ Tail(s) \in Seq(S) /\ Head(s) \in S
           /\ Elements(s) \subseteq {Head(s)} \cup Elements(Tail(s))
<1>1. Len(s) \in Nat \ {0} /\ Len(Tail(s)) = Len(s) - 1 /\ Head(s) = s[1]
      /\ Tail(s) \in Seq(S) /\ Head(s) \in S
  OBVIOUS
<1>2. \A i \in 2 .. Len(s) : s[i] = Tail(s)[i - 1] /\ i - 1 \in 1 .. Len(Tail(s))
  BY <1>1
<1>3. ASSUME NEW i \in 1 .. Len(s) PROVE s[i] \in {Head(s)} \cup Elements(Tail(s))
  <2>1. CASE i = 1 BY <1>1, <2>1
  <2>2. CASE i # 1
    <3>1. i \in 2 .. Len(s) BY <1>1, <2>2
    <3> QED BY <1>2, <3>1 DEF Elements
  <2> QED BY <2>1, <2>2
<1> QED BY <1>1, <1>3 DEF Elements

\* The elements of a sequence that grows.
LEMMA ElementsOfAppend ==
    ASSUME NEW S, NEW s \in Seq(S), NEW e \in S
    PROVE  /\ Append(s, e) \in Seq(S)
           /\ Elements(s) \cup {e} \subseteq Elements(Append(s, e))
<1>1. /\ Append(s, e) \in Seq(S) /\ Len(Append(s, e)) = Len(s) + 1 /\ Len(s) \in Nat
      /\ Append(s, e)[Len(s) + 1] = e
      /\ \A i \in 1 .. Len(s) : Append(s, e)[i] = s[i]
  OBVIOUS
<1>2. \A i \in 1 .. Len(s) : i \in 1 .. Len(Append(s, e)) BY <1>1
<1>3. Len(s) + 1 \in 1 .. Len(Append(s, e)) BY <1>1
<1> QED BY <1>1, <1>2, <1>3 DEF Elements

-----------------------------------------------------------------------------
(* The steps preserve SteadyInv *)

LEMMA OneMovesInv ==
    ASSUME SteadyInv, Remember, NEW q \in Proxied,
           \A p \in Proxied \ {q} : px'[p] = px[p],
           ProxyTypeOK', RequestInv(q)'
    PROVE  SteadyInv'
  BY BystanderInv DEF SteadyInv

\* A step that leaves the proxy requests alone.
LEMMA NoneMovesInv ==
    ASSUME SteadyInv, Remember, UNCHANGED px, ProxyTypeOK'
    PROVE  SteadyInv'
  BY BystanderInv DEF SteadyInv

LEMMA GlitchStep ==
    ASSUME SteadyInv
    PROVE  /\ Glitch => glitches' \in Nat /\ glitches' # glitches
           /\ NoGlitch => glitches' \in Nat
  BY DEF SteadyInv, ProxyTypeOK, Glitch, NoGlitch

LEMMA NoRouteType == NoRoute \in Route
  BY DEF NoRoute, Route

\* The DEL of the keys of a model.
LEMMA InvalidateTypes ==
    ASSUME SteadyInv, NEW m \in Names, invalidateModelCache(m)
    PROVE  routes' \in [Names -> Route] /\ rr' \in [Names -> Nat] /\ glitches' \in Nat
  BY NoRouteType, GlitchStep DEF SteadyInv, ProxyTypeOK, invalidateModelCache

LEMMA TickInv ==
    ASSUME SteadyInv, Remember, Tick
    PROVE  SteadyInv'
<1>1. ASSUME NEW m \in Names
      PROVE  (IF routes[m].ttl \leq 1 THEN NoRoute ELSE [routes[m] EXCEPT !.ttl = @ - 1])
               \in Route
  <2>1. routes[m] \in Route BY DEF SteadyInv, ProxyTypeOK
  <2>2. CASE routes[m].ttl \leq 1 BY <2>2, NoRouteType
  <2>3. CASE ~(routes[m].ttl \leq 1)
    <3>1. routes[m].ttl - 1 \in Nat BY <2>1, <2>3 DEF Route
    <3> QED BY <2>1, <2>3, <3>1 DEF Route
  <2> QED BY <2>2, <2>3
<1>2. ProxyTypeOK' BY <1>1 DEF Tick, SteadyInv, ProxyTypeOK
<1> QED BY <1>2, NoneMovesInv DEF Tick

\* What a slot holds when a request has arrived.
NewRequest(req) ==
    /\ req \in ProxyReq /\ req.ok = <<>>
    /\ \/ /\ req.pc = "probeCached" /\ req.todo # <<>> /\ req.model # NoModel
          /\ \E m \in Names : req.todo = routes[m].list
       \/ req.pc = "query" /\ req.todo = <<>> /\ req.model # NoModel
       \/ req.pc \in {"proxied", "unavailable"} /\ req.todo = <<>> /\ req.model = NoModel

LEMMA Arrival ==
    ASSUME SteadyInv, NEW q \in Proxied, Arrive(q)
    PROVE  \E req : px' = [px EXCEPT ![q] = req] /\ NewRequest(req)
<1>1. /\ NoProxyReq \in ProxyReq
      /\ \A m \in Names : routes[m].list \in Seq(Targets)
  BY DEF NoProxyReq, ProxyReq, Route, ProxyPC, SteadyInv, ProxyTypeOK
<1>2. CASE \E m \in Names, sp \in Spellings :
             /\ routes[m].list # <<>>
             /\ px' = [px EXCEPT ![q] =
                  [[NoProxyReq EXCEPT !.model = m, !.spelt = sp]
                     EXCEPT !.pc = "probeCached", !.todo = routes[m].list]]
  <2>1. PICK m \in Names, sp \in Spellings :
          /\ routes[m].list # <<>>
          /\ px' = [px EXCEPT ![q] =
               [[NoProxyReq EXCEPT !.model = m, !.spelt = sp]
                  EXCEPT !.pc = "probeCached", !.todo = routes[m].list]]
    BY <1>2
  <2>2. sp \in {"stored", "other"} /\ m # NoModel BY DiscoveryAssumption
  <2> DEFINE req == [[NoProxyReq EXCEPT !.model = m, !.spelt = sp]
                       EXCEPT !.pc = "probeCached", !.todo = routes[m].list]
  <2>3. /\ req \in ProxyReq /\ req.ok = <<>> /\ req.todo = routes[m].list
        /\ req.pc = "probeCached" /\ req.todo # <<>> /\ req.model # NoModel
    BY <1>1, <2>1, <2>2 DEF NoProxyReq, ProxyReq, ProxyPC
  <2>4. NewRequest(req) BY <2>3 DEF NewRequest
  <2> QED BY <2>1, <2>4
<1>3. CASE \E m \in Names, sp \in Spellings :
             px' = [px EXCEPT ![q] =
               [[NoProxyReq EXCEPT !.model = m, !.spelt = sp] EXCEPT !.pc = "query"]]
  <2>1. PICK m \in Names, sp \in Spellings :
          px' = [px EXCEPT ![q] =
            [[NoProxyReq EXCEPT !.model = m, !.spelt = sp] EXCEPT !.pc = "query"]]
    BY <1>3
  <2>2. sp \in {"stored", "other"} /\ m # NoModel BY DiscoveryAssumption
  <2> DEFINE req == [[NoProxyReq EXCEPT !.model = m, !.spelt = sp] EXCEPT !.pc = "query"]
  <2>3. /\ req \in ProxyReq /\ req.ok = <<>> /\ req.todo = <<>>
        /\ req.pc = "query" /\ req.model # NoModel
    BY <1>1, <2>2 DEF NoProxyReq, ProxyReq, ProxyPC
  <2>4. NewRequest(req) BY <2>3 DEF NewRequest
  <2> QED BY <2>1, <2>4
<1>4. CASE px' = [px EXCEPT ![q] = [NoProxyReq EXCEPT !.pc =
             IF HasDefaultTarget THEN "proxied" ELSE "unavailable"]]
  <2> DEFINE req == [NoProxyReq EXCEPT !.pc =
                       IF HasDefaultTarget THEN "proxied" ELSE "unavailable"]
  <2>1. /\ req \in ProxyReq /\ req.ok = <<>> /\ req.todo = <<>>
        /\ req.pc \in {"proxied", "unavailable"} /\ req.model = NoModel
    BY <1>1 DEF NoProxyReq, ProxyReq, ProxyPC
  <2>2. NewRequest(req) BY <2>1 DEF NewRequest
  <2> QED BY <1>4, <2>2
<1> QED BY <1>2, <1>3, <1>4 DEF Arrive

\* The steady targets of a new request are the routable ones.
LEMMA ArriveInv ==
    ASSUME SteadyInv, Remember, NEW q \in Proxied, Arrive(q)
    PROVE  SteadyInv'
<1>1. PICK req : px' = [px EXCEPT ![q] = req] /\ NewRequest(req) BY Arrival
<1>2. /\ px' = [px EXCEPT ![q] = req] /\ req \in ProxyReq
      /\ \/ req.pc = "probeCached" /\ req.todo # <<>> /\ req.model # NoModel
         \/ req.pc = "query" /\ req.model # NoModel
         \/ req.pc \in {"proxied", "unavailable"} /\ req.model = NoModel
  BY <1>1 DEF NewRequest
<1>3. px'[q] = req /\ \A p \in Proxied \ {q} : px'[p] = px[p]
  BY <1>2 DEF SteadyInv, ProxyTypeOK
<1>4. ProxyTypeOK' BY <1>2, GlitchStep DEF Arrive, SteadyInv, ProxyTypeOK
<1>5. RequestInv(q)'
  <2>1. req.model = NoModel => steady'[q] = {} BY <1>3, SteadyStep
  <2> QED BY <1>2, <1>3, <2>1 DEF RequestInv
<1> QED BY <1>3, <1>4, <1>5, OneMovesInv

\* The request moves on and keeps the rest of its state.
LEMMA MoveTypes ==
    ASSUME SteadyInv, NEW q \in Proxied, NEW pc \in ProxyPC, Move(q, pc)
    PROVE  /\ px' \in [Proxied -> ProxyReq]
           /\ \A p \in Proxied \ {q} : px'[p] = px[p]
           /\ px'[q].pc = pc /\ px'[q].model = px[q].model
           /\ px'[q].spelt = px[q].spelt /\ px'[q].todo = px[q].todo
           /\ px'[q].ok = px[q].ok
  BY DEF SteadyInv, ProxyTypeOK, ProxyReq, Move

LEMMA CacheTargetsInv ==
    ASSUME SteadyInv, Remember, NEW q \in Proxied, CacheTargets(q)
    PROVE  SteadyInv'
<1>1. px[q] \in ProxyReq /\ px[q].model \in Names /\ px[q].pc \in {"trim", "put"}
  BY DEF CacheTargets, SteadyInv, ProxyTypeOK, RequestInv, ProxyReq
<1>2. Move(q, "select") BY DEF CacheTargets
<1>3. [list |-> px[q].ok, ttl |-> TTL] \in Route
  BY <1>1, DiscoveryAssumption DEF ProxyReq, Route
<1>4. ProxyTypeOK'
  BY <1>1, <1>2, <1>3, MoveTypes, GlitchStep
     DEF CacheTargets, setTargetsInCache, SteadyInv, ProxyTypeOK, ProxyPC
<1>5. RequestInv(q)'
  BY <1>1, <1>2, MoveTypes, DiscoveryAssumption DEF RequestInv, ProxyPC
<1> QED BY <1>2, <1>4, <1>5, MoveTypes, OneMovesInv DEF ProxyPC

\* A request that gives up after the probes had no steady target left.
LEMMA ForgetTargetsInv ==
    ASSUME SteadyInv, Remember, NEW q \in Proxied, ForgetTargets(q)
    PROVE  SteadyInv'
<1>1. px[q] \in ProxyReq /\ px[q].model \in Names /\ px[q].pc \in {"drop", "clear"}
  BY DEF ForgetTargets, SteadyInv, ProxyTypeOK, RequestInv, ProxyReq
<1> DEFINE pc == IF px[q].pc = "drop" THEN "query" ELSE "unavailable"
<1>2. pc \in ProxyPC /\ Move(q, pc) BY DEF ForgetTargets, ProxyPC
<1>3. ProxyTypeOK'
  BY <1>1, <1>2, MoveTypes, InvalidateTypes DEF ForgetTargets, ProxyTypeOK
<1>4. steady'[q] \subseteq steady[q] BY <1>1, SteadyStep
<1>5. RequestInv(q)'
  BY <1>1, <1>2, <1>4, MoveTypes, DiscoveryAssumption DEF SteadyInv, RequestInv
<1> QED BY <1>2, <1>3, <1>5, MoveTypes, OneMovesInv

LEMMA TurnInRange == \A a \in Nat, n \in Nat \ {0} : (a % n) + 1 \in 1 .. n
  OBVIOUS

LEMMA SelectInv ==
    ASSUME SteadyInv, Remember, NEW q \in Proxied, SelectRoundRobinTarget(q)
    PROVE  SteadyInv'
<1>1. px[q] \in ProxyReq /\ px[q].model \in Names /\ px[q].pc = "select"
  BY DEF SelectRoundRobinTarget, SteadyInv, ProxyTypeOK, RequestInv, ProxyReq
<1>2. Len(px[q].ok) \in Nat /\ rr[px[q].model] \in Nat
  BY <1>1 DEF SteadyInv, ProxyTypeOK, ProxyReq
<1>3. PICK i \in 1 .. Len(px[q].ok) : Chosen(q, i)
  <2>1. CASE Len(px[q].ok) = 1 /\ Chosen(q, 1) BY <2>1
  <2>2. CASE Len(px[q].ok) > 1 /\ Chosen(q, (rr[px[q].model] % Len(px[q].ok)) + 1)
    <3>1. (rr[px[q].model] % Len(px[q].ok)) + 1 \in 1 .. Len(px[q].ok)
      BY <1>2, <2>2, TurnInRange
    <3> QED BY <2>2, <3>1
  <2> QED BY <2>1, <2>2 DEF SelectRoundRobinTarget
<1>4. <<px[q].ok[i]>> \in Seq(Targets)
  <2>1. px[q].ok[i] \in Targets BY <1>1, <1>3 DEF ProxyReq
  <2> QED BY <2>1
<1>5. /\ px' \in [Proxied -> ProxyReq]
      /\ \A p \in Proxied \ {q} : px'[p] = px[p]
      /\ px'[q].pc = "proxied" /\ px'[q].model = px[q].model
  BY <1>3, <1>4 DEF Chosen, SteadyInv, ProxyTypeOK, ProxyReq, ProxyPC
<1>6. rr' \in [Names -> Nat]
  <2>1. \A k \in Nat : (rr[px[q].model] + k) % RRPeriod \in Nat
    BY <1>2, DiscoveryAssumption
  <2>2. 0 .. RedisAttempts \subseteq Nat BY DiscoveryAssumption
  <2>3. UNCHANGED rr \/ \E k \in Nat :
          rr' = [rr EXCEPT ![px[q].model] = (rr[px[q].model] + k) % RRPeriod]
    BY <2>2 DEF SelectRoundRobinTarget
  <2> QED BY <1>1, <2>1, <2>3 DEF SteadyInv, ProxyTypeOK
<1>7. ProxyTypeOK'
  BY <1>5, <1>6, GlitchStep DEF SelectRoundRobinTarget, SteadyInv, ProxyTypeOK
<1>8. RequestInv(q)' BY <1>1, <1>5, DiscoveryAssumption DEF RequestInv
<1> QED BY <1>5, <1>7, <1>8, OneMovesInv

LEMMA RespondInv ==
    ASSUME SteadyInv, Remember, NEW q \in Proxied, Respond(q)
    PROVE  SteadyInv'
<1>1. NoProxyReq \in ProxyReq BY DEF NoProxyReq, ProxyReq, ProxyPC
<1>2. px'[q] = NoProxyReq /\ \A p \in Proxied \ {q} : px'[p] = px[p]
  BY DEF Respond, SteadyInv, ProxyTypeOK
<1>3. ProxyTypeOK' BY <1>1 DEF Respond, SteadyInv, ProxyTypeOK
<1>4. RequestInv(q)'
  <2>1. steady'[q] = {} BY <1>2, SteadyStep DEF NoProxyReq
  <2> QED BY <1>2, <2>1 DEF RequestInv, NoProxyReq
<1> QED BY <1>2, <1>3, <1>4, OneMovesInv

\* The list of the database holds the target of every row it selects.
LEMMA ListIsComplete ==
    ASSUME TypeOK, NEW m \in Names, NEW list \in ListActiveDeploymentTargets(m)
    PROVE  /\ list \in Seq(Targets)
           /\ Routable(m) \subseteq Elements(list)
           /\ Listed(m) # {} => list # <<>>
<1> DEFINE rows == Listed(m)
           n == Cardinality(rows)
<1>1. IsFiniteSet(rows) /\ n \in Nat
  <2>1. rows \subseteq Requests BY DEF Listed
  <2> QED BY <2>1, DiscoveryAssumption, FS_Subset, FS_CardinalityType
<1>2. PICK f \in [1 .. n -> rows] : /\ \A d \in rows : \E i \in 1 .. n : f[i] = d
                                   /\ list = [i \in 1 .. n |-> Target(f[i])]
  BY DEF ListActiveDeploymentTargets
<1>3. \A d \in rows : Target(d) \in Targets
  BY ConstantsAssumption DEF Listed, Target, Targets, TypeOK, DeploymentRow
<1>4. \A i \in 1 .. n : Target(f[i]) \in Targets BY <1>2, <1>3
<1>5. list \in Seq(Targets) /\ Len(list) = n BY <1>1, <1>2, <1>4
<1>6. \A d \in rows : Target(d) \in Elements(list)
  BY <1>2, <1>5 DEF Elements
<1>7. Listed(m) # {} => n # 0 BY <1>1, FS_EmptySet
<1>8. Listed(m) # {} => list # <<>> BY <1>5, <1>7
<1> QED BY <1>5, <1>6, <1>8 DEF Routable

\* A steady target is routable when the database is asked: it is listed.
LEMMA QueryTargetsInv ==
    ASSUME SteadyInv, TypeOK, Remember, NEW q \in Proxied, QueryTargets(q),
           UNCHANGED vars
    PROVE  SteadyInv'
<1>1. px[q] \in ProxyReq /\ px[q].model \in Names /\ px[q].pc = "query"
  BY DEF QueryTargets, SteadyInv, ProxyTypeOK, RequestInv, ProxyReq
<1>2. RoutableNow'[px[q].model] = Routable(px[q].model)
  BY <1>1 DEF RoutableNow, Routable, Listed, Target, vars
<1>3. UNCHANGED <<routes, rr>> /\ glitches' \in Nat BY GlitchStep DEF QueryTargets
<1>4. CASE \E list \in ListActiveDeploymentTargets(px[q].model) :
             /\ Listed(px[q].model) # {}
             /\ px' = [px EXCEPT ![q].pc = "probeListed", ![q].todo = list]
  <2>1. PICK list \in ListActiveDeploymentTargets(px[q].model) :
          /\ Listed(px[q].model) # {}
          /\ px' = [px EXCEPT ![q].pc = "probeListed", ![q].todo = list]
    BY <1>4
  <2>2. /\ list \in Seq(Targets) /\ list # <<>>
        /\ Routable(px[q].model) \subseteq Elements(list)
    BY <1>1, <2>1, ListIsComplete
  <2>3. /\ px' \in [Proxied -> ProxyReq]
        /\ \A p \in Proxied \ {q} : px'[p] = px[p]
        /\ px'[q].pc = "probeListed" /\ px'[q].todo = list
        /\ px'[q].model = px[q].model
    BY <2>1, <2>2 DEF SteadyInv, ProxyTypeOK, ProxyReq, ProxyPC
  <2>4. steady'[q] \subseteq Elements(list)
    BY <1>1, <1>2, <2>2, <2>3, SteadyStep
  <2>5. RequestInv(q)'
    BY <1>1, <2>2, <2>3, <2>4, DiscoveryAssumption DEF RequestInv
  <2>6. ProxyTypeOK' BY <1>3, <2>3 DEF SteadyInv, ProxyTypeOK
  <2> QED BY <2>3, <2>5, <2>6, OneMovesInv
<1>5. CASE Move(q, "unavailable")
  <2>1. px[q].spelt = "stored" => steady'[q] = {}
    <3>1. px'[q].pc = "unavailable" /\ px'[q].model = px[q].model
      BY <1>5, MoveTypes DEF ProxyPC
    <3>2. CASE Listed(px[q].model) = {}
      <4>1. Routable(px[q].model) = {} BY <3>2 DEF Routable
      <4> QED BY <1>1, <1>2, <3>1, <4>1, SteadyStep
    <3>3. CASE Glitch
      <4>1. OwnGlitch(q) BY <1>1, <3>1, <3>3, GlitchStep DEF OwnGlitch
      <4> QED BY <4>1, SteadyStep
    <3>4. px[q].spelt = "stored" /\ Listed(px[q].model) # {} => Glitch
      <4>1. px \in [Proxied -> ProxyReq] BY DEF SteadyInv, ProxyTypeOK
      <4> QED BY <1>1, <3>1, <4>1 DEF QueryTargets, ProxyReq
    <3> QED BY <3>2, <3>3, <3>4
  <2>2. RequestInv(q)'
    BY <1>1, <1>5, <2>1, MoveTypes, DiscoveryAssumption DEF RequestInv, ProxyPC
  <2>3. ProxyTypeOK' BY <1>3, <1>5, MoveTypes DEF SteadyInv, ProxyTypeOK, ProxyPC
  <2> QED BY <1>5, <2>2, <2>3, MoveTypes, OneMovesInv DEF ProxyPC
<1> QED BY <1>4, <1>5 DEF QueryTargets

\* A target that is left out was not routable, or the probe failed.
LEMMA ProbeInv ==
    ASSUME SteadyInv, Remember, NEW q \in Proxied, Probe(q), UNCHANGED vars
    PROVE  SteadyInv'
<1> DEFINE tg == Head(px[q].todo)
           rest == Tail(px[q].todo)
<1>1. /\ px[q] \in ProxyReq /\ px[q].model \in Names
      /\ px[q].pc \in {"probeCached", "probeListed"} /\ px[q].todo # <<>>
      /\ px[q].todo \in Seq(Targets) /\ px[q].ok \in Seq(Targets)
  BY DEF Probe, SteadyInv, ProxyTypeOK, RequestInv, ProxyReq
<1>2. /\ rest \in Seq(Targets) /\ tg \in Targets
      /\ Elements(px[q].todo) \subseteq {tg} \cup Elements(rest)
  BY <1>1, ElementsOfTail
<1>3. Elements(<<>>) = {} BY DEF Elements
<1>4. PICK ok \in Seq(Targets), cut \in BOOLEAN :
        /\ ProbeResult(q, ok, cut)
        /\ \/ Elements(px[q].ok) \cup {tg} \subseteq Elements(ok)
           \/ ok = px[q].ok /\ (tg \in kube => Glitch)
  <2>1. CASE ProbeResult(q, Append(px[q].ok, tg), px[q].cut)
    <3>1. /\ Append(px[q].ok, tg) \in Seq(Targets) /\ px[q].cut \in BOOLEAN
          /\ Elements(px[q].ok) \cup {tg} \subseteq Elements(Append(px[q].ok, tg))
      BY <1>1, <1>2, ElementsOfAppend DEF ProxyReq
    <3> QED BY <2>1, <3>1, Zenon
  <2>2. CASE ProbeResult(q, px[q].ok, TRUE) /\ (tg \in kube => Glitch)
    BY <1>1, <2>2
  <2> QED BY <2>1, <2>2 DEF Probe, isTargetHealthy
<1>5. AfterProbes(px[q].pc, ok, cut) \in ProxyPC \ {"idle"}
  BY DEF AfterProbes, ProxyPC
<1>6. /\ px' \in [Proxied -> ProxyReq]
      /\ \A p \in Proxied \ {q} : px'[p] = px[p]
      /\ px'[q].todo = rest /\ px'[q].ok = ok
      /\ px'[q].model = px[q].model
      /\ px'[q].pc = IF rest = <<>> THEN AfterProbes(px[q].pc, ok, cut) ELSE px[q].pc
  BY <1>1, <1>2, <1>4, <1>5 DEF ProbeResult, SteadyInv, ProxyTypeOK, ProxyReq
<1>7. ProxyTypeOK'
  <2>1. UNCHANGED <<routes, rr>> /\ glitches' \in Nat BY GlitchStep DEF Probe
  <2> QED BY <1>6, <2>1 DEF SteadyInv, ProxyTypeOK
<1>8. px[q].pc = "probeListed" => steady'[q] \subseteq Elements(rest) \cup Elements(ok)
  <2> SUFFICES ASSUME px[q].pc = "probeListed", NEW e \in steady'[q]
               PROVE  e \in Elements(rest) \cup Elements(ok)
    OBVIOUS
  <2>1. e \in {tg} \cup Elements(rest) \cup Elements(px[q].ok)
    BY <1>1, <1>2, SteadyStep DEF SteadyInv, RequestInv
  <2>2. CASE Elements(px[q].ok) \cup {tg} \subseteq Elements(ok) BY <2>1, <2>2
  <2>3. CASE ok = px[q].ok /\ (tg \in kube => Glitch)
    <3>1. CASE e # tg BY <2>1, <2>3, <3>1
    <3>2. CASE e = tg
      <4>1. e \in RoutableNow'[px[q].model]
        BY <1>1, <1>6, SteadyStep
      <4>2. e \in kube
        BY <1>1, <4>1 DEF RoutableNow, Routable, vars
      <4>3. OwnGlitch(q)
        <5>1. glitches' # glitches BY <2>3, <3>2, <4>2, GlitchStep
        <5>2. px'[q] # px[q]
          <6>1. Len(rest) # Len(px[q].todo) BY <1>1
          <6> QED BY <1>6, <6>1
        <5> QED BY <1>1, <5>1, <5>2 DEF OwnGlitch
      <4> QED BY <4>3, SteadyStep
    <3> QED BY <3>1, <3>2
  <2> QED BY <1>4, <2>2, <2>3
<1>9. RequestInv(q)'
  <2>1. CASE rest # <<>>
    BY <1>1, <1>6, <1>8, <2>1, DiscoveryAssumption DEF RequestInv
  <2>2. CASE rest = <<>>
    <3>1. px'[q].pc \in {"drop", "clear", "put", "trim", "select"}
      BY <1>6, <2>2 DEF AfterProbes
    <3>2. px'[q].pc = "clear" => px[q].pc = "probeListed" /\ ok = <<>>
      BY <1>1, <1>6, <2>2 DEF AfterProbes
    <3>3. px'[q].pc = "clear" => steady'[q] = {}
      BY <1>3, <1>8, <2>2, <3>2
    <3> QED BY <1>1, <1>6, <3>1, <3>3, DiscoveryAssumption DEF RequestInv
  <2> QED BY <2>1, <2>2
<1> QED BY <1>6, <1>7, <1>9, OneMovesInv

LEMMA OwedModel ==
    ASSUME OwedOK, NEW t \in owed
    PROVE  ModelName(t.id) \in Names
  BY ConstantsAssumption, DiscoveryAssumption
     DEF OwedOK, TaskIds, TaskOf, ClusterOps, ModelOps, ModelName

LEMMA OwedStep ==
    ASSUME OwedOK, [RoutedNext]_allVars
    PROVE  OwedOK'
<1>1. CASE ControlStep
  <2>1. \A t \in owed' : t \in owed \/ (t \in TaskIds /\ (Invalidates(t) \/ MayInvalidate(t)))
    BY <1>1 DEF ControlStep
  <2> QED BY <2>1 DEF OwedOK, Invalidates, MayInvalidate, ModelOps
<1>2. CASE \E t \in TaskIds : Invalidate(t) BY <1>2 DEF Invalidate, OwedOK
<1>3. CASE UNCHANGED owed BY <1>3 DEF OwedOK
<1> QED BY <1>1, <1>2, <1>3 DEF RoutedNext, PassTime, ProxyRequest, allVars

\* What the proxy keeps is well formed, and a steady target is not dropped.
LEMMA SteadyInvariance == RoutedSpec => [](SteadyInv /\ OwedOK)
<1>1. RoutedInit => SteadyInv /\ OwedOK
  <2> SUFFICES ASSUME RoutedInit PROVE SteadyInv /\ OwedOK OBVIOUS
  <2>1. NoProxyReq \in ProxyReq BY DEF NoProxyReq, ProxyReq, ProxyPC
  <2>2. ProxyTypeOK
    BY <2>1, NoRouteType DEF RoutedInit, HistoryInit, DiscoveryInit, ProxyTypeOK
  <2>3. \A q \in Proxied : RequestInv(q)
    BY DEF RoutedInit, HistoryInit, DiscoveryInit, RequestInv, NoProxyReq
  <2>4. OwedOK BY DEF RoutedInit, HistoryInit, OwedOK
  <2> QED BY <2>2, <2>3, <2>4 DEF SteadyInv
<1>2. TypeOK /\ SteadyInv /\ OwedOK /\ [RoutedNext]_allVars => SteadyInv'
  <2> SUFFICES ASSUME TypeOK, SteadyInv, OwedOK, [RoutedNext]_allVars
               PROVE  SteadyInv'
    OBVIOUS
  <2>1. CASE ControlStep /\ Remember
    <3>1. UNCHANGED routeVars BY <2>1 DEF ControlStep
    <3>2. ProxyTypeOK' BY <3>1 DEF routeVars, SteadyInv, ProxyTypeOK
    <3> QED BY <2>1, <3>1, <3>2, NoneMovesInv DEF routeVars
  <2>2. CASE PassTime /\ Remember BY <2>2, TickInv DEF PassTime
  <2>3. CASE (\E t \in TaskIds : Invalidate(t)) /\ Remember
    <3>1. PICK t \in TaskIds : Invalidate(t) BY <2>3
    <3>2. ModelName(t.id) \in Names BY <3>1, OwedModel DEF Invalidate
    <3>3. ProxyTypeOK'
      BY <3>1, <3>2, InvalidateTypes DEF Invalidate, SteadyInv, ProxyTypeOK
    <3> QED BY <2>3, <3>1, <3>3, NoneMovesInv DEF Invalidate
  <2>4. CASE (\E q \in Proxied : ProxyRequest(q)) /\ Remember
    <3>1. PICK q \in Proxied : ProxyRequest(q) BY <2>4
    <3> QED BY <2>4, <3>1, ArriveInv, ProbeInv, CacheTargetsInv, ForgetTargetsInv,
               QueryTargetsInv, SelectInv, RespondInv DEF ProxyRequest, ProxyStep
  <2>5. CASE UNCHANGED allVars
    BY <2>5 DEF allVars, routeVars, history, SteadyInv, ProxyTypeOK, RequestInv
  <2> QED BY <2>1, <2>2, <2>3, <2>4, <2>5 DEF RoutedNext
<1>3. OwedOK /\ [RoutedNext]_allVars => OwedOK' BY OwedStep
<1> QED BY <1>1, <1>2, <1>3, RoutedTypes, PTL DEF RoutedSpec

(***************************************************************************)
(* A request for a model with a target that is active, on an active        *)
(* cluster and answering all the while is never answered 503, unless one   *)
(* of its own probes or its own query failed.                              *)
(***************************************************************************)
THEOREM SteadyTargetsServe == RoutedSpec => []SteadyIsServed
<1>1. SteadyInv => SteadyIsServed BY DEF SteadyInv, RequestInv, SteadyIsServed
<1> QED BY <1>1, SteadyInvariance, PTL

-----------------------------------------------------------------------------
(* The inductive invariant of OutrunIsInvalidated *)

\* The cascade of a destroy run changes deployments and deletes no keys.
NoDestroys == \A r \in Requests : Op[r] # "destroy"

\* A deploy run that is at one of these steps deletes the keys of its model
\* at a later one, whichever way it goes.
BeforeInvalidation == {"running", "connect", "apply", "deploying", "wait", "save",
                       "complete", "markFailed"}

\* The run has the deletion of the keys before it.
WillInvalidate(t) ==
    \/ t \in owed
    \/ t.kind = "deploy" /\ runs[t].pc \in BeforeInvalidation

(***************************************************************************)
(* A list that was outrun is still to be deleted by a run.  That a run for *)
(* the model is under way is not inductive: it may have deleted already.   *)
(***************************************************************************)
OutrunInv ==
    /\ \A t \in owed : runs[t].pc # "idle"
    /\ \A m \in outrun : \E t \in TaskIds :
          t.kind \in ModelOps /\ ModelName(t.id) = m /\ WillInvalidate(t)

\* No run was lost and none was pushed back.
NoRunEnds == /\ faults'["lost"] = faults["lost"]
             /\ faults'["restart"] = faults["restart"]

\* The steps of a run leave the other runs alone.
LEMMA OneRunMoves ==
    ASSUME TypeOK, NEW t \in TaskIds, ClusterWork(t) \/ ModelWork(t)
    PROVE  /\ ClusterWork(t) => t.kind \in ClusterOps
           /\ ModelWork(t) => t.kind \in ModelOps
           /\ \A u \in TaskIds \ {t} : runs'[u] = runs[u]
BY DEF ClusterOps, ClusterWork, SetInstalling, ProvisionCluster, FetchKubeconfig,
   SaveActive, SetDestroying, DestroyCluster, SaveDestroyed, OrphanDeployments,
   MarkClusterFailed, TypeOK, ModelWork, Connect, MarkDeploymentFailed, SetBuilding, ApplyModel,
   SetDeploying, WaitHealthy, SaveDeployed, SetDeleting, RemoveModel, SaveDeleted,
   At, Goto, ModelOps

(***************************************************************************)
(* The step by which a model handler moves a deployment in or out of the   *)
(* active ones is an invalidating one, or one of a deploy run that has its *)
(* invalidation to come.                                                   *)
(***************************************************************************)
LEMMA ModelWrite ==
    ASSUME Patient, ControlInv, SerialInv, NEW t \in TaskIds, ModelWork(t),
           NEW d \in Requests,
           (deployments'[d].status = "active") # (deployments[d].status = "active")
    PROVE  /\ t.id = d
           /\ \/ Invalidates(t)
              \/ t.kind = "deploy" /\ runs'[t].pc \in BeforeInvalidation
<1>1. /\ TypeOK /\ runs \in [TaskIds -> Run] /\ ~Fault("io") /\ ModelRunFits(t)
  BY NoStoreFault, RunFacts DEF ControlInv, TypeOK
<1>2. ASSUME NEW st, NEW ip, UpdateDeploymentServiceURL(t.id, st, ip), st # Absent
      PROVE  /\ t.id = d
             /\ st = "active" \/ deployments[d].status = "active"
  BY <1>1, <1>2 DEF UpdateDeploymentServiceURL, TypeOK, Absent
<1>3. CASE MarkDeploymentFailed(t)
  <2>1. t.id = d /\ deployments[d].status = "active"
    BY <1>1, <1>2, <1>3
       DEF MarkDeploymentFailed, TryUpdateDeploymentStatus, UpdateDeploymentStatus, Absent
  <2>2. Steps(t, "markFailed", "failJob") /\ t.kind \in ModelOps
    BY <1>1, <1>3 DEF MarkDeploymentFailed, Steps, Goto
  <2>3. t.kind # "delete"
    BY <1>1, <2>1, <2>2 DEF ModelRunFits, Steps
  <2> QED BY <2>1, <2>2, <2>3 DEF Invalidates, ModelOps
<1>4. CASE SetBuilding(t)
  <2>1. t.id = d
    BY <1>1, <1>2, <1>4
       DEF SetBuilding, TryUpdateDeploymentStatus, UpdateDeploymentStatus, Absent
  <2>2. t.kind = "deploy" /\ runs'[t].pc = "running"
    BY <1>1, <1>4 DEF SetBuilding, At, Goto
  <2> QED BY <2>1, <2>2 DEF BeforeInvalidation
<1>5. CASE SetDeploying(t)
  <2>1. t.id = d
    BY <1>1, <1>2, <1>5
       DEF SetDeploying, TryUpdateDeploymentStatus, UpdateDeploymentStatus, Absent
  <2>2. t.kind = "deploy" /\ runs'[t].pc = "wait"
    BY <1>1, <1>5 DEF SetDeploying, At, Goto
  <2> QED BY <2>1, <2>2 DEF BeforeInvalidation
<1>6. CASE SaveDeployed(t)
  <2>1. t.id = d
    BY <1>1, <1>2, <1>6 DEF SaveDeployed, Absent
  <2>2. t.kind = "deploy" /\ Goto(t, "complete")
    BY <1>1, <1>6 DEF SaveDeployed, At
  <2>3. runs'[t].pc = "complete"
    BY <1>1, <2>2 DEF Goto
  <2> QED BY <2>1, <2>2, <2>3 DEF BeforeInvalidation
<1>7. CASE SetDeleting(t)
  <2>1. t.id = d
    BY <1>1, <1>2, <1>7
       DEF SetDeleting, TryUpdateDeploymentStatus, UpdateDeploymentStatus, Absent
  <2>2. t.kind = "delete" /\ Steps(t, "deleting", "running")
    BY <1>1, <1>7 DEF SetDeleting, At, Goto, Steps
  <2> QED BY <2>1, <2>2 DEF Invalidates
<1>8. CASE SaveDeleted(t)
  <2>1. t.id = d /\ deployments[d].status = "active"
    BY <1>1, <1>2, <1>8 DEF SaveDeleted, UpdateDeploymentStatus, Absent
  <2>2. t.kind = "delete" /\ runs[t].pc = "save"
    BY <1>8 DEF SaveDeleted, At
  <2> QED BY <1>1, <2>1, <2>2 DEF ModelRunFits
<1>9. CASE Connect(t) \/ ApplyModel(t) \/ WaitHealthy(t) \/ RemoveModel(t)
  BY <1>9 DEF Connect, ApplyModel, WaitHealthy, RemoveModel
<1> QED BY <1>3, <1>4, <1>5, <1>6, <1>7, <1>8, <1>9 DEF ModelWork

\* No other step of the control plane does so.
LEMMA ActiveChanges ==
    ASSUME Patient, NoDestroys, ControlInv, SerialInv, Next, NEW d \in Requests,
           (deployments'[d].status = "active") # (deployments[d].status = "active")
    PROVE  \E t \in TaskIds : ModelWork(t)
<1>1. ASSUME NEW r \in Requests, RequestWork(r) PROVE FALSE
  <2>1. CASE UNCHANGED deployments BY <2>1
  <2>2. CASE CreateDeploymentRow(r)
    <3>1. DepOf[r] = r /\ deployments[r].status = Absent
      BY <2>2, WorkloadAssumption
         DEF CreateDeploymentRow, ControlInv, RowInv, RowInvOf, DeploymentExists
    <3>2. \/ deployments' = deployments
          \/ \E s : deployments' = [deployments EXCEPT
                ![r] = [status |-> "pending", cluster |-> s, url |-> NoIP]]
      BY <2>2, <3>1 DEF CreateDeploymentRow, CreateDeployment
    <3> QED BY <3>1, <3>2 DEF ControlInv, TypeOK, Absent
  <2> QED BY <1>1, <2>1, <2>2
      DEF RequestWork, LookupForProvision, CreateClusterRow, ResetClusterRow,
          LookupForDestroy, LookupForDeploy, LookupForDelete, CreateJobRecord, ServerDies
<1>2. ASSUME NEW t \in TaskIds, ClusterWork(t) PROVE FALSE
  <2>1. t.kind # "destroy" BY TaskFacts DEF NoDestroys, TaskIds
  <2> QED BY <1>2, <2>1
      DEF ClusterWork, SetInstalling, ProvisionCluster, FetchKubeconfig, SaveActive,
          SetDestroying, DestroyCluster, SaveDestroyed, OrphanDeployments,
          MarkClusterFailed, At
<1>3. CASE JobNext
  <2>1. ASSUME NEW r \in Requests, Enqueue(r) PROVE FALSE BY <2>1 DEF Enqueue
  <2>2. ASSUME NEW t \in TaskIds,
               \/ StartTask(t) \/ JobRunning(t) \/ CompleteJob(t) \/ FailJob(t)
               \/ ReturnNil(t) \/ ReturnErr(t) \/ RunLost(t) \/ RunRequeued(t)
        PROVE  FALSE
    BY <2>2 DEF StartTask, JobRunning, CompleteJob, FailJob, ReturnNil, ReturnErr,
       RunLost, RunRequeued, EndRun
  <2> QED BY <1>1, <1>3, <2>1, <2>2 DEF JobNext, RequestWork
<1>4. CASE ClusterNext
  BY <1>1, <1>2, <1>4 DEF ClusterNext, RequestWork, ClusterWork
<1>5. CASE ModelNext
  BY <1>1, <1>5 DEF ModelNext, RequestWork, ModelWork
<1>6. CASE Finished BY <1>6 DEF Finished, vars
<1> QED BY <1>3, <1>4, <1>5, <1>6 DEF Next

\* A deploy run that has its invalidation to come comes to it.
LEMMA DeployGoesOn ==
    ASSUME TypeOK, QueueInv, Next, NoRunEnds, NEW t \in TaskIds, t.kind = "deploy",
           runs[t].pc \in BeforeInvalidation
    PROVE  runs'[t].pc \in BeforeInvalidation \/ Invalidates(t)
<1>1. runs \in [TaskIds -> Run] /\ faults \in [FaultKinds -> Nat] BY DEF TypeOK
<1> USE DEF BeforeInvalidation
<1>2. CASE runs'[t] = runs[t] BY <1>2
<1>3. ASSUME NEW pc, Goto(t, pc) PROVE runs'[t].pc = pc BY <1>1, <1>3 DEF Goto
<1>4. CASE ModelWork(t)
  <2>1. CASE Connect(t)
    <3>1. runs'[t].pc \in {"apply", "markFailed"} BY <1>1, <1>3, <2>1 DEF Connect
    <3> QED BY <3>1
  <2>2. CASE MarkDeploymentFailed(t)
    BY <1>3, <2>2 DEF MarkDeploymentFailed, Invalidates, Steps
  <2>3. CASE ApplyModel(t) BY <1>3, <2>3 DEF ApplyModel
  <2>4. CASE SetDeploying(t) BY <1>3, <2>4 DEF SetDeploying
  <2>5. CASE WaitHealthy(t) BY <1>3, <2>5 DEF WaitHealthy
  <2>6. CASE SaveDeployed(t) BY <1>3, <2>6 DEF SaveDeployed, At, Invalidates, Steps
  <2> QED BY <1>4, <2>1, <2>2, <2>3, <2>4, <2>5, <2>6
      DEF ModelWork, SetBuilding, SetDeleting, RemoveModel, SaveDeleted, At
<1>5. CASE JobNext
  <2>1. CASE \E u \in TaskIds : RunLost(u) \/ RunRequeued(u)
    BY <1>1, <2>1 DEF RunLost, RunRequeued, Fault, NoRunEnds, FaultKinds
  <2>2. ASSUME NEW u \in TaskIds,
               \/ StartTask(u) \/ JobRunning(u) \/ CompleteJob(u)
               \/ FailJob(u) \/ ReturnNil(u) \/ ReturnErr(u)
        PROVE  u = t \/ runs'[t] = runs[t]
    BY <1>1, <2>2
       DEF StartTask, JobRunning, CompleteJob, FailJob, ReturnNil, ReturnErr, EndRun, Goto
  <2>3. CASE JobRunning(t) BY <1>3, <2>3 DEF JobRunning, AfterRunning
  <2>4. CASE CompleteJob(t) BY <1>3, <2>4 DEF CompleteJob, Invalidates, Steps
  <2>5. ~(StartTask(t) \/ FailJob(t) \/ ReturnNil(t) \/ ReturnErr(t))
    BY DEF QueueInv, StartTask, FailJob, ReturnNil, ReturnErr
  <2>6. CASE \E r \in Requests : CreateJobRecord(r) \/ Enqueue(r) \/ ServerDies(r)
    BY <1>2, <2>6 DEF CreateJobRecord, Enqueue, ServerDies
  <2> QED BY <1>2, <1>5, <2>1, <2>2, <2>3, <2>4, <2>5, <2>6 DEF JobNext
<1>6. CASE \E r \in Requests : RequestWork(r)
  BY <1>2, <1>6 DEF RequestWork, LookupForProvision, CreateClusterRow, ResetClusterRow,
     LookupForDestroy, LookupForDeploy, LookupForDelete, CreateDeploymentRow,
     CreateJobRecord, ServerDies
<1>7. CASE \E u \in TaskIds : ClusterWork(u)
  BY <1>2, <1>7, OneRunMoves DEF ClusterOps
<1>8. CASE \E u \in TaskIds : ModelWork(u)
  BY <1>2, <1>4, <1>8, OneRunMoves
<1>9. CASE Finished BY <1>2, <1>9 DEF Finished, vars
<1> QED BY <1>5, <1>6, <1>7, <1>8, <1>9
    DEF Next, ClusterNext, ModelNext, RequestWork, ClusterWork, ModelWork

\* A run that is neither lost nor pushed back ends when its handler returns.
LEMMA EndsByReturning ==
    ASSUME ControlInv, Next, NoRunEnds, NEW t \in TaskIds,
           runs[t].pc # "idle", runs'[t].pc = "idle"
    PROVE  UNCHANGED faults
<1>1. /\ TypeOK /\ QueueInv /\ RowInv /\ runs \in [TaskIds -> Run]
      /\ faults \in [FaultKinds -> Nat]
  BY DEF ControlInv, TypeOK
<1>2. ASSUME NEW u \in TaskIds, ClusterWork(u) \/ ModelWork(u) PROVE FALSE
  <2>1. WorkStep(u) BY <1>1, <1>2, ClusterWorkIsWork, ModelWorkIsWork
  <2> QED BY <1>1, <2>1 DEF WorkStep
<1>3. CASE JobNext
  <2>1. CASE \E u \in TaskIds : RunLost(u) \/ RunRequeued(u)
    BY <1>1, <2>1 DEF RunLost, RunRequeued, Fault, NoRunEnds, FaultKinds
  <2>2. ASSUME NEW u \in TaskIds,
               \/ JobRunning(u) \/ CompleteJob(u) \/ FailJob(u)
               \/ StartTask(u) \/ ReturnNil(u) \/ ReturnErr(u)
        PROVE  UNCHANGED faults
    <3>1. CASE JobRunning(u) \/ CompleteJob(u) \/ FailJob(u)
      <4>1. PICK pc : pc # "idle" /\ Goto(u, pc)
        BY <3>1, TaskFacts
           DEF JobRunning, CompleteJob, FailJob, AfterRunning, ClusterOps, ModelOps
      <4> QED BY <1>1, <4>1 DEF Goto
    <3> QED BY <2>2, <3>1 DEF StartTask, ReturnNil, ReturnErr, NoFault
  <2>3. CASE \E r \in Requests : CreateJobRecord(r) \/ Enqueue(r) \/ ServerDies(r)
    BY <2>3 DEF CreateJobRecord, Enqueue, ServerDies
  <2> QED BY <1>3, <2>1, <2>2, <2>3 DEF JobNext
<1>4. ASSUME NEW r \in Requests, RequestWork(r) PROVE FALSE
  BY <1>4 DEF RequestWork, LookupForProvision, CreateClusterRow, ResetClusterRow,
     LookupForDestroy, LookupForDeploy, LookupForDelete, CreateDeploymentRow,
     CreateJobRecord, ServerDies
<1>5. CASE Finished BY <1>5 DEF Finished, vars
<1> QED BY <1>2, <1>3, <1>4, <1>5
    DEF Next, ClusterNext, ModelNext, RequestWork, ClusterWork, ModelWork

\* A run that has to delete the keys does nothing else first.
LEMMA OwedWaits ==
    ASSUME ControlInv, OwedOK, OutrunInv, ControlStep, NoRunEnds, NEW t \in owed
    PROVE  t \in owed'
<1>1. runs'[t] = runs[t] \/ faults' # faults BY DEF ControlStep
<1>2. t \in TaskIds /\ runs[t].pc # "idle" /\ Next
  BY DEF OwedOK, OutrunInv, ControlStep
<1>3. runs'[t].pc # "idle" BY <1>1, <1>2, EndsByReturning
<1> QED BY <1>3 DEF ControlStep

\* The control plane keeps what it owes.
LEMMA ControlOutrun ==
    ASSUME Patient, NoDestroys, ControlInv, SerialInv, OwedOK, OutrunInv,
           ControlStep, Remember
    PROVE  OutrunInv'
<1>1. /\ Next /\ TypeOK /\ QueueInv
  BY DEF ControlStep, ControlInv
<1>2. ASSUME NEW t \in owed' PROVE runs'[t].pc # "idle"
  BY DEF ControlStep, Invalidates, MayInvalidate, Steps
<1>3. \A t \in TaskIds : Invalidates(t) => t \in owed'
  BY DEF ControlStep
<1>4. ASSUME NEW m \in outrun'
      PROVE  \E t \in TaskIds :
                t.kind \in ModelOps /\ ModelName(t.id) = m /\ WillInvalidate(t)'
  <2>1. NoRunEnds /\ m \in Names /\ (m \in outrun \/ ActiveNow'[m] # ActiveNow[m])
    BY DEF Remember, InvalidationFails, NoRunEnds
  <2>2. CASE m \in outrun
    <3>1. PICK t \in TaskIds :
            t.kind \in ModelOps /\ ModelName(t.id) = m /\ WillInvalidate(t)
      BY <2>2 DEF OutrunInv
    <3>2. WillInvalidate(t)'
      BY <1>1, <1>3, <2>1, <3>1, OwedWaits, DeployGoesOn DEF WillInvalidate
    <3> QED BY <3>1, <3>2
  <2>3. CASE ActiveNow'[m] # ActiveNow[m]
    <3>1. PICK d \in Requests :
            /\ ModelName(d) = m
            /\ (deployments'[d].status = "active") # (deployments[d].status = "active")
      BY <2>1, <2>3 DEF ActiveNow
    <3>2. PICK t \in TaskIds : ModelWork(t) BY <1>1, <3>1, ActiveChanges
    <3>3. /\ t.id = d /\ t.kind \in ModelOps
          /\ \/ Invalidates(t)
             \/ t.kind = "deploy" /\ runs'[t].pc \in BeforeInvalidation
      BY <1>1, <3>1, <3>2, ModelWrite, OneRunMoves
    <3> QED BY <1>3, <3>1, <3>3 DEF WillInvalidate
  <2> QED BY <2>1, <2>2, <2>3
<1> QED BY <1>2, <1>4 DEF OutrunInv

\* The DEL of a run: the list is gone, or the history is.
LEMMA InvalidateOutrun ==
    ASSUME SteadyInv, OwedOK, OutrunInv, NEW t \in TaskIds, Invalidate(t), Remember
    PROVE  OutrunInv'
<1>1. /\ UNCHANGED <<runs, deployments>> /\ owed' = owed \ {t} /\ t \in owed
      /\ ModelName(t.id) \in Names
  BY OwedModel DEF Invalidate, vars
<1>2. ASSUME NEW m \in outrun'
      PROVE  m \in outrun /\ m # ModelName(t.id)
  <2>1. ActiveNow' = ActiveNow BY <1>1 DEF ActiveNow
  <2>2. m \in outrun /\ m \in Names /\ routes'[m].list # <<>> /\ ~InvalidationFails
    BY <2>1 DEF Remember
  <2>3. NoGlitch
    <3>1. ~Glitch BY <1>1, <2>2, GlitchStep DEF InvalidationFails
    <3> QED BY <3>1 DEF Invalidate, invalidateModelCache
  <2>4. routes'[ModelName(t.id)].list = <<>>
    BY <1>1, <2>3, GlitchStep
       DEF Invalidate, invalidateModelCache, NoGlitch, Glitch, NoRoute, SteadyInv, ProxyTypeOK
  <2> QED BY <2>2, <2>4
<1> QED BY <1>1, <1>2 DEF OutrunInv, WillInvalidate

(***************************************************************************)
(* "Cache invalidation on deploy/fail", for every workload without destroy *)
(* requests, any number of models, deployments, proxy requests, retries,   *)
(* lost runs and failures of Redis on the proxy's side, when clients wait  *)
(* and the store does not fail: a list that the table of deployments has   *)
(* outrun is there only while a run that will delete it is under way.      *)
(***************************************************************************)
THEOREM OutrunListsInvalidated ==
    ASSUME Patient, NoDestroys PROVE RoutedSpec => []OutrunIsInvalidated
<1>1. RoutedInit => OutrunInv BY DEF RoutedInit, HistoryInit, OutrunInv
<1>2. ControlInv /\ SerialInv /\ SteadyInv /\ OwedOK /\ OutrunInv /\ [RoutedNext]_allVars
        => OutrunInv'
  <2> SUFFICES ASSUME ControlInv, SerialInv, SteadyInv, OwedOK, OutrunInv,
                      [RoutedNext]_allVars
               PROVE  OutrunInv'
    OBVIOUS
  <2>1. CASE ControlStep /\ Remember BY <2>1, ControlOutrun
  <2>2. CASE (\E t \in TaskIds : Invalidate(t)) /\ Remember BY <2>2, InvalidateOutrun
  <2>3. CASE UNCHANGED <<vars, owed>> /\ Remember
    <3>1. ActiveNow' = ActiveNow BY <2>3 DEF vars, ActiveNow
    <3>2. outrun' \subseteq outrun BY <2>3, <3>1 DEF Remember
    <3> QED BY <2>3, <3>2 DEF vars, OutrunInv, WillInvalidate
  <2>4. CASE UNCHANGED allVars
    BY <2>4 DEF allVars, vars, history, OutrunInv, WillInvalidate
  <2> QED BY <2>1, <2>2, <2>3, <2>4 DEF RoutedNext, PassTime, ProxyRequest
<1>3. OwedOK /\ OutrunInv => OutrunIsInvalidated
  BY DEF OwedOK, OutrunInv, WillInvalidate, BeforeInvalidation, OutrunIsInvalidated
<1>4. Spec => []ControlInv /\ []SerialInv BY ControlInvariant, SerialInvariant, PTL
<1> QED BY <1>1, <1>2, <1>3, <1>4, PlaneUndisturbed, SteadyInvariance, PTL DEF RoutedSpec

-----------------------------------------------------------------------------
(* The inductive invariant of TurnsRotate *)

LEMMA RemainderIsUnique ==
    ASSUME NEW a \in Nat, NEW n \in Nat \ {0}, NEW k \in Nat, NEW r \in 0 .. n - 1,
           a = n * k + r
    PROVE  a % n = r
OBVIOUS

LEMMA NextRemainder ==
    ASSUME NEW a \in Nat, NEW n \in Nat \ {0}
    PROVE  (a + 1) % n = ((a % n) + 1) % n
<1> DEFINE k == a \div n
           r == a % n
<1>1. k \in Nat /\ r \in 0 .. n - 1 /\ a = n * k + r OBVIOUS
<1> HIDE DEF k, r
<1>2. CASE r + 1 < n
  <2>1. r + 1 \in 0 .. n - 1 /\ a + 1 = n * k + (r + 1) BY <1>1, <1>2
  <2>2. (a + 1) % n = r + 1 BY <2>1, <1>1, RemainderIsUnique
  <2>3. (r + 1) % n = r + 1 BY <2>1
  <2> QED BY <2>2, <2>3 DEF r
<1>3. CASE r + 1 = n
  <2>1. k + 1 \in Nat /\ 0 \in 0 .. n - 1 BY <1>1
  <2>2. n * (k + 1) = n * k + n BY <1>1
  <2>3. a + 1 = n * (k + 1) + 0 BY <1>1, <1>3, <2>1, <2>2
  <2>4. (a + 1) % n = 0 BY <2>1, <2>3, RemainderIsUnique
  <2>5. (r + 1) % n = 0 BY <1>3
  <2> QED BY <2>4, <2>5 DEF r
<1> QED BY <1>1, <1>2, <1>3

\* A counter that is kept modulo a multiple of n still turns modulo n.
LEMMA CounterTurns ==
    ASSUME NEW P \in Nat \ {0}, NEW n \in Nat \ {0}, P % n = 0, NEW a \in 0 .. P - 1
    PROVE  /\ (a + 1) % P \in 0 .. P - 1
           /\ ((a + 1) % P) % n = ((a % n) + 1) % n
<1>0. a \in Nat OBVIOUS
<1>1. (a + 1) % n = ((a % n) + 1) % n BY <1>0, NextRemainder
<1>2. CASE a + 1 < P
  <2>1. (a + 1) % P = a + 1 BY <1>2
  <2>2. (a + 1) % P \in 0 .. P - 1 BY <1>2, <2>1
  <2> QED BY <1>1, <2>1, <2>2
<1>3. CASE a + 1 = P
  <2>1. (a + 1) % P = 0 /\ 0 % n = 0 BY <1>3
  <2>2. (a + 1) % n = 0 BY <1>3
  <2> QED BY <1>1, <2>1, <2>2
<1> QED BY <1>2, <1>3

\* Only deploy requests create rows, so a list has at most this many targets.
MostTargets == Cardinality({r \in Requests : Op[r] = "deploy"})

DeploysOnly == \A d \in Requests : DeploymentExists(d) => Op[d] = "deploy"

LEMMA DeploysOnlyStep ==
    ASSUME ControlInv, DeploysOnly, [Next]_vars
    PROVE  DeploysOnly'
<1>1. CASE UNCHANGED deployments BY <1>1 DEF DeploysOnly, DeploymentExists
<1>2. ASSUME NEW t \in TaskIds, ClusterWork(t) \/ ModelWork(t) PROVE DeploysOnly'
  <2>1. WorkStep(t) BY <1>2, ClusterWorkIsWork, ModelWorkIsWork DEF ControlInv
  <2> QED BY <2>1 DEF WorkStep, RowsKept, DeploysOnly, DeploymentExists
<1>3. ASSUME NEW r \in Requests, RequestWork(r) PROVE DeploysOnly'
  <2>1. CASE CreateDeploymentRow(r)
    <3>1. Op[r] = "deploy" /\ DepOf[r] = r
      BY <2>1, WorkloadAssumption DEF CreateDeploymentRow
    <3>2. \A d \in Requests \ {r} : deployments'[d] = deployments[d]
      BY <2>1, <3>1 DEF CreateDeploymentRow, CreateDeployment, ControlInv, TypeOK
    <3> QED BY <3>1, <3>2 DEF DeploysOnly, DeploymentExists
  <2> QED BY <1>1, <1>3, <2>1
      DEF RequestWork, LookupForProvision, CreateClusterRow, ResetClusterRow,
          LookupForDestroy, LookupForDeploy, LookupForDelete, CreateJobRecord, ServerDies
<1>4. CASE JobNext
  BY <1>1, <1>4 DEF JobNext, CreateJobRecord, Enqueue, ServerDies, StartTask, JobRunning,
     CompleteJob, FailJob, ReturnNil, ReturnErr, RunLost, RunRequeued, EndRun
<1> QED BY <1>1, <1>2, <1>3, <1>4
    DEF Next, ClusterNext, ModelNext, RequestWork, ClusterWork, ModelWork, Finished, vars

\* The list of the database is no longer than that.
LEMMA ListIsShort ==
    ASSUME TypeOK, DeploysOnly, NEW m \in Names, NEW list \in ListActiveDeploymentTargets(m)
    PROVE  MostTargets \in Nat /\ Len(list) \leq MostTargets
<1> DEFINE rows == Listed(m)
           deploys == {r \in Requests : Op[r] = "deploy"}
           n == Cardinality(rows)
<1>1. rows \subseteq deploys /\ deploys \subseteq Requests
  BY DEF Listed, DeploysOnly, DeploymentExists, Absent
<1>2. /\ IsFiniteSet(deploys) /\ Cardinality(deploys) \in Nat
      /\ n \in Nat /\ n \leq Cardinality(deploys)
  BY <1>1, DiscoveryAssumption, FS_Subset, FS_CardinalityType
<1>3. \E f : list = [i \in 1 .. n |-> Target(f[i])]
  BY DEF ListActiveDeploymentTargets
<1>4. list \in Seq(Targets) BY ListIsComplete
<1>5. Len(list) = n BY <1>2, <1>3, <1>4
<1> QED BY <1>2, <1>5 DEF MostTargets

\* No list is longer than the number of deployments.
Short(s) == Len(s) \leq MostTargets

SlotOK(q) == /\ Len(px[q].todo) + Len(px[q].ok) \leq MostTargets
             /\ px[q].pc \in {"query", "drop"} => px[q].ok = <<>>

(***************************************************************************)
(* The last choice was some target i of its list of n targets, and the     *)
(* counter points at the next one.                                         *)
(***************************************************************************)
TurnOK(m) ==
    LET list == turn[m].list
        n == Len(list)
    IN  list # <<>> => /\ n \in 1 .. MostTargets
                       /\ \E i \in 1 .. n : /\ turn[m].last = <<list[i]>>
                                            /\ rr[m] % n = i % n

TurnInv ==
    /\ DeploysOnly
    /\ \A m \in Names : rr[m] < RRPeriod /\ Short(routes[m].list) /\ TurnOK(m)
    /\ \A q \in Proxied : SlotOK(q)

LEMMA MostTargetsType == MostTargets \in Nat
  BY DiscoveryAssumption, FS_Subset, FS_CardinalityType DEF MostTargets

LEMMA PeriodType == RRPeriod \in Nat /\ RRPeriod > 0
  BY DiscoveryAssumption

LEMMA ShortEmpty == Len(<<>>) = 0 /\ Short(<<>>)
  BY MostTargetsType DEF Short

\* A probe takes a target from one list and may add it to the other.
LEMMA SumStays ==
    \A a, b, c, d, max \in Nat :
        a + b \leq max => b \leq max /\ (c = a - 1 /\ d \leq b + 1 => c + d \leq max)
  OBVIOUS

\* A step in which nobody takes a turn for a name, and that leaves its
\* counter, deletes it, or moves it by an INCR that failed.
LEMMA TurnStays ==
    ASSUME SteadyInv, TurnInv, Remember, NEW m \in Names,
           \A q \in Proxied : TakesTurn(q) => px[q].model # m,
           \/ rr'[m] \in {rr[m], 0}
           \/ rr'[m] < RRPeriod /\ \E q \in Proxied : LosesTurn(q) /\ px[q].model = m
    PROVE  TurnOK(m)' /\ rr'[m] < RRPeriod
<1>1. turn'[m] = IF \/ rr[m] # 0 /\ rr'[m] = 0
                    \/ \E q \in Proxied : LosesTurn(q) /\ px[q].model = m
                 THEN NoTurn ELSE turn[m]
  BY DEF Remember
<1>2. TurnOK(m) /\ rr[m] \in Nat /\ rr[m] < RRPeriod
  BY DEF TurnInv, SteadyInv, ProxyTypeOK
<1>3. rr'[m] < RRPeriod BY <1>2, PeriodType
<1>4. CASE turn'[m] = NoTurn BY <1>3, <1>4 DEF TurnOK, NoTurn
<1>5. CASE turn'[m] = turn[m] /\ rr'[m] = rr[m] BY <1>2, <1>3, <1>5 DEF TurnOK
<1> QED BY <1>1, <1>3, <1>4, <1>5

\* A step of one request that is not a choice, or of none.
LEMMA NoTurnTaken ==
    ASSUME NEW p, p \in Proxied => px[p].pc # "select",
           \A q \in Proxied \ {p} : px'[q] = px[q]
    PROVE  \A q \in Proxied : ~TakesTurn(q)
BY DEF TakesTurn

LEMMA OtherSlots ==
    ASSUME TurnInv, NEW q \in Proxied, px'[q] = px[q]
    PROVE  SlotOK(q)'
BY DEF TurnInv, SlotOK

\* The DEL of both keys.
LEMMA ForgetShort ==
    ASSUME SteadyInv, TurnInv, NEW m \in Names, invalidateModelCache(m)
    PROVE  \A x \in Names : rr'[x] \in {rr[x], 0} /\ Short(routes'[x].list)
<1>1. \A x \in Names : Short(routes[x].list) BY DEF TurnInv
<1>2. \A x \in Names : routes'[x] \in {routes[x], NoRoute} /\ rr'[x] \in {rr[x], 0}
  BY DEF invalidateModelCache, SteadyInv, ProxyTypeOK
<1>3. Short(NoRoute.list) BY ShortEmpty DEF NoRoute
<1> QED BY <1>1, <1>2, <1>3

\* A step of a request other than a choice.
LEMMA PlainStep ==
    ASSUME SteadyInv, TurnInv, Remember, UNCHANGED vars, NEW q \in Proxied,
           px[q].pc # "select", \A p \in Proxied \ {q} : px'[p] = px[p], SlotOK(q)',
           \A m \in Names : rr'[m] \in {rr[m], 0} /\ Short(routes'[m].list)
    PROVE  TurnInv'
<1>1. \A p \in Proxied : SlotOK(p)' BY OtherSlots
<1>2. \A m \in Names : TurnOK(m)' /\ rr'[m] < RRPeriod BY NoTurnTaken, TurnStays
<1>3. DeploysOnly' BY DEF TurnInv, DeploysOnly, DeploymentExists, vars
<1> QED BY <1>1, <1>2, <1>3 DEF TurnInv

LEMMA ArriveTurns ==
    ASSUME SteadyInv, TurnInv, Remember, UNCHANGED vars, NEW q \in Proxied, Arrive(q)
    PROVE  TurnInv'
<1>1. px[q].pc = "idle" /\ UNCHANGED <<routes, rr>> BY DEF Arrive
<1>2. PICK req : px' = [px EXCEPT ![q] = req] /\ NewRequest(req) BY Arrival
<1>3. px'[q] = req /\ \A p \in Proxied \ {q} : px'[p] = px[p]
  BY <1>2 DEF SteadyInv, ProxyTypeOK
<1>4. req.ok = <<>> /\ Len(req.todo) \in Nat /\ Len(req.todo) \leq MostTargets
  BY <1>2, ShortEmpty DEF NewRequest, ProxyReq, TurnInv, Short
<1>5. SlotOK(q)'
  BY <1>3, <1>4, ShortEmpty, MostTargetsType DEF SlotOK
<1> QED BY <1>1, <1>3, <1>5, PlainStep DEF TurnInv

LEMMA ProbeTurns ==
    ASSUME SteadyInv, TurnInv, Remember, UNCHANGED vars, NEW q \in Proxied, Probe(q)
    PROVE  TurnInv'
<1> DEFINE todo == px[q].todo
           rest == Tail(todo)
<1>1. /\ px[q] \in ProxyReq /\ px[q].pc \in {"probeCached", "probeListed"}
      /\ todo \in Seq(Targets) /\ todo # <<>> /\ px[q].ok \in Seq(Targets)
      /\ UNCHANGED <<routes, rr>> /\ SlotOK(q)
  BY DEF Probe, SteadyInv, ProxyTypeOK, RequestInv, ProxyReq, TurnInv
<1>2. PICK ok, cut : ProbeResult(q, ok, cut) /\ ok \in {px[q].ok, Append(px[q].ok, Head(todo))}
  BY DEF Probe
<1>3. /\ Len(ok) \in Nat /\ Len(ok) \leq Len(px[q].ok) + 1
      /\ Len(rest) = Len(todo) - 1 /\ Len(todo) \in Nat /\ Len(px[q].ok) \in Nat
  <2>1. Head(todo) \in Targets BY <1>1
  <2> QED BY <1>1, <1>2, <2>1
<1>4. /\ \A p \in Proxied \ {q} : px'[p] = px[p]
      /\ px'[q].todo = rest /\ px'[q].ok = ok
      /\ px'[q].pc = IF rest = <<>> THEN AfterProbes(px[q].pc, ok, cut) ELSE px[q].pc
  BY <1>1, <1>2 DEF ProbeResult, SteadyInv, ProxyTypeOK, ProxyReq
<1>5. px'[q].pc \in {"query", "drop"} => px'[q].ok = <<>>
  BY <1>1, <1>4 DEF AfterProbes
<1>6. Len(todo) + Len(px[q].ok) \leq MostTargets BY <1>1 DEF SlotOK
<1>7. Len(rest) + Len(ok) \leq MostTargets
  <2>1. Len(rest) \in Nat BY <1>1
  <2> QED BY <1>3, <1>6, <2>1, SumStays, MostTargetsType, Zenon
<1>8. SlotOK(q)' BY <1>4, <1>5, <1>7, MostTargetsType DEF SlotOK
<1> QED BY <1>1, <1>4, <1>8, PlainStep DEF TurnInv

LEMMA CacheTurns ==
    ASSUME SteadyInv, TurnInv, Remember, UNCHANGED vars, NEW q \in Proxied, CacheTargets(q)
    PROVE  TurnInv'
<1>1. /\ px[q] \in ProxyReq /\ px[q].model \in Names /\ px[q].pc \in {"trim", "put"}
      /\ SlotOK(q) /\ Len(px[q].todo) \in Nat /\ Len(px[q].ok) \in Nat
  BY DEF CacheTargets, SteadyInv, ProxyTypeOK, RequestInv, ProxyReq, TurnInv
<1>2. Short(px[q].ok)
  <2>1. Len(px[q].todo) + Len(px[q].ok) \leq MostTargets BY <1>1 DEF SlotOK
  <2>2. Len(px[q].todo) \in Nat /\ Len(px[q].ok) \in Nat BY <1>1
  <2>3. Len(px[q].ok) \leq MostTargets BY <2>1, <2>2, SumStays, MostTargetsType, Zenon
  <2> QED BY <2>3 DEF Short
<1>3. Move(q, "select") /\ UNCHANGED rr BY DEF CacheTargets
<1>4. SlotOK(q)' BY <1>1, <1>3, MoveTypes DEF SlotOK, ProxyPC
<1>5. \A m \in Names : Short(routes'[m].list)
  <2> DEFINE entry == [list |-> px[q].ok, ttl |-> TTL]
  <2>1. entry.list = px[q].ok OBVIOUS
  <2>2. routes' = [routes EXCEPT ![px[q].model] = entry] \/ routes' = routes
    BY DEF CacheTargets, setTargetsInCache
  <2>3. DOMAIN routes = Names BY DEF SteadyInv, ProxyTypeOK
  <2> HIDE DEF entry
  <2>4. \A m \in Names : routes'[m] = entry \/ routes'[m] = routes[m] BY <2>2, <2>3
  <2>5. Short(entry.list) BY <2>1, <1>2
  <2>6. \A m \in Names : Short(routes[m].list) BY DEF TurnInv
  <2> QED BY <2>4, <2>5, <2>6, Zenon
<1> QED BY <1>1, <1>3, <1>4, <1>5, MoveTypes, PlainStep DEF ProxyPC

LEMMA ForgetTurns ==
    ASSUME SteadyInv, TurnInv, Remember, UNCHANGED vars, NEW q \in Proxied, ForgetTargets(q)
    PROVE  TurnInv'
<1>1. /\ px[q] \in ProxyReq /\ px[q].model \in Names /\ px[q].pc \in {"drop", "clear"}
      /\ SlotOK(q)
  BY DEF ForgetTargets, SteadyInv, ProxyTypeOK, RequestInv, ProxyReq, TurnInv
<1> DEFINE pc == IF px[q].pc = "drop" THEN "query" ELSE "unavailable"
<1>2. pc \in ProxyPC /\ Move(q, pc) BY DEF ForgetTargets, ProxyPC
<1>3. SlotOK(q)' BY <1>1, <1>2, MoveTypes DEF SlotOK
<1> QED BY <1>1, <1>2, <1>3, MoveTypes, ForgetShort, PlainStep DEF ForgetTargets

LEMMA QueryTurns ==
    ASSUME SteadyInv, TypeOK, TurnInv, Remember, UNCHANGED vars, NEW q \in Proxied,
           QueryTargets(q)
    PROVE  TurnInv'
<1>1. /\ px[q] \in ProxyReq /\ px[q].model \in Names /\ px[q].pc = "query"
      /\ SlotOK(q) /\ UNCHANGED <<routes, rr>>
  BY DEF QueryTargets, SteadyInv, ProxyTypeOK, RequestInv, ProxyReq, TurnInv
<1>2. CASE \E list \in ListActiveDeploymentTargets(px[q].model) :
             px' = [px EXCEPT ![q].pc = "probeListed", ![q].todo = list]
  <2>1. PICK list \in ListActiveDeploymentTargets(px[q].model) :
          px' = [px EXCEPT ![q].pc = "probeListed", ![q].todo = list]
    BY <1>2
  <2>2. /\ \A p \in Proxied \ {q} : px'[p] = px[p]
        /\ px'[q].pc = "probeListed" /\ px'[q].todo = list /\ px'[q].ok = px[q].ok
    BY <2>1 DEF SteadyInv, ProxyTypeOK, ProxyReq
  <2>3. Len(list) \in Nat /\ Len(list) \leq MostTargets
    BY <1>1, ListIsComplete, ListIsShort DEF TurnInv
  <2>4. SlotOK(q)' BY <1>1, <2>2, <2>3, ShortEmpty, MostTargetsType DEF SlotOK
  <2> QED BY <1>1, <2>2, <2>4, PlainStep DEF TurnInv
<1>3. CASE Move(q, "unavailable")
  <2>1. SlotOK(q)' BY <1>1, <1>3, MoveTypes DEF SlotOK, ProxyPC
  <2> QED BY <1>1, <1>3, <2>1, MoveTypes, PlainStep DEF TurnInv, ProxyPC
<1> QED BY <1>2, <1>3 DEF QueryTargets

LEMMA RespondTurns ==
    ASSUME SteadyInv, TurnInv, Remember, UNCHANGED vars, NEW q \in Proxied, Respond(q)
    PROVE  TurnInv'
<1>1. px[q].pc # "select" /\ UNCHANGED <<routes, rr>> BY DEF Respond
<1>2. px'[q] = NoProxyReq /\ \A p \in Proxied \ {q} : px'[p] = px[p]
  BY DEF Respond, SteadyInv, ProxyTypeOK
<1>3. SlotOK(q)' BY <1>2, ShortEmpty, MostTargetsType DEF SlotOK, NoProxyReq
<1> QED BY <1>1, <1>2, <1>3, PlainStep DEF TurnInv

\* The choice of a target: the slot holds that one alone.
LEMMA ChoiceFacts ==
    ASSUME SteadyInv, TurnInv, NEW q \in Proxied, SelectRoundRobinTarget(q)
    PROVE  /\ px[q].model \in Names /\ px[q].pc = "select" /\ UNCHANGED routes
           /\ Len(px[q].ok) \in 1 .. MostTargets /\ SlotOK(q)'
           /\ \A p \in Proxied \ {q} : px'[p] = px[p]
<1>1. /\ px[q] \in ProxyReq /\ px[q].model \in Names /\ px[q].pc = "select"
      /\ px[q].todo \in Seq(Targets) /\ px[q].ok \in Seq(Targets) /\ UNCHANGED routes
      /\ SlotOK(q)
  BY DEF SelectRoundRobinTarget, SteadyInv, ProxyTypeOK, RequestInv, ProxyReq, TurnInv
<1>2. Len(px[q].todo) \in Nat /\ Len(px[q].ok) \in Nat BY <1>1
<1>3. Len(px[q].todo) + Len(px[q].ok) \leq MostTargets BY <1>1 DEF SlotOK
<1>4. Len(px[q].ok) \leq MostTargets BY <1>2, <1>3, SumStays, MostTargetsType, Zenon
<1>5. PICK i : Chosen(q, i) BY DEF SelectRoundRobinTarget
<1>6. /\ \A p \in Proxied \ {q} : px'[p] = px[p]
      /\ px'[q].pc = "proxied" /\ px'[q].todo = px[q].todo
      /\ px'[q].ok = <<px[q].ok[i]>>
  BY <1>5 DEF Chosen, SteadyInv, ProxyTypeOK, ProxyReq
<1>7. Len(px[q].ok) \geq 1
  <2>1. Len(px[q].ok) = 1 \/ Len(px[q].ok) > 1 BY Zenon DEF SelectRoundRobinTarget
  <2>2. \A n \in Nat : n = 1 \/ n > 1 => n \geq 1
    OBVIOUS
  <2> QED BY <1>2, <2>1, <2>2, Zenon
<1>8. Len(px'[q].ok) = 1 BY <1>6
<1>9. \A a, b, c, max \in Nat : a + b \leq max /\ b \geq 1 /\ c = 1 => a + c \leq max
  OBVIOUS
<1>10. Len(px[q].todo) + Len(px'[q].ok) \leq MostTargets
  <2>1. Len(px'[q].ok) \in Nat BY <1>8
  <2> QED BY <1>2, <1>3, <1>7, <1>8, <1>9, <2>1, MostTargetsType, Zenon
<1>11. SlotOK(q)' BY <1>6, <1>10 DEF SlotOK
<1> QED BY <1>1, <1>2, <1>4, <1>6, <1>7, <1>11, MostTargetsType

\* A choice by the counter, which goes on by one.
LEMMA TurnTaken ==
    ASSUME SteadyInv, TurnInv, Remember, NEW q \in Proxied,
           SelectRoundRobinTarget(q), TakesTurn(q)
    PROVE  LET m == px[q].model
               list == px[q].ok
               n == Len(list)
               i == (rr[m] % n) + 1
           IN  /\ i \in 1 .. n /\ px'[q].ok = <<list[i]>>
               /\ rr'[m] % n = i % n /\ rr'[m] < RRPeriod
               /\ \A x \in Names \ {m} : rr'[x] = rr[x]
<1> DEFINE m == px[q].model
           list == px[q].ok
           n == Len(list)
           i == (rr[m] % n) + 1
<1>1. m \in Names /\ n \in 1 .. MostTargets /\ n > 1 BY ChoiceFacts DEF TakesTurn
<1>2. /\ rr \in [Names -> Nat] /\ rr[m] \in Nat /\ rr[m] < RRPeriod
  BY <1>1 DEF SteadyInv, ProxyTypeOK, TurnInv
<1>3. /\ Chosen(q, i) /\ rr' = [rr EXCEPT ![m] = (@ + 1) % RRPeriod]
  <2>1. ~Glitch BY GlitchStep DEF TakesTurn
  <2>2. n # 1
    <3>1. n \in Nat /\ \A k \in Nat : k > 1 => k # 1
      BY <1>1 DEF SteadyInv, ProxyTypeOK, ProxyReq
    <3> QED BY <1>1, <3>1, Zenon
  <2> QED BY <2>1, <2>2, Zenon DEF SelectRoundRobinTarget
<1>4. n \in Nat \ {0} /\ RRPeriod % n = 0
  <2>1. \A k \in 1 .. MostTargets : RRPeriod % k = 0
    BY DiscoveryAssumption DEF MostTargets
  <2>2. \A k \in 1 .. MostTargets : k \in Nat \ {0} BY MostTargetsType
  <2> QED BY <1>1, <2>1, <2>2, Zenon
<1>5. i \in 1 .. n BY <1>2, <1>4, TurnInRange
<1>6. px'[q].ok = <<list[i]>> BY <1>3 DEF Chosen, SteadyInv, ProxyTypeOK, ProxyReq
<1>7. rr'[m] = (rr[m] + 1) % RRPeriod /\ \A x \in Names \ {m} : rr'[x] = rr[x]
  BY <1>1, <1>2, <1>3
<1>8. RRPeriod \in Nat \ {0} /\ rr[m] \in 0 .. RRPeriod - 1 BY <1>2, PeriodType
<1>9. /\ (rr[m] + 1) % RRPeriod \in 0 .. RRPeriod - 1
      /\ ((rr[m] + 1) % RRPeriod) % n = i % n
  <2>1. \A P, k \in Nat \ {0} : P % k = 0 =>
          \A a \in 0 .. P - 1 : /\ (a + 1) % P \in 0 .. P - 1
                                /\ ((a + 1) % P) % k = ((a % k) + 1) % k
    BY CounterTurns
  <2>2. \A a \in 0 .. RRPeriod - 1 :
          /\ (a + 1) % RRPeriod \in 0 .. RRPeriod - 1
          /\ ((a + 1) % RRPeriod) % n = ((a % n) + 1) % n
    BY <1>4, <1>8, <2>1, Zenon
  <2> QED BY <1>8, <2>2, Zenon
<1>10. rr'[m] < RRPeriod BY <1>7, <1>8, <1>9
<1> QED BY <1>5, <1>6, <1>7, <1>9, <1>10

LEMMA SelectTurns ==
    ASSUME SteadyInv, TurnInv, Remember, UNCHANGED vars, NEW q \in Proxied,
           SelectRoundRobinTarget(q)
    PROVE  TurnInv'
<1> DEFINE m == px[q].model
<1>1. /\ m \in Names /\ UNCHANGED routes /\ Len(px[q].ok) \in 1 .. MostTargets
      /\ SlotOK(q)' /\ \A p \in Proxied \ {q} : px'[p] = px[p]
  BY ChoiceFacts
<1>2. \A p \in Proxied : SlotOK(p)' BY <1>1, OtherSlots
<1>3. DeploysOnly' BY DEF TurnInv, DeploysOnly, DeploymentExists, vars
<1>4. \A p \in Proxied : TakesTurn(p) => p = q BY <1>1 DEF TakesTurn
<1>5. \A x \in Names : Short(routes'[x].list) BY <1>1 DEF TurnInv
<1>6. ASSUME NEW x \in Names PROVE TurnOK(x)' /\ rr'[x] < RRPeriod
  <2>1. CASE ~TakesTurn(q)
    <3>1. px'[q].pc = "proxied"
      <4>1. \E j : Chosen(q, j) BY DEF SelectRoundRobinTarget
      <4> QED BY <4>1 DEF Chosen, SteadyInv, ProxyTypeOK, ProxyReq
    <3>2. CASE NoGlitch
      <4>1. Len(px[q].ok) > 1 => TakesTurn(q)
        BY <3>1, <3>2, ChoiceFacts, Zenon DEF TakesTurn, NoGlitch
      <4>2. ~Glitch BY <3>2, GlitchStep DEF NoGlitch
      <4>3. UNCHANGED rr BY <2>1, <4>1, <4>2, Zenon DEF SelectRoundRobinTarget
      <4> QED BY <1>4, <2>1, <4>3, TurnStays
    <3>3. CASE Glitch
      <4>1. LosesTurn(q) BY <3>1, <3>3, ChoiceFacts, GlitchStep DEF LosesTurn
      <4>2. \/ UNCHANGED rr
            \/ \E k \in 0 .. RedisAttempts : rr' = [rr EXCEPT ![m] = (rr[m] + k) % RRPeriod]
        BY <3>3, GlitchStep DEF SelectRoundRobinTarget, NoGlitch
      <4>3. rr \in [Names -> Nat] BY DEF SteadyInv, ProxyTypeOK
      <4>4. CASE UNCHANGED rr BY <1>4, <2>1, <4>4, TurnStays
      <4>5. CASE x # m
        <5>1. rr'[x] = rr[x] BY <4>2, <4>3, <4>5
        <5> QED BY <1>4, <2>1, <5>1, TurnStays
      <4>6. CASE x = m /\ ~UNCHANGED rr
        <5>1. PICK k \in 0 .. RedisAttempts :
                rr' = [rr EXCEPT ![m] = (rr[m] + k) % RRPeriod]
          BY <4>2, <4>6
        <5>2. rr[m] + k \in Nat BY <1>1, <4>3, DiscoveryAssumption
        <5>3. (rr[m] + k) % RRPeriod < RRPeriod BY <5>2, PeriodType
        <5>4. rr'[x] < RRPeriod BY <1>1, <4>3, <4>6, <5>1, <5>3
        <5> QED BY <1>4, <2>1, <4>1, <4>6, <5>4, TurnStays
      <4> QED BY <4>4, <4>5, <4>6
    <3> QED BY <3>2, <3>3 DEF SelectRoundRobinTarget
  <2>2. CASE TakesTurn(q) /\ x # m
    BY <1>4, <2>2, TurnTaken, TurnStays
  <2>3. CASE TakesTurn(q) /\ x = m
    <3> DEFINE list == px[q].ok
               n == Len(list)
               i == (rr[m] % n) + 1
    <3>1. turn'[m] = [list |-> list, last |-> px'[q].ok]
      <4>1. q = CHOOSE p \in Proxied : TakesTurn(p) /\ px[p].model = m BY <1>4, <2>3
      <4> QED BY <1>1, <2>3, <4>1 DEF Remember
    <3>2. /\ i \in 1 .. n /\ px'[q].ok = <<list[i]>>
          /\ rr'[m] % n = i % n /\ rr'[m] < RRPeriod
      BY <2>3, TurnTaken
    <3>3. turn'[m].list = list /\ turn'[m].last = <<list[i]>> BY <3>1, <3>2
    <3> HIDE DEF i
    <3>4. Len(turn'[x].list) \in 1 .. MostTargets BY <1>1, <2>3, <3>3, Zenon
    <3>5. /\ i \in 1 .. Len(turn'[x].list)
          /\ turn'[x].last = <<turn'[x].list[i]>>
          /\ rr'[x] % Len(turn'[x].list) = i % Len(turn'[x].list)
      BY <2>3, <3>2, <3>3, Zenon
    <3>6. TurnOK(x)' BY <3>4, <3>5, Zenon DEF TurnOK
    <3> QED BY <2>3, <3>2, <3>6, Zenon
  <2> QED BY <2>1, <2>2, <2>3
<1> QED BY <1>2, <1>3, <1>5, <1>6 DEF TurnInv

\* A step of the control plane, of time or of the worker's DEL.
LEMMA StillTurns ==
    ASSUME SteadyInv, TurnInv, Remember, DeploysOnly', UNCHANGED px,
           \A m \in Names : rr'[m] \in {rr[m], 0} /\ Short(routes'[m].list)
    PROVE  TurnInv'
<1>1. \A q \in Proxied : SlotOK(q)' BY OtherSlots
<1>2. \A q \in Proxied : ~TakesTurn(q) BY DEF TakesTurn
<1>3. \A m \in Names : TurnOK(m)' /\ rr'[m] < RRPeriod BY <1>2, TurnStays
<1> QED BY <1>1, <1>3 DEF TurnInv

LEMMA TurnInvStep ==
    ASSUME ControlInv, SteadyInv, OwedOK, TurnInv, [RoutedNext]_allVars
    PROVE  TurnInv'
<1>1. DeploysOnly /\ \A m \in Names : Short(routes[m].list) BY DEF TurnInv
<1>2. UNCHANGED vars => DeploysOnly'
  BY <1>1 DEF DeploysOnly, DeploymentExists, vars
<1>3. CASE ControlStep /\ Remember
  <2>1. DeploysOnly' BY <1>1, <1>3, DeploysOnlyStep DEF ControlStep
  <2>2. UNCHANGED <<px, rr, routes>> BY <1>3 DEF ControlStep, routeVars
  <2> QED BY <1>1, <1>3, <2>1, <2>2, StillTurns
<1>4. CASE PassTime /\ Remember
  <2>1. UNCHANGED <<px, rr>> /\ UNCHANGED vars BY <1>4 DEF PassTime, Tick
  <2>2. ASSUME NEW m \in Names PROVE Short(routes'[m].list)
    <3>1. routes[m] \in Route BY DEF SteadyInv, ProxyTypeOK
    <3>2. \/ routes'[m] = NoRoute
          \/ routes'[m] = [routes[m] EXCEPT !.ttl = @ - 1]
      BY <1>4 DEF PassTime, Tick
    <3>3. routes'[m].list \in {<<>>, routes[m].list} BY <3>1, <3>2 DEF NoRoute, Route
    <3> QED BY <1>1, <3>3, ShortEmpty
  <2> QED BY <1>2, <1>4, <2>1, <2>2, StillTurns
<1>5. CASE (\E t \in TaskIds : Invalidate(t)) /\ Remember
  <2>1. PICK t \in TaskIds : Invalidate(t) BY <1>5
  <2>2. ModelName(t.id) \in Names BY <2>1, OwedModel DEF Invalidate
  <2>3. invalidateModelCache(ModelName(t.id)) /\ UNCHANGED vars /\ UNCHANGED px
    BY <2>1 DEF Invalidate
  <2>4. \A m \in Names : rr'[m] \in {rr[m], 0} /\ Short(routes'[m].list)
    BY <2>2, <2>3, ForgetShort
  <2> QED BY <1>2, <1>5, <2>3, <2>4, StillTurns
<1>6. CASE (\E q \in Proxied : ProxyRequest(q)) /\ Remember
  <2>1. PICK q \in Proxied : ProxyRequest(q) BY <1>6
  <2>2. UNCHANGED vars /\ (Arrive(q) \/ ProxyStep(q)) BY <2>1 DEF ProxyRequest
  <2> QED BY <1>6, <2>2, ArriveTurns, ProbeTurns, CacheTurns, ForgetTurns, QueryTurns,
             SelectTurns, RespondTurns DEF ProxyStep, ControlInv
<1>7. CASE UNCHANGED allVars
  BY <1>1, <1>2, <1>7 DEF allVars, routeVars, history, TurnInv, TurnOK, SlotOK
<1> QED BY <1>3, <1>4, <1>5, <1>6, <1>7 DEF RoutedNext

\* Whoever takes a turn executes selectRoundRobinTarget.
LEMMA WhoTakesTurns ==
    ASSUME SteadyInv, RoutedNext, NEW q \in Proxied, TakesTurn(q)
    PROVE  SelectRoundRobinTarget(q)
<1>1. px[q].pc = "select" /\ px'[q] # px[q] BY DEF TakesTurn
<1>2. PICK p \in Proxied : ProxyRequest(p)
  BY <1>1 DEF RoutedNext, ControlStep, PassTime, Tick, Invalidate, routeVars
<1>3. px \in [Proxied -> ProxyReq] BY DEF SteadyInv, ProxyTypeOK
<1>4. \A x \in Proxied \ {p} : px'[x] = px[x]
  <2>1. CASE Arrive(p) BY <1>3, <2>1, Arrival
  <2>2. CASE Probe(p) BY <1>3, <2>2 DEF Probe, ProbeResult
  <2>3. CASE CacheTargets(p) \/ ForgetTargets(p) \/ Respond(p)
    BY <1>3, <2>3 DEF CacheTargets, ForgetTargets, Respond, Move
  <2>4. CASE QueryTargets(p) BY <1>3, <2>4 DEF QueryTargets, Move
  <2>5. CASE SelectRoundRobinTarget(p)
    <3>1. PICK i : Chosen(p, i) BY <2>5 DEF SelectRoundRobinTarget
    <3> QED BY <1>3, <3>1 DEF Chosen
  <2> QED BY <1>2, <2>1, <2>2, <2>3, <2>4, <2>5 DEF ProxyRequest, ProxyStep
<1>5. p = q BY <1>1, <1>4
<1> QED BY <1>1, <1>2, <1>5
    DEF ProxyRequest, ProxyStep, Arrive, Probe, CacheTargets, ForgetTargets,
        QueryTargets, Respond

(***************************************************************************)
(* Consecutive choices from the same list take its targets in turn, for    *)
(* any number of proxy requests, models, deployments and failures, as long *)
(* as the counter of the name is not deleted and no INCR of it fails.      *)
(***************************************************************************)
THEOREM TargetsTakeTurns == RoutedSpec => TurnsRotate
<1> DEFINE Rotates ==
      \A q \in Proxied :
          LET list == px[q].ok
              n == Len(list)
              last == turn[px[q].model].last
          IN
          TakesTurn(q) /\ turn[px[q].model].list = list =>
              \E i \in 1 .. n : /\ <<list[i]>> = last
                                 /\ px'[q].ok = <<list[(i % n) + 1]>>
<1>1. RoutedInit => TurnInv
  <2> SUFFICES ASSUME RoutedInit PROVE TurnInv OBVIOUS
  <2>1. DeploysOnly BY DEF RoutedInit, Init, DeploysOnly, DeploymentExists, Absent
  <2>2. \A m \in Names : rr[m] = 0 /\ routes[m].list = <<>> /\ turn[m].list = <<>>
    BY DEF RoutedInit, HistoryInit, DiscoveryInit, NoRoute, NoTurn
  <2>3. \A q \in Proxied : px[q].todo = <<>> /\ px[q].ok = <<>>
    BY DEF RoutedInit, HistoryInit, DiscoveryInit, NoProxyReq
  <2>4. ASSUME NEW q \in Proxied PROVE SlotOK(q)
    <3>1. Len(px[q].todo) = 0 /\ Len(px[q].ok) = 0 BY <2>3, ShortEmpty, Zenon
    <3>2. Len(px[q].todo) + Len(px[q].ok) \leq MostTargets BY <3>1, MostTargetsType
    <3> QED BY <2>3, <3>2, Zenon DEF SlotOK
  <2>5. \A m \in Names : rr[m] < RRPeriod /\ Short(routes[m].list) /\ TurnOK(m)
    BY <2>2, ShortEmpty, PeriodType DEF TurnOK
  <2> QED BY <2>1, <2>4, <2>5 DEF TurnInv
<1>2. ControlInv /\ SteadyInv /\ OwedOK /\ TurnInv /\ [RoutedNext]_allVars => TurnInv'
  BY TurnInvStep
<1>3. SteadyInv /\ TurnInv /\ [RoutedNext]_allVars => [Rotates]_allVars
  <2> SUFFICES ASSUME SteadyInv, TurnInv, RoutedNext, NEW q \in Proxied, TakesTurn(q),
                      turn[px[q].model].list = px[q].ok
               PROVE  \E i \in 1 .. Len(px[q].ok) :
                         /\ <<px[q].ok[i]>> = turn[px[q].model].last
                         /\ px'[q].ok = <<px[q].ok[(i % Len(px[q].ok)) + 1]>>
    BY Zenon
  <2> DEFINE m == px[q].model
             list == px[q].ok
             n == Len(list)
  <2>1. SelectRoundRobinTarget(q) /\ Remember BY WhoTakesTurns DEF RoutedNext
  <2>2. m \in Names /\ n \in 1 .. MostTargets BY <2>1, ChoiceFacts
  <2>3. px'[q].ok = <<list[(rr[m] % n) + 1]>> BY <2>1, TurnTaken
  <2>4. list # <<>>
    <3>1. n # 0 BY <2>2, MostTargetsType
    <3> QED BY <3>1, ShortEmpty
  <2>5. PICK i \in 1 .. n : turn[m].last = <<list[i]>> /\ rr[m] % n = i % n
    BY <2>2, <2>4, Zenon DEF TurnInv, TurnOK
  <2> QED BY <2>3, <2>5, Zenon
<1>4. Spec => []ControlInv BY ControlInvariant
<1> QED BY <1>1, <1>2, <1>3, <1>4, PlaneUndisturbed, SteadyInvariance, PTL
    DEF RoutedSpec, TurnsRotate
=============================================================================
