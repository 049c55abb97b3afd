-------------------------- MODULE ApiServerProofs --------------------------
(***************************************************************************)
(* The API server, for any number of requests, names and failures, over    *)
(* boots, shutdowns and kills: OrgInv is inductive, and so are what it     *)
(* takes to tell why a request failed and how a clean exit leaves it.      *)
(***************************************************************************)
EXTENDS ApiServer, TLAPS

\* A step that moves a request on and leaves the tables and its organization.
LEMMA GoToInv ==
    ASSUME OrgInv, NEW c \in Callers, NEW pc \in CallPC, GoTo(c, pc),
           UNCHANGED <<orgs, rows>>, errors' \in 0 .. MaxErrors,
           pc \in {"lookup", "insert"} => calls[c].org # NoOrg
    PROVE  OrgInv'
  BY DEF OrgInv, OrgTypeOK, OneOrganization, NamesAreUnique, GoTo, CallPC, Working

\* ensureDefaultOrganization returns the only organization there is.
LEMMA EnsuredInv ==
    ASSUME OrgInv, NEW c \in Callers, NEW o \in Callers, Ensured(c, o),
           orgs' = {o}, orgs \subseteq {o},
           UNCHANGED rows, errors' \in 0 .. MaxErrors
    PROVE  OrgInv'
<1>1. OrgTypeOK'
  BY DEF OrgInv, OrgTypeOK, Ensured, CallPC, Working
<1>2. OneOrganization'
  BY OrgAssumption DEF OrgInv, OrgTypeOK, OneOrganization, Ensured
<1>3. \A d \in Callers : calls'[d].pc \in {"lookup", "insert"} => calls'[d].org # NoOrg
  BY OrgAssumption DEF OrgInv, OrgTypeOK, Ensured
<1> QED BY <1>1, <1>2, <1>3 DEF OrgInv, NamesAreUnique

LEMMA ErrorsType ==
    ASSUME OrgInv, StoreOK \/ StoreFails
    PROVE  errors' \in 0 .. MaxErrors
  BY OrgAssumption DEF OrgInv, OrgTypeOK, StoreOK, StoreFails

\* A row is inserted: the name was free in the only organization.
LEMMA InsertInv ==
    ASSUME OrgInv, NEW c \in Callers, calls[c].pc = "insert", MayInsert(c),
           NEW pc \in {"served", "error"}, GoTo(c, pc),
           rows' = rows \cup {NewRow(c)},
           UNCHANGED orgs, errors' \in 0 .. MaxErrors
    PROVE  OrgInv'
<1>1. NewRow(c) \in ClusterRows /\ calls[c].org \in orgs
  BY OrgAssumption DEF OrgInv, OrgTypeOK, MayInsert, NewRow, ClusterRows
<1>2. OrgTypeOK'
  BY <1>1 DEF OrgInv, OrgTypeOK, GoTo, CallPC, Working
<1>3. \A r \in rows : r.name # NewRow(c).name
  BY <1>1 DEF OrgInv, MayInsert, Named, NewRow
<1>4. NamesAreUnique'
  BY <1>3 DEF OrgInv, NamesAreUnique
<1>5. \A r \in rows' : r.org \in orgs
  BY <1>1 DEF OrgInv, NewRow
<1>6. OneOrganization'
  BY DEF OrgInv, OrgTypeOK, OneOrganization, GoTo
<1>7. \A d \in Callers : calls'[d].pc \in {"lookup", "insert"} => calls'[d].org # NoOrg
  BY DEF OrgInv, OrgTypeOK, GoTo
<1> QED BY <1>2, <1>4, <1>5, <1>6, <1>7 DEF OrgInv

\* The steps of a request.
LEMMA CallStepInv ==
    ASSUME OrgInv, NEW c \in Callers, CallStep(c)
    PROVE  OrgInv'
<1> USE DEF CallPC, Working
<1>0. orgs \subseteq Callers /\ \A o \in orgs : orgs = {o}
  BY DEF OrgInv, OrgTypeOK
<1>1. CASE GetOrganizationByName(c)
  <2>1. errors' \in 0 .. MaxErrors
    BY <1>1, ErrorsType DEF GetOrganizationByName
  <2>2. CASE \E o \in orgs : Ensured(c, o)
    BY <1>0, <1>1, <2>1, <2>2, EnsuredInv DEF GetOrganizationByName
  <2>3. CASE GoTo(c, "create")
    BY <1>1, <2>1, <2>3, GoToInv DEF GetOrganizationByName
  <2> QED BY <1>1, <2>2, <2>3 DEF GetOrganizationByName
<1>2. CASE CreateOrganization(c)
  <2>1. errors' \in 0 .. MaxErrors /\ UNCHANGED rows
    BY <1>2, ErrorsType DEF CreateOrganization
  <2>2. CASE orgs = {} /\ orgs' = {c} /\ Ensured(c, c)
    BY <2>1, <2>2, EnsuredInv
  <2>3. CASE UNCHANGED orgs /\ GoTo(c, "again")
    BY <2>1, <2>3, GoToInv
  \* The INSERT was executed and its answer lost.
  <2>4. CASE orgs = {} /\ orgs' = {c} /\ GoTo(c, "again")
    <3>1. \A d \in Callers : calls[d].org = NoOrg
      BY <2>4 DEF OrgInv, OneOrganization
    <3>2. OrgTypeOK'
      BY <2>1, <2>4 DEF OrgInv, OrgTypeOK, GoTo
    <3>3. OneOrganization'
      BY <2>4, <3>1 DEF OrgInv, OrgTypeOK, OneOrganization, GoTo
    <3>4. \A d \in Callers :
            calls'[d].pc \in {"lookup", "insert"} => calls'[d].org # NoOrg
      BY <2>4 DEF OrgInv, OrgTypeOK, GoTo
    <3> QED BY <2>1, <2>4, <3>2, <3>3, <3>4 DEF OrgInv, NamesAreUnique
  <2> QED BY <1>2, <2>2, <2>3, <2>4 DEF CreateOrganization
<1>3. CASE GetOrganizationAgain(c)
  <2>1. errors' \in 0 .. MaxErrors
    BY <1>3, ErrorsType DEF GetOrganizationAgain
  <2>2. CASE \E o \in orgs : Ensured(c, o)
    BY <1>0, <1>3, <2>1, <2>2, EnsuredInv DEF GetOrganizationAgain
  <2>3. CASE GoTo(c, "error")
    BY <1>3, <2>1, <2>3, GoToInv DEF GetOrganizationAgain
  <2> QED BY <1>3, <2>2, <2>3 DEF GetOrganizationAgain
<1>4. CASE GetClusterByName(c)
  <2>1. errors' \in 0 .. MaxErrors
    BY <1>4, ErrorsType DEF GetClusterByName
  <2>2. calls[c].org # NoOrg
    BY <1>4 DEF OrgInv, GetClusterByName
  <2>3. CASE GoTo(c, "served")
    BY <1>4, <2>1, <2>3, GoToInv DEF GetClusterByName
  <2>4. CASE GoTo(c, "insert")
    BY <1>4, <2>1, <2>2, <2>4, GoToInv DEF GetClusterByName
  <2> QED BY <1>4, <2>3, <2>4 DEF GetClusterByName
<1>5. CASE CreateCluster(c)
  <2>1. errors' \in 0 .. MaxErrors /\ UNCHANGED orgs /\ calls[c].pc = "insert"
    BY <1>5, ErrorsType DEF CreateCluster
  <2>2. PICK pc \in {"served", "error"} : GoTo(c, pc)
    BY <1>5 DEF CreateCluster
  <2>3. CASE UNCHANGED rows
    BY <2>1, <2>2, <2>3, GoToInv
  <2>4. CASE MayInsert(c) /\ rows' = rows \cup {NewRow(c)}
    BY <2>1, <2>2, <2>4, InsertInv
  <2> QED BY <1>5, <2>3, <2>4 DEF CreateCluster
<1>6. CASE ListClusters(c)
  <2>1. errors' \in 0 .. MaxErrors
    BY <1>6, ErrorsType DEF ListClusters
  <2>2. PICK pc \in {"served", "error"} : GoTo(c, pc)
    BY <1>6 DEF ListClusters
  <2> QED BY <1>6, <2>1, <2>2, GoToInv DEF ListClusters
<1> QED BY <1>1, <1>2, <1>3, <1>4, <1>5, <1>6 DEF CallStep

\* A process that ends leaves the tables and the organizations of its requests.
LEMMA ExitInv ==
    ASSUME OrgInv, NEW how, Exit(how)
    PROVE  OrgInv'
<1>1. /\ calls' \in [Callers -> [pc : CallPC, org : Callers \cup {NoOrg}]]
      /\ \A c \in Callers : /\ calls'[c].org = calls[c].org
                            /\ calls'[c].pc \in {calls[c].pc, "cut"}
  BY DEF Exit, OrgInv, OrgTypeOK, CallPC, Busy
<1>2. UNCHANGED <<orgs, rows, errors>> BY DEF Exit
<1> QED BY <1>1, <1>2 DEF OrgInv, OrgTypeOK, OneOrganization, NamesAreUnique

\* A step is one of a request, the end of the process, or neither.
LEMMA StepKinds ==
    ASSUME [ServerNext]_serverVars
    PROVE  \/ UNCHANGED orgVars
           \/ \E how : Exit(how)
           \/ \E c \in Callers : Request(c)
  BY DEF ServerNext, Boot, Listen, NotifySignals, Signal, ServerFailed,
     BeginShutdown, ShutdownDone, ShutdownTimesOut, ProbeArrives, AnswerProbe,
     PingReturns, PingTimesOut, ReceiveResult, SetProbe, Stopped, serverVars

(***************************************************************************)
(* Whatever requests arrive first, however many of their calls fail and    *)
(* whenever the server ends, the rows of clusters belong to one default    *)
(* organization and every request works with that one.                     *)
(***************************************************************************)
THEOREM OrgInvariance == ServerSpec => []OrgInv
<1>1. ServerInit => OrgInv
  BY OrgAssumption DEF ServerInit, OrgInit, OrgInv, OrgTypeOK, OneOrganization,
     NamesAreUnique, CallPC
<1>2. OrgInv /\ [ServerNext]_serverVars => OrgInv'
  <2> SUFFICES ASSUME OrgInv, [ServerNext]_serverVars PROVE OrgInv' OBVIOUS
  <2>1. CASE UNCHANGED orgVars
    BY <2>1 DEF orgVars, OrgInv, OrgTypeOK, OneOrganization, NamesAreUnique
  <2>2. CASE \E how : Exit(how) BY <2>2, ExitInv
  <2>3. CASE \E c \in Callers : Request(c)
    <3>1. PICK c \in Callers : Request(c) BY <2>3
    <3>2. CASE Receive(c)
      <4>1. errors' \in 0 .. MaxErrors BY <3>2 DEF Receive, OrgInv, OrgTypeOK
      <4> QED BY <3>2, <4>1, GoToInv DEF Receive, CallPC, Working
    <3> QED BY <3>1, <3>2, CallStepInv DEF Request
  <2> QED BY <2>1, <2>2, <2>3, StepKinds
<1> QED BY <1>1, <1>2, PTL DEF ServerSpec

(***************************************************************************)
(* ensureDefaultOrganization makes at most one organization, however many  *)
(* requests find none at the same time, and they all go on with that one.  *)
(***************************************************************************)
THEOREM OneDefaultOrganization == ServerSpec => []OneOrganization
<1>1. OrgInv => OneOrganization BY DEF OrgInv
<1> QED BY <1>1, OrgInvariance, PTL

(***************************************************************************)
(* A stack name determines its cluster: concurrent requests for the same   *)
(* name do not both create a row.                                          *)
(***************************************************************************)
THEOREM ClustersAreNamed == ServerSpec => []NamesAreUnique
<1>1. OrgInv => NamesAreUnique BY DEF OrgInv
<1> QED BY <1>1, OrgInvariance, PTL

-----------------------------------------------------------------------------
(* Why requests fail *)

(***************************************************************************)
(* Without a failure of the store, a request whose INSERT was refused will *)
(* find the organization, and a lister never gets to the cluster row.      *)
(***************************************************************************)
CauseInv ==
    /\ FailsForCause
    /\ \A c \in Callers :
          /\ calls[c].pc \in {"lookup", "insert"} => c \notin Listers
          /\ calls[c].pc = "again" /\ errors = 0 => orgs # {}

\* Rows and organizations are never removed, and errors are counted.
LEMMA CauseStep ==
    ASSUME OrgInv, CauseInv, NEW c \in Callers, NEW pc,
           \/ GoTo(c, pc)
           \/ \E o : Ensured(c, o) /\ pc = (IF c \in Listers THEN "list" ELSE "lookup"),
           orgs \subseteq orgs', rows \subseteq rows', errors' = 0 => errors = 0,
           pc = "error" /\ errors' = 0 => Named(NameOf[c])' # {} /\ c \notin Listers,
           pc \in {"lookup", "insert"} => c \notin Listers,
           pc = "again" /\ errors' = 0 => orgs' # {}
    PROVE  CauseInv'
<1>1. calls'[c].pc = pc /\ \A d \in Callers \ {c} : calls'[d] = calls[d]
  BY DEF OrgInv, OrgTypeOK, GoTo, Ensured
<1>2. \A d \in Callers : Named(NameOf[d]) \subseteq Named(NameOf[d])'
  BY DEF Named
<1> QED BY <1>1, <1>2 DEF CauseInv, FailsForCause

LEMMA CallStepCause ==
    ASSUME OrgInv, CauseInv, NEW c \in Callers, CallStep(c)
    PROVE  CauseInv'
<1>1. /\ errors \in Nat
      /\ StoreFails => errors' # 0
      /\ StoreOK => errors' = errors
  BY OrgAssumption DEF OrgInv, OrgTypeOK, StoreFails, StoreOK
<1>2. CASE GetOrganizationByName(c)
  BY <1>1, <1>2, CauseStep DEF GetOrganizationByName
<1>3. CASE CreateOrganization(c)
  BY <1>1, <1>3, CauseStep DEF CreateOrganization
<1>4. CASE GetOrganizationAgain(c)
  BY <1>1, <1>4, CauseStep DEF GetOrganizationAgain, CauseInv
<1>5. CASE GetClusterByName(c)
  BY <1>1, <1>5, CauseStep DEF GetClusterByName, CauseInv
<1>6. CASE CreateCluster(c)
  <2>1. c \notin Listers /\ calls[c].org \in orgs
    BY <1>6 DEF CreateCluster, CauseInv, OrgInv, OneOrganization
  <2>2. ~MayInsert(c) => Named(NameOf[c]) # {} BY <2>1 DEF MayInsert
  <2>3. PICK pc \in {"served", "error"} :
          /\ GoTo(c, pc)
          /\ pc = "error" /\ errors' = 0 => UNCHANGED rows /\ ~MayInsert(c)
    BY <1>1, <1>6 DEF CreateCluster
  <2>4. pc = "error" /\ errors' = 0 => Named(NameOf[c])' # {}
    BY <2>2, <2>3 DEF Named
  <2>5. orgs \subseteq orgs' /\ rows \subseteq rows' /\ (errors' = 0 => errors = 0)
    BY <1>1, <1>6 DEF CreateCluster
  <2> QED BY <2>1, <2>3, <2>4, <2>5, CauseStep
<1>7. CASE ListClusters(c)
  BY <1>1, <1>7, CauseStep DEF ListClusters
<1> QED BY <1>2, <1>3, <1>4, <1>5, <1>6, <1>7 DEF CallStep

LEMMA ExitCause ==
    ASSUME OrgInv, CauseInv, NEW how, Exit(how)
    PROVE  CauseInv'
<1>1. \A c \in Callers : calls'[c].pc \in {calls[c].pc, "cut"}
  BY DEF Exit, OrgInv, OrgTypeOK, Busy
<1>2. UNCHANGED <<orgs, rows, errors>> BY DEF Exit
<1> QED BY <1>1, <1>2 DEF CauseInv, FailsForCause, Named

(***************************************************************************)
(* Concurrent first requests do not make each other fail: as long as the   *)
(* store answers, a request fails only if the row of its cluster exists.   *)
(***************************************************************************)
THEOREM FailuresHaveCause == ServerSpec => []FailsForCause
<1>1. ServerInit => CauseInv
  BY DEF ServerInit, OrgInit, CauseInv, FailsForCause
<1>2. OrgInv /\ CauseInv /\ [ServerNext]_serverVars => CauseInv'
  <2> SUFFICES ASSUME OrgInv, CauseInv, [ServerNext]_serverVars PROVE CauseInv' OBVIOUS
  <2>1. CASE UNCHANGED orgVars
    BY <2>1 DEF orgVars, CauseInv, FailsForCause, Named
  <2>2. CASE \E how : Exit(how) BY <2>2, ExitCause
  <2>3. CASE \E c \in Callers : Request(c)
    <3>1. PICK c \in Callers : Request(c) BY <2>3
    <3>2. CASE Receive(c) BY <3>2, CauseStep DEF Receive
    <3> QED BY <3>1, <3>2, CallStepCause DEF Request
  <2> QED BY <2>1, <2>2, <2>3, StepKinds
<1>3. CauseInv => FailsForCause BY DEF CauseInv
<1> QED BY <1>1, <1>2, <1>3, OrgInvariance, PTL DEF ServerSpec

-----------------------------------------------------------------------------
(* How the server ends, and what it says of itself *)

(***************************************************************************)
(* No request is cut while the server is up, and a probe has received only *)
(* results of pings that have ended.                                       *)
(***************************************************************************)
LifeInv ==
    /\ CleanExitDrains /\ ReadyIsTrue
    /\ main \in Exited => listener = "closed" /\ probe.pc # "wait"
    /\ main \notin Exited => /\ \A c \in Callers : calls[c].pc # "cut"
                            /\ probe.pc # "cut"
    /\ probe.got \subseteq {s \in Services : probe.ping[s] # "sent"}
    /\ probe \in [pc : {"idle", "wait", "ready", "not_ready", "cut"},
                  ping : [Services -> {"none", "sent", "ok", "failed"}],
                  got : SUBSET Services]

LEMMA ExitLife ==
    ASSUME OrgInv, LifeInv, main \notin Exited, NEW how \in Exited, Exit(how),
           how = "exit0" => Drained
    PROVE  LifeInv'
<1>1. how = "exit0" => /\ \A c \in Callers : calls'[c].pc # "cut"
                       /\ probe'.pc # "cut"
  BY DEF LifeInv, Exit, Drained, NoProbe, OrgInv, OrgTypeOK
<1>2. /\ probe' \in [pc : {"idle", "wait", "ready", "not_ready", "cut"},
                     ping : [Services -> {"none", "sent", "ok", "failed"}],
                     got : SUBSET Services]
      /\ probe'.pc \in {"idle", "cut"} /\ probe'.got = {}
  BY DEF Exit, NoProbe
<1> QED BY <1>1, <1>2 DEF LifeInv, Exit, CleanExitDrains, ReadyIsTrue, Exited

LEMMA ProbeLife ==
    ASSUME LifeInv, \/ ProbeArrives \/ AnswerProbe
                    \/ \E s \in Services : PingReturns(s) \/ PingTimesOut(s) \/ ReceiveResult(s)
    PROVE  LifeInv'
<1> USE DEF LifeInv, CleanExitDrains, ReadyIsTrue, SetProbe, orgVars, Exited
<1>1. CASE ProbeArrives BY <1>1 DEF ProbeArrives
<1>2. CASE AnswerProbe BY <1>2 DEF AnswerProbe
<1>3. ASSUME NEW s \in Services, PingReturns(s) PROVE LifeInv'
  BY <1>3 DEF PingReturns
<1>4. ASSUME NEW s \in Services, PingTimesOut(s) PROVE LifeInv'
  BY <1>4 DEF PingTimesOut
<1>5. ASSUME NEW s \in Services, ReceiveResult(s) PROVE LifeInv'
  BY <1>5 DEF ReceiveResult
<1> QED BY <1>1, <1>2, <1>3, <1>4, <1>5

\* A request that is handled is not cut.
LEMMA RequestLife ==
    ASSUME OrgInv, LifeInv, NEW c \in Callers, Request(c)
    PROVE  LifeInv'
<1>1. \A d \in Callers : calls'[d].pc = "cut" => calls[d].pc = "cut"
  BY DEF Request, Receive, CallStep, GetOrganizationByName, CreateOrganization,
     GetOrganizationAgain, GetClusterByName, CreateCluster, ListClusters,
     GoTo, Ensured, OrgInv, OrgTypeOK
<1>2. UNCHANGED <<main, listener, signal, probe>> BY DEF Request
<1> QED BY <1>1, <1>2 DEF LifeInv, CleanExitDrains, ReadyIsTrue

\* What main, the listener and the readiness handler agree on at all times.
LEMMA LifeInvariance == ServerSpec => []LifeInv
<1>1. ServerInit => LifeInv
  BY DEF ServerInit, OrgInit, NoProbe, LifeInv, CleanExitDrains, ReadyIsTrue, Exited
<1>2. OrgInv /\ LifeInv /\ [ServerNext]_serverVars => LifeInv'
  <2> SUFFICES ASSUME OrgInv, LifeInv, [ServerNext]_serverVars PROVE LifeInv' OBVIOUS
  <2>1. CASE Boot \/ Signal \/ ServerFailed \/ ShutdownDone \/ ShutdownTimesOut
    <3>1. CASE \E how \in Exited : Exit(how) /\ (how = "exit0" => Drained)
      BY <2>1, <3>1, ExitLife
         DEF Boot, Signal, ServerFailed, ShutdownDone, ShutdownTimesOut, Exited
    <3>2. CASE UNCHANGED <<orgVars, probe, listener>> /\ main' \notin Exited
              /\ main \notin Exited
      BY <3>2 DEF LifeInv, CleanExitDrains, ReadyIsTrue, orgVars, Exited
    <3> QED BY <2>1, <3>1, <3>2
        DEF Boot, Signal, ServerFailed, ShutdownDone, ShutdownTimesOut, Exited
  <2>2. CASE Listen \/ NotifySignals \/ BeginShutdown \/ Stopped \/ UNCHANGED serverVars
    BY <2>2 DEF Listen, NotifySignals, BeginShutdown, Stopped, serverVars, orgVars,
       LifeInv, CleanExitDrains, ReadyIsTrue, Exited
  <2> QED BY <2>1, <2>2, ProbeLife, RequestLife DEF ServerNext
<1> QED BY <1>1, <1>2, OrgInvariance, PTL DEF ServerSpec

(***************************************************************************)
(* The server exits with status 0 only when it has answered every request. *)
(***************************************************************************)
THEOREM ServerEndsWell == ServerSpec => []CleanExitDrains
<1>1. LifeInv => CleanExitDrains BY DEF LifeInv
<1> QED BY <1>1, LifeInvariance, PTL

(***************************************************************************)
(* /readyz answers by the results of its own two pings, in whichever order *)
(* these return, and whether or not its timeout runs out in between.       *)
(***************************************************************************)
THEOREM ReadinessIsTrue == ServerSpec => []ReadyIsTrue
<1>1. LifeInv => ReadyIsTrue BY DEF LifeInv
<1> QED BY <1>1, LifeInvariance, PTL
=============================================================================
