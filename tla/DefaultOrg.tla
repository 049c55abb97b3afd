----------------------------- MODULE DefaultOrg -----------------------------
(***************************************************************************)
(* Organizations and cluster names.  Every provision and every listing of  *)
(* clusters first makes sure that the organization "default" exists        *)
(* (ensureDefaultOrganization); a provision then looks its cluster up by   *)
(* name and inserts a row if it finds none.  Nothing but the constraints   *)
(* of the two tables keeps concurrent requests apart: organizations.name   *)
(* is UNIQUE, and so is (org_id, name) of clusters.  The lookup of a       *)
(* cluster is by name alone, whatever the organization.                    *)
(*                                                                         *)
(* A caller stands for its request and for the UUIDs the request generates *)
(* for a new organization and a new cluster.                               *)
(***************************************************************************)
EXTENDS Naturals, FiniteSets

CONSTANTS
    Callers,     \* requests of POST /api/provision and GET /api/clusters
    Listers,     \* those of them that list the clusters
    Names,       \* stack names
    NameOf,      \* the stack name of a caller
    NoOrg,       \* no organization
    MaxErrors    \* how many calls of the store may fail

ASSUME OrgAssumption ==
    /\ Listers \subseteq Callers
    /\ NameOf \in [Callers -> Names]
    /\ NoOrg \notin Callers
    /\ MaxErrors \in Nat

VARIABLES
    orgs,        \* IDs of the rows of organizations named "default"
    rows,        \* the rows of clusters
    calls,       \* where each request is, and the organization it holds
    errors

orgVars == <<orgs, rows, calls, errors>>

Working == {"get", "create", "again", "lookup", "insert", "list"}
CallPC == {"unsent", "served", "error", "cut"} \cup Working

ClusterRows == [id : Callers, org : Callers, name : Names]

OrgTypeOK ==
    /\ orgs \subseteq Callers
    /\ rows \subseteq ClusterRows
    /\ calls \in [Callers -> [pc : CallPC, org : Callers \cup {NoOrg}]]
    /\ errors \in 0 .. MaxErrors

OrgInit ==
    /\ orgs = {}
    /\ rows = {}
    /\ calls = [c \in Callers |-> [pc |-> "unsent", org |-> NoOrg]]
    /\ errors = 0

StoreOK == UNCHANGED errors

StoreFails == errors < MaxErrors /\ errors' = errors + 1

GoTo(c, pc) == calls' = [calls EXCEPT ![c].pc = pc]

\* ensureDefaultOrganization returns organization o to its caller.
Ensured(c, o) ==
    calls' = [calls EXCEPT ![c] =
                [pc |-> IF c \in Listers THEN "list" ELSE "lookup", org |-> o]]

-----------------------------------------------------------------------------
(* ensureDefaultOrganization *)

Receive(c) == /\ calls[c].pc = "unsent"
              /\ GoTo(c, "get")
              /\ UNCHANGED <<orgs, rows, errors>>

\* Every error of the lookup is taken for "not found".
GetOrganizationByName(c) ==
    /\ calls[c].pc = "get"
    /\ \/ \E o \in orgs : Ensured(c, o) /\ StoreOK
       \/ orgs = {} /\ GoTo(c, "create") /\ StoreOK
       \/ GoTo(c, "create") /\ StoreFails
    /\ UNCHANGED <<orgs, rows>>

\* A conflict is ignored and the ID of the row that was not inserted is used.
CreateOrganizationOrIgnore(c) ==
    /\ calls[c].pc = "create"
    /\ orgs' = IF orgs = {} THEN {c} ELSE orgs
    /\ Ensured(c, c) /\ StoreOK
    /\ UNCHANGED rows

\* An INSERT that fails for another reason than UNIQUE may have been executed.
CreateOrganization(c) ==
    /\ calls[c].pc = "create"
    /\ \/ orgs = {} /\ orgs' = {c} /\ Ensured(c, c) /\ StoreOK
       \/ orgs # {} /\ UNCHANGED orgs /\ GoTo(c, "again") /\ StoreOK
       \/ /\ orgs' \in {orgs, IF orgs = {} THEN {c} ELSE orgs}
          /\ GoTo(c, "again") /\ StoreFails
    /\ UNCHANGED rows

\* The error of the INSERT is returned at once.
NoSecondLookup(c) == /\ calls[c].pc = "again"
                     /\ GoTo(c, "error") /\ StoreOK
                     /\ UNCHANGED <<orgs, rows>>

\* The second lookup, after an INSERT that failed.
GetOrganizationAgain(c) ==
    /\ calls[c].pc = "again"
    /\ \/ \E o \in orgs : Ensured(c, o) /\ StoreOK
       \/ orgs = {} /\ GoTo(c, "error") /\ StoreOK
       \/ GoTo(c, "error") /\ StoreFails
    /\ UNCHANGED <<orgs, rows>>

-----------------------------------------------------------------------------
(* The cluster row.  What happens to a row that exists is the subject of   *)
(* module ClusterControl.                                                  *)

Named(n) == {r \in rows : r.name = n}

GetClusterByName(c) ==
    /\ calls[c].pc = "lookup"
    /\ \/ Named(NameOf[c]) # {} /\ GoTo(c, "served") /\ StoreOK
       \/ Named(NameOf[c]) = {} /\ GoTo(c, "insert") /\ StoreOK
       \/ GoTo(c, "insert") /\ StoreFails
    /\ UNCHANGED <<orgs, rows>>

NewRow(c) == [id |-> c, org |-> calls[c].org, name |-> NameOf[c]]

\* The INSERT is not refused for a name that is taken.
InsertTwice(c) == calls[c].org \in orgs

\* FOREIGN KEY org_id and UNIQUE (org_id, name).
MayInsert(c) == /\ calls[c].org \in orgs
                /\ \A r \in Named(NameOf[c]) : r.org # calls[c].org

CreateCluster(c) ==
    /\ calls[c].pc = "insert"
    /\ \/ /\ MayInsert(c)
          /\ rows' = rows \cup {NewRow(c)}
          /\ GoTo(c, "served") /\ StoreOK
       \/ ~MayInsert(c) /\ UNCHANGED rows /\ GoTo(c, "error") /\ StoreOK
       \/ /\ rows' \in {rows, IF MayInsert(c) THEN rows \cup {NewRow(c)} ELSE rows}
          /\ GoTo(c, "error") /\ StoreFails
    /\ UNCHANGED orgs

ListClusters(c) ==
    /\ calls[c].pc = "list"
    /\ \/ GoTo(c, "served") /\ StoreOK
       \/ GoTo(c, "error") /\ StoreFails
    /\ UNCHANGED <<orgs, rows>>

CallStep(c) ==
    \/ GetOrganizationByName(c) \/ CreateOrganization(c)
    \/ GetOrganizationAgain(c) \/ GetClusterByName(c)
    \/ CreateCluster(c) \/ ListClusters(c)

-----------------------------------------------------------------------------
(* Properties *)

(***************************************************************************)
(* There is one default organization, and every request that got past      *)
(* ensureDefaultOrganization works with it, also if several first requests *)
(* created it at the same time.                                            *)
(***************************************************************************)
OneOrganization ==
    \A c \in Callers : calls[c].org # NoOrg => orgs = {calls[c].org}

(***************************************************************************)
(* A stack name determines its cluster row, although the constraint of the *)
(* table is per organization and GetClusterByName ignores organizations.   *)
(* The other modules identify a cluster with its name on this ground.      *)
(***************************************************************************)
NamesAreUnique == \A r1, r2 \in rows : r1.name = r2.name => r1 = r2

(***************************************************************************)
(* As long as the store does not fail, ensureDefaultOrganization does not, *)
(* and a provision fails only if another one has created the row of its    *)
(* cluster in between.                                                     *)
(***************************************************************************)
FailsForCause ==
    \A c \in Callers :
        calls[c].pc = "error" /\ errors = 0 => Named(NameOf[c]) # {} /\ c \notin Listers

-----------------------------------------------------------------------------
(***************************************************************************)
(* The inductive invariant behind OneOrganization and NamesAreUnique: the  *)
(* rows of clusters belong to the organization there is, and a request     *)
(* that is past ensureDefaultOrganization holds it.                        *)
(***************************************************************************)
OrgInv ==
    /\ OrgTypeOK
    /\ OneOrganization
    /\ NamesAreUnique
    /\ \A o1, o2 \in orgs : o1 = o2
    /\ \A r \in rows : r.org \in orgs
    /\ \A c \in Callers : calls[c].pc \in {"lookup", "insert"} => calls[c].org # NoOrg
=============================================================================
