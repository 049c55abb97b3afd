----------------------- MODULE ClusterLifecycleProofs -----------------------
(***************************************************************************)
(* StatusTellsVM for every set of stacks and addresses.  With the type of  *)
(* the state it is inductive: each action moves one stack, and the VM only *)
(* changes under statuses that promise nothing about it.                   *)
(***************************************************************************)
EXTENDS ClusterLifecycle, TLAPS

\* What an action says of the stack that it moves, and of the others.
LEMMA LifecycleStep ==
    ASSUME LifecycleTypeOK, StatusTellsVM, NEW s \in Stacks,
           \/ Claim(s) \/ Install(s) \/ ChangeVM(s) \/ Activate(s)
           \/ Abandon(s) \/ Retire(s) \/ Release(s)
    PROVE  LifecycleTypeOK' /\ StatusTellsVM'
<1> USE DEF LifecycleTypeOK, StatusTellsVM, Statuses, Move
<1>1. CASE Claim(s)
  <2>1. LifecycleTypeOK'
    BY <1>1 DEF Claim
  <2>2. StatusTellsVM'
    BY <1>1 DEF Claim
  <2> QED BY <2>1, <2>2
<1>2. CASE Install(s)
  BY <1>2 DEF Install
<1>3. CASE ChangeVM(s)
  <2>1. PICK ip \in IPs \cup {NoIP} : vm' = [vm EXCEPT ![s] = ip]
    BY <1>3 DEF ChangeVM
  <2>2. UNCHANGED <<status, addr>> /\ status[s] \in {"installing", "destroying"}
    BY <1>3 DEF ChangeVM
  <2> QED BY <2>1, <2>2
<1>4. CASE Activate(s)
  BY <1>4 DEF Activate
<1>5. CASE Abandon(s)
  BY <1>5 DEF Abandon
<1>6. CASE Retire(s)
  BY <1>6 DEF Retire
<1>7. CASE Release(s)
  BY <1>7 DEF Release
<1> QED BY <1>1, <1>2, <1>3, <1>4, <1>5, <1>6, <1>7

(***************************************************************************)
(* The abstract lifecycle keeps its promise: an active cluster is backed   *)
(* by the VM its row points at, a destroyed one has no VM and no address.  *)
(***************************************************************************)
THEOREM LifecyclePromise == LifecycleSpec => []StatusTellsVM
<1> DEFINE Inv == LifecycleTypeOK /\ StatusTellsVM
<1>1. LifecycleInit => Inv
  BY DEF LifecycleInit, LifecycleTypeOK, StatusTellsVM, Statuses
<1>2. Inv /\ [LifecycleNext]_lifecycle => Inv'
  <2> SUFFICES ASSUME Inv, [LifecycleNext]_lifecycle PROVE Inv'
    OBVIOUS
  <2>1. CASE LifecycleNext
    BY <2>1, LifecycleStep DEF LifecycleNext
  <2>2. CASE UNCHANGED lifecycle
    BY <2>2 DEF lifecycle, LifecycleTypeOK, StatusTellsVM
  <2> QED BY <2>1, <2>2
<1>3. Inv => StatusTellsVM
  OBVIOUS
<1> QED BY <1>1, <1>2, <1>3, PTL DEF LifecycleSpec
=============================================================================
