-------------------------- MODULE MigrationsProofs --------------------------
(***************************************************************************)
(* RecordedRanOnce and ServingIsMigrated for every list of migration files *)
(* and any number of processes that start, fail and start again.           *)
(*                                                                         *)
(* Inv is inductive.  Progress is the strengthening ServingIsMigrated      *)
(* needs: a process only passes a file whose version is recorded, and no   *)
(* version is ever removed.                                                *)
(***************************************************************************)
EXTENDS Migrations, TLAPS

Inv == MigrationsTypeOK /\ RecordedRanOnce /\ Progress

Step(p) == EnsureTable(p) \/ AlreadyApplied(p) \/ Apply(p) \/ UpToDate(p) \/ StartAgain(p)

\* The files are numbered from 1, and their versions are numbers.
LEMMA FileFacts ==
    /\ Len(Version) \in Nat
    /\ Files = 1 .. Len(Version)
    /\ \A i \in Files : Version[i] \in Nat
BY MigrationsAssumption DEF Files

(***************************************************************************)
(* A process moves on in the list only when the version it leaves behind   *)
(* is recorded by then.                                                    *)
(***************************************************************************)
LEMMA StepProgress ==
    ASSUME Inv, NEW p \in Procs, Step(p)
    PROVE  /\ recorded \subseteq recorded'
           /\ \E q \in {"start", "create", "check", "apply", "serving", "exited"},
                 i \in 1 .. Len(Version) + 1 :
                 /\ Set(p, q, i)
                 /\ q = "apply" => i \in Files
                 /\ q = "serving" => i = Len(Version) + 1
                 /\ \A j \in Files : j < i => Version[j] \in recorded'
<1> USE FileFacts DEF Inv, MigrationsTypeOK, Progress
<1>0. file[p] \in 1 .. Len(Version) + 1 /\ file[p] \in Nat
  OBVIOUS
<1>1. CASE EnsureTable(p)
  <2>1. \E q \in {"check", "create", "exited"} : Set(p, q, file[p])
    BY <1>1 DEF EnsureTable
  <2>2. recorded' = recorded /\ pc[p] \notin {"apply", "serving"}
    BY <1>1 DEF EnsureTable
  <2>3. \A j \in Files : j < file[p] => Version[j] \in recorded
    OBVIOUS
  <2> QED BY <1>0, <2>1, <2>2, <2>3
<1>2. CASE AlreadyApplied(p)
  BY <1>0, <1>2 DEF AlreadyApplied
<1>3. CASE Apply(p)
  <2>1. \/ Set(p, "check", file[p] + 1) /\ Version[file[p]] \in recorded'
        \/ Set(p, "exited", file[p])
    BY <1>3 DEF Apply
  <2>2. recorded \subseteq recorded'
    BY <1>3 DEF Apply
  <2>3. file[p] \in Files /\ \A j \in Files : j < file[p] => Version[j] \in recorded
    BY <1>3 DEF Apply
  <2>4. \A j \in Files : j < file[p] + 1 => j = file[p] \/ j < file[p]
    BY <1>0
  <2>5. file[p] + 1 \in 1 .. Len(Version) + 1
    BY <1>0, <2>3
  <2>6. CASE Set(p, "exited", file[p])
    BY <1>0, <2>2, <2>3, <2>6
  <2>7. CASE Set(p, "check", file[p] + 1) /\ Version[file[p]] \in recorded'
    BY <2>2, <2>3, <2>4, <2>5, <2>7
  <2> QED BY <2>1, <2>6, <2>7
<1>4. CASE UpToDate(p)
  BY <1>0, <1>4 DEF UpToDate
<1>5. CASE StartAgain(p)
  BY <1>0, <1>5 DEF StartAgain
<1> QED BY <1>1, <1>2, <1>3, <1>4, <1>5 DEF Step

\* Every step of a process preserves the invariant.
LEMMA StepKeeps ==
    ASSUME Inv, NEW p \in Procs, Step(p)
    PROVE  Inv'
<1> USE DEF Inv
<1>1. PICK q \in {"start", "create", "check", "apply", "serving", "exited"},
           i \in 1 .. Len(Version) + 1 :
        /\ Set(p, q, i)
        /\ q = "apply" => i \in Files
        /\ q = "serving" => i = Len(Version) + 1
        /\ \A j \in Files : j < i => Version[j] \in recorded'
  BY StepProgress
<1>2. recorded \subseteq recorded'
  BY StepProgress
<1>3. Progress'
  BY <1>1, <1>2 DEF Progress, Set, MigrationsTypeOK
<1>4. /\ table' \in BOOLEAN
      /\ errors' \in 0 .. MaxErrors
      /\ starts' \in 0 .. MaxStarts
  <2>1. table' \in {table, TRUE}
    BY DEF Step, EnsureTable, AlreadyApplied, Apply, UpToDate, StartAgain
  <2>2. \/ UNCHANGED errors
        \/ errors < MaxErrors /\ errors' = errors + 1
    BY DEF Step, EnsureTable, AlreadyApplied, Apply, UpToDate, StartAgain
  <2>3. \/ UNCHANGED starts
        \/ starts < MaxStarts /\ starts' = starts + 1
    BY DEF Step, EnsureTable, AlreadyApplied, Apply, UpToDate, StartAgain
  <2>4. table' \in BOOLEAN
    BY <2>1 DEF MigrationsTypeOK
  <2>5. errors' \in 0 .. MaxErrors /\ starts' \in 0 .. MaxStarts
    BY <2>2, <2>3, MigrationsAssumption DEF MigrationsTypeOK
  <2> QED BY <2>4, <2>5
<1>5. \/ UNCHANGED <<recorded, ran>>
      \/ /\ file[p] \in Files /\ Version[file[p]] \notin recorded
         /\ recorded' = recorded \cup {Version[file[p]]}
         /\ ran' = ran \cup {file[p]}
  BY DEF Step, EnsureTable, AlreadyApplied, Apply, UpToDate, StartAgain, Progress
<1>6. MigrationsTypeOK'
  BY <1>1, <1>4, <1>5, FileFacts DEF MigrationsTypeOK, Set
<1>7. RecordedRanOnce'
  BY <1>5 DEF RecordedRanOnce
<1> QED BY <1>3, <1>6, <1>7

\* The empty database satisfies it.
LEMMA InitInv == Init => Inv
<1> SUFFICES ASSUME Init PROVE Inv
  OBVIOUS
<1>1. table \in BOOLEAN
  BY DEF Init
<1>2. /\ recorded \subseteq Nat /\ ran \subseteq Files
      /\ pc \in [Procs -> {"start", "create", "check", "apply", "serving", "exited"}]
  BY DEF Init
<1>3. /\ file \in [Procs -> 1 .. Len(Version) + 1]
      /\ errors \in 0 .. MaxErrors /\ starts \in 0 .. MaxStarts
  BY MigrationsAssumption, FileFacts DEF Init
<1>4. RecordedRanOnce
  BY DEF Init, RecordedRanOnce
<1>5. Progress
  <2>1. \A p \in Procs : pc[p] = "start" /\ file[p] = 1
    BY DEF Init
  <2>2. \A i \in Files : ~(i < 1)
    BY FileFacts
  <2> QED BY <2>1, <2>2 DEF Progress
<1> QED BY <1>1, <1>2, <1>3, <1>4, <1>5 DEF Inv, MigrationsTypeOK

\* So does every state that a step of the system leads to.
LEMMA NextInv == Inv /\ [Next]_vars => Inv'
<1> SUFFICES ASSUME Inv, [Next]_vars PROVE Inv'
  OBVIOUS
<1>1. ASSUME NEW p \in Procs, Step(p) PROVE Inv'
  BY <1>1, StepKeeps
<1>2. CASE UNCHANGED vars
  BY <1>2 DEF vars, Inv, MigrationsTypeOK, RecordedRanOnce, Progress
<1> QED BY <1>1, <1>2 DEF Next, Step, Finished

\* What the processes keep and what the database holds is well formed.
THEOREM MigrationsWellTyped == Spec => []MigrationsTypeOK
<1>1. Inv => MigrationsTypeOK
  BY DEF Inv
<1> QED BY <1>1, InitInv, NextInv, PTL DEF Spec

(***************************************************************************)
(* However many processes migrate the same database at once, and whatever  *)
(* fails, every recorded version stands for one file that was run, and for *)
(* one only.                                                               *)
(***************************************************************************)
THEOREM NothingRunsTwice == Spec => []RecordedRanOnce
<1>1. Inv => RecordedRanOnce
  BY DEF Inv
<1> QED BY <1>1, InitInv, NextInv, PTL DEF Spec

(***************************************************************************)
(* A process that serves has a database in which every version is          *)
(* recorded, whichever process ran the migrations.                         *)
(***************************************************************************)
THEOREM ServersAreMigrated == Spec => []ServingIsMigrated
<1>1. Inv => ServingIsMigrated
  BY FileFacts DEF Inv, MigrationsTypeOK, Progress, ServingIsMigrated
<1> QED BY <1>1, InitInv, NextInv, PTL DEF Spec
=============================================================================
