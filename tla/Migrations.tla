----------------------------- MODULE Migrations -----------------------------
(***************************************************************************)
(* RunEmbeddedMigrations, which the API server and the worker both run     *)
(* when they start, against the same database and without a lock.  A       *)
(* process that gets an error exits before it serves anything.             *)
(*                                                                         *)
(* Version[i] is the version in the name of the i-th file in sorted order. *)
(***************************************************************************)
EXTENDS Naturals, Sequences

CONSTANTS Procs,       \* the processes that start
          Version,     \* the versions of the files, in the order of their names
          MaxErrors,   \* how many store calls may fail
          MaxStarts    \* how many times exited processes are started again

ASSUME MigrationsAssumption ==
    /\ Version \in Seq(Nat \ {0})
    /\ MaxErrors \in Nat
    /\ MaxStarts \in Nat

Files == DOMAIN Version

VARIABLES table,     \* whether the table schema_migrations exists
          recorded,  \* the versions in schema_migrations
          ran,       \* the files whose statements were committed
          pc,        \* what each process does next
          file,      \* the file each process is at
          errors, starts

vars == <<table, recorded, ran, pc, file, errors, starts>>

MigrationsTypeOK ==
    /\ table \in BOOLEAN
    /\ recorded \subseteq Nat
    /\ ran \subseteq Files
    /\ pc \in [Procs -> {"start", "create", "check", "apply", "serving", "exited"}]
    /\ file \in [Procs -> 1 .. Len(Version) + 1]
    /\ errors \in 0 .. MaxErrors
    /\ starts \in 0 .. MaxStarts

Init ==
    /\ table = FALSE
    /\ recorded = {}
    /\ ran = {}
    /\ pc = [p \in Procs |-> "start"]
    /\ file = [p \in Procs |-> 1]
    /\ errors = 0
    /\ starts = 0

Set(p, q, i) == /\ pc' = [pc EXCEPT ![p] = q]
                /\ file' = [file EXCEPT ![p] = i]

(***************************************************************************)
(* CREATE TABLE IF NOT EXISTS, which PostgreSQL does not make atomic: of   *)
(* two sessions that both find the table missing, one creates it and the   *)
(* other gets an error (external).  Any other error ends the process too,  *)
(* and the statement may have been executed.                               *)
(***************************************************************************)
EnsureTable(p) ==
    /\ \/ /\ pc[p] = "start"
          /\ Set(p, IF table THEN "check" ELSE "create", file[p])
          /\ UNCHANGED <<table, errors>>
       \/ /\ pc[p] = "create"
          /\ Set(p, IF table THEN "exited" ELSE "check", file[p])
          /\ table' = TRUE
          /\ UNCHANGED errors
       \/ /\ pc[p] \in {"start", "create"}
          /\ errors < MaxErrors /\ errors' = errors + 1
          /\ Set(p, "exited", file[p])
          /\ table' \in {table, TRUE}
    /\ UNCHANGED <<recorded, ran, starts>>

\* A process that finds a version recorded takes it for an error.
ExitIfApplied(p) ==
    LET i == file[p] IN
    /\ pc[p] = "check" /\ i \in Files
    /\ Set(p, IF Version[i] \in recorded THEN "exited" ELSE "apply", i)
    /\ UNCHANGED <<table, recorded, ran, errors, starts>>

\* An error of the query counts as already applied.
SkipOnError(p) ==
    LET i == file[p] IN
    /\ pc[p] = "check" /\ i \in Files
    /\ \/ Version[i] \in recorded /\ Set(p, "check", i + 1) /\ UNCHANGED errors
       \/ Version[i] \notin recorded /\ Set(p, "apply", i) /\ UNCHANGED errors
       \/ /\ errors < MaxErrors /\ errors' = errors + 1
          /\ Set(p, "check", i + 1)
    /\ UNCHANGED <<table, recorded, ran, starts>>

\* The loop also skips the file after one that is already applied.
SkipNextToo(p) ==
    LET i == file[p] IN
    /\ pc[p] = "check" /\ i \in Files
    /\ \/ Version[i] \in recorded /\ Set(p, "check", i + 2)
       \/ Version[i] \notin recorded /\ Set(p, "apply", i)
    /\ UNCHANGED <<table, recorded, ran, errors, starts>>

(***************************************************************************)
(* alreadyApplied: a file is skipped if its version is recorded; an error  *)
(* of the query counts as not applied.                                     *)
(***************************************************************************)
AlreadyApplied(p) ==
    LET i == file[p] IN
    /\ pc[p] = "check" /\ i \in Files
    /\ \/ Version[i] \in recorded /\ Set(p, "check", i + 1) /\ UNCHANGED errors
       \/ Version[i] \notin recorded /\ Set(p, "apply", i) /\ UNCHANGED errors
       \/ /\ errors < MaxErrors /\ errors' = errors + 1
          /\ Set(p, "apply", i)
    /\ UNCHANGED <<table, recorded, ran, starts>>

\* The conflict on the primary key of schema_migrations is ignored.
ApplyOnConflictDoNothing(p) ==
    LET i == file[p] IN
    /\ pc[p] = "apply"
    /\ recorded' = recorded \cup {Version[i]}
    /\ ran' = ran \cup {i}
    /\ Set(p, "check", i + 1)
    /\ UNCHANGED <<table, errors, starts>>

(***************************************************************************)
(* One transaction runs the file's statements and records its version.  Of *)
(* two processes that got here with the same version one commits; the      *)
(* other waits for it at the primary key of schema_migrations (or earlier, *)
(* at what the statements create), is refused, rolls back and exits.  One  *)
(* that gets an error exits too, and its Commit may have been executed.    *)
(***************************************************************************)
Apply(p) ==
    LET i == file[p] IN
    /\ pc[p] = "apply"
    /\ \/ /\ Version[i] \notin recorded
          /\ recorded' = recorded \cup {Version[i]}
          /\ ran' = ran \cup {i}
          /\ Set(p, "check", i + 1)
          /\ UNCHANGED errors
       \/ /\ Version[i] \in recorded
          /\ Set(p, "exited", i)
          /\ UNCHANGED <<recorded, ran, errors>>
       \/ /\ errors < MaxErrors /\ errors' = errors + 1
          /\ Set(p, "exited", i)
          /\ \/ UNCHANGED <<recorded, ran>>
             \/ /\ Version[i] \notin recorded
                /\ recorded' = recorded \cup {Version[i]}
                /\ ran' = ran \cup {i}
    /\ UNCHANGED <<table, starts>>

UpToDate(p) ==
    /\ pc[p] = "check" /\ file[p] = Len(Version) + 1
    /\ Set(p, "serving", file[p])
    /\ UNCHANGED <<table, recorded, ran, errors, starts>>

\* An exited process is started again by whoever runs it.
StartAgain(p) ==
    /\ pc[p] = "exited" /\ starts < MaxStarts
    /\ starts' = starts + 1
    /\ Set(p, "start", 1)
    /\ UNCHANGED <<table, recorded, ran, errors>>

\* Every process serves, or exited and is not started again.
Finished == /\ \A p \in Procs : pc[p] \in {"serving", "exited"}
            /\ UNCHANGED vars

Next == \/ \E p \in Procs : \/ EnsureTable(p) \/ AlreadyApplied(p) \/ Apply(p)
                            \/ UpToDate(p) \/ StartAgain(p)
        \/ Finished

Spec == Init /\ [][Next]_vars

\* A process that is starting goes on; starting it again is not fair.
FairSpec ==
    /\ Spec
    /\ \A p \in Procs : WF_vars(\/ EnsureTable(p) \/ AlreadyApplied(p)
                                \/ Apply(p) \/ UpToDate(p))

-----------------------------------------------------------------------------
(***************************************************************************)
(* However many processes start together, each recorded version stands for *)
(* exactly one file whose statements were committed, and no other file was *)
(* run: nothing is migrated twice and nothing is recorded unrun.           *)
(***************************************************************************)
RecordedRanOnce ==
    /\ \A v \in recorded : \E i \in ran : Version[i] = v
    /\ \A i \in ran : Version[i] \in recorded
    /\ \A i, j \in ran : Version[i] = Version[j] => i = j

\* A process serves only when every version is recorded.
ServingIsMigrated ==
    (\E p \in Procs : pc[p] = "serving") =>
        \A i \in Files : Version[i] \in recorded

\* A process has left only files behind whose version is recorded.
Progress ==
    \A p \in Procs :
        /\ pc[p] = "apply" => file[p] \in Files
        /\ pc[p] = "serving" => file[p] = Len(Version) + 1
        /\ \A i \in Files : i < file[p] => Version[i] \in recorded

(***************************************************************************)
(* Without errors of the database, processes that race at start-up do not  *)
(* all knock each other out: whoever loses a race exits, but someone ends  *)
(* up serving.                                                             *)
(***************************************************************************)
SomeoneServes == <>(errors > 0 \/ \E p \in Procs : pc[p] = "serving")

(***************************************************************************)
(* The status values are "enforced ... at the DB level via CHECK           *)
(* constraints", which the last file adds: when a process serves, every    *)
(* file was run.                                                           *)
(***************************************************************************)
ServingRanEveryFile == (\E p \in Procs : pc[p] = "serving") => ran = Files
=============================================================================
