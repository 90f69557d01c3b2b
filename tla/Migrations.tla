----------------------------- MODULE Migrations -----------------------------
(***************************************************************************)
(* initialize_database (db/init.py), which the API and the worker run when *)
(* they start: look whether an unversioned schema has to be stamped, take  *)
(* a file lock, stamp, and upgrade to the last revision.  The look at the  *)
(* schema is two queries on connections of their own, before the lock; the *)
(* lock is a file, so it excludes only processes of one host.              *)
(***************************************************************************)
EXTENDS Naturals

CONSTANTS
    Procs,      \* processes that initialize the database
    HostOf,     \* the host (container) each runs on
    WaitsFor,   \* the processes ready before each is first started (depends_on)
    Head,       \* number of revisions
    Schemas,    \* initial schemas: 0 is an empty database, k > 0 revision k
    Unversioned,\* may the initial schema be the baseline without alembic_version?
    MaxCrashes  \* bound on the crashes

ASSUME ConstantsAssumption ==
    /\ Head \in Nat \ {0} /\ MaxCrashes \in Nat
    /\ Schemas \subseteq 0..Head
    /\ Unversioned \in BOOLEAN
    /\ WaitsFor \in [Procs -> SUBSET Procs]

Baseline == 1

VARIABLES
    applied,  \* revisions whose DDL is committed: 1 .. applied
    version,  \* the row of alembic_version, 0 when the table does not exist
    pc,       \* where each process is
    stamp,    \* should_stamp of each process
    base,     \* the revision its upgrade transaction started from
    crashes   \* crashes so far

vars == <<applied, version, pc, stamp, base, crashes>>

Stage == {"new", "down", "looking", "waiting", "locked", "stamped", "upgrading", "ready"}

HoldsLock(p) == pc[p] \in {"locked", "stamped", "upgrading"}

(* A first start of the deployment, or a restart of it (redeployment or    *)
(* reboot) on a database that has a version already.                       *)
Init ==
    /\ \/ applied \in Schemas /\ version = applied
       \/ Unversioned /\ applied = Baseline /\ version = 0
    /\ \/ pc = [p \in Procs |-> "new"]
       \/ version # 0 /\ pc = [p \in Procs |-> "down"]
    /\ stamp = [p \in Procs |-> FALSE]
    /\ base = [p \in Procs |-> 0]
    /\ crashes = 0

(* depends_on orders the first start only, not a restart.     *)
Starting(p) ==
    \/ pc[p] = "new" /\ \A q \in WaitsFor[p] : pc[q] = "ready"
    \/ pc[p] = "down"

(* Mutant: a schema with a version is taken for migrated.                  *)
LookForVersionOnly(p) ==
    /\ Starting(p)
    /\ pc' = [pc EXCEPT ![p] = IF version # 0 THEN "ready" ELSE "looking"]
    /\ stamp' = [stamp EXCEPT ![p] = FALSE]
    /\ UNCHANGED <<applied, version, base, crashes>>

(* The process starts; a schema with an alembic_version needs no stamp.    *)
LookForVersion(p) ==
    /\ Starting(p)
    /\ pc' = [pc EXCEPT ![p] = IF version # 0 THEN "waiting" ELSE "looking"]
    /\ stamp' = [stamp EXCEPT ![p] = FALSE]
    /\ UNCHANGED <<applied, version, base, crashes>>

(* Without one it does if the table queries exists.                        *)
LookForQueries(p) ==
    /\ pc[p] = "looking"
    /\ pc' = [pc EXCEPT ![p] = "waiting"]
    /\ stamp' = [stamp EXCEPT ![p] = applied >= Baseline]
    /\ UNCHANGED <<applied, version, base, crashes>>

(* flock: one process per host goes on.                                    *)
Lock(p) ==
    /\ pc[p] = "waiting"
    /\ \A q \in Procs : HostOf[q] = HostOf[p] => ~HoldsLock(q)
    /\ pc' = [pc EXCEPT ![p] = "locked"]
    /\ UNCHANGED <<applied, version, stamp, base, crashes>>

(* Mutant: every start stamps the baseline.                                *)
StampAlways(p) ==
    /\ pc[p] = "locked"
    /\ version' = Baseline
    /\ pc' = [pc EXCEPT ![p] = "stamped"]
    /\ UNCHANGED <<applied, stamp, base, crashes>>

(* command.stamp sets the version to the baseline, whatever it was.        *)
Stamp(p) ==
    /\ pc[p] = "locked"
    /\ version' = IF stamp[p] THEN Baseline ELSE version
    /\ pc' = [pc EXCEPT ![p] = "stamped"]
    /\ UNCHANGED <<applied, stamp, base, crashes>>

(* command.upgrade reads the version and runs the revisions after it in    *)
(* one transaction.                                                        *)
BeginUpgrade(p) ==
    /\ pc[p] = "stamped"
    /\ base' = [base EXCEPT ![p] = version]
    /\ pc' = [pc EXCEPT ![p] = "upgrading"]
    /\ UNCHANGED <<applied, version, stamp, crashes>>

(* Mutant: the version counts the revisions instead of naming the last.    *)
CommitUpgradeCounting(p) ==
    /\ pc[p] = "upgrading"
    /\ base[p] = Head \/ (base[p] = version /\ base[p] = applied)
    /\ applied' = Head /\ version' = version + Head
    /\ pc' = [pc EXCEPT ![p] = "ready"]
    /\ UNCHANGED <<stamp, base, crashes>>

(* The transaction commits if the objects its revisions create are not     *)
(* there yet and the row of alembic_version is still the one it read.      *)
CommitUpgrade(p) ==
    /\ pc[p] = "upgrading"
    /\ base[p] = Head \/ (base[p] = version /\ base[p] = applied)
    /\ IF base[p] = Head THEN UNCHANGED <<applied, version>>
       ELSE applied' = Head /\ version' = Head
    /\ pc' = [pc EXCEPT ![p] = "ready"]
    /\ UNCHANGED <<stamp, base, crashes>>

(* Mutant: without a lock_timeout the upgrade waits for ever.              *)
FailUpgradeHangs(p) ==
    /\ pc[p] = "upgrading"
    /\ base[p] # Head /\ ~(base[p] = version /\ base[p] = applied)
    /\ UNCHANGED vars

(* Otherwise it fails, and the process exits.                              *)
FailUpgrade(p) ==
    /\ pc[p] = "upgrading"
    /\ base[p] # Head /\ ~(base[p] = version /\ base[p] = applied)
    /\ pc' = [pc EXCEPT ![p] = "down"]
    /\ UNCHANGED <<applied, version, stamp, base, crashes>>

(* A killed process frees the lock and rolls back its transaction.         *)
Crash(p) ==
    /\ pc[p] \notin {"new", "down"}
    /\ crashes < MaxCrashes
    /\ crashes' = crashes + 1
    /\ pc' = [pc EXCEPT ![p] = "down"]
    /\ UNCHANGED <<applied, version, stamp, base>>

ProcStep(p) ==
    \/ LookForVersion(p) \/ LookForQueries(p) \/ Lock(p) \/ Stamp(p)
    \/ BeginUpgrade(p) \/ CommitUpgrade(p) \/ FailUpgrade(p)

Next == \E p \in Procs : ProcStep(p) \/ Crash(p)

Spec == Init /\ [][Next]_vars

(* The operating system grants the lock, statements have timeouts and an   *)
(* exited process is restarted.                                            *)
FairSpec == Spec /\ \A p \in Procs : WF_vars(ProcStep(p))

-----------------------------------------------------------------------------
(* Types of the variables.                                                 *)
TypeOK ==
    /\ applied \in 0..Head /\ version \in 0..Head
    /\ pc \in [Procs -> Stage]
    /\ stamp \in [Procs -> BOOLEAN]
    /\ base \in [Procs -> 0..Head]
    /\ crashes \in 0..MaxCrashes

(* The recorded revision is the one the schema has, except for the         *)
(* unversioned baseline that a process has still to stamp: otherwise every *)
(* later upgrade creates objects that exist and no process can start.      *)
VersionMatchesSchema ==
    version = applied \/ (version = 0 /\ applied = Baseline /\ Unversioned)

(* A process that has started finds the schema of its own code.            *)
ReadyMeansMigrated ==
    \A p \in Procs : pc[p] = "ready" => applied = Head /\ version = Head

(* Whatever the order of the starts and crashes, every process is ready in *)
(* the end (initialize_database neither waits for ever nor fails for ever).*)
EveryProcessReady == \A p \in Procs : <>[](pc[p] = "ready")

=============================================================================
