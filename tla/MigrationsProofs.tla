-------------------------- MODULE MigrationsProofs --------------------------
(***************************************************************************)
(* Proofs about Migrations, for any number of processes, hosts, revisions  *)
(* and crashes.                                                            *)
(***************************************************************************)
EXTENDS Migrations, TLAPS

LEMMA TypeNext ==
  ASSUME TypeOK, [Next]_vars
  PROVE  TypeOK'
  <1> USE ConstantsAssumption DEF TypeOK, Stage, Baseline
  <1>1. ASSUME NEW p \in Procs, LookForVersion(p) PROVE TypeOK'
    BY <1>1 DEF LookForVersion
  <1>2. ASSUME NEW p \in Procs, LookForQueries(p) PROVE TypeOK'
    BY <1>2 DEF LookForQueries
  <1>3. ASSUME NEW p \in Procs, Lock(p) PROVE TypeOK'
    BY <1>3 DEF Lock
  <1>4. ASSUME NEW p \in Procs, Stamp(p) PROVE TypeOK'
    BY <1>4 DEF Stamp
  <1>5. ASSUME NEW p \in Procs, BeginUpgrade(p) PROVE TypeOK'
    BY <1>5 DEF BeginUpgrade
  <1>6. ASSUME NEW p \in Procs, CommitUpgrade(p) PROVE TypeOK'
    BY <1>6 DEF CommitUpgrade
  <1>7. ASSUME NEW p \in Procs, FailUpgrade(p) PROVE TypeOK'
    BY <1>7 DEF FailUpgrade
  <1>8. ASSUME NEW p \in Procs, Crash(p) PROVE TypeOK'
    BY <1>8 DEF Crash
  <1>9. CASE UNCHANGED vars
    BY <1>9 DEF vars
  <1>10. QED
    BY <1>1, <1>2, <1>3, <1>4, <1>5, <1>6, <1>7, <1>8, <1>9 DEF Next, ProcStep

(* The variables keep their types, with any mix of initial schemas.        *)
THEOREM TypeCorrect == Spec => []TypeOK
  <1>1. ASSUME Init PROVE TypeOK
    <2>1. applied \in 0..Head /\ version \in 0..Head /\ crashes \in 0..MaxCrashes
      <3>1. (applied \in Schemas /\ version = applied) \/ (applied = 1 /\ version = 0)
        BY <1>1, Zenon DEF Init, Baseline
      <3>2. crashes = 0
        BY <1>1 DEF Init
      <3>3. Head \in Nat \ {0} /\ MaxCrashes \in Nat
        BY ConstantsAssumption
      <3>4. \A k \in Schemas : k \in 0..Head
        BY ConstantsAssumption, Zenon
      <3>5. applied \in 0..Head /\ version \in 0..Head
        BY <3>1, <3>3, <3>4
      <3>6. QED
        BY <3>2, <3>3, <3>5
    <2>2. pc \in [Procs -> Stage] /\ stamp \in [Procs -> BOOLEAN]
      BY <1>1 DEF Init, Stage
    <2>3. base \in [Procs -> 0..Head]
      BY <1>1, ConstantsAssumption DEF Init
    <2>4. QED
      BY <2>1, <2>2, <2>3 DEF TypeOK
  <1>2. QED
    BY <1>1, TypeNext, PTL DEF Spec

(* Once the schema is versioned, no process ever decides to stamp it,      *)
(* however the processes interleave and wherever they run; what a process  *)
(* past its stamp had decided does not matter, as each start decides anew. *)
NeverStamps ==
    /\ applied \in 1..Head /\ version = applied
    /\ \A p \in Procs :
         pc[p] # "looking" /\ (pc[p] \in {"waiting", "locked"} => ~stamp[p])

(* What a process has found or made stays true: once the schema is at its  *)
(* head no process can move it, because none stamps.                       *)
HeadIsReached ==
    \A p \in Procs :
        pc[p] = "ready" \/ (pc[p] = "upgrading" /\ base[p] = Head) => version = Head

LEMMA NeverStampsNext ==
  ASSUME TypeOK, NeverStamps, [Next]_vars
  PROVE  NeverStamps'
  <1> USE ConstantsAssumption DEF TypeOK, NeverStamps, Stage, Baseline
  <1>1. ASSUME NEW p \in Procs, LookForVersion(p) PROVE NeverStamps'
    BY <1>1 DEF LookForVersion
  <1>2. ASSUME NEW p \in Procs, LookForQueries(p) PROVE NeverStamps'
    BY <1>2 DEF LookForQueries
  <1>3. ASSUME NEW p \in Procs, Lock(p) PROVE NeverStamps'
    BY <1>3 DEF Lock
  <1>4. ASSUME NEW p \in Procs, Stamp(p) PROVE NeverStamps'
    BY <1>4 DEF Stamp
  <1>5. ASSUME NEW p \in Procs, BeginUpgrade(p) PROVE NeverStamps'
    BY <1>5 DEF BeginUpgrade
  <1>6. ASSUME NEW p \in Procs, CommitUpgrade(p) PROVE NeverStamps'
    BY <1>6 DEF CommitUpgrade
  <1>7. ASSUME NEW p \in Procs, FailUpgrade(p) PROVE NeverStamps'
    BY <1>7 DEF FailUpgrade
  <1>8. ASSUME NEW p \in Procs, Crash(p) PROVE NeverStamps'
    BY <1>8 DEF Crash
  <1>9. CASE UNCHANGED vars
    BY <1>9 DEF vars
  <1>10. QED
    BY <1>1, <1>2, <1>3, <1>4, <1>5, <1>6, <1>7, <1>8, <1>9 DEF Next, ProcStep

LEMMA HeadIsReachedNext ==
  ASSUME TypeOK, NeverStamps, HeadIsReached, [Next]_vars
  PROVE  HeadIsReached'
  <1> USE ConstantsAssumption DEF TypeOK, NeverStamps, HeadIsReached, Stage
  <1>1. ASSUME NEW p \in Procs, LookForVersion(p) PROVE HeadIsReached'
    BY <1>1 DEF LookForVersion
  <1>2. ASSUME NEW p \in Procs, LookForQueries(p) PROVE HeadIsReached'
    BY <1>2 DEF LookForQueries
  <1>3. ASSUME NEW p \in Procs, Lock(p) PROVE HeadIsReached'
    BY <1>3 DEF Lock
  <1>4. ASSUME NEW p \in Procs, Stamp(p) PROVE HeadIsReached'
    BY <1>4 DEF Stamp
  <1>5. ASSUME NEW p \in Procs, BeginUpgrade(p) PROVE HeadIsReached'
    BY <1>5 DEF BeginUpgrade
  <1>6. ASSUME NEW p \in Procs, CommitUpgrade(p) PROVE HeadIsReached'
    BY <1>6 DEF CommitUpgrade
  <1>7. ASSUME NEW p \in Procs, FailUpgrade(p) PROVE HeadIsReached'
    BY <1>7 DEF FailUpgrade
  <1>8. ASSUME NEW p \in Procs, Crash(p) PROVE HeadIsReached'
    BY <1>8 DEF Crash
  <1>9. CASE UNCHANGED vars
    BY <1>9 DEF vars
  <1>10. QED
    BY <1>1, <1>2, <1>3, <1>4, <1>5, <1>6, <1>7, <1>8, <1>9 DEF Next, ProcStep

LEMMA VersionedInvariant ==
  ASSUME Schemas \subseteq 1..Head, ~Unversioned
  PROVE  Spec => [](NeverStamps /\ HeadIsReached)
  <1>1. Init => NeverStamps /\ HeadIsReached
    BY DEF Init, NeverStamps, HeadIsReached
  <1>2. TypeOK /\ NeverStamps /\ HeadIsReached /\ [Next]_vars
          => (NeverStamps /\ HeadIsReached)'
    BY NeverStampsNext, HeadIsReachedNext
  <1>3. QED
    BY <1>1, <1>2, TypeCorrect, PTL DEF Spec

(* A versioned database stays versioned at the revision its schema has,    *)
(* with any number of processes on any hosts, started in any order.        *)
THEOREM VersionedStaysVersioned ==
  ASSUME Schemas \subseteq 1..Head, ~Unversioned
  PROVE  Spec => []VersionMatchesSchema
  <1>1. NeverStamps => VersionMatchesSchema
    BY DEF NeverStamps, VersionMatchesSchema
  <1>2. QED
    BY <1>1, VersionedInvariant, PTL

(* On such a database a process that is ready has found the schema of its  *)
(* code or brought it there, and nothing takes it back.                    *)
THEOREM ReadyIsMigrated ==
  ASSUME Schemas \subseteq 1..Head, ~Unversioned
  PROVE  Spec => []ReadyMeansMigrated
  <1>1. NeverStamps /\ HeadIsReached => ReadyMeansMigrated
    BY DEF NeverStamps, HeadIsReached, ReadyMeansMigrated
  <1>2. QED
    BY <1>1, VersionedInvariant, PTL

(* The first start of a deployment in which every process waits for a: as  *)
(* long as a has not been ready nobody else has started.  What a decides   *)
(* from its look at the schema remains true until it stamps, and the       *)
(* upgrade begins where the schema is.                                     *)
FirstStart(a) ==
    /\ \A p \in Procs \ {a} : pc[p] = "new"
    /\ pc[a] # "ready" /\ VersionMatchesSchema
    /\ pc[a] = "looking" => version = 0
    /\ pc[a] \in {"waiting", "locked"} =>
         IF stamp[a] THEN applied = Baseline ELSE version = applied
    /\ pc[a] \in {"stamped", "upgrading"} => version = applied
    /\ pc[a] = "upgrading" => base[a] = version

(* It lasts until a is ready, which leaves a versioned schema.             *)
Ordered(a) == FirstStart(a) \/ (NeverStamps /\ HeadIsReached)

LEMMA FirstStartNext ==
  ASSUME NEW a \in Procs, \A p \in Procs \ {a} : a \in WaitsFor[p],
         TypeOK, FirstStart(a), [Next]_vars
  PROVE  Ordered(a)'
  <1> USE ConstantsAssumption DEF TypeOK, FirstStart, VersionMatchesSchema, Stage, Baseline
  <1>1. ASSUME NEW p \in Procs, LookForVersion(p) PROVE FirstStart(a)'
    <2>1. p = a
      BY <1>1 DEF LookForVersion, Starting
    <2>2. QED
      BY <1>1, <2>1 DEF LookForVersion
  <1>2. ASSUME NEW p \in Procs, LookForQueries(p) PROVE FirstStart(a)'
    <2>1. p = a /\ version = 0
      BY <1>2 DEF LookForQueries
    <2>2. applied \in {0, 1}
      BY <2>1
    <2>3. pc' = [pc EXCEPT ![a] = "waiting"] /\ stamp' = [stamp EXCEPT ![a] = applied >= 1]
      BY <1>2, <2>1 DEF LookForQueries
    <2>4. pc'[a] = "waiting" /\ stamp'[a] = (applied >= 1)
      BY <2>3, Zenon
    <2>5. stamp'[a] <=> applied = 1
      <3>1. applied >= 1 <=> applied = 1
        BY <2>2
      <3>2. QED
        BY <2>4, <3>1, Zenon
    <2>6. \A q \in Procs \ {a} : pc'[q] = "new"
      BY <2>3
    <2>7. UNCHANGED <<applied, version, base>>
      BY <1>2 DEF LookForQueries
    <2>8. QED
      BY <2>1, <2>2, <2>4, <2>5, <2>6, <2>7
  <1>3. ASSUME NEW p \in Procs, Lock(p) PROVE FirstStart(a)'
    BY <1>3 DEF Lock
  <1>4. ASSUME NEW p \in Procs, Stamp(p) PROVE FirstStart(a)'
    BY <1>4 DEF Stamp
  <1>5. ASSUME NEW p \in Procs, BeginUpgrade(p) PROVE FirstStart(a)'
    BY <1>5 DEF BeginUpgrade
  <1>6. ASSUME NEW p \in Procs, CommitUpgrade(p) PROVE (NeverStamps /\ HeadIsReached)'
    <2>1. p = a
      BY <1>6 DEF CommitUpgrade
    <2>2. applied' = Head /\ version' = Head /\ pc' = [pc EXCEPT ![a] = "ready"]
      BY <1>6, <2>1 DEF CommitUpgrade
    <2>3. \A q \in Procs : pc'[q] \in {"new", "ready"}
      BY <2>2
    <2>4. QED
      BY <2>2, <2>3 DEF NeverStamps, HeadIsReached
  <1>7. ASSUME NEW p \in Procs, FailUpgrade(p) PROVE FirstStart(a)'
    BY <1>7 DEF FailUpgrade
  <1>8. ASSUME NEW p \in Procs, Crash(p) PROVE FirstStart(a)'
    BY <1>8 DEF Crash
  <1>9. CASE UNCHANGED vars
    <2>1. applied' = applied /\ version' = version /\ pc' = pc /\ stamp' = stamp /\ base' = base
      BY <1>9 DEF vars
    <2>2. FirstStart(a)'
      BY <2>1, Zenon DEF FirstStart
    <2>3. QED
      BY <2>2 DEF Ordered
  <1>10. QED
    BY <1>1, <1>2, <1>3, <1>4, <1>5, <1>6, <1>7, <1>8, <1>9 DEF Next, ProcStep, Ordered

LEMMA OrderedInvariant ==
  ASSUME NEW a \in Procs, \A p \in Procs \ {a} : a \in WaitsFor[p]
  PROVE  Spec => []Ordered(a)
  <1>1. ASSUME Init PROVE Ordered(a)
    <2>1. VersionMatchesSchema
      BY <1>1 DEF Init, VersionMatchesSchema
    <2>2. CASE pc = [p \in Procs |-> "new"]
      BY <2>1, <2>2 DEF Ordered, FirstStart
    <2>3. CASE version # 0 /\ pc = [p \in Procs |-> "down"]
      <3>1. applied \in Schemas /\ version = applied
        BY <1>1, <2>3 DEF Init
      <3>2. applied \in 1..Head
        BY <2>3, <3>1, ConstantsAssumption
      <3>3. QED
        BY <2>3, <3>1, <3>2 DEF Ordered, NeverStamps, HeadIsReached
    <2>4. QED
      BY <1>1, <2>2, <2>3 DEF Init
  <1>2. TypeOK /\ Ordered(a) /\ [Next]_vars => Ordered(a)'
    BY FirstStartNext, NeverStampsNext, HeadIsReachedNext DEF Ordered
  <1>3. QED
    BY <1>1, <1>2, TypeCorrect, PTL DEF Spec

(* When every other process waits for one, as the worker does for the API  *)
(* (docker-compose.yml), the recorded revision is the one of the schema    *)
(* from whatever database the deployment starts, an empty one and one      *)
(* older than Alembic included, and through all crashes and restarts.      *)
THEOREM OrderedStaysVersioned ==
  ASSUME NEW a \in Procs, \A p \in Procs \ {a} : a \in WaitsFor[p]
  PROVE  Spec => []VersionMatchesSchema
  <1>1. Ordered(a) => VersionMatchesSchema
    BY DEF Ordered, FirstStart, NeverStamps, VersionMatchesSchema
  <1>2. QED
    BY <1>1, OrderedInvariant, PTL

(* And then, too, whoever is ready finds the schema of its code.           *)
THEOREM OrderedReadyIsMigrated ==
  ASSUME NEW a \in Procs, \A p \in Procs \ {a} : a \in WaitsFor[p]
  PROVE  Spec => []ReadyMeansMigrated
  <1>1. Ordered(a) => ReadyMeansMigrated
    BY DEF Ordered, FirstStart, NeverStamps, HeadIsReached, ReadyMeansMigrated
  <1>2. QED
    BY <1>1, OrderedInvariant, PTL

=============================================================================
