------------------------- MODULE RunLifecycleProofs -------------------------
(***************************************************************************)
(* Proofs about RunLifecycle, for any number of runs, workers and          *)
(* documents and any value of the other constants.                         *)
(***************************************************************************)
EXTENDS RunLifecycle, TLAPS

(* Every value a handler writes into a row is a row, and so is what a      *)
(* session has loaded.                                                     *)
LEMMA WrittenRows ==
  ASSUME TypeOK, NEW q \in Row, NEW was \in Row
  PROVE  /\ NewRun(q) \in Row /\ MarkRunning(q, was) \in Row /\ MarkCompleted(q) \in Row
         /\ MarkFailed(q) \in Row /\ MarkUnexpected(q, was) \in Row
         /\ Requeued(q, was) \in Row
  <1> USE DEF Row, Status
  <1>1. clock \in Nat /\ clock + Ttl \in Nat
    BY ConstantsAssumption DEF TypeOK
  <1>2. NewRun(q) \in Row  BY <1>1 DEF NewRun
  <1>3. MarkRunning(q, was) \in Row  BY <1>1 DEF MarkRunning
  <1>4. MarkCompleted(q) \in Row  BY <1>1 DEF MarkCompleted
  <1>5. MarkFailed(q) \in Row  BY DEF MarkFailed
  <1>6. MarkUnexpected(q, was) \in Row  BY DEF MarkUnexpected
  <1>7. Requeued(q, was) \in Row  BY DEF Requeued
  <1>8. QED  BY <1>2, <1>3, <1>4, <1>5, <1>6, <1>7

LEMMA LoadedRows ==
  ASSUME row \in [Runs -> Row], NEW S
  PROVE  Loaded(S) \in [Runs -> Row]
  BY DEF Loaded, NoRow, Row, Status

(* Type correctness: the initial state and every step of RunLifecycle keep *)
(* every variable in its type.                                             *)
LEMMA TypeInit == Init => TypeOK
  <1>1. NoRow \in Row
    BY DEF NoRow, Row, Status
  <1>2. QED
    BY <1>1, LoadedRows, ConstantsAssumption DEF Init, TypeOK, Stage, Owns

LEMMA TypeNext == TypeOK /\ [Next]_vars => TypeOK'
  <1> SUFFICES ASSUME TypeOK, [Next]_vars PROVE TypeOK'
    OBVIOUS
  <1> USE WrittenRows, LoadedRows, ConstantsAssumption
      DEF TypeOK, Stage, Owns, published, open, EndTransaction
  <1>1. ASSUME NEW r \in Runs, CreateRun(r) PROVE TypeOK'
    BY <1>1 DEF CreateRun
  <1>2. ASSUME NEW w \in Workers, Start(w) PROVE TypeOK'
    BY <1>2 DEF Start, Stale
  <1>3. ASSUME NEW w \in Workers, Requeue(w) PROVE TypeOK'
    <2>1. ASSUME NEW r \in Runs PROVE Requeued(row[r], read[w][r]) \in Row
      <3>1. row[r] \in Row /\ read[w][r] \in Row
        OBVIOUS
      <3>2. QED
        BY <3>1, WrittenRows
    <2>2. QED
      BY <1>3, <2>1 DEF Requeue
  <1>4. ASSUME NEW w \in Workers, NEW r \in Runs, ClaimSelect(w, r) PROVE TypeOK'
    BY <1>4 DEF ClaimSelect, Claimable
  <1>5. ASSUME NEW w \in Workers, ClaimCommit(w) PROVE TypeOK'
    BY <1>5 DEF ClaimCommit
  <1>6. ASSUME NEW w \in Workers, Load(w) PROVE TypeOK'
    BY <1>6 DEF Load
  <1>7. ASSUME NEW w \in Workers, BeginPipeline(w) PROVE TypeOK'
    <2>1. run[w] \in Runs /\ row[run[w]] \in Row /\ read[w][run[w]] \in Row
      BY <1>7 DEF BeginPipeline
    <2>2. MarkRunning(row[run[w]], read[w][run[w]]) \in Row
      BY <2>1, WrittenRows
    <2>3. QED
      BY <1>7, <2>1, <2>2 DEF BeginPipeline
  <1>8. ASSUME NEW w \in Workers, UnexpectedError(w) PROVE TypeOK'
    <2>1. run[w] \in Runs /\ row[run[w]] \in Row /\ read[w][run[w]] \in Row
      BY <1>8 DEF UnexpectedError
    <2>2. MarkUnexpected(row[run[w]], read[w][run[w]]) \in Row
      BY <2>1, WrittenRows
    <2>3. QED
      BY <1>8, <2>1, <2>2 DEF UnexpectedError
  <1>9. ASSUME NEW w \in Workers, MatchNothing(w) PROVE TypeOK'
    BY <1>9 DEF MatchNothing
  <1>10. ASSUME NEW w \in Workers, NEW S \in SUBSET Docs, InsertMatches(w, S) PROVE TypeOK'
    BY <1>10 DEF InsertMatches
  <1>11. ASSUME NEW w \in Workers, Build(w) PROVE TypeOK'
    BY <1>11 DEF Build
  <1>12. ASSUME NEW w \in Workers, Complete(w) PROVE TypeOK'
    BY <1>12 DEF Complete
  <1>13. ASSUME NEW w \in Workers, RollBack(w) PROVE TypeOK'
    BY <1>13 DEF RollBack
  <1>14. ASSUME NEW w \in Workers, FailRun(w) PROVE TypeOK'
    BY <1>14 DEF FailRun
  <1>15. ASSUME NEW w \in Workers, Crash(w) PROVE TypeOK'
    BY <1>15 DEF Crash
  <1>16. CASE Tick
    BY <1>16 DEF Tick
  <1>17. CASE UNCHANGED vars
    BY <1>17 DEF vars
  <1>18. QED
    BY <1>1, <1>2, <1>3, <1>4, <1>5, <1>6, <1>7, <1>8, <1>9, <1>10, <1>11,
       <1>12, <1>13, <1>14, <1>15, <1>16, <1>17 DEF Next, WorkerStep

THEOREM TypeCorrect == Spec => []TypeOK
  BY TypeInit, TypeNext, PTL DEF Spec

-----------------------------------------------------------------------------
(* Row locks.  These hold whatever the workers do and however slow or      *)
(* numerous they are.                                                      *)

LEMMA ClaimsNext == TypeOK /\ ClaimsDisjoint /\ [Next]_vars => ClaimsDisjoint'
  <1> SUFFICES ASSUME TypeOK, ClaimsDisjoint, [Next]_vars PROVE ClaimsDisjoint'
    OBVIOUS
  <1> USE DEF TypeOK, ClaimsDisjoint, ClaimLocked
  <1>1. ASSUME NEW r \in Runs, CreateRun(r) PROVE ClaimsDisjoint'
    BY <1>1 DEF CreateRun, NewRun, Row
  <1>2. ASSUME NEW w \in Workers, Start(w) PROVE ClaimsDisjoint'
    BY <1>2 DEF Start
  <1>3. ASSUME NEW w \in Workers, Requeue(w) PROVE ClaimsDisjoint'
    BY <1>3 DEF Requeue
  <1>4. ASSUME NEW w \in Workers, NEW r \in Runs, ClaimSelect(w, r) PROVE ClaimsDisjoint'
    BY <1>4 DEF ClaimSelect, Claimable
  <1>5. ASSUME NEW w \in Workers, ClaimCommit(w) PROVE ClaimsDisjoint'
    BY <1>5 DEF ClaimCommit
  <1>6. ASSUME NEW w \in Workers, Load(w) PROVE ClaimsDisjoint'
    BY <1>6 DEF Load
  <1>7. ASSUME NEW w \in Workers, BeginPipeline(w) PROVE ClaimsDisjoint'
    BY <1>7 DEF BeginPipeline
  <1>8. ASSUME NEW w \in Workers, UnexpectedError(w) PROVE ClaimsDisjoint'
    BY <1>8 DEF UnexpectedError
  <1>9. ASSUME NEW w \in Workers, MatchNothing(w) PROVE ClaimsDisjoint'
    BY <1>9 DEF MatchNothing
  <1>10. ASSUME NEW w \in Workers, NEW S \in SUBSET Docs, InsertMatches(w, S) PROVE ClaimsDisjoint'
    BY <1>10 DEF InsertMatches
  <1>11. ASSUME NEW w \in Workers, Build(w) PROVE ClaimsDisjoint'
    BY <1>11 DEF Build
  <1>12. ASSUME NEW w \in Workers, Complete(w) PROVE ClaimsDisjoint'
    BY <1>12 DEF Complete
  <1>13. ASSUME NEW w \in Workers, RollBack(w) PROVE ClaimsDisjoint'
    BY <1>13 DEF RollBack
  <1>14. ASSUME NEW w \in Workers, FailRun(w) PROVE ClaimsDisjoint'
    BY <1>14 DEF FailRun
  <1>15. ASSUME NEW w \in Workers, Crash(w) PROVE ClaimsDisjoint'
    BY <1>15 DEF Crash
  <1>16. CASE Tick
    BY <1>16 DEF Tick
  <1>17. CASE UNCHANGED vars
    BY <1>17 DEF vars
  <1>18. QED
    BY <1>1, <1>2, <1>3, <1>4, <1>5, <1>6, <1>7, <1>8, <1>9, <1>10, <1>11,
       <1>12, <1>13, <1>14, <1>15, <1>16, <1>17 DEF Next, WorkerStep

(* Two claims never take the same run, at any number of workers.           *)
THEOREM ClaimsExclude == Spec => []ClaimsDisjoint
  <1>1. Init => ClaimsDisjoint
    BY DEF Init, ClaimsDisjoint
  <1>2. QED
    BY <1>1, ClaimsNext, TypeCorrect, PTL DEF Spec

(* WriterNotClaimed, worker by worker.                                     *)
WriterAgainstClaim ==
    \A u, v \in Workers : u # v /\ pc[u] = "claiming" /\ inserted[v] => run[v] \notin batch[u]

LEMMA WriterNext == TypeOK /\ WriterNotClaimed /\ [Next]_vars => WriterNotClaimed'
  <1> SUFFICES ASSUME TypeOK, WriterAgainstClaim, [Next]_vars PROVE WriterAgainstClaim'
    BY DEF WriterNotClaimed, WriterAgainstClaim, KeyShared
  <1> USE DEF TypeOK, WriterAgainstClaim, open, EndTransaction
  <1>1. ASSUME NEW r \in Runs, CreateRun(r) PROVE WriterAgainstClaim'
    BY <1>1 DEF CreateRun
  <1>2. ASSUME NEW w \in Workers, Start(w) PROVE WriterAgainstClaim'
    BY <1>2 DEF Start
  <1>3. ASSUME NEW w \in Workers, Requeue(w) PROVE WriterAgainstClaim'
    BY <1>3 DEF Requeue
  <1>4. ASSUME NEW w \in Workers, NEW r \in Runs, ClaimSelect(w, r) PROVE WriterAgainstClaim'
    BY <1>4 DEF ClaimSelect, Claimable, KeyShared
  <1>5. ASSUME NEW w \in Workers, ClaimCommit(w) PROVE WriterAgainstClaim'
    BY <1>5 DEF ClaimCommit
  <1>6. ASSUME NEW w \in Workers, Load(w) PROVE WriterAgainstClaim'
    BY <1>6 DEF Load
  <1>7. ASSUME NEW w \in Workers, BeginPipeline(w) PROVE WriterAgainstClaim'
    BY <1>7 DEF BeginPipeline
  <1>8. ASSUME NEW w \in Workers, UnexpectedError(w) PROVE WriterAgainstClaim'
    BY <1>8 DEF UnexpectedError
  <1>9. ASSUME NEW w \in Workers, MatchNothing(w) PROVE WriterAgainstClaim'
    BY <1>9 DEF MatchNothing
  <1>10. ASSUME NEW w \in Workers, NEW S \in SUBSET Docs, InsertMatches(w, S)
        PROVE  WriterAgainstClaim'
    BY <1>10 DEF InsertMatches, ClaimLocked
  <1>11. ASSUME NEW w \in Workers, Build(w) PROVE WriterAgainstClaim'
    BY <1>11 DEF Build, ClaimLocked
  <1>12. ASSUME NEW w \in Workers, Complete(w) PROVE WriterAgainstClaim'
    BY <1>12 DEF Complete
  <1>13. ASSUME NEW w \in Workers, RollBack(w) PROVE WriterAgainstClaim'
    BY <1>13 DEF RollBack
  <1>14. ASSUME NEW w \in Workers, FailRun(w) PROVE WriterAgainstClaim'
    BY <1>14 DEF FailRun
  <1>15. ASSUME NEW w \in Workers, Crash(w) PROVE WriterAgainstClaim'
    BY <1>15 DEF Crash
  <1>16. CASE Tick
    BY <1>16 DEF Tick
  <1>17. CASE UNCHANGED vars
    BY <1>17 DEF vars
  <1>18. QED
    BY <1>1, <1>2, <1>3, <1>4, <1>5, <1>6, <1>7, <1>8, <1>9, <1>10, <1>11,
       <1>12, <1>13, <1>14, <1>15, <1>16, <1>17 DEF Next, WorkerStep

(* A run whose results are being written is never claimed, whatever        *)
(* recovery did to its row meanwhile.                                      *)
THEOREM WritersExclude == Spec => []WriterNotClaimed
  <1>1. Init => WriterNotClaimed
    BY DEF Init, WriterNotClaimed
  <1>2. QED
    BY <1>1, WriterNext, TypeCorrect, PTL DEF Spec

-----------------------------------------------------------------------------
(* What the handlers make of the columns of a row. *)

LEMMA RowWrites ==
  ASSUME NEW q \in Row, NEW was \in Row
  PROVE  /\ NewRun(q).status = "pending"
         /\ MarkRunning(q, was).started = clock
         /\ MarkRunning(q, q).status = "running"
         /\ MarkRunning(q, was).status \in {q.status, "running"}
         /\ MarkCompleted(q).status = "completed"
         /\ MarkFailed(q).status = "failed"
         /\ MarkUnexpected(q, was).status \in {q.status, "failed"}
         /\ was.status # "failed" => MarkUnexpected(q, was).status = "failed"
         /\ Requeued(q, was).status = "pending"
  BY DEF Row, NewRun, MarkRunning, MarkCompleted, MarkFailed, MarkUnexpected, Requeued

LEMMA RowColumns ==
  ASSUME TypeOK, NEW q \in Row, NEW was \in Row
  PROVE  /\ NewRun(q).fresh = q.fresh /\ NewRun(q).error = q.error
         /\ NewRun(q).finished = q.finished
         /\ MarkRunning(q, was).fresh = q.fresh
         /\ MarkRunning(q, was).error => q.error
         /\ MarkRunning(q, was).finished => q.finished
         /\ MarkCompleted(q).fresh # 0 /\ MarkCompleted(q).error = q.error
         /\ MarkFailed(q).fresh = q.fresh /\ MarkFailed(q).error
         /\ MarkUnexpected(q, was).fresh = q.fresh /\ MarkUnexpected(q, was).error
         /\ MarkUnexpected(q, was).finished = q.finished
         /\ Requeued(q, was).fresh = q.fresh
         /\ Requeued(q, was).error => q.error
         /\ Requeued(q, was).finished => q.finished
  BY ConstantsAssumption
     DEF TypeOK, Row, NewRun, MarkRunning, MarkCompleted, MarkFailed, MarkUnexpected,
         Requeued

(* The rows a worker writes, and what it has loaded of them, are rows.     *)
LEMMA RowTypes ==
  ASSUME TypeOK
  PROVE  /\ \A r \in Runs : row[r] \in Row
         /\ \A w \in Workers, r \in Runs : read[w][r] \in Row
         /\ \A w \in Workers : Owns(w) \/ pc[w] = "claiming" => run[w] \in Runs
  BY DEF TypeOK

-----------------------------------------------------------------------------
(* A completed run has its results.  The matches its charts were built     *)
(* from are committed with them because a build reads no others.           *)

BuiltFromOwn ==
    \A w \in Workers : pc[w] = "aggregating" => built[w] \subseteq matched[run[w]] \cup found[w]

LEMMA PublishedNext ==
  ASSUME TypeOK, PublishedTogether, BuiltFromOwn, [Next]_vars
  PROVE  PublishedTogether' /\ BuiltFromOwn'
  <1> DEFINE Inv == PublishedTogether /\ BuiltFromOwn
  <1> SUFFICES Inv'
    OBVIOUS
  <1> USE RowTypes, RowWrites, RowColumns
      DEF PublishedTogether, BuiltFromOwn, TypeOK, published, open, EndTransaction, Owns
  <1>1. ASSUME NEW r \in Runs, CreateRun(r) PROVE Inv'
    BY <1>1 DEF CreateRun
  <1>2. ASSUME NEW w \in Workers, Start(w) PROVE Inv'
    BY <1>2 DEF Start
  <1>3. ASSUME NEW w \in Workers, Requeue(w) PROVE Inv'
    BY <1>3 DEF Requeue
  <1>4. ASSUME NEW w \in Workers, NEW r \in Runs, ClaimSelect(w, r) PROVE Inv'
    BY <1>4 DEF ClaimSelect
  <1>5. ASSUME NEW w \in Workers, ClaimCommit(w) PROVE Inv'
    BY <1>5 DEF ClaimCommit
  <1>6. ASSUME NEW w \in Workers, Load(w) PROVE Inv'
    BY <1>6 DEF Load
  <1>7. ASSUME NEW w \in Workers, BeginPipeline(w) PROVE Inv'
    BY <1>7 DEF BeginPipeline
  <1>8. ASSUME NEW w \in Workers, UnexpectedError(w) PROVE Inv'
    BY <1>8 DEF UnexpectedError
  <1>9. ASSUME NEW w \in Workers, MatchNothing(w) PROVE Inv'
    BY <1>9 DEF MatchNothing
  <1>10. ASSUME NEW w \in Workers, NEW S \in SUBSET Docs, InsertMatches(w, S) PROVE Inv'
    BY <1>10 DEF InsertMatches
  <1>11. ASSUME NEW w \in Workers, Build(w) PROVE Inv'
    BY <1>11 DEF Build
  <1>12. ASSUME NEW w \in Workers, Complete(w) PROVE Inv'
    BY <1>12 DEF Complete
  <1>13. ASSUME NEW w \in Workers, RollBack(w) PROVE Inv'
    BY <1>13 DEF RollBack
  <1>14. ASSUME NEW w \in Workers, FailRun(w) PROVE Inv'
    BY <1>14 DEF FailRun
  <1>15. ASSUME NEW w \in Workers, Crash(w) PROVE Inv'
    BY <1>15 DEF Crash
  <1>16. CASE Tick
    BY <1>16 DEF Tick
  <1>17. CASE UNCHANGED vars
    BY <1>17 DEF vars
  <1>18. QED
    BY <1>1, <1>2, <1>3, <1>4, <1>5, <1>6, <1>7, <1>8, <1>9, <1>10, <1>11,
       <1>12, <1>13, <1>14, <1>15, <1>16, <1>17 DEF Next, WorkerStep

(* A completed run has its results, at any number of workers and however   *)
(* slow they are.                                                          *)
THEOREM CompletedIsPublished == Spec => []PublishedTogether
  <1>1. Init => PublishedTogether /\ BuiltFromOwn
    BY DEF Init, PublishedTogether, BuiltFromOwn, NoRow
  <1>2. QED
    BY <1>1, PublishedNext, TypeCorrect, PTL DEF Spec

-----------------------------------------------------------------------------
(* One worker per run.  SingleProcessor alone is not inductive: a step of  *)
(* recovery could requeue an owned run, unless what recovery has read is   *)
(* stale, what a worker owns is not, and no other recovery has requeued    *)
(* and given away the same rows in between; and a claim could take an      *)
(* owned run, unless what a claim has locked is pending.  What follows     *)
(* from it for the columns needs that process_run has loaded a running row.*)

LoadedAsRunning == \A w \in Workers : pc[w] = "loaded" => read[w][run[w]].status = "running"

ExclusiveInv == SingleProcessor /\ RecoveryAvoidsOwned /\ ClaimsDisjoint /\ LoadedAsRunning

LEMMA ExclusiveNext ==
  ASSUME ~Overrun, ~ConcurrentStartup, TypeOK, ExclusiveInv, [Next]_vars
  PROVE  SingleProcessor' /\ RecoveryAvoidsOwned'
  <1> DEFINE Inv == SingleProcessor /\ RecoveryAvoidsOwned
  <1> SUFFICES Inv'
    OBVIOUS
  <1>0. StaleAfter \in Nat /\ (\A r \in Runs : row[r] \in Row /\ row[r].started \in Nat)
    BY ConstantsAssumption DEF TypeOK, Row
  <1> USE <1>0, RowTypes, RowWrites DEF TypeOK, ExclusiveInv, SingleProcessor, RecoveryAvoidsOwned,
        OwnedIsFresh, RecoveringStale, OneRecovery, Owns, Stale
  <1>1. ASSUME NEW r \in Runs, CreateRun(r) PROVE Inv'
    BY <1>1 DEF CreateRun
  <1>2. ASSUME NEW w \in Workers, Start(w) PROVE Inv'
    BY <1>2 DEF Start
  <1>3. ASSUME NEW w \in Workers, Requeue(w) PROVE Inv'
    BY <1>3 DEF Requeue
  <1>4. ASSUME NEW w \in Workers, NEW r \in Runs, ClaimSelect(w, r) PROVE Inv'
    BY <1>4 DEF ClaimSelect
  <1>5. ASSUME NEW w \in Workers, ClaimCommit(w) PROVE Inv'
    <2>1. run[w] \in Runs /\ row[run[w]] \in Row /\ row[run[w]].status = "pending"
      BY <1>5 DEF ClaimCommit, ClaimsDisjoint
    <2>2. row'[run[w]].status = "running" /\ row'[run[w]].started = clock
      BY <1>5, <2>1 DEF ClaimCommit
    <2>3. \A r \in Runs : r # run[w] => row'[r] = row[r]
      BY <1>5 DEF ClaimCommit
    <2>4. \A v \in Workers : Owns(v)' => v = w \/ (Owns(v) /\ run[v] # run[w])
      BY <1>5, <2>1 DEF ClaimCommit
    <2>5. SingleProcessor'
      BY <1>5, <2>1, <2>4 DEF ClaimCommit
    <2>6. OwnedIsFresh'
      BY <1>5, <2>1, <2>2, <2>3, <2>4 DEF ClaimCommit
    <2>7. RecoveringStale' /\ OneRecovery'
      BY <1>5, <2>1, <2>2, <2>3 DEF ClaimCommit
    <2>8. QED
      BY <2>5, <2>6, <2>7
  <1>6. ASSUME NEW w \in Workers, Load(w) PROVE Inv'
    BY <1>6 DEF Load
  <1>7. ASSUME NEW w \in Workers, BeginPipeline(w) PROVE Inv'
    BY <1>7 DEF BeginPipeline
  <1>8. ASSUME NEW w \in Workers, UnexpectedError(w) PROVE Inv'
    BY <1>8 DEF UnexpectedError
  <1>9. ASSUME NEW w \in Workers, MatchNothing(w) PROVE Inv'
    BY <1>9 DEF MatchNothing
  <1>10. ASSUME NEW w \in Workers, NEW S \in SUBSET Docs, InsertMatches(w, S) PROVE Inv'
    BY <1>10 DEF InsertMatches
  <1>11. ASSUME NEW w \in Workers, Build(w) PROVE Inv'
    BY <1>11 DEF Build
  <1>12. ASSUME NEW w \in Workers, Complete(w) PROVE Inv'
    BY <1>12 DEF Complete
  <1>13. ASSUME NEW w \in Workers, RollBack(w) PROVE Inv'
    BY <1>13 DEF RollBack
  <1>14. ASSUME NEW w \in Workers, FailRun(w) PROVE Inv'
    BY <1>14 DEF FailRun
  <1>15. ASSUME NEW w \in Workers, Crash(w) PROVE Inv'
    BY <1>15 DEF Crash
  <1>16. CASE Tick
    BY <1>16 DEF Tick
  <1>17. CASE UNCHANGED vars
    BY <1>17 DEF vars
  <1>18. QED
    BY <1>1, <1>2, <1>3, <1>4, <1>5, <1>6, <1>7, <1>8, <1>9, <1>10, <1>11,
       <1>12, <1>13, <1>14, <1>15, <1>16, <1>17 DEF Next, WorkerStep

LEMMA LoadedNext ==
  ASSUME TypeOK, ExclusiveInv, [Next]_vars
  PROVE  LoadedAsRunning'
  <1> USE DEF TypeOK, LoadedAsRunning, ExclusiveInv
  <1>1. ASSUME NEW r \in Runs, CreateRun(r) PROVE LoadedAsRunning'
    BY <1>1 DEF CreateRun
  <1>2. ASSUME NEW w \in Workers, Start(w) PROVE LoadedAsRunning'
    BY <1>2 DEF Start
  <1>3. ASSUME NEW w \in Workers, Requeue(w) PROVE LoadedAsRunning'
    BY <1>3 DEF Requeue
  <1>4. ASSUME NEW w \in Workers, NEW r \in Runs, ClaimSelect(w, r) PROVE LoadedAsRunning'
    BY <1>4 DEF ClaimSelect
  <1>5. ASSUME NEW w \in Workers, ClaimCommit(w) PROVE LoadedAsRunning'
    BY <1>5 DEF ClaimCommit
  <1>6. ASSUME NEW w \in Workers, Load(w) PROVE LoadedAsRunning'
    BY <1>6 DEF Load, Loaded, RecoveryAvoidsOwned, OwnedIsFresh, Owns
  <1>7. ASSUME NEW w \in Workers, BeginPipeline(w) PROVE LoadedAsRunning'
    BY <1>7 DEF BeginPipeline
  <1>8. ASSUME NEW w \in Workers, UnexpectedError(w) PROVE LoadedAsRunning'
    BY <1>8 DEF UnexpectedError
  <1>9. ASSUME NEW w \in Workers, MatchNothing(w) PROVE LoadedAsRunning'
    BY <1>9 DEF MatchNothing
  <1>10. ASSUME NEW w \in Workers, NEW S \in SUBSET Docs, InsertMatches(w, S) PROVE LoadedAsRunning'
    BY <1>10 DEF InsertMatches
  <1>11. ASSUME NEW w \in Workers, Build(w) PROVE LoadedAsRunning'
    BY <1>11 DEF Build
  <1>12. ASSUME NEW w \in Workers, Complete(w) PROVE LoadedAsRunning'
    BY <1>12 DEF Complete
  <1>13. ASSUME NEW w \in Workers, RollBack(w) PROVE LoadedAsRunning'
    BY <1>13 DEF RollBack
  <1>14. ASSUME NEW w \in Workers, FailRun(w) PROVE LoadedAsRunning'
    BY <1>14 DEF FailRun
  <1>15. ASSUME NEW w \in Workers, Crash(w) PROVE LoadedAsRunning'
    BY <1>15 DEF Crash
  <1>16. CASE Tick
    BY <1>16 DEF Tick
  <1>17. CASE UNCHANGED vars
    BY <1>17 DEF vars
  <1>18. QED
    BY <1>1, <1>2, <1>3, <1>4, <1>5, <1>6, <1>7, <1>8, <1>9, <1>10, <1>11,
       <1>12, <1>13, <1>14, <1>15, <1>16, <1>17 DEF Next, WorkerStep

LEMMA ExclusiveInvariant ==
  ASSUME ~Overrun, ~ConcurrentStartup
  PROVE  Spec => []ExclusiveInv
  <1>1. Init => ExclusiveInv
    BY DEF Init, ExclusiveInv, SingleProcessor, RecoveryAvoidsOwned, OwnedIsFresh,
           RecoveringStale, OneRecovery, Owns, ClaimsDisjoint, LoadedAsRunning
  <1>2. TypeOK /\ ExclusiveInv /\ [Next]_vars => ExclusiveInv'
    BY ExclusiveNext, LoadedNext, ClaimsNext DEF ExclusiveInv
  <1>3. QED
    BY <1>1, <1>2, TypeCorrect, PTL DEF Spec

(* No two workers work on the same run, when workers start one at a time   *)
(* and every run is over before it is stale.                               *)
THEOREM OneWorkerPerRun ==
  ASSUME ~Overrun, ~ConcurrentStartup
  PROVE  Spec => []SingleProcessor
  <1>1. ExclusiveInv => SingleProcessor
    BY DEF ExclusiveInv
  <1>2. QED
    BY <1>1, ExclusiveInvariant, PTL

(* Under the same assumptions an owned run is never stale and recovery     *)
(* requeues only runs nobody owns.                                         *)
THEOREM RecoverySparesOwners ==
  ASSUME ~Overrun, ~ConcurrentStartup
  PROVE  Spec => []RecoveryAvoidsOwned
  <1>1. ExclusiveInv => RecoveryAvoidsOwned
    BY DEF ExclusiveInv
  <1>2. QED
    BY <1>1, ExclusiveInvariant, PTL

-----------------------------------------------------------------------------
(* What follows for the rows while no worker is overtaken. *)

LEMMA RowConsistentNext ==
  ASSUME TypeOK, ExclusiveInv, RowConsistent, [Next]_vars
  PROVE  RowConsistent'
  <1> USE RowTypes, RowWrites, RowColumns DEF TypeOK, RowConsistent, ExclusiveInv,
        RecoveryAvoidsOwned, OwnedIsFresh, RecoveringStale, published, open, EndTransaction
  <1>1. ASSUME NEW r \in Runs, CreateRun(r) PROVE RowConsistent'
    BY <1>1 DEF CreateRun
  <1>2. ASSUME NEW w \in Workers, Start(w) PROVE RowConsistent'
    BY <1>2 DEF Start
  <1>3. ASSUME NEW w \in Workers, Requeue(w) PROVE RowConsistent'
    BY <1>3 DEF Requeue, Stale
  <1>4. ASSUME NEW w \in Workers, NEW r \in Runs, ClaimSelect(w, r) PROVE RowConsistent'
    BY <1>4 DEF ClaimSelect
  <1>5. ASSUME NEW w \in Workers, ClaimCommit(w) PROVE RowConsistent'
    BY <1>5 DEF ClaimCommit, Owns, ClaimsDisjoint
  <1>6. ASSUME NEW w \in Workers, Load(w) PROVE RowConsistent'
    BY <1>6 DEF Load
  <1>7. ASSUME NEW w \in Workers, BeginPipeline(w) PROVE RowConsistent'
    BY <1>7 DEF BeginPipeline, Owns, ClaimsDisjoint
  <1>8. ASSUME NEW w \in Workers, UnexpectedError(w) PROVE RowConsistent'
    <2>1. run[w] \in Runs /\ row[run[w]].status = "running"
      BY <1>8 DEF UnexpectedError, Owns
    <2>2. read[w][run[w]].status # "failed" /\ read[w][run[w]] \in Row
      BY <1>8, <2>1 DEF UnexpectedError, LoadedAsRunning
    <2>3. MarkUnexpected(row[run[w]], read[w][run[w]]).status = "failed"
      BY <2>1, <2>2
    <2>4. QED
      BY <1>8, <2>1, <2>2, <2>3 DEF UnexpectedError
  <1>9. ASSUME NEW w \in Workers, MatchNothing(w) PROVE RowConsistent'
    BY <1>9 DEF MatchNothing
  <1>10. ASSUME NEW w \in Workers, NEW S \in SUBSET Docs, InsertMatches(w, S) PROVE RowConsistent'
    BY <1>10 DEF InsertMatches
  <1>11. ASSUME NEW w \in Workers, Build(w) PROVE RowConsistent'
    BY <1>11 DEF Build
  <1>12. ASSUME NEW w \in Workers, Complete(w) PROVE RowConsistent'
    BY <1>12 DEF Complete, Owns, ClaimsDisjoint
  <1>13. ASSUME NEW w \in Workers, RollBack(w) PROVE RowConsistent'
    BY <1>13 DEF RollBack
  <1>14. ASSUME NEW w \in Workers, FailRun(w) PROVE RowConsistent'
    BY <1>14 DEF FailRun, Owns, ClaimsDisjoint
  <1>15. ASSUME NEW w \in Workers, Crash(w) PROVE RowConsistent'
    BY <1>15 DEF Crash
  <1>16. CASE Tick
    BY <1>16 DEF Tick
  <1>17. CASE UNCHANGED vars
    BY <1>17 DEF vars
  <1>18. QED
    BY <1>1, <1>2, <1>3, <1>4, <1>5, <1>6, <1>7, <1>8, <1>9, <1>10, <1>11,
       <1>12, <1>13, <1>14, <1>15, <1>16, <1>17 DEF Next, WorkerStep

(* Under the same assumptions the columns of every row agree with its      *)
(* status.                                                                 *)
THEOREM RowsConsistent ==
  ASSUME ~Overrun, ~ConcurrentStartup
  PROVE  Spec => []RowConsistent
  <1>1. Init => RowConsistent
    BY DEF Init, RowConsistent, NoRow
  <1>2. QED
    BY <1>1, RowConsistentNext, ExclusiveInvariant, TypeCorrect, PTL DEF Spec

LEMMA TerminalNext ==
  ASSUME TypeOK, ExclusiveInv, [Next]_vars,
         NEW s \in Runs, row[s].status \in {"completed", "failed"}
  PROVE  row'[s].status = row[s].status
  <1> USE RowTypes, RowWrites DEF TypeOK, ExclusiveInv, RecoveryAvoidsOwned, OwnedIsFresh,
        RecoveringStale
  <1>1. ASSUME NEW r \in Runs, CreateRun(r) PROVE row'[s].status = row[s].status
    BY <1>1 DEF CreateRun
  <1>2. ASSUME NEW w \in Workers, Start(w) PROVE row'[s].status = row[s].status
    BY <1>2 DEF Start
  <1>3. ASSUME NEW w \in Workers, Requeue(w) PROVE row'[s].status = row[s].status
    BY <1>3 DEF Requeue, Stale
  <1>4. ASSUME NEW w \in Workers, NEW r \in Runs, ClaimSelect(w, r)
        PROVE  row'[s].status = row[s].status
    BY <1>4 DEF ClaimSelect
  <1>5. ASSUME NEW w \in Workers, ClaimCommit(w) PROVE row'[s].status = row[s].status
    BY <1>5 DEF ClaimCommit, Owns, ClaimsDisjoint
  <1>6. ASSUME NEW w \in Workers, Load(w) PROVE row'[s].status = row[s].status
    BY <1>6 DEF Load
  <1>7. ASSUME NEW w \in Workers, BeginPipeline(w) PROVE row'[s].status = row[s].status
    BY <1>7 DEF BeginPipeline, Owns, ClaimsDisjoint
  <1>8. ASSUME NEW w \in Workers, UnexpectedError(w) PROVE row'[s].status = row[s].status
    BY <1>8 DEF UnexpectedError, Owns, ClaimsDisjoint, LoadedAsRunning
  <1>9. ASSUME NEW w \in Workers, MatchNothing(w) PROVE row'[s].status = row[s].status
    BY <1>9 DEF MatchNothing
  <1>10. ASSUME NEW w \in Workers, NEW S \in SUBSET Docs, InsertMatches(w, S)
        PROVE  row'[s].status = row[s].status
    BY <1>10 DEF InsertMatches
  <1>11. ASSUME NEW w \in Workers, Build(w) PROVE row'[s].status = row[s].status
    BY <1>11 DEF Build
  <1>12. ASSUME NEW w \in Workers, Complete(w) PROVE row'[s].status = row[s].status
    BY <1>12 DEF Complete, Owns, ClaimsDisjoint
  <1>13. ASSUME NEW w \in Workers, RollBack(w) PROVE row'[s].status = row[s].status
    BY <1>13 DEF RollBack
  <1>14. ASSUME NEW w \in Workers, FailRun(w) PROVE row'[s].status = row[s].status
    BY <1>14 DEF FailRun, Owns, ClaimsDisjoint
  <1>15. ASSUME NEW w \in Workers, Crash(w) PROVE row'[s].status = row[s].status
    BY <1>15 DEF Crash
  <1>16. CASE Tick
    BY <1>16 DEF Tick
  <1>17. CASE UNCHANGED vars
    BY <1>17 DEF vars
  <1>18. QED
    BY <1>1, <1>2, <1>3, <1>4, <1>5, <1>6, <1>7, <1>8, <1>9, <1>10, <1>11,
       <1>12, <1>13, <1>14, <1>15, <1>16, <1>17 DEF Next, WorkerStep

(* Under the same assumptions a completed or failed run never changes its  *)
(* status again.                                                           *)
THEOREM TerminalStays ==
  ASSUME ~Overrun, ~ConcurrentStartup
  PROVE  Spec => TerminalIsFinal
  <1>1. TypeOK /\ ExclusiveInv /\ [Next]_vars =>
          [\A r \in Runs : row[r].status \in {"completed", "failed"} =>
                             row'[r].status = row[r].status]_vars
    BY TerminalNext
  <1>2. QED
    BY <1>1, ExclusiveInvariant, TypeCorrect, PTL DEF Spec, TerminalIsFinal

(* What a build has read is all that its run will have when it commits.    *)
BuiltFromAll ==
    \A w \in Workers : pc[w] = "aggregating" => built[w] = matched[run[w]] \cup found[w]

LEMMA ChartsNext ==
  ASSUME TypeOK, ExclusiveInv, ChartsAreComplete, BuiltFromAll, [Next]_vars
  PROVE  ChartsAreComplete' /\ BuiltFromAll'
  <1> DEFINE Inv == ChartsAreComplete /\ BuiltFromAll
  <1> SUFFICES Inv'
    OBVIOUS
  <1> USE RowTypes, RowWrites DEF TypeOK, ExclusiveInv, SingleProcessor, ChartsAreComplete,
        BuiltFromAll, Owns, published, open, EndTransaction
  <1>1. ASSUME NEW r \in Runs, CreateRun(r) PROVE Inv'
    BY <1>1 DEF CreateRun
  <1>2. ASSUME NEW w \in Workers, Start(w) PROVE Inv'
    BY <1>2 DEF Start
  <1>3. ASSUME NEW w \in Workers, Requeue(w) PROVE Inv'
    BY <1>3 DEF Requeue
  <1>4. ASSUME NEW w \in Workers, NEW r \in Runs, ClaimSelect(w, r) PROVE Inv'
    BY <1>4 DEF ClaimSelect
  <1>5. ASSUME NEW w \in Workers, ClaimCommit(w) PROVE Inv'
    BY <1>5 DEF ClaimCommit
  <1>6. ASSUME NEW w \in Workers, Load(w) PROVE Inv'
    BY <1>6 DEF Load
  <1>7. ASSUME NEW w \in Workers, BeginPipeline(w) PROVE Inv'
    BY <1>7 DEF BeginPipeline
  <1>8. ASSUME NEW w \in Workers, UnexpectedError(w) PROVE Inv'
    BY <1>8 DEF UnexpectedError
  <1>9. ASSUME NEW w \in Workers, MatchNothing(w) PROVE Inv'
    BY <1>9 DEF MatchNothing
  <1>10. ASSUME NEW w \in Workers, NEW S \in SUBSET Docs, InsertMatches(w, S) PROVE Inv'
    BY <1>10 DEF InsertMatches
  <1>11. ASSUME NEW w \in Workers, Build(w) PROVE Inv'
    BY <1>11 DEF Build
  <1>12. ASSUME NEW w \in Workers, Complete(w) PROVE Inv'
    BY <1>12 DEF Complete
  <1>13. ASSUME NEW w \in Workers, RollBack(w) PROVE Inv'
    BY <1>13 DEF RollBack
  <1>14. ASSUME NEW w \in Workers, FailRun(w) PROVE Inv'
    BY <1>14 DEF FailRun
  <1>15. ASSUME NEW w \in Workers, Crash(w) PROVE Inv'
    BY <1>15 DEF Crash
  <1>16. CASE Tick
    BY <1>16 DEF Tick
  <1>17. CASE UNCHANGED vars
    BY <1>17 DEF vars
  <1>18. QED
    BY <1>1, <1>2, <1>3, <1>4, <1>5, <1>6, <1>7, <1>8, <1>9, <1>10, <1>11,
       <1>12, <1>13, <1>14, <1>15, <1>16, <1>17 DEF Next, WorkerStep

(* Under the same assumptions the charts of a completed run cover all the  *)
(* documents listed as its matches.                                        *)
THEOREM ChartsCoverMatches ==
  ASSUME ~Overrun, ~ConcurrentStartup
  PROVE  Spec => []ChartsAreComplete
  <1>1. Init => ChartsAreComplete /\ BuiltFromAll
    BY DEF Init, ChartsAreComplete, BuiltFromAll, NoRow
  <1>2. QED
    BY <1>1, ChartsNext, ExclusiveInvariant, TypeCorrect, PTL DEF Spec

-----------------------------------------------------------------------------
(* Refinement, whatever the workers do: the runs they work on, and those a *)
(* recovery has read, are rows; while no worker is overtaken, running ones.*)

Present ==
    \A w \in Workers :
        /\ run[w] \in Runs => row[run[w]].status # "absent"
        /\ \A r \in batch[w] : row[r].status # "absent"

LEMMA PresentNext ==
  ASSUME TypeOK, Present, [Next]_vars
  PROVE  Present'
  <1> USE ConstantsAssumption, RowTypes, RowWrites DEF TypeOK, Present
  <1>1. ASSUME NEW r \in Runs, CreateRun(r) PROVE Present'
    BY <1>1 DEF CreateRun
  <1>2. ASSUME NEW w \in Workers, Start(w) PROVE Present'
    BY <1>2 DEF Start, Stale
  <1>3. ASSUME NEW w \in Workers, Requeue(w) PROVE Present'
    BY <1>3 DEF Requeue
  <1>4. ASSUME NEW w \in Workers, NEW r \in Runs, ClaimSelect(w, r) PROVE Present'
    BY <1>4 DEF ClaimSelect, Claimable
  <1>5. ASSUME NEW w \in Workers, ClaimCommit(w) PROVE Present'
    BY <1>5 DEF ClaimCommit
  <1>6. ASSUME NEW w \in Workers, Load(w) PROVE Present'
    BY <1>6 DEF Load
  <1>7. ASSUME NEW w \in Workers, BeginPipeline(w) PROVE Present'
    BY <1>7 DEF BeginPipeline
  <1>8. ASSUME NEW w \in Workers, UnexpectedError(w) PROVE Present'
    BY <1>8 DEF UnexpectedError
  <1>9. ASSUME NEW w \in Workers, MatchNothing(w) PROVE Present'
    BY <1>9 DEF MatchNothing
  <1>10. ASSUME NEW w \in Workers, NEW S \in SUBSET Docs, InsertMatches(w, S) PROVE Present'
    BY <1>10 DEF InsertMatches
  <1>11. ASSUME NEW w \in Workers, Build(w) PROVE Present'
    BY <1>11 DEF Build
  <1>12. ASSUME NEW w \in Workers, Complete(w) PROVE Present'
    BY <1>12 DEF Complete
  <1>13. ASSUME NEW w \in Workers, RollBack(w) PROVE Present'
    BY <1>13 DEF RollBack
  <1>14. ASSUME NEW w \in Workers, FailRun(w) PROVE Present'
    BY <1>14 DEF FailRun
  <1>15. ASSUME NEW w \in Workers, Crash(w) PROVE Present'
    BY <1>15 DEF Crash
  <1>16. CASE Tick
    BY <1>16 DEF Tick
  <1>17. CASE UNCHANGED vars
    BY <1>17 DEF vars
  <1>18. QED
    BY <1>1, <1>2, <1>3, <1>4, <1>5, <1>6, <1>7, <1>8, <1>9, <1>10, <1>11,
       <1>12, <1>13, <1>14, <1>15, <1>16, <1>17 DEF Next, WorkerStep

NoneOvertaken == ~Overrun /\ ~ConcurrentStartup

ContractInv == Present /\ ClaimsDisjoint /\ (NoneOvertaken => ExclusiveInv)

LEMMA ContractInvariant == Spec => []ContractInv
  <1>1. Init => Present
    BY ConstantsAssumption DEF Init, Present
  <1>2. Spec => []Present
    BY <1>1, PresentNext, TypeCorrect, PTL DEF Spec
  <1>3. CASE NoneOvertaken
    <2>1. Spec => []ExclusiveInv
      BY <1>3, ExclusiveInvariant DEF NoneOvertaken
    <2>2. Present /\ ClaimsDisjoint /\ ExclusiveInv => ContractInv
      BY DEF ContractInv
    <2>3. QED
      BY <2>1, <2>2, <1>2, ClaimsExclude, PTL
  <1>4. CASE ~NoneOvertaken
    <2>1. Present /\ ClaimsDisjoint => ContractInv
      BY <1>4 DEF ContractInv
    <2>2. QED
      BY <2>1, <1>2, ClaimsExclude, PTL
  <1>5. QED
    BY <1>3, <1>4

(* A worker writes, and a recovery requeues, only rows the contract lets   *)
(* them write.                                                             *)
LEMMA WritableRuns ==
  ASSUME TypeOK, ContractInv, NEW w \in Workers
  PROVE  /\ Owns(w) => run[w] \in Runs /\ Contract!Writable(run[w])
         /\ pc[w] = "recovering" => \A r \in batch[w] : Contract!Writable(r)
  <1>1. Owns(w) => run[w] \in Runs
    BY DEF TypeOK
  <1>2. CASE NoneOvertaken
    BY <1>1, <1>2 DEF TypeOK, ContractInv, ExclusiveInv, RecoveryAvoidsOwned, OwnedIsFresh,
       RecoveringStale, Stale, Contract!Writable
  <1>3. CASE ~NoneOvertaken
    BY <1>1, <1>3 DEF TypeOK, ContractInv, Present, NoneOvertaken, Contract!Writable
  <1>4. QED
    BY <1>2, <1>3

(* A step of the contract on one run, or on the runs of a recovery.        *)
LEMMA ContractSteps ==
  /\ \A r \in Runs :
       Contract!Submit(r) \/ Contract!Take(r) \/ Contract!Publish(r) \/ Contract!GiveUp(r)
         => Contract!Next
  /\ \A S \in SUBSET Runs : Contract!GiveBack(S) => Contract!Next
  BY Zenon DEF Contract!Next

LEMMA ContractNext ==
  ASSUME TypeOK, ContractInv, [Next]_vars
  PROVE  [Contract!Next]_(Contract!contractVars)
  <1> USE RowTypes, RowWrites DEF TypeOK, published
  <1>1. ASSUME NEW r \in Runs, CreateRun(r) PROVE [Contract!Next]_(Contract!contractVars)
    <2>1. Contract!Submit(r)
      BY <1>1 DEF CreateRun, Contract!Submit
    <2>2. QED
      BY <2>1, ContractSteps
  <1>2. ASSUME NEW w \in Workers, Start(w) PROVE [Contract!Next]_(Contract!contractVars)
    BY <1>2 DEF Start, Contract!contractVars
  <1>3. ASSUME NEW w \in Workers, Requeue(w) PROVE [Contract!Next]_(Contract!contractVars)
    <2>1. CASE batch[w] = {}
      BY <1>3, <2>1 DEF Requeue, Contract!contractVars
    <2>2. CASE batch[w] # {}
      <3>1. \A r \in batch[w] : Contract!Writable(r)
        BY <1>3, WritableRuns DEF Requeue
      <3>2. PICK S \in SUBSET Runs : S = batch[w]
        OBVIOUS
      <3>3. Contract!GiveBack(S)
        BY <1>3, <2>2, <3>1, <3>2 DEF Requeue, Contract!GiveBack
      <3>4. QED
        BY <3>3, ContractSteps
    <2>3. QED
      BY <2>1, <2>2
  <1>4. ASSUME NEW w \in Workers, NEW r \in Runs, ClaimSelect(w, r)
        PROVE  [Contract!Next]_(Contract!contractVars)
    BY <1>4 DEF ClaimSelect, Contract!contractVars
  <1>5. ASSUME NEW w \in Workers, ClaimCommit(w) PROVE [Contract!Next]_(Contract!contractVars)
    <2>1. PICK r \in Runs : r = run[w] /\ row[r].status = "pending"
      BY <1>5 DEF ClaimCommit, ContractInv, ClaimsDisjoint
    <2>2. Contract!Take(r)
      BY <1>5, <2>1 DEF ClaimCommit, Contract!Take
    <2>3. QED
      BY <2>1, <2>2, ContractSteps
  <1>6. ASSUME NEW w \in Workers, Load(w) PROVE [Contract!Next]_(Contract!contractVars)
    BY <1>6 DEF Load, Contract!contractVars
  <1>7. ASSUME NEW w \in Workers, BeginPipeline(w) PROVE [Contract!Next]_(Contract!contractVars)
    <2>1. PICK r \in Runs : r = run[w] /\ Contract!Writable(r)
      BY <1>7, WritableRuns DEF BeginPipeline, Owns
    <2>2. MarkRunning(row[run[w]], read[w][run[w]]).status \in {row[run[w]].status, "running"}
      BY <2>1
    <2>3. CASE row'[run[w]].status = row[run[w]].status
      BY <1>7, <2>1, <2>3 DEF BeginPipeline, Contract!contractVars
    <2>4. CASE row'[run[w]].status = "running" /\ row[run[w]].status # "running"
      <3>1. Contract!Take(r)
        BY <1>7, <2>1, <2>4 DEF BeginPipeline, Contract!Take, Contract!Writable
      <3>2. QED
        BY <2>1, <3>1, ContractSteps
    <2>5. QED
      BY <1>7, <2>1, <2>2, <2>3, <2>4 DEF BeginPipeline
  <1>8. ASSUME NEW w \in Workers, UnexpectedError(w) PROVE [Contract!Next]_(Contract!contractVars)
    <2>1. PICK r \in Runs : r = run[w] /\ Contract!Writable(r)
      BY <1>8, WritableRuns DEF UnexpectedError, Owns
    <2>2. MarkUnexpected(row[run[w]], read[w][run[w]]).status \in {row[run[w]].status, "failed"}
      BY <2>1
    <2>3. CASE row'[run[w]].status = row[run[w]].status
      BY <1>8, <2>1, <2>3 DEF UnexpectedError, Contract!contractVars
    <2>4. CASE row'[run[w]].status = "failed" /\ row[run[w]].status # "failed"
      <3>1. Contract!GiveUp(r)
        BY <1>8, <2>1, <2>4 DEF UnexpectedError, Contract!GiveUp, Contract!Writable
      <3>2. QED
        BY <2>1, <3>1, ContractSteps
    <2>5. QED
      BY <1>8, <2>1, <2>2, <2>3, <2>4 DEF UnexpectedError
  <1>9. ASSUME NEW w \in Workers, MatchNothing(w) PROVE [Contract!Next]_(Contract!contractVars)
    BY <1>9 DEF MatchNothing, Contract!contractVars
  <1>10. ASSUME NEW w \in Workers, NEW S \in SUBSET Docs, InsertMatches(w, S)
        PROVE  [Contract!Next]_(Contract!contractVars)
    BY <1>10 DEF InsertMatches, Contract!contractVars
  <1>11. ASSUME NEW w \in Workers, Build(w) PROVE [Contract!Next]_(Contract!contractVars)
    BY <1>11 DEF Build, Contract!contractVars
  <1>12. ASSUME NEW w \in Workers, Complete(w) PROVE [Contract!Next]_(Contract!contractVars)
    <2>1. PICK r \in Runs : r = run[w] /\ Contract!Writable(r)
      BY <1>12, WritableRuns DEF Complete, Owns
    <2>2. Contract!Publish(r)
      BY <1>12, <2>1 DEF Complete, Contract!Publish
    <2>3. QED
      BY <2>1, <2>2, ContractSteps
  <1>13. ASSUME NEW w \in Workers, RollBack(w) PROVE [Contract!Next]_(Contract!contractVars)
    BY <1>13 DEF RollBack, Contract!contractVars
  <1>14. ASSUME NEW w \in Workers, FailRun(w) PROVE [Contract!Next]_(Contract!contractVars)
    <2>1. PICK r \in Runs : r = run[w] /\ Contract!Writable(r)
      BY <1>14, WritableRuns DEF FailRun, Owns
    <2>2. Contract!GiveUp(r)
      BY <1>14, <2>1 DEF FailRun, Contract!GiveUp
    <2>3. QED
      BY <2>1, <2>2, ContractSteps
  <1>15. ASSUME NEW w \in Workers, Crash(w) PROVE [Contract!Next]_(Contract!contractVars)
    BY <1>15 DEF Crash, Contract!contractVars
  <1>16. CASE Tick
    BY <1>16 DEF Tick, Contract!contractVars
  <1>17. CASE UNCHANGED vars
    BY <1>17 DEF vars, Contract!contractVars
  <1>18. QED
    BY <1>1, <1>2, <1>3, <1>4, <1>5, <1>6, <1>7, <1>8, <1>9, <1>10, <1>11,
       <1>12, <1>13, <1>14, <1>15, <1>16, <1>17 DEF Next, WorkerStep

(* Whatever the workers do, they are for a reader of the rows the contract *)
(* of RunContract, with no run overtaken when workers start one at a time  *)
(* and every run is over before it is stale, and with any run overtaken    *)
(* otherwise.                                                              *)
THEOREM RefinesContract == Spec => ImplementsContract
  <1>1. Init => Contract!Init
    BY DEF Init, NoRow, Contract!Init
  <1>2. TypeOK /\ ContractInv /\ [Next]_vars => [Contract!Next]_(Contract!contractVars)
    BY ContractNext
  <1>3. QED
    BY <1>1, <1>2, ContractInvariant, TypeCorrect, PTL
       DEF Spec, ImplementsContract, Contract!Spec

=============================================================================
