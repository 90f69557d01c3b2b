---------------------------- MODULE RunLifecycle ----------------------------
(***************************************************************************)
(* The life of the rows of query_runs: the API inserts them, the workers   *)
(* claim, process, complete or fail them, and a worker that starts         *)
(* requeues the ones it takes for abandoned.  Each worker is the process   *)
(* of worker.py: it recovers once, then claims and processes runs one at a *)
(* time.  The database is PostgreSQL at READ COMMITTED; of its row locks   *)
(* the model keeps the two that decide what another worker may do:         *)
(*   - FOR UPDATE, taken by a claim on every pending row it reads;         *)
(*   - FOR KEY SHARE, taken on the run's row by the first match, sentiment *)
(*     or aggregate inserted for it and kept until that transaction ends.  *)
(* Of a pipeline's rows it keeps which documents the run's matches name,   *)
(* and which of the matches its charts were computed from.                 *)
(***************************************************************************)
EXTENDS Naturals, FiniteSets

CONSTANTS
    Runs,              \* the runs the API may create
    Workers,           \* the worker processes
    Docs,              \* the documents the pipelines may match
    StaleAfter,        \* query_run_stale_after_minutes, in ticks
    Ttl,               \* query_cache_ttl_hours, in ticks
    MaxClock,          \* bound on the clock
    MaxCrashes,        \* bound on the crashes
    Overrun,           \* may a live worker keep a run longer than StaleAfter?
    ConcurrentStartup  \* may two workers be in their startup recovery at once?

ASSUME ConstantsAssumption ==
    /\ StaleAfter \in Nat /\ Ttl \in Nat
    /\ MaxClock \in Nat /\ MaxCrashes \in Nat
    /\ Overrun \in BOOLEAN /\ ConcurrentStartup \in BOOLEAN
    /\ "none" \notin Runs

VARIABLES
    row,       \* the committed query_runs rows
    results,   \* are aggregates of the run committed?
    matched,   \* the documents of the run's committed matches
    charted,   \* those of the matches its committed aggregates were built from
    clock,     \* now()
    pc,        \* where each worker is
    run,       \* the run each worker is working on
    batch,     \* the rows a worker has read to requeue, or has locked to claim
    read,      \* the rows as a worker's session has loaded them
    inserted,  \* has the worker's open transaction inserted rows of its run?
    found,     \* the documents of its uncommitted matches
    built,     \* those of the matches the build in that transaction has read
    crashes    \* crashes so far

published == <<results, matched, charted>>
open == <<inserted, found, built>>
vars == <<row, published, clock, pc, run, batch, read, open, crashes>>

Status == {"absent", "pending", "running", "completed", "failed"}

(* error and finished say whether error_message and finished_at are set;   *)
(* fresh is data_fresh_until, 0 when it is NULL.                           *)
Row == [status : Status, started : Nat, finished : BOOLEAN,
        error : BOOLEAN, fresh : Nat]

(* A row that is not there, or not loaded.                                 *)
NoRow == [status |-> "absent", started |-> 0, finished |-> FALSE,
          error |-> FALSE, fresh |-> 0]

Stage == {"down", "recovering", "idle", "claiming", "claimed", "loaded",
          "collecting", "classifying", "aggregating", "failing"}

(* The worker has committed its claim and has not finished with the run.   *)
Owns(w) ==
    pc[w] \in {"claimed", "loaded", "collecting", "classifying", "aggregating", "failing"}

(* Mutant of Stale: recovery requeues every running row.                   *)
AnyRunningIsStale(r) == row[r].status = "running"

Stale(r) == row[r].status = "running" /\ row[r].started + StaleAfter < clock

(* FOR UPDATE: rows a claim transaction other than w's has locked.         *)
ClaimLocked(w) == UNION {batch[v] : v \in {u \in Workers \ {w} : pc[u] = "claiming"}}

(* FOR KEY SHARE: runs with uncommitted child rows of another worker.      *)
KeyShared(w) == {run[v] : v \in {u \in Workers \ {w} : inserted[u]}}

Loaded(S) == [r \in Runs |-> IF r \in S THEN row[r] ELSE NoRow]

Init ==
    /\ row = [r \in Runs |-> NoRow]
    /\ results = [r \in Runs |-> FALSE]
    /\ matched = [r \in Runs |-> {}]
    /\ charted = [r \in Runs |-> {}]
    /\ clock = 1
    /\ pc = [w \in Workers |-> "down"]
    /\ run = [w \in Workers |-> "none"]
    /\ batch = [w \in Workers |-> {}]
    /\ read = [w \in Workers |-> Loaded({})]
    /\ inserted = [w \in Workers |-> FALSE]
    /\ found = [w \in Workers |-> {}]
    /\ built = [w \in Workers |-> {}]
    /\ crashes = 0

(* The end of a transaction: nothing of it is uncommitted any more.        *)
EndTransaction(w) ==
    /\ inserted' = [inserted EXCEPT ![w] = FALSE]
    /\ found' = [found EXCEPT ![w] = {}]
    /\ built' = [built EXCEPT ![w] = {}]

-----------------------------------------------------------------------------
(* The values the handlers write into a row q.  SQLAlchemy writes the      *)
(* columns that differ from the row the session has loaded, here was: what *)
(* another transaction has changed meanwhile stays when the handler sets   *)
(* what it believes to be there already.                                   *)

NewRun(q) == [q EXCEPT !.status = "pending", !.started = clock]

(* Mutant: mark_running keeps the started_at of an earlier attempt.        *)
MarkRunningKeepsStart(q, was) ==
    [q EXCEPT !.status = IF was.status = "running" THEN @ ELSE "running",
              !.error = @ /\ ~was.error, !.finished = @ /\ ~was.finished]

MarkRunning(q, was) ==
    [q EXCEPT !.status = IF was.status = "running" THEN @ ELSE "running",
              !.started = clock,
              !.error = @ /\ ~was.error, !.finished = @ /\ ~was.finished]

(* The pipeline has the run as running, so every column is written.        *)
MarkCompleted(q) ==
    [q EXCEPT !.status = "completed", !.finished = TRUE, !.fresh = clock + Ttl]

(* Mutant: mark_failed forgets the error message.                          *)
MarkFailedSilently(q) == [q EXCEPT !.status = "failed", !.finished = TRUE]

MarkFailed(q) ==
    [q EXCEPT !.status = "failed", !.finished = TRUE, !.error = TRUE]

(* process_run records an exception that the pipeline did not handle.      *)
MarkUnexpected(q, was) ==
    [q EXCEPT !.status = IF was.status = "failed" THEN @ ELSE "failed", !.error = TRUE]

(* Requeued rows were loaded as running.                                   *)
Requeued(q, was) ==
    [q EXCEPT !.status = "pending",
              !.error = @ /\ ~was.error, !.finished = @ /\ ~was.finished]

-----------------------------------------------------------------------------
(* API. *)

(* create_query without a fresh run, or refresh: a new pending row.        *)
CreateRun(r) ==
    /\ row[r].status = "absent"
    /\ row' = [row EXCEPT ![r] = NewRun(@)]
    /\ UNCHANGED <<published, clock, pc, run, batch, read, open, crashes>>

-----------------------------------------------------------------------------
(* Worker: startup. *)

(* The worker starts and loads the running rows that are stale now.        *)
Start(w) ==
    /\ pc[w] = "down"
    /\ ConcurrentStartup \/ \A v \in Workers : pc[v] # "recovering"
    /\ pc' = [pc EXCEPT ![w] = "recovering"]
    /\ batch' = [batch EXCEPT ![w] = {r \in Runs : Stale(r)}]
    /\ read' = [read EXCEPT ![w] = Loaded({r \in Runs : Stale(r)})]
    /\ UNCHANGED <<row, published, clock, run, open, crashes>>

(* Mutant: the requeued rows are not committed.                            *)
RequeueUncommitted(w) ==
    /\ pc[w] = "recovering"
    /\ pc' = [pc EXCEPT ![w] = "idle"]
    /\ batch' = [batch EXCEPT ![w] = {}]
    /\ read' = [read EXCEPT ![w] = Loaded({})]
    /\ UNCHANGED <<row, published, clock, run, open, crashes>>

(* It sends back the rows it has loaded.  The UPDATE names the row by its  *)
(* id; it does not look at the row again.                                  *)
Requeue(w) ==
    /\ pc[w] = "recovering"
    /\ batch[w] \cap ClaimLocked(w) = {}
    /\ row' = [r \in Runs |->
                 IF r \in batch[w] THEN Requeued(row[r], read[w][r]) ELSE row[r]]
    /\ pc' = [pc EXCEPT ![w] = "idle"]
    /\ batch' = [batch EXCEPT ![w] = {}]
    /\ read' = [read EXCEPT ![w] = Loaded({})]
    /\ UNCHANGED <<published, clock, run, open, crashes>>

-----------------------------------------------------------------------------
(* Worker: claiming. *)

(* Mutants: a claim that does not lock the rows it reads; and one that     *)
(* locks them FOR NO KEY UPDATE, which foreign keys do not conflict with.  *)
ClaimableUnlocked(w) == {r \in Runs : row[r].status = "pending"} \ KeyShared(w)
ClaimableNoKey(w) == {r \in Runs : row[r].status = "pending"} \ ClaimLocked(w)

(* SELECT ... FOR UPDATE SKIP LOCKED: the pending rows nobody has locked.  *)
Claimable(w) ==
    {r \in Runs : row[r].status = "pending"} \ (ClaimLocked(w) \cup KeyShared(w))

(* The statement has no LIMIT, so it locks every row it returns; the first *)
(* in the order of started_at is the one the worker will take.             *)
ClaimSelect(w, r) ==
    /\ pc[w] = "idle"
    /\ r \in Claimable(w)
    /\ \A q \in Claimable(w) : row[r].started <= row[q].started
    /\ pc' = [pc EXCEPT ![w] = "claiming"]
    /\ run' = [run EXCEPT ![w] = r]
    /\ batch' = [batch EXCEPT ![w] = Claimable(w)]
    /\ UNCHANGED <<row, published, clock, read, open, crashes>>

(* mark_running and commit: the row is taken and all the locks released.   *)
ClaimCommit(w) ==
    /\ pc[w] = "claiming"
    /\ row' = [row EXCEPT ![run[w]] = MarkRunning(@, @)]
    /\ pc' = [pc EXCEPT ![w] = "claimed"]
    /\ batch' = [batch EXCEPT ![w] = {}]
    /\ UNCHANGED <<published, clock, run, read, open, crashes>>

-----------------------------------------------------------------------------
(* Worker: processing. *)

(* process_run loads the run, whatever its status is by now.               *)
Load(w) ==
    /\ pc[w] = "claimed"
    /\ pc' = [pc EXCEPT ![w] = "loaded"]
    /\ read' = [read EXCEPT ![w] = Loaded({run[w]})]
    /\ UNCHANGED <<row, published, clock, run, batch, open, crashes>>

(* The pipeline marks the run running again and commits.                   *)
BeginPipeline(w) ==
    /\ pc[w] = "loaded"
    /\ run[w] \notin ClaimLocked(w)
    /\ row' = [row EXCEPT ![run[w]] = MarkRunning(@, read[w][run[w]])]
    /\ pc' = [pc EXCEPT ![w] = "collecting"]
    /\ read' = [read EXCEPT ![w] = Loaded({})]
    /\ UNCHANGED <<published, clock, run, batch, open, crashes>>

(* The services of the run cannot be created: process_run records it and   *)
(* raises, which ends the worker.  Its handler also catches what leaves    *)
(* the pipeline, but that is an error of the database after a rollback,    *)
(* when the attributes of the run are expired and reading run.id for the   *)
(* log raises again: the worker ends without recording, as in Crash.       *)
UnexpectedError(w) ==
    /\ pc[w] = "loaded"
    /\ run[w] \notin ClaimLocked(w)
    /\ row' = [row EXCEPT ![run[w]] = MarkUnexpected(@, read[w][run[w]])]
    /\ pc' = [pc EXCEPT ![w] = "down"]
    /\ run' = [run EXCEPT ![w] = "none"]
    /\ read' = [read EXCEPT ![w] = Loaded({})]
    /\ UNCHANGED <<published, clock, batch, open, crashes>>

(* Mutant: the run is marked completed before it is classified.            *)
MatchNothingMarksEarly(w) ==
    /\ pc[w] = "collecting"
    /\ row' = [row EXCEPT ![run[w]] = MarkCompleted(@)]
    /\ pc' = [pc EXCEPT ![w] = "classifying"]
    /\ UNCHANGED <<published, clock, run, batch, read, open, crashes>>

(* Nothing matches, or nothing that is not a match of the run already.     *)
MatchNothing(w) ==
    /\ pc[w] = "collecting"
    /\ pc' = [pc EXCEPT ![w] = "classifying"]
    /\ UNCHANGED <<row, published, clock, run, batch, read, open, crashes>>

(* The documents of matches another worker has not committed yet.          *)
Uncommitted(w) == UNION {found[v] : v \in {u \in Workers \ {w} : run[u] = run[w]}}

(* The matches that are new to the run are inserted; the foreign key locks *)
(* the run's row FOR KEY SHARE.  The unique index on run and document      *)
(* makes the INSERT wait for a worker that has one of them uncommitted,    *)
(* and fail (RollBack) when that worker commits; what two pipelines of one *)
(* run have collected may differ, and then neither waits.                  *)
InsertMatches(w, S) ==
    /\ pc[w] = "collecting"
    /\ S # {} /\ S \cap matched[run[w]] = {} /\ S \cap Uncommitted(w) = {}
    /\ run[w] \notin ClaimLocked(w)
    /\ pc' = [pc EXCEPT ![w] = "classifying"]
    /\ found' = [found EXCEPT ![w] = S]
    /\ inserted' = [inserted EXCEPT ![w] = TRUE]
    /\ UNCHANGED <<row, published, clock, run, batch, read, built, crashes>>

(* Mutant: build reads the matches without flushing its own first.         *)
BuildUnflushed(w) ==
    /\ pc[w] = "classifying"
    /\ pc' = [pc EXCEPT ![w] = "aggregating"]
    /\ built' = [built EXCEPT ![w] = matched[run[w]]]
    /\ UNCHANGED <<row, published, clock, run, batch, read, inserted, found, crashes>>

(* Classification is over and build reads the matches of the run, its own  *)
(* and the committed ones; it flushes the sentiments first, if there are   *)
(* new ones, which locks the run's row as the matches do.                  *)
Build(w) ==
    /\ pc[w] = "classifying"
    /\ \/ UNCHANGED inserted
       \/ /\ run[w] \notin ClaimLocked(w)
          /\ inserted' = [inserted EXCEPT ![w] = TRUE]
    /\ pc' = [pc EXCEPT ![w] = "aggregating"]
    /\ built' = [built EXCEPT ![w] = matched[run[w]] \cup found[w]]
    /\ UNCHANGED <<row, published, clock, run, batch, read, found, crashes>>

(* The aggregates are replaced, the run is marked completed, and all that  *)
(* was written since BeginPipeline is committed.                           *)
Complete(w) ==
    /\ pc[w] = "aggregating"
    /\ run[w] \notin ClaimLocked(w)
    /\ row' = [row EXCEPT ![run[w]] = MarkCompleted(@)]
    /\ results' = [results EXCEPT ![run[w]] = TRUE]
    /\ matched' = [matched EXCEPT ![run[w]] = @ \cup found[w]]
    /\ charted' = [charted EXCEPT ![run[w]] = built[w]]
    /\ pc' = [pc EXCEPT ![w] = "idle"]
    /\ run' = [run EXCEPT ![w] = "none"]
    /\ EndTransaction(w)
    /\ UNCHANGED <<clock, batch, read, crashes>>

(* Mutants: the failed pipeline does not roll back; or commits.            *)
RollBackForgotten(w) ==
    /\ pc[w] \in {"collecting", "classifying", "aggregating"}
    /\ pc' = [pc EXCEPT ![w] = "failing"]
    /\ UNCHANGED <<row, published, clock, run, batch, read, open, crashes>>

RollBackCommits(w) ==
    /\ pc[w] \in {"collecting", "classifying", "aggregating"}
    /\ pc' = [pc EXCEPT ![w] = "failing"]
    /\ results' = [results EXCEPT ![run[w]] = @ \/ inserted[w]]
    /\ matched' = [matched EXCEPT ![run[w]] = @ \cup found[w]]
    /\ EndTransaction(w)
    /\ UNCHANGED <<row, charted, clock, run, batch, read, crashes>>

(* A step of the pipeline raises: rollback, which drops what was inserted. *)
RollBack(w) ==
    /\ pc[w] \in {"collecting", "classifying", "aggregating"}
    /\ pc' = [pc EXCEPT ![w] = "failing"]
    /\ EndTransaction(w)
    /\ UNCHANGED <<row, published, clock, run, batch, read, crashes>>

(* Mutant: the exception is logged and the run left as it is.              *)
FailRunSwallowed(w) ==
    /\ pc[w] = "failing"
    /\ pc' = [pc EXCEPT ![w] = "idle"]
    /\ run' = [run EXCEPT ![w] = "none"]
    /\ UNCHANGED <<row, published, clock, batch, read, open, crashes>>

(* The run is read again, marked failed and committed.                     *)
FailRun(w) ==
    /\ pc[w] = "failing"
    /\ run[w] \notin ClaimLocked(w)
    /\ row' = [row EXCEPT ![run[w]] = MarkFailed(@)]
    /\ pc' = [pc EXCEPT ![w] = "idle"]
    /\ run' = [run EXCEPT ![w] = "none"]
    /\ UNCHANGED <<published, clock, batch, read, open, crashes>>

-----------------------------------------------------------------------------
(* Environment. *)

(* The process is killed or cancelled, or loses the database: its open     *)
(* transaction is rolled back, nothing marks its run.                      *)
Crash(w) ==
    /\ pc[w] # "down"
    /\ crashes < MaxCrashes
    /\ crashes' = crashes + 1
    /\ pc' = [pc EXCEPT ![w] = "down"]
    /\ run' = [run EXCEPT ![w] = "none"]
    /\ batch' = [batch EXCEPT ![w] = {}]
    /\ read' = [read EXCEPT ![w] = Loaded({})]
    /\ EndTransaction(w)
    /\ UNCHANGED <<row, published, clock>>

(* Time passes.  Without Overrun a live worker is done with its run before *)
(* the run is stale.                                                       *)
Tick ==
    /\ clock < MaxClock
    /\ Overrun \/ \A w \in Workers : Owns(w) => clock < row[run[w]].started + StaleAfter
    /\ clock' = clock + 1
    /\ UNCHANGED <<row, published, pc, run, batch, read, open, crashes>>

WorkerStep(w) ==
    \/ Start(w) \/ Requeue(w)
    \/ \E r \in Runs : ClaimSelect(w, r)
    \/ ClaimCommit(w) \/ Load(w) \/ BeginPipeline(w) \/ UnexpectedError(w)
    \/ MatchNothing(w)
    \/ \E S \in SUBSET Docs : InsertMatches(w, S)
    \/ Build(w) \/ Complete(w) \/ RollBack(w) \/ FailRun(w)

Next ==
    \/ \E r \in Runs : CreateRun(r)
    \/ \E w \in Workers : WorkerStep(w) \/ Crash(w)
    \/ Tick

Spec == Init /\ [][Next]_vars

(* A worker that runs keeps going, and one that exits is restarted, as     *)
(* docker-compose.yml says (Railway gives up after ten times).  Nothing    *)
(* makes a user submit, a worker crash or time pass.                       *)
FairSpec == Spec /\ \A w \in Workers : WF_vars(WorkerStep(w))

-----------------------------------------------------------------------------
(* Properties. *)

(* Every variable has its type; a worker works on a run exactly between    *)
(* its claim and the end of it (worker.py), and what it has read of the    *)
(* database and not written yet belongs to its stage.                      *)
TypeOK ==
    /\ row \in [Runs -> Row]
    /\ results \in [Runs -> BOOLEAN]
    /\ matched \in [Runs -> SUBSET Docs] /\ charted \in [Runs -> SUBSET Docs]
    /\ clock \in Nat \ {0} /\ crashes \in 0..MaxCrashes
    /\ pc \in [Workers -> Stage]
    /\ run \in [Workers -> Runs \cup {"none"}]
    /\ batch \in [Workers -> SUBSET Runs]
    /\ read \in [Workers -> [Runs -> Row]]
    /\ inserted \in [Workers -> BOOLEAN]
    /\ found \in [Workers -> SUBSET Docs] /\ built \in [Workers -> SUBSET Docs]
    /\ \A w \in Workers :
         /\ run[w] \in Runs <=> Owns(w) \/ pc[w] = "claiming"
         /\ inserted[w] => pc[w] \in {"classifying", "aggregating"}
         /\ found[w] # {} => inserted[w]
         /\ built[w] # {} => pc[w] = "aggregating"
         /\ batch[w] # {} => pc[w] \in {"recovering", "claiming"}

(* Claims exclude each other: the rows a claim has locked are pending and  *)
(* locked by that claim alone, so two claims that overlap in time never    *)
(* take the same run (claim_next_pending_run, FOR UPDATE SKIP LOCKED).     *)
ClaimsDisjoint ==
    \A w \in Workers : pc[w] = "claiming" =>
        /\ run[w] \in batch[w]
        /\ \A r \in batch[w] : row[r].status = "pending"
        /\ batch[w] \cap ClaimLocked(w) = {}

(* A run whose results are being written cannot be claimed, even when the  *)
(* startup of another worker has sent it back to pending meanwhile: FOR    *)
(* UPDATE skips the row the writer's foreign keys hold FOR KEY SHARE.      *)
WriterNotClaimed ==
    \A w \in Workers : pc[w] = "claiming" => batch[w] \cap KeyShared(w) = {}

(* A completed run has aggregates, committed with or before the status,    *)
(* that were built from committed matches only, and a freshness limit the  *)
(* cache can use (run_query_pipeline commits once, after mark_completed).  *)
PublishedTogether ==
    \A r \in Runs :
        /\ row[r].status = "completed" => results[r] /\ row[r].fresh # 0
        /\ charted[r] \subseteq matched[r]

(* The charts of a completed run were built from all the documents that    *)
(* are listed as its matches, although the build reads the matches in one  *)
(* statement and the aggregates are replaced in later ones: nobody commits *)
(* matches of the run in between (AggregationService.build).               *)
ChartsAreComplete ==
    \A r \in Runs : row[r].status = "completed" => charted[r] = matched[r]

(* No two workers ever work on the same run.                               *)
SingleProcessor ==
    \A v, w \in Workers : v # w /\ Owns(v) /\ Owns(w) => run[v] # run[w]

(* Why it holds when workers start one at a time and are done with a run   *)
(* before it is stale: an owned run is running and not stale, a startup    *)
(* requeues only stale runs, and no two startups overlap (the threshold of *)
(* requeue_stale_running_runs against the started_at of mark_running).     *)
OwnedIsFresh ==
    \A w \in Workers : Owns(w) =>
        row[run[w]].status = "running" /\ clock <= row[run[w]].started + StaleAfter

RecoveringStale ==
    \A w \in Workers : pc[w] = "recovering" => \A r \in batch[w] : Stale(r)

OneRecovery ==
    \A v, w \in Workers : pc[v] = "recovering" /\ pc[w] = "recovering" => v = w

RecoveryAvoidsOwned == OwnedIsFresh /\ RecoveringStale /\ OneRecovery

(* The columns of a row agree with its status: only a completed run has a  *)
(* freshness limit, only a failed one an error message, and a run that is  *)
(* not over has no finished_at (the mark_* methods of QueryService).       *)
RowConsistent ==
    \A r \in Runs :
        /\ row[r].fresh # 0 <=> row[r].status = "completed"
        /\ row[r].error <=> row[r].status = "failed"
        /\ row[r].finished => row[r].status \in {"completed", "failed"}

(* A run the dashboard has seen completed or failed stays so: the client   *)
(* stops polling at that status (poll_query_run).                          *)
TerminalIsFinal ==
    [][\A r \in Runs : row[r].status \in {"completed", "failed"} =>
                         row'[r].status = row[r].status]_vars

(* When no worker crashes, every run submitted ends, completed or failed   *)
(* (process_pending_runs drains the queue).                                *)
EveryRunEnds ==
    [](crashes = 0) =>
      \A r \in Runs : row[r].status = "pending" ~> row[r].status \in {"completed", "failed"}

(* A run that nobody works on any more and that is stale does not stay so  *)
(* once a worker starts: the recovery at startup finds it.                 *)
Stranded(r) == row[r].status = "running" /\ \A w \in Workers : Owns(w) => run[w] # r

StrandedIsRequeued ==
    \A r \in Runs, w \in Workers :
        (Stranded(r) /\ Stale(r) /\ pc[w] = "down") ~> ~Stranded(r)

(* The readers' view of the rows, as RunContract states it: workers can be *)
(* overtaken when they overrun the threshold or start together.            *)
Contract == INSTANCE RunContract WITH
    status <- [r \in Runs |-> row[r].status],
    visible <- {r \in Runs : results[r]},
    Overtaken <- IF Overrun \/ ConcurrentStartup THEN Runs ELSE {}

ImplementsContract == Contract!Spec

=============================================================================
