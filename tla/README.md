# TLA+ models of Reddit Sentiment Explorer

Specifications of the parts of Reddit Sentiment Explorer whose correctness
depends on the order of events: several API requests, workers, containers and
database transactions at once, browser callbacks, crashes, restarts and slow
runs; and of the computations whose results users read: matching, sentiment
results and charts. TLC checks every module on small instances; TLAPS proves
the safety properties for every number of runs, workers, requests, documents
and processes.

## The system

A user enters a term in the dashboard. The API finds or creates the *query* of
the term and either reuses a completed, fresh *query run* or inserts a pending
one. A worker claims it, collects posts and comments, stores what is new,
matches documents, classifies them, aggregates, and commits. The dashboard
polls the run until it is over. The processes share nothing but PostgreSQL.

| Component | State | Operations | Interacts through |
|---|---|---|---|
| Run lifecycle, worker (`worker.py`, `query_service.py`, `run_query_pipeline.py`) | `query_runs` rows, the worker's current run | recover stale runs, claim, mark running/completed/failed, run the pipeline | row locks on `query_runs`, unique index of `query_document_matches` |
| Query API (`query_routes.py`, `dependencies.py`, `session.py`, `cache_service.py`) | one session per request | search, refresh, reads | unique `normalized_term`, columns of `query_runs` |
| Database initialization (`db/init.py`, migrations) | schema, `alembic_version`, lock file | inspect, lock, stamp, upgrade | schema and file lock |
| Collection persistence and matching | subreddits, posts, comments, documents, matches | look up a batch, insert what is missing | unique keys and savepoints, in a transaction as long as the run |
| Sentiment classification | `sentiment_results` | reuse, classify concurrently, skip failures | semaphore, provider, results of earlier runs |
| Aggregation | `aggregates` | recompute and replace all aggregates of a run | rows of the same transaction |
| Collector (Arctic Shift) | HTTP requests in flight | two rounds of requests, retries, skips | semaphore, upstream API |
| Search, language, subreddits | none | normalize, match, detect, validate | langdetect, reddit.com |
| Dashboard session | browser stores (current run, history, subreddits), poll timer | search, poll, restore, load results | API, callbacks writing the same store |
| Dashboard presentation, configuration | none | layout, wording, settings | - |

What is hard here, and what makes each component correct:

- **Lifecycle**: workers race for runs, crash, restart, and recover runs that
  may still be alive. Claims must exclude each other, a run that is being
  written must not be claimed, results and status appear together, charts cover
  the matches, and, unless a worker is overtaken, terminal statuses are final;
  every run ends.
- **API**: requests race to create one query and answer before they commit.
  Every run must belong to the one query of its term; an answer must fit the
  request and, if cached, be published.
- **Initialization**: the decision to stamp is taken before the lock and the
  lock covers one host. The recorded revision must match the schema.
- **Persistence**: runs share rows and hold uncommitted keys for minutes. A
  completed run must have all its documents whoever stored them, documents must
  have their sources, conflicts and deadlocks must end, not hang, a run.
- **Sentiment, charts**: calls fail one by one, results are reused across runs
  and across provider configurations, a run may be processed twice. A stored
  result must be a verdict of the provider it names for that document, and
  charts and document list must agree on what is there.
- **Collector**: retries keep their slot, one failure ends the collection under
  its other tasks. The load on the upstream must stay bounded, comments must
  stay with their posts, the collection must end.
- **Dashboard**: callbacks that were sent before a user action are answered
  after it. What is shown must be published, and a run that is not over must go
  on being polled.

`PROJECT.json` lists the hazards with their source lines.

## Modules

| Module | Models | Checked by |
|---|---|---|
| `RunContract` | what readers rely on: statuses and published results, of runs that are overtaken and of those that are not (abstract) | implemented by `RunLifecycle`, used by `QueryApi` and `DashboardSession` |
| `RunLifecycle` | `query_runs` rows, workers, recovery, the transactions | `RunLocks`, `RunExclusive`, `RunProgress`, `RunTakeover` |
| `QueryApi` | request handlers composed with `RunContract` | `ApiRequests` |
| `Migrations` | `initialize_database` of several processes | `MigrateCompose`, `MigrateTogether` |
| `CollectionPersistence` | the shared rows stored by concurrent pipelines | `CollectOverlap`, `CollectLanguage` |
| `Selections` | sorting sets, picking from sequences by rank (operators) | extended by `Search` and `Phrases` |
| `Search` | simplification and matching of texts (operators) | extended by `Collector` |
| `Collector` | the requests of one collection, the batch, documents and matches | `CollectRequests` |
| `Phrases` | words, terms and evidence phrases of a text (operators) | extended by the next two |
| `Providers` | what each provider makes of a text (operators) | extended by `Sentiment` |
| `Aggregation` | the charts of a run from its rows (operators) | extended by `Sentiment` |
| `Sentiment` | the results of several runs, their charts and commits | `ClassifyRuns` |
| `DashboardSession` | one browser tab composed with `RunContract` | `DashboardPolling` |
| `*Proofs` | theorems about `RunLifecycle`, `QueryApi`, `Migrations`, `CollectionPersistence`, `Collector`, `Sentiment`, `DashboardSession`, and lemmas about `Selections` and the library's folds | TLAPS |
| `MC*` | instances for TLC | |

The definitions marked as mutants in the modules are wrong variants of the
definition after them. Each property is shown to depend on the code by
replacing one definition by its mutant: the property must then fail.

### RunLifecycle

`row[r]` is the row of a run (status, started, finished, fresh limit, error),
`results[r]` whether it has committed aggregates, `matched[r]` the documents of
its committed matches and `charted[r]` those of the matches its aggregates were
built from. Each worker has `pc`, `run`, `batch` (rows read or locked), `read`
(the rows as its session has loaded them: SQLAlchemy writes the columns that
differ from these), and of its open transaction `inserted`, `found` and
`built`: whether it holds the lock of a foreign key on the run, the matches it
has inserted and the matches its build has read.

- `Start`, `Requeue`: `process_pending_runs` recovers once per start. Reading
  the stale rows and updating them are two steps because nothing locks them in
  between.
- `ClaimSelect`, `ClaimCommit`: `SELECT ... FOR UPDATE SKIP LOCKED` takes all
  unlocked pending rows (there is no `LIMIT`) until the commit. Inserting a
  match locks the row of its run `FOR KEY SHARE`, which the claim skips too.
- `Load`, `BeginPipeline`: `process_run` loads the run, and the pipeline marks
  it running in another statement; a recovery may come in between.
- `MatchNothing`, `InsertMatches`: the flush of the matches, the first write
  other transactions notice. The unique key is (run, document), so of two
  workers that have the same run one waits only if it inserts a document the
  other has not committed yet; when that one commits, the insert fails, which
  is one of the ways to `RollBack`. What the two have collected may differ (a
  skipped request counts as an empty answer), and disjoint matches are both
  inserted.
- `Build`, `Complete`, `RollBack`, `FailRun`: the build reads the matches it
  sees; aggregates, status and results are one commit; failure is a rollback
  and a second transaction.
- `UnexpectedError`: the services of a run cannot be created: `process_run`
  marks it failed and raises, which ends the worker; its container restarts it
  (`Start`). What leaves the pipeline itself is an error of the database after
  the rollback, when the attributes of the run are expired and reading `run.id`
  for the log raises again (`worker.py:71`): nothing is recorded, which is
  `Crash`.
- `Crash`, `Tick`: any worker dies at any point; time passes.

Rows of `queries` and `query_runs` are never deleted, so the branches for a run
or query that is missing are unreachable and have no action.

`Overrun` and `ConcurrentStartup` say whether a run may take longer than the
stale threshold and whether workers may start at once. The code excludes
neither; with both `FALSE` the module describes the deployment of
`docker-compose.yml`, one worker whose runs stay below the threshold. Otherwise
any run may be *overtaken*: a worker goes on with a run that another one has
taken or finished, and marks the row completed, failed or (in a recovery)
pending whatever it is by then (`mark_failed` and `requeue_stale_running_runs`
do not look at the status again).

### RunContract

The readers' view: `status` of each run and the set `visible` of those with
published results. The constant `Overtaken` names the runs that may be
overtaken. For the others a terminal status is final; for these it may come
back, and what remains is that a completed run has results and that published
results stay published. `RunLifecycle` implements it with no run overtaken when
`Overrun` and `ConcurrentStartup` are `FALSE`, and with all of them otherwise.

### QueryApi

A query and a run are named after the request that created them. `Post` is the
first select of `get_or_create_query`; `InsertQuery` the insert under a
savepoint, which waits for another open insert of the same term and, if that
commits, takes its row; `AnswerCached`/`FindNone` the cache lookup; `CreateRun`
the flush of the new run; `Commit` the end of `get_db_session`, after the
response has been sent (dependencies with `yield` are finished after the
response in the FastAPI version of `uv.lock`). `Abort` is any failure of the
transaction, `Restart` a restart of the API, possibly with another provider.
`Work` is the next-state relation of `RunContract`, with the runs in
`Overtaken` and with the time columns the workers set. Terms and scopes are
normalized by constant functions that map several spellings to one value.

### Migrations

`applied` is how far the DDL is committed, `version` the row of
`alembic_version`. `LookForVersion` and `LookForQueries` are the two queries
before the lock, `Lock`/`Stamp`/`BeginUpgrade`/`CommitUpgrade` the thread under
it. An upgrade is one transaction that fails if its objects exist already or
the version row is not the one it read. `WaitsFor` is `depends_on`, which
orders the first start only. On a database that has a version the processes may
also all start at once (a reboot or redeployment).

### CollectionPersistence

Each pipeline goes through the four kinds of rows in the order of the code;
`NextStage` is the lookup of a whole kind, `Flushed` the row inserted next,
`Wait`/`Store`/`Absorb`/`Conflict`/`Deadlock` what can become of it. An insert
waits while another transaction holds the key. `Absorb` is the savepoint that
posts and comments have; subreddits and documents have none, so `Conflict` ends
the run. A collected batch is a set: `Collector` shows that a collection
returns no post and no comment twice, if no answer repeats one. Row contents
are left out except subreddit, parent and language.

### Collector and Search

`collect` is two gathers of tasks, one per subreddit and one per post.
`task[i]` is the request of one task with its attempt and payload, `free` the
semaphore. `Acquire`, `Answer`, `Retry`, `Wake`, `Skip` and `Raise` are
`_request_with_retry`: a retry sleeps with its slot (`backoff`), a request that
was retried as often as allowed counts as an empty answer, anything but a
status 422 or 5xx raises. `CollectRaises` and `Close` are what follows a raise:
the exception leaves the `gather`, the client closes, and the tasks that are
left raise one after the other. An answer may be any part of what exists in any
order, hold an item without an id, which is dropped, or one that cannot be
converted, which fails the collection. It names no item twice: this is assumed
of Arctic Shift, for nothing in the client drops a second one. `Close` lets
every request in flight fail, those that are still connecting included.

`Keep` is what the pipeline does with the batch: candidates match by title or
body, those in another language get no document (any subset stays), documents
are matched again by their joined text, and rows that a pipeline overtaken on
the same run has stored are left alone. `Matches` works on texts as sequences
of symbols: lower case and accents are the function `Simple`, which gives one
symbol for one (NFKD gives several for a ligature, none for a mark), blanks are
joined, a term matches as a phrase or, if it has several words, word by word.

### Sentiment, Providers, Aggregation and Phrases

The pipelines of several runs next to each other, from the matched documents to
the commit. `LookUp` finds the results the run has already and those it may
reuse, `Call`/`Predict`/`PredictionFails` are `classify_one` under the run's
semaphore, `Publish` stores the predictions, builds and replaces the charts and
commits. `given` is a history variable: the verdicts of providers to
transactions that were not rolled back.

- `_get_reusable_results` takes the newest row by a time that is set at the
  flush; here it takes any committed one.
- A run has one pipeline at a time, which is what `RunLifecycle` shows while no
  worker is overtaken; of two that were, only the case is here that one begins
  after the commit of the other (`ProcessAgain`). Two at once with different
  matches leave charts of one of them (`ChartsAreComplete` of `RunLifecycle`).
- A run has a language, which decides the lexicon of the mock provider and the
  stop words of the charts. Results are reused by document and provider,
  whatever the language, so a stored verdict is one its provider gives *in the
  language of some run*.
- The API writes provider and model into a run, but the worker classifies with
  the model of its own settings (`Reported`). Rows keep the identity that was
  reported, which `VerdictsAreAttributed` shows, so after a change of
  `LLM_MODEL` the results of a queued run are stored under the new model and
  are not reused for runs of the old one.
- The attempts of one OpenAI call are one outcome (their number is fixed in
  `openai_provider.py`, `llm_retry_attempts` has no effect). Charts count
  confidence below the constant 0.6, whatever `sentiment_confidence_threshold`
  says; `low` of a verdict is that comparison.
- The versions of the mock and XLM-RoBERTa providers are constants of the code,
  which does not change while a run is queued.
- `Phrases` has the words, stop words and bigrams of a text. A quote is
  evidence when it occurs in the text as a string, so its first and last words
  may be fragments of words of the text (`Heads`, `Tails`, `Middles`), and
  these reach the charts. Case and punctuation are left out, also where the
  code tells two quotes apart by them. `Aggregation` has the charts. Averages
  are exact fractions instead of floats. Equally frequent terms are ordered in
  one fixed way; no property depends on it.

### DashboardSession

The stores of one tab are variables; a callback that asks the API is a request
(`Search`, `Poll`), what the API reads (`ApiAnswersSearch`, `ApiAnswersPoll`)
and an answer (`SearchAnswered`, `SearchFails`, `PollAnswered`) that writes the
stores as they were when the request was sent. A callback that is sent again
drops the answer it was waiting for, so at most one of each is in flight.
`Output` is the outputs of those callbacks together with what they trigger:
`update_history_store`, and `render_results`, which is due (`rendering`) and
happens as `Render`. `Restore` is a click on one of the listed searches,
`Reload` a new load of the page: the stored run (session storage) and the
history (local storage) survive, the timer does not. `Work` is that of
`RunContract`, with the runs in `Overtaken`.

Not told apart: a run that is not found from other errors, the term, subreddits
and language that go with a run, and a failed run from one in progress on the
page, for which `render_results` shows the same. When the charts cannot be
fetched the page shows zeros (`"unavailable"`). The history is the set of its
entries because `saved_at` orders it.

## Runs

| Run | Question | Bounds |
|---|---|---|
| `RunLocks` | what locks and the commit guarantee whatever the timing, and what readers can still rely on | 3 workers, 2 runs, 2 documents, threshold 1, clock to 3, 1 crash, overruns, concurrent starts |
| `RunExclusive` | is there one worker per run, do charts cover the matches, and are terminal statuses final, when runs stay below the threshold | 2 workers, 2 runs, 2 documents, threshold 2, clock to 5, 2 crashes |
| `RunProgress` | does every run end; is a stranded run found | 2 workers, 2 runs, 1 document, 1 crash, overruns, concurrent starts |
| `RunTakeover` | do replicas never process the same run (`ROADMAP.md:12`)? no | 1 run, 2 workers, 2 documents, overruns, concurrent starts |
| `ApiRequests` | racing and refreshed requests, cache, failed commits, restart | 3 requests, 1 term in 2 spellings, 2 scopes, 2 providers, 1 abort, 1 run overtaken |
| `MigrateCompose` | does the compose deployment always start | 3 processes on 3 hosts, 4 revisions, 2 crashes |
| `MigrateTogether` | does the lock prevent races (`README.md:18`)? no | 2 processes, empty database |
| `CollectOverlap` | concurrent storing of shared rows | 2 runs, 1 subreddit, 2 posts, 1 comment, any of them stored before, 1 other failure |
| `CollectLanguage` | are documents filtered by language (`README.md:85`)? no | the same, no failure |
| `CollectRequests` | load, batch and end of a collection, what is kept and matched | 2 subreddits typed in 4 ways, 3 posts, 2 comments, 2 slots, 1 retry |
| `ClassifyRuns` | attribution of results, charts, rolling averages and spikes | 2 runs in 2 languages that share one of 5 documents, 3 provider configurations, 2 models, 2 slots, 1 restart, failure or repetition, window of 2 days (code 3), 1 spike (code 5) |
| `DashboardPolling` | what a tab shows, polls and remembers | 3 runs, one searched before, history of 2 (code 12), 2 listed (code 8), clock of 3 searches, 1 run overtaken |

Why the bounds are enough: two workers show every race on one run and the third
a claim against a claim and a writer. Two runs let a claim skip a locked one.
The clock passes the threshold for a run that is requeued and taken once more
(`RunLocks`: requeued and claimed under its writer). Two documents make matches
of two workers disjoint, equal or overlapping. Three requests are a creator, a
loser and one that reuses or refreshes; with one term TLC cannot tell a run of
the wrong term, which is left to the proof of `AnswersFit`. Four revisions
distinguish empty, baseline, in between and last. Two posts allow opposite
insertion orders, hence deadlocks (those over subreddits would need two of
them); a new subreddit makes runs conflict before, a stored one lets them race
for posts and documents; the comment has a parent and the other language than
its post. The posts of the collection match by phrase, word by word, and only
as title and body together or not at all; with two slots and three posts one
task has to wait. The documents lie on three days, one of them with three
documents and one missing before it, in two subreddits, so that a day is busy,
an average jumps up or down, the window drops a day and the first spike hides a
second. The history of two is full after one more search and drops one at the
next. `MaxClock`, `MaxCrashes`, `MaxAborts`, `MaxFailures`, `MaxRestarts` and
`MaxSearches` bound counters that the system leaves unbounded. `CHECK_DEADLOCK
FALSE` is set everywhere because the system may stop: all requests are handled,
the queue is drained, the clock is at its bound.

**Fairness.** `RunLifecycle`: weak fairness of each worker's steps, because a
worker polls for ever and its container is restarted for ever (`restart:
unless-stopped`; on Railway, `ON_FAILURE` gives up after ten retries, and then
there is no liveness). Crashes, new runs and ticks are not fair. `QueryApi`:
weak fairness of each handler, which the event loop runs; workers, clients and
restarts are not fair. `Migrations`: weak fairness of each process; the
upgrade's connection has lock and statement timeouts and a process that exits
is restarted. `CollectionPersistence`: weak fairness of each pipeline,
including PostgreSQL's deadlock detection. `Collector`: weak fairness of
`collect` and of each task, because the event loop runs what is ready and a
request ends within the client's timeout of 60 seconds. `DashboardSession`: the
timer fires and the page renders (weak fairness); as each tick replaces a poll
that is not answered, weak fairness is not enough for an answer: the API
answers, and the callback returns, before the next tick at least once in a
while (strong fairness of `ApiAnswersPoll` and `PollAnswered`). This excludes
an API that is always slower than the timer, whose answers would never arrive;
that hazard has no property. Neither the workers nor the user are fair.
`Sentiment` has no liveness property.

**What the violations show.**

1. `RunTakeover`: `requeue_stale_running_runs` cannot tell a dead owner from a
   slow one, so a second worker that starts takes over a live run. It also
   reads stale rows without locking them: of two workers that start together,
   one may requeue a run the other has just claimed. In both cases claims still
   exclude each other, and completed runs have results (`RunLocks`). The slower
   pipeline fails on the unique index if its matches overlap those of the
   other; if they are disjoint both commit, the run lists the documents of
   both, and its charts may count those of one only: `ChartsAreComplete` holds
   in `RunExclusive` and not without its assumptions.
2. `MigrateTogether`: `should_stamp` is computed before the lock, so the
   process that waits stamps a migrated schema back to the baseline, and no
   upgrade succeeds any more.
3. `CollectLanguage`: a document stored by an earlier run is taken over without
   a language check, so a run in English gets Hungarian documents when a
   Hungarian run was first, and not otherwise.

**What the models show that no document speaks about.** A poll that was sent
for one run and is answered after the user has searched or restored another
puts the first run back into the store. An answer with an unchanged status
enables the timer even if the stored run is finished by then, which is then
polled until the page is loaded again. A reload leaves a pending run stored but
not polled; a click in the history helps. The stored status, history and
results remain correct in all three cases (`DashboardPolling`), except that a
run that is overtaken may leave the status after it was shown, which no poll
notices any more.

## Proofs

All theorems hold for every value of the constants that satisfies the named
`ASSUME`s of the module. Each proof module states the inductive invariant in
parts and proves them action by action.

- `RunLifecycleProofs`: `TypeCorrect`, `ClaimsExclude`, `WritersExclude` and
  `CompletedIsPublished` need no assumption on the workers. Their invariant
  says which rows each stage of a worker holds: a claim holds pending rows that
  no other claim holds, a writer the run it inserted for. A row leaves the
  pending state only through the claim that holds it, which is why the claims
  remain disjoint; and what a build has read is committed already or will be
  with it. `OneWorkerPerRun`, `RecoverySparesOwners`, `RowsConsistent`,
  `ChartsCoverMatches` and `TerminalStays` assume that runs stay below the
  threshold and workers start one at a time. `SingleProcessor` is not
  inductive; the strengthening is `RecoveryAvoidsOwned`, that an owned run is
  running and not stale, that the rows a recovery holds are stale, and that
  there is one recovery: a recovery can then not touch an owned run, and a
  claim finds only pending ones. With one worker per run nobody commits matches
  between a build and its commit, hence `ChartsCoverMatches`. `RefinesContract`
  is for all constants: with these two assumptions the contract has no run
  overtaken, without them every run may be.
- `QueryApiProofs`: `TypeCorrect`, `QueriesAreShared`, `AnswersFit`,
  `CachedStaysPublished` and `MissingIsTemporary`. A handler that inserts a
  query is alone with its key until it commits (`Keys`, `Alone`), so the
  committed query of a term belongs to a finished handler of that term
  (`Owners`); a query and a run keep the term and scope they were created with
  (`Queries`, `Columns`), which makes answers fit (`Answers`). Which runs are
  overtaken is a constant, so the theorems hold for any of them.
- `MigrationsProofs`: `TypeCorrect`; `VersionedStaysVersioned` and
  `ReadyIsMigrated`: a database that is versioned from the start stays
  versioned at its schema, and nobody is ready before it is migrated, for any
  hosts and any order of starts. The invariant is that nobody ever decides to
  stamp. `OrderedStaysVersioned` and `OrderedReadyIsMigrated` say the same of
  every initial database, an empty one and one older than Alembic included, if
  every other process waits for one of them at the first start (`depends_on` in
  `docker-compose.yml`). Until that process is ready it is alone, so what it
  decided from its look at the schema is still true when it stamps
  (`FirstStart`); from then on the first invariant holds. `MigrateTogether`
  shows that one of the two premises is needed: without an order, a database
  that was empty is stamped back.
- `CollectionPersistenceProofs`: `TypeCorrect`, `SourcesAreThere`,
  `NothingIsLost` and `OnlyCommittedConflicts`, for any number of runs that
  collect any posts and comments. What a commit publishes was inserted over
  five stages next to what others committed meanwhile, so the invariant
  `Consistent` says of each stage that what the pipeline sees (committed rows
  and its own) is closed under references, that every row its stage wants is
  seen, to be inserted or awaited, and which earlier kinds are complete. A
  commit keeps the other pipelines consistent because the union of closed sets
  is closed. `OnlyCommittedConflicts` rests on `LateRows`: a row that was
  missing at the lookup and is committed now comes from another run that has
  completed. The assumption is that no identifier is a post's and a comment's.
- `CollectorProofs`: `TypeCorrect`, `UpstreamIsSpared`, `BatchIsComplete`,
  `DocumentsMatch` and `CandidatesMatch`. A sleeping request is not sent but
  keeps its slot and is sent again without asking for one, so the invariant
  counts both: free slots and held ones are never more than the concurrency.
  Once collect is over the client is closed, and on a closed client nothing is
  sent. The batch rests on a second invariant, `Data`: a request is about a
  subreddit or a post, and an answered one holds one of the answers there are
  for it (`RequestTypes`); collected posts and names are listed once
  (`BatchTypes`); what the upstream has served is in the answers of this phase
  or was collected in the one before (`Stages`). `CandidatesMatch`: a candidate
  that is stored matches the term, because what matches a part of a text that
  stands between blanks matches the whole text (`PartMatches`): a title is
  simplified in the full text as it is alone, and its words remain words.
- `SentimentProofs`: `VerdictsStayAttributed`: a reused result is a committed
  one of some run, a fresh one was given by the provider the worker has now
  (the worker cannot be configured anew while a pipeline works), and what is
  rolled back is stored nowhere. `TypeCorrect` is proved from `Typed`, which
  says of every pending answer that the provider of the run gives it in the
  language of the run, and of every stored or reused result that the provider
  it names gives it for that document in the language of some run.
  `ChartsAreOfDocuments` and `TimelinesAreOfDocuments` rest on `Charted`: the
  charts of a run are those `Build` makes of the committed rows of that run.
  Then it remains to show what `Build` computes of rows that name a document
  once. Its counters count documents, and the terms of a label consist of
  words, or of fragments of words (`EvidenceFacts`), of documents with that
  label, without stop words and words of the query. Its loop over the days
  carries a window and the previous average: by induction over the days it has,
  at each one, the mean of the last days with a document and the jump from the
  day before (`RollingFold`, `SpikesFold`), whatever the order in which the
  documents were added up. Scores are whole numbers (`openai_provider.py:128`
  converts what the model says); nothing is assumed of their range.
- `SelectionsProofs`: lemmas about data for the two modules above. The
  library's theorems on induction have an operator as a parameter, so these
  take instead the set of the numbers, or of the finite sets, that satisfy the
  predicate. With them, the recursive functions that the library chooses for
  `FlattenSeq` and the folds exist and satisfy their equations
  (`ConcatenationsExist`, `FoldExists`, `LeftFolds`), a fold of a commutative
  operator does not depend on the order (`SumsExist`, `SumOfImage`), and the
  sizes of the groups add up to that of the set (`TotalOfGroups`).
  `SortedFacts` and `PickedFacts` say what sorting and picking return.
- `DashboardSessionProofs`: `TypeCorrect`, `NothingIsFinishedEarly`,
  `PollingGoesOn` and `HistoryIsOrdered`, for any history and any limits. What
  a callback writes was read some time ago, so the invariant speaks of
  everything the browser holds or a callback was sent with: the time of an
  entry tells its run (`Stamps`), and a finished status is never outdated
  because runs that are not overtaken stay finished. That a dropped entry was
  older than as many others as the history keeps rests on a lemma about
  `Newest`: counting the newer entries numbers the entries of a finite set
  without gaps.

The assumptions on the constants are the `ASSUME`s of the modules: finite sets
of documents, names and items, a text for every document, bounds that are
numbers. None of them fixes a size.

Only model-checked: the liveness properties (`EveryRunEnds`,
`StrandedIsRequeued`, `EveryRequestEnds`, `EveryProcessReady`,
`EveryPipelineEnds`, `CollectionEnds`, `FinishedRunIsShown`), because TLAPS
cannot reason about fairness here. Every invariant and every action property of
a passing run is stated by a theorem, some under the hypotheses named above.

## Not modelled

- The documents table of the dashboard: its filters, the selected row and the
  detail panel; and the list of subreddits with its validation badges. They
  change nothing but the view of one tab, and each callback computes its output
  from its inputs.
- Presentation, wording and configuration have no state to check.
- The sentiment models, langdetect, Arctic Shift and reddit.com are external:
  their answers are arbitrary members of small sets.
- PostgreSQL and Alembic are modelled by the locks, constraints and
  transactions the code relies on, Dash by the order of its callbacks.
- The GET endpoints are read-only; the cache lookup is in `QueryApi`, the
  document list in `Sentiment`.
- Days are abstract: the charts use the local day of the worker and the table
  the UTC date, which agree in the containers.

## Plan

1. The document filters and the selection of `callbacks/documents.py`, next to
   the stores of `DashboardSession`.
2. The subreddit list with its validation requests in flight.
3. The safety part of `CollectionEnds` and `EveryRunEnds`: a measure that every
   step of `collect`, or of a worker, decreases.
