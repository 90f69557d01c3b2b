----------------------- MODULE CollectionPersistence -----------------------
(***************************************************************************)
(* What the pipelines of several runs store at the same time: subreddits,  *)
(* posts, comments and documents, shared by all runs under unique keys     *)
(* (CollectionPersistenceService, DocumentMatchService, the one commit of  *)
(* run_query_pipeline).  Each kind is looked up once for the whole batch   *)
(* and the missing rows are inserted one by one, in one transaction that   *)
(* stays open until the run is over.                                       *)
(***************************************************************************)
EXTENDS FiniteSets, Naturals

CONSTANTS
    Runs,            \* runs, each processed by one pipeline
    Subreddits, Posts, Comments,
    SubredditOf,     \* the subreddit of each post and comment
    PostOf,          \* the post of each comment
    LanguageOf,      \* the language detected in each post and comment
    Languages,
    MaxFailures      \* bound on the failures from other causes

Sources == Posts \cup Comments

ASSUME ConstantsAssumption ==
    /\ SubredditOf \in [Sources -> Subreddits]
    /\ PostOf \in [Comments -> Posts]
    /\ LanguageOf \in [Sources -> Languages]
    /\ Posts \cap Comments = {}
    /\ MaxFailures \in Nat

(* The rows with a unique key.                                             *)
Subreddit(s) == [kind |-> "subreddit", of |-> s]
Source(x) == [kind |-> IF x \in Posts THEN "post" ELSE "comment", of |-> x]
Document(x) == [kind |-> "document", of |-> x]
Rows == {Subreddit(s) : s \in Subreddits}
        \cup UNION {{Source(x), Document(x)} : x \in Sources}
NoRow == [kind |-> "none", of |-> "none"]
DeadlockDetected == [kind |-> "deadlock", of |-> "none"]

VARIABLES
    stored,    \* the committed rows
    stage,     \* the stage of each pipeline
    batch,     \* the posts and comments it has collected
    matching,  \* those whose text matches its term
    language,  \* the language_filter of the run
    todo,      \* rows of this stage it found missing and has not inserted yet
    sent,      \* the row whose INSERT it is waiting for
    mine,      \* rows it has inserted and not committed
    docs,      \* the documents it goes on with
    error,     \* the row of the IntegrityError it failed with, or a deadlock
    failures

vars == <<stored, stage, batch, matching, language, todo, sent, mine, docs, error, failures>>

Open == {"subreddit", "post", "comment", "document", "matched"}
Stage == Open \cup {"new", "completed", "failed"}
After(s) == CASE s = "subreddit" -> "post" [] s = "post" -> "comment"
              [] s = "comment" -> "document" [] s = "document" -> "matched"

(* A collected comment comes with its post (ArcticShiftCollector.collect). *)
Batch(B) == \A c \in B \cap Comments : PostOf[c] \in B

(* Earlier runs have stored some subreddits, and some posts and comments   *)
(* that did not match their terms.                                         *)
Init ==
    /\ \E S \in SUBSET Subreddits, X \in SUBSET Sources :
         /\ Batch(X) /\ \A x \in X : SubredditOf[x] \in S
         /\ stored = {Subreddit(s) : s \in S} \cup {Source(x) : x \in X}
    /\ failures = 0
    /\ stage = [r \in Runs |-> "new"]
    /\ batch = [r \in Runs |-> {}] /\ matching = [r \in Runs |-> {}]
    /\ language \in [Runs -> Languages]
    /\ todo = [r \in Runs |-> {}] /\ sent = [r \in Runs |-> NoRow]
    /\ mine = [r \in Runs |-> {}] /\ docs = [r \in Runs |-> {}]
    /\ error = [r \in Runs |-> NoRow]

-----------------------------------------------------------------------------
(* Collection and the lookups.                                             *)

(* The collection of the run, and the first lookup.                        *)
Collect(r) ==
    /\ stage[r] = "new"
    /\ \E B \in SUBSET Sources : \E M \in SUBSET B :
         /\ B # {} /\ Batch(B)
         /\ batch' = [batch EXCEPT ![r] = B]
         /\ matching' = [matching EXCEPT ![r] = M]
         /\ todo' = [todo EXCEPT ![r] = {Subreddit(SubredditOf[x]) : x \in B} \ stored]
    /\ stage' = [stage EXCEPT ![r] = "subreddit"]
    /\ UNCHANGED <<stored, language, sent, mine, docs, error, failures>>

(* Existing documents are taken as they are; a new one is made only of a   *)
(* text in the run's language.                                             *)
Existing(r) == {x \in matching[r] : Document(x) \in stored}
Wanted(r, s) ==
    IF s = "document"
    THEN {Document(x) : x \in {y \in matching[r] : LanguageOf[y] = language[r]}}
    ELSE {Source(x) : x \in {y \in batch[r] : Source(y).kind = s}}

(* All rows of a kind are there: look up those of the next kind at once.   *)
(* After the documents come the matches and results, private to the run.   *)
NextStage(r) ==
    LET s == After(stage[r]) IN
    /\ stage[r] \in Open \ {"matched"} /\ todo[r] = {} /\ sent[r] = NoRow
    /\ stage' = [stage EXCEPT ![r] = s]
    /\ todo' = [todo EXCEPT ![r] = IF s = "matched" THEN {} ELSE Wanted(r, s) \ stored]
    /\ docs' = [docs EXCEPT ![r] = IF s = "document" THEN Existing(r) ELSE @]
    /\ UNCHANGED <<stored, batch, matching, language, sent, mine, error, failures>>

-----------------------------------------------------------------------------
(* Inserts.                                                                *)

(* The row a pipeline flushes: the one whose INSERT is waiting, or one of  *)
(* the missing.  Their order is that of a Python set or of the upstream    *)
(* answer, documents of posts first.                                       *)
Flushed(r) ==
    IF sent[r] # NoRow THEN {sent[r]}
    ELSE {k \in todo[r] : k.kind = "document" /\ k.of \in Comments
                             => \A j \in todo[r] : j.of \in Comments}

Holds(q, k) == k \in mine[q]
Free(k) == \A q \in Runs : ~Holds(q, k)

(* The insert waits for a transaction that has inserted the same key.      *)
Wait(r) ==
    /\ sent[r] = NoRow
    /\ \E k \in Flushed(r) :
         /\ ~Free(k)
         /\ sent' = [sent EXCEPT ![r] = k]
         /\ todo' = [todo EXCEPT ![r] = @ \ {k}]
    /\ UNCHANGED <<stored, stage, batch, matching, language, mine, docs, error, failures>>

(* The statement for the row is over.                                      *)
Done(r, k) ==
    /\ sent' = [sent EXCEPT ![r] = NoRow]
    /\ todo' = [todo EXCEPT ![r] = @ \ {k}]

(* The key is new: the row belongs to the transaction.                     *)
Store(r) ==
    /\ \E k \in Flushed(r) :
         /\ Free(k) /\ k \notin stored
         /\ mine' = [mine EXCEPT ![r] = @ \cup {k}]
         /\ docs' = [docs EXCEPT ![r] = IF k.kind = "document" THEN @ \cup {k.of} ELSE @]
         /\ Done(r, k)
    /\ UNCHANGED <<stored, stage, batch, matching, language, error, failures>>

(* Mutants: comments are inserted without a savepoint; documents are       *)
(* inserted with one but the row of the other transaction is not taken.    *)
ProtectedPosts(k) == k.kind = "post"
ProtectedAll(k) == TRUE

(* Only posts and comments are inserted under a savepoint.                 *)
Protected(k) == k.kind \in {"post", "comment"}

(* Mutant: the whole transaction is rolled back, not the savepoint.        *)
AbsorbRollingBack(r) ==
    /\ \E k \in Flushed(r) : Free(k) /\ k \in stored /\ Protected(k) /\ Done(r, k)
    /\ mine' = [mine EXCEPT ![r] = {}]
    /\ UNCHANGED <<stored, stage, batch, matching, language, docs, error, failures>>

(* Another run has committed the row since the lookup: roll back to the    *)
(* savepoint and select its row.                                           *)
Absorb(r) ==
    /\ \E k \in Flushed(r) : Free(k) /\ k \in stored /\ Protected(k) /\ Done(r, k)
    /\ UNCHANGED <<stored, stage, batch, matching, language, mine, docs, error, failures>>

-----------------------------------------------------------------------------
(* The end of the run.                                                     *)

(* Mutants: the failed transaction stays open; the error is ignored.       *)
RollBackLeaking(r, e) ==
    /\ stage' = [stage EXCEPT ![r] = "failed"]
    /\ error' = [error EXCEPT ![r] = e]
    /\ sent' = [sent EXCEPT ![r] = NoRow] /\ todo' = [todo EXCEPT ![r] = {}]
    /\ UNCHANGED <<stored, batch, matching, language, mine, docs>>

(* except branch of run_query_pipeline.                                    *)
RollBack(r, e) ==
    /\ stage' = [stage EXCEPT ![r] = "failed"]
    /\ error' = [error EXCEPT ![r] = e]
    /\ sent' = [sent EXCEPT ![r] = NoRow] /\ todo' = [todo EXCEPT ![r] = {}]
    /\ mine' = [mine EXCEPT ![r] = {}] /\ docs' = [docs EXCEPT ![r] = {}]
    /\ batch' = [batch EXCEPT ![r] = {}] /\ matching' = [matching EXCEPT ![r] = {}]
    /\ UNCHANGED <<stored, language>>

ConflictIgnored(r) ==
    /\ \E k \in Flushed(r) : Free(k) /\ k \in stored /\ ~Protected(k)
    /\ UNCHANGED vars

(* The row of another run is there but the insert has no savepoint: the    *)
(* IntegrityError ends the run.                                            *)
Conflict(r) ==
    /\ \E k \in Flushed(r) : Free(k) /\ k \in stored /\ ~Protected(k) /\ RollBack(r, k)
    /\ UNCHANGED failures

(* Transactions that wait for each other: PostgreSQL ends one of them, and *)
(* that is no IntegrityError.                                              *)
Cycle(S) ==
    S # {} /\ \A q \in S : \E p \in S : Holds(p, sent[q]) /\ \E o \in S : Holds(q, sent[o])
Deadlock(r) ==
    /\ \E S \in SUBSET Runs : r \in S /\ Cycle(S)
    /\ RollBack(r, DeadlockDetected)
    /\ UNCHANGED failures

(* Anything else that fails or kills the pipeline.                         *)
Fail(r) ==
    /\ stage[r] \in Open
    /\ failures < MaxFailures /\ failures' = failures + 1
    /\ RollBack(r, NoRow)

(* The commit of a completed run publishes all its rows.                   *)
Commit(r) ==
    /\ stage[r] = "matched"
    /\ stored' = stored \cup mine[r]
    /\ stage' = [stage EXCEPT ![r] = "completed"]
    /\ mine' = [mine EXCEPT ![r] = {}]
    /\ UNCHANGED <<batch, matching, language, todo, sent, docs, error, failures>>

Step(r) ==
    \/ Collect(r) \/ NextStage(r) \/ Wait(r) \/ Store(r) \/ Absorb(r)
    \/ Conflict(r) \/ Deadlock(r) \/ Commit(r)

Next == \E r \in Runs : Step(r) \/ Fail(r)

Spec == Init /\ [][Next]_vars

(* Each pipeline runs until it is over.                                    *)
FairSpec == Spec /\ \A r \in Runs : WF_vars(Step(r))

-----------------------------------------------------------------------------
(* Types of the variables; a pipeline that is over holds no row and waits  *)
(* for none.                                                               *)
TypeOK ==
    /\ stored \subseteq Rows /\ failures \in 0..MaxFailures
    /\ stage \in [Runs -> Stage]
    /\ batch \in [Runs -> SUBSET Sources] /\ matching \in [Runs -> SUBSET Sources]
    /\ language \in [Runs -> Languages]
    /\ todo \in [Runs -> SUBSET Rows] /\ mine \in [Runs -> SUBSET Rows]
    /\ sent \in [Runs -> Rows \cup {NoRow}]
    /\ error \in [Runs -> Rows \cup {NoRow, DeadlockDetected}]
    /\ docs \in [Runs -> SUBSET Sources]
    /\ \A r \in Runs : stage[r] \notin Open => mine[r] = {} /\ todo[r] = {} /\ sent[r] = NoRow

(* A completed run has a committed document for every text it collected    *)
(* that matches the term and is in its language, whichever run stored it.  *)
CompletedHasDocuments ==
    \A r \in Runs : stage[r] = "completed" =>
        \A x \in matching[r] : LanguageOf[x] = language[r] =>
            x \in docs[r] /\ Document(x) \in stored

(* A committed document has its post or comment, with its subreddit and,   *)
(* for a comment, its post; no foreign key says so of documents.source_id, *)
(* and the rows may come from different runs.                              *)
DocumentsHaveSources ==
    \A x \in Sources :
        /\ Document(x) \in stored => Source(x) \in stored
        /\ Source(x) \in stored => Subreddit(SubredditOf[x]) \in stored
        /\ x \in Comments /\ Source(x) \in stored => Source(PostOf[x]) \in stored

(* A run fails on a row of another run only if that one has completed with *)
(* it and it is a subreddit or a document: posts and comments are absorbed *)
(* by their savepoints, and a refresh of the failed run finds the row.     *)
ConflictsAreCommitted ==
    \A r \in Runs : error[r] \in Rows =>
        /\ error[r].kind \in {"subreddit", "document"} /\ error[r] \in stored
        /\ \E q \in Runs \ {r} : stage[q] = "completed"

(* Every run ends although the pipelines wait for each other's rows.       *)
EveryPipelineEnds ==
    \A r \in Runs : stage[r] = "new" ~> stage[r] \in {"completed", "failed"}

(* Every document of a run is in the language the run asked for.           *)
DocumentsInLanguage ==
    \A r \in Runs : stage[r] = "completed" => \A x \in docs[r] : LanguageOf[x] = language[r]

=============================================================================
