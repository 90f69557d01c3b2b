------------------------------ MODULE QueryApi ------------------------------
(***************************************************************************)
(* POST /queries and POST /query-runs/{id}/refresh (api/routes/            *)
(* query_routes.py) handled concurrently against the workers of            *)
(* RunContract.  A handler finds or creates the query of a term, answers   *)
(* with a completed fresh run when one fits, and creates a pending run     *)
(* otherwise.  Its session commits after the response is sent.             *)
(* A query and a run are named after the request that created them.        *)
(***************************************************************************)
EXTENDS Naturals

CONSTANTS
    Requests,    \* HTTP requests; each is handled once
    RawTerms,    \* terms as typed
    Terms,       \* normalized terms
    NormalTerm,  \* normalize_term
    RawScopes,   \* subreddits and content language as sent
    Scopes,      \* the same, normalized
    NormalScope, \* build_scope_config and normalize_content_language
    Providers,   \* identities of the sentiment providers (name and version)
    Ttl,         \* how long a completed run is fresh
    MaxClock,    \* bound on the clock
    MaxAborts,   \* bound on the failed transactions and restarts of the API
    Overtaken    \* the runs whose row a worker may write after it has lost the run

ASSUME ConstantsAssumption ==
    /\ NormalTerm \in [RawTerms -> Terms]
    /\ NormalScope \in [RawScopes -> Scopes]
    /\ Ttl \in Nat /\ MaxClock \in Nat /\ MaxAborts \in Nat /\ Overtaken \subseteq Requests
    /\ "none" \notin Requests \cup Terms \cup Scopes \cup Providers

VARIABLES
    owner,    \* the committed query of each normalized term (unique constraint)
    status, visible,  \* the runs, as RunContract has them
    column,   \* the other columns of each run
    clock, provider,  \* the time, and sentiment_provider_identity(settings)
    pc,       \* where each handler is
    want,     \* the normalized term and scope of each request
    query,    \* the query a handler has found or inserted
    answer,   \* the run its response names
    aborts    \* failed transactions so far

vars == <<owner, status, visible, column, clock, provider, pc, want, query, answer, aborts>>
runVars == <<status, visible, column>>

Runs == Requests
Workers == INSTANCE RunContract

Stage == {"new", "inserting", "looking", "creating", "answered", "done", "rejected", "aborted"}
InTransaction(r) == pc[r] \in {"inserting", "looking", "creating", "answered"}

Nothing == [term |-> "none", scope |-> "none"]
NoRun == [query |-> "none", scope |-> "none", provider |-> "none", started |-> 0, fresh |-> 0]

Init ==
    /\ owner = [t \in Terms |-> "none"]
    /\ Workers!Init
    /\ column = [r \in Requests |-> NoRun]
    /\ clock = 1 /\ provider \in Providers
    /\ pc = [r \in Requests |-> "new"]
    /\ want = [r \in Requests |-> Nothing]
    /\ query = [r \in Requests |-> "none"]
    /\ answer = [r \in Requests |-> "none"]
    /\ aborts = 0

-----------------------------------------------------------------------------
(* Handlers.                                                               *)

(* Mutant: the scope is not normalized.                                    *)
PostRawScope(r) ==
    /\ pc[r] = "new"
    /\ \E t \in RawTerms, s \in RawScopes :
         /\ want' = [want EXCEPT ![r] = [term |-> NormalTerm[t], scope |-> s]]
         /\ query' = [query EXCEPT ![r] = owner[NormalTerm[t]]]
         /\ pc' = [pc EXCEPT ![r] =
                     IF owner[NormalTerm[t]] = "none" THEN "inserting" ELSE "looking"]
    /\ UNCHANGED <<owner, runVars, clock, provider, answer, aborts>>

(* get_or_create_query, first part: select the query of the term.          *)
Post(r) ==
    /\ pc[r] = "new"
    /\ \E t \in RawTerms, s \in RawScopes :
         /\ want' = [want EXCEPT ![r] = [term |-> NormalTerm[t], scope |-> NormalScope[s]]]
         /\ query' = [query EXCEPT ![r] = owner[NormalTerm[t]]]
         /\ pc' = [pc EXCEPT ![r] =
                     IF owner[NormalTerm[t]] = "none" THEN "inserting" ELSE "looking"]
    /\ UNCHANGED <<owner, runVars, clock, provider, answer, aborts>>

(* Mutant: the session of a finished handler is never closed.              *)
HoldsForEver(r, t) == pc[r] # "new" /\ query[r] = r /\ want[r].term = t

(* An uncommitted insert of the same key by another transaction.           *)
Holds(r, t) == InTransaction(r) /\ query[r] = r /\ want[r].term = t
KeyIsFree(r) == \A q \in Requests \ {r} : ~Holds(q, want[r].term)

(* Second part: insert it under a savepoint, waiting for a transaction     *)
(* that has inserted the same key; if that one commits, roll back to the   *)
(* savepoint and select its row.                                           *)
InsertQuery(r) ==
    /\ pc[r] = "inserting" /\ KeyIsFree(r)
    /\ query' = [query EXCEPT ![r] =
                   IF owner[want[r].term] = "none" THEN r ELSE owner[want[r].term]]
    /\ pc' = [pc EXCEPT ![r] = "looking"]
    /\ UNCHANGED <<owner, runVars, clock, provider, want, answer, aborts>>

(* Mutants: another scope or language is good enough; a run that is not    *)
(* over is good enough.                                                    *)
FitsUnscoped(a, r) ==
    /\ column[a].query = query[r]
    /\ status[a] = "completed"
    /\ column[a].provider = provider
    /\ column[a].fresh >= clock

FitsAnyStatus(a, r) ==
    /\ column[a].query = query[r]
    /\ status[a] # "absent"
    /\ column[a].scope = want[r].scope
    /\ column[a].provider = provider

(* get_fresh_run: the committed runs that may be reused.                   *)
Fits(a, r) ==
    /\ column[a].query = query[r]
    /\ status[a] = "completed"
    /\ column[a].scope = want[r].scope
    /\ column[a].provider = provider
    /\ column[a].fresh >= clock

(* The newest one is the answer; the transaction has nothing to write but  *)
(* ends after the response like any other.                                 *)
AnswerCached(r) ==
    /\ pc[r] = "looking"
    /\ \E a \in Requests :
         /\ Fits(a, r)
         /\ \A b \in Requests : Fits(b, r) => column[b].started <= column[a].started
         /\ answer' = [answer EXCEPT ![r] = a]
    /\ pc' = [pc EXCEPT ![r] = "answered"]
    /\ UNCHANGED <<owner, runVars, clock, provider, want, query, aborts>>

FindNone(r) ==
    /\ pc[r] = "looking"
    /\ ~\E a \in Requests : Fits(a, r)
    /\ pc' = [pc EXCEPT ![r] = "creating"]
    /\ UNCHANGED <<owner, runVars, clock, provider, want, query, answer, aborts>>

(* refresh_query_run reads the run and its query, or answers 404.          *)
Refresh(r) ==
    /\ pc[r] = "new"
    /\ \E q \in Requests : LET a == answer[q] IN
         /\ a # "none"
         /\ IF status[a] = "absent"
            THEN pc' = [pc EXCEPT ![r] = "rejected"] /\ UNCHANGED <<want, query>>
            ELSE /\ want' = [want EXCEPT ![r] = [term |-> want[column[a].query].term,
                                                 scope |-> column[a].scope]]
                 /\ query' = [query EXCEPT ![r] = column[a].query]
                 /\ pc' = [pc EXCEPT ![r] = "creating"]
    /\ UNCHANGED <<owner, runVars, clock, provider, answer, aborts>>

(* create_run: the run belongs to the session until Commit.                *)
CreateRun(r) ==
    /\ pc[r] = "creating"
    /\ column' = [column EXCEPT ![r] =
                    [query |-> query[r], scope |-> want[r].scope, provider |-> provider,
                     started |-> clock, fresh |-> 0]]
    /\ answer' = [answer EXCEPT ![r] = r]
    /\ pc' = [pc EXCEPT ![r] = "answered"]
    /\ UNCHANGED <<owner, status, visible, clock, provider, want, query, aborts>>

(* Mutants: the query is not committed with the run; nothing is.           *)
CommitNothing(r) ==
    /\ pc[r] = "answered"
    /\ pc' = [pc EXCEPT ![r] = "done"]
    /\ UNCHANGED <<owner, runVars, clock, provider, want, query, answer, aborts>>

CommitRunOnly(r) ==
    /\ pc[r] = "answered"
    /\ IF answer[r] = r THEN Workers!Submit(r) ELSE UNCHANGED <<status, visible>>
    /\ pc' = [pc EXCEPT ![r] = "done"]
    /\ UNCHANGED <<owner, column, clock, provider, want, query, answer, aborts>>

(* get_db_session commits after the response; the query and the run of the *)
(* handler become visible together.                                        *)
Commit(r) ==
    /\ pc[r] = "answered"
    /\ IF query[r] = r THEN owner' = [owner EXCEPT ![want[r].term] = r] ELSE UNCHANGED owner
    /\ IF answer[r] = r THEN Workers!Submit(r) ELSE UNCHANGED <<status, visible>>
    /\ pc' = [pc EXCEPT ![r] = "done"]
    /\ UNCHANGED <<column, clock, provider, want, query, answer, aborts>>

(* A statement or the commit fails: the session rolls back.                *)
Abort(r) ==
    /\ InTransaction(r)
    /\ aborts < MaxAborts /\ aborts' = aborts + 1
    /\ pc' = [pc EXCEPT ![r] = "aborted"]
    /\ UNCHANGED <<owner, runVars, clock, provider, want, query, answer>>

(* The API restarts, possibly with another sentiment provider.             *)
Restart ==
    /\ aborts < MaxAborts /\ aborts' = aborts + 1
    /\ provider' \in Providers
    /\ pc' = [r \in Requests |-> IF InTransaction(r) THEN "aborted" ELSE pc[r]]
    /\ UNCHANGED <<owner, runVars, clock, want, query, answer>>

-----------------------------------------------------------------------------
(* Workers and time.                                                       *)

(* The steps RunContract allows, with the columns the workers set.  The    *)
(* pipeline marks a run it has loaded as running once more, which writes   *)
(* started_at alone.  With Overtaken the steps of a worker that overran    *)
(* the stale threshold, and of a recovery that lost a race, are included:  *)
(* they take a completed run to running, pending or failed.                *)
Work ==
    /\ \/ \E r \in Runs : \/ /\ Workers!Take(r)
                             /\ column' = [column EXCEPT ![r].started = clock]
                          \/ /\ Workers!Writable(r) /\ UNCHANGED <<status, visible>>
                             /\ column' = [column EXCEPT ![r].started = clock]
                          \/ /\ Workers!Publish(r)
                             /\ column' = [column EXCEPT ![r].fresh = clock + Ttl]
                          \/ Workers!GiveUp(r) /\ UNCHANGED column
       \/ \E S \in SUBSET Runs : Workers!GiveBack(S) /\ UNCHANGED column
    /\ UNCHANGED <<owner, clock, provider, pc, want, query, answer, aborts>>

Tick ==
    /\ clock < MaxClock /\ clock' = clock + 1
    /\ UNCHANGED <<owner, runVars, provider, pc, want, query, answer, aborts>>

Handle(r) ==
    \/ InsertQuery(r) \/ AnswerCached(r) \/ FindNone(r) \/ CreateRun(r) \/ Commit(r)

Next ==
    \/ \E r \in Requests : Post(r) \/ Refresh(r) \/ Handle(r) \/ Abort(r)
    \/ Restart \/ Work \/ Tick

Spec == Init /\ [][Next]_vars

(* The event loop runs every handler that is not waiting for the database. *)
FairSpec == Spec /\ \A r \in Requests : WF_vars(Handle(r))

-----------------------------------------------------------------------------
(* Types of the variables.                                                 *)
TypeOK ==
    LET Ids == Requests \cup {"none"} IN
    /\ owner \in [Terms -> Ids]
    /\ status \in [Requests -> {"absent", "pending", "running", "completed", "failed"}]
    /\ visible \subseteq Requests
    /\ column \in [Requests -> [query : Ids, scope : Scopes \cup {"none"},
                                provider : Providers \cup {"none"},
                                started : Nat, fresh : Nat]]
    /\ clock \in Nat \ {0} /\ provider \in Providers /\ aborts \in 0..MaxAborts
    /\ pc \in [Requests -> Stage]
    /\ want \in [Requests -> [term : Terms \cup {"none"}, scope : Scopes \cup {"none"}]]
    /\ query \in [Requests -> Ids] /\ answer \in [Requests -> Ids]

(* Every run belongs to the one query of its term, however many handlers   *)
(* created that query at once (get_or_create_query, the unique constraint  *)
(* on normalized_term and the foreign key of query_runs).                  *)
RunsShareQuery ==
    \A r \in Runs : status[r] # "absent" =>
        column[r].query # "none" /\ owner[want[r].term] = column[r].query

(* A response names a run of the term, subreddits and content language its *)
(* request asked for and of the provider the API is configured with,       *)
(* created for it or reused (create_query, refresh_query_run).             *)
AnswerFits ==
    \A r \in Requests : answer[r] # "none" =>
        /\ column[answer[r]].scope = want[r].scope
        /\ want[column[answer[r]].query].term = want[r].term
        /\ pc[r] = "answered" => column[answer[r]].provider = provider

(* A run answered from the cache was completed, and its results stay       *)
(* published: even a worker that takes the row back later deletes none of  *)
(* them without committing others (is_cached; get_fresh_run against the    *)
(* mark_* methods).  It also stays completed when no worker is overtaken,  *)
(* which the code ensures only as long as runs end below the threshold and *)
(* workers start one at a time.                                            *)
CachedIsPublished ==
    \A r \in Requests : answer[r] \notin {r, "none"} =>
        /\ answer[r] \in visible
        /\ status[answer[r]] # "completed" => answer[r] \in Overtaken

(* A response is sent before the commit, but the run it names is missing   *)
(* only while its handler has not finished, or when its transaction failed *)
(* (get_db_session): a client that polls it finds it in the end.           *)
MissingIsUnfinished ==
    \A r \in Requests :
        answer[r] # "none" /\ status[answer[r]] = "absent" => pc[r] \in {"answered", "aborted"}

(* Every request ends: no handler waits for ever for the query another one *)
(* has inserted.                                                           *)
EveryRequestEnds ==
    \A r \in Requests : InTransaction(r) ~> pc[r] \in {"done", "aborted"}

=============================================================================
