----------------------------- MODULE Sentiment -----------------------------
(***************************************************************************)
(* The pipelines of several runs after the collection: matching, results   *)
(* (SentimentService.classify_documents), charts (AggregationService) and  *)
(* the one commit, next to each other.  Results of earlier runs are reused *)
(* for the same document and provider identity.  A provider may give any   *)
(* verdict or fail, and the worker may restart with another model; a run   *)
(* that is completed may be processed again by a pipeline it was requeued  *)
(* from.  Each run has one pipeline at a time, as RunLifecycle shows it    *)
(* while no worker is overtaken; of two that were, the case modelled is    *)
(* that one begins when the other has committed.                           *)
(***************************************************************************)
EXTENDS Aggregation, Providers

CONSTANTS
    Runs,
    LanguageOf,    \* language_filter of each run
    QueryOf,       \* the term of its query as typed
    Found,         \* the batches of documents each run may match
    Configured,    \* the identities the API may have given to the runs
    Models,        \* models the worker may be configured with
    Answers,       \* what OpenAI may answer
    XlmOutputs,    \* top label and probability XLM-RoBERTa may answer
    Concurrency,   \* sentiment_concurrency
    MaxRestarts    \* bound on the restarts, requeues and failures

Identity(name, version) == [name |-> name, version |-> version]
Identities == {f[r] : f \in Configured, r \in Runs} \cup {Identity("openai", m) : m \in Models}

ASSUME SentimentAssumption ==
    /\ QueryOf \in [Runs -> Seq(STRING)]
    /\ Found \in [Runs -> SUBSET SUBSET Docs]
    /\ Configured \subseteq [Runs -> [name : {"mock", "xlm_roberta", "openai"}, version : STRING]]
    /\ \A v \in Answers : v.score \in Int /\ v.evidence \in Seq(Seq(STRING))
    /\ Concurrency \in Nat \ {0} /\ MaxRestarts \in Nat

Result(by, v) == [by |-> by, verdict |-> v]

(* The state of a classification.                                          *)
State(s) == [state |-> s]
Answered(v) == [state |-> "answered", verdict |-> v]

VARIABLES
    identity,  \* sentiment_provider_name and _version of each run
    model,     \* llm_model of the worker
    stage,     \* where the pipeline of each run is
    docs,      \* the documents it has matched
    call,      \* the classification of each pending document
    mine,      \* the results its transaction has added
    matches,   \* committed: query_document_matches of each run
    results,   \* committed: sentiment_results of each run
    charts,    \* committed: the aggregates of each run
    given,     \* the verdicts providers have given, to transactions not rolled back
    failures,  \* the documents whose call failed in a pipeline that has committed
    restarts

vars == <<identity, model, stage, docs, call, mine, matches, results, charts, given, failures,
          restarts>>
stored == <<matches, results, charts>>

Stage == {"pending", "matched", "classifying", "completed", "failed"}
None == <<>>

Init ==
    /\ identity \in Configured /\ model \in Models
    /\ stage = [r \in Runs |-> "pending"]
    /\ docs = [r \in Runs |-> {}]
    /\ call = [r \in Runs |-> None] /\ mine = [r \in Runs |-> None]
    /\ matches = [r \in Runs |-> {}] /\ results = [r \in Runs |-> None]
    /\ charts = [r \in Runs |-> NoCharts]
    /\ given = {} /\ failures = [r \in Runs |-> {}]
    /\ restarts = 0

-----------------------------------------------------------------------------
(* Classification.                                                         *)

(* What is collected, kept and matched (Collector, CollectionPersistence). *)
Match(r) ==
    /\ stage[r] = "pending"
    /\ \E B \in Found[r] : docs' = [docs EXCEPT ![r] = B]
    /\ stage' = [stage EXCEPT ![r] = "matched"]
    /\ UNCHANGED <<identity, model, call, mine, stored, given, failures, restarts>>

(* Committed results of a document by the run's provider.  The newest is   *)
(* taken by the time it was flushed, which no other step depends on: any.  *)
Reusable(r, d) ==
    {results[q][d] : q \in {p \in Runs : d \in DOMAIN results[p]
                                         /\ results[p][d].by = identity[r]}}

(* Mutant: results the run has already are not looked up.                  *)
LookUpEverything(r) ==
    LET reused == {d \in docs[r] : Reusable(r, d) # {}}
    IN  /\ stage[r] = "matched"
        /\ \E f \in [reused -> UNION {Reusable(r, d) : d \in reused}] :
             /\ \A d \in reused : f[d] \in Reusable(r, d)
             /\ mine' = [mine EXCEPT ![r] = f]
        /\ call' = [call EXCEPT ![r] = [d \in docs[r] \ reused |-> State("waiting")]]
        /\ stage' = [stage EXCEPT ![r] = "classifying"]
        /\ UNCHANGED <<identity, model, docs, stored, given, failures, restarts>>

(* The lookups of classify_documents: results the run has already, results *)
(* to reuse, in whatever language the run that has them was classified,    *)
(* and the documents to classify.                                          *)
LookUp(r) ==
    LET new == docs[r] \ DOMAIN results[r]
        reused == {d \in new : Reusable(r, d) # {}}
    IN  /\ stage[r] = "matched"
        /\ \E f \in [reused -> UNION {Reusable(r, d) : d \in reused}] :
             /\ \A d \in reused : f[d] \in Reusable(r, d)
             /\ mine' = [mine EXCEPT ![r] = f]
        /\ call' = [call EXCEPT ![r] = [d \in new \ reused |-> State("waiting")]]
        /\ stage' = [stage EXCEPT ![r] = "classifying"]
        /\ UNCHANGED <<identity, model, docs, stored, given, failures, restarts>>

InState(r, s) == {d \in DOMAIN call[r] : call[r][d].state = s}

(* classify_one, with the semaphore of the run; the waiters are served in  *)
(* the order of the documents, which are numbers here.                     *)
Call(r, d) ==
    /\ d \in InState(r, "waiting") /\ Cardinality(InState(r, "calling")) < Concurrency
    /\ \A e \in InState(r, "waiting") : d <= e
    /\ call' = [call EXCEPT ![r][d] = State("calling")]
    /\ UNCHANGED <<identity, model, stage, docs, mine, stored, given, failures, restarts>>

(* The provider is chosen by the name of the run but configured by the     *)
(* settings of the worker, and reports the identity it has; the versions   *)
(* of the other two providers are constants of the code, which stays.      *)
Reported(r) == IF identity[r].name = "openai" THEN Identity("openai", model) ELSE identity[r]

Verdicts(r, d) ==
    CASE identity[r].name = "mock" -> {MockVerdict(TextOf[d], LanguageOf[r])}
      [] identity[r].name = "xlm_roberta" -> {XlmVerdict(x[1], x[2]) : x \in XlmOutputs}
      [] identity[r].name = "openai" -> Answers

(* The provider answers, OpenAI after up to five attempts, or raises.      *)
Predict(r, d) ==
    /\ d \in InState(r, "calling")
    /\ \E v \in Verdicts(r, d) :
         /\ call' = [call EXCEPT ![r][d] = Answered(v)]
         /\ given' = given \cup {<<d, Reported(r), v>>}
    /\ UNCHANGED <<identity, model, stage, docs, mine, stored, failures, restarts>>

PredictionFails(r, d) ==
    /\ d \in InState(r, "calling") /\ identity[r].name # "mock"
    /\ call' = [call EXCEPT ![r][d] = State("failed")]
    /\ UNCHANGED <<identity, model, stage, docs, mine, stored, given, failures, restarts>>

-----------------------------------------------------------------------------
(* Results and charts.                                                     *)

(* Mutant: the identity of the service is stored.                          *)
PersistedAsRun(r) ==
    [d \in InState(r, "answered") |-> Result(identity[r], call[r][d].verdict)]

(* _persist_prediction, for the documents whose call did not fail.         *)
Persisted(r) ==
    [d \in InState(r, "answered") |-> Result(Reported(r), call[r][d].verdict)]

(* Every result the transaction of the run sees, by run and document.      *)
Visible(r, own) == [q \in Runs |-> IF q = r THEN own ELSE results[q]]

(* Mutant: the results of any run are joined.                              *)
JoinAnyRun(r, found, own) ==
    UNION {{[run |-> q, doc |-> d, label |-> Visible(r, own)[q][d].verdict.label,
             score |-> Visible(r, own)[q][d].verdict.score,
             low |-> Visible(r, own)[q][d].verdict.low,
             evidence |-> Evidence(Visible(r, own)[q][d].verdict.evidence, TextOf[d])] :
               d \in found \cap DOMAIN Visible(r, own)[q]} : q \in Runs}

(* The join of build: matched documents with a result of this run.         *)
Join(r, found, own) ==
    {[run |-> r, doc |-> d, label |-> own[d].verdict.label, score |-> own[d].verdict.score,
      low |-> own[d].verdict.low, evidence |-> Evidence(own[d].verdict.evidence, TextOf[d])] :
        d \in found \cap DOMAIN own}

ContextOf(r) == Context(QueryOf[r], LanguageOf[r])

(* All calls are over: store the predictions, build and replace the        *)
(* charts, complete the run, and commit.                                   *)
Publish(r) ==
    /\ stage[r] = "classifying" /\ InState(r, "waiting") \cup InState(r, "calling") = {}
    /\ LET own == [d \in DOMAIN results[r] \cup DOMAIN mine[r] \cup DOMAIN Persisted(r) |->
                      IF d \in DOMAIN results[r] THEN results[r][d]
                      ELSE IF d \in DOMAIN mine[r] THEN mine[r][d] ELSE Persisted(r)[d]]
           found == matches[r] \cup docs[r]
       IN  /\ matches' = [matches EXCEPT ![r] = found]
           /\ results' = [results EXCEPT ![r] = own]
           /\ charts' = [charts EXCEPT ![r] = Build(Join(r, found, own), ContextOf(r))]
    /\ failures' = [failures EXCEPT ![r] = @ \cup InState(r, "failed")]
    /\ stage' = [stage EXCEPT ![r] = "completed"]
    /\ call' = [call EXCEPT ![r] = None] /\ mine' = [mine EXCEPT ![r] = None]
    /\ docs' = [docs EXCEPT ![r] = {}]
    /\ UNCHANGED <<identity, model, given, restarts>>

(* The transactions of the runs in S are rolled back; the verdicts given   *)
(* to them no longer count.                                                *)
RollBack(S) ==
    LET Cleared(f, empty) == [r \in Runs |-> IF r \in S THEN empty ELSE f[r]]
        committed == UNION {{<<d, results[r][d].by, results[r][d].verdict>> :
                               d \in DOMAIN results[r]} : r \in Runs}
        pending == UNION {{<<d, Reported(r), call[r][d].verdict>> : d \in InState(r, "answered")} :
                          r \in Runs \ S}
    IN  /\ restarts < MaxRestarts /\ restarts' = restarts + 1
        /\ docs' = Cleared(docs, {}) /\ call' = Cleared(call, None) /\ mine' = Cleared(mine, None)
        /\ given' = given \cap (committed \cup pending)
        /\ UNCHANGED <<identity, stored, failures>>

(* The worker restarts, maybe with another model, and the runs are         *)
(* requeued.                                                               *)
IsOver(r) == stage[r] \in {"completed", "failed"}
Restart ==
    /\ RollBack({r \in Runs : ~IsOver(r)})
    /\ model' \in Models
    /\ stage' = [r \in Runs |-> IF IsOver(r) THEN stage[r] ELSE "pending"]

(* except branch of run_query_pipeline: anything but a call fails.         *)
Fail(r) ==
    /\ ~IsOver(r) /\ RollBack({r})
    /\ stage' = [stage EXCEPT ![r] = "failed"]
    /\ UNCHANGED model

(* A pipeline that has lost its run to another one begins after that one   *)
(* has committed.                                                          *)
ProcessAgain(r) ==
    /\ stage[r] = "completed"
    /\ restarts < MaxRestarts /\ restarts' = restarts + 1
    /\ stage' = [stage EXCEPT ![r] = "pending"]
    /\ UNCHANGED <<identity, model, docs, call, mine, stored, given, failures>>

Step(r) ==
    \/ Match(r) \/ LookUp(r) \/ Publish(r)
    \/ \E d \in DOMAIN call[r] : Call(r, d) \/ Predict(r, d) \/ PredictionFails(r, d)

Next == Restart \/ \E r \in Runs : Step(r) \/ Fail(r) \/ ProcessAgain(r)

Spec == Init /\ [][Next]_vars

-----------------------------------------------------------------------------
(* The API: get_run_documents.                                             *)

(* The documents of a run and their results, if they have one.             *)
Labelled(r) == matches[r] \cap DOMAIN results[r]
Given(r, d) == results[r][d].verdict
With(r, P(_, _)) == Quantify(Labelled(r), LAMBDA d : P(d, Given(r, d)))

-----------------------------------------------------------------------------
(* What a provider may have given of a document, in the language of any    *)
(* run that it was chosen for.                                             *)
Possible(by, d) == UNION {Verdicts(q, d) : q \in {p \in Runs : identity[p].name = by.name}}

(* Types of the variables: an answer is one that the provider of the run   *)
(* gives in the language of the run, a result one that the provider it     *)
(* names gives in that of some run, for results are reused whatever the    *)
(* language (_get_reusable_results); and a document of a pipeline is       *)
(* pending or has a result, and only pending ones are classified.          *)
TypeOK ==
    /\ identity \in [Runs -> Identities] /\ model \in Models
    /\ stage \in [Runs -> Stage] /\ restarts \in 0..MaxRestarts
    /\ \A r \in Runs :
         /\ docs[r] \subseteq Docs /\ matches[r] \subseteq Docs /\ failures[r] \subseteq Docs
         /\ \A d \in DOMAIN call[r] :
              call[r][d] \in {State(s) : s \in {"waiting", "calling", "failed"}}
                             \cup {Answered(v) : v \in Verdicts(r, d)}
         /\ \A d \in DOMAIN mine[r] :
              mine[r][d].by = identity[r] /\ mine[r][d].verdict \in Possible(mine[r][d].by, d)
         /\ \A d \in DOMAIN results[r] :
              /\ results[r][d].by \in Identities
              /\ results[r][d].verdict \in Possible(results[r][d].by, d)
         /\ stage[r] = "classifying" =>
              DOMAIN call[r] \cup DOMAIN mine[r] = docs[r] \ DOMAIN results[r]
    /\ \A g \in given : g[1] \in Docs /\ g[2] \in Identities

(* Every stored result, however often it was reused, is a verdict that the *)
(* provider it names gave for that very document; and a document of a      *)
(* completed run has one unless its call failed in one of its pipelines    *)
(* (_persist_prediction, _persist_reused_result, classify_documents).      *)
VerdictsAreAttributed ==
    \A r \in Runs :
        /\ \A d \in DOMAIN results[r] : <<d, results[r][d].by, results[r][d].verdict>> \in given
        /\ matches[r] \ Labelled(r) \subseteq failures[r]

(* The charts of a run agree with the documents the API lists for it, at   *)
(* all times: the totals per label, day, subreddit and confidence count    *)
(* its labelled documents, and a term has no stop word and no word of the  *)
(* query, but words of a document of its label, or fragments of them: what *)
(* OpenAI quotes need only be a substring (build, get_run_documents,       *)
(* _normalize_evidence_phrases).                                           *)
ChartsMatchDocuments ==
    \A r \in Runs : charts[r] # NoCharts =>
        LET c == charts[r] IN
        /\ c.total = Cardinality(Labelled(r)) /\ c.low + c.high = c.total
        /\ c.low = With(r, LAMBDA d, v : v.low)
        /\ \A l \in DOMAIN c.distribution :
             c.distribution[l] = With(r, LAMBDA d, v : v.label = l)
        /\ MapThenSumSet(LAMBDA l : c.distribution[l], DOMAIN c.distribution) = c.total
        /\ \A x \in DOMAIN c.subreddits :
             c.subreddits[x] = With(r, LAMBDA d, v : SubredditOf[d] = x[1] /\ v.label = x[2])
        /\ \A x \in DOMAIN c.heatmap :
             c.heatmap[x] = With(r, LAMBDA d, v : DayOf[d] = x[1] /\ SubredditOf[d] = x[2])
        /\ MapThenSumSet(LAMBDA x : c.heatmap[x], DOMAIN c.heatmap) = c.total
        /\ \A l \in DOMAIN c.phrases : \A i \in DOMAIN c.phrases[l] :
             \A k \in DOMAIN c.phrases[l][i] :
               /\ c.phrases[l][i][k] \notin ContextOf(r).stop \cup ContextOf(r).excluded
               /\ \E d \in Labelled(r) :
                    /\ Given(r, d).label = l
                    /\ \E word \in ToSet(TextOf[d]) : IsPart(c.phrases[l][i][k], word)

(* The days of a run that have documents, and their averages.              *)
Shown(r) == {DayOf[d] : d \in Labelled(r)}
DocsOfDay(r, day) == {d \in Labelled(r) : DayOf[d] = day}
CountOf(r, day) == Cardinality(DocsOfDay(r, day))
AverageOf(r, day) ==
    Fraction(SumFunction([d \in DocsOfDay(r, day) |-> Given(r, d).score]), CountOf(r, day))

(* The last days up to a day, as many as the window holds.                 *)
Window(r, day) ==
    {e \in Shown(r) : e <= day
                      /\ Quantify(Shown(r), LAMBDA x : e < x /\ x <= day) < RollingWindow}

Busy(r, day) ==
    /\ CountOf(r, day) >= 2
    /\ Cardinality(Shown(r)) * (CountOf(r, day) - 1) >= Cardinality(Labelled(r))
Earlier(r, day) == {e \in Shown(r) : e < day}
Jumps(r, day) ==
    LET gap == Minus(AverageOf(r, day), AverageOf(r, Max(Earlier(r, day))))
    IN  /\ Earlier(r, day) # {}
        /\ 4 * gap.num >= 3 * gap.den \/ 4 * gap.num <= -3 * gap.den
SpikesOf(r) == {day \in Shown(r) : Busy(r, day) \/ Jumps(r, day)}

(* The rolling average of a day is the mean of the last averages, as many  *)
(* as the window holds; a spike is a day of many documents or one whose    *)
(* average jumped since the last day that has any, and the first of them   *)
(* are kept (_build_rolling_timeline, _build_spike_events).                *)
SpikesAreJumps ==
    \A r \in Runs : charts[r] # NoCharts =>
        LET rolling == charts[r].rolling IN
        /\ ToSet(charts[r].spikes) =
             {day \in SpikesOf(r) : Quantify(SpikesOf(r), LAMBDA e : e < day) < MaxSpikes}
        /\ {rolling[i].date : i \in DOMAIN rolling} = Shown(r)
        /\ \A i \in DOMAIN rolling :
             LET last == Window(r, rolling[i].date) IN
             Equal(rolling[i].average,
                   Over(FoldFunction(Plus, Fraction(0, 1), [e \in last |-> AverageOf(r, e)]),
                        Cardinality(last)))

=============================================================================
