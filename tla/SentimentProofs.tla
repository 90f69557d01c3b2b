-------------------------- MODULE SentimentProofs --------------------------
(***************************************************************************)
(* Proofs about Sentiment, for any runs, documents, providers and answers, *)
(* any model the worker may be configured with, and any number of restarts *)
(* and failures.                                                           *)
(*                                                                         *)
(* That a stored result is the verdict of the provider it names needs the  *)
(* same of what is not stored yet: a reused result is a committed one of   *)
(* some run, and a fresh one was given by the provider the worker has now, *)
(* for it cannot be configured anew while a pipeline works.                *)
(*                                                                         *)
(* That the charts agree with the documents is an argument about what the  *)
(* service computes: the join has one row for each labelled document, each *)
(* counter counts the rows with its key, and a term has words of its own   *)
(* document or fragments of them, none of which the query has: evidence is *)
(* looked for in the text letter by letter, so that a phrase may begin and *)
(* end within words.  The loops over the days carry a                      *)
(* window and the average before: after the i-th day these are the last    *)
(* averages and that of the day before, so that a mean or a spike is what  *)
(* a definition without the loop says; sums of scores and of fractions do  *)
(* not depend on the order.                                                *)
(***************************************************************************)
EXTENDS Sentiment, SelectionsProofs, FiniteSetTheorems, TLAPS

States == {"waiting", "calling", "answered", "failed"}

(* What the variables are, as far as the proof needs it.                   *)
Types ==
    /\ stage \in [Runs -> Stage]
    /\ docs \in [Runs -> SUBSET Docs]
    /\ matches \in [Runs -> SUBSET Docs] /\ failures \in [Runs -> SUBSET Docs]
    /\ call = [r \in Runs |-> call[r]]
    /\ mine = [r \in Runs |-> mine[r]]
    /\ results = [r \in Runs |-> results[r]]
    /\ \A r \in Runs :
         /\ call[r] = [d \in DOMAIN call[r] |-> call[r][d]] /\ DOMAIN call[r] \subseteq Docs
         /\ \A d \in DOMAIN call[r] : call[r][d].state \in States

(* Only a pipeline that classifies has calls and results of its own, and   *)
(* then every document has a result or a call.                             *)
Pipelines ==
    \A r \in Runs :
        /\ stage[r] # "classifying" => DOMAIN call[r] = {} /\ DOMAIN mine[r] = {}
        /\ stage[r] = "classifying" =>
             docs[r] \subseteq DOMAIN results[r] \cup DOMAIN mine[r] \cup DOMAIN call[r]

(* Reused results are committed ones, fresh ones are of this provider.     *)
Sources ==
    \A r \in Runs :
        /\ \A d \in DOMAIN mine[r] :
             \E q \in Runs : d \in DOMAIN results[q] /\ results[q][d] = mine[r][d]
        /\ \A d \in InState(r, "answered") :
             <<d, Reported(r), call[r][d].verdict>> \in given

(* What VerdictsAreAttributed says.                                        *)
Attributed ==
    \A r \in Runs : \A d \in DOMAIN results[r] :
        <<d, results[r][d].by, results[r][d].verdict>> \in given
Complete == \A r \in Runs : matches[r] \subseteq DOMAIN results[r] \cup failures[r]

IInv == Types /\ Pipelines /\ Sources /\ Attributed /\ Complete

-----------------------------------------------------------------------------
(* One call changes its state.                                             *)
LEMMA Calling ==
  ASSUME Types, NEW r \in Runs, NEW d \in DOMAIN call[r], NEW x, x.state \in States,
         call' = [call EXCEPT ![r][d] = x]
  PROVE  /\ call' = [q \in Runs |-> call'[q]]
         /\ \A q \in Runs : DOMAIN call'[q] = DOMAIN call[q]
         /\ \A q \in Runs : call'[q] = [e \in DOMAIN call'[q] |-> call'[q][e]]
         /\ call'[r][d] = x
         /\ \A q \in Runs : \A e \in DOMAIN call[q] :
              q # r \/ e # d => call'[q][e] = call[q][e]
  BY DEF Types

(* A step of a call keeps the invariant if its new state may be.           *)
LEMMA CallStep ==
  ASSUME IInv, NEW r \in Runs, NEW d \in DOMAIN call[r], NEW x, x.state \in States,
         call' = [call EXCEPT ![r][d] = x],
         given \subseteq given',
         x.state = "answered" => <<d, Reported(r), x.verdict>> \in given',
         UNCHANGED <<identity, model, stage, docs, mine, stored, failures>>
  PROVE  IInv'
  <1> USE DEF IInv, stored
  <1>1. /\ call' = [q \in Runs |-> call'[q]]
        /\ \A q \in Runs : DOMAIN call'[q] = DOMAIN call[q]
        /\ \A q \in Runs : call'[q] = [e \in DOMAIN call'[q] |-> call'[q][e]]
        /\ call'[r][d] = x
        /\ \A q \in Runs : \A e \in DOMAIN call[q] :
             q # r \/ e # d => call'[q][e] = call[q][e]
    BY Calling
  <1>2. Types'
    BY <1>1 DEF Types
  <1>3. Pipelines'
    BY <1>1 DEF Pipelines
  <1>4. Sources'
    <2>1. \A q \in Runs : Reported(q)' = Reported(q)
      BY DEF Reported
    <2>2. ASSUME NEW q \in Runs, NEW e \in InState(q, "answered")'
          PROVE  <<e, Reported(q)', call'[q][e].verdict>> \in given'
      BY <1>1, <2>1, <2>2 DEF Sources, InState
    <2>3. QED
      BY <2>2 DEF Sources
  <1>5. Attributed' /\ Complete'
    BY DEF Attributed, Complete
  <1>6. QED
    BY <1>2, <1>3, <1>4, <1>5

-----------------------------------------------------------------------------
(* The steps of a pipeline.                                                *)

(* The empty function, which is a sequence too.                            *)
LEMMA NothingYet == DOMAIN None = {} /\ None = [d \in DOMAIN None |-> None[d]]
  BY DEF None

(* Matching changes the documents only.                                    *)
LEMMA MatchStep ==
  ASSUME IInv, NEW r \in Runs, Match(r), Found[r] \subseteq SUBSET Docs
  PROVE  IInv'
  <1> USE DEF IInv, stored, Match
  <1>1. Types'
    BY DEF Types, Stage
  <1>2. Pipelines'
    BY DEF Pipelines, Types, Stage
  <1>3. Sources'
    BY DEF Sources, InState, Reported
  <1>4. Attributed' /\ Complete'
    BY DEF Attributed, Complete
  <1>5. QED
    BY <1>1, <1>2, <1>3, <1>4

(* A reused result is one that some run has committed.                     *)
LEMMA LookUpStep ==
  ASSUME IInv, NEW r \in Runs, LookUp(r)
  PROVE  IInv'
  <1> DEFINE new == docs[r] \ DOMAIN results[r]
             reused == {d \in new : Reusable(r, d) # {}}
  <1>1. PICK f \in [reused -> UNION {Reusable(r, d) : d \in reused}] :
          /\ \A d \in reused : f[d] \in Reusable(r, d)
          /\ mine' = [mine EXCEPT ![r] = f]
    BY DEF LookUp
  <1>2. /\ stage[r] = "matched" /\ stage' = [stage EXCEPT ![r] = "classifying"]
        /\ call' = [call EXCEPT ![r] = [d \in new \ reused |-> State("waiting")]]
        /\ UNCHANGED <<identity, model, docs, stored, given, failures>>
    BY DEF LookUp
  <1>3. DOMAIN f = reused
    BY <1>1
  <1> HIDE DEF new, reused
  <1>4. Types'
    <2> DEFINE waiting == [d \in new \ reused |-> State("waiting")]
    <2>1. /\ DOMAIN waiting \subseteq Docs /\ waiting = [d \in DOMAIN waiting |-> waiting[d]]
          /\ \A d \in DOMAIN waiting : waiting[d].state \in States
      BY DEF new, IInv, Types, State, States
    <2> HIDE DEF waiting
    <2>2. call' = [call EXCEPT ![r] = waiting]
      BY <1>2 DEF waiting
    <2>3. stage' \in [Runs -> Stage]
      BY <1>2 DEF IInv, Types, Stage
    <2>4. /\ call = [q \in Runs |-> call[q]] /\ mine = [q \in Runs |-> mine[q]]
          /\ UNCHANGED <<docs, matches, failures, results>>
      BY <1>2 DEF IInv, Types, stored
    <2>5. call' = [q \in Runs |-> call'[q]] /\ mine' = [q \in Runs |-> mine'[q]]
      BY <1>1, <2>2, <2>4
    <2>6. \A q \in Runs : call'[q] = IF q = r THEN waiting ELSE call[q]
      BY <2>2, <2>4
    <2>7. ASSUME NEW q \in Runs
          PROVE  /\ call'[q] = [d \in DOMAIN call'[q] |-> call'[q][d]]
                 /\ DOMAIN call'[q] \subseteq Docs
                 /\ \A d \in DOMAIN call'[q] : call'[q][d].state \in States
      BY <2>1, <2>6 DEF IInv, Types
    <2>8. QED
      BY <2>3, <2>4, <2>5, <2>7 DEF IInv, Types
  <1>5. Pipelines'
    <2>1. docs[r] \subseteq DOMAIN results[r] \cup reused \cup (new \ reused)
      BY DEF new
    <2>2. QED
      BY <1>1, <1>2, <1>3, <2>1 DEF IInv, Types, Pipelines, stored
  <1>6. Sources'
    <2>1. \A d \in reused : \E q \in Runs : d \in DOMAIN results[q] /\ results[q][d] = f[d]
      BY <1>1 DEF Reusable
    <2>2. \A d \in DOMAIN call'[r] : call'[r][d].state # "answered"
      BY <1>2 DEF IInv, Types, State
    <2>3. QED
      BY <1>1, <1>2, <1>3, <2>1, <2>2 DEF IInv, Types, Sources, InState, Reported, stored
  <1>7. Attributed' /\ Complete'
    BY <1>2 DEF IInv, Attributed, Complete, stored
  <1>8. QED
    BY <1>4, <1>5, <1>6, <1>7 DEF IInv

(* What is stored was committed before or given to this pipeline.          *)
LEMMA PublishStep ==
  ASSUME IInv, NEW r \in Runs, Publish(r)
  PROVE  IInv'
  <1> USE DEF IInv
  <1> DEFINE own == [d \in DOMAIN results[r] \cup DOMAIN mine[r] \cup DOMAIN Persisted(r) |->
                       IF d \in DOMAIN results[r] THEN results[r][d]
                       ELSE IF d \in DOMAIN mine[r] THEN mine[r][d] ELSE Persisted(r)[d]]
  <1>1. /\ stage[r] = "classifying" /\ InState(r, "waiting") \cup InState(r, "calling") = {}
        /\ matches' = [matches EXCEPT ![r] = matches[r] \cup docs[r]]
        /\ results' = [results EXCEPT ![r] = own]
        /\ failures' = [failures EXCEPT ![r] = failures[r] \cup InState(r, "failed")]
        /\ stage' = [stage EXCEPT ![r] = "completed"]
        /\ call' = [call EXCEPT ![r] = None] /\ mine' = [mine EXCEPT ![r] = None]
        /\ docs' = [docs EXCEPT ![r] = {}]
        /\ UNCHANGED <<identity, model, given>>
    BY DEF Publish
  <1>2. DOMAIN Persisted(r) = InState(r, "answered")
    BY DEF Persisted
  <1>3. DOMAIN own = DOMAIN results[r] \cup DOMAIN mine[r] \cup InState(r, "answered")
    BY <1>2
  <1>4. ASSUME NEW d \in DOMAIN own PROVE <<d, own[d].by, own[d].verdict>> \in given
    <2>1. CASE d \in DOMAIN results[r]
      BY <2>1 DEF Attributed
    <2>2. CASE d \notin DOMAIN results[r] /\ d \in DOMAIN mine[r]
      BY <2>2 DEF Attributed, Sources
    <2>3. CASE d \notin DOMAIN results[r] /\ d \notin DOMAIN mine[r]
      <3>1. d \in InState(r, "answered") /\ own[d] = Persisted(r)[d]
        BY <1>2, <1>4, <2>3
      <3>2. own[d].by = Reported(r) /\ own[d].verdict = call[r][d].verdict
        BY <3>1 DEF Persisted, Result
      <3>3. QED
        BY <3>1, <3>2 DEF Sources
    <2>4. QED
      BY <2>1, <2>2, <2>3
  <1>5. \A d \in DOMAIN results[r] : d \in DOMAIN own /\ own[d] = results[r][d]
    OBVIOUS
  <1>6. docs[r] \subseteq DOMAIN own \cup InState(r, "failed")
    <2>1. DOMAIN call[r] \subseteq InState(r, "answered") \cup InState(r, "failed")
      BY <1>1 DEF Types, States, InState
    <2>2. QED
      BY <1>1, <1>3, <2>1 DEF Pipelines
  <1> HIDE DEF own
  <1>7. Types'
    <2>1. docs' \in [Runs -> SUBSET Docs] /\ matches' \in [Runs -> SUBSET Docs]
      BY <1>1 DEF Types
    <2>2. InState(r, "failed") \subseteq Docs
      BY DEF InState, Types
    <2>3. stage' \in [Runs -> Stage] /\ failures' \in [Runs -> SUBSET Docs]
      BY <1>1, <2>2 DEF Types, Stage
    <2>4. \A q \in Runs :
            /\ call'[q] = [d \in DOMAIN call'[q] |-> call'[q][d]] /\ DOMAIN call'[q] \subseteq Docs
            /\ \A d \in DOMAIN call'[q] : call'[q][d].state \in States
      BY <1>1, NothingYet DEF Types
    <2>5. QED
      BY <1>1, <2>1, <2>3, <2>4 DEF Types
  <1>8. Pipelines'
    BY <1>1, NothingYet DEF Types, Pipelines
  <1>9. Sources'
    <2>1. \A q \in Runs : \A d \in DOMAIN results[q] :
            d \in DOMAIN results'[q] /\ results'[q][d] = results[q][d]
      BY <1>1, <1>5 DEF Types
    <2>2. \A q \in Runs : Reported(q)' = Reported(q)
      BY <1>1 DEF Reported
    <2>3. ASSUME NEW q \in Runs
          PROVE  /\ \A d \in DOMAIN mine'[q] : \E p \in Runs :
                      d \in DOMAIN results'[p] /\ results'[p][d] = mine'[q][d]
                 /\ \A d \in InState(q, "answered")' :
                      <<d, Reported(q)', call'[q][d].verdict>> \in given'
      <3>1. CASE q = r
        BY <1>1, <3>1, NothingYet DEF Types, InState
      <3>2. CASE q # r
        BY <1>1, <2>1, <2>2, <3>2 DEF Types, InState, Sources
      <3>3. QED
        BY <3>1, <3>2
    <2>4. QED
      BY <2>3 DEF Sources
  <1>10. Attributed'
    BY <1>1, <1>4 DEF Types, Attributed
  <1>11. Complete'
    BY <1>1, <1>5, <1>6 DEF Types, Complete
  <1>12. QED
    BY <1>7, <1>8, <1>9, <1>10, <1>11

-----------------------------------------------------------------------------
(* Failures and restarts.                                                  *)

(* What is committed and what other pipelines were given still counts.     *)
LEMMA RollBackStep ==
  ASSUME IInv, NEW S \in SUBSET Runs, RollBack(S),
         stage' \in [Runs -> Stage],
         \A r \in S : stage'[r] # "classifying",
         \A r \in Runs \ S : stage'[r] = stage[r],
         \A r \in Runs \ S : stage[r] = "classifying" => UNCHANGED model
  PROVE  IInv'
  <1> USE DEF IInv
  <1>1. /\ docs' = [r \in Runs |-> IF r \in S THEN {} ELSE docs[r]]
        /\ call' = [r \in Runs |-> IF r \in S THEN None ELSE call[r]]
        /\ mine' = [r \in Runs |-> IF r \in S THEN None ELSE mine[r]]
        /\ UNCHANGED <<identity, matches, results, failures>>
    BY DEF RollBack, stored
  <1>2. \A r \in Runs : \A d \in DOMAIN results[r] :
          <<d, results[r][d].by, results[r][d].verdict>> \in given'
    BY DEF RollBack, Attributed
  <1>3. \A r \in Runs \ S : \A d \in InState(r, "answered") :
          <<d, Reported(r), call[r][d].verdict>> \in given'
    BY DEF RollBack, Sources
  <1>4. Types'
    BY <1>1, NothingYet DEF Types
  <1>5. Pipelines'
    BY <1>1, NothingYet DEF Types, Pipelines
  <1>6. Sources'
    <2>1. \A r \in Runs \ S : InState(r, "answered") # {} => Reported(r)' = Reported(r)
      BY <1>1 DEF Pipelines, InState, Reported
    <2>2. ASSUME NEW r \in Runs
          PROVE  /\ \A d \in DOMAIN mine'[r] :
                      \E q \in Runs : d \in DOMAIN results'[q] /\ results'[q][d] = mine'[r][d]
                 /\ \A d \in InState(r, "answered")' :
                      <<d, Reported(r)', call'[r][d].verdict>> \in given'
      <3>1. CASE r \in S
        BY <1>1, <3>1, NothingYet DEF InState
      <3>2. CASE r \notin S
        BY <1>1, <1>3, <2>1, <3>2 DEF Types, InState, Sources
      <3>3. QED
        BY <3>1, <3>2
    <2>3. QED
      BY <2>2 DEF Sources
  <1>7. Attributed' /\ Complete'
    BY <1>1, <1>2 DEF Attributed, Complete
  <1>8. QED
    BY <1>4, <1>5, <1>6, <1>7

(* A second pipeline begins with nothing.                                  *)
LEMMA ProcessAgainStep ==
  ASSUME IInv, NEW r \in Runs, ProcessAgain(r)
  PROVE  IInv'
  <1> USE DEF IInv, stored, ProcessAgain
  <1>1. Types'
    BY DEF Types, Stage
  <1>2. Pipelines'
    BY DEF Pipelines, Types, Stage
  <1>3. Sources'
    BY DEF Sources, InState, Reported
  <1>4. Attributed' /\ Complete'
    BY DEF Attributed, Complete
  <1>5. QED
    BY <1>1, <1>2, <1>3, <1>4

(* Every step keeps the invariant.                                         *)
LEMMA InvariantNext ==
  ASSUME IInv, [Next]_vars
  PROVE  IInv'
  <1>1. ASSUME NEW r \in Runs, Step(r) PROVE IInv'
    <2>1. CASE Match(r)
      BY <2>1, MatchStep, SentimentAssumption
    <2>2. CASE LookUp(r)
      BY <2>2, LookUpStep
    <2>3. CASE Publish(r)
      BY <2>3, PublishStep
    <2>4. ASSUME NEW d \in DOMAIN call[r], Call(r, d) PROVE IInv'
      <3>1. State("calling").state \in States /\ State("calling").state # "answered"
        BY DEF State, States
      <3>2. QED
        BY <2>4, <3>1, CallStep DEF Call
    <2>5. ASSUME NEW d \in DOMAIN call[r], Predict(r, d) PROVE IInv'
      <3>1. PICK v \in Verdicts(r, d) :
              /\ call' = [call EXCEPT ![r][d] = Answered(v)]
              /\ given' = given \cup {<<d, Reported(r), v>>}
        BY <2>5 DEF Predict
      <3>2. Answered(v).state \in States /\ Answered(v).verdict = v
        BY DEF Answered, States
      <3>3. QED
        BY <2>5, <3>1, <3>2, CallStep DEF Predict
    <2>6. ASSUME NEW d \in DOMAIN call[r], PredictionFails(r, d) PROVE IInv'
      <3>1. State("failed").state \in States /\ State("failed").state # "answered"
        BY DEF State, States
      <3>2. QED
        BY <2>6, <3>1, CallStep DEF PredictionFails
    <2>7. QED
      BY <1>1, <2>1, <2>2, <2>3, <2>4, <2>5, <2>6 DEF Step
  <1>2. CASE Restart
    <2> DEFINE S == {r \in Runs : ~IsOver(r)}
    <2>1. /\ RollBack(S)
          /\ stage' = [r \in Runs |-> IF IsOver(r) THEN stage[r] ELSE "pending"]
      BY <1>2 DEF Restart
    <2>2. \A r \in Runs \ S : stage[r] # "classifying"
      BY DEF IsOver
    <2>3. stage' \in [Runs -> Stage]
      BY <2>1 DEF IInv, Types, Stage
    <2>4. QED
      BY <2>1, <2>2, <2>3, RollBackStep
  <1>3. ASSUME NEW r \in Runs, Fail(r) PROVE IInv'
    <2>1. stage' \in [Runs -> Stage] /\ stage' = [stage EXCEPT ![r] = "failed"]
      BY <1>3 DEF Fail, IInv, Types, Stage
    <2>2. QED
      BY <1>3, <2>1, RollBackStep DEF Fail, IInv, Types
  <1>4. ASSUME NEW r \in Runs, ProcessAgain(r) PROVE IInv'
    BY <1>4, ProcessAgainStep
  <1>5. CASE UNCHANGED vars
    BY <1>5 DEF vars, stored, IInv, Types, Pipelines, Sources, Attributed, Complete, InState,
                Reported
  <1>6. QED
    BY <1>1, <1>2, <1>3, <1>4, <1>5 DEF Next

-----------------------------------------------------------------------------
(* The theorem.                                                            *)

(* So it holds in every state.                                             *)
LEMMA Invariant == Spec => []IInv
  <1>1. Init => IInv
    <2> SUFFICES ASSUME Init PROVE IInv
      OBVIOUS
    <2> USE NothingYet DEF Init
    <2>1. Types
      BY DEF Types, Stage
    <2>2. Pipelines /\ Sources /\ Attributed /\ Complete
      BY DEF Pipelines, Sources, Attributed, Complete, InState
    <2>3. QED
      BY <2>1, <2>2 DEF IInv
  <1>2. IInv /\ [Next]_vars => IInv'
    BY InvariantNext
  <1>3. QED
    BY <1>1, <1>2, PTL DEF Spec

(* Every stored result, reused or not, is what the provider it names said  *)
(* of that document, and a document without one had a call that failed.    *)
THEOREM VerdictsStayAttributed == Spec => []VerdictsAreAttributed
  <1>1. IInv => VerdictsAreAttributed
    BY DEF IInv, Attributed, Complete, VerdictsAreAttributed, Labelled
  <1>2. QED
    BY <1>1, Invariant, PTL

-----------------------------------------------------------------------------
(* What TypeOK says of the calls and of the results, reused or stored.     *)
CallStates(r, d) ==
    {State(s) : s \in {"waiting", "calling", "failed"}} \cup {Answered(v) : v \in Verdicts(r, d)}
Typed ==
    /\ identity \in Configured /\ model \in Models /\ restarts \in 0..MaxRestarts
    /\ \A g \in given : g[1] \in Docs /\ g[2] \in Identities
    /\ \A r \in Runs :
         /\ \A d \in DOMAIN call[r] : call[r][d] \in CallStates(r, d)
         /\ \A d \in DOMAIN mine[r] :
              mine[r][d].by = identity[r] /\ mine[r][d].verdict \in Possible(mine[r][d].by, d)
         /\ \A d \in DOMAIN results[r] :
              /\ results[r][d].by \in Identities
              /\ results[r][d].verdict \in Possible(results[r][d].by, d)
         /\ stage[r] = "classifying" =>
              DOMAIN call[r] \cup DOMAIN mine[r] = docs[r] \ DOMAIN results[r]

-----------------------------------------------------------------------------
(* The kinds of providers of the runs; what the worker's model changes is   *)
(* the version only.                                                       *)
LEMMA IdentityFacts ==
  ASSUME identity \in Configured
  PROVE  /\ \A r \in Runs : identity[r] \in Identities
         /\ identity \in [Runs -> Identities]
         /\ \A r \in Runs :
              identity[r] = [name |-> identity[r].name, version |-> identity[r].version]
         /\ \A r \in Runs : identity[r].name \in {"mock", "xlm_roberta", "openai"}
         /\ \A r \in Runs : Reported(r).name = identity[r].name
         /\ model \in Models => \A r \in Runs : Reported(r) \in Identities
  <1> DEFINE Kinds == [name : {"mock", "xlm_roberta", "openai"}, version : STRING]
  <1>1. identity \in [Runs -> Kinds]
    BY SentimentAssumption
  <1>2. \A k \in Kinds :
          /\ k = [name |-> k.name, version |-> k.version]
          /\ k.name \in {"mock", "xlm_roberta", "openai"}
    OBVIOUS
  <1> HIDE DEF Kinds
  <1>3. \A r \in Runs : identity[r] \in Identities
    BY DEF Identities
  <1>4. identity \in [Runs -> Identities]
    BY <1>1, <1>3
  <1>5. \A r \in Runs : identity[r] \in Kinds
    BY <1>1
  <1>6. \A r \in Runs : Reported(r).name = identity[r].name
    BY DEF Reported, Identity
  <1>7. model \in Models => \A r \in Runs : Reported(r) \in Identities
    BY <1>3 DEF Reported, Identities
  <1>8. QED
    BY <1>2, <1>3, <1>4, <1>5, <1>6, <1>7

(* What the provider of a run gives is possible for every identity of its  *)
(* name, and everything possible is given by the provider of some run.     *)
LEMMA PossibleFacts ==
  ASSUME NEW by, NEW d
  PROVE  /\ \A r \in Runs : identity[r].name = by.name => Verdicts(r, d) \subseteq Possible(by, d)
         /\ \A v \in Possible(by, d) : \E r \in Runs : v \in Verdicts(r, d)
  BY DEF Possible

(* The verdicts a run's provider may give depend on the identity only.     *)
LEMMA VerdictsStay ==
  ASSUME UNCHANGED identity
  PROVE  \A r, d : Verdicts(r, d)' = Verdicts(r, d)
  BY DEF Verdicts

LEMMA PossibleStay ==
  ASSUME UNCHANGED identity
  PROVE  \A by, d : Possible(by, d)' = Possible(by, d)
  BY VerdictsStay DEF Possible

(* So do the states of a call.                                             *)
LEMMA CallStatesStay ==
  ASSUME UNCHANGED identity
  PROVE  \A r, d : CallStates(r, d)' = CallStates(r, d)
  BY VerdictsStay DEF CallStates

(* A call.                                                                 *)
LEMMA CallTyped ==
  ASSUME IInv, Typed, NEW r \in Runs, NEW d \in DOMAIN call[r], NEW x \in CallStates(r, d),
         x.state \in States,
         call' = [call EXCEPT ![r][d] = x],
         \A g \in given' : g \in given \/ (g[1] \in Docs /\ g[2] \in Identities),
         UNCHANGED <<identity, model, stage, docs, mine, results, restarts>>
  PROVE  Typed'
  <1>1. /\ \A q \in Runs : DOMAIN call'[q] = DOMAIN call[q]
        /\ call'[r][d] = x
        /\ \A q \in Runs : \A e \in DOMAIN call[q] :
             q # r \/ e # d => call'[q][e] = call[q][e]
    BY Calling DEF IInv
  <1>2. \A q, e : Possible(q, e)' = Possible(q, e) /\ CallStates(q, e)' = CallStates(q, e)
    BY PossibleStay, CallStatesStay
  <1>3. \A q \in Runs : \A e \in DOMAIN call'[q] : call'[q][e] \in CallStates(q, e)'
    BY <1>1, <1>2 DEF Typed
  <1>4. QED
    BY <1>1, <1>2, <1>3 DEF Typed

(* The lookups: a reused result is one of a run with the same identity.    *)
LEMMA LookUpTyped ==
  ASSUME IInv, Typed, NEW r \in Runs, LookUp(r)
  PROVE  Typed'
  <1> DEFINE new == docs[r] \ DOMAIN results[r]
             reused == {d \in new : Reusable(r, d) # {}}
  <1>1. PICK f \in [reused -> UNION {Reusable(r, d) : d \in reused}] :
          /\ \A d \in reused : f[d] \in Reusable(r, d)
          /\ mine' = [mine EXCEPT ![r] = f]
    BY DEF LookUp
  <1>2. /\ stage' = [stage EXCEPT ![r] = "classifying"]
        /\ call' = [call EXCEPT ![r] = [d \in new \ reused |-> State("waiting")]]
        /\ UNCHANGED <<identity, model, docs, results, given, restarts>>
    BY DEF LookUp, stored
  <1>3. \A q, e : Possible(q, e)' = Possible(q, e) /\ CallStates(q, e)' = CallStates(q, e)
    BY <1>2, PossibleStay, CallStatesStay
  <1>4. DOMAIN f = reused
    BY <1>1
  <1>5. \A d \in reused : f[d].by = identity[r] /\ f[d].verdict \in Possible(f[d].by, d)
    <2> SUFFICES ASSUME NEW d \in reused
                 PROVE  f[d].by = identity[r] /\ f[d].verdict \in Possible(f[d].by, d)
      OBVIOUS
    <2>1. PICK q \in Runs : /\ d \in DOMAIN results[q] /\ results[q][d].by = identity[r]
                            /\ f[d] = results[q][d]
      BY <1>1 DEF Reusable
    <2>2. results[q][d].verdict \in Possible(results[q][d].by, d)
      BY <2>1 DEF Typed
    <2>3. QED
      BY <2>1, <2>2
  <1>7. \A d : State("waiting") \in CallStates(r, d)
    BY DEF CallStates
  <1>8. /\ DOMAIN [d \in new \ reused |-> State("waiting")] \cup reused =
             docs[r] \ DOMAIN results[r]
    OBVIOUS
  <1> HIDE DEF new, reused
  <1>9. /\ call = [q \in Runs |-> call[q]] /\ mine = [q \in Runs |-> mine[q]]
        /\ stage \in [Runs -> Stage]
    BY DEF IInv, Types
  <1>10. \A q \in Runs :
           /\ q # r => call'[q] = call[q] /\ mine'[q] = mine[q] /\ stage'[q] = stage[q]
           /\ q = r => /\ call'[q] = [d \in new \ reused |-> State("waiting")]
                       /\ mine'[q] = f
    BY <1>1, <1>2, <1>9
  <1>11. ASSUME NEW q \in Runs
         PROVE  /\ \A d \in DOMAIN call'[q] : call'[q][d] \in CallStates(q, d)
                /\ \A d \in DOMAIN mine'[q] :
                     /\ mine'[q][d].by = identity[q]
                     /\ mine'[q][d].verdict \in Possible(mine'[q][d].by, d)
                /\ stage'[q] = "classifying" =>
                     DOMAIN call'[q] \cup DOMAIN mine'[q] = docs[q] \ DOMAIN results[q]
    <2>1. CASE q = r
      BY <1>4, <1>5, <1>7, <1>8, <1>10, <2>1
    <2>2. CASE q # r
      BY <1>10, <2>2 DEF Typed
    <2>3. QED
      BY <2>1, <2>2
  <1>12. QED
    BY <1>2, <1>3, <1>11 DEF Typed

(* The commit: what is stored was stored already, reused or answered.      *)
LEMMA PublishTyped ==
  ASSUME IInv, Typed, NEW r \in Runs, Publish(r)
  PROVE  Typed'
  <1> DEFINE own == [d \in DOMAIN results[r] \cup DOMAIN mine[r] \cup DOMAIN Persisted(r) |->
                       IF d \in DOMAIN results[r] THEN results[r][d]
                       ELSE IF d \in DOMAIN mine[r] THEN mine[r][d] ELSE Persisted(r)[d]]
  <1>1. /\ results' = [results EXCEPT ![r] = own]
        /\ stage' = [stage EXCEPT ![r] = "completed"]
        /\ call' = [call EXCEPT ![r] = None] /\ mine' = [mine EXCEPT ![r] = None]
        /\ docs' = [docs EXCEPT ![r] = {}]
        /\ UNCHANGED <<identity, model, given, restarts>>
    BY DEF Publish
  <1>2. DOMAIN Persisted(r) = InState(r, "answered")
    BY DEF Persisted
  <1>3. identity \in Configured /\ model \in Models
    BY DEF Typed
  <1>4. ASSUME NEW d \in DOMAIN own
        PROVE  own[d].by \in Identities /\ own[d].verdict \in Possible(own[d].by, d)
    <2>1. CASE d \in DOMAIN results[r]
      BY <2>1 DEF Typed
    <2>2. CASE d \notin DOMAIN results[r] /\ d \in DOMAIN mine[r]
      BY <1>3, <2>2, IdentityFacts DEF Typed
    <2>3. CASE d \notin DOMAIN results[r] /\ d \notin DOMAIN mine[r]
      <3>1. d \in InState(r, "answered") /\ own[d] = Persisted(r)[d]
        BY <1>2, <1>4, <2>3
      <3>2. own[d].by = Reported(r) /\ own[d].verdict = call[r][d].verdict
        BY <3>1 DEF Persisted, Result
      <3>3. call[r][d] \in CallStates(r, d) /\ call[r][d].state = "answered"
        BY <3>1 DEF Typed, InState
      <3>4. call[r][d].verdict \in Verdicts(r, d)
        BY <3>3 DEF CallStates, State, Answered
      <3>5. Reported(r) \in Identities /\ identity[r].name = Reported(r).name
        BY <1>3, IdentityFacts
      <3>6. call[r][d].verdict \in Possible(Reported(r), d)
        BY <3>4, <3>5, PossibleFacts
      <3>7. QED
        BY <3>2, <3>5, <3>6
    <2>4. QED
      BY <2>1, <2>2, <2>3
  <1> HIDE DEF own
  <1>5. \A q, e : Possible(q, e)' = Possible(q, e) /\ CallStates(q, e)' = CallStates(q, e)
    BY <1>1, PossibleStay, CallStatesStay
  <1>6. /\ call = [q \in Runs |-> call[q]] /\ mine = [q \in Runs |-> mine[q]]
        /\ results = [q \in Runs |-> results[q]] /\ stage \in [Runs -> Stage]
        /\ docs \in [Runs -> SUBSET Docs]
    BY DEF IInv, Types
  <1>7. \A q \in Runs :
          /\ q # r => /\ call'[q] = call[q] /\ mine'[q] = mine[q] /\ stage'[q] = stage[q]
                      /\ results'[q] = results[q] /\ docs'[q] = docs[q]
          /\ q = r => /\ DOMAIN call'[q] = {} /\ DOMAIN mine'[q] = {}
                      /\ results'[q] = own /\ stage'[q] = "completed"
    BY <1>1, <1>6, NothingYet
  <1>8. ASSUME NEW q \in Runs
        PROVE  /\ \A d \in DOMAIN call'[q] : call'[q][d] \in CallStates(q, d)
               /\ \A d \in DOMAIN mine'[q] :
                    /\ mine'[q][d].by = identity[q]
                    /\ mine'[q][d].verdict \in Possible(mine'[q][d].by, d)
               /\ \A d \in DOMAIN results'[q] :
                    /\ results'[q][d].by \in Identities
                    /\ results'[q][d].verdict \in Possible(results'[q][d].by, d)
               /\ stage'[q] = "classifying" =>
                    DOMAIN call'[q] \cup DOMAIN mine'[q] = docs'[q] \ DOMAIN results'[q]
    <2>1. CASE q = r
      BY <1>4, <1>7, <2>1
    <2>2. CASE q # r
      BY <1>7, <2>2 DEF Typed
    <2>3. QED
      BY <2>1, <2>2
  <1>9. QED
    BY <1>1, <1>5, <1>8 DEF Typed

(* Failures and restarts: a run rolled back has no calls and no results of *)
(* its own.                                                                *)
LEMMA RollBackTyped ==
  ASSUME IInv, Typed, NEW S \in SUBSET Runs, RollBack(S), model' \in Models,
         \A r \in S : stage'[r] # "classifying",
         \A r \in Runs \ S : stage'[r] = stage[r]
  PROVE  Typed'
  <1>1. /\ docs' = [r \in Runs |-> IF r \in S THEN {} ELSE docs[r]]
        /\ call' = [r \in Runs |-> IF r \in S THEN None ELSE call[r]]
        /\ mine' = [r \in Runs |-> IF r \in S THEN None ELSE mine[r]]
        /\ given' \subseteq given /\ restarts' = restarts + 1 /\ restarts < MaxRestarts
        /\ UNCHANGED <<identity, results>>
    BY DEF RollBack, stored
  <1>2. \A q, e : Possible(q, e)' = Possible(q, e) /\ CallStates(q, e)' = CallStates(q, e)
    BY <1>1, PossibleStay, CallStatesStay
  <1>3. restarts' \in 0..MaxRestarts
    BY <1>1, SentimentAssumption DEF Typed
  <1>4. ASSUME NEW q \in Runs
        PROVE  /\ \A d \in DOMAIN call'[q] : call'[q][d] \in CallStates(q, d)
               /\ \A d \in DOMAIN mine'[q] :
                    /\ mine'[q][d].by = identity[q]
                    /\ mine'[q][d].verdict \in Possible(mine'[q][d].by, d)
               /\ stage'[q] = "classifying" =>
                    DOMAIN call'[q] \cup DOMAIN mine'[q] = docs'[q] \ DOMAIN results[q]
    <2>1. CASE q \in S
      BY <1>1, <2>1, NothingYet
    <2>2. CASE q \notin S
      BY <1>1, <2>2 DEF Typed
    <2>3. QED
      BY <2>1, <2>2
  <1>5. QED
    BY <1>1, <1>2, <1>3, <1>4 DEF Typed

(* Every step.                                                             *)
LEMMA TypedNext ==
  ASSUME IInv, Typed, [Next]_vars
  PROVE  Typed'
  <1>1. ASSUME NEW r \in Runs, Step(r) PROVE Typed'
    <2>1. CASE Match(r)
      <3>1. /\ UNCHANGED <<identity, model, call, mine, results, given, restarts>>
            /\ \A q \in Runs : \/ stage'[q] # "classifying"
                               \/ q # r /\ docs'[q] = docs[q] /\ stage'[q] = stage[q]
        BY <2>1 DEF Match, stored, IInv, Types, Stage
      <3>2. \A q, e : Possible(q, e)' = Possible(q, e) /\ CallStates(q, e)' = CallStates(q, e)
        BY <3>1, PossibleStay, CallStatesStay
      <3>3. QED
        BY <3>1, <3>2 DEF Typed
    <2>2. CASE LookUp(r)
      BY <2>2, LookUpTyped
    <2>3. CASE Publish(r)
      BY <2>3, PublishTyped
    <2>4. ASSUME NEW d \in DOMAIN call[r], Call(r, d) PROVE Typed'
      <3>1. State("calling").state \in States /\ State("calling") \in CallStates(r, d)
        BY DEF State, States, CallStates
      <3>2. QED
        BY <2>4, <3>1, CallTyped DEF Call, stored
    <2>5. ASSUME NEW d \in DOMAIN call[r], Predict(r, d) PROVE Typed'
      <3>1. PICK v \in Verdicts(r, d) :
              /\ call' = [call EXCEPT ![r][d] = Answered(v)]
              /\ given' = given \cup {<<d, Reported(r), v>>}
        BY <2>5 DEF Predict
      <3>2. Answered(v).state \in States /\ Answered(v) \in CallStates(r, d)
        BY DEF Answered, States, CallStates
      <3>3. d \in Docs /\ Reported(r) \in Identities
        BY IdentityFacts DEF Typed, IInv, Types
      <3>4. \A g \in given' : g \in given \/ (g[1] \in Docs /\ g[2] \in Identities)
        BY <3>1, <3>3
      <3>5. QED
        BY <2>5, <3>1, <3>2, <3>4, CallTyped DEF Predict, stored
    <2>6. ASSUME NEW d \in DOMAIN call[r], PredictionFails(r, d) PROVE Typed'
      <3>1. State("failed").state \in States /\ State("failed") \in CallStates(r, d)
        BY DEF State, States, CallStates
      <3>2. QED
        BY <2>6, <3>1, CallTyped DEF PredictionFails, stored
    <2>7. QED
      BY <1>1, <2>1, <2>2, <2>3, <2>4, <2>5, <2>6 DEF Step
  <1>2. CASE Restart
    <2> DEFINE S == {r \in Runs : ~IsOver(r)}
    <2>1. /\ RollBack(S) /\ model' \in Models
          /\ stage' = [r \in Runs |-> IF IsOver(r) THEN stage[r] ELSE "pending"]
      BY <1>2 DEF Restart
    <2>2. QED
      BY <2>1, RollBackTyped
  <1>3. ASSUME NEW r \in Runs, Fail(r) PROVE Typed'
    <2>1. stage' = [stage EXCEPT ![r] = "failed"] /\ RollBack({r}) /\ model' \in Models
      BY <1>3 DEF Fail, Typed
    <2>2. \A q \in {r} : stage'[q] # "classifying"
      BY <2>1 DEF IInv, Types
    <2>3. \A q \in Runs \ {r} : stage'[q] = stage[q]
      BY <2>1
    <2>4. QED
      BY <2>1, <2>2, <2>3, RollBackTyped
  <1>4. ASSUME NEW r \in Runs, ProcessAgain(r) PROVE Typed'
    <2>1. /\ UNCHANGED <<identity, model, docs, call, mine, results, given>>
          /\ restarts' = restarts + 1 /\ restarts < MaxRestarts
          /\ \A q \in Runs : stage'[q] # "classifying" \/ stage'[q] = stage[q]
      BY <1>4 DEF ProcessAgain, stored, IInv, Types, Stage
    <2>2. \A q, e : Possible(q, e)' = Possible(q, e) /\ CallStates(q, e)' = CallStates(q, e)
      BY <2>1, PossibleStay, CallStatesStay
    <2>3. restarts' \in 0..MaxRestarts
      BY <2>1, SentimentAssumption DEF Typed
    <2>4. QED
      BY <2>1, <2>2, <2>3 DEF Typed
  <1>5. CASE UNCHANGED vars
    <2>1. \A q, e : Possible(q, e)' = Possible(q, e) /\ CallStates(q, e)' = CallStates(q, e)
      BY <1>5, PossibleStay, CallStatesStay DEF vars
    <2>2. QED
      BY <1>5, <2>1 DEF vars, stored, Typed
  <1>6. QED
    BY <1>1, <1>2, <1>3, <1>4, <1>5 DEF Next

(* The variables have their types: an answer is one the provider of its    *)
(* run gives in the language of the run, a result, stored or reused, one   *)
(* that the provider it names gives in that of some run (SentimentService).*)
THEOREM TypeCorrect == Spec => []TypeOK
  <1>1. Init => Typed
    <2> SUFFICES ASSUME Init PROVE Typed
      OBVIOUS
    <2>1. QED
      BY NothingYet, SentimentAssumption DEF Init, Typed
  <1>2. IInv /\ Typed /\ [Next]_vars => Typed'
    BY TypedNext
  <1>3. IInv /\ Typed => TypeOK
    BY IdentityFacts DEF IInv, Types, Typed, CallStates, TypeOK
  <1>4. QED
    BY <1>1, <1>2, <1>3, Invariant, PTL DEF Spec

-----------------------------------------------------------------------------
(* Counter and defaultdict count, for each key, the rows with it.          *)
LEMMA CountByFacts ==
  ASSUME NEW rows, IsFiniteSet(rows), NEW key
  PROVE  /\ DOMAIN CountBy(rows, key) = {key[r] : r \in rows}
         /\ \A k \in DOMAIN CountBy(rows, key) :
              CountBy(rows, key)[k] = Cardinality(Group(rows, key, k))
  <1> DEFINE keys(T) == {key[r] : r \in T}
             counts(T) == [k \in keys(T) |-> Cardinality(Group(T, key, k))]
             step(x, acc) == [k \in DOMAIN acc \cup {key[x]} |->
                                (IF k \in DOMAIN acc THEN acc[k] ELSE 0)
                                + (IF k = key[x] THEN 1 ELSE 0)]
             h == [T \in SUBSET rows |-> IF T = {} THEN <<>> ELSE counts(T)]
             iter == CHOOSE g : g = [T \in SUBSET rows |->
                        IF T = {} THEN <<>>
                        ELSE LET x == CHOOSE y \in T : TRUE IN step(x, g[T \ {x}])]
             pick(T) == CHOOSE y \in T : TRUE
  <1>1. CountBy(rows, key) = iter[rows]
    BY Zenon DEF CountBy, FoldSet, MapThenFoldSet
  <1>2. DOMAIN <<>> = {}
    BY NothingYet DEF None
  <1>3. ASSUME NEW T \in SUBSET rows, NEW x \in T
        PROVE  step(x, h[T \ {x}]) = h[T]
    <2>1. IsFiniteSet(T)
      BY FS_Subset
    <2>2. /\ DOMAIN h[T \ {x}] = keys(T \ {x})
          /\ \A k \in keys(T \ {x}) : h[T \ {x}][k] = Cardinality(Group(T \ {x}, key, k))
      <3>1. CASE T \ {x} = {}
        BY <1>2, <3>1
      <3>2. CASE T \ {x} # {}
        BY <3>2
      <3>3. QED
        BY <3>1, <3>2
    <2>3. keys(T) = keys(T \ {x}) \cup {key[x]}
      OBVIOUS
    <2>4. \A k : /\ Cardinality(Group(T, key, k)) =
                      Cardinality(Group(T \ {x}, key, k)) + (IF k = key[x] THEN 1 ELSE 0)
                 /\ k \notin keys(T \ {x}) => Cardinality(Group(T \ {x}, key, k)) = 0
      <3>1. \A k : k \notin keys(T \ {x}) => Group(T \ {x}, key, k) = {}
        BY DEF Group
      <3>2. Cardinality({}) = 0
        BY FS_EmptySet
      <3>3. \A k : Cardinality(Group(T, key, k)) =
                     Cardinality(Group(T \ {x}, key, k)) + (IF k = key[x] THEN 1 ELSE 0)
        <4> HIDE DEF h, keys, step, pick, counts, iter
        <4> SUFFICES ASSUME NEW k
                     PROVE  Cardinality(Group(T, key, k)) =
                              Cardinality(Group(T \ {x}, key, k)) + (IF k = key[x] THEN 1 ELSE 0)
          OBVIOUS
        <4>1. IsFiniteSet(T) /\ x \in T
          BY <2>1
        <4>2. QED
          BY <4>1, GroupGrows
      <3>4. QED
        BY <3>1, <3>2, <3>3
    <2>5. h[T] = counts(T)
      OBVIOUS
    <2> HIDE DEF h, keys
    <2>6. ASSUME NEW k
          PROVE  (IF k \in DOMAIN h[T \ {x}] THEN h[T \ {x}][k] ELSE 0)
                 + (IF k = key[x] THEN 1 ELSE 0) = Cardinality(Group(T, key, k))
      BY <2>2, <2>4
    <2>7. QED
      BY <2>2, <2>3, <2>5, <2>6
  <1>4. h = [T \in SUBSET rows |-> h[T]] /\ h[{}] = <<>>
    OBVIOUS
  <1>5. \A T \in SUBSET rows : T # {} => pick(T) \in T
    OBVIOUS
  <1>6. h[rows] = IF rows = {} THEN <<>> ELSE counts(rows)
    OBVIOUS
  <1> HIDE DEF h, step, pick
  <1>7. h = [T \in SUBSET rows |-> IF T = {} THEN <<>> ELSE step(pick(T), h[T \ {pick(T)}])]
    <2>1. \A T \in SUBSET rows :
            h[T] = IF T = {} THEN <<>> ELSE step(pick(T), h[T \ {pick(T)}])
      BY <1>3, <1>4, <1>5
    <2>2. QED
      BY <1>4, <2>1
  <1>8. iter = [T \in SUBSET rows |->
                  IF T = {} THEN <<>> ELSE step(pick(T), iter[T \ {pick(T)}])]
    BY <1>7, ZenonT(30) DEF pick
  <1> HIDE DEF iter
  <1>9. iter[{}] = h[{}]
    BY <1>4, <1>8
  <1>10. \A T \in SUBSET rows : T # {} =>
           \E x \in T : iter[T \ {x}] = h[T \ {x}] => iter[T] = h[T]
    <2>1. \A T \in SUBSET rows : T # {} =>
            /\ iter[T] = step(pick(T), iter[T \ {pick(T)}])
            /\ h[T] = step(pick(T), h[T \ {pick(T)}])
      BY <1>7, <1>8
    <2>2. QED
      BY <1>5, <2>1, Zenon
  <1>11. iter[rows] = h[rows]
    BY <1>9, <1>10, FoldAgrees
  <1>12. QED
    <2>1. CASE rows = {}
      BY <1>1, <1>2, <1>6, <1>11, <2>1
    <2>2. CASE rows # {}
      BY <1>1, <1>6, <1>11, <2>2
    <2>3. QED
      BY <2>1, <2>2

-----------------------------------------------------------------------------
(* The terms.                                                              *)

(* The first n elements.                                                   *)
LEMMA FirstFacts ==
  ASSUME NEW X, NEW s \in Seq(X), NEW n \in Nat
  PROVE  First(s, n) \in Seq(X)
  <1> DEFINE m == IF Len(s) < n THEN Len(s) ELSE n
  <1>1. m \in Nat /\ m <= Len(s)
    OBVIOUS
  <1>2. First(s, n) = SubSeq(s, 1, m)
    BY DEF First
  <1> HIDE DEF m
  <1>3. \A i \in 1..m : s[i] \in X
    BY <1>1
  <1>4. QED
    BY <1>1, <1>2, <1>3

(* most_common ranks elements of its list: of two places, one comes first. *)
LEMMA MostCommonFacts ==
  ASSUME NEW X, NEW s \in Seq(X), NEW n \in Nat
  PROVE  MostCommon(s, n) \in Seq(X)
  <1> DEFINE Count(x) == Cardinality({i \in DOMAIN s : s[i] = x})
             count == [i \in DOMAIN s |-> Count(s[i])]
             F == Firsts(s)
             Before(i, j) == Count(s[i]) > Count(s[j]) \/ (Count(s[i]) = Count(s[j]) /\ i < j)
             R == {p \in F \X F : Before(p[1], p[2])}
             at == Sorted(F, R)
  <1>1. MostCommon(s, n) = First([k \in DOMAIN at |-> s[at[k]]], n)
    BY DEF MostCommon, Quantify
  <1>2. F \in SUBSET DOMAIN s
    BY DEF Firsts
  <1>3. IsFiniteSet(F) /\ F \in SUBSET (1..Len(s))
    <2>1. F \in SUBSET (1..Len(s)) /\ Len(s) \in Nat
      BY <1>2
    <2> HIDE DEF F
    <2>2. QED
      BY <2>1, Places
  <1>4. \A i \in F : count[i] \in Nat
    <2> SUFFICES ASSUME NEW i \in F PROVE Count(s[i]) \in Nat
      BY <1>2
    <2>1. {j \in DOMAIN s : s[j] = s[i]} \in SUBSET (1..Len(s)) /\ Len(s) \in Nat
      OBVIOUS
    <2>2. IsFiniteSet({j \in DOMAIN s : s[j] = s[i]})
      BY <2>1, Places
    <2>3. QED
      BY <2>2, FS_CardinalityType
  <1>5. \A i, j \in F : <<i, j>> \in R <=> count[i] > count[j] \/ (count[i] = count[j] /\ i < j)
    BY <1>2
  <1>6. \A i \in F : i \in Int
    BY <1>3
  <1> HIDE DEF F, R, count, at
  <1>7. StrictOrder(F, R)
    <2>1. \A x \in F : <<x, x>> \notin R
      BY <1>4, <1>5, <1>6
    <2>2. \A x, y, z \in F : <<x, y>> \in R /\ <<y, z>> \in R => <<x, z>> \in R
      BY <1>4, <1>5, <1>6
    <2>3. \A x, y \in F : x # y => <<x, y>> \in R \/ <<y, x>> \in R
      BY <1>4, <1>5, <1>6
    <2>4. QED
      BY <2>1, <2>2, <2>3 DEF StrictOrder
  <1>8. Enumerates(at, F)
    BY <1>3, <1>7, SortedFacts DEF at
  <1>9. [k \in DOMAIN at |-> s[at[k]]] \in Seq(X)
    <2>1. Cardinality(F) \in Nat /\ at \in [1..Cardinality(F) -> F]
      BY <1>8 DEF Enumerates
    <2>2. \A k \in 1..Cardinality(F) : s[at[k]] \in X
      BY <1>2, <2>1
    <2>3. [k \in 1..Cardinality(F) |-> s[at[k]]] \in Seq(X)
      BY <2>1, <2>2
    <2>4. QED
      BY <2>1, <2>3
  <1>10. QED
    BY <1>1, <1>9, FirstFacts

(* The words no term has: stop words and those of the query.               *)
Barred(context) == context.stop \cup context.excluded

(* No such word tells anything.                                            *)
LEMMA TellingFacts ==
  ASSUME NEW Y, NEW s \in Seq(Y), NEW context
  PROVE  Telling(s, context) \in Seq(Y \ Barred(context))
  <1> DEFINE P == {i \in DOMAIN s : s[i] \notin context.stop \cup context.excluded}
  <1>1. Telling(s, context) = Picked(s, P)
    BY DEF Telling, Select
  <1>2. P \in SUBSET DOMAIN s /\ \A i \in P : s[i] \in Y \ Barred(context)
    BY DEF Barred
  <1> HIDE DEF P
  <1>3. QED
    BY <1>1, <1>2, PickedFromSeq

(* The bounds are numbers.                                                 *)
LEMMA Bounds == {MaxPhrases, MaxTokens, MaxBigrams, MaxKeywords, MaxTerms} \subseteq Nat
  BY PhrasesAssumption

(* The words of a text and their fragments.                                *)
Parts(text) ==
    ToSet(text) \cup {f[1] : f \in {g \in Heads \cup Tails \cup Middles : g[2] \in ToSet(text)}}

LEMMA PartsFacts ==
  ASSUME NEW text
  PROVE  \A x : x \in Parts(text) <=> \E word \in ToSet(text) : IsPart(x, word)
  <1>1. \A f \in Heads \cup Tails \cup Middles : f = <<f[1], f[2]>>
    BY PhrasesAssumption
  <1>2. ASSUME NEW x \in Parts(text) PROVE \E word \in ToSet(text) : IsPart(x, word)
    BY <1>1 DEF Parts, IsPart, IsHead, IsTail
  <1>3. ASSUME NEW x, NEW word \in ToSet(text), IsPart(x, word) PROVE x \in Parts(text)
    BY <1>3 DEF Parts, IsPart, IsHead, IsTail
  <1>4. QED
    BY <1>2, <1>3

(* Evidence phrases are quotes of the text, from within a word on or up to *)
(* within one.                                                             *)
LEMMA EvidenceFacts ==
  ASSUME NEW text \in Seq(STRING), NEW phrases \in Seq(Seq(STRING))
  PROVE  Evidence(phrases, text) \in Seq(Seq(Parts(text)))
  <1> DEFINE IsQuote(p) == /\ p # <<>> /\ (Len(p) = 1 => p[1] \notin TinyWords)
                           /\ \E i \in DOMAIN text : QuotedAt(text, p, i)
             P == {i \in DOMAIN phrases : IsQuote(phrases[i])}
             quotes == Picked(phrases, P)
  <1>1. Evidence(phrases, text) = First(Distinct(quotes), MaxPhrases)
    BY DEF Evidence, Select
  <1>2. ASSUME NEW k \in P PROVE phrases[k] \in Seq(Parts(text))
    <2>1. PICK i \in DOMAIN text : QuotedAt(text, phrases[k], i)
      OBVIOUS
    <2>2. PICK p \in Seq(STRING) : p = phrases[k]
      OBVIOUS
    <2> DEFINE n == Len(p)
    <2>3. n \in Nat /\ i \in Nat /\ i >= 1 /\ Len(text) \in Nat /\ i + n - 1 <= Len(text)
          /\ \A m \in 1..Len(text) : text[m] \in ToSet(text)
      BY <2>1, <2>2 DEF QuotedAt, ToSet
    <2>4. ASSUME NEW m \in 1..n PROVE p[m] \in Parts(text)
      <3>1. i + m - 1 \in 1..Len(text) /\ text[i + m - 1] \in ToSet(text)
        BY <2>3
      <3>2. IsPart(p[m], text[i + m - 1])
        <4>1. CASE n = 1
          <5>1. m = 1 /\ i + m - 1 = i
            BY <2>3, <4>1
          <5>2. QED
            BY <2>1, <2>2, <4>1, <5>1 DEF QuotedAt
        <4>2. CASE n > 1 /\ m = 1
          <5>1. i + m - 1 = i
            BY <2>3, <4>2
          <5>2. QED
            BY <2>1, <2>2, <4>2, <5>1 DEF QuotedAt, IsPart
        <4>3. CASE n > 1 /\ m = n
          BY <2>1, <2>2, <4>3 DEF QuotedAt, IsPart
        <4>4. CASE n > 1 /\ m \in 2..(n - 1)
          BY <2>1, <2>2, <4>4 DEF QuotedAt, IsPart, IsHead
        <4>5. n = 1 \/ (n > 1 /\ m = 1) \/ (n > 1 /\ m = n) \/ (n > 1 /\ m \in 2..(n - 1))
          <5> HIDE DEF n
          <5>1. n \in Nat /\ m \in 1..n
            BY <2>3
          <5>2. QED
            BY <5>1
        <4>6. QED
          BY <4>1, <4>2, <4>3, <4>4, <4>5
      <3>3. QED
        BY <3>1, <3>2, PartsFacts
    <2> HIDE DEF n
    <2>5. QED
      <3>1. p = [m \in 1..n |-> p[m]]
        BY DEF n
      <3>2. QED
        BY <2>2, <2>3, <2>4, <3>1
  <1>3. P \in SUBSET DOMAIN phrases
    OBVIOUS
  <1> HIDE DEF P
  <1>4. quotes \in Seq(Seq(Parts(text)))
    BY <1>2, <1>3, PickedFromSeq
  <1> HIDE DEF quotes
  <1>5. Distinct(quotes) \in Seq(Seq(Parts(text)))
    BY <1>4, DistinctFacts
  <1>6. QED
    BY <1>1, <1>5, Bounds, FirstFacts

(* A term made of phrases has no word of the query.                        *)
LEMMA EvidenceTermsFacts ==
  ASSUME NEW Y, NEW phrases \in Seq(Seq(Y)), NEW context
  PROVE  EvidenceTerms(phrases, context) \in Seq(Seq(Y \ Barred(context)))
  <1> DEFINE short == [i \in DOMAIN phrases |-> First(Telling(phrases[i], context), MaxTokens)]
             P == {i \in DOMAIN short : short[i] # <<>>}
             kept == Picked(short, P)
  <1>1. EvidenceTerms(phrases, context) = First(Distinct(kept), MaxTerms)
    BY DEF EvidenceTerms, Select
  <1>2. \A i \in DOMAIN phrases :
          First(Telling(phrases[i], context), MaxTokens) \in Seq(Y \ Barred(context))
    <2> SUFFICES ASSUME NEW i \in DOMAIN phrases
                 PROVE  First(Telling(phrases[i], context), MaxTokens) \in Seq(Y \ Barred(context))
      OBVIOUS
    <2>1. phrases[i] \in Seq(Y)
      OBVIOUS
    <2>2. Telling(phrases[i], context) \in Seq(Y \ Barred(context))
      BY <2>1, TellingFacts
    <2>3. QED
      BY <2>2, Bounds, FirstFacts
  <1>3. short \in Seq(Seq(Y \ Barred(context)))
    <2>1. DOMAIN phrases = 1..Len(phrases) /\ Len(phrases) \in Nat
      OBVIOUS
    <2> DEFINE f(i) == First(Telling(phrases[i], context), MaxTokens)
    <2>2. \A i \in 1..Len(phrases) : f(i) \in Seq(Y \ Barred(context))
      BY <1>2, <2>1
    <2> HIDE DEF f
    <2>3. [i \in 1..Len(phrases) |-> f(i)] \in Seq(Seq(Y \ Barred(context)))
      BY <2>1, <2>2
    <2>4. QED
      BY <2>1, <2>3 DEF f
  <1>4. P \in SUBSET DOMAIN short
    OBVIOUS
  <1> HIDE DEF P, short
  <1>5. kept \in Seq(Seq(Y \ Barred(context)))
    <2>1. \A i \in P : short[i] \in Seq(Y \ Barred(context))
      BY <1>3, <1>4
    <2>2. QED
      BY <1>3, <1>4, <2>1, PickedFromSeq
  <1> HIDE DEF kept
  <1>6. Distinct(kept) \in Seq(Seq(Y \ Barred(context)))
    BY <1>5, DistinctFacts
  <1>7. QED
    BY <1>1, <1>6, Bounds, FirstFacts

(* Nor is one in a keyword, alone or in a pair.                            *)
LEMMA KeywordsFacts ==
  ASSUME NEW Y, NEW text \in Seq(Y), NEW context
  PROVE  Keywords(text, context) \in Seq(Seq(Y \ Barred(context)))
  <1> DEFINE Z == Y \ Barred(context)
             P == {i \in DOMAIN text : text[i] \in LongWords}
             long == Picked(text, P)
             tokens == Telling(long, context)
             pairs == [i \in 1..(Len(tokens) - 1) |-> <<tokens[i], tokens[i + 1]>>]
             Q == {i \in DOMAIN pairs : pairs[i][1] # pairs[i][2]}
             bigrams == Picked(pairs, Q)
             words == [i \in DOMAIN tokens |-> <<tokens[i]>>]
  <1>1. Keywords(text, context) =
          First(MostCommon(bigrams, MaxBigrams) \o MostCommon(words, MaxKeywords), MaxKeywords)
    BY DEF Keywords, Select
  <1>2. P \in SUBSET DOMAIN text /\ \A i \in P : text[i] \in Y
    OBVIOUS
  <1>3. Q \in SUBSET DOMAIN pairs
    OBVIOUS
  <1> HIDE DEF P, Q
  <1>4. long \in Seq(Y)
    BY <1>2, PickedFromSeq
  <1> HIDE DEF long
  <1>5. tokens \in Seq(Z)
    BY <1>4, TellingFacts
  <1> HIDE DEF tokens, Z
  <1>6. /\ Len(tokens) \in Nat /\ DOMAIN tokens = 1..Len(tokens)
        /\ \A i \in 1..Len(tokens) : tokens[i] \in Z
    BY <1>5
  <1>7. words \in Seq(Seq(Z))
    <2>1. \A i \in 1..Len(tokens) : <<tokens[i]>> \in Seq(Z)
      BY <1>6
    <2>2. QED
      BY <1>6, <2>1
  <1>8. pairs \in Seq(Seq(Z))
    <2> DEFINE n == IF Len(tokens) = 0 THEN 0 ELSE Len(tokens) - 1
    <2>1. /\ n \in Nat /\ 1..(Len(tokens) - 1) = 1..n
          /\ \A i \in 1..n : i \in 1..Len(tokens) /\ i + 1 \in 1..Len(tokens)
      BY <1>6
    <2> HIDE DEF n
    <2>2. \A i \in 1..n : <<tokens[i], tokens[i + 1]>> \in Seq(Z)
      <3>1. \A x, y \in Z : <<x, y>> \in Seq(Z)
        OBVIOUS
      <3>2. \A i \in 1..n : tokens[i] \in Z /\ tokens[i + 1] \in Z
        BY <1>6, <2>1
      <3>3. QED
        BY <3>1, <3>2
    <2> DEFINE f(i) == <<tokens[i], tokens[i + 1]>>
    <2>3. \A i \in 1..n : f(i) \in Seq(Z)
      BY <2>2
    <2> HIDE DEF f
    <2>4. [i \in 1..n |-> f(i)] \in Seq(Seq(Z))
      BY <2>1, <2>3
    <2>5. QED
      BY <2>1, <2>4 DEF f
  <1> HIDE DEF pairs, words
  <1>9. bigrams \in Seq(Seq(Z))
    <2>1. \A i \in Q : pairs[i] \in Seq(Z)
      BY <1>3, <1>8
    <2>2. QED
      BY <1>3, <1>8, <2>1, PickedFromSeq
  <1> HIDE DEF bigrams
  <1>10. /\ MostCommon(bigrams, MaxBigrams) \in Seq(Seq(Z))
         /\ MostCommon(words, MaxKeywords) \in Seq(Seq(Z))
    BY <1>7, <1>9, Bounds, MostCommonFacts
  <1>11. MostCommon(bigrams, MaxBigrams) \o MostCommon(words, MaxKeywords) \in Seq(Seq(Z))
    BY <1>10, ConcatFacts
  <1>12. Keywords(text, context) \in Seq(Seq(Z))
    BY <1>1, <1>11, Bounds, FirstFacts
  <1>13. QED
    BY <1>12 DEF Z

(* The terms of a document are made of its words and their fragments.      *)
LEMMA TermsOfFacts ==
  ASSUME NEW text \in Seq(STRING), NEW phrases \in Seq(Seq(STRING)), NEW context
  PROVE  TermsOf(Evidence(phrases, text), text, context) \in Seq(Seq(Parts(text) \ Barred(context)))
  <1>1. text \in Seq(Parts(text))
    BY DEF Parts, ToSet
  <1>2. QED
    BY <1>1, EvidenceFacts, EvidenceTermsFacts, KeywordsFacts DEF TermsOf

-----------------------------------------------------------------------------
(* The phrases of a label.                                                 *)

(* The terms of the rows, one after the other.                             *)
TermsIn(rows, context) ==
    FoldSet(LAMBDA r, acc : acc \o TermsOf(r.evidence, TextOf[r.doc], context), <<>>, rows)

(* They are terms of the rows.                                             *)
LEMMA TermsInFacts ==
  ASSUME NEW rows, IsFiniteSet(rows), NEW context, NEW X,
         \A r \in rows : TermsOf(r.evidence, TextOf[r.doc], context) \in Seq(X)
  PROVE  TermsIn(rows, context) \in Seq(X)
  <1> DEFINE V == Seq(X)
             terms(r) == TermsOf(r.evidence, TextOf[r.doc], context)
             op == [p \in rows \X V |-> p[2] \o terms(p[1])]
             pick(T) == CHOOSE y \in T : TRUE
             iter == CHOOSE g : g = [T \in SUBSET rows |->
                        IF T = {} THEN <<>>
                        ELSE LET x == CHOOSE y \in T : TRUE IN g[T \ {x}] \o terms(x)]
  <1>1. TermsIn(rows, context) = iter[rows]
    BY Zenon DEF TermsIn, FoldSet, MapThenFoldSet
  <1>2. \A T \in SUBSET rows : T # {} => pick(T) \in T
    OBVIOUS
  <1>3. <<>> \in V /\ \A s, t \in V : s \o t \in V
    OBVIOUS
  <1>4. \A r \in rows : terms(r) \in V
    OBVIOUS
  <1> HIDE DEF terms, V
  <1>5. op \in [rows \X V -> V] /\ \A r \in rows : \A s \in V : op[<<r, s>>] = s \o terms(r)
    BY <1>3, <1>4
  <1> HIDE DEF op
  <1> DEFINE choice == [T \in SUBSET rows |-> pick(T)]
  <1>6. PICK h \in [SUBSET rows -> V] : Folds(rows, choice, <<>>, op, h)
    <2>1. Picks(rows, choice)
      BY <1>2 DEF Picks
    <2> HIDE DEF choice
    <2>2. QED
      BY <1>3, <1>5, <2>1, FoldExists
  <1>7. \A T \in SUBSET rows : h[T] = IF T = {} THEN <<>> ELSE op[<<pick(T), h[T \ {pick(T)}]>>]
    <2>1. \A T \in SUBSET rows : choice[T] = pick(T)
      OBVIOUS
    <2> HIDE DEF choice, pick
    <2>2. QED
      BY <1>6, <2>1 DEF Folds
  <1> HIDE DEF pick
  <1>8. \A T \in SUBSET rows : h[T] \in V
    BY <1>6
  <1>9. \A T \in SUBSET rows : h[T] = IF T = {} THEN <<>> ELSE h[T \ {pick(T)}] \o terms(pick(T))
    <2> SUFFICES ASSUME NEW T \in SUBSET rows
                 PROVE  h[T] = IF T = {} THEN <<>> ELSE h[T \ {pick(T)}] \o terms(pick(T))
      OBVIOUS
    <2>1. T # {} => pick(T) \in rows /\ h[T \ {pick(T)}] \in V
      BY <1>2, <1>8
    <2>2. QED
      BY <1>5, <1>7, <2>1
  <1>10. h = [T \in SUBSET rows |->
                IF T = {} THEN <<>> ELSE h[T \ {pick(T)}] \o terms(pick(T))]
    BY <1>6, <1>9
  <1>11. iter = [T \in SUBSET rows |->
                   IF T = {} THEN <<>> ELSE iter[T \ {pick(T)}] \o terms(pick(T))]
    BY <1>10, ZenonT(30) DEF pick
  <1> HIDE DEF iter
  <1>12. iter[{}] = h[{}]
    BY <1>9, <1>11
  <1>13. \A T \in SUBSET rows : T # {} =>
           \E x \in T : iter[T \ {x}] = h[T \ {x}] => iter[T] = h[T]
    <2>1. \A T \in SUBSET rows : T # {} => /\ iter[T] = iter[T \ {pick(T)}] \o terms(pick(T))
                                           /\ h[T] = h[T \ {pick(T)}] \o terms(pick(T))
      BY <1>9, <1>11
    <2>2. QED
      BY <1>2, <2>1, Zenon
  <1>14. iter[rows] = h[rows]
    BY <1>12, <1>13, FoldAgrees
  <1>15. QED
    BY <1>1, <1>8, <1>14 DEF V

(* A word of a term is one of a document of its label or a fragment of one,*)
(* no stop word and none of the query.                                     *)
LEMMA BreakdownFacts ==
  ASSUME NEW rows, IsFiniteSet(rows), NEW context,
         \A r \in rows : /\ r.doc \in Docs
                         /\ \E p \in Seq(Seq(STRING)) : r.evidence = Evidence(p, TextOf[r.doc]),
         NEW l \in DOMAIN PhraseBreakdown(rows, context),
         NEW i \in DOMAIN PhraseBreakdown(rows, context)[l],
         NEW k \in DOMAIN PhraseBreakdown(rows, context)[l][i]
  PROVE  /\ PhraseBreakdown(rows, context)[l][i][k] \notin Barred(context)
         /\ \E r \in rows :
              r.label = l /\ PhraseBreakdown(rows, context)[l][i][k] \in Parts(TextOf[r.doc])
  <1> DEFINE of == {r \in rows : r.label = l}
             words(r) == Parts(TextOf[r.doc]) \ Barred(context)
             X == UNION {Seq(words(r)) : r \in of}
             terms == MostCommon(TermsIn(of, context), MaxTerms)
  <1>1. PhraseBreakdown(rows, context)[l] = terms
    BY DEF PhraseBreakdown, TermsIn
  <1>2. IsFiniteSet(of)
    BY FS_Subset
  <1>3. ASSUME NEW r \in of PROVE TermsOf(r.evidence, TextOf[r.doc], context) \in Seq(X)
    <2>1. TextOf[r.doc] \in Seq(STRING)
      BY AggregationAssumption
    <2>2. PICK p \in Seq(Seq(STRING)) : r.evidence = Evidence(p, TextOf[r.doc])
      OBVIOUS
    <2>3. TermsOf(r.evidence, TextOf[r.doc], context) \in Seq(Seq(words(r)))
      BY <2>1, <2>2, TermsOfFacts
    <2>4. Seq(words(r)) \subseteq X
      OBVIOUS
    <2> HIDE DEF X
    <2>5. \A s \in Seq(Seq(words(r))) : s \in Seq(X)
      BY <2>4
    <2>6. QED
      BY <2>3, <2>5
  <1>4. TermsIn(of, context) \in Seq(X)
    <2> HIDE DEF of, X
    <2>1. QED
      BY <1>2, <1>3, TermsInFacts
  <1>5. terms \in Seq(X)
    <2> HIDE DEF of, X
    <2>1. QED
      BY <1>4, Bounds, MostCommonFacts
  <1>6. i \in DOMAIN terms /\ k \in DOMAIN terms[i]
    BY <1>1
  <1>7. terms[i] \in X
    <2> HIDE DEF terms, X
    <2>1. QED
      BY <1>5, <1>6
  <1> HIDE DEF terms
  <1>8. PICK r \in of : terms[i] \in Seq(words(r))
    BY <1>7
  <1>9. terms[i][k] \in words(r)
    <2> HIDE DEF words
    <2>1. QED
      BY <1>6, <1>8
  <1>10. QED
    BY <1>1, <1>8, <1>9

-----------------------------------------------------------------------------
(* The rows of the charts, one for each document.                          *)
OneRowEach(rows, L, row) ==
    /\ rows = {row[d] : d \in L}
    /\ \A d \in L : row[d].doc = d

(* So as many rows as documents, of any kind.                              *)
LEMMA RowsAreDocuments ==
  ASSUME NEW L, IsFiniteSet(L), NEW rows, NEW row, OneRowEach(rows, L, row)
  PROVE  /\ IsFiniteSet(rows)
         /\ \A A \in SUBSET L : Cardinality({row[d] : d \in A}) = Cardinality(A)
  <1>1. ASSUME NEW A \in SUBSET L
        PROVE  IsFiniteSet({row[d] : d \in A}) /\ Cardinality({row[d] : d \in A}) = Cardinality(A)
    <2>1. IsFiniteSet(A)
      BY FS_Subset
    <2>2. \A d, e \in A : row[d] = row[e] => d = e
      BY DEF OneRowEach
    <2>3. QED
      BY <2>1, <2>2, ImageSize
  <1>2. QED
    BY <1>1 DEF OneRowEach

(* What CountBy counts, in terms of the documents.                         *)
Counts(c, L, value) ==
    /\ DOMAIN c = {value[d] : d \in L}
    /\ \A k \in DOMAIN c : c[k] = Cardinality({d \in L : value[d] = k})
    /\ Total(c) = Cardinality(L)

(* Each row has the key of its document.                                   *)
LEMMA DocumentsAreCounted ==
  ASSUME NEW L, IsFiniteSet(L), NEW rows, NEW row, OneRowEach(rows, L, row), NEW key, NEW value,
         \A d \in L : key[row[d]] = value[d]
  PROVE  Counts(CountBy(rows, key), L, value)
  <1>1. IsFiniteSet(rows) /\ \A A \in SUBSET L : Cardinality({row[d] : d \in A}) = Cardinality(A)
    BY RowsAreDocuments
  <1>2. /\ DOMAIN CountBy(rows, key) = {key[r] : r \in rows}
        /\ \A k \in DOMAIN CountBy(rows, key) :
             CountBy(rows, key)[k] = Cardinality(Group(rows, key, k))
    BY <1>1, CountByFacts
  <1>3. {key[r] : r \in rows} = {value[d] : d \in L}
    BY DEF OneRowEach
  <1>4. \A k : Cardinality(Group(rows, key, k)) = Cardinality({d \in L : value[d] = k})
    <2> SUFFICES ASSUME NEW k
                 PROVE  Cardinality(Group(rows, key, k)) = Cardinality({d \in L : value[d] = k})
      OBVIOUS
    <2> DEFINE A == {d \in L : value[d] = k}
    <2>1. Group(rows, key, k) = {row[d] : d \in A}
      BY DEF Group, OneRowEach
    <2>2. A \in SUBSET L
      OBVIOUS
    <2> HIDE DEF A
    <2>3. QED
      BY <1>1, <2>1, <2>2 DEF A
  <1>5. Total(CountBy(rows, key)) = Cardinality(rows)
    BY <1>1, <1>2, TotalOfGroups
  <1>6. Cardinality(rows) = Cardinality(L)
    BY <1>1 DEF OneRowEach
  <1>7. QED
    BY <1>2, <1>3, <1>4, <1>5, <1>6 DEF Counts

-----------------------------------------------------------------------------
(* The charts of a run.                                                    *)

(* Whatever a provider says of a text, its evidence is phrases.            *)
LEMMA VerdictsHavePhrases ==
  ASSUME identity \in Configured, NEW r \in Runs, NEW d \in Docs, NEW v \in Verdicts(r, d)
  PROVE  v.evidence \in Seq(Seq(STRING))
  <1>1. CASE identity[r].name = "mock"
    <2> DEFINE text == TextOf[d]
               pros == PositiveWords[LanguageOf[r]]
               cons == NegativeWords[LanguageOf[r]] \ pros
               P == {i \in DOMAIN text : text[i] \in pros \cup cons}
               hits == Picked(text, P)
               shown == First(Distinct(hits), 3)
    <2>1. v = MockVerdict(text, LanguageOf[r])
      BY <1>1 DEF Verdicts
    <2>2. MockVerdict(text, LanguageOf[r]).evidence = [i \in DOMAIN shown |-> <<shown[i]>>]
      BY DEF MockVerdict, Verdict, Select
    <2>3. text \in Seq(STRING)
      BY AggregationAssumption
    <2>4. P \in SUBSET DOMAIN text
      OBVIOUS
    <2> HIDE DEF text, P
    <2>5. \A i \in P : text[i] \in STRING
      BY <2>3, <2>4
    <2>6. hits \in Seq(STRING)
      BY <2>3, <2>4, <2>5, PickedFromSeq
    <2> HIDE DEF hits
    <2>7. Distinct(hits) \in Seq(STRING)
      BY <2>6, DistinctFacts
    <2>8. shown \in Seq(STRING)
      BY <2>7, FirstFacts
    <2> HIDE DEF shown
    <2>9. Len(shown) \in Nat /\ DOMAIN shown = 1..Len(shown)
          /\ \A i \in 1..Len(shown) : <<shown[i]>> \in Seq(STRING)
      BY <2>8
    <2>10. [i \in DOMAIN shown |-> <<shown[i]>>] \in Seq(Seq(STRING))
      BY <2>9
    <2>11. QED
      BY <2>1, <2>2, <2>10
  <1>2. CASE identity[r].name = "xlm_roberta"
    <2>1. PICK x \in XlmOutputs : v = XlmVerdict(x[1], x[2])
      BY <1>2 DEF Verdicts
    <2>2. v.evidence = <<>>
      BY <2>1 DEF XlmVerdict, Verdict
    <2>3. QED
      BY <2>2
  <1>3. CASE identity[r].name = "openai"
    BY <1>3, SentimentAssumption DEF Verdicts
  <1>4. QED
    BY <1>1, <1>2, <1>3, IdentityFacts

(* Every provider gives a whole number as the score.                       *)
LEMMA VerdictsHaveScores ==
  ASSUME identity \in Configured, NEW r \in Runs, NEW d \in Docs, NEW v \in Verdicts(r, d)
  PROVE  v.score \in Int
  <1>1. CASE identity[r].name = "mock"
    <2> DEFINE text == TextOf[d]
               pros == PositiveWords[LanguageOf[r]]
               cons == NegativeWords[LanguageOf[r]] \ pros
               P == {i \in DOMAIN text : text[i] \in pros \cup cons}
               hits == Picked(text, P)
               good == {i \in DOMAIN hits : hits[i] \in pros}
               bad == {i \in DOMAIN hits : hits[i] \in cons}
               net == Cardinality(good) - Cardinality(bad)
    <2>1. v = MockVerdict(text, LanguageOf[r])
      BY <1>1 DEF Verdicts
    <2>2. MockVerdict(text, LanguageOf[r]).score =
            IF net > 2 THEN 2 ELSE IF net < -2 THEN -2 ELSE net
      BY DEF MockVerdict, Verdict, Select, Quantify
    <2>3. text \in Seq(STRING)
      BY AggregationAssumption
    <2>4. P \in SUBSET DOMAIN text
      OBVIOUS
    <2> HIDE DEF text, P
    <2>5. \A i \in P : text[i] \in STRING
      BY <2>3, <2>4
    <2>6. hits \in Seq(STRING)
      BY <2>3, <2>4, <2>5, PickedFromSeq
    <2> HIDE DEF hits
    <2>7. good \in SUBSET (1..Len(hits)) /\ bad \in SUBSET (1..Len(hits)) /\ Len(hits) \in Nat
      BY <2>6
    <2> HIDE DEF good, bad
    <2>8. IsFiniteSet(good) /\ IsFiniteSet(bad)
      BY <2>7, Places
    <2>9. Cardinality(good) \in Nat /\ Cardinality(bad) \in Nat
      BY <2>8, FS_CardinalityType
    <2>10. QED
      BY <2>1, <2>2, <2>9
  <1>2. CASE identity[r].name = "xlm_roberta"
    <2>1. PICK x \in XlmOutputs : v = XlmVerdict(x[1], x[2])
      BY <1>2 DEF Verdicts
    <2>2. v.score \in {0, 1, -1, 2 * 0, 2 * 1, 2 * (-1)}
      BY <2>1 DEF XlmVerdict, Verdict
    <2>3. QED
      BY <2>2
  <1>3. CASE identity[r].name = "openai"
    BY <1>3, SentimentAssumption DEF Verdicts
  <1>4. QED
    BY <1>1, <1>2, <1>3, IdentityFacts

(* The charts are those of the committed matches and results, which change *)
(* together with them only.                                                *)
Charted ==
    \A r \in Runs : \/ charts[r] = NoCharts
                    \/ charts[r] = Build(Join(r, matches[r], results[r]), ContextOf(r))
ChartsAreFunctions ==
    charts = [r \in Runs |-> charts[r]]

(* Every step keeps that.                                                  *)
LEMMA ChartedNext ==
  ASSUME IInv, Charted, ChartsAreFunctions, [Next]_vars
  PROVE  Charted' /\ ChartsAreFunctions'
  <1>1. ASSUME NEW r \in Runs, Publish(r) PROVE Charted' /\ ChartsAreFunctions'
    <2>1. PICK own, found : /\ matches' = [matches EXCEPT ![r] = found]
                            /\ results' = [results EXCEPT ![r] = own]
                            /\ charts' =
                                 [charts EXCEPT ![r] = Build(Join(r, found, own), ContextOf(r))]
      BY <1>1 DEF Publish
    <2>2. /\ results = [q \in Runs |-> results[q]] /\ matches = [q \in Runs |-> matches[q]]
      BY DEF IInv, Types
    <2>3. \A q \in Runs :
            /\ q = r => /\ matches'[q] = found /\ results'[q] = own
                        /\ charts'[q] = Build(Join(r, found, own), ContextOf(r))
            /\ q # r => /\ matches'[q] = matches[q] /\ results'[q] = results[q]
                        /\ charts'[q] = charts[q]
      BY <2>1, <2>2 DEF ChartsAreFunctions
    <2>4. charts' = [q \in Runs |-> charts'[q]]
      BY <2>1 DEF ChartsAreFunctions
    <2>5. \A q \in Runs : Join(q, matches[q], results[q])' = Join(q, matches'[q], results'[q])
      BY DEF Join
    <2>6. \A q \in Runs :
            Build(Join(q, matches[q], results[q]), ContextOf(q))' =
              Build(Join(q, matches'[q], results'[q]), ContextOf(q))
      BY <2>5
    <2>7. QED
      BY <2>3, <2>4, <2>6 DEF Charted, ChartsAreFunctions
  <1>2. CASE UNCHANGED stored
    <2>1. \A q \in Runs :
            Build(Join(q, matches[q], results[q]), ContextOf(q))' =
              Build(Join(q, matches[q], results[q]), ContextOf(q))
      BY <1>2 DEF stored, Join
    <2>2. QED
      BY <1>2, <2>1 DEF stored, Charted, ChartsAreFunctions
  <1>3. CASE \A r \in Runs : ~Publish(r)
    <2>1. UNCHANGED stored
      BY <1>3 DEF Next, Step, vars, Match, LookUp, Call, Predict, PredictionFails, Restart, Fail,
                  ProcessAgain, RollBack, stored
    <2>2. QED
      BY <1>2, <2>1
  <1>4. QED
    BY <1>1, <1>3

(* The row of a document of a run, with its result.                        *)
RowOf(r) ==
    [d \in Labelled(r) |->
       [run |-> r, doc |-> d, label |-> Given(r, d).label, score |-> Given(r, d).score,
        low |-> Given(r, d).low, evidence |-> Evidence(Given(r, d).evidence, TextOf[d])]]

(* Those are the rows of the join.                                         *)
LEMMA RowsOfRun ==
  ASSUME IInv, Typed, NEW r \in Runs
  PROVE  /\ IsFiniteSet(Labelled(r)) /\ Labelled(r) \in SUBSET Docs
         /\ OneRowEach(Join(r, matches[r], results[r]), Labelled(r), RowOf(r))
         /\ \A d \in Labelled(r) : /\ RowOf(r)[d].label = Given(r, d).label
                                   /\ RowOf(r)[d].score = Given(r, d).score
                                   /\ RowOf(r)[d].low = Given(r, d).low
                                   /\ RowOf(r)[d].evidence =
                                        Evidence(Given(r, d).evidence, TextOf[d])
                                   /\ Given(r, d).evidence \in Seq(Seq(STRING))
                                   /\ Given(r, d).score \in Int
  <1>1. Labelled(r) \in SUBSET Docs
    BY DEF Labelled, IInv, Types
  <1>2. IsFiniteSet(Labelled(r))
    BY <1>1, AggregationAssumption, FS_Subset
  <1>3. \A d \in Labelled(r) : RowOf(r)[d].doc = d
    BY DEF RowOf
  <1>4. Join(r, matches[r], results[r]) = {RowOf(r)[d] : d \in Labelled(r)}
    BY DEF Join, RowOf, Labelled, Given
  <1>5. ASSUME NEW d \in Labelled(r)
        PROVE  Given(r, d).evidence \in Seq(Seq(STRING)) /\ Given(r, d).score \in Int
    <2>1. Given(r, d) \in Possible(results[r][d].by, d) /\ identity \in Configured
      BY DEF Labelled, Given, Typed
    <2>2. PICK q \in Runs : Given(r, d) \in Verdicts(q, d)
      BY <2>1, PossibleFacts
    <2>3. QED
      BY <1>1, <2>1, <2>2, VerdictsHavePhrases, VerdictsHaveScores
  <1>6. \A d \in Labelled(r) : /\ RowOf(r)[d].label = Given(r, d).label
                               /\ RowOf(r)[d].score = Given(r, d).score
                               /\ RowOf(r)[d].low = Given(r, d).low
                               /\ RowOf(r)[d].evidence = Evidence(Given(r, d).evidence, TextOf[d])
    BY DEF RowOf
  <1>7. QED
    BY <1>1, <1>2, <1>3, <1>4, <1>5, <1>6 DEF OneRowEach

(* The charts of one run, part by part.                                    *)
LEMMA ChartsAgree ==
  ASSUME IInv, Typed, Charted, NEW r \in Runs, charts[r] # NoCharts
  PROVE  LET c == charts[r] IN
        /\ c.total = Cardinality(Labelled(r)) /\ c.low + c.high = c.total
        /\ c.low = With(r, LAMBDA d, v : v.low)
        /\ \A l \in DOMAIN c.distribution :
             c.distribution[l] = With(r, LAMBDA d, v : v.label = l)
        /\ MapThenSumSet(LAMBDA l : c.distribution[l], DOMAIN c.distribution) = c.total
        /\ \A x \in DOMAIN c.subreddits :
             c.subreddits[x] = With(r, LAMBDA d, v : SubredditOf[d] = x[1] /\ v.label = x[2])
        /\ \A x \in DOMAIN c.heatmap :
             c.heatmap[x] = With(r, LAMBDA d, v : DayOf[d] = x[1] /\ SubredditOf[d] = x[2])
        /\ MapThenSumSet(LAMBDA x : c.heatmap[x], DOMAIN c.heatmap) = c.total
        /\ \A l \in DOMAIN c.phrases : \A i \in DOMAIN c.phrases[l] :
             \A k \in DOMAIN c.phrases[l][i] :
               /\ c.phrases[l][i][k] \notin ContextOf(r).stop \cup ContextOf(r).excluded
               /\ \E d \in Labelled(r) :
                    /\ Given(r, d).label = l
                    /\ \E word \in ToSet(TextOf[d]) : IsPart(c.phrases[l][i][k], word)
  <1> DEFINE rows == Join(r, matches[r], results[r])
             L == Labelled(r)
             row == RowOf(r)
             c == charts[r]
             label == [x \in rows |-> x.label]
             place == [x \in rows |-> <<SubredditOf[x.doc], x.label>>]
             day == [x \in rows |-> <<DayOf[x.doc], SubredditOf[x.doc]>>]
             unsure == {x \in rows : x.low}
  <1>1. /\ c.total = Cardinality(rows)
        /\ c.low = Cardinality(unsure) /\ c.high = Cardinality(rows) - Cardinality(unsure)
        /\ c.distribution = CountBy(rows, label)
        /\ c.subreddits = CountBy(rows, place)
        /\ c.heatmap = CountBy(rows, day)
        /\ c.phrases = PhraseBreakdown(rows, ContextOf(r))
    <2>1. c = Build(rows, ContextOf(r))
      BY DEF Charted
    <2>2. QED
      BY <2>1 DEF Build, Quantify
  <1>2. /\ IsFiniteSet(L) /\ L \in SUBSET Docs /\ OneRowEach(rows, L, row)
        /\ \A d \in L : /\ row[d].label = Given(r, d).label
                        /\ row[d].low = Given(r, d).low
                        /\ row[d].evidence = Evidence(Given(r, d).evidence, TextOf[d])
                        /\ Given(r, d).evidence \in Seq(Seq(STRING))
    BY RowsOfRun
  <1>3. /\ rows = {row[d] : d \in L} /\ \A d \in L : row[d] \in rows /\ row[d].doc = d
    BY <1>2 DEF OneRowEach
  <1>4. IsFiniteSet(rows) /\ \A A \in SUBSET L : Cardinality({row[d] : d \in A}) = Cardinality(A)
    BY <1>2, RowsAreDocuments
  <1> DEFINE labels == [d \in L |-> Given(r, d).label]
             places == [d \in L |-> <<SubredditOf[d], Given(r, d).label>>]
             days == [d \in L |-> <<DayOf[d], SubredditOf[d]>>]
  <1>5. \A d \in L : label[row[d]] = labels[d] /\ place[row[d]] = places[d] /\ day[row[d]] = days[d]
    BY <1>2, <1>3
  <1> HIDE DEF rows, L, row, c, label, place, day, unsure, labels, places, days
  <1>6. c.total = Cardinality(L)
    BY <1>1, <1>3, <1>4
  <1>7. c.low + c.high = c.total
    <2>1. unsure \in SUBSET rows
      BY DEF unsure
    <2>2. Cardinality(rows) \in Nat /\ Cardinality(unsure) \in Nat
      BY <1>4, <2>1, FS_Subset, FS_CardinalityType
    <2>3. QED
      BY <1>1, <2>2
  <1>8. c.low = With(r, LAMBDA d, v : v.low)
    <2> DEFINE A == {d \in L : Given(r, d).low}
    <2>1. unsure = {row[d] : d \in A} /\ A \in SUBSET L
      BY <1>2, <1>3 DEF unsure
    <2>2. With(r, LAMBDA d, v : v.low) = Cardinality(A)
      BY DEF With, Quantify, L
    <2> HIDE DEF A
    <2>3. QED
      BY <1>1, <1>4, <2>1, <2>2
  <1>9. Counts(c.distribution, L, labels)
    BY <1>1, <1>2, <1>5, DocumentsAreCounted
  <1>10. Counts(c.subreddits, L, places)
    BY <1>1, <1>2, <1>5, DocumentsAreCounted
  <1>11. Counts(c.heatmap, L, days)
    BY <1>1, <1>2, <1>5, DocumentsAreCounted
  <1>12. \A l : With(r, LAMBDA d, v : v.label = l) = Cardinality({d \in L : labels[d] = l})
    <2> SUFFICES ASSUME NEW l
                 PROVE  With(r, LAMBDA d, v : v.label = l) = Cardinality({d \in L : labels[d] = l})
      OBVIOUS
    <2>1. {d \in L : labels[d] = l} = {d \in L : Given(r, d).label = l}
      BY DEF labels
    <2>2. QED
      BY <2>1 DEF With, Quantify, L
  <1>13. ASSUME NEW x \in {places[d] : d \in L}
         PROVE  With(r, LAMBDA d, v : SubredditOf[d] = x[1] /\ v.label = x[2])
                  = Cardinality({d \in L : places[d] = x})
    <2>1. {d \in L : places[d] = x} = {d \in L : SubredditOf[d] = x[1] /\ Given(r, d).label = x[2]}
      BY DEF places
    <2>2. QED
      BY <2>1 DEF With, Quantify, L
  <1>14. ASSUME NEW x \in {days[d] : d \in L}
         PROVE  With(r, LAMBDA d, v : DayOf[d] = x[1] /\ SubredditOf[d] = x[2])
                  = Cardinality({d \in L : days[d] = x})
    <2>1. {d \in L : days[d] = x} = {d \in L : DayOf[d] = x[1] /\ SubredditOf[d] = x[2]}
      BY DEF days
    <2>2. QED
      BY <2>1 DEF With, Quantify, L
  <1>15. ASSUME NEW l \in DOMAIN c.phrases, NEW i \in DOMAIN c.phrases[l],
                NEW k \in DOMAIN c.phrases[l][i]
         PROVE  /\ c.phrases[l][i][k] \notin ContextOf(r).stop \cup ContextOf(r).excluded
                /\ \E d \in L :
                     /\ Given(r, d).label = l
                     /\ \E word \in ToSet(TextOf[d]) : IsPart(c.phrases[l][i][k], word)
    <2>1. \A x \in rows : /\ x.doc \in Docs
                          /\ \E p \in Seq(Seq(STRING)) : x.evidence = Evidence(p, TextOf[x.doc])
      BY <1>2, <1>3
    <2>2. /\ c.phrases[l][i][k] \notin Barred(ContextOf(r))
          /\ \E x \in rows : x.label = l /\ c.phrases[l][i][k] \in Parts(TextOf[x.doc])
      BY <1>1, <1>4, <2>1, BreakdownFacts
    <2>3. PICK d \in L : Given(r, d).label = l /\ c.phrases[l][i][k] \in Parts(TextOf[d])
      BY <1>2, <1>3, <2>2
    <2>4. \E word \in ToSet(TextOf[d]) : IsPart(c.phrases[l][i][k], word)
      BY <2>3, PartsFacts
    <2>5. QED
      BY <2>2, <2>3, <2>4 DEF Barred
  <1>16. /\ \A l \in DOMAIN c.distribution :
              c.distribution[l] = With(r, LAMBDA d, v : v.label = l)
         /\ MapThenSumSet(LAMBDA l : c.distribution[l], DOMAIN c.distribution) = c.total
    BY <1>6, <1>9, <1>12, Zenon DEF Counts, Total
  <1>17. \A x \in DOMAIN c.subreddits :
           c.subreddits[x] = With(r, LAMBDA d, v : SubredditOf[d] = x[1] /\ v.label = x[2])
    BY <1>10, <1>13, Zenon DEF Counts
  <1>18. /\ \A x \in DOMAIN c.heatmap :
              c.heatmap[x] = With(r, LAMBDA d, v : DayOf[d] = x[1] /\ SubredditOf[d] = x[2])
         /\ MapThenSumSet(LAMBDA x : c.heatmap[x], DOMAIN c.heatmap) = c.total
    BY <1>6, <1>11, <1>14, Zenon DEF Counts, Total
  <1>19. QED
    BY <1>6, <1>7, <1>8, <1>15, <1>16, <1>17, <1>18, Zenon DEF c, L

-----------------------------------------------------------------------------
(* The rolling averages and the spikes.                                    *)

(* Sums of scores and of fractions.                                        *)

IntPlus == [p \in Int \X Int |-> p[1] + p[2]]

(* Addition of numbers.                                                    *)
LEMMA IntPlusFacts ==
  /\ Unordered(Int, IntPlus)
  /\ \A a, b \in Int : IntPlus[<<a, b>>] = a + b
  <1>1. IntPlus \in [Int \X Int -> Int] /\ \A a, b \in Int : IntPlus[<<a, b>>] = a + b
    BY DEF IntPlus
  <1>2. QED
    BY <1>1 DEF Unordered

Fractions == [num : Int, den : Int]
FractionPlus == [p \in Fractions \X Fractions |-> Plus(p[1], p[2])]

(* Addition of fractions, which are not reduced.                           *)
LEMMA FractionPlusFacts ==
  /\ Unordered(Fractions, FractionPlus)
  /\ \A a, b \in Fractions : FractionPlus[<<a, b>>] = Plus(a, b) /\ Plus(a, b) \in Fractions
  <1>1. \A a, b \in Fractions : Plus(a, b) \in Fractions
    BY DEF Fractions, Plus, Fraction
  <1>2. \A a, b \in Fractions : FractionPlus[<<a, b>>] = Plus(a, b)
    BY DEF FractionPlus
  <1>3. FractionPlus \in [Fractions \X Fractions -> Fractions]
    BY <1>1 DEF FractionPlus
  <1>4. ASSUME NEW a \in Fractions, NEW b \in Fractions PROVE Plus(a, b) = Plus(b, a)
    BY DEF Fractions, Plus, Fraction
  <1>5. ASSUME NEW a \in Fractions, NEW b \in Fractions, NEW c \in Fractions
        PROVE  Plus(a, Plus(b, c)) = Plus(Plus(a, b), c)
    <2>1. /\ a.num \in Int /\ a.den \in Int /\ b.num \in Int /\ b.den \in Int
          /\ c.num \in Int /\ c.den \in Int
      BY DEF Fractions
    <2>2. \A p, q, s, t, u, v \in Int :
            /\ p * (t * v) + (s * v + u * t) * q = (p * t + s * q) * v + u * (q * t)
            /\ q * (t * v) = (q * t) * v
      OBVIOUS
    <2>3. /\ a.num * (b.den * c.den) + (b.num * c.den + c.num * b.den) * a.den
               = (a.num * b.den + b.num * a.den) * c.den + c.num * (a.den * b.den)
          /\ a.den * (b.den * c.den) = (a.den * b.den) * c.den
      BY <2>1, <2>2
    <2>4. QED
      BY <2>3 DEF Plus, Fraction
  <1>6. Unordered(Fractions, FractionPlus)
    <2>1. ASSUME NEW a \in Fractions, NEW b \in Fractions
          PROVE  FractionPlus[<<a, b>>] = FractionPlus[<<b, a>>]
      <3>1. FractionPlus[<<a, b>>] = Plus(a, b) /\ FractionPlus[<<b, a>>] = Plus(b, a)
        BY <1>2
      <3>2. QED
        BY <1>4, <3>1
    <2>2. ASSUME NEW a \in Fractions, NEW b \in Fractions, NEW c \in Fractions
          PROVE  FractionPlus[<<a, FractionPlus[<<b, c>>]>>]
                   = FractionPlus[<<FractionPlus[<<a, b>>], c>>]
      <3>1. Plus(a, b) \in Fractions /\ Plus(b, c) \in Fractions
        BY <1>1
      <3>2. /\ FractionPlus[<<a, b>>] = Plus(a, b) /\ FractionPlus[<<b, c>>] = Plus(b, c)
            /\ FractionPlus[<<a, Plus(b, c)>>] = Plus(a, Plus(b, c))
            /\ FractionPlus[<<Plus(a, b), c>>] = Plus(Plus(a, b), c)
        BY <1>2, <3>1
      <3>3. Plus(a, Plus(b, c)) = Plus(Plus(a, b), c)
        BY <1>5
      <3>4. QED
        BY <3>2, <3>3
    <2>3. QED
      BY <1>3, <2>1, <2>2 DEF Unordered
  <1>7. QED
    BY <1>1, <1>2, <1>6

(* The sum of scores.                                                      *)
LEMMA ScoresFacts ==
  ASSUME NEW S, IsFiniteSet(S), NEW f \in [S -> Int]
  PROVE  \E h \in [SUBSET S -> Int] : Sums(S, IntPlus, 0, f, h) /\ SumFunction(f) = h[S]
  <1>1. PICK h \in [SUBSET S -> Int] : Sums(S, IntPlus, 0, f, h)
    <2>1. Unordered(Int, IntPlus) /\ 0 \in Int
      BY IntPlusFacts
    <2>2. QED
      BY <2>1, SumsExist
  <1> DEFINE pick(U) == CHOOSE y \in U : TRUE
             iter == CHOOSE g : g = [U \in SUBSET S |->
                        IF U = {} THEN 0
                        ELSE LET x == CHOOSE y \in U : TRUE IN f[x] + g[U \ {x}]]
  <1>2. SumFunction(f) = iter[S]
    <2>1. DOMAIN f = S
      OBVIOUS
    <2>2. QED
      BY <2>1, Zenon DEF SumFunction, SumFunctionOnSet, FoldFunctionOnSet, MapThenFoldSet
  <1>3. \A U \in SUBSET S : U # {} => pick(U) \in U
    OBVIOUS
  <1> HIDE DEF pick
  <1>4. h[{}] = 0 /\ \A U \in SUBSET S : U # {} => h[U] = f[pick(U)] + h[U \ {pick(U)}]
    <2>1. ASSUME NEW U \in SUBSET S, U # {} PROVE h[U] = f[pick(U)] + h[U \ {pick(U)}]
      <3>1. h[U] = IntPlus[<<f[pick(U)], h[U \ {pick(U)}]>>]
        BY <1>1, <1>3, <2>1 DEF Sums
      <3>2. f[pick(U)] \in Int /\ h[U \ {pick(U)}] \in Int
        BY <1>1, <1>3, <2>1
      <3>3. QED
        BY <3>1, <3>2, IntPlusFacts
    <2>2. QED
      BY <1>1, <2>1 DEF Sums
  <1>5. h = [U \in SUBSET S |-> IF U = {} THEN 0 ELSE f[pick(U)] + h[U \ {pick(U)}]]
    <2>1. h = [U \in SUBSET S |-> h[U]]
      BY <1>1
    <2>2. QED
      BY <1>4, <2>1
  <1>6. iter = [U \in SUBSET S |-> IF U = {} THEN 0 ELSE f[pick(U)] + iter[U \ {pick(U)}]]
    BY <1>5, ZenonT(30) DEF pick
  <1> HIDE DEF iter
  <1>7. iter[{}] = h[{}]
    BY <1>4, <1>6
  <1>8. \A U \in SUBSET S : U # {} => \E x \in U : iter[U \ {x}] = h[U \ {x}] => iter[U] = h[U]
    <2>1. \A U \in SUBSET S : U # {} => iter[U] = f[pick(U)] + iter[U \ {pick(U)}]
      BY <1>6
    <2>2. QED
      BY <1>3, <1>4, <2>1, Zenon
  <1>9. iter[S] = h[S]
    BY <1>7, <1>8, FoldAgrees
  <1>10. QED
    BY <1>1, <1>2, <1>9

(* The sum of fractions.                                                   *)
LEMMA FractionsFacts ==
  ASSUME NEW S, IsFiniteSet(S), NEW f \in [S -> Fractions]
  PROVE  \E h \in [SUBSET S -> Fractions] : /\ Sums(S, FractionPlus, Fraction(0, 1), f, h)
                                            /\ FoldFunction(Plus, Fraction(0, 1), f) = h[S]
  <1>1. PICK h \in [SUBSET S -> Fractions] : Sums(S, FractionPlus, Fraction(0, 1), f, h)
    <2>1. Unordered(Fractions, FractionPlus) /\ Fraction(0, 1) \in Fractions
      BY FractionPlusFacts DEF Fractions, Fraction
    <2>2. QED
      BY <2>1, SumsExist
  <1> DEFINE pick(U) == CHOOSE y \in U : TRUE
             iter == CHOOSE g : g = [U \in SUBSET S |->
                        IF U = {} THEN Fraction(0, 1)
                        ELSE LET x == CHOOSE y \in U : TRUE IN Plus(f[x], g[U \ {x}])]
  <1>2. FoldFunction(Plus, Fraction(0, 1), f) = iter[S]
    <2>1. DOMAIN f = S
      OBVIOUS
    <2>2. QED
      BY <2>1, Zenon DEF FoldFunction, FoldFunctionOnSet, MapThenFoldSet
  <1>3. \A U \in SUBSET S : U # {} => pick(U) \in U
    OBVIOUS
  <1> HIDE DEF pick
  <1>4. /\ h[{}] = Fraction(0, 1)
        /\ \A U \in SUBSET S : U # {} => h[U] = Plus(f[pick(U)], h[U \ {pick(U)}])
    <2>1. ASSUME NEW U \in SUBSET S, U # {} PROVE h[U] = Plus(f[pick(U)], h[U \ {pick(U)}])
      <3>1. h[U] = FractionPlus[<<f[pick(U)], h[U \ {pick(U)}]>>]
        BY <1>1, <1>3, <2>1 DEF Sums
      <3>2. f[pick(U)] \in Fractions /\ h[U \ {pick(U)}] \in Fractions
        BY <1>1, <1>3, <2>1
      <3>3. QED
        BY <3>1, <3>2, FractionPlusFacts
    <2>2. QED
      BY <1>1, <2>1 DEF Sums
  <1>5. h = [U \in SUBSET S |-> IF U = {} THEN Fraction(0, 1)
                                      ELSE Plus(f[pick(U)], h[U \ {pick(U)}])]
    <2>1. h = [U \in SUBSET S |-> h[U]]
      BY <1>1
    <2>2. QED
      BY <1>4, <2>1
  <1>6. iter = [U \in SUBSET S |-> IF U = {} THEN Fraction(0, 1)
                                      ELSE Plus(f[pick(U)], iter[U \ {pick(U)}])]
    BY <1>5, ZenonT(30) DEF pick
  <1> HIDE DEF iter
  <1>7. iter[{}] = h[{}]
    BY <1>4, <1>6
  <1>8. \A U \in SUBSET S : U # {} => \E x \in U : iter[U \ {x}] = h[U \ {x}] => iter[U] = h[U]
    <2>1. \A U \in SUBSET S : U # {} => iter[U] = Plus(f[pick(U)], iter[U \ {pick(U)}])
      BY <1>6
    <2>2. QED
      BY <1>3, <1>4, <2>1, Zenon
  <1>9. iter[S] = h[S]
    BY <1>7, <1>8, FoldAgrees
  <1>10. QED
    BY <1>1, <1>2, <1>9

(* The average of the rows of a day is that of its documents.              *)
LEMMA AverageFacts ==
  ASSUME IInv, Typed, NEW r \in Runs, NEW day
  PROVE  /\ DailyAverage(Join(r, matches[r], results[r]), day) = AverageOf(r, day)
         /\ Cardinality(OfDay(Join(r, matches[r], results[r]), day)) = CountOf(r, day)
         /\ AverageOf(r, day) \in Fractions
         /\ AverageOf(r, day).den = CountOf(r, day) /\ CountOf(r, day) \in Nat
  <1> DEFINE rows == Join(r, matches[r], results[r])
             L == Labelled(r)
             row == RowOf(r)
             A == DocsOfDay(r, day)
             R == OfDay(rows, day)
             g == [d \in A |-> row[d]]
             e == [d \in A |-> Given(r, d).score]
             f == [x \in R |-> x.score]
  <1>1. /\ IsFiniteSet(L) /\ OneRowEach(rows, L, row)
        /\ \A d \in L : row[d].score = Given(r, d).score /\ Given(r, d).score \in Int
    BY RowsOfRun
  <1>2. rows = {row[d] : d \in L} /\ \A d \in L : row[d].doc = d
    BY <1>1 DEF OneRowEach
  <1>3. A \in SUBSET L /\ \A d \in L : d \in A <=> DayOf[d] = day
    BY DEF DocsOfDay
  <1>4. \A x : x \in R <=> x \in rows /\ DayOf[x.doc] = day
    BY DEF OfDay
  <1>5. /\ \A d \in A : g[d] = row[d] /\ e[d] = Given(r, d).score
        /\ \A x \in R : f[x] = x.score
        /\ DOMAIN g = A /\ DOMAIN f = R
    OBVIOUS
  <1>6. f = [x \in R |-> x.score] /\ e = [d \in A |-> Given(r, d).score]
        /\ g = [d \in A |-> g[d]]
    OBVIOUS
  <1>7. /\ Cardinality(A) = CountOf(r, day)
        /\ AverageOf(r, day) = Fraction(SumFunction(e), Cardinality(A))
        /\ DailyAverage(rows, day) = Fraction(SumFunction(f), Cardinality(R))
    BY DEF CountOf, AverageOf, DailyAverage, Scores
  <1> HIDE DEF rows, L, row, A, R, g, e, f
  <1>8. R = {row[d] : d \in A}
    BY <1>2, <1>3, <1>4
  <1>9. IsFiniteSet(A) /\ Cardinality(R) = Cardinality(A) /\ IsFiniteSet(rows)
    BY <1>1, <1>3, <1>8, RowsAreDocuments, FS_Subset
  <1>10. IsFiniteSet(R) /\ Cardinality(A) \in Nat
    BY <1>4, <1>9, FS_Subset, FS_CardinalityType
  <1>11. e \in [A -> Int]
    BY <1>1, <1>3, <1>5, <1>6
  <1>12. \A x \in R : x.score \in Int
    BY <1>1, <1>3, <1>8
  <1>13. f \in [R -> Int]
    BY <1>6, <1>12
  <1>14. g \in [A -> R]
    BY <1>5, <1>6, <1>8
  <1>15. \A a, b \in A : g[a] = g[b] => a = b
    BY <1>2, <1>3, <1>5
  <1>16. \A a \in A : e[a] = f[g[a]]
    BY <1>1, <1>3, <1>5, <1>14
  <1>17. PICK k \in [SUBSET A -> Int] : Sums(A, IntPlus, 0, e, k) /\ SumFunction(e) = k[A]
    BY <1>9, <1>11, ScoresFacts
  <1>18. PICK h \in [SUBSET R -> Int] : Sums(R, IntPlus, 0, f, h) /\ SumFunction(f) = h[R]
    BY <1>10, <1>13, ScoresFacts
  <1>19. k[A] = h[{g[a] : a \in A}]
    BY <1>9, <1>14, <1>15, <1>16, <1>17, <1>18, SumOfImage
  <1>20. {g[a] : a \in A} = R
    BY <1>5, <1>8
  <1>21. SumFunction(e) = SumFunction(f) /\ SumFunction(e) \in Int
    BY <1>17, <1>18, <1>19, <1>20
  <1>22. Cardinality(R) = CountOf(r, day) /\ AverageOf(r, day) = DailyAverage(rows, day)
    BY <1>7, <1>9, <1>21
  <1>23. AverageOf(r, day) \in Fractions /\ AverageOf(r, day).den = CountOf(r, day)
    BY <1>7, <1>10, <1>21 DEF Fraction, Fractions
  <1>24. QED
    BY <1>7, <1>10, <1>22, <1>23 DEF rows, R

(* The days of the rows are those of the documents, in order.              *)
LEMMA DaysFacts ==
  ASSUME IInv, Typed, NEW r \in Runs
  PROVE  /\ Cardinality(Shown(r)) \in Nat /\ IsFiniteSet(Shown(r)) /\ Shown(r) \in SUBSET Int
         /\ Ascends(DaysOf(Join(r, matches[r], results[r])), Cardinality(Shown(r)))
         /\ Shown(r) = {DaysOf(Join(r, matches[r], results[r]))[i] : i \in 1..Cardinality(Shown(r))}
         /\ DaysOf(Join(r, matches[r], results[r])) \in [1..Cardinality(Shown(r)) -> Shown(r)]
  <1> DEFINE rows == Join(r, matches[r], results[r])
             L == Labelled(r)
             row == RowOf(r)
             days == Ascending[Shown(r)]
             n == Cardinality(Shown(r))
  <1>1. IsFiniteSet(L) /\ L \in SUBSET Docs /\ OneRowEach(rows, L, row)
    BY RowsOfRun
  <1>2. rows = {row[d] : d \in L} /\ \A d \in L : row[d].doc = d
    BY <1>1 DEF OneRowEach
  <1>3. \A d \in L : DayOf[d] \in Int
    <2>1. DayOf \in [Docs -> Days] /\ Days \subseteq Nat
      BY AggregationAssumption
    <2>2. \A d \in L : d \in Docs
      BY <1>1
    <2> HIDE DEF L
    <2>3. \A d \in L : DayOf[d] \in Nat
      BY <2>1, <2>2
    <2>4. QED
      BY <2>3
  <1>4. Shown(r) = {DayOf[d] : d \in L}
    BY DEF Shown
  <1>5. DaysOf(rows) = Ascending[{DayOf[x.doc] : x \in rows}]
    BY DEF DaysOf
  <1> HIDE DEF rows, L, row
  <1>6. {DayOf[x.doc] : x \in rows} = {DayOf[d] : d \in L}
    BY <1>2
  <1>7. Shown(r) \in SUBSET Int /\ DaysOf(rows) = days
    BY <1>3, <1>4, <1>5, <1>6
  <1>8. IsFiniteSet(Shown(r))
    <2> DEFINE dayOf == [d \in L |-> DayOf[d]]
    <2>1. dayOf \in [L -> Shown(r)] /\ \A x \in Shown(r) : \E d \in L : dayOf[d] = x
      BY <1>4
    <2> HIDE DEF dayOf
    <2>2. dayOf \in Surjection(L, Shown(r))
      BY <2>1 DEF Surjection
    <2>3. QED
      BY <1>1, <2>2, FS_Surjection
  <1>9. /\ Enumerates(days, Shown(r))
        /\ \A i, j \in 1..n : i < j <=> days[i] < days[j]
    BY <1>7, <1>8, AscendingFacts
  <1> HIDE DEF days
  <1>10. n \in Nat /\ days \in [1..n -> Shown(r)] /\ \A x \in Shown(r) : \E i \in 1..n : days[i] = x
    BY <1>9 DEF Enumerates
  <1> HIDE DEF n
  <1>11. days \in [1..n -> Int]
    BY <1>7, <1>10
  <1>12. Ascends(days, n)
    BY <1>9, <1>11 DEF Ascends, n
  <1>13. Shown(r) = {days[i] : i \in 1..n}
    BY <1>10
  <1>14. QED
    BY <1>7, <1>8, <1>10, <1>12, <1>13 DEF n, rows

(* The first of an ascending sequence are those that few come before.      *)
LEMMA FirstOfAscending ==
  ASSUME NEW s \in Seq(Int), Ascends(s, Len(s)), NEW m \in Nat
  PROVE  ToSet(First(s, m)) = {x \in ToSet(s) : Cardinality({y \in ToSet(s) : y < x}) < m}
  <1> DEFINE n == Len(s)
             least == IF n < m THEN n ELSE m
  <1>1. n \in Nat /\ DOMAIN s = 1..n /\ least \in 0..n
    OBVIOUS
  <1>2. /\ DOMAIN First(s, m) = 1..least
        /\ \A i \in 1..least : First(s, m)[i] = s[i]
    BY DEF First
  <1>3. ToSet(First(s, m)) = {s[i] : i \in 1..least}
    BY <1>2 DEF ToSet
  <1>4. ToSet(s) = {s[i] : i \in 1..n}
    BY <1>1 DEF ToSet
  <1>5. ASSUME NEW i \in 1..n PROVE Cardinality({y \in ToSet(s) : y < s[i]}) = i - 1
    <2>1. \A j \in 1..n : s[j] < s[i] <=> j \in 1..(i - 1)
      <3>1. \A j \in 1..n : (s[j] < s[i] => j < i) /\ (j < i => s[j] < s[i])
        BY <1>1, AscendsFacts DEF Ascends
      <3>2. QED
        BY <3>1
    <2>2. \A j \in 1..(i - 1) : j \in 1..n
      OBVIOUS
    <2>3. {y \in ToSet(s) : y < s[i]} = {s[j] : j \in 1..(i - 1)}
      BY <1>4, <2>1, <2>2
    <2>4. Span(s, 0, i - 1) = {s[j] : j \in 1..(i - 1)}
      BY DEF Span
    <2>5. 0 \in 0..n /\ i - 1 \in 0..n /\ 0 <= i - 1 /\ (i - 1) - 0 = i - 1 /\ Ascends(s, n)
      OBVIOUS
    <2> HIDE DEF n
    <2>6. Cardinality(Span(s, 0, i - 1)) = (i - 1) - 0
      BY <1>1, <2>5, AscendsFacts
    <2>7. QED
      BY <2>3, <2>4, <2>5, <2>6
  <1>6. \A i \in 1..n : i \in 1..least <=> i - 1 < m
    BY <1>1
  <1>7. 1..least \subseteq 1..n
    BY <1>1
  <1> HIDE DEF least, n
  <1>8. QED
    BY <1>3, <1>4, <1>5, <1>6, <1>7

(* The change a day is compared by, and the test for a spike.              *)
Change(average, previous) ==
    IF previous = <<>> THEN Fraction(0, 1) ELSE Minus(average, previous[1])
IsSpike(rows, d, previous) ==
    \/ /\ Cardinality(OfDay(rows, d)) >= 2
       /\ AtLeast(Fraction(Cardinality(OfDay(rows, d)) - 1, 1),
                  Fraction(Cardinality(rows), Len(DaysOf(rows))))
    \/ AtLeast(Magnitude(Change(DailyAverage(rows, d), previous)), Fraction(3, 4))

(* One turn of the loop of _build_spike_events.                            *)
SpikeStep(rows, acc, d) ==
    [previous |-> <<DailyAverage(rows, d)>>,
     items |-> IF IsSpike(rows, d, acc.previous) THEN Append(acc.items, d) ELSE acc.items]

Before(rows, i) == IF i = 1 THEN <<>> ELSE <<DailyAverage(rows, DaysOf(rows)[i - 1])>>
SpikePlaces(rows, i) == {j \in 1..i : IsSpike(rows, DaysOf(rows)[j], Before(rows, j))}

(* The loop of _build_spike_events, day by day.                            *)
LEMMA SpikesFold ==
  ASSUME NEW rows, NEW n \in Nat, DaysOf(rows) \in [1..n -> Int]
  PROVE  \E h : /\ Spikes(rows) = First(h[1..n].items, MaxSpikes)
                /\ h[1..0] = [previous |-> <<>>, items |-> <<>>]
                /\ \A i \in 1..n : h[1..i] = SpikeStep(rows, h[1..(i - 1)], DaysOf(rows)[i])
  <1> DEFINE days == DaysOf(rows)
             base == [previous |-> <<>>, items |-> <<>>]
             Values == {<<>>} \cup {<<DailyAverage(rows, days[i])>> : i \in 1..n}
             V == [previous : Values, items : Seq(Int)]
             op == [p \in (1..n) \X V |-> SpikeStep(rows, p[2], days[p[1]])]
             iter == CHOOSE g : g = [T \in SUBSET (1..n) |->
                        IF T = {} THEN base
                        ELSE LET x == Max(T) IN SpikeStep(rows, g[T \ {x}], days[x])]
  <1>1. base \in V
    OBVIOUS
  <1>2. \A i \in 1..n : \A v \in V :
          SpikeStep(rows, v, days[i]) \in V /\ op[<<i, v>>] = SpikeStep(rows, v, days[i])
    <2> SUFFICES ASSUME NEW i \in 1..n, NEW v \in V
                 PROVE  SpikeStep(rows, v, days[i]) \in V
      OBVIOUS
    <2>1. v.items \in Seq(Int) /\ days[i] \in Int /\ <<DailyAverage(rows, days[i])>> \in Values
      OBVIOUS
    <2> HIDE DEF Values, days
    <2>2. QED
      BY <2>1 DEF SpikeStep
  <1>3. op \in [(1..n) \X V -> V]
    <2> HIDE DEF V
    <2>1. QED
      BY <1>2
  <1>4. Spikes(rows) = First(iter[1..n].items, MaxSpikes)
    <2>1. DOMAIN days = 1..n
      OBVIOUS
    <2>2. Spikes(rows) = First(iter[DOMAIN days].items, MaxSpikes)
      BY <2>1, Zenon DEF Spikes, FoldLeft, MapThenFoldSet, SpikeStep, IsSpike, Change
    <2>3. QED
      BY <2>1, <2>2
  <1> HIDE DEF V, base, op
  <1>5. PICK h \in [SUBSET (1..n) -> V] : IsLeftFold(n, base, op, h)
    BY <1>1, <1>3, LeftFolds
  <1>6. \A T \in SUBSET (1..n) : T # {} =>
          op[<<Max(T), h[T \ {Max(T)}]>>] = SpikeStep(rows, h[T \ {Max(T)}], days[Max(T)])
    BY <1>2, <1>5, MaxFacts
  <1>7. h = [T \in SUBSET (1..n) |->
               IF T = {} THEN base ELSE SpikeStep(rows, h[T \ {Max(T)}], days[Max(T)])]
    BY <1>5, <1>6 DEF IsLeftFold
  <1> HIDE DEF days
  <1>8. iter = [T \in SUBSET (1..n) |->
                  IF T = {} THEN base ELSE SpikeStep(rows, iter[T \ {Max(T)}], days[Max(T)])]
    BY <1>7, ZenonT(30)
  <1> HIDE DEF iter
  <1>9. 1..0 = {} /\ {} \in SUBSET (1..n)
    OBVIOUS
  <1>10. iter[1..0] = base
    BY <1>8, <1>9
  <1>11. ASSUME NEW i \in 1..n PROVE iter[1..i] = SpikeStep(rows, iter[1..(i - 1)], days[i])
    <2>1. 1..i \in SUBSET (1..n) /\ i \in Nat /\ i # 0
      OBVIOUS
    <2>2. 1..i # {} /\ Max(1..i) = i /\ (1..i) \ {i} = 1..(i - 1)
      BY <2>1, LastPlace
    <2>3. QED
      BY <1>8, <2>1, <2>2
  <1>12. QED
    BY <1>4, <1>10, <1>11 DEF base, days

(* The loop collects the spikes in order.                                  *)
LEMMA SpikesFacts ==
  ASSUME NEW rows, NEW n \in Nat, Ascends(DaysOf(rows), n)
  PROVE  \E items \in Seq(Int) :
           /\ Ascends(items, Len(items)) /\ Spikes(rows) = First(items, MaxSpikes)
           /\ ToSet(items) = {DaysOf(rows)[j] : j \in SpikePlaces(rows, n)}
  <1> DEFINE days == DaysOf(rows)
  <1>1. days \in [1..n -> Int] /\ \A i, j \in 1..n : i < j => days[i] < days[j]
    BY DEF Ascends
  <1>2. PICK h : /\ Spikes(rows) = First(h[1..n].items, MaxSpikes)
                 /\ h[1..0] = [previous |-> <<>>, items |-> <<>>]
                 /\ \A i \in 1..n : h[1..i] = SpikeStep(rows, h[1..(i - 1)], days[i])
    BY <1>1, SpikesFold
  <1> DEFINE Collected(i) == {days[j] : j \in SpikePlaces(rows, i)}
             Good(i) == /\ h[1..i].previous = Before(rows, i + 1)
                        /\ h[1..i].items \in Seq(Int)
                        /\ Ascends(h[1..i].items, Len(h[1..i].items))
                        /\ ToSet(h[1..i].items) = Collected(i)
             K == {i \in 0..n : Good(i)}
  <1>3. 0 \in K
    <2>1. Before(rows, 0 + 1) = <<>> /\ SpikePlaces(rows, 0) = {}
      BY DEF Before, SpikePlaces
    <2>2. <<>> \in Seq(Int) /\ Len(<<>>) = 0 /\ ToSet(<<>>) = {} /\ Ascends(<<>>, 0)
      BY DEF ToSet, Ascends
    <2>3. h[1..0].previous = <<>> /\ h[1..0].items = <<>> /\ 0 \in 0..n
      BY <1>2
    <2>4. Collected(0) = {}
      BY <2>1
    <2> HIDE DEF Collected
    <2>5. QED
      BY <2>1, <2>2, <2>3, <2>4
  <1>4. ASSUME NEW i \in 0..(n - 1), i \in K PROVE i + 1 \in K
    <2> DEFINE it == h[1..i].items
               day == days[i + 1]
    <2>1. i + 1 \in 1..n /\ (i + 1) - 1 = i /\ i + 1 \in 0..n /\ (i + 1) + 1 # 1
          /\ ((i + 1) + 1) - 1 = i + 1 /\ i \in Nat
      OBVIOUS
    <2>2. /\ h[1..i].previous = Before(rows, i + 1) /\ it \in Seq(Int)
          /\ Ascends(it, Len(it)) /\ ToSet(it) = Collected(i)
      BY <1>4
    <2>3. h[1..(i + 1)] = SpikeStep(rows, h[1..i], day)
      BY <1>2, <2>1
    <2>4. /\ h[1..(i + 1)].previous = <<DailyAverage(rows, day)>>
          /\ h[1..(i + 1)].items = IF IsSpike(rows, day, Before(rows, i + 1))
                                   THEN Append(it, day) ELSE it
      BY <2>2, <2>3 DEF SpikeStep
    <2>5. Before(rows, (i + 1) + 1) = <<DailyAverage(rows, day)>>
      BY <2>1 DEF Before
    <2>6. day \in Int /\ \A y \in Collected(i) : y < day
      BY <1>1, <2>1 DEF SpikePlaces
    <2>7. CASE IsSpike(rows, day, Before(rows, i + 1))
      <3>1. SpikePlaces(rows, i + 1) = SpikePlaces(rows, i) \cup {i + 1}
        BY <2>1, <2>7 DEF SpikePlaces
      <3>2. Collected(i + 1) = Collected(i) \cup {day}
        BY <3>1
      <3> HIDE DEF Collected, days
      <3>3. /\ Append(it, day) \in Seq(Int) /\ Ascends(Append(it, day), Len(Append(it, day)))
            /\ ToSet(Append(it, day)) = Collected(i) \cup {day}
        BY <2>2, <2>6, AppendAscends
      <3>4. h[1..(i + 1)].items = Append(it, day)
        BY <2>4, <2>7
      <3>5. Good(i + 1)
        BY <2>4, <2>5, <3>2, <3>3, <3>4
      <3>6. QED
        BY <2>1, <3>5
    <2>8. CASE ~IsSpike(rows, day, Before(rows, i + 1))
      <3>1. SpikePlaces(rows, i + 1) = SpikePlaces(rows, i)
        BY <2>1, <2>8 DEF SpikePlaces
      <3>2. Collected(i + 1) = Collected(i)
        BY <3>1
      <3> HIDE DEF Collected, days
      <3>3. h[1..(i + 1)].items = it
        BY <2>4, <2>8
      <3>4. Good(i + 1)
        BY <2>2, <2>4, <2>5, <3>2, <3>3
      <3>5. QED
        BY <2>1, <3>4
    <2>9. QED
      BY <2>7, <2>8
  <1>5. n \in K
    <2> HIDE DEF K
    <2>1. n \in 0..n
      OBVIOUS
    <2>2. QED
      BY <1>3, <1>4, <2>1, BoundedInduction
  <1>6. Good(n)
    BY <1>5
  <1>7. QED
    BY <1>2, <1>6

(* The days before the i-th.                                               *)
DaysBefore(E, days, n, i) == \A e : e \in E <=> \E j \in 1..n : e = days[j] /\ e < days[i]

(* The largest of them is the one before it, unless it is the first.       *)
LEMMA EarlierDays ==
  ASSUME NEW n \in Nat, NEW days, Ascends(days, n), NEW i \in 1..n,
         NEW E, DaysBefore(E, days, n, i)
  PROVE  /\ E # {} <=> i # 1
         /\ i # 1 => Max(E) = days[i - 1]
  <1>1. \A j, k \in 1..n : (days[j] <= days[k] <=> j <= k) /\ (days[j] < days[k] <=> j < k)
    BY AscendsFacts DEF Ascends
  <1>2. \A e : e \in E <=> \E j \in 1..n : e = days[j] /\ j < i
    BY <1>1 DEF DaysBefore
  <1>3. \A j \in 1..n : days[j] \in Int
    BY DEF Ascends
  <1>4. E # {} => i # 1
    BY <1>2
  <1>5. ASSUME i # 1 PROVE E # {} /\ Max(E) = days[i - 1]
    <2>1. i - 1 \in 1..n /\ i - 1 < i
      BY <1>5
    <2>2. days[i - 1] \in E
      BY <1>2, <2>1
    <2>3. \A e \in E : days[i - 1] >= e
      <3> SUFFICES ASSUME NEW j \in 1..n, j < i PROVE days[i - 1] >= days[j]
        BY <1>2
      <3>1. j <= i - 1
        OBVIOUS
      <3>2. days[j] <= days[i - 1] /\ days[j] \in Int /\ days[i - 1] \in Int
        BY <1>1, <1>3, <2>1, <3>1
      <3>3. QED
        BY <3>2
    <2>4. \A e \in E : e \in Int
      BY <1>2, <1>3
    <2>5. Max(E) \in E /\ \A e \in E : Max(E) >= e
      BY <2>2, <2>3, Zenon DEF Max
    <2>6. Max(E) >= days[i - 1] /\ days[i - 1] >= Max(E)
      BY <2>2, <2>3, <2>5
    <2>7. QED
      BY <2>2, <2>4, <2>5, <2>6
  <1>6. QED
    BY <1>4, <1>5

(* A change of three quarters, up or down.                                 *)
LEMMA JumpFacts ==
  ASSUME NEW gap \in Fractions, gap.den >= 0
  PROVE  AtLeast(Magnitude(gap), Fraction(3, 4))
           <=> 4 * gap.num >= 3 * gap.den \/ 4 * gap.num <= -3 * gap.den
  <1>1. gap.num \in Int /\ gap.den \in Int
    BY DEF Fractions
  <1>2. AtLeast(Magnitude(gap), Fraction(3, 4))
          <=> (IF gap.num < 0 THEN -gap.num ELSE gap.num) * 4 >= 3 * gap.den
    BY DEF AtLeast, Magnitude, Fraction
  <1>3. QED
    BY <1>1, <1>2

(* The difference of two averages.                                         *)
LEMMA MinusFacts ==
  ASSUME NEW a \in Fractions, NEW b \in Fractions, a.den \in Nat, b.den \in Nat
  PROVE  Minus(a, b) \in Fractions /\ Minus(a, b).den >= 0
  <1>1. \A x, y \in Nat : x * y \in Nat
    OBVIOUS
  <1>2. a.num \in Int /\ b.num \in Int /\ a.den * b.den \in Nat
    BY <1>1 DEF Fractions
  <1>3. Minus(a, b).den = a.den * b.den /\ Minus(a, b).den \in Int /\ Minus(a, b).num \in Int
    BY <1>2 DEF Minus, Fraction
  <1>4. Minus(a, b) \in Fractions
    BY <1>2 DEF Minus, Fraction, Fractions
  <1>5. QED
    BY <1>2, <1>3, <1>4

(* The test of the loop for the i-th day is that of the property.          *)
LEMMA SpikesAgree ==
  ASSUME IInv, Typed, NEW r \in Runs, NEW i \in 1..Cardinality(Shown(r))
  PROVE  LET rows == Join(r, matches[r], results[r])
             day == DaysOf(rows)[i]
         IN  IsSpike(rows, day, Before(rows, i)) <=> Busy(r, day) \/ Jumps(r, day)
  <1> DEFINE rows == Join(r, matches[r], results[r])
             days == DaysOf(rows)
             n == Cardinality(Shown(r))
             day == days[i]
             E == Earlier(r, day)
             count == CountOf(r, day)
             change == Change(DailyAverage(rows, day), Before(rows, i))
  <1>1. /\ n \in Nat /\ Ascends(days, n) /\ Shown(r) = {days[j] : j \in 1..n}
        /\ days \in [1..n -> Shown(r)]
    BY DaysFacts
  <1>2. \A d : /\ DailyAverage(rows, d) = AverageOf(r, d)
               /\ Cardinality(OfDay(rows, d)) = CountOf(r, d)
               /\ AverageOf(r, d) \in Fractions
               /\ AverageOf(r, d).den = CountOf(r, d) /\ CountOf(r, d) \in Nat
    BY AverageFacts
  <1>3. Cardinality(rows) = Cardinality(Labelled(r)) /\ Cardinality(Labelled(r)) \in Nat
    <2>1. IsFiniteSet(Labelled(r)) /\ OneRowEach(rows, Labelled(r), RowOf(r))
      BY RowsOfRun
    <2>2. rows = {RowOf(r)[d] : d \in Labelled(r)}
      BY <2>1 DEF OneRowEach
    <2> HIDE DEF rows
    <2>3. \A A \in SUBSET Labelled(r) : Cardinality({RowOf(r)[d] : d \in A}) = Cardinality(A)
      BY <2>1, RowsAreDocuments
    <2>4. QED
      BY <2>1, <2>2, <2>3, FS_CardinalityType
  <1>4. Len(days) = n
    <2> HIDE DEF days, n
    <2>1. QED
      BY <1>1
  <1>5. IsSpike(rows, day, Before(rows, i)) <=>
          \/ count >= 2 /\ AtLeast(Fraction(count - 1, 1), Fraction(Cardinality(rows), Len(days)))
          \/ AtLeast(Magnitude(change), Fraction(3, 4))
    BY <1>2 DEF IsSpike
  <1>6. Busy(r, day) <=> count >= 2 /\ n * (count - 1) >= Cardinality(Labelled(r))
    BY DEF Busy
  <1>7. E = {e \in Shown(r) : e < day}
    BY DEF Earlier
  <1>8. Before(rows, i) = IF i = 1 THEN <<>> ELSE <<AverageOf(r, days[i - 1])>>
    BY <1>2 DEF Before
  <1>9. count \in Nat
    BY <1>2
  <1> HIDE DEF rows, days, n, E, count
  <1>10. AtLeast(Fraction(count - 1, 1), Fraction(Cardinality(rows), Len(days)))
           <=> n * (count - 1) >= Cardinality(Labelled(r))
    BY <1>1, <1>3, <1>4, <1>9 DEF AtLeast, Fraction
  <1>11. (E # {} <=> i # 1) /\ (i # 1 => Max(E) = days[i - 1])
    <2>1. DaysBefore(E, days, n, i)
      BY <1>1, <1>7 DEF DaysBefore
    <2>2. i \in 1..n
      BY DEF n
    <2>3. QED
      BY <1>1, <2>1, <2>2, EarlierDays
  <1>12. Jumps(r, day) <=> AtLeast(Magnitude(change), Fraction(3, 4))
    <2>1. CASE i = 1
      <3>1. change = Fraction(0, 1) /\ ~Jumps(r, day)
        BY <1>8, <1>11, <2>1 DEF Change, Jumps, E
      <3>2. ~AtLeast(Magnitude(Fraction(0, 1)), Fraction(3, 4))
        BY DEF AtLeast, Magnitude, Fraction
      <3>3. QED
        BY <3>1, <3>2
    <2>2. CASE i # 1
      <3> DEFINE gap == Minus(AverageOf(r, day), AverageOf(r, days[i - 1]))
      <3>1. change = gap
        BY <1>2, <1>8, <2>2 DEF Change
      <3>2. gap \in Fractions /\ gap.den >= 0
        BY <1>2, MinusFacts
      <3>3. Jumps(r, day) <=> 4 * gap.num >= 3 * gap.den \/ 4 * gap.num <= -3 * gap.den
        BY <1>11, <2>2 DEF Jumps, E
      <3> HIDE DEF gap, change
      <3>4. QED
        BY <3>1, <3>2, <3>3, JumpFacts
    <2>3. QED
      BY <2>1, <2>2
  <1>13. QED
    BY <1>5, <1>6, <1>10, <1>12 DEF rows, days, count, n

(* One turn of the loop of _build_rolling_timeline.                        *)
RollStep(rows, acc, d) ==
    LET longer == Append(acc.window, DailyAverage(rows, d))
        window == IF Len(longer) > RollingWindow THEN Tail(longer) ELSE longer
    IN  [window |-> window,
         items |-> Append(acc.items, [date |-> d, average |-> Mean(window)])]

(* The loop of _build_rolling_timeline, day by day.                        *)
LEMMA RollingFold ==
  ASSUME NEW rows, NEW n \in Nat, DaysOf(rows) \in [1..n -> Int]
  PROVE  \E h : /\ Rolling(rows) = h[1..n].items
                /\ h[1..0] = [window |-> <<>>, items |-> <<>>]
                /\ \A i \in 1..n : h[1..i] = RollStep(rows, h[1..(i - 1)], DaysOf(rows)[i])
  <1> DEFINE days == DaysOf(rows)
             base == [window |-> <<>>, items |-> <<>>]
             Values == {DailyAverage(rows, days[i]) : i \in 1..n}
             Items == {[date |-> days[p[1]], average |-> Mean(p[2])] : p \in (1..n) \X Seq(Values)}
             V == [window : Seq(Values), items : Seq(Items)]
             op == [p \in (1..n) \X V |-> RollStep(rows, p[2], days[p[1]])]
             iter == CHOOSE g : g = [T \in SUBSET (1..n) |->
                        IF T = {} THEN base
                        ELSE LET x == Max(T) IN RollStep(rows, g[T \ {x}], days[x])]
  <1>1. base \in V
    OBVIOUS
  <1>2. ASSUME NEW i \in 1..n, NEW v \in V PROVE RollStep(rows, v, days[i]) \in V
    <2> DEFINE longer == Append(v.window, DailyAverage(rows, days[i]))
               window == IF Len(longer) > RollingWindow THEN Tail(longer) ELSE longer
               item == [date |-> days[i], average |-> Mean(window)]
    <2>1. v.window \in Seq(Values) /\ v.items \in Seq(Items)
          /\ DailyAverage(rows, days[i]) \in Values
      OBVIOUS
    <2>2. RollStep(rows, v, days[i]) = [window |-> window, items |-> Append(v.items, item)]
      BY DEF RollStep
    <2> HIDE DEF Values
    <2>3. longer \in Seq(Values) /\ Len(longer) > 0
      BY <2>1
    <2> HIDE DEF longer
    <2>4. window \in Seq(Values)
      BY <2>3
    <2> HIDE DEF window
    <2>5. item \in Items
      <3>1. <<i, window>> \in (1..n) \X Seq(Values)
        BY <2>4
      <3>2. item = [date |-> days[<<i, window>>[1]], average |-> Mean(<<i, window>>[2])]
        OBVIOUS
      <3>3. QED
        BY <3>1, <3>2, Zenon
    <2> HIDE DEF item, Items
    <2>6. Append(v.items, item) \in Seq(Items)
      BY <2>1, <2>5
    <2>7. QED
      BY <2>2, <2>4, <2>6
  <1>3. op \in [(1..n) \X V -> V]
    <2> HIDE DEF V
    <2>1. QED
      BY <1>2
  <1>4. Rolling(rows) = iter[1..n].items
    <2>1. DOMAIN days = 1..n
      OBVIOUS
    <2>2. Rolling(rows) = iter[DOMAIN days].items
      BY <2>1, Zenon DEF Rolling, FoldLeft, MapThenFoldSet, RollStep
    <2>3. QED
      BY <2>1, <2>2
  <1> HIDE DEF V, base
  <1>5. \A i \in 1..n : \A v \in V : op[<<i, v>>] = RollStep(rows, v, days[i])
    OBVIOUS
  <1> HIDE DEF op
  <1>6. PICK h \in [SUBSET (1..n) -> V] : IsLeftFold(n, base, op, h)
    BY <1>1, <1>3, LeftFolds
  <1>7. \A T \in SUBSET (1..n) : T # {} =>
          op[<<Max(T), h[T \ {Max(T)}]>>] = RollStep(rows, h[T \ {Max(T)}], days[Max(T)])
    BY <1>5, <1>6, MaxFacts
  <1>8. h = [T \in SUBSET (1..n) |->
               IF T = {} THEN base ELSE RollStep(rows, h[T \ {Max(T)}], days[Max(T)])]
    BY <1>6, <1>7 DEF IsLeftFold
  <1> HIDE DEF days
  <1>9. iter = [T \in SUBSET (1..n) |->
                  IF T = {} THEN base ELSE RollStep(rows, iter[T \ {Max(T)}], days[Max(T)])]
    BY <1>8, ZenonT(30)
  <1> HIDE DEF iter
  <1>10. 1..0 = {} /\ {} \in SUBSET (1..n)
    OBVIOUS
  <1>11. iter[1..0] = base
    BY <1>9, <1>10
  <1>12. ASSUME NEW i \in 1..n PROVE iter[1..i] = RollStep(rows, iter[1..(i - 1)], days[i])
    <2>1. 1..i \in SUBSET (1..n) /\ i \in Nat /\ i # 0
      OBVIOUS
    <2>2. 1..i # {} /\ Max(1..i) = i /\ (1..i) \ {i} = 1..(i - 1)
      BY <2>1, LastPlace
    <2>3. QED
      BY <1>9, <2>1, <2>2
  <1>13. QED
    BY <1>4, <1>11, <1>12 DEF base, days

(* The window after i days: the last averages, as many as it holds.        *)
Width(i) == IF i < RollingWindow THEN i ELSE RollingWindow
Recent(rows, i) ==
    [k \in 1..Width(i) |-> DailyAverage(rows, DaysOf(rows)[i - Width(i) + k])]
Item(rows, i) == [date |-> DaysOf(rows)[i], average |-> Mean(Recent(rows, i))]

(* The loop of the rolling timeline.                                       *)
LEMMA RollingFacts ==
  ASSUME NEW rows, NEW n \in Nat, DaysOf(rows) \in [1..n -> Int]
  PROVE  Rolling(rows) = [i \in 1..n |-> Item(rows, i)]
  <1> DEFINE days == DaysOf(rows)
             daily == [i \in 1..n |-> DailyAverage(rows, days[i])]
             item == [i \in 1..n |-> Item(rows, i)]
  <1>1. PICK h : /\ Rolling(rows) = h[1..n].items
                 /\ h[1..0] = [window |-> <<>>, items |-> <<>>]
                 /\ \A i \in 1..n : h[1..i] = RollStep(rows, h[1..(i - 1)], days[i])
    BY RollingFold
  <1>2. RollingWindow \in Nat /\ RollingWindow # 0
    BY AggregationAssumption
  <1> DEFINE Good(i) == /\ h[1..i].window = Recent(rows, i)
                        /\ h[1..i].items = [j \in 1..i |-> item[j]]
             K == {i \in 0..n : Good(i)}
  <1>3. 0 \in K
    <2>1. Width(0) = 0
      BY <1>2 DEF Width
    <2>2. Recent(rows, 0) = <<>> /\ [j \in 1..0 |-> item[j]] = <<>>
      BY <2>1 DEF Recent
    <2>3. h[1..0].window = <<>> /\ h[1..0].items = <<>> /\ 0 \in 0..n
      BY <1>1
    <2>4. QED
      BY <2>2, <2>3
  <1>4. ASSUME NEW i \in 0..(n - 1), i \in K PROVE i + 1 \in K
    <2> DEFINE w == Width(i)
               g == [k \in 1..(w + 1) |-> daily[i - w + k]]
               longer == Append(Recent(rows, i), DailyAverage(rows, days[i + 1]))
               window == IF Len(longer) > RollingWindow THEN Tail(longer) ELSE longer
    <2>1. i \in Nat /\ i + 1 \in 1..n /\ i + 1 \in 0..n /\ (i + 1) - 1 = i
      OBVIOUS
    <2>2. /\ w \in Nat /\ w <= i /\ w <= RollingWindow
          /\ w < RollingWindow => w = i /\ Width(i + 1) = w + 1
          /\ w = RollingWindow => Width(i + 1) = w
      BY <1>2, <2>1 DEF Width
    <2> HIDE DEF w
    <2>3. \A k \in 1..(w + 1) : i - w + k \in 1..n /\ g[k] = DailyAverage(rows, days[i - w + k])
      BY <2>1, <2>2
    <2>4. g[w + 1] = DailyAverage(rows, days[i + 1])
      <3>1. w + 1 \in 1..(w + 1) /\ i - w + (w + 1) = i + 1
        BY <2>1, <2>2
      <3>2. QED
        BY <2>3, <3>1
    <2>5. Recent(rows, i) = [k \in 1..w |-> g[k]]
      BY <2>2, <2>3 DEF Recent, w
    <2> HIDE DEF g
    <2>6. longer = [k \in 1..(w + 1) |-> g[k]]
      BY <2>2, <2>4, <2>5, AppendTo
    <2> HIDE DEF longer
    <2>7. Len(longer) = w + 1 /\ Tail(longer) = [k \in 1..w |-> g[k + 1]]
      BY <2>2, <2>6, TailOf
    <2>8. window = Recent(rows, i + 1)
      <3>1. CASE w < RollingWindow
        <4>1. window = longer
          BY <1>2, <2>2, <2>7, <3>1
        <4>2. Width(i + 1) = w + 1 /\ w = i
          BY <2>2, <3>1
        <4>3. \A k \in 1..(w + 1) : g[k] = DailyAverage(rows, days[(i + 1) - (w + 1) + k])
          <5> SUFFICES ASSUME NEW k \in 1..(w + 1)
                       PROVE  g[k] = DailyAverage(rows, days[(i + 1) - (w + 1) + k])
            OBVIOUS
          <5>1. (i + 1) - (w + 1) + k = i - w + k
            BY <2>1, <2>2
          <5>2. QED
            BY <2>3, <5>1
        <4>4. Recent(rows, i + 1) =
                [k \in 1..(w + 1) |-> DailyAverage(rows, days[(i + 1) - (w + 1) + k])]
          BY <4>2 DEF Recent
        <4> HIDE DEF window
        <4>5. QED
          BY <2>6, <4>1, <4>3, <4>4
      <3>2. CASE w = RollingWindow
        <4>1. window = Tail(longer)
          BY <1>2, <2>2, <2>7, <3>2
        <4>2. Width(i + 1) = w
          BY <2>2, <3>2
        <4>3. \A k \in 1..w : g[k + 1] = DailyAverage(rows, days[(i + 1) - w + k])
          <5> SUFFICES ASSUME NEW k \in 1..w
                       PROVE  g[k + 1] = DailyAverage(rows, days[(i + 1) - w + k])
            OBVIOUS
          <5>1. (i + 1) - w + k = i - w + (k + 1) /\ k + 1 \in 1..(w + 1)
            BY <2>1, <2>2
          <5>2. QED
            BY <2>3, <5>1
        <4>4. Recent(rows, i + 1) = [k \in 1..w |-> DailyAverage(rows, days[(i + 1) - w + k])]
          BY <4>2 DEF Recent
        <4> HIDE DEF window
        <4>5. QED
          BY <2>7, <4>1, <4>3, <4>4
      <3>3. QED
        BY <1>2, <2>2, <3>1, <3>2
    <2>9. h[1..(i + 1)] = RollStep(rows, h[1..i], days[i + 1])
      BY <1>1, <2>1
    <2>10. h[1..i].window = Recent(rows, i) /\ h[1..i].items = [j \in 1..i |-> item[j]]
      BY <1>4
    <2>11. /\ h[1..(i + 1)].window = window
           /\ h[1..(i + 1)].items =
                Append(h[1..i].items, [date |-> days[i + 1], average |-> Mean(window)])
      BY <2>9, <2>10 DEF RollStep, longer
    <2> HIDE DEF window
    <2>12. [date |-> days[i + 1], average |-> Mean(window)] = item[i + 1]
      BY <2>1, <2>8 DEF Item
    <2> HIDE DEF item, days
    <2>13. Append([j \in 1..i |-> item[j]], item[i + 1]) = [j \in 1..(i + 1) |-> item[j]]
      BY <2>1, AppendTo
    <2>14. Good(i + 1)
      BY <2>8, <2>10, <2>11, <2>12, <2>13
    <2>15. QED
      BY <2>1, <2>14
  <1>5. n \in K
    <2> HIDE DEF K
    <2>1. n \in 0..n
      OBVIOUS
    <2>2. QED
      BY <1>3, <1>4, <2>1, BoundedInduction
  <1>6. Good(n)
    BY <1>5
  <1>7. item = [j \in 1..n |-> item[j]]
    OBVIOUS
  <1> HIDE DEF item
  <1>8. Rolling(rows) = item
    BY <1>1, <1>6, <1>7
  <1>9. QED
    BY <1>8 DEF item

(* The last days up to the i-th, as many as the window holds.              *)
LEMMA WindowFacts ==
  ASSUME IInv, Typed, NEW r \in Runs, NEW i \in 1..Cardinality(Shown(r))
  PROVE  LET days == DaysOf(Join(r, matches[r], results[r]))
         IN  /\ Width(i) \in 0..i
             /\ Window(r, days[i]) = Span(days, i - Width(i), i)
             /\ Cardinality(Window(r, days[i])) = Width(i)
             /\ IsFiniteSet(Window(r, days[i]))
  <1> DEFINE days == DaysOf(Join(r, matches[r], results[r]))
             n == Cardinality(Shown(r))
             w == Width(i)
             W == Window(r, days[i])
             After(j) == {x \in Shown(r) : days[j] < x /\ x <= days[i]}
  <1>1. /\ n \in Nat /\ IsFiniteSet(Shown(r)) /\ Shown(r) \in SUBSET Int
        /\ Ascends(days, n) /\ Shown(r) = {days[j] : j \in 1..n}
    BY DaysFacts
  <1>2. \A x : x \in W <=> x \in Shown(r) /\ x <= days[i] /\
                 Cardinality({y \in Shown(r) : x < y /\ y <= days[i]}) < RollingWindow
    BY DEF Window, Quantify
  <1>3. RollingWindow \in Nat /\ RollingWindow # 0
    BY AggregationAssumption
  <1>4. w \in 0..i /\ i \in Nat /\ i \in 0..n /\ i - w \in 0..n /\ i \in 1..n
        /\ \A j \in 1..i : i - j < RollingWindow <=> j \in (i - w + 1)..i
    BY <1>1, <1>3 DEF Width
  <1> HIDE DEF days, n, w, W
  <1>5. \A j, k \in 1..n : (days[j] <= days[k] <=> j <= k) /\ (days[j] < days[k] <=> j < k)
    BY <1>1, AscendsFacts DEF Ascends
  <1>6. ASSUME NEW j \in 1..i PROVE Cardinality(After(j)) = i - j
    <2>1. j \in 0..n /\ j \in 1..n /\ j <= i /\ \A k \in (j + 1)..i : k \in 1..n
      BY <1>1, <1>4
    <2>2. \A k \in 1..n : days[j] < days[k] /\ days[k] <= days[i] <=> k \in (j + 1)..i
      BY <1>4, <1>5, <2>1
    <2>3. After(j) = {days[k] : k \in (j + 1)..i}
      BY <1>1, <2>1, <2>2
    <2>4. After(j) = Span(days, j, i)
      BY <2>3 DEF Span
    <2>5. Cardinality(Span(days, j, i)) = i - j
      BY <1>1, <1>4, <2>1, AscendsFacts
    <2>6. QED
      BY <2>4, <2>5
  <1>7. \A j \in 1..n : days[j] \in W <=> j \in (i - w + 1)..i
    <2> SUFFICES ASSUME NEW j \in 1..n PROVE days[j] \in W <=> j \in (i - w + 1)..i
      OBVIOUS
    <2>1. days[j] \in W <=> days[j] <= days[i] /\ Cardinality(After(j)) < RollingWindow
      BY <1>1, <1>2
    <2> HIDE DEF After
    <2>2. days[j] <= days[i] <=> j \in 1..i
      BY <1>4, <1>5
    <2>3. j \in (i - w + 1)..i => j \in 1..i
      BY <1>4
    <2>4. QED
      BY <1>4, <1>6, <2>1, <2>2, <2>3
  <1>8. W \subseteq Shown(r)
    BY <1>2
  <1>9. \A j \in (i - w + 1)..i : j \in 1..n
    BY <1>1, <1>4
  <1>10. W = {days[j] : j \in (i - w + 1)..i}
    BY <1>1, <1>7, <1>8, <1>9
  <1>11. W = Span(days, i - w, i)
    BY <1>10 DEF Span
  <1>12. i - w <= i /\ i - (i - w) = w
    BY <1>4
  <1>13. Cardinality(W) = w
    BY <1>1, <1>4, <1>11, <1>12, AscendsFacts
  <1>14. IsFiniteSet(W)
    BY <1>1, <1>8, FS_Subset
  <1>15. QED
    BY <1>4, <1>11, <1>13, <1>14 DEF days, w, W

(* The mean of the window is that of the last averages.                    *)
LEMMA MeansAgree ==
  ASSUME IInv, Typed, NEW r \in Runs, NEW i \in 1..Cardinality(Shown(r))
  PROVE  LET rows == Join(r, matches[r], results[r])
             last == Window(r, DaysOf(rows)[i])
         IN  Mean(Recent(rows, i)) =
               Over(FoldFunction(Plus, Fraction(0, 1), [e \in last |-> AverageOf(r, e)]),
                    Cardinality(last))
  <1> DEFINE rows == Join(r, matches[r], results[r])
             days == DaysOf(rows)
             n == Cardinality(Shown(r))
             w == Width(i)
             W == Window(r, days[i])
             recent == Recent(rows, i)
             average == [e \in W |-> AverageOf(r, e)]
             A == 1..w
             g == [k \in A |-> days[i - w + k]]
  <1>1. n \in Nat /\ Ascends(days, n)
    BY DaysFacts
  <1>2. /\ w \in 0..i /\ W = Span(days, i - w, i)
        /\ Cardinality(W) = w /\ IsFiniteSet(W)
    BY WindowFacts
  <1>3. \A d : DailyAverage(rows, d) = AverageOf(r, d) /\ AverageOf(r, d) \in Fractions
    BY AverageFacts
  <1>4. recent = [k \in A |-> DailyAverage(rows, days[i - w + k])]
    BY DEF Recent
  <1>5. /\ average \in [W -> Fractions] /\ recent \in [A -> Fractions]
        /\ \A k \in A : recent[k] = AverageOf(r, days[i - w + k])
    BY <1>3, <1>4
  <1>6. \A e \in W : average[e] = AverageOf(r, e)
    OBVIOUS
  <1>7. \A k \in A : g[k] = days[i - w + k]
    OBVIOUS
  <1>8. DOMAIN g = A /\ g = [k \in A |-> g[k]]
    OBVIOUS
  <1>9. Mean(recent) = Over(FoldFunction(Plus, Fraction(0, 1), recent), Len(recent))
    BY DEF Mean
  <1>10. i \in 1..n
    OBVIOUS
  <1>11. \A k \in A : i - w + k \in (i - w + 1)..i /\ i - w + k \in 1..n
    BY <1>1, <1>2, <1>10
  <1>12. \A j \in (i - w + 1)..i : j - (i - w) \in A /\ i - w + (j - (i - w)) = j
    BY <1>1, <1>2, <1>10
  <1>13. IsFiniteSet(A) /\ w \in Nat
    BY <1>2, <1>10, FS_Interval
  <1> HIDE DEF rows, days, n, w, W, recent, average, g
  <1>14. Len(recent) = w
    BY <1>5, <1>13
  <1> HIDE DEF A
  <1>15. {g[k] : k \in A} = W
    <2>1. \A k \in A : g[k] \in W
      BY <1>2, <1>7, <1>11 DEF Span
    <2>2. ASSUME NEW e \in W PROVE \E k \in A : e = g[k]
      <3>1. PICK j \in (i - w + 1)..i : e = days[j]
        BY <1>2 DEF Span
      <3>2. QED
        BY <1>7, <1>12, <3>1
    <2>3. QED
      BY <2>1, <2>2
  <1>16. g \in [A -> W]
    BY <1>8, <1>15
  <1>17. ASSUME NEW a \in A, NEW b \in A, g[a] = g[b] PROVE a = b
    <2>1. i - w + a = i - w + b
      <3>1. \A j, k \in 1..n : days[j] = days[k] => j = k
        BY <1>1, AscendsFacts
      <3>2. i - w + a \in 1..n /\ i - w + b \in 1..n /\ days[i - w + a] = days[i - w + b]
        BY <1>7, <1>11, <1>17
      <3>3. QED
        BY <3>1, <3>2
    <2>2. a \in Int /\ b \in Int /\ i - w \in Int
      BY <1>2, <1>10, <1>13 DEF A
    <2>3. QED
      BY <2>1, <2>2
  <1>18. \A a \in A : recent[a] = average[g[a]]
    BY <1>5, <1>6, <1>7, <1>16
  <1>19. PICK k \in [SUBSET A -> Fractions] :
           /\ Sums(A, FractionPlus, Fraction(0, 1), recent, k)
           /\ FoldFunction(Plus, Fraction(0, 1), recent) = k[A]
    BY <1>5, <1>13, FractionsFacts
  <1>20. PICK h \in [SUBSET W -> Fractions] :
           /\ Sums(W, FractionPlus, Fraction(0, 1), average, h)
           /\ FoldFunction(Plus, Fraction(0, 1), average) = h[W]
    BY <1>2, <1>5, FractionsFacts
  <1>21. k[A] = h[{g[a] : a \in A}]
    BY <1>13, <1>16, <1>17, <1>18, <1>19, <1>20, SumOfImage
  <1>22. FoldFunction(Plus, Fraction(0, 1), recent) = FoldFunction(Plus, Fraction(0, 1), average)
    BY <1>15, <1>19, <1>20, <1>21
  <1>23. Mean(recent) = Over(FoldFunction(Plus, Fraction(0, 1), average), Cardinality(W))
    BY <1>2, <1>9, <1>14, <1>22
  <1>24. QED
    BY <1>23 DEF recent, average, W, days, rows

(* The spikes and the rolling averages of one run.                         *)
LEMMA TimelinesAgree ==
  ASSUME IInv, Typed, Charted, NEW r \in Runs, charts[r] # NoCharts
  PROVE  LET rolling == charts[r].rolling IN
        /\ ToSet(charts[r].spikes) =
             {day \in SpikesOf(r) : Quantify(SpikesOf(r), LAMBDA e : e < day) < MaxSpikes}
        /\ {rolling[i].date : i \in DOMAIN rolling} = Shown(r)
        /\ \A i \in DOMAIN rolling :
             LET last == Window(r, rolling[i].date) IN
             Equal(rolling[i].average,
                   Over(FoldFunction(Plus, Fraction(0, 1), [e \in last |-> AverageOf(r, e)]),
                        Cardinality(last)))
  <1> DEFINE rows == Join(r, matches[r], results[r])
             days == DaysOf(rows)
             n == Cardinality(Shown(r))
             rolling == charts[r].rolling
             MeanOf(d) == Over(FoldFunction(Plus, Fraction(0, 1),
                                            [e \in Window(r, d) |-> AverageOf(r, e)]),
                               Cardinality(Window(r, d)))
  <1>1. charts[r].spikes = Spikes(rows) /\ rolling = Rolling(rows)
    <2>1. charts[r] = Build(rows, ContextOf(r))
      BY DEF Charted
    <2>2. QED
      BY <2>1 DEF Build
  <1>2. n \in Nat /\ Ascends(days, n) /\ Shown(r) = {days[i] : i \in 1..n}
        /\ days \in [1..n -> Shown(r)]
    BY DaysFacts
  <1>3. \A i \in 1..n : Mean(Recent(rows, i)) = MeanOf(days[i])
    BY MeansAgree
  <1>4. \A i \in 1..n : IsSpike(rows, days[i], Before(rows, i))
                          <=> Busy(r, days[i]) \/ Jumps(r, days[i])
    BY SpikesAgree
  <1>5. ToSet(charts[r].spikes) =
          {day \in SpikesOf(r) : Cardinality({e \in SpikesOf(r) : e < day}) < MaxSpikes}
    <2>1. PICK items \in Seq(Int) :
            /\ Ascends(items, Len(items)) /\ Spikes(rows) = First(items, MaxSpikes)
            /\ ToSet(items) = {days[i] : i \in SpikePlaces(rows, n)}
      BY <1>2, SpikesFacts
    <2>2. SpikesOf(r) = {days[i] : i \in SpikePlaces(rows, n)}
      <3>1. \A i : i \in SpikePlaces(rows, n)
                      <=> i \in 1..n /\ (Busy(r, days[i]) \/ Jumps(r, days[i]))
        BY <1>4 DEF SpikePlaces
      <3>2. \A d : d \in SpikesOf(r) <=> d \in Shown(r) /\ (Busy(r, d) \/ Jumps(r, d))
        BY DEF SpikesOf
      <3> HIDE DEF rows, days, n
      <3>3. QED
        BY <1>2, <3>1, <3>2
    <2>3. MaxSpikes \in Nat
      BY AggregationAssumption
    <2>4. ToSet(First(items, MaxSpikes)) =
            {x \in ToSet(items) : Cardinality({y \in ToSet(items) : y < x}) < MaxSpikes}
      BY <2>1, <2>3, FirstOfAscending
    <2> HIDE DEF rows, days, n
    <2>5. ToSet(items) = SpikesOf(r)
      BY <2>1, <2>2
    <2>6. QED
      BY <1>1, <2>1, <2>4, <2>5
  <1>6. rolling = [i \in 1..n |-> Item(rows, i)]
    <2>1. days \in [1..n -> Int]
      BY <1>2 DEF Ascends
    <2>2. QED
      BY <1>1, <1>2, <2>1, RollingFacts
  <1>7. DOMAIN rolling = 1..n /\ \A i \in 1..n : /\ rolling[i].date = days[i]
                                                /\ rolling[i].average = MeanOf(days[i])
    <2> HIDE DEF MeanOf
    <2>1. QED
      BY <1>3, <1>6 DEF Item
  <1> HIDE DEF MeanOf, rolling, n, days
  <1>8. {rolling[i].date : i \in DOMAIN rolling} = Shown(r)
    BY <1>2, <1>7
  <1>9. \A i \in DOMAIN rolling : Equal(rolling[i].average, MeanOf(rolling[i].date))
    BY <1>7 DEF Equal
  <1>10. \A d : Quantify(SpikesOf(r), LAMBDA e : e < d) = Cardinality({e \in SpikesOf(r) : e < d})
    BY DEF Quantify
  <1>11. {day \in SpikesOf(r) : Quantify(SpikesOf(r), LAMBDA e : e < day) < MaxSpikes}
           = {day \in SpikesOf(r) : Cardinality({e \in SpikesOf(r) : e < day}) < MaxSpikes}
    BY DEF Quantify
  <1>12. QED
    BY <1>5, <1>8, <1>9, <1>11, Zenon DEF MeanOf, rolling

-----------------------------------------------------------------------------
(* The theorems.                                                           *)

(* The charts are always those of the committed rows.                      *)
LEMMA ChartsInvariant == Spec => [](IInv /\ Typed /\ Charted)
  <1>1. Init => Typed /\ Charted /\ ChartsAreFunctions
    <2> SUFFICES ASSUME Init PROVE Typed /\ Charted /\ ChartsAreFunctions
      OBVIOUS
    <2>1. QED
      BY NothingYet, SentimentAssumption DEF Init, Typed, Charted, ChartsAreFunctions
  <1>2. IInv /\ Typed /\ Charted /\ ChartsAreFunctions /\ [Next]_vars
          => Typed' /\ Charted' /\ ChartsAreFunctions'
    BY TypedNext, ChartedNext
  <1>3. QED
    BY <1>1, <1>2, Invariant, PTL DEF Spec

(* The charts of a run agree with the documents the API lists for it: they *)
(* are built from the rows of the join, one for each labelled document,    *)
(* and committed with them (AggregationService.build, get_run_documents).  *)
THEOREM ChartsAreOfDocuments == Spec => []ChartsMatchDocuments
  <1>1. IInv /\ Typed /\ Charted => ChartsMatchDocuments
    BY ChartsAgree, Zenon DEF ChartsMatchDocuments
  <1>2. QED
    BY <1>1, ChartsInvariant, PTL

(* At all times, the rolling averages of a run are the means of the last   *)
(* averages, and its spikes the first days that stand out: the loops over  *)
(* the days, in order, remember what the property defines directly         *)
(* (_build_rolling_timeline, _build_spike_events).                         *)
THEOREM TimelinesAreOfDocuments == Spec => []SpikesAreJumps
  <1>1. IInv /\ Typed /\ Charted => SpikesAreJumps
    BY TimelinesAgree, Zenon DEF SpikesAreJumps
  <1>2. QED
    BY <1>1, ChartsInvariant, PTL

=============================================================================
