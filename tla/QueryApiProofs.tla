--------------------------- MODULE QueryApiProofs ---------------------------
(***************************************************************************)
(* Proofs about QueryApi, for any number of requests, terms, scopes and    *)
(* providers, any freshness limit and any number of failures.              *)
(*                                                                         *)
(* None of the properties is inductive: a run belongs to the query of its  *)
(* term because the handler that inserts a query is alone with its key     *)
(* until it commits, and an answer fits its request because a query and a  *)
(* run keep the term and the scope they were created with.  IInv says so.  *)
(***************************************************************************)
EXTENDS QueryApi, TLAPS

Ids == Requests \cup {"none"}
Statuses == {"absent", "pending", "running", "completed", "failed"}
Column == [query : Ids, scope : Scopes \cup {"none"}, provider : Providers \cup {"none"},
           started : Nat, fresh : Nat]

(* A committed query belongs to a finished handler of that very term.      *)
Owners ==
    \A t \in Terms : owner[t] # "none" => pc[owner[t]] = "done" /\ want[owner[t]].term = t

(* The query a handler works on has the handler's term.                    *)
Queries ==
    \A r \in Requests :
        /\ InTransaction(r) \/ query[r] # "none" => want[r].term \in Terms /\ pc[r] # "new"
        /\ pc[r] \in {"looking", "creating", "answered"} => query[r] # "none"
        /\ query[r] # "none" => pc[query[r]] # "new" /\ want[query[r]].term = want[r].term

(* An open handler works on the committed query of its term, or on one it  *)
(* has inserted itself while there was none ...                            *)
Keys ==
    \A r \in Requests : InTransaction(r) /\ query[r] # "none" =>
        /\ query[r] = r => owner[want[r].term] = "none"
        /\ query[r] # r => owner[want[r].term] = query[r]

(* ... and then it is the only one.                                        *)
Alone ==
    \A q, r \in Requests :
        /\ InTransaction(q) /\ query[q] = q
        /\ InTransaction(r) /\ query[r] = r
        /\ want[q].term = want[r].term
        => q = r

(* A run has the query of the handler that created it.                     *)
Columns ==
    \A r \in Requests :
        /\ column[r].query # "none" =>
             column[r].query = query[r] /\ pc[r] \in {"answered", "done", "aborted"}
        /\ status[r] # "absent" => pc[r] = "done"
        /\ status[r] = "completed" => r \in visible
        /\ r \in visible => status[r] # "absent"

(* A handler that has an answer is past its lookups, and the run it names  *)
(* has been created.                                                       *)
Answers ==
    \A r \in Requests : answer[r] # "none" =>
        pc[r] \in {"answered", "done", "aborted"} /\ column[answer[r]].query # "none"

IInv ==
    /\ Owners /\ Queries /\ Keys /\ Alone /\ Columns /\ Answers
    /\ RunsShareQuery /\ AnswerFits /\ CachedIsPublished

-----------------------------------------------------------------------------
(* What the steps of RunContract change, whoever takes them. *)

RunsAdvance ==
    /\ status' \in [Requests -> Statuses]
    /\ \A r \in Requests :
         /\ status'[r] = "absent" => status[r] = "absent"
         /\ status[r] = "completed" => status'[r] = "completed" \/ r \in Overtaken
         /\ status'[r] = "completed" => status[r] = "completed" \/ r \in visible'
         /\ r \in visible' => r \in visible \/ status'[r] # "absent"
    /\ visible \subseteq visible' /\ visible' \subseteq Requests

NoneSubmitted == \A q \in Requests : status[q] = "absent" => status'[q] = "absent"

LEMMA ContractSteps ==
  ASSUME TypeOK
  PROVE  /\ \A r \in Requests :
              Workers!Take(r) \/ Workers!Publish(r) \/ Workers!GiveUp(r) =>
                RunsAdvance /\ NoneSubmitted
         /\ \A S \in SUBSET Requests : Workers!GiveBack(S) =>
                RunsAdvance /\ NoneSubmitted
         /\ \A r \in Requests : Workers!Submit(r) =>
                /\ RunsAdvance /\ status'[r] = "pending"
                /\ \A q \in Requests : q # r => status'[q] = status[q]
         /\ UNCHANGED <<status, visible>> => RunsAdvance /\ NoneSubmitted
  <1> USE DEF TypeOK, RunsAdvance, NoneSubmitted, Statuses, Runs
  <1>1. ASSUME NEW r \in Requests, Workers!Take(r) PROVE RunsAdvance /\ NoneSubmitted
    BY <1>1 DEF Workers!Take, Workers!Writable
  <1>2. ASSUME NEW r \in Requests, Workers!Publish(r) PROVE RunsAdvance /\ NoneSubmitted
    BY <1>2 DEF Workers!Publish, Workers!Writable
  <1>3. ASSUME NEW r \in Requests, Workers!GiveUp(r) PROVE RunsAdvance /\ NoneSubmitted
    BY <1>3 DEF Workers!GiveUp, Workers!Writable
  <1>4. ASSUME NEW S \in SUBSET Requests, Workers!GiveBack(S) PROVE RunsAdvance /\ NoneSubmitted
    BY <1>4 DEF Workers!GiveBack, Workers!Writable
  <1>5. ASSUME NEW r \in Requests, Workers!Submit(r)
        PROVE  /\ RunsAdvance /\ status'[r] = "pending"
               /\ \A q \in Requests : q # r => status'[q] = status[q]
    BY <1>5 DEF Workers!Submit
  <1>6. ASSUME UNCHANGED <<status, visible>> PROVE RunsAdvance /\ NoneSubmitted
    BY <1>6
  <1>7. QED
    BY <1>1, <1>2, <1>3, <1>4, <1>5, <1>6

(* The columns the workers set are no part of what a run was created for.  *)
LEMMA WorkFrame ==
  ASSUME TypeOK, Work
  PROVE  /\ RunsAdvance /\ NoneSubmitted
         /\ column' \in [Requests -> Column]
         /\ \A r \in Requests : /\ column'[r].query = column[r].query
                                /\ column'[r].scope = column[r].scope
                                /\ column'[r].provider = column[r].provider
         /\ UNCHANGED <<owner, clock, provider, pc, want, query, answer, aborts>>
  <1> DEFINE Frame == /\ column' \in [Requests -> Column]
                      /\ \A r \in Requests : /\ column'[r].query = column[r].query
                                             /\ column'[r].scope = column[r].scope
                                             /\ column'[r].provider = column[r].provider
  <1>0. column \in [Requests -> Column]
    BY DEF TypeOK, Column, Ids
  <1>1. ASSUME NEW r \in Requests, column' = [column EXCEPT ![r].started = clock] PROVE Frame
    BY <1>0, <1>1 DEF TypeOK, Column
  <1>2. ASSUME NEW r \in Requests, column' = [column EXCEPT ![r].fresh = clock + Ttl] PROVE Frame
    <2>1. clock + Ttl \in Nat
      BY ConstantsAssumption DEF TypeOK
    <2>2. QED
      BY <1>0, <1>2, <2>1 DEF Column
  <1>3. ASSUME UNCHANGED column PROVE Frame
    BY <1>0, <1>3
  <1>4. Frame /\ RunsAdvance /\ NoneSubmitted
    BY <1>1, <1>2, <1>3, ContractSteps DEF Work, Runs
  <1>5. QED
    BY <1>4 DEF Work

(* Handler r refreshes run a, whose query is b.                            *)
Refreshes(r, a, b) ==
    /\ status[a] # "absent"
    /\ b = column[a].query /\ b = query[a] /\ b # r
    /\ want[b].term = want[a].term /\ want[a].term \in Terms /\ pc[b] # "new"
    /\ want' = [want EXCEPT ![r] = [term |-> want[b].term, scope |-> column[a].scope]]
    /\ query' = [query EXCEPT ![r] = b]
    /\ pc' = [pc EXCEPT ![r] = "creating"]

(* A run that can be refreshed has a query whose term is known.            *)
LEMMA RefreshFrame ==
  ASSUME TypeOK, IInv, NEW r \in Requests, Refresh(r)
  PROVE  /\ pc[r] = "new"
         /\ UNCHANGED <<owner, status, visible, column, clock, provider, answer, aborts>>
         /\ \/ pc' = [pc EXCEPT ![r] = "rejected"] /\ UNCHANGED <<want, query>>
            \/ \E a, b \in Requests : Refreshes(r, a, b)
  <1> USE ConstantsAssumption DEF TypeOK, IInv, Queries, Columns,
          RunsShareQuery, Answers, Runs
  <1>1. PICK q \in Requests :
          /\ answer[q] # "none"
          /\ IF status[answer[q]] = "absent"
             THEN pc' = [pc EXCEPT ![r] = "rejected"] /\ UNCHANGED <<want, query>>
             ELSE /\ want' = [want EXCEPT ![r] = [term |-> want[column[answer[q]].query].term,
                                                  scope |-> column[answer[q]].scope]]
                  /\ query' = [query EXCEPT ![r] = column[answer[q]].query]
                  /\ pc' = [pc EXCEPT ![r] = "creating"]
    BY DEF Refresh
  <1>2. pc[r] = "new" /\ UNCHANGED <<owner, status, visible, column, clock, provider, answer, aborts>>
    BY DEF Refresh, runVars
  <1>3. CASE status[answer[q]] = "absent"
    BY <1>1, <1>2, <1>3
  <1>4. CASE status[answer[q]] # "absent"
    <2>1. answer[q] \in Requests
      BY <1>1
    <2>2. column[answer[q]].query \in Requests /\ column[answer[q]].query = query[answer[q]]
      BY <1>4, <2>1
    <2>3. /\ want[query[answer[q]]].term = want[answer[q]].term
          /\ want[answer[q]].term \in Terms /\ pc[query[answer[q]]] # "new"
      BY <2>1, <2>2
    <2>4. Refreshes(r, answer[q], column[answer[q]].query)
      BY <1>1, <1>2, <1>4, <2>1, <2>2, <2>3 DEF Refreshes
    <2>5. QED
      BY <1>2, <2>1, <2>2, <2>4
  <1>5. QED
    BY <1>3, <1>4

(* What a commit changes: its own run, and the owner of its term.          *)
LEMMA CommitFrame ==
  ASSUME TypeOK, NEW r \in Requests, Commit(r)
  PROVE  /\ RunsAdvance
         /\ \A q \in Requests : q # r \/ answer[r] # r => status'[q] = status[q]
         /\ answer[r] = r => status'[r] = "pending"
         /\ pc[r] = "answered" /\ pc' = [pc EXCEPT ![r] = "done"]
         /\ owner' = IF query[r] = r THEN [owner EXCEPT ![want[r].term] = r] ELSE owner
         /\ UNCHANGED <<column, clock, provider, want, query, answer, aborts>>
  <1>1. /\ RunsAdvance
        /\ \A q \in Requests : q # r \/ answer[r] # r => status'[q] = status[q]
        /\ answer[r] = r => status'[r] = "pending"
    BY ContractSteps DEF Commit
  <1>2. QED
    BY <1>1 DEF Commit

-----------------------------------------------------------------------------
(* The variables keep their types; a refreshed run gives a known term.     *)
LEMMA TypeNext ==
  ASSUME TypeOK, IInv, [Next]_vars
  PROVE  TypeOK'
  <1> USE ConstantsAssumption DEF TypeOK, IInv, Queries, Columns, Answers,
          Stage, InTransaction, Nothing, NoRun, runVars, Column, Ids, Statuses
  <1>1. ASSUME NEW r \in Requests, Post(r) PROVE TypeOK'
    BY <1>1 DEF Post
  <1>2. ASSUME NEW r \in Requests, Refresh(r) PROVE TypeOK'
    <2>0. /\ pc[r] = "new"
          /\ UNCHANGED <<owner, status, visible, column, clock, provider, answer, aborts>>
      BY <1>2, RefreshFrame
    <2>1. CASE pc' = [pc EXCEPT ![r] = "rejected"] /\ UNCHANGED <<want, query>>
      BY <2>0, <2>1
    <2>2. ASSUME NEW a \in Requests, NEW b \in Requests, Refreshes(r, a, b) PROVE TypeOK'
      BY <2>0, <2>2 DEF Refreshes
    <2>3. QED
      BY <1>2, <2>1, <2>2, RefreshFrame
  <1>3. ASSUME NEW r \in Requests, InsertQuery(r) PROVE TypeOK'
    BY <1>3 DEF InsertQuery, Holds, KeyIsFree
  <1>4. ASSUME NEW r \in Requests, AnswerCached(r) PROVE TypeOK'
    BY <1>4 DEF AnswerCached, Fits
  <1>5. ASSUME NEW r \in Requests, FindNone(r) PROVE TypeOK'
    BY <1>5 DEF FindNone
  <1>6. ASSUME NEW r \in Requests, CreateRun(r) PROVE TypeOK'
    BY <1>6 DEF CreateRun
  <1>7. ASSUME NEW r \in Requests, Abort(r) PROVE TypeOK'
    BY <1>7 DEF Abort
  <1>8. ASSUME NEW r \in Requests, Commit(r) PROVE TypeOK'
    <2>1. owner' \in [Terms -> Ids]
      BY <1>8, CommitFrame
    <2>2. pc' \in [Requests -> Stage]
      BY <1>8, CommitFrame
    <2>3. status' \in [Requests -> Statuses] /\ visible' \subseteq Requests
      BY <1>8, CommitFrame DEF RunsAdvance
    <2>4. QED
      BY <1>8, <2>1, <2>2, <2>3, CommitFrame
  <1>9. CASE Restart
    BY <1>9 DEF Restart
  <1>10. CASE Work
    BY <1>10, WorkFrame DEF RunsAdvance, NoneSubmitted
  <1>11. CASE Tick
    BY <1>11 DEF Tick
  <1>12. CASE UNCHANGED vars
    BY <1>12 DEF vars
  <1>13. QED
    BY <1>1, <1>2, <1>3, <1>4, <1>5, <1>6, <1>7, <1>8, <1>9, <1>10, <1>11, <1>12
       DEF Next, Handle

(* Only a commit makes a query the one of its term.                        *)
LEMMA OwnersNext ==
  ASSUME TypeOK, IInv, [Next]_vars
  PROVE  Owners'
  <1> USE ConstantsAssumption DEF TypeOK, IInv, InTransaction, runVars, Owners,
          Queries
  <1>1. ASSUME NEW r \in Requests, Post(r) PROVE Owners'
    BY <1>1 DEF Post
  <1>2. ASSUME NEW r \in Requests, Refresh(r) PROVE Owners'
    <2>0. /\ pc[r] = "new"
          /\ UNCHANGED <<owner, status, visible, column, clock, provider, answer, aborts>>
      BY <1>2, RefreshFrame
    <2>1. CASE pc' = [pc EXCEPT ![r] = "rejected"] /\ UNCHANGED <<want, query>>
      BY <2>0, <2>1
    <2>2. ASSUME NEW a \in Requests, NEW b \in Requests, Refreshes(r, a, b) PROVE Owners'
      BY <2>0, <2>2 DEF Refreshes
    <2>3. QED
      BY <1>2, <2>1, <2>2, RefreshFrame
  <1>3. ASSUME NEW r \in Requests, InsertQuery(r) PROVE Owners'
    BY <1>3 DEF InsertQuery, Holds, KeyIsFree
  <1>4. ASSUME NEW r \in Requests, AnswerCached(r) PROVE Owners'
    BY <1>4 DEF AnswerCached, Fits
  <1>5. ASSUME NEW r \in Requests, FindNone(r) PROVE Owners'
    BY <1>5 DEF FindNone
  <1>6. ASSUME NEW r \in Requests, CreateRun(r) PROVE Owners'
    BY <1>6 DEF CreateRun
  <1>7. ASSUME NEW r \in Requests, Abort(r) PROVE Owners'
    BY <1>7 DEF Abort
  <1>8. ASSUME NEW r \in Requests, Commit(r) PROVE Owners'
    <2>1. /\ pc[r] = "answered" /\ pc' = [pc EXCEPT ![r] = "done"]
          /\ owner' = IF query[r] = r THEN [owner EXCEPT ![want[r].term] = r] ELSE owner
          /\ want' = want
      BY <1>8, CommitFrame
    <2>2. QED
      BY <2>1
  <1>9. CASE Restart
    BY <1>9 DEF Restart
  <1>10. CASE Work
    BY <1>10, WorkFrame DEF RunsAdvance, NoneSubmitted
  <1>11. CASE Tick
    BY <1>11 DEF Tick
  <1>12. CASE UNCHANGED vars
    BY <1>12 DEF vars
  <1>13. QED
    BY <1>1, <1>2, <1>3, <1>4, <1>5, <1>6, <1>7, <1>8, <1>9, <1>10, <1>11, <1>12
       DEF Next, Handle

(* A handler takes up a query only under the term it asks for.             *)
LEMMA QueriesNext ==
  ASSUME TypeOK, IInv, [Next]_vars
  PROVE  Queries'
  <1> USE ConstantsAssumption DEF TypeOK, IInv, InTransaction, runVars, Owners,
          Queries, Columns, Answers
  <1>1. ASSUME NEW r \in Requests, Post(r) PROVE Queries'
    BY <1>1 DEF Post
  <1>2. ASSUME NEW r \in Requests, Refresh(r) PROVE Queries'
    <2>0. /\ pc[r] = "new"
          /\ UNCHANGED <<owner, status, visible, column, clock, provider, answer, aborts>>
      BY <1>2, RefreshFrame
    <2>1. CASE pc' = [pc EXCEPT ![r] = "rejected"] /\ UNCHANGED <<want, query>>
      BY <2>0, <2>1
    <2>2. ASSUME NEW a \in Requests, NEW b \in Requests, Refreshes(r, a, b) PROVE Queries'
      BY <2>0, <2>2 DEF Refreshes
    <2>3. QED
      BY <1>2, <2>1, <2>2, RefreshFrame
  <1>3. ASSUME NEW r \in Requests, InsertQuery(r) PROVE Queries'
    BY <1>3 DEF InsertQuery, Holds, KeyIsFree
  <1>4. ASSUME NEW r \in Requests, AnswerCached(r) PROVE Queries'
    BY <1>4 DEF AnswerCached, Fits
  <1>5. ASSUME NEW r \in Requests, FindNone(r) PROVE Queries'
    BY <1>5 DEF FindNone
  <1>6. ASSUME NEW r \in Requests, CreateRun(r) PROVE Queries'
    BY <1>6 DEF CreateRun
  <1>7. ASSUME NEW r \in Requests, Abort(r) PROVE Queries'
    BY <1>7 DEF Abort
  <1>8. ASSUME NEW r \in Requests, Commit(r) PROVE Queries'
    BY <1>8, CommitFrame DEF RunsAdvance
  <1>9. CASE Restart
    BY <1>9 DEF Restart
  <1>10. CASE Work
    BY <1>10, WorkFrame DEF RunsAdvance, NoneSubmitted
  <1>11. CASE Tick
    BY <1>11 DEF Tick
  <1>12. CASE UNCHANGED vars
    BY <1>12 DEF vars
  <1>13. QED
    BY <1>1, <1>2, <1>3, <1>4, <1>5, <1>6, <1>7, <1>8, <1>9, <1>10, <1>11, <1>12
       DEF Next, Handle

(* An insert waits for the key; a query that is committed then is taken.    *)
LEMMA KeysNext ==
  ASSUME TypeOK, IInv, [Next]_vars
  PROVE  Keys'
  <1> USE ConstantsAssumption DEF TypeOK, IInv, InTransaction, runVars, Owners,
          Queries, Keys, Alone, Columns, Answers, RunsShareQuery, Runs
  <1>1. ASSUME NEW r \in Requests, Post(r) PROVE Keys'
    BY <1>1 DEF Post
  <1>2. ASSUME NEW r \in Requests, Refresh(r) PROVE Keys'
    <2>0. /\ pc[r] = "new"
          /\ UNCHANGED <<owner, status, visible, column, clock, provider, answer, aborts>>
      BY <1>2, RefreshFrame
    <2>1. CASE pc' = [pc EXCEPT ![r] = "rejected"] /\ UNCHANGED <<want, query>>
      BY <2>0, <2>1
    <2>2. ASSUME NEW a \in Requests, NEW b \in Requests, Refreshes(r, a, b) PROVE Keys'
      BY <2>0, <2>2 DEF Refreshes
    <2>3. QED
      BY <1>2, <2>1, <2>2, RefreshFrame
  <1>3. ASSUME NEW r \in Requests, InsertQuery(r) PROVE Keys'
    BY <1>3 DEF InsertQuery, Holds, KeyIsFree
  <1>4. ASSUME NEW r \in Requests, AnswerCached(r) PROVE Keys'
    BY <1>4 DEF AnswerCached, Fits
  <1>5. ASSUME NEW r \in Requests, FindNone(r) PROVE Keys'
    BY <1>5 DEF FindNone
  <1>6. ASSUME NEW r \in Requests, CreateRun(r) PROVE Keys'
    BY <1>6 DEF CreateRun
  <1>7. ASSUME NEW r \in Requests, Abort(r) PROVE Keys'
    BY <1>7 DEF Abort
  <1>8. ASSUME NEW r \in Requests, Commit(r) PROVE Keys'
    BY <1>8, CommitFrame DEF RunsAdvance
  <1>9. CASE Restart
    BY <1>9 DEF Restart
  <1>10. CASE Work
    BY <1>10, WorkFrame DEF RunsAdvance, NoneSubmitted
  <1>11. CASE Tick
    BY <1>11 DEF Tick
  <1>12. CASE UNCHANGED vars
    BY <1>12 DEF vars
  <1>13. QED
    BY <1>1, <1>2, <1>3, <1>4, <1>5, <1>6, <1>7, <1>8, <1>9, <1>10, <1>11, <1>12
       DEF Next, Handle

(* The unique key lets one open handler at a time insert a query.          *)
LEMMA AloneNext ==
  ASSUME TypeOK, IInv, [Next]_vars
  PROVE  Alone'
  <1> USE ConstantsAssumption DEF TypeOK, IInv, InTransaction, runVars, Owners,
          Queries, Alone
  <1>1. ASSUME NEW r \in Requests, Post(r) PROVE Alone'
    BY <1>1 DEF Post
  <1>2. ASSUME NEW r \in Requests, Refresh(r) PROVE Alone'
    <2>0. /\ pc[r] = "new"
          /\ UNCHANGED <<owner, status, visible, column, clock, provider, answer, aborts>>
      BY <1>2, RefreshFrame
    <2>1. CASE pc' = [pc EXCEPT ![r] = "rejected"] /\ UNCHANGED <<want, query>>
      BY <2>0, <2>1
    <2>2. ASSUME NEW a \in Requests, NEW b \in Requests, Refreshes(r, a, b) PROVE Alone'
      BY <2>0, <2>2 DEF Refreshes
    <2>3. QED
      BY <1>2, <2>1, <2>2, RefreshFrame
  <1>3. ASSUME NEW r \in Requests, InsertQuery(r) PROVE Alone'
    BY <1>3 DEF InsertQuery, Holds, KeyIsFree
  <1>4. ASSUME NEW r \in Requests, AnswerCached(r) PROVE Alone'
    BY <1>4 DEF AnswerCached, Fits
  <1>5. ASSUME NEW r \in Requests, FindNone(r) PROVE Alone'
    BY <1>5 DEF FindNone
  <1>6. ASSUME NEW r \in Requests, CreateRun(r) PROVE Alone'
    BY <1>6 DEF CreateRun
  <1>7. ASSUME NEW r \in Requests, Abort(r) PROVE Alone'
    BY <1>7 DEF Abort
  <1>8. ASSUME NEW r \in Requests, Commit(r) PROVE Alone'
    BY <1>8, CommitFrame DEF RunsAdvance
  <1>9. CASE Restart
    BY <1>9 DEF Restart
  <1>10. CASE Work
    BY <1>10, WorkFrame DEF RunsAdvance, NoneSubmitted
  <1>11. CASE Tick
    BY <1>11 DEF Tick
  <1>12. CASE UNCHANGED vars
    BY <1>12 DEF vars
  <1>13. QED
    BY <1>1, <1>2, <1>3, <1>4, <1>5, <1>6, <1>7, <1>8, <1>9, <1>10, <1>11, <1>12
       DEF Next, Handle

(* A run is created for the query of its handler and keeps it.             *)
LEMMA ColumnsNext ==
  ASSUME TypeOK, IInv, [Next]_vars
  PROVE  Columns'
  <1> USE ConstantsAssumption DEF TypeOK, IInv, InTransaction, runVars,
          Columns, Queries, Answers
  <1>1. ASSUME NEW r \in Requests, Post(r) PROVE Columns'
    BY <1>1 DEF Post
  <1>2. ASSUME NEW r \in Requests, Refresh(r) PROVE Columns'
    <2>0. /\ pc[r] = "new"
          /\ UNCHANGED <<owner, status, visible, column, clock, provider, answer, aborts>>
      BY <1>2, RefreshFrame
    <2>1. CASE pc' = [pc EXCEPT ![r] = "rejected"] /\ UNCHANGED <<want, query>>
      BY <2>0, <2>1
    <2>2. ASSUME NEW a \in Requests, NEW b \in Requests, Refreshes(r, a, b) PROVE Columns'
      BY <2>0, <2>2 DEF Refreshes
    <2>3. QED
      BY <1>2, <2>1, <2>2, RefreshFrame
  <1>3. ASSUME NEW r \in Requests, InsertQuery(r) PROVE Columns'
    BY <1>3 DEF InsertQuery, Holds, KeyIsFree
  <1>4. ASSUME NEW r \in Requests, AnswerCached(r) PROVE Columns'
    BY <1>4 DEF AnswerCached, Fits
  <1>5. ASSUME NEW r \in Requests, FindNone(r) PROVE Columns'
    BY <1>5 DEF FindNone
  <1>6. ASSUME NEW r \in Requests, CreateRun(r) PROVE Columns'
    BY <1>6 DEF CreateRun
  <1>7. ASSUME NEW r \in Requests, Abort(r) PROVE Columns'
    BY <1>7 DEF Abort
  <1>8. ASSUME NEW r \in Requests, Commit(r) PROVE Columns'
    BY <1>8, CommitFrame DEF RunsAdvance
  <1>9. CASE Restart
    BY <1>9 DEF Restart
  <1>10. CASE Work
    BY <1>10, WorkFrame DEF RunsAdvance, NoneSubmitted
  <1>11. CASE Tick
    BY <1>11 DEF Tick
  <1>12. CASE UNCHANGED vars
    BY <1>12 DEF vars
  <1>13. QED
    BY <1>1, <1>2, <1>3, <1>4, <1>5, <1>6, <1>7, <1>8, <1>9, <1>10, <1>11, <1>12
       DEF Next, Handle

(* An answer is a run that is already created.                             *)
LEMMA AnswersNext ==
  ASSUME TypeOK, IInv, [Next]_vars
  PROVE  Answers'
  <1> USE ConstantsAssumption DEF TypeOK, IInv, InTransaction, runVars,
          Columns, Queries, Answers
  <1>1. ASSUME NEW r \in Requests, Post(r) PROVE Answers'
    BY <1>1 DEF Post
  <1>2. ASSUME NEW r \in Requests, Refresh(r) PROVE Answers'
    <2>0. /\ pc[r] = "new"
          /\ UNCHANGED <<owner, status, visible, column, clock, provider, answer, aborts>>
      BY <1>2, RefreshFrame
    <2>1. CASE pc' = [pc EXCEPT ![r] = "rejected"] /\ UNCHANGED <<want, query>>
      BY <2>0, <2>1
    <2>2. ASSUME NEW a \in Requests, NEW b \in Requests, Refreshes(r, a, b) PROVE Answers'
      BY <2>0, <2>2 DEF Refreshes
    <2>3. QED
      BY <1>2, <2>1, <2>2, RefreshFrame
  <1>3. ASSUME NEW r \in Requests, InsertQuery(r) PROVE Answers'
    BY <1>3 DEF InsertQuery, Holds, KeyIsFree
  <1>4. ASSUME NEW r \in Requests, AnswerCached(r) PROVE Answers'
    BY <1>4 DEF AnswerCached, Fits
  <1>5. ASSUME NEW r \in Requests, FindNone(r) PROVE Answers'
    BY <1>5 DEF FindNone
  <1>6. ASSUME NEW r \in Requests, CreateRun(r) PROVE Answers'
    BY <1>6 DEF CreateRun
  <1>7. ASSUME NEW r \in Requests, Abort(r) PROVE Answers'
    BY <1>7 DEF Abort
  <1>8. ASSUME NEW r \in Requests, Commit(r) PROVE Answers'
    BY <1>8, CommitFrame
  <1>9. CASE Restart
    BY <1>9 DEF Restart
  <1>10. CASE Work
    BY <1>10, WorkFrame DEF RunsAdvance, NoneSubmitted
  <1>11. CASE Tick
    BY <1>11 DEF Tick
  <1>12. CASE UNCHANGED vars
    BY <1>12 DEF vars
  <1>13. QED
    BY <1>1, <1>2, <1>3, <1>4, <1>5, <1>6, <1>7, <1>8, <1>9, <1>10, <1>11, <1>12
       DEF Next, Handle

(* Two runs of one term have the query of that term.                       *)
LEMMA ShareNext ==
  ASSUME TypeOK, IInv, [Next]_vars
  PROVE  RunsShareQuery'
  <1> USE ConstantsAssumption DEF TypeOK, IInv, InTransaction, runVars, Owners,
          Queries, Keys, Columns, Answers, RunsShareQuery, Runs
  <1>1. ASSUME NEW r \in Requests, Post(r) PROVE RunsShareQuery'
    BY <1>1 DEF Post
  <1>2. ASSUME NEW r \in Requests, Refresh(r) PROVE RunsShareQuery'
    <2>0. /\ pc[r] = "new"
          /\ UNCHANGED <<owner, status, visible, column, clock, provider, answer, aborts>>
      BY <1>2, RefreshFrame
    <2>1. CASE pc' = [pc EXCEPT ![r] = "rejected"] /\ UNCHANGED <<want, query>>
      BY <2>0, <2>1
    <2>2. ASSUME NEW a \in Requests, NEW b \in Requests, Refreshes(r, a, b) PROVE RunsShareQuery'
      BY <2>0, <2>2 DEF Refreshes
    <2>3. QED
      BY <1>2, <2>1, <2>2, RefreshFrame
  <1>3. ASSUME NEW r \in Requests, InsertQuery(r) PROVE RunsShareQuery'
    BY <1>3 DEF InsertQuery, Holds, KeyIsFree
  <1>4. ASSUME NEW r \in Requests, AnswerCached(r) PROVE RunsShareQuery'
    BY <1>4 DEF AnswerCached, Fits
  <1>5. ASSUME NEW r \in Requests, FindNone(r) PROVE RunsShareQuery'
    BY <1>5 DEF FindNone
  <1>6. ASSUME NEW r \in Requests, CreateRun(r) PROVE RunsShareQuery'
    BY <1>6 DEF CreateRun
  <1>7. ASSUME NEW r \in Requests, Abort(r) PROVE RunsShareQuery'
    BY <1>7 DEF Abort
  <1>8. ASSUME NEW r \in Requests, Commit(r) PROVE RunsShareQuery'
    BY <1>8, CommitFrame DEF RunsAdvance
  <1>9. CASE Restart
    BY <1>9 DEF Restart
  <1>10. CASE Work
    BY <1>10, WorkFrame DEF RunsAdvance, NoneSubmitted
  <1>11. CASE Tick
    BY <1>11 DEF Tick
  <1>12. CASE UNCHANGED vars
    BY <1>12 DEF vars
  <1>13. QED
    BY <1>1, <1>2, <1>3, <1>4, <1>5, <1>6, <1>7, <1>8, <1>9, <1>10, <1>11, <1>12
       DEF Next, Handle

(* A cached run fits when it is found, a new one by its creation.          *)
LEMMA FitsNext ==
  ASSUME TypeOK, IInv, [Next]_vars
  PROVE  AnswerFits'
  <1> USE ConstantsAssumption DEF TypeOK, IInv, InTransaction, runVars, Owners,
          Queries, Columns, Answers, AnswerFits, CachedIsPublished
  <1>1. ASSUME NEW r \in Requests, Post(r) PROVE AnswerFits'
    BY <1>1 DEF Post
  <1>2. ASSUME NEW r \in Requests, Refresh(r) PROVE AnswerFits'
    <2>0. /\ pc[r] = "new"
          /\ UNCHANGED <<owner, status, visible, column, clock, provider, answer, aborts>>
      BY <1>2, RefreshFrame
    <2>1. CASE pc' = [pc EXCEPT ![r] = "rejected"] /\ UNCHANGED <<want, query>>
      BY <2>0, <2>1
    <2>2. ASSUME NEW a \in Requests, NEW b \in Requests, Refreshes(r, a, b) PROVE AnswerFits'
      BY <2>0, <2>2 DEF Refreshes
    <2>3. QED
      BY <1>2, <2>1, <2>2, RefreshFrame
  <1>3. ASSUME NEW r \in Requests, InsertQuery(r) PROVE AnswerFits'
    BY <1>3 DEF InsertQuery, Holds, KeyIsFree
  <1>4. ASSUME NEW r \in Requests, AnswerCached(r) PROVE AnswerFits'
    BY <1>4 DEF AnswerCached, Fits
  <1>5. ASSUME NEW r \in Requests, FindNone(r) PROVE AnswerFits'
    BY <1>5 DEF FindNone
  <1>6. ASSUME NEW r \in Requests, CreateRun(r) PROVE AnswerFits'
    BY <1>6 DEF CreateRun
  <1>7. ASSUME NEW r \in Requests, Abort(r) PROVE AnswerFits'
    BY <1>7 DEF Abort
  <1>8. ASSUME NEW r \in Requests, Commit(r) PROVE AnswerFits'
    BY <1>8, CommitFrame DEF RunsAdvance
  <1>9. CASE Restart
    BY <1>9 DEF Restart
  <1>10. CASE Work
    BY <1>10, WorkFrame DEF RunsAdvance, NoneSubmitted
  <1>11. CASE Tick
    BY <1>11 DEF Tick
  <1>12. CASE UNCHANGED vars
    BY <1>12 DEF vars
  <1>13. QED
    BY <1>1, <1>2, <1>3, <1>4, <1>5, <1>6, <1>7, <1>8, <1>9, <1>10, <1>11, <1>12
       DEF Next, Handle

(* A completed run stays completed and its results published.              *)
LEMMA CachedNext ==
  ASSUME TypeOK, IInv, [Next]_vars
  PROVE  CachedIsPublished'
  <1> USE ConstantsAssumption DEF TypeOK, IInv, InTransaction, runVars,
          Queries, Columns, Answers, CachedIsPublished
  <1>1. ASSUME NEW r \in Requests, Post(r) PROVE CachedIsPublished'
    BY <1>1 DEF Post
  <1>2. ASSUME NEW r \in Requests, Refresh(r) PROVE CachedIsPublished'
    <2>0. /\ pc[r] = "new"
          /\ UNCHANGED <<owner, status, visible, column, clock, provider, answer, aborts>>
      BY <1>2, RefreshFrame
    <2>1. CASE pc' = [pc EXCEPT ![r] = "rejected"] /\ UNCHANGED <<want, query>>
      BY <2>0, <2>1
    <2>2. ASSUME NEW a \in Requests, NEW b \in Requests, Refreshes(r, a, b) PROVE CachedIsPublished'
      BY <2>0, <2>2 DEF Refreshes
    <2>3. QED
      BY <1>2, <2>1, <2>2, RefreshFrame
  <1>3. ASSUME NEW r \in Requests, InsertQuery(r) PROVE CachedIsPublished'
    BY <1>3 DEF InsertQuery, Holds, KeyIsFree
  <1>4. ASSUME NEW r \in Requests, AnswerCached(r) PROVE CachedIsPublished'
    BY <1>4 DEF AnswerCached, Fits
  <1>5. ASSUME NEW r \in Requests, FindNone(r) PROVE CachedIsPublished'
    BY <1>5 DEF FindNone
  <1>6. ASSUME NEW r \in Requests, CreateRun(r) PROVE CachedIsPublished'
    BY <1>6 DEF CreateRun
  <1>7. ASSUME NEW r \in Requests, Abort(r) PROVE CachedIsPublished'
    BY <1>7 DEF Abort
  <1>8. ASSUME NEW r \in Requests, Commit(r) PROVE CachedIsPublished'
    BY <1>8, CommitFrame DEF RunsAdvance
  <1>9. CASE Restart
    BY <1>9 DEF Restart
  <1>10. CASE Work
    BY <1>10, WorkFrame DEF RunsAdvance, NoneSubmitted
  <1>11. CASE Tick
    BY <1>11 DEF Tick
  <1>12. CASE UNCHANGED vars
    BY <1>12 DEF vars
  <1>13. QED
    BY <1>1, <1>2, <1>3, <1>4, <1>5, <1>6, <1>7, <1>8, <1>9, <1>10, <1>11, <1>12
       DEF Next, Handle

(* A run that an answer names is submitted before its handler is done.     *)
LEMMA MissingNext ==
  ASSUME TypeOK, IInv, MissingIsUnfinished, [Next]_vars
  PROVE  MissingIsUnfinished'
  <1> USE ConstantsAssumption DEF TypeOK, IInv, Answers, Columns,
          CachedIsPublished, MissingIsUnfinished, InTransaction, runVars,
          RunsAdvance
  <1>1. ASSUME NEW r \in Requests, Post(r) PROVE MissingIsUnfinished'
    BY <1>1 DEF Post
  <1>2. ASSUME NEW r \in Requests, Refresh(r) PROVE MissingIsUnfinished'
    <2>0. /\ pc[r] = "new"
          /\ UNCHANGED <<owner, status, visible, column, clock, provider, answer, aborts>>
      BY <1>2, RefreshFrame
    <2>1. CASE pc' = [pc EXCEPT ![r] = "rejected"] /\ UNCHANGED <<want, query>>
      BY <2>0, <2>1
    <2>2. ASSUME NEW a \in Requests, NEW b \in Requests, Refreshes(r, a, b) PROVE MissingIsUnfinished'
      BY <2>0, <2>2 DEF Refreshes
    <2>3. QED
      BY <1>2, <2>1, <2>2, RefreshFrame
  <1>3. ASSUME NEW r \in Requests, InsertQuery(r) PROVE MissingIsUnfinished'
    BY <1>3 DEF InsertQuery, Holds, KeyIsFree
  <1>4. ASSUME NEW r \in Requests, AnswerCached(r) PROVE MissingIsUnfinished'
    BY <1>4 DEF AnswerCached, Fits
  <1>5. ASSUME NEW r \in Requests, FindNone(r) PROVE MissingIsUnfinished'
    BY <1>5 DEF FindNone
  <1>6. ASSUME NEW r \in Requests, CreateRun(r) PROVE MissingIsUnfinished'
    BY <1>6 DEF CreateRun
  <1>7. ASSUME NEW r \in Requests, Abort(r) PROVE MissingIsUnfinished'
    BY <1>7 DEF Abort
  <1>8. ASSUME NEW r \in Requests, Commit(r) PROVE MissingIsUnfinished'
    <2>1. SUFFICES ASSUME NEW x \in Requests, answer[x] # "none", status'[answer[x]] = "absent"
                   PROVE  pc'[x] \in {"answered", "aborted"}
      BY <1>8, CommitFrame
    <2>2. answer[x] \in Requests /\ status[answer[x]] = "absent"
      BY <1>8, <2>1, CommitFrame DEF RunsAdvance
    <2>3. answer[x] = x
      BY <2>1, <2>2
    <2>4. answer[r] = r => status'[r] = "pending"
      BY <1>8, CommitFrame, Zenon
    <2>5. x # r
      BY <2>1, <2>3, <2>4
    <2>6. QED
      BY <1>8, <2>1, <2>2, <2>5, CommitFrame
  <1>9. CASE Restart
    BY <1>9 DEF Restart
  <1>10. CASE Work
    BY <1>10, WorkFrame DEF RunsAdvance, NoneSubmitted
  <1>11. CASE Tick
    BY <1>11 DEF Tick
  <1>12. CASE UNCHANGED vars
    BY <1>12 DEF vars
  <1>13. QED
    BY <1>1, <1>2, <1>3, <1>4, <1>5, <1>6, <1>7, <1>8, <1>9, <1>10, <1>11, <1>12
       DEF Next, Handle

-----------------------------------------------------------------------------
(* The theorems. *)

LEMMA Invariant == Spec => [](TypeOK /\ IInv)
  <1>1. Init => TypeOK
    BY ConstantsAssumption DEF Init, TypeOK, Runs, Stage, Nothing, NoRun, Workers!Init
  <1>2. Init => IInv
    BY ConstantsAssumption
       DEF Init, IInv, Owners, Queries, Keys, Alone, Columns, Answers, RunsShareQuery, AnswerFits,
           CachedIsPublished, InTransaction, Runs, NoRun, Workers!Init
  <1>3. TypeOK /\ IInv /\ [Next]_vars => (TypeOK /\ IInv)'
    BY TypeNext, OwnersNext, QueriesNext, KeysNext, AloneNext, ColumnsNext, AnswersNext,
       ShareNext, FitsNext, CachedNext DEF IInv
  <1>4. QED
    BY <1>1, <1>2, <1>3, PTL DEF Spec

(* The variables keep their types; terms and scopes are stored normalized. *)
THEOREM TypeCorrect == Spec => []TypeOK
  BY Invariant, PTL

(* However many handlers race to create a query, every run belongs to the  *)
(* one query of its term.                                                  *)
THEOREM QueriesAreShared == Spec => []RunsShareQuery
  <1>1. IInv => RunsShareQuery
    BY DEF IInv
  <1>2. QED
    BY <1>1, Invariant, PTL

(* The run an answer names is one of the term, scope and provider that     *)
(* were asked for, reused or not.                                          *)
THEOREM AnswersFit == Spec => []AnswerFits
  <1>1. IInv => AnswerFits
    BY DEF IInv
  <1>2. QED
    BY <1>1, Invariant, PTL

(* A run answered from the cache keeps its results published, and stays    *)
(* completed unless it is one that may be overtaken.                       *)
THEOREM CachedStaysPublished == Spec => []CachedIsPublished
  <1>1. IInv => CachedIsPublished
    BY DEF IInv
  <1>2. QED
    BY <1>1, Invariant, PTL

(* The run an answer names is missing only until its handler ends, unless  *)
(* its transaction failed.                                                 *)
THEOREM MissingIsTemporary == Spec => []MissingIsUnfinished
  <1>1. Init => MissingIsUnfinished
    BY DEF Init, MissingIsUnfinished
  <1>2. QED
    BY <1>1, MissingNext, Invariant, PTL DEF Spec

=============================================================================
