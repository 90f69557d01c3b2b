--------------------- MODULE CollectionPersistenceProofs ---------------------
(***************************************************************************)
(* Proofs about CollectionPersistence, for any number of runs and any      *)
(* subreddits, posts, comments and languages.                              *)
(***************************************************************************)
EXTENDS CollectionPersistence, TLAPS

(* Rows are told apart by their kind and by what they are rows of.         *)
LEMMA SourceRow ==
  ASSUME NEW x \in Sources
  PROVE  /\ Source(x) \in Rows /\ Source(x).of = x
         /\ Source(x).kind = IF x \in Posts THEN "post" ELSE "comment"
         /\ Document(x) \in Rows /\ Document(x).of = x /\ Document(x).kind = "document"
  <1>1. Source(x) \in Rows /\ Document(x) \in Rows
    BY DEF Rows
  <1>2. QED
    BY <1>1 DEF Source, Document

LEMMA SubredditRow ==
  ASSUME NEW s \in Subreddits
  PROVE  Subreddit(s) \in Rows /\ Subreddit(s).kind = "subreddit" /\ Subreddit(s).of = s
  BY DEF Rows, Subreddit

LEMMA RowKinds ==
  ASSUME NEW k \in Rows
  PROVE  \/ \E s \in Subreddits : k = Subreddit(s)
         \/ \E x \in Sources : k = Source(x) \/ k = Document(x)
  BY DEF Rows

LEMMA NotRows == NoRow \notin Rows /\ DeadlockDetected \notin Rows /\ NoRow # DeadlockDetected
  <1>1. \A k \in Rows : k.kind # "none" /\ k.kind # "deadlock"
    BY RowKinds, SourceRow, SubredditRow
  <1>2. NoRow.kind = "none" /\ DeadlockDetected.kind = "deadlock"
    BY DEF NoRow, DeadlockDetected
  <1>3. QED
    BY <1>1, <1>2

LEMMA DocumentRow ==
  ASSUME NEW k \in Rows, k.kind = "document"
  PROVE  k.of \in Sources /\ k = Document(k.of)
  BY RowKinds, SourceRow, SubredditRow

-----------------------------------------------------------------------------
(* Type correctness.  That a pipeline which is over waits for nothing      *)
(* depends on its having inserted everything before it matches.            *)
InsertsOver == \A r \in Runs : stage[r] = "matched" => todo[r] = {} /\ sent[r] = NoRow

LEMMA TypeInit == Init => TypeOK /\ InsertsOver
  <1> SUFFICES ASSUME Init PROVE TypeOK /\ InsertsOver
    OBVIOUS
  <1>1. stored \subseteq Rows
    <2>1. PICK S \in SUBSET Subreddits, X \in SUBSET Sources :
            stored = {Subreddit(s) : s \in S} \cup {Source(x) : x \in X}
      BY DEF Init
    <2>2. QED
      BY <2>1, SubredditRow, SourceRow
  <1>2. QED
    BY <1>1, ConstantsAssumption DEF Init, TypeOK, Stage, Open, InsertsOver

(* The rows a run looks up are rows, and what it flushes are those it      *)
(* found missing.                                                          *)
LEMMA WantedRows ==
  ASSUME TypeOK, NEW r \in Runs, NEW s
  PROVE  Wanted(r, s) \subseteq Rows
  BY SourceRow DEF Wanted, TypeOK

LEMMA FlushedRows ==
  ASSUME TypeOK, NEW r \in Runs
  PROVE  /\ Flushed(r) \subseteq Rows
         /\ \A k \in Flushed(r) : k = sent[r] \/ (sent[r] = NoRow /\ k \in todo[r])
         /\ Flushed(r) # {} => stage[r] \in Open
  BY DEF Flushed, TypeOK

(* The runs of a cycle wait for each other's rows, so they are not over.   *)
LEMMA DeadlockedOpen ==
  ASSUME TypeOK, NEW r \in Runs, Deadlock(r)
  PROVE  stage[r] \in Open
  <1>1. PICK S \in SUBSET Runs : r \in S /\ Cycle(S)
    BY DEF Deadlock
  <1>2. PICK p \in S : Holds(p, sent[r])
    BY <1>1 DEF Cycle
  <1>3. sent[r] \in Rows
    BY <1>2 DEF Holds, TypeOK
  <1>4. QED
    BY <1>3, NotRows DEF TypeOK

LEMMA RollBackType ==
  ASSUME TypeOK, InsertsOver, NEW r \in Runs, NEW e \in Rows \cup {NoRow, DeadlockDetected},
         RollBack(r, e), failures' \in 0..MaxFailures
  PROVE  TypeOK' /\ InsertsOver'
  BY DEF TypeOK, InsertsOver, RollBack, Stage, Open

LEMMA TypeNext == TypeOK /\ InsertsOver /\ [Next]_vars => TypeOK' /\ InsertsOver'
  <1> SUFFICES ASSUME TypeOK, InsertsOver, [Next]_vars PROVE TypeOK' /\ InsertsOver'
    OBVIOUS
  <1> USE DEF TypeOK, InsertsOver, Stage, Open
  <1>1. ASSUME NEW r \in Runs, Collect(r) PROVE TypeOK' /\ InsertsOver'
    <2>1. PICK B \in SUBSET Sources, M \in SUBSET Sources :
            /\ batch' = [batch EXCEPT ![r] = B] /\ matching' = [matching EXCEPT ![r] = M]
            /\ todo' = [todo EXCEPT ![r] = {Subreddit(SubredditOf[x]) : x \in B} \ stored]
      BY <1>1 DEF Collect
    <2>2. {Subreddit(SubredditOf[x]) : x \in B} \ stored \subseteq Rows
      BY SubredditRow, ConstantsAssumption
    <2>3. QED
      BY <1>1, <2>1, <2>2 DEF Collect
  <1>2. ASSUME NEW r \in Runs, NextStage(r) PROVE TypeOK' /\ InsertsOver'
    <2>1. After(stage[r]) \in Open
      BY <1>2 DEF NextStage, After
    <2>2. Wanted(r, After(stage[r])) \subseteq Rows
      BY WantedRows
    <2>3. Existing(r) \subseteq Sources
      BY DEF Existing
    <2>4. QED
      BY <1>2, <2>1, <2>2, <2>3 DEF NextStage
  <1>3. ASSUME NEW r \in Runs, Wait(r) PROVE TypeOK' /\ InsertsOver'
    BY <1>3, FlushedRows DEF Wait
  <1>4. ASSUME NEW r \in Runs, Store(r) PROVE TypeOK' /\ InsertsOver'
    BY <1>4, FlushedRows, DocumentRow DEF Store, Done
  <1>5. ASSUME NEW r \in Runs, Absorb(r) PROVE TypeOK' /\ InsertsOver'
    BY <1>5, FlushedRows DEF Absorb, Done
  <1>6. ASSUME NEW r \in Runs, Conflict(r) PROVE TypeOK' /\ InsertsOver'
    <2>1. PICK k \in Flushed(r) : RollBack(r, k)
      BY <1>6 DEF Conflict
    <2>2. QED
      BY <1>6, <2>1, FlushedRows, RollBackType DEF Conflict
  <1>7. ASSUME NEW r \in Runs, Deadlock(r) PROVE TypeOK' /\ InsertsOver'
    BY <1>7, RollBackType DEF Deadlock
  <1>8. ASSUME NEW r \in Runs, Fail(r) PROVE TypeOK' /\ InsertsOver'
    BY <1>8, RollBackType, ConstantsAssumption DEF Fail
  <1>9. ASSUME NEW r \in Runs, Commit(r) PROVE TypeOK' /\ InsertsOver'
    BY <1>9 DEF Commit
  <1>10. CASE UNCHANGED vars
    BY <1>10 DEF vars
  <1>11. QED
    BY <1>1, <1>2, <1>3, <1>4, <1>5, <1>6, <1>7, <1>8, <1>9, <1>10 DEF Next, Step

(* Every variable has its type, and a pipeline that is over holds no row   *)
(* and waits for none: collection persistence of any number of runs.       *)
THEOREM TypeCorrect == Spec => []TypeOK
  BY TypeInit, TypeNext, PTL DEF Spec

-----------------------------------------------------------------------------
(* What a pipeline sees: the committed rows and its own.                   *)
Own(r) == stored \cup mine[r]

(* Rows whose foreign keys, and sources of documents, are among them.      *)
Closed(S) ==
    \A x \in Sources :
        /\ Document(x) \in S => Source(x) \in S
        /\ Source(x) \in S => Subreddit(SubredditOf[x]) \in S
        /\ x \in Comments /\ Source(x) \in S => Source(PostOf[x]) \in S

(* The rows the stage of a pipeline is about, and those still missing.     *)
Wants(r) ==
    IF stage[r] = "subreddit" THEN {Subreddit(SubredditOf[x]) : x \in batch[r]}
    ELSE Wanted(r, stage[r])
Pending(r, k) == k \in todo[r] \/ k = sent[r]
ToDocument(r) == {x \in matching[r] : LanguageOf[x] = language[r]}

(* The strengthening of DocumentsHaveSources and CompletedHasDocuments.    *)
(* Neither is inductive: what a commit publishes is what the run inserted  *)
(* over its five stages, next to what others had committed meanwhile, so   *)
(* the invariant says of each stage which rows the run already sees.       *)
Consistent(r) ==
    /\ Closed(Own(r))
    /\ stage[r] \in Open => Batch(batch[r]) /\ matching[r] \subseteq batch[r]
    /\ stage[r] \in Open \ {"matched"} =>
         /\ todo[r] \subseteq Wants(r) /\ sent[r] \in Wants(r) \cup {NoRow}
         /\ \A k \in Wants(r) : k \in Own(r) \/ Pending(r, k)
    /\ stage[r] \in Open \ {"subreddit"} =>
         \A x \in batch[r] : Subreddit(SubredditOf[x]) \in Own(r)
    /\ stage[r] \in Open \ {"subreddit", "post"} =>
         \A x \in batch[r] \cap Posts : Source(x) \in Own(r)
    /\ stage[r] \in {"document", "matched"} =>
         \A x \in batch[r] : Source(x) \in Own(r)
    /\ stage[r] = "document" =>
         \A x \in ToDocument(r) : x \in docs[r] \/ Pending(r, Document(x))
    /\ stage[r] = "matched" =>
         \A x \in ToDocument(r) : x \in docs[r] /\ Document(x) \in Own(r)
    /\ stage[r] = "completed" =>
         \A x \in ToDocument(r) : x \in docs[r] /\ Document(x) \in stored
AllConsistent == Closed(stored) /\ \A r \in Runs : Consistent(r)

LEMMA ClosedUnion ==
  ASSUME NEW S, NEW T, Closed(S), Closed(T)
  PROVE  Closed(S \cup T)
  BY DEF Closed

(* A row that its stage wants may be inserted: what it refers to is there. *)
LEMMA ClosedInsert ==
  ASSUME TypeOK, NEW r \in Runs, Consistent(r), stage[r] \in Open \ {"matched"},
         NEW k \in Wants(r)
  PROVE  Closed(Own(r) \cup {k})
  <1> USE ConstantsAssumption
  <1>0. batch[r] \subseteq Sources /\ matching[r] \subseteq batch[r] /\ Batch(batch[r]) /\ Closed(Own(r))
    BY DEF TypeOK, Consistent
  <1>1. CASE stage[r] = "subreddit"
    <2>1. PICK s \in Subreddits : k = Subreddit(s)
      BY <1>0, <1>1 DEF Wants
    <2>2. \A x \in Sources : k # Source(x) /\ k # Document(x)
      BY <2>1, SubredditRow, SourceRow
    <2>3. QED
      BY <1>0, <2>2 DEF Closed
  <1>2. CASE stage[r] = "post"
    <2>1. PICK y \in batch[r] : k = Source(y) /\ Source(y).kind = "post"
      BY <1>0, <1>2 DEF Wants, Wanted
    <2>2. y \in Sources /\ y \in Posts /\ y \notin Comments
      BY <1>0, <2>1, SourceRow DEF Sources
    <2>3. \A x \in Sources : k # Document(x) /\ (k = Source(x) => x = y)
      BY <2>1, <2>2, SourceRow
    <2>4. Subreddit(SubredditOf[y]) \in Own(r)
      BY <1>2, <2>1 DEF Consistent, Open
    <2>5. QED
      BY <1>0, <2>2, <2>3, <2>4 DEF Closed
  <1>3. CASE stage[r] = "comment"
    <2>1. PICK y \in batch[r] : k = Source(y) /\ Source(y).kind = "comment"
      BY <1>0, <1>3 DEF Wants, Wanted
    <2>2. y \in Sources /\ y \in Comments
      BY <1>0, <2>1, SourceRow DEF Sources
    <2>3. \A x \in Sources : k # Document(x) /\ (k = Source(x) => x = y)
      BY <2>1, <2>2, SourceRow
    <2>4. Subreddit(SubredditOf[y]) \in Own(r)
      BY <1>3, <2>1 DEF Consistent, Open
    <2>5. PostOf[y] \in batch[r] \cap Posts
      BY <1>0, <2>1, <2>2 DEF Batch
    <2>6. Source(PostOf[y]) \in Own(r)
      BY <1>3, <2>5 DEF Consistent, Open
    <2>7. QED
      BY <1>0, <2>3, <2>4, <2>6 DEF Closed
  <1>4. CASE stage[r] = "document"
    <2>1. PICK y \in matching[r] : k = Document(y)
      BY <1>4 DEF Wants, Wanted
    <2>2. y \in batch[r] /\ y \in Sources
      BY <1>0, <2>1
    <2>3. \A x \in Sources : k # Source(x) /\ (k = Document(x) => x = y)
      BY <2>1, <2>2, SourceRow
    <2>4. Source(y) \in Own(r)
      BY <1>4, <2>2 DEF Consistent
    <2>5. QED
      BY <1>0, <2>3, <2>4 DEF Closed
  <1>5. QED
    BY <1>1, <1>2, <1>3, <1>4 DEF Open

(* What is committed meanwhile leaves the other pipelines consistent.      *)
LEMMA Unaffected ==
  ASSUME TypeOK, NEW q \in Runs, Consistent(q), stored \subseteq stored', Closed(Own(q))',
         stage'[q] = stage[q], batch'[q] = batch[q], matching'[q] = matching[q],
         language'[q] = language[q], todo'[q] = todo[q], sent'[q] = sent[q],
         mine'[q] = mine[q], docs'[q] = docs[q]
  PROVE  Consistent(q)'
  <1>1. Wants(q)' = Wants(q)
    BY DEF Wants, Wanted
  <1>2. ToDocument(q)' = ToDocument(q)
    BY DEF ToDocument
  <1>3. \A k : (Pending(q, k) => Pending(q, k)') /\ (k \in Own(q) => k \in Own(q)')
    BY DEF Pending, Own
  <1>4. QED
    BY <1>1, <1>2, <1>3 DEF Consistent

(* So does a step of one pipeline that commits nothing.                    *)
LEMMA OnlyOne ==
  ASSUME TypeOK, AllConsistent, NEW r \in Runs, stored' = stored, Consistent(r)',
         \A q \in Runs \ {r} :
           /\ stage'[q] = stage[q] /\ batch'[q] = batch[q] /\ matching'[q] = matching[q]
           /\ language'[q] = language[q] /\ todo'[q] = todo[q] /\ sent'[q] = sent[q]
           /\ mine'[q] = mine[q] /\ docs'[q] = docs[q]
  PROVE  AllConsistent'
  <1>1. ASSUME NEW q \in Runs \ {r} PROVE Consistent(q)'
    <2>1. Consistent(q) /\ Own(q)' = Own(q)
      BY DEF AllConsistent, Own
    <2>2. Closed(Own(q))'
      BY <2>1 DEF Consistent, Closed
    <2>3. QED
      BY <2>1, <2>2, Unaffected
  <1>2. Closed(stored)'
    BY DEF AllConsistent, Closed
  <1>3. QED
    BY <1>1, <1>2 DEF AllConsistent

LEMMA ConsistentInit == Init => AllConsistent
  <1> SUFFICES ASSUME Init PROVE AllConsistent
    OBVIOUS
  <1>1. PICK S \in SUBSET Subreddits, X \in SUBSET Sources :
          /\ Batch(X) /\ \A x \in X : SubredditOf[x] \in S
          /\ stored = {Subreddit(s) : s \in S} \cup {Source(x) : x \in X}
    BY DEF Init
  <1>2. \A x \in Sources : Document(x) \notin stored
    BY <1>1, SourceRow, SubredditRow
  <1>3. \A x \in Sources : Source(x) \in stored => x \in X
    BY <1>1, SourceRow, SubredditRow
  <1>4. Closed(stored)
    BY <1>1, <1>2, <1>3 DEF Closed, Batch
  <1>5. ASSUME NEW r \in Runs PROVE Consistent(r)
    BY <1>4 DEF Init, Consistent, Own, Open, Closed
  <1>6. QED
    BY <1>4, <1>5 DEF AllConsistent

LEMMA CollectConsistent ==
  ASSUME TypeOK, AllConsistent, NEW r \in Runs, Collect(r)
  PROVE  AllConsistent'
  <1>1. PICK B \in SUBSET Sources, M \in SUBSET Sources :
          /\ M \subseteq B /\ Batch(B)
          /\ batch' = [batch EXCEPT ![r] = B] /\ matching' = [matching EXCEPT ![r] = M]
          /\ todo' = [todo EXCEPT ![r] = {Subreddit(SubredditOf[x]) : x \in B} \ stored]
    BY DEF Collect
  <1>2. /\ stage'[r] = "subreddit" /\ batch'[r] = B /\ matching'[r] = M
        /\ todo'[r] = {Subreddit(SubredditOf[x]) : x \in B} \ stored
        /\ sent'[r] = NoRow /\ stored' = stored /\ mine'[r] = mine[r]
    BY <1>1, NotRows DEF Collect, TypeOK, Open
  <1>3. Closed(Own(r))'
    BY <1>2 DEF AllConsistent, Consistent, Own, Closed
  <1>4. Wants(r)' = {Subreddit(SubredditOf[x]) : x \in B}
    BY <1>2 DEF Wants
  <1>5. Batch(batch[r])'
    BY <1>1, <1>2 DEF Batch
  <1>6. \A k \in Wants(r)' : k \in Own(r)' \/ Pending(r, k)'
    BY <1>2, <1>4 DEF Own, Pending
  <1>7. Consistent(r)'
    BY <1>1, <1>2, <1>3, <1>4, <1>5, <1>6 DEF Consistent, Open
  <1>8. QED
    BY <1>1, <1>2, <1>7, OnlyOne DEF Collect, TypeOK

LEMMA NextStageConsistent ==
  ASSUME TypeOK, AllConsistent, NEW r \in Runs, NextStage(r)
  PROVE  AllConsistent'
  <1> DEFINE s == After(stage[r])
  <1>0. /\ stage[r] \in Open \ {"matched"} /\ todo[r] = {} /\ sent[r] = NoRow
        /\ stage'[r] = s /\ todo'[r] = IF s = "matched" THEN {} ELSE Wanted(r, s) \ stored
        /\ docs'[r] = IF s = "document" THEN Existing(r) ELSE docs[r]
        /\ stored' = stored /\ mine'[r] = mine[r] /\ sent'[r] = NoRow /\ batch'[r] = batch[r]
        /\ matching'[r] = matching[r] /\ language'[r] = language[r]
    BY DEF NextStage, TypeOK
  <1>1. \/ stage[r] = "subreddit" /\ s = "post"
        \/ stage[r] = "post" /\ s = "comment"
        \/ stage[r] = "comment" /\ s = "document"
        \/ stage[r] = "document" /\ s = "matched"
    BY <1>0 DEF After, Open
  <1> HIDE DEF s
  <1>2. Consistent(r) /\ Own(r)' = Own(r)
    BY <1>0 DEF AllConsistent, Own
  <1>3. \A k \in Wants(r) : k \in Own(r)
    <2>1. Wants(r) \subseteq Rows
      <3>1. CASE stage[r] = "subreddit"
        BY <1>0, <3>1, SubredditRow, ConstantsAssumption DEF Wants, TypeOK
      <3>2. CASE stage[r] # "subreddit"
        BY <3>2, WantedRows DEF Wants
      <3>3. QED
        BY <3>1, <3>2
    <2>2. QED
      BY <1>0, <1>2, <2>1, NotRows DEF Consistent, Pending
  <1>4. s # "matched" => Wants(r)' = Wanted(r, s)
    BY <1>0, <1>1 DEF Wants, Wanted
  <1>5. s # "matched" => \A k \in Wants(r)' : k \in Own(r)' \/ Pending(r, k)'
    BY <1>0, <1>4 DEF Own, Pending
  <1>6. Closed(Own(r))' /\ Batch(batch[r])' /\ (matching[r] \subseteq batch[r])'
    BY <1>0, <1>2 DEF Consistent, Closed, Batch
  <1>7. \A x \in batch[r] : Subreddit(SubredditOf[x]) \in Own(r)
    BY <1>0, <1>2, <1>3 DEF Consistent, Wants
  <1>8. s # "post" => \A x \in batch[r] \cap Posts : Source(x) \in Own(r)
    <2>1. ASSUME stage[r] = "post" PROVE \A x \in batch[r] \cap Posts : Source(x) \in Own(r)
      <3>1. \A x \in batch[r] \cap Posts : Source(x) \in Wants(r)
        BY <2>1, SourceRow DEF Wants, Wanted, Sources
      <3>2. QED
        BY <1>3, <3>1
    <2>2. QED
      BY <1>0, <1>1, <1>2, <2>1 DEF Consistent
  <1>9. s \in {"document", "matched"} => \A x \in batch[r] : Source(x) \in Own(r)
    <2>1. ASSUME stage[r] = "comment", NEW x \in batch[r] \ Posts PROVE Source(x) \in Own(r)
      <3>1. x \in Sources /\ Source(x).kind = "comment"
        BY SourceRow DEF TypeOK
      <3>2. Source(x) \in Wants(r)
        BY <2>1, <3>1 DEF Wants, Wanted
      <3>3. QED
        BY <1>3, <3>2
    <2>2. QED
      BY <1>0, <1>1, <1>2, <1>8, <2>1 DEF Consistent
  <1>10. s = "document" => \A x \in ToDocument(r)' : x \in docs'[r] \/ Pending(r, Document(x))'
    <2> SUFFICES ASSUME s = "document", NEW x \in ToDocument(r)', Document(x) \notin stored
                 PROVE  Pending(r, Document(x))'
      BY <1>0 DEF Existing, ToDocument
    <2>1. Document(x) \in Wanted(r, s)
      BY <1>0 DEF ToDocument, Wanted
    <2>2. QED
      BY <1>0, <2>1 DEF Pending
  <1>11. s = "matched" => \A x \in ToDocument(r)' : x \in docs'[r] /\ (Document(x) \in Own(r))'
    <2> SUFFICES ASSUME s = "matched", NEW x \in ToDocument(r)
                 PROVE  x \in docs[r] /\ Document(x) \in Own(r)
      BY <1>0, <1>2 DEF ToDocument
    <2>1. stage[r] = "document"
      BY <1>1
    <2>2. Document(x) \in Wants(r)
      BY <2>1 DEF Wants, Wanted, ToDocument
    <2>3. Document(x) # NoRow
      BY SourceRow, NotRows DEF ToDocument, TypeOK
    <2>4. x \in docs[r] \/ Pending(r, Document(x))
      BY <1>2, <2>1 DEF Consistent
    <2>5. QED
      BY <1>0, <1>3, <2>2, <2>3, <2>4 DEF Pending
  <1>12. Consistent(r)'
    BY <1>0, <1>1, <1>2, <1>4, <1>5, <1>6, <1>7, <1>8, <1>9, <1>10, <1>11 DEF Consistent, Open
  <1>13. QED
    BY <1>0, <1>12, OnlyOne DEF NextStage, TypeOK

(* Nothing is flushed outside the stages that insert.                      *)
LEMMA FlushedWanted ==
  ASSUME TypeOK, InsertsOver, NEW r \in Runs, Consistent(r), NEW k \in Flushed(r)
  PROVE  stage[r] \in Open \ {"matched"} /\ k \in Wants(r) /\ k # NoRow /\ Pending(r, k)
  <1>1. k \in Rows /\ stage[r] \in Open /\ (k = sent[r] \/ k \in todo[r])
    BY FlushedRows
  <1>2. k # NoRow /\ stage[r] # "matched"
    BY <1>1, NotRows DEF InsertsOver
  <1>3. QED
    BY <1>1, <1>2 DEF Consistent, Pending

LEMMA WaitConsistent ==
  ASSUME TypeOK, InsertsOver, AllConsistent, NEW r \in Runs, Wait(r)
  PROVE  AllConsistent'
  <1>1. PICK k \in Flushed(r) : sent' = [sent EXCEPT ![r] = k] /\ todo' = [todo EXCEPT ![r] = @ \ {k}]
    BY DEF Wait
  <1>2. /\ Consistent(r) /\ stage[r] \in Open \ {"matched"} /\ k \in Wants(r) /\ sent[r] = NoRow
        /\ sent'[r] = k /\ todo'[r] = todo[r] \ {k} /\ stored' = stored /\ mine' = mine
        /\ stage' = stage /\ batch' = batch /\ matching' = matching
        /\ language' = language /\ docs' = docs
    BY <1>1, FlushedWanted DEF Wait, TypeOK, AllConsistent
  <1>3. Own(r)' = Own(r) /\ Wants(r)' = Wants(r) /\ ToDocument(r)' = ToDocument(r)
    BY <1>2 DEF Own, Wants, Wanted, ToDocument
  <1>4. \A j \in Rows : Pending(r, j) => Pending(r, j)'
    BY <1>2, NotRows DEF Pending
  <1>5. Wants(r) \subseteq Rows /\ \A x \in ToDocument(r) : Document(x) \in Rows
    BY <1>2, SubredditRow, WantedRows, SourceRow, ConstantsAssumption DEF Wants, ToDocument, TypeOK
  <1>6. Closed(Own(r))' /\ (Batch(batch[r]) => Batch(batch[r])')
    BY <1>2, <1>3 DEF Consistent, Closed, Batch
  <1>7. Consistent(r)'
    BY <1>2, <1>3, <1>4, <1>5, <1>6 DEF Consistent, Open
  <1>8. QED
    BY <1>1, <1>2, <1>7, OnlyOne DEF TypeOK

(* A statement is over once the pipeline sees the row, and for a document  *)
(* once it goes on with it.                                                *)
LEMMA DoneConsistent ==
  ASSUME TypeOK, InsertsOver, AllConsistent, NEW r \in Runs, NEW k \in Flushed(r), Done(r, k),
         stored' = stored, stage' = stage, batch' = batch, matching' = matching,
         language' = language, Own(r)' = Own(r) \cup {k}, docs[r] \subseteq docs'[r],
         k.kind = "document" => k.of \in docs'[r],
         \A q \in Runs \ {r} : mine'[q] = mine[q] /\ docs'[q] = docs[q]
  PROVE  AllConsistent'
  <1>1. /\ Consistent(r) /\ stage[r] \in Open \ {"matched"} /\ k \in Wants(r)
        /\ sent'[r] = NoRow /\ todo'[r] = todo[r] \ {k} /\ (sent[r] = k \/ sent[r] = NoRow)
    BY FlushedWanted, FlushedRows DEF Done, TypeOK, AllConsistent
  <1>2. Wants(r)' = Wants(r) /\ ToDocument(r)' = ToDocument(r)
    BY DEF Wants, Wanted, ToDocument
  <1>3. Closed(Own(r))'
    <2>1. Closed(Own(r) \cup {k})
      BY <1>1, ClosedInsert
    <2>2. QED
      BY <2>1 DEF Closed
  <1>4. \A j \in Rows : Pending(r, j) => j = k \/ Pending(r, j)'
    BY <1>1, NotRows DEF Pending
  <1>5. Wants(r) \subseteq Rows /\ \A x \in ToDocument(r) : Document(x) \in Rows
    BY <1>1, SubredditRow, WantedRows, SourceRow, ConstantsAssumption DEF Wants, ToDocument, TypeOK
  <1>6. \A x \in ToDocument(r) : Document(x) = k => x \in docs'[r]
    BY SourceRow DEF ToDocument, TypeOK
  <1>7. Batch(batch[r])'
    BY <1>1 DEF Consistent, Batch
  <1>8. (stage[r] \in Open \ {"matched"} =>
           /\ todo[r] \subseteq Wants(r) /\ sent[r] \in Wants(r) \cup {NoRow}
           /\ \A j \in Wants(r) : j \in Own(r) \/ Pending(r, j))'
    BY <1>1, <1>2, <1>4, <1>5 DEF Consistent
  <1>9. (stage[r] = "document" => \A x \in ToDocument(r) : x \in docs[r] \/ Pending(r, Document(x)))'
    BY <1>1, <1>2, <1>4, <1>5, <1>6 DEF Consistent
  <1>10. Consistent(r)'
    BY <1>1, <1>2, <1>3, <1>7, <1>8, <1>9 DEF Consistent, Open
  <1>11. QED
    BY <1>10, OnlyOne DEF Done, TypeOK

LEMMA StoreConsistent ==
  ASSUME TypeOK, InsertsOver, AllConsistent, NEW r \in Runs, Store(r)
  PROVE  AllConsistent'
  <1>1. PICK k \in Flushed(r) :
          /\ mine' = [mine EXCEPT ![r] = @ \cup {k}]
          /\ docs' = [docs EXCEPT ![r] = IF k.kind = "document" THEN @ \cup {k.of} ELSE @]
          /\ Done(r, k)
    BY DEF Store
  <1>2. Own(r)' = Own(r) \cup {k} /\ mine'[r] = mine[r] \cup {k} /\ stored' = stored
    BY <1>1 DEF Store, Own, TypeOK
  <1>3. QED
    BY <1>1, <1>2, DoneConsistent DEF Store, TypeOK, Own

LEMMA AbsorbConsistent ==
  ASSUME TypeOK, InsertsOver, AllConsistent, NEW r \in Runs, Absorb(r)
  PROVE  AllConsistent'
  <1>1. PICK k \in Flushed(r) : k \in stored /\ Protected(k) /\ Done(r, k)
    BY DEF Absorb
  <1>2. Own(r)' = Own(r) \cup {k} /\ Own(r)' = Own(r)
    BY <1>1 DEF Absorb, Own
  <1>3. k.kind # "document"
    BY <1>1 DEF Protected
  <1>4. QED
    BY <1>1, <1>2, <1>3, DoneConsistent DEF Absorb

LEMMA RollBackConsistent ==
  ASSUME TypeOK, AllConsistent, NEW r \in Runs, NEW e, RollBack(r, e)
  PROVE  AllConsistent'
  <1>1. /\ stage'[r] = "failed" /\ mine'[r] = {} /\ stored' = stored
    BY DEF RollBack, TypeOK
  <1>2. Closed(Own(r))'
    BY <1>1 DEF AllConsistent, Own, Closed
  <1>3. Consistent(r)'
    BY <1>1, <1>2 DEF Consistent, Open
  <1>4. QED
    BY <1>1, <1>3, OnlyOne DEF RollBack, TypeOK

(* The commit publishes a closed set of rows next to a closed one, which   *)
(* keeps what every other open transaction sees closed too.                *)
LEMMA CommitConsistent ==
  ASSUME TypeOK, AllConsistent, NEW r \in Runs, Commit(r)
  PROVE  AllConsistent'
  <1>1. /\ stage[r] = "matched" /\ stage'[r] = "completed" /\ mine'[r] = {}
        /\ stored' = Own(r) /\ Own(r)' = Own(r) /\ docs' = docs /\ matching' = matching
        /\ language' = language /\ Consistent(r)
    BY DEF Commit, TypeOK, Own, AllConsistent
  <1>2. Closed(Own(r)) /\ Closed(stored)' /\ Closed(Own(r))'
    BY <1>1 DEF Consistent, Closed
  <1>3. Consistent(r)'
    BY <1>1, <1>2 DEF Consistent, Open, ToDocument
  <1>4. ASSUME NEW q \in Runs \ {r} PROVE Consistent(q)'
    <2>1. mine'[q] = mine[q] /\ stored \subseteq stored' /\ stage'[q] = stage[q]
      BY <1>1 DEF Commit, TypeOK, Own
    <2>2. Own(q)' = Own(r) \cup Own(q)
      BY <1>1, <2>1 DEF Own
    <2>3. Closed(Own(r) \cup Own(q))
      BY <1>2, ClosedUnion DEF AllConsistent, Consistent
    <2>4. Closed(Own(q))'
      BY <2>2, <2>3 DEF Closed
    <2>5. QED
      BY <2>1, <2>4, Unaffected DEF AllConsistent, Commit
  <1>5. QED
    BY <1>2, <1>3, <1>4 DEF AllConsistent

LEMMA ConsistentNext ==
  ASSUME TypeOK, InsertsOver, AllConsistent, [Next]_vars
  PROVE  AllConsistent'
  <1>1. ASSUME NEW r \in Runs, Conflict(r) \/ Deadlock(r) \/ Fail(r) PROVE AllConsistent'
    BY <1>1, RollBackConsistent DEF Conflict, Deadlock, Fail
  <1>2. CASE UNCHANGED vars
    <2>1. \A r \in Runs : Own(r)' = Own(r) /\ Closed(Own(r))'
      BY <1>2 DEF vars, AllConsistent, Consistent, Own, Closed
    <2>2. \A r \in Runs : Consistent(r)'
      BY <1>2, <2>1, Unaffected DEF vars, AllConsistent
    <2>3. QED
      BY <1>2, <2>2 DEF vars, AllConsistent, Closed
  <1>3. QED
    BY <1>1, <1>2, CollectConsistent, NextStageConsistent, WaitConsistent, StoreConsistent,
       AbsorbConsistent, CommitConsistent DEF Next, Step

LEMMA Consistency == Spec => [](TypeOK /\ InsertsOver /\ AllConsistent)
  <1>1. Init => TypeOK /\ InsertsOver /\ AllConsistent
    BY TypeInit, ConsistentInit
  <1>2. TypeOK /\ InsertsOver /\ AllConsistent /\ [Next]_vars
          => (TypeOK /\ InsertsOver /\ AllConsistent)'
    BY TypeNext, ConsistentNext
  <1>3. QED
    BY <1>1, <1>2, PTL DEF Spec

(* Every committed document has its post or comment, every one of those    *)
(* its subreddit, and every comment its post, although the rows may come   *)
(* from the transactions of different runs, committed in any order.        *)
THEOREM SourcesAreThere == Spec => []DocumentsHaveSources
  <1>1. AllConsistent => DocumentsHaveSources
    BY DEF AllConsistent, Closed, DocumentsHaveSources
  <1>2. QED
    BY <1>1, Consistency, PTL

(* A completed run has gone on with a committed document for every         *)
(* matching text in its language, whichever run stored that.               *)
THEOREM NothingIsLost == Spec => []CompletedHasDocuments
  <1>1. AllConsistent => CompletedHasDocuments
    BY DEF AllConsistent, Consistent, ToDocument, CompletedHasDocuments
  <1>2. QED
    BY <1>1, Consistency, PTL

-----------------------------------------------------------------------------
(* A row somebody has committed since the lookup: the somebody is another  *)
(* run that has completed.  Together with ConflictsAreCommitted this is    *)
(* inductive.                                                              *)
OtherCompleted(r) == \E q \in Runs \ {r} : stage[q] = "completed"
LateRows == \A r \in Runs : \A k \in Rows : Pending(r, k) /\ k \in stored => OtherCompleted(r)

LEMMA CompletedStays ==
  ASSUME TypeOK, [Next]_vars
  PROVE  \A r \in Runs : OtherCompleted(r) => OtherCompleted(r)'
  <1> SUFFICES ASSUME NEW q \in Runs, stage[q] = "completed" PROVE stage'[q] = "completed"
    BY DEF OtherCompleted
  <1> USE DEF TypeOK
  <1>1. stage[q] \notin Open /\ stage[q] # "new"
    BY DEF Open
  <1>2. ASSUME NEW r \in Runs, Collect(r) \/ NextStage(r) \/ Wait(r) \/ Store(r) \/ Absorb(r)
        PROVE  stage'[q] = "completed"
    BY <1>1, <1>2 DEF Collect, NextStage, Wait, Store, Absorb
  <1>3. ASSUME NEW r \in Runs, Conflict(r) \/ Deadlock(r) \/ Fail(r) PROVE stage'[q] = "completed"
    <2>1. stage[r] \in Open
      BY <1>3, FlushedRows, DeadlockedOpen DEF Conflict, Fail
    <2>2. QED
      BY <1>1, <1>3, <2>1 DEF Conflict, Deadlock, Fail, RollBack
  <1>4. ASSUME NEW r \in Runs, Commit(r) PROVE stage'[q] = "completed"
    BY <1>4 DEF Commit
  <1>5. CASE UNCHANGED vars
    BY <1>5 DEF vars
  <1>6. QED
    BY <1>2, <1>3, <1>4, <1>5 DEF Next, Step

LEMMA RolledBackConflicts ==
  ASSUME TypeOK, ConflictsAreCommitted, LateRows, [Next]_vars, NEW r \in Runs, NEW e, RollBack(r, e),
         e \in Rows => e.kind \in {"subreddit", "document"} /\ e \in stored /\ OtherCompleted(r)
  PROVE  ConflictsAreCommitted' /\ LateRows'
  <1>1. \A q \in Runs : \A k \in Rows : Pending(q, k)' => Pending(q, k)
    BY NotRows DEF RollBack, Pending, TypeOK
  <1>2. LateRows'
    BY <1>1, CompletedStays DEF LateRows, RollBack
  <1>3. ASSUME NEW q \in Runs, error'[q] \in Rows
        PROVE  error'[q].kind \in {"subreddit", "document"} /\ error'[q] \in stored /\ OtherCompleted(q)
    <2>1. CASE q = r
      BY <1>3, <2>1 DEF RollBack, TypeOK
    <2>2. CASE q # r
      BY <1>3, <2>2 DEF RollBack, TypeOK, ConflictsAreCommitted, OtherCompleted
    <2>3. QED
      BY <2>1, <2>2
  <1>4. stored' = stored /\ \A q \in Runs : OtherCompleted(q) => OtherCompleted(q)'
    BY CompletedStays DEF RollBack
  <1>5. QED
    BY <1>2, <1>3, <1>4 DEF ConflictsAreCommitted, OtherCompleted

LEMMA ConflictsNext ==
  ASSUME TypeOK, InsertsOver, ConflictsAreCommitted, LateRows, [Next]_vars
  PROVE  ConflictsAreCommitted' /\ LateRows'
  <1>0. \A r \in Runs : OtherCompleted(r) => OtherCompleted(r)'
    BY CompletedStays
  <1>1. ASSUME error' = error, stored \subseteq stored' PROVE ConflictsAreCommitted'
    BY <1>0, <1>1 DEF ConflictsAreCommitted, OtherCompleted
  <1>2. ASSUME stored' = stored,
               \A r \in Runs : \A k \in Rows : Pending(r, k)' => Pending(r, k) \/ k \notin stored
        PROVE  LateRows'
    BY <1>0, <1>2 DEF LateRows
  <1>3. ASSUME NEW r \in Runs, Collect(r) PROVE ConflictsAreCommitted' /\ LateRows'
    <2>1. PICK B : todo' = [todo EXCEPT ![r] = {Subreddit(SubredditOf[x]) : x \in B} \ stored]
      BY <1>3 DEF Collect
    <2>2. \A q \in Runs : \A k \in Rows : Pending(q, k)' => Pending(q, k) \/ k \notin stored
      BY <1>3, <2>1 DEF Collect, Pending, TypeOK
    <2>3. QED
      BY <1>1, <1>2, <1>3, <2>2 DEF Collect
  <1>4. ASSUME NEW r \in Runs, NextStage(r) PROVE ConflictsAreCommitted' /\ LateRows'
    <2>1. \A q \in Runs : \A k \in Rows : Pending(q, k)' => Pending(q, k) \/ k \notin stored
      BY <1>4 DEF NextStage, Pending, TypeOK
    <2>2. QED
      BY <1>1, <1>2, <1>4, <2>1 DEF NextStage
  <1>5. ASSUME NEW r \in Runs, Wait(r) PROVE ConflictsAreCommitted' /\ LateRows'
    <2>1. \A q \in Runs : \A k \in Rows : Pending(q, k)' => Pending(q, k)
      BY <1>5, FlushedRows DEF Wait, Pending, TypeOK
    <2>2. QED
      BY <1>1, <1>2, <1>5, <2>1 DEF Wait
  <1>6. ASSUME NEW r \in Runs, Store(r) \/ Absorb(r) PROVE ConflictsAreCommitted' /\ LateRows'
    <2>1. \A q \in Runs : \A k \in Rows : Pending(q, k)' => Pending(q, k)
      BY <1>6, NotRows DEF Store, Absorb, Done, Pending, TypeOK
    <2>2. QED
      BY <1>1, <1>2, <1>6, <2>1 DEF Store, Absorb
  <1>7. ASSUME NEW r \in Runs, Conflict(r) PROVE ConflictsAreCommitted' /\ LateRows'
    <2>1. PICK k \in Flushed(r) : k \in stored /\ ~Protected(k) /\ RollBack(r, k)
      BY <1>7 DEF Conflict
    <2>2. k \in Rows /\ Pending(r, k)
      BY FlushedRows DEF Pending
    <2>3. k.kind \in {"subreddit", "document"}
      BY <2>1, <2>2, RowKinds, SubredditRow, SourceRow DEF Protected
    <2>4. QED
      BY <2>1, <2>2, <2>3, RolledBackConflicts DEF LateRows
  <1>8. ASSUME NEW r \in Runs, Deadlock(r) \/ Fail(r) PROVE ConflictsAreCommitted' /\ LateRows'
    BY <1>8, NotRows, RolledBackConflicts DEF Deadlock, Fail
  <1>9. ASSUME NEW r \in Runs, Commit(r) PROVE ConflictsAreCommitted' /\ LateRows'
    <2>1. stage'[r] = "completed" /\ stored \subseteq stored' /\ error' = error
          /\ todo' = todo /\ sent' = sent /\ todo[r] = {} /\ sent[r] = NoRow
      BY <1>9 DEF Commit, TypeOK, InsertsOver
    <2>2. \A q \in Runs : \A k \in Rows : Pending(q, k)' => q # r /\ OtherCompleted(q)'
      BY <2>1, NotRows DEF Pending, OtherCompleted
    <2>3. QED
      BY <1>1, <2>1, <2>2 DEF LateRows
  <1>10. CASE UNCHANGED vars
    BY <1>1, <1>2, <1>10 DEF vars, Pending
  <1>11. QED
    BY <1>3, <1>4, <1>5, <1>6, <1>7, <1>8, <1>9, <1>10 DEF Next, Step

(* A run never fails on a row it could have absorbed: the IntegrityError   *)
(* that ends one is about a subreddit or a document that another run,      *)
(* completed by now, has committed, so that a refresh finds it.            *)
THEOREM OnlyCommittedConflicts == Spec => []ConflictsAreCommitted
  <1>1. Init => ConflictsAreCommitted /\ LateRows
    BY NotRows DEF Init, ConflictsAreCommitted, LateRows, Pending
  <1>2. TypeOK /\ InsertsOver /\ ConflictsAreCommitted /\ LateRows /\ [Next]_vars
          => (ConflictsAreCommitted /\ LateRows)'
    BY ConflictsNext
  <1>3. QED
    BY <1>1, <1>2, Consistency, PTL DEF Spec

=============================================================================
