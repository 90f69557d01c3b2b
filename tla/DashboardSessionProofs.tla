----------------------- MODULE DashboardSessionProofs -----------------------
(***************************************************************************)
(* Proofs about DashboardSession, for any number of runs, any history and  *)
(* any limits.                                                             *)
(*                                                                         *)
(* A callback stores what it was sent some time ago, so that no store says *)
(* where another one comes from.  What all of them have in common is that  *)
(* the time of an entry tells its run, and that a finished status can be   *)
(* relied on for ever: results stay published, and a run that nobody       *)
(* overtakes stays finished.                                               *)
(***************************************************************************)
EXTENDS DashboardSession, FiniteSetTheorems, TLAPS

Statuses == {"absent", "pending", "running"} \cup Terminal

(* Everything the browser holds or a callback was sent with.               *)
Held == {store} \cup creating \cup history \cup {p.was : p \in polling}

(* The time of an entry tells its run.                                     *)
Stamps ==
    /\ \A e \in Held : e.saved <= searches
    /\ \A d, e \in Held : d.saved = e.saved => d.run = e.run

Completed == \A r \in Runs : status[r] = "completed" => r \in visible

(* A poll that was sent without a run is answered with none, one that was  *)
(* sent for a run with a status the run had.                               *)
Answered(p) ==
    /\ p.was = Empty => p.now \in {"waiting", "none"}
    /\ p.now \in Terminal => Reliable(p.was.run, p.now)

Asked == \A p \in polling : Answered(p)

(* The runs the browser knows have been submitted.                         *)
Submitted == \A e \in Held : e.run \in Runs => status[e.run] # "absent"

IInv == Stamps /\ Completed /\ Asked /\ Submitted /\ FinishedIsPublished

(* An entry that names a run and a time the browser has, and no finished   *)
(* status but that of the run.                                             *)
Sound(e) ==
    /\ \E d \in Held : e.run = d.run /\ e.saved = d.saved
    /\ e.status \in Terminal => Reliable(e.run, e.status)

-----------------------------------------------------------------------------
(* The history.                                                            *)

(* Every entry of a history has a time of its own.                         *)
LEMMA FewInHistory ==
  ASSUME NEW items \in Histories
  PROVE  IsFiniteSet(items) /\ Cardinality(items) \in 0..MaxSearches
  <1> DEFINE f == [e \in items |-> e.saved]
  <1>1. f \in Injection(items, 1..MaxSearches)
    BY DEF Histories, Entry, Injection, IsInjective
  <1>2. IsFiniteSet(1..MaxSearches) /\ Cardinality(1..MaxSearches) = MaxSearches
    BY ConstantsAssumption, FS_Interval
  <1>3. IsFiniteSet(items) /\ Cardinality(items) <= MaxSearches
    BY <1>1, <1>2, FS_Injection
  <1>4. QED
    BY <1>3, FS_CardinalityType, ConstantsAssumption

Newer(items, e) == {f \in items : f.saved > e.saved}

LEMMA FirstNumbers ==
  ASSUME NEW n \in Nat
  PROVE  IsFiniteSet(0..(n - 1)) /\ Cardinality(0..(n - 1)) = n
  BY FS_Interval

LEMMA NewerEntries ==
  ASSUME NEW items \in Histories, NEW e \in items
  PROVE  /\ Cardinality(Newer(items, e)) \in 0..(Cardinality(items) - 1)
         /\ \A d \in Newer(items, e) :
              Cardinality(Newer(items, d)) < Cardinality(Newer(items, e))
  <1>1. \A d \in items : d.saved \in Nat
    BY ConstantsAssumption DEF Histories, Entry
  <1>2. Newer(items, e) \in SUBSET items /\ Newer(items, e) # items
    BY <1>1 DEF Newer
  <1>3. IsFiniteSet(items) /\ IsFiniteSet(Newer(items, e))
    BY <1>2, FewInHistory, FS_Subset
  <1>4. Cardinality(Newer(items, e)) <= Cardinality(items)
    BY <1>2, <1>3, FS_Subset
  <1>5. Cardinality(Newer(items, e)) # Cardinality(items)
    BY <1>2, <1>3, FS_Subset
  <1>6. Cardinality(Newer(items, e)) \in Nat /\ Cardinality(items) \in Nat
    BY <1>3, FS_CardinalityType
  <1>7. ASSUME NEW d \in Newer(items, e)
        PROVE  Cardinality(Newer(items, d)) < Cardinality(Newer(items, e))
    <2>1. /\ Newer(items, d) \in SUBSET Newer(items, e)
          /\ Newer(items, d) # Newer(items, e)
      BY <1>1 DEF Newer
    <2>2. IsFiniteSet(Newer(items, d))
      BY <1>3, <2>1, FS_Subset
    <2>3. Cardinality(Newer(items, d)) <= Cardinality(Newer(items, e))
      BY <1>3, <2>1, FS_Subset
    <2>4. Cardinality(Newer(items, d)) # Cardinality(Newer(items, e))
      BY <1>3, <2>1, FS_Subset
    <2>5. Cardinality(Newer(items, d)) \in Nat
      BY <2>2, FS_CardinalityType
    <2>6. QED
      BY <1>6, <2>3, <2>4, <2>5
  <1>8. QED
    BY <1>4, <1>5, <1>6, <1>7

(* The number of newer entries ranks the entries of a history without      *)
(* gaps, so that the newest n are n when there are more.                   *)
LEMMA NewestOfHistory ==
  ASSUME NEW items \in Histories, NEW n \in Nat
  PROVE  /\ Newest(items, n) \in Histories
         /\ Cardinality(Newest(items, n)) <= n
         /\ \A d \in items \ Newest(items, n) :
              /\ Cardinality(Newest(items, n)) = n
              /\ \A e \in Newest(items, n) : e.saved > d.saved
  <1> DEFINE rank == [e \in items |-> Cardinality(Newer(items, e))]
             size == Cardinality(items)
             few == Newest(items, n)
  <1>1. \A d, e \in items : (d.run = e.run \/ d.saved = e.saved) => d = e
    BY DEF Histories
  <1>2. \A e \in items : e.saved \in Nat
    BY ConstantsAssumption DEF Histories, Entry
  <1>3. IsFiniteSet(items) /\ size \in Nat
    BY FewInHistory
  <1>4. \A e \in items : rank[e] \in 0..(size - 1)
    BY NewerEntries
  <1>5. \A d, e \in items : d.saved > e.saved => rank[d] < rank[e]
    BY NewerEntries DEF Newer
  <1> HIDE DEF size
  <1>6. \A d, e \in items : rank[d] = rank[e] => d = e
    <2> SUFFICES ASSUME NEW d \in items, NEW e \in items, d # e PROVE rank[d] # rank[e]
      BY Zenon
    <2>1. d.saved > e.saved \/ e.saved > d.saved
      BY <1>1, <1>2
    <2> HIDE DEF rank
    <2>2. rank[d] < rank[e] \/ rank[e] < rank[d]
      BY <1>5, <2>1
    <2>3. rank[d] \in Int /\ rank[e] \in Int
      BY <1>3, <1>4
    <2>4. QED
      BY <2>2, <2>3
  <1>7. few = {e \in items : rank[e] < n}
    BY DEF Newest, Newer
  <1> HIDE DEF rank, few
  <1>8. few \in Histories
    BY <1>7 DEF Histories
  <1>9. [e \in few |-> rank[e]] \in Injection(few, 0..(n - 1))
    BY <1>4, <1>6, <1>7 DEF Injection, IsInjective
  <1>10. IsFiniteSet(0..(n - 1)) /\ Cardinality(0..(n - 1)) = n
    BY FirstNumbers
  <1>11. Cardinality(few) <= n
    BY <1>9, <1>10, FS_Injection
  <1>12. ASSUME NEW d \in items \ few
         PROVE  Cardinality(few) = n /\ \A e \in few : e.saved > d.saved
    <2>1. rank[d] >= n
      BY <1>4, <1>7, <1>12
    <2>2. \A e \in few : e.saved > d.saved
      BY <1>1, <1>2, <1>4, <1>5, <1>7, <1>12, <2>1
    <2>3. rank \in Injection(items, 0..(size - 1))
      BY <1>4, <1>6 DEF rank, Injection, IsInjective
    <2>4. IsFiniteSet(0..(size - 1)) /\ Cardinality(0..(size - 1)) = size
      BY <1>3, FirstNumbers
    <2>5. rank \in Surjection(items, 0..(size - 1))
      BY <2>3, <2>4, FS_Injection DEF size
    <2>6. n <= size
      BY <1>3, <1>4, <1>12, <2>1
    <2>7. \A k \in 0..(n - 1) : \E e \in few : rank[e] = k
      BY <1>3, <1>7, <2>5, <2>6 DEF Surjection
    <2>8. [e \in few |-> rank[e]] \in Surjection(few, 0..(n - 1))
      BY <1>9, <2>7 DEF Surjection, Injection
    <2>9. Cardinality(few) = n
      BY <1>9, <1>10, <2>8, FS_Injection
    <2>10. QED
      BY <2>2, <2>9
  <1>13. QED
    BY <1>8, <1>11, <1>12 DEF few

(* Merging leaves every time in its place.                                 *)
LEMMA MergedIsHistory ==
  ASSUME NEW items \in Histories, NEW entry \in Entry,
         \A e \in items : e.saved = entry.saved => e.run = entry.run
  PROVE  /\ Merged(items, entry) \in Histories
         /\ \A e \in Merged(items, entry) :
              \/ e \in items
              \/ /\ e.run = entry.run /\ e.status = entry.status
                 /\ \E d \in items \cup {entry} : e.run = d.run /\ e.saved = d.saved
         /\ \A d \in items : \E e \in Merged(items, entry) :
              e.run = d.run /\ e.saved = d.saved
  <1> DEFINE known == {e.saved : e \in {f \in items : f.run = entry.run}}
             times == IF known = {} THEN {entry.saved} ELSE known
             updated == {[entry EXCEPT !.saved = time] : time \in times}
             others == {e \in items : e.run # entry.run}
  <1>1. \A d, e \in items : (d.run = e.run \/ d.saved = e.saved) => d = e
    BY DEF Histories
  <1>2. items \subseteq Entry
    BY DEF Histories
  <1>3. \A time \in times : \E d \in items \cup {entry} :
          d.run = entry.run /\ d.saved = time /\ (d \in items \/ known = {})
    OBVIOUS
  <1>4. \A s, t \in times : s = t
    BY <1>1
  <1>5. times \subseteq 1..MaxSearches
    BY <1>2 DEF Entry
  <1>6. \A e \in updated : /\ e \in Entry /\ e.run = entry.run /\ e.status = entry.status
                           /\ e.saved \in times
    BY <1>5 DEF Entry
  <1>7. \A d, e \in updated : d = e
    BY <1>4
  <1>8. \A d \in others, e \in updated : d.saved # e.saved
    <2> SUFFICES ASSUME NEW d \in others, NEW e \in updated, d.saved = e.saved PROVE FALSE
      OBVIOUS
    <2>1. PICK f \in items \cup {entry} : f.run = entry.run /\ f.saved = e.saved
      BY <1>3, <1>6
    <2>2. d.run = entry.run
      BY <1>1, <2>1
    <2>3. QED
      BY <2>2
  <1>9. \A d, e \in others \cup updated : (d.run = e.run \/ d.saved = e.saved) => d = e
    BY <1>1, <1>6, <1>7, <1>8
  <1>10. Merged(items, entry) = others \cup updated
    BY DEF Merged
  <1>11. Merged(items, entry) \in Histories
    BY <1>2, <1>6, <1>9, <1>10 DEF Histories
  <1>12. ASSUME NEW d \in items
         PROVE  \E e \in others \cup updated : e.run = d.run /\ e.saved = d.saved
    <2>1. CASE d.run # entry.run
      BY <2>1
    <2>2. CASE d.run = entry.run
      <3>1. d.saved \in times
        BY <2>2
      <3>2. [entry EXCEPT !.saved = d.saved] \in updated
        BY <3>1
      <3>3. QED
        BY <2>2, <3>2 DEF Entry
    <2>3. QED
      BY <2>1, <2>2
  <1>13. \A e \in updated :
           \E d \in items \cup {entry} : e.run = d.run /\ e.saved = d.saved
    BY <1>3, <1>6
  <1> HIDE DEF updated
  <1>14. QED
    BY <1>6, <1>10, <1>11, <1>12, <1>13

LEMMA KeptIsHistory ==
  ASSUME NEW items \in Histories, NEW entry \in Entry,
         \A e \in items : e.saved = entry.saved => e.run = entry.run
  PROVE  /\ Kept(items, entry) \in Histories
         /\ Cardinality(Kept(items, entry)) <= MaxHistory
         /\ \A e \in Kept(items, entry) :
              \/ e \in items
              \/ /\ e.run = entry.run /\ e.status = entry.status
                 /\ \E d \in items \cup {entry} : e.run = d.run /\ e.saved = d.saved
         /\ \A d \in items :
              \/ \E e \in Kept(items, entry) : e.run = d.run /\ e.saved = d.saved
              \/ /\ \A e \in Kept(items, entry) : e.run # d.run /\ e.saved > d.saved
                 /\ Cardinality(Kept(items, entry)) = MaxHistory
  <1> DEFINE merged == Merged(items, entry)
             kept == Newest(merged, MaxHistory)
  <1>1. /\ merged \in Histories
        /\ \A e \in merged :
             \/ e \in items
             \/ /\ e.run = entry.run /\ e.status = entry.status
                /\ \E d \in items \cup {entry} : e.run = d.run /\ e.saved = d.saved
        /\ \A d \in items : \E e \in merged : e.run = d.run /\ e.saved = d.saved
    BY MergedIsHistory
  <1>2. Kept(items, entry) = kept /\ kept \subseteq merged
    BY DEF Kept, Newest
  <1>3. /\ kept \in Histories /\ Cardinality(kept) <= MaxHistory
        /\ \A d \in merged \ kept : /\ Cardinality(kept) = MaxHistory
                                    /\ \A e \in kept : e.saved > d.saved
    BY <1>1, NewestOfHistory, ConstantsAssumption
  <1>4. ASSUME NEW d \in items
        PROVE  \/ \E e \in kept : e.run = d.run /\ e.saved = d.saved
               \/ /\ \A e \in kept : e.run # d.run /\ e.saved > d.saved
                  /\ Cardinality(kept) = MaxHistory
    <2>1. PICK m \in merged : m.run = d.run /\ m.saved = d.saved
      BY <1>1
    <2>2. \A e \in kept : e.run = d.run => e = m
      BY <1>1, <1>2, <2>1 DEF Histories
    <2>3. CASE m \in kept
      BY <2>1, <2>3
    <2>4. CASE m \notin kept
      BY <1>3, <2>1, <2>2, <2>4
    <2>5. QED
      BY <2>3, <2>4
  <1>5. QED
    BY <1>1, <1>2, <1>3, <1>4

-----------------------------------------------------------------------------
(* What the steps of RunContract leave true, whoever takes them.           *)
RunsStayOver ==
    /\ status' \in [Runs -> Statuses] /\ visible' \subseteq Runs
    /\ visible \subseteq visible'
    /\ \A r \in Runs \ Overtaken : status[r] \in Terminal => status'[r] = status[r]
    /\ \A r \in Runs : status'[r] = "absent" => status[r] = "absent"
    /\ Completed'

LEMMA ContractSteps ==
  ASSUME TypeOK, Completed
  PROVE  /\ \A r \in Runs :
              (Workers!Submit(r) \/ Workers!Take(r) \/ Workers!Publish(r) \/ Workers!GiveUp(r))
                => RunsStayOver
         /\ \A S \in SUBSET Runs : Workers!GiveBack(S) => RunsStayOver
         /\ UNCHANGED runVars => RunsStayOver
  <1> USE DEF TypeOK, Completed, RunsStayOver, Statuses, Terminal
  <1>1. ASSUME NEW r \in Runs, Workers!Submit(r) PROVE RunsStayOver
    BY <1>1 DEF Workers!Submit
  <1>2. ASSUME NEW r \in Runs, Workers!Take(r) PROVE RunsStayOver
    BY <1>2 DEF Workers!Take, Workers!Writable
  <1>3. ASSUME NEW r \in Runs, Workers!Publish(r) PROVE RunsStayOver
    BY <1>3 DEF Workers!Publish, Workers!Writable
  <1>4. ASSUME NEW r \in Runs, Workers!GiveUp(r) PROVE RunsStayOver
    BY <1>4 DEF Workers!GiveUp, Workers!Writable
  <1>5. ASSUME NEW S \in SUBSET Runs, Workers!GiveBack(S) PROVE RunsStayOver
    BY <1>5 DEF Workers!GiveBack, Workers!Writable
  <1>6. ASSUME UNCHANGED runVars PROVE RunsStayOver
    BY <1>6 DEF runVars
  <1>7. QED
    BY <1>1, <1>2, <1>3, <1>4, <1>5, <1>6

(* A status that can be relied on can be relied on for ever.               *)
LEMMA ReliableStays ==
  ASSUME RunsStayOver, NEW r \in Runs, NEW s, Reliable(r, s)
  PROVE  Reliable(r, s)'
  BY DEF RunsStayOver, Reliable, Terminal

(* Nothing is claimed of a run that is not over.                           *)
LEMMA UnfinishedReliable ==
  ASSUME NEW r, NEW s, s \notin Terminal
  PROVE  Reliable(r, s) /\ Reliable(r, s)'
  BY DEF Reliable, Terminal

Polls == [was : Entry \cup {Empty},
          now : {"waiting", "none", "error", "pending", "running"} \cup Terminal]

(* What is held after a step names the runs and times the browser had.     *)
Faithful ==
    /\ \A e \in Held' : Sound(e) \/ e \in {Empty, Waiting}
    /\ \A p \in polling' : Answered(p)
    /\ polling' \subseteq Polls
    /\ creating' \subseteq Entry \cup {Waiting}
    /\ store' \in Entry \cup {Empty}
    /\ history' \in Histories
    /\ timer' \in BOOLEAN /\ notice' \in {"blank", "text", "error"}
    /\ rendering' \in BOOLEAN
    /\ shown' \in Runs \cup {"none", "unavailable"}
    /\ shown' \in Runs => shown' \in visible

LEMMA HeldTypes ==
  ASSUME TypeOK
  PROVE  Held \subseteq Entry \cup {Empty, Waiting}
  BY DEF TypeOK, Held, Histories

LEMMA FaithfulStep ==
  ASSUME TypeOK, IInv, RunsStayOver, UNCHANGED searches, Faithful
  PROVE  TypeOK' /\ IInv'
  <1> USE DEF TypeOK, IInv, Faithful, RunsStayOver
  <1>1. TypeOK'
    BY DEF Polls, Statuses
  <1>2. Held' \subseteq Entry \cup {Empty, Waiting}
    BY DEF Held, Polls, Histories
  <1>3. \A e \in Entry : e.run \in Runs /\ e.saved \in 1..MaxSearches
    BY DEF Entry
  <1>4. \A e \in {Empty, Waiting} : e.run = "none" /\ e.saved = 0 /\ e.status \notin Terminal
    BY DEF Empty, Waiting, Terminal
  <1>5. searches \in Nat
    BY DEF TypeOK
  <1>6. \A d \in Held : d.saved = 0 => d.run = "none"
    BY <1>3, <1>4, HeldTypes
  <1>7. Stamps'
    <2>1. \A e \in Held' : e.saved <= searches
      BY <1>4, <1>5 DEF Stamps, Sound
    <2>2. ASSUME NEW d \in Held', NEW e \in Held', d.saved = e.saved PROVE d.run = e.run
      <3>1. CASE Sound(d) /\ Sound(e)
        BY <2>2, <3>1 DEF Sound, Stamps
      <3>2. CASE d \in {Empty, Waiting}
        BY <1>4, <1>6, <2>2, <3>2 DEF Sound
      <3>3. CASE e \in {Empty, Waiting}
        BY <1>4, <1>6, <2>2, <3>3 DEF Sound
      <3>4. QED
        BY <3>1, <3>2, <3>3
    <2>3. QED
      BY <2>1, <2>2 DEF Stamps
  <1>8. ASSUME NEW e \in Held' PROVE Reliable(e.run, e.status)'
    <2>1. CASE e.status \notin Terminal
      BY <2>1, UnfinishedReliable
    <2>2. CASE e.status \in Terminal
      <3>1. e.run \in Runs /\ Reliable(e.run, e.status)
        BY <1>2, <1>3, <1>4, <2>2 DEF Sound
      <3>2. QED
        BY <3>1, ReliableStays
    <2>3. QED
      BY <2>1, <2>2
  <1>9. ASSUME NEW p \in polling' PROVE Reliable(p.was.run, p.now)'
    <2>1. CASE p.now \notin Terminal
      BY <2>1, UnfinishedReliable
    <2>2. CASE p.now \in Terminal
      <3>1. p.was \in Entry /\ Reliable(p.was.run, p.now)
        BY <2>2 DEF Polls, Answered, Terminal
      <3>2. p.was.run \in Runs
        BY <1>3, <3>1
      <3>3. QED
        BY <3>1, <3>2, ReliableStays
    <2>3. QED
      BY <2>1, <2>2
  <1>10. FinishedIsPublished'
    BY <1>8, <1>9 DEF FinishedIsPublished, Held
  <1>11. Submitted'
    <2> SUFFICES ASSUME NEW e \in Held', e.run \in Runs PROVE status'[e.run] # "absent"
      BY DEF Submitted
    <2>1. Sound(e)
      BY <1>4, ConstantsAssumption
    <2>2. status[e.run] # "absent"
      BY <2>1 DEF Sound, Submitted
    <2>3. QED
      BY <2>2
  <1>12. QED
    BY <1>1, <1>7, <1>9, <1>10, <1>11 DEF Asked, Answered

-----------------------------------------------------------------------------
(* What the browser holds is sound.                                        *)
LEMMA HeldSound ==
  ASSUME IInv
  PROVE  \A e \in Held : Sound(e)
  BY DEF IInv, FinishedIsPublished, Held, Sound

(* A callback's outputs, and the history made of them, are sound when the  *)
(* stored run is.                                                          *)
LEMMA OutputFaithful ==
  ASSUME TypeOK, IInv, NEW entry \in Entry \cup {Empty}, entry = Empty \/ Sound(entry),
         NEW line, NEW poll, Output(entry, line, poll)
  PROVE  /\ \A e \in {store'} \cup history' : Sound(e) \/ e = Empty
         /\ store' \in Entry \cup {Empty} /\ history' \in Histories
         /\ timer' = poll /\ notice' = line /\ rendering' = TRUE
  <1>1. store' = entry /\ timer' = poll /\ notice' = line /\ rendering' = TRUE
    BY DEF Output
  <1>2. history \in Histories /\ history \subseteq Held
    BY DEF TypeOK, Held
  <1>3. CASE entry = Empty
    <2>1. history' = history
      BY <1>3 DEF Output
    <2>2. QED
      BY <1>1, <1>2, <1>3, <2>1, HeldSound
  <1>4. CASE entry # Empty
    <2>1. entry \in Entry /\ Sound(entry) /\ history' = Kept(history, entry)
      BY <1>4 DEF Output
    <2>2. \A e \in history : e.saved = entry.saved => e.run = entry.run
      BY <1>2, <2>1 DEF Sound, IInv, Stamps
    <2>3. history' \in Histories
      BY <1>2, <2>1, <2>2, KeptIsHistory
    <2>4. ASSUME NEW e \in history' PROVE Sound(e)
      <3>1. CASE e \in history
        BY <1>2, <3>1, HeldSound
      <3>2. CASE /\ e.run = entry.run /\ e.status = entry.status
                 /\ \E d \in history \cup {entry} : e.run = d.run /\ e.saved = d.saved
        <4>1. PICK d \in history \cup {entry} : e.run = d.run /\ e.saved = d.saved
          BY <3>2
        <4>2. \E f \in Held : e.run = f.run /\ e.saved = f.saved
          BY <1>2, <2>1, <4>1 DEF Sound
        <4>3. QED
          BY <2>1, <3>2, <4>2 DEF Sound
      <3>3. QED
        BY <1>2, <2>1, <2>2, <2>4, <3>1, <3>2, KeptIsHistory
    <2>5. QED
      BY <1>1, <2>1, <2>3, <2>4
  <1>5. QED
    BY <1>3, <1>4

(* What HistoryKeepsOrder says of a step.                                  *)
Ordered ==
    /\ history' \in Histories /\ Cardinality(history') <= MaxHistory
    /\ \A d \in history :
         \/ \E e \in history' : e.run = d.run /\ e.saved = d.saved
         \/ /\ \A e \in history' : e.run # d.run /\ e.saved > d.saved
            /\ Cardinality(history') = MaxHistory

LEMMA OutputOrdered ==
  ASSUME TypeOK, IInv, NEW entry \in Entry \cup {Empty}, entry = Empty \/ Sound(entry),
         NEW line, NEW poll, Output(entry, line, poll), history' # history
  PROVE  Ordered
  <1>1. entry \in Entry /\ Sound(entry) /\ history' = Kept(history, entry)
    BY DEF Output
  <1>2. history \in Histories /\ history \subseteq Held
    BY DEF TypeOK, Held
  <1>3. \A e \in history : e.saved = entry.saved => e.run = entry.run
    BY <1>1, <1>2 DEF Sound, IInv, Stamps
  <1>4. QED
    BY <1>1, <1>2, <1>3, KeptIsHistory DEF Ordered

(* What a step that stores entry leaves of the calls decides the rest.     *)
LEMMA OutputStep ==
  ASSUME TypeOK, IInv, NEW entry \in Entry \cup {Empty}, entry = Empty \/ Sound(entry),
         NEW line \in {"blank", "text", "error"}, NEW poll \in BOOLEAN,
         Output(entry, line, poll),
         creating' \subseteq creating, polling' \subseteq polling,
         UNCHANGED <<runVars, searches, shown>>
  PROVE  TypeOK' /\ IInv'
  <1>1. /\ \A e \in {store'} \cup history' : Sound(e) \/ e = Empty
        /\ store' \in Entry \cup {Empty} /\ history' \in Histories
        /\ timer' = poll /\ notice' = line /\ rendering' = TRUE
    BY OutputFaithful
  <1>2. Held' = {store'} \cup creating' \cup history' \cup {p.was : p \in polling'}
    BY DEF Held
  <1>3. creating' \subseteq Held /\ {p.was : p \in polling'} \subseteq Held
    BY DEF Held
  <1>4. \A e \in Held' : Sound(e) \/ e \in {Empty, Waiting}
    BY <1>1, <1>2, <1>3, HeldSound
  <1>5. RunsStayOver
    BY ContractSteps DEF IInv
  <1>6. Faithful
    BY <1>1, <1>4 DEF Faithful, TypeOK, IInv, Asked, FinishedIsPublished, Polls
  <1>7. QED
    BY <1>5, <1>6, FaithfulStep

(* A step that stores nothing.                                             *)
LEMMA QuietStep ==
  ASSUME TypeOK, IInv, RunsStayOver, UNCHANGED <<store, history, searches>>,
         \A e \in creating' : e \in creating \/ e = Waiting,
         \A p \in polling' : p \in Polls /\ p.was \in Held /\ Answered(p),
         timer' \in BOOLEAN, notice' \in {"blank", "text", "error"},
         rendering' \in BOOLEAN,
         shown' \in Runs \cup {"none", "unavailable"}, shown' \in Runs => shown' \in visible
  PROVE  TypeOK' /\ IInv'
  <1>1. \A e \in Held' : e \in Held \/ e = Waiting
    BY DEF Held
  <1>2. \A e \in Held' : Sound(e) \/ e \in {Empty, Waiting}
    BY <1>1, HeldSound
  <1>3. Faithful
    BY <1>2 DEF Faithful, TypeOK
  <1>4. QED
    BY <1>3, FaithfulStep
-----------------------------------------------------------------------------
(* An answered search gets a run and a time that no other entry has.       *)
LEMMA AnsweredSearch ==
  ASSUME TypeOK, IInv, ApiAnswersSearch
  PROVE  TypeOK' /\ IInv'
  <1>1. PICK r \in Runs :
          /\ Workers!Submit(r) \/ (status[r] = "completed" /\ UNCHANGED runVars)
          /\ creating' = {[run |-> r, status |-> status'[r], saved |-> searches + 1]}
    BY DEF ApiAnswersSearch
  <1> DEFINE new == [run |-> r, status |-> status'[r], saved |-> searches + 1]
  <1>2. /\ searches \in Nat /\ searches + 1 \in 1..MaxSearches /\ searches' = searches + 1
        /\ UNCHANGED <<pageVars, polling, rendering, shown>>
    BY ConstantsAssumption DEF ApiAnswersSearch, TypeOK
  <1>3. RunsStayOver
    BY <1>1, ContractSteps DEF IInv
  <1>4. status'[r] \in {"pending", "completed"}
    BY <1>1 DEF Workers!Submit, TypeOK, runVars
  <1>5. new \in Entry
    BY <1>2, <1>4 DEF Entry, Terminal
  <1>6. \A e \in Held' : e \in Held \/ e = new
    BY <1>1, <1>2 DEF Held, pageVars
  <1>7. TypeOK'
    BY <1>1, <1>2, <1>3, <1>5 DEF TypeOK, RunsStayOver, Statuses, pageVars
  <1>8. Stamps'
    <2>1. \A e \in Held : e.saved <= searches /\ e.saved \in Nat
      BY HeldTypes DEF IInv, Stamps, Entry, Empty, Waiting
    <2>2. QED
      BY <1>2, <1>6, <2>1 DEF IInv, Stamps
  <1>9. FinishedIsPublished'
    <2>1. ASSUME NEW e \in Held' PROVE Reliable(e.run, e.status)'
      <3>1. CASE e.status \notin Terminal
        BY <3>1, UnfinishedReliable
      <3>2. CASE e \in Held /\ e.status \in Terminal
        <4>1. Reliable(e.run, e.status) /\ e.run \in Runs
          BY <3>2, HeldSound, HeldTypes
             DEF Sound, Entry, Empty, Waiting, Terminal
        <4>2. QED
          BY <1>3, <4>1, ReliableStays
      <3>3. CASE e = new
        BY <1>3, <3>3 DEF Reliable, RunsStayOver, Completed
      <3>4. QED
        BY <1>6, <3>1, <3>2, <3>3
    <2>2. ASSUME NEW p \in polling PROVE Reliable(p.was.run, p.now)'
      <3>1. CASE p.now \notin Terminal
        BY <3>1, UnfinishedReliable
      <3>2. CASE p.now \in Terminal
        <4>1. Reliable(p.was.run, p.now) /\ p.was.run \in Runs
          BY <3>2 DEF IInv, Asked, Answered, TypeOK, Entry, Terminal
        <4>2. QED
          BY <1>3, <4>1, ReliableStays
      <3>3. QED
        BY <3>1, <3>2
    <2>3. shown' \in Runs => shown' \in visible'
      BY <1>2, <1>3 DEF IInv, FinishedIsPublished, RunsStayOver
    <2>4. QED
      BY <1>2, <2>1, <2>2, <2>3 DEF FinishedIsPublished, Held
  <1>10. Submitted'
    BY <1>3, <1>4, <1>6 DEF IInv, Submitted, RunsStayOver
  <1>11. Asked'
    <2>1. \A p \in polling : Reliable(p.was.run, p.now)'
      BY <1>2, <1>9 DEF FinishedIsPublished
    <2>2. QED
      BY <1>2, <2>1 DEF IInv, Asked, Answered
  <1>12. QED
    BY <1>3, <1>7, <1>8, <1>9, <1>10, <1>11 DEF IInv, RunsStayOver

LEMMA InvariantNext ==
  ASSUME TypeOK, IInv, [Next]_vars
  PROVE  TypeOK' /\ IInv'
  <1> USE DEF IInv
  <1>0. UNCHANGED runVars => RunsStayOver
    BY ContractSteps
  <1>1. \A p \in polling : p \in Polls /\ p.was \in Held /\ Answered(p)
    BY DEF TypeOK, Polls, Held, Asked
  <1>2. CASE Search
    BY <1>0, <1>1, <1>2, QuietStep DEF Search, pageVars, TypeOK, FinishedIsPublished
  <1>3. CASE ApiAnswersSearch
    BY <1>3, AnsweredSearch
  <1>4. CASE SearchFails
    <2>1. PICK line \in {"text", "error"} : Output(Empty, line, FALSE)
      BY <1>4 DEF SearchFails
    <2>2. QED
      BY <1>4, <2>1, OutputStep DEF SearchFails
  <1>5. CASE SearchAnswered
    <2>1. PICK entry \in creating \ {Waiting} :
            Output(entry, "text", entry.status # "completed")
      BY <1>5 DEF SearchAnswered
    <2>2. entry \in Entry /\ Sound(entry)
      BY <2>1, HeldSound DEF TypeOK, Held
    <2>3. QED
      BY <1>5, <2>1, <2>2, OutputStep DEF SearchAnswered
  <1>6. CASE Poll
    <2>1. [was |-> store, now |-> "waiting"] \in Polls /\ "waiting" \notin Terminal
      BY DEF TypeOK, Polls, Terminal
    <2>2. QED
      BY <1>0, <1>6, <2>1, QuietStep DEF Poll, pageVars, TypeOK, FinishedIsPublished, Held, Answered
  <1>7. CASE ApiAnswersPoll
    <2>1. PICK p \in polling, x \in {"none", "error"} \cup Statuses :
            /\ x \in IF p.was = Empty THEN {"none"} ELSE {status[p.was.run], "error"}
            /\ polling' = {[p EXCEPT !.now = x]}
      <3>1. PICK p \in polling :
              \E x \in IF p.was = Empty THEN {"none"} ELSE {status[p.was.run], "error"} :
                polling' = {[p EXCEPT !.now = x]}
        BY <1>7 DEF ApiAnswersPoll
      <3>2. p.was # Empty => status[p.was.run] \in Statuses
        BY <3>1 DEF TypeOK, Entry, Statuses
      <3>3. QED
        BY <3>1, <3>2
    <2>2. p.was \in Entry \cup {Empty} /\ p.was \in Held
      BY <2>1 DEF TypeOK, Held
    <2>3. CASE p.was = Empty
      <3>1. x = "none" /\ "none" \notin Terminal
        BY <2>1, <2>3 DEF Terminal
      <3>2. [p EXCEPT !.now = x] \in Polls
        BY <1>1, <2>1, <3>1 DEF Polls
      <3>3. QED
        BY <1>0, <1>7, <2>1, <2>2, <3>1, <3>2, QuietStep
           DEF ApiAnswersPoll, pageVars, TypeOK, FinishedIsPublished, Polls, Answered
    <2>4. CASE p.was \in Entry
      <3>1. p.was.run \in Runs /\ p.was # Empty
        BY <2>4, ConstantsAssumption DEF Entry, Empty
      <3>2. x # "absent" /\ (x \in Terminal => Reliable(p.was.run, x))
        BY <2>1, <2>2, <3>1 DEF Submitted, Terminal, Completed, Reliable
      <3>3. [p EXCEPT !.now = x] \in Polls
        BY <1>1, <2>1, <3>2 DEF Polls, Statuses
      <3>4. QED
        BY <1>0, <1>7, <2>1, <2>2, <3>1, <3>2, <3>3, QuietStep
           DEF ApiAnswersPoll, pageVars, TypeOK, FinishedIsPublished, Polls, Answered
    <2>5. QED
      BY <2>2, <2>3, <2>4
  <1>8. CASE PollAnswered
    <2>1. PICK p \in polling :
         \/ p.now = "none" /\ Output(Empty, "text", FALSE)
         \/ p.now = "error" /\ Output(p.was, "error", FALSE)
         \/ /\ timer' = TRUE
            /\ UNCHANGED <<store, notice, history, rendering>>
         \/ /\ p.now \notin {"waiting", "none", "error", p.was.status}
            /\ Output([p.was EXCEPT !.status = p.now], "text", p.now \notin Terminal)
      BY <1>8 DEF PollAnswered
    <2>2. p.was \in Entry \cup {Empty} /\ Sound(p.was)
      BY <2>1, <1>1, HeldSound DEF Polls
    <2>3. UNCHANGED <<runVars, searches, creating, shown>> /\ polling' = {}
      BY <1>8 DEF PollAnswered
    <2>4. CASE p.now = "none" /\ Output(Empty, "text", FALSE)
      BY <2>3, <2>4, OutputStep
    <2>5. CASE p.now = "error" /\ Output(p.was, "error", FALSE)
      BY <2>2, <2>3, <2>5, OutputStep
    <2>6. CASE timer' = TRUE /\ UNCHANGED <<store, notice, history, rendering>>
      BY <1>0, <2>3, <2>6, QuietStep DEF TypeOK, FinishedIsPublished
    <2>7. CASE /\ p.now \notin {"waiting", "none", "error", p.was.status}
               /\ Output([p.was EXCEPT !.status = p.now], "text", p.now \notin Terminal)
      <3> DEFINE entry == [p.was EXCEPT !.status = p.now]
      <3>1. p.was \in Entry /\ (p.now \in Terminal => Reliable(p.was.run, p.now))
        BY <1>1, <2>1, <2>2, <2>7 DEF Answered
      <3>2. entry \in Entry /\ entry.run = p.was.run /\ entry.saved = p.was.saved
                /\ entry.status = p.now
        BY <1>1, <2>1, <2>7, <3>1 DEF Entry, Polls
      <3>3. Sound(entry)
        BY <2>2, <3>1, <3>2 DEF Sound
      <3>4. QED
        BY <2>3, <2>7, <3>2, <3>3, OutputStep
    <2>8. QED
      BY <2>1, <2>4, <2>5, <2>6, <2>7
  <1>9. CASE Restore
    <2>1. PICK entry \in history : Output(entry, "text", entry.status \notin Terminal)
      BY <1>9 DEF Restore, Newest
    <2>2. entry \in Entry /\ Sound(entry)
      BY <2>1, HeldSound DEF TypeOK, Histories, Held
    <2>3. QED
      BY <1>9, <2>1, <2>2, OutputStep DEF Restore, callVars
  <1>10. CASE Render
    <2>1. shown' \in Runs \cup {"none", "unavailable"} /\ (shown' \in Runs => shown' \in visible)
      <3>1. CASE store.status = "completed"
        <4>1. store \in Entry /\ store.run \in visible
          BY <3>1 DEF TypeOK, Empty, FinishedIsPublished, Reliable
        <4>2. shown' \in {store.run, "unavailable"} /\ store.run \in visible
          BY <1>10, <3>1, <4>1 DEF Render, Page, Fetched
        <4>3. QED
          BY <4>1, <4>2, ConstantsAssumption DEF TypeOK
      <3>2. CASE store.status # "completed"
        BY <1>10, <3>2, ConstantsAssumption DEF Render, Page
      <3>3. QED
        BY <3>1, <3>2
    <2>2. QED
      BY <1>0, <1>1, <1>10, <2>1, QuietStep DEF Render, pageVars, callVars, TypeOK
  <1>11. CASE Switch
    BY <1>0, <1>1, <1>11, QuietStep DEF Switch, pageVars, callVars, TypeOK, FinishedIsPublished
  <1>12. CASE Reload
    BY <1>0, <1>12, QuietStep, ConstantsAssumption DEF Reload, TypeOK
  <1>13. CASE Work
    <2>1. ASSUME NEW r \in Runs, Workers!Take(r) \/ Workers!Publish(r) \/ Workers!GiveUp(r)
          PROVE  RunsStayOver
      BY <2>1, ContractSteps
    <2>2. ASSUME NEW S \in SUBSET Runs, Workers!GiveBack(S) PROVE RunsStayOver
      BY <2>2, ContractSteps
    <2>3. RunsStayOver
      BY <1>13, <2>1, <2>2, Zenon DEF Work
    <2>4. QED
      BY <1>1, <1>13, <2>3, QuietStep DEF Work, pageVars, callVars, TypeOK, FinishedIsPublished
  <1>14. CASE UNCHANGED vars
    BY <1>0, <1>1, <1>14, QuietStep DEF vars, pageVars, callVars, TypeOK, FinishedIsPublished
  <1>15. QED
    BY <1>2, <1>3, <1>4, <1>5, <1>6, <1>7, <1>8, <1>9, <1>10, <1>11, <1>12, <1>13, <1>14
       DEF Next

-----------------------------------------------------------------------------
(* Whoever writes the history merges a sound entry into it.                *)
LEMMA OrderedNext ==
  ASSUME TypeOK, IInv, [Next]_vars, history' # history
  PROVE  Ordered
  <1> SUFFICES \E entry \in Entry \cup {Empty}, line \in {"text", "error"}, poll \in BOOLEAN :
                 Output(entry, line, poll) /\ (entry = Empty \/ Sound(entry))
    BY OutputOrdered
  <1> USE DEF IInv
  <1>1. CASE SearchFails
    BY <1>1 DEF SearchFails
  <1>2. CASE SearchAnswered
    <2>1. PICK entry \in creating \ {Waiting} :
            Output(entry, "text", entry.status # "completed")
      BY <1>2 DEF SearchAnswered
    <2>2. entry \in Entry /\ Sound(entry)
      BY <2>1, HeldSound DEF TypeOK, Held
    <2>3. QED
      BY <2>1, <2>2
  <1>3. CASE PollAnswered
    <2>1. PICK p \in polling :
         \/ p.now = "none" /\ Output(Empty, "text", FALSE)
         \/ p.now = "error" /\ Output(p.was, "error", FALSE)
         \/ /\ p.now \notin {"waiting", "none", "error", p.was.status}
            /\ Output([p.was EXCEPT !.status = p.now], "text", p.now \notin Terminal)
      BY <1>3 DEF PollAnswered
    <2>2. p \in Polls /\ Answered(p) /\ Sound(p.was)
      BY <2>1, HeldSound DEF TypeOK, Polls, Asked, Held
    <2>3. CASE p.now \in {"none", "error"}
      BY <2>1, <2>2, <2>3 DEF Polls
    <2>4. CASE p.now \notin {"waiting", "none", "error"}
      <3> DEFINE entry == [p.was EXCEPT !.status = p.now]
      <3>1. p.was \in Entry /\ (p.now \in Terminal => Reliable(p.was.run, p.now))
        BY <2>2, <2>4 DEF Answered, Polls
      <3>2. entry \in Entry /\ entry.run = p.was.run /\ entry.saved = p.was.saved
                /\ entry.status = p.now
        BY <2>2, <2>4, <3>1 DEF Entry, Polls
      <3>3. Sound(entry)
        BY <2>2, <3>1, <3>2 DEF Sound
      <3>4. QED
        BY <2>1, <2>4, <3>2, <3>3
    <2>5. QED
      BY <2>1, <2>3, <2>4
  <1>4. CASE Restore
    <2>1. PICK entry \in history : Output(entry, "text", entry.status \notin Terminal)
      BY <1>4 DEF Restore, Newest
    <2>2. entry \in Entry /\ Sound(entry)
      BY <2>1, HeldSound DEF TypeOK, Histories, Held
    <2>3. QED
      BY <2>1, <2>2
  <1>5. QED
    BY <1>1, <1>2, <1>3, <1>4
       DEF Next, vars, pageVars, Search, ApiAnswersSearch, Poll, ApiAnswersPoll,
           Render, Switch, Reload, Work

(* Every callback that stores an unfinished run turns the timer on or      *)
(* leaves an error on the status line.                                     *)
LEMMA PollingNext ==
  ASSUME TypeOK, NoRunIsAbandoned, [Next]_vars
  PROVE  NoRunIsAbandoned'
  <1> USE DEF NoRunIsAbandoned
  <1>1. CASE SearchFails
    BY <1>1 DEF SearchFails, Output
  <1>2. CASE SearchAnswered
    BY <1>2 DEF SearchAnswered, Output, Terminal
  <1>3. CASE PollAnswered
    <2>1. ASSUME NEW p \in polling, p.now \notin {"waiting", "none", "error", p.was.status},
                 Output([p.was EXCEPT !.status = p.now], "text", p.now \notin Terminal)
          PROVE  store'.status \in Terminal \/ timer'
      <3>1. p.was \in Entry \cup {Empty}
        BY DEF TypeOK
      <3>2. [p.was EXCEPT !.status = p.now].status = p.now
        BY <3>1 DEF Entry, Empty
      <3>3. QED
        BY <2>1, <3>2 DEF Output
    <2>2. QED
      BY <1>3, <2>1 DEF PollAnswered, Output
  <1>4. CASE Restore
    BY <1>4 DEF Restore, Output
  <1>5. CASE Reload
    BY <1>5 DEF Reload
  <1>6. QED
    BY <1>1, <1>2, <1>3, <1>4, <1>5
       DEF Next, vars, pageVars, Search, ApiAnswersSearch, Poll, ApiAnswersPoll,
           Render, Switch, Work

-----------------------------------------------------------------------------
(* The theorems.                                                           *)

LEMMA Invariant == Spec => [](TypeOK /\ IInv)
  <1>1. Init => TypeOK
    <2> SUFFICES ASSUME Init PROVE TypeOK
      OBVIOUS
    <2>1. history \in Histories
      BY ConstantsAssumption DEF Init
    <2>2. searches \in 0..MaxSearches
      BY <2>1, FewInHistory DEF Init
    <2>3. visible \subseteq Runs
      BY <2>1 DEF Init, Histories, Entry
    <2>4. QED
      BY <2>1, <2>2, <2>3, ConstantsAssumption DEF Init, TypeOK, Empty, Terminal
  <1>2. Init => IInv
    <2> SUFFICES ASSUME Init PROVE IInv
      OBVIOUS
    <2> USE ConstantsAssumption DEF Init
    <2>1. Held = {Empty} \cup history
      BY DEF Held
    <2>2. history \in Histories /\ \A e \in history : e.saved \in 1..searches
      OBVIOUS
    <2>3. Empty.saved = 0 /\ Empty.run = "none" /\ Empty.status \notin Terminal
      BY DEF Empty, Terminal
    <2>4. Stamps
      BY <2>1, <2>2, <2>3, FewInHistory DEF Stamps, Histories
    <2>5. Submitted /\ FinishedIsPublished
      <3>1. \A e \in history : e.run \in Runs /\ e.status \in Statuses
        BY <2>2 DEF Histories, Entry, Statuses
      <3>2. Submitted
        BY <2>1, <2>2, <2>3, <3>1 DEF Submitted
      <3>3. \A e \in Held : Reliable(e.run, e.status)
        BY <2>1, <2>3, <3>1 DEF Reliable, Terminal
      <3>4. polling = {} /\ shown = "none" /\ "none" \notin Runs
        OBVIOUS
      <3>5. QED
        BY <3>2, <3>3, <3>4 DEF FinishedIsPublished, Held
    <2>6. QED
      BY <2>4, <2>5 DEF IInv, Completed, Asked
  <1>3. TypeOK /\ IInv /\ [Next]_vars => (TypeOK /\ IInv)'
    BY InvariantNext
  <1>4. QED
    BY <1>1, <1>2, <1>3, PTL DEF Spec

(* The variables keep their types; the history never lists a run twice.    *)
THEOREM TypeCorrect == Spec => []TypeOK
  BY Invariant, PTL

(* No callback shows or stores that a run is over before it is, and the    *)
(* page fetches the results of published runs only; a finished status is   *)
(* that of the run unless the run is one that may be overtaken.            *)
THEOREM NothingIsFinishedEarly == Spec => []FinishedIsPublished
  <1>1. IInv => FinishedIsPublished
    BY DEF IInv
  <1>2. QED
    BY <1>1, Invariant, PTL

(* A stored run that is not over is polled, unless an error is shown or    *)
(* the page has been loaded again.                                         *)
THEOREM PollingGoesOn == Spec => []NoRunIsAbandoned
  <1>1. Init => NoRunIsAbandoned
    BY DEF Init, NoRunIsAbandoned
  <1>2. TypeOK /\ NoRunIsAbandoned /\ [Next]_vars => NoRunIsAbandoned'
    BY PollingNext
  <1>3. QED
    BY <1>1, <1>2, Invariant, PTL DEF Spec

(* The history keeps its order and its newest entries.                     *)
THEOREM HistoryIsOrdered == Spec => HistoryKeepsOrder
  <1>1. TypeOK /\ IInv /\ [Next]_vars => [Ordered]_history
    BY OrderedNext
  <1>2. Spec => [][Ordered]_history
    BY <1>1, Invariant, PTL DEF Spec
  <1>3. QED
    BY <1>2 DEF HistoryKeepsOrder, Ordered

=============================================================================
