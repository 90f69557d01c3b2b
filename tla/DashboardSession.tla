-------------------------- MODULE DashboardSession --------------------------
(***************************************************************************)
(* The session of one browser tab (dashboard/callbacks/query.py and        *)
(* results.py): the stored run, the poll timer, the history of searches    *)
(* and the results on the page.  The callbacks run on the dashboard        *)
(* server; those that ask the API take time, and their answers race on the *)
(* same stores; those that only compute are one step.  A callback that is  *)
(* sent again drops the answer it was waiting for, as Dash does.  A call   *)
(* in flight is the one member of a set that is empty when the callback is *)
(* idle.  The runs themselves are those of RunContract.                    *)
(***************************************************************************)
EXTENDS Naturals, FiniteSets

CONSTANTS
    Runs,        \* query runs
    MaxHistory,  \* entries the history keeps (12)
    MaxListed,   \* entries the page offers to restore (8)
    Past,        \* what earlier visits may have left in the history
    MaxSearches, \* bound on the answered searches
    Overtaken    \* the runs whose row a worker may write after it has lost the run

Terminal == {"completed", "failed"}
Entry == [run : Runs, status : {"pending", "running"} \cup Terminal, saved : 1..MaxSearches]

(* A list of entries without a run twice, in the order of saved_at.        *)
Histories == {items \in SUBSET Entry :
    \A d, e \in items : (d.run = e.run \/ d.saved = e.saved) => d = e}

ASSUME ConstantsAssumption ==
    /\ MaxHistory \in Nat \ {0} /\ MaxListed \in 1..MaxHistory
    /\ MaxSearches \in Nat /\ Overtaken \subseteq Runs
    /\ Runs \cap {"none", "unavailable"} = {}
    /\ Past \subseteq Histories
    /\ \A items \in Past : \A e \in items :
         e.status \in Terminal /\ e.saved \in 1..Cardinality(items)

VARIABLES
    status, visible,  \* the runs, as RunContract has them
    store,      \* query-run-store: a run, the status last seen, saved_at
    timer,      \* whether poll-interval is enabled
    notice,     \* the status line: "blank", "text" or an "error"
    history,    \* history-store, as the set of its entries: it is sorted by saved_at
    searches,   \* searches answered so far: the clock of saved_at
    creating,   \* create_query in flight: what it will store
    polling,    \* poll_query_run in flight: the store it was sent, the answer
    rendering,  \* whether render_results is due
    shown       \* the run whose results are on the page, if any

runVars == <<status, visible>>
pageVars == <<store, timer, notice, history>>
callVars == <<creating, polling>>
vars == <<runVars, pageVars, searches, callVars, rendering, shown>>

Workers == INSTANCE RunContract

Empty == [run |-> "none", status |-> "none", saved |-> 0]
Waiting == [run |-> "none", status |-> "waiting", saved |-> 0]

(* The page is opened by a browser whose earlier searches are over, unless *)
(* a worker has written the row of one since.                              *)
Init ==
    /\ history \in Past
    /\ status \in [Runs -> {"absent", "pending", "running"} \cup Terminal]
    /\ \A r \in Runs : status[r] # "absent" <=> \E e \in history : e.run = r
    /\ \A e \in history : e.run \notin Overtaken => status[e.run] = e.status
    /\ visible = {r \in Runs : status[r] = "completed"}
                   \cup {e.run : e \in {d \in history : d.status = "completed"}}
    /\ searches = Cardinality(history)
    /\ store = Empty /\ timer = FALSE /\ notice = "blank"
    /\ creating = {} /\ polling = {}
    /\ rendering = TRUE /\ shown = "none"

Newest(items, n) == {e \in items : Cardinality({f \in items : f.saved > e.saved}) < n}

(* Mutant: the time of the last search counts.                             *)
MergedAfresh(items, entry) == {e \in items : e.run # entry.run} \cup {entry}

(* update_history_store: the stored run takes the place of its old entry,  *)
(* if there is one, and keeps its time.                                    *)
Merged(items, entry) ==
    LET known == {e.saved : e \in {f \in items : f.run = entry.run}}
        times == IF known = {} THEN {entry.saved} ELSE known
    IN {e \in items : e.run # entry.run} \cup {[entry EXCEPT !.saved = time] : time \in times}

(* The newest entries stay.                                                *)
Kept(items, entry) == Newest(Merged(items, entry), MaxHistory)

(* The outputs of a callback: stored run, status line and timer.  The      *)
(* history takes the stored run in, and the page is to be rendered.        *)
Output(entry, line, poll) ==
    /\ store' = entry /\ notice' = line /\ timer' = poll
    /\ history' = IF entry = Empty THEN history ELSE Kept(history, entry)
    /\ rendering' = TRUE

-----------------------------------------------------------------------------
(* Searching.                                                              *)

(* The search button or the enter key.                                     *)
Search ==
    /\ creating' = {Waiting}
    /\ UNCHANGED <<runVars, pageVars, searches, polling, rendering, shown>>

(* The API creates a run or answers with a completed one, whose cache      *)
(* rules are in QueryApi; the callback stamps the answer with the time.    *)
ApiAnswersSearch ==
    /\ Waiting \in creating /\ searches < MaxSearches
    /\ searches' = searches + 1
    /\ \E r \in Runs :
         /\ \/ Workers!Submit(r)
            \/ status[r] = "completed" /\ UNCHANGED runVars
         /\ creating' = {[run |-> r, status |-> status'[r], saved |-> searches + 1]}
    /\ UNCHANGED <<pageVars, polling, rendering, shown>>

(* No term was entered, or the request fails.                              *)
SearchFails ==
    /\ Waiting \in creating
    /\ creating' = {}
    /\ \E line \in {"text", "error"} : Output(Empty, line, FALSE)
    /\ UNCHANGED <<runVars, searches, polling, shown>>

(* create_query returns.                                                   *)
SearchAnswered ==
    /\ \E entry \in creating \ {Waiting} :
         Output(entry, "text", entry.status # "completed")
    /\ creating' = {}
    /\ UNCHANGED <<runVars, searches, polling, shown>>

-----------------------------------------------------------------------------
(* Polling.                                                                *)

(* The interval fires.                                                     *)
Poll ==
    /\ timer
    /\ polling' = {[was |-> store, now |-> "waiting"]}
    /\ UNCHANGED <<runVars, pageVars, searches, creating, rendering, shown>>

(* The API reads the run, or the request fails; nothing is asked when      *)
(* nothing was stored.                                                     *)
ApiAnswersPoll ==
    /\ \E p \in polling :
         /\ p.now = "waiting"
         /\ \E x \in IF p.was = Empty THEN {"none"} ELSE {status[p.was.run], "error"} :
              polling' = {[p EXCEPT !.now = x]}
    /\ UNCHANGED <<runVars, pageVars, searches, creating, rendering, shown>>

(* Mutant: the answer is compared with itself, so that nothing is new.     *)
PollAnsweredUnstored ==
    /\ \E p \in polling :
         \/ p.now = "none" /\ Output(Empty, "text", FALSE)
         \/ p.now = "error" /\ Output(p.was, "error", FALSE)
         \/ /\ p.now \notin {"waiting", "none", "error"}
            /\ timer' = TRUE
            /\ UNCHANGED <<store, notice, history, rendering>>
    /\ polling' = {}
    /\ UNCHANGED <<runVars, searches, creating, shown>>

(* poll_query_run returns: the new status goes with the run it was sent    *)
(* for, an unchanged one only leaves the timer on.                         *)
PollAnswered ==
    /\ \E p \in polling :
         \/ p.now = "none" /\ Output(Empty, "text", FALSE)
         \/ p.now = "error" /\ Output(p.was, "error", FALSE)
         \/ /\ p.now = p.was.status /\ p.was # Empty
            /\ timer' = TRUE
            /\ UNCHANGED <<store, notice, history, rendering>>
         \/ /\ p.now \notin {"waiting", "none", "error", p.was.status}
            /\ Output([p.was EXCEPT !.status = p.now], "text", p.now \notin Terminal)
    /\ polling' = {}
    /\ UNCHANGED <<runVars, searches, creating, shown>>

-----------------------------------------------------------------------------
(* The history.                                                            *)

(* Mutant: the timer is left as it is.                                     *)
RestoreOnly ==
    /\ \E entry \in Newest(history, MaxListed) : Output(entry, "text", timer)
    /\ UNCHANGED <<runVars, searches, callVars, shown>>

(* restore_history_entry: a click on one of the listed entries.            *)
Restore ==
    /\ \E entry \in Newest(history, MaxListed) :
         Output(entry, "text", entry.status \notin Terminal)
    /\ UNCHANGED <<runVars, searches, callVars, shown>>

-----------------------------------------------------------------------------
(* The page.                                                               *)

(* Mutant: any stored run has results.                                     *)
PageOfAny(entry) == {entry.run, "unavailable"}

(* The charts and documents of a run, or a page of zeros when the charts   *)
(* cannot be fetched.                                                      *)
Fetched(r) == {r, "unavailable"}

(* What render_results makes of the stored run: a run that is not          *)
(* completed, failed ones included, has no results yet.                    *)
Page(entry) == IF entry.status = "completed" THEN Fetched(entry.run) ELSE {"none"}

(* render_results is sent again whenever the stored run changes, so that   *)
(* the answer that counts is the one for the run that is stored now.       *)
Render ==
    /\ rendering /\ rendering' = FALSE
    /\ shown' \in Page(store)
    /\ UNCHANGED <<runVars, pageVars, searches, callVars>>

(* The theme or the language is switched.                                  *)
Switch ==
    /\ rendering' = TRUE
    /\ UNCHANGED <<runVars, pageVars, searches, callVars, shown>>

(* The page is loaded again: the stored run and the history survive, the   *)
(* timer starts disabled and the calls in flight are lost.                 *)
Reload ==
    /\ timer' = FALSE /\ notice' = "blank"
    /\ creating' = {} /\ polling' = {}
    /\ rendering' = TRUE /\ shown' = "none"
    /\ UNCHANGED <<runVars, store, history, searches>>

(* The workers, as RunContract has them: the status of a run that is over  *)
(* is final unless the run is one of Overtaken (a worker that overran the  *)
(* stale threshold, or a recovery that lost a race, writes its row).       *)
Work ==
    /\ \/ \E r \in Runs : Workers!Take(r) \/ Workers!Publish(r) \/ Workers!GiveUp(r)
       \/ \E S \in SUBSET Runs : Workers!GiveBack(S)
    /\ UNCHANGED <<pageVars, searches, callVars, rendering, shown>>

Next ==
    \/ Search \/ ApiAnswersSearch \/ SearchFails \/ SearchAnswered
    \/ Poll \/ ApiAnswersPoll \/ PollAnswered
    \/ Restore
    \/ \/ Render \/ Switch \/ Reload \/ Work

Spec == Init /\ [][Next]_vars

(* The browser renders and the timer fires; a poll is answered before the  *)
(* next one replaces it, at least once in a while.                         *)
FairSpec ==
    /\ Spec
    /\ WF_vars(Poll) /\ WF_vars(Render)
    /\ SF_vars(ApiAnswersPoll) /\ SF_vars(PollAnswered)

-----------------------------------------------------------------------------
(* Types of the variables.                                                 *)
TypeOK ==
    /\ status \in [Runs -> {"absent", "pending", "running"} \cup Terminal]
    /\ visible \subseteq Runs
    /\ store \in Entry \cup {Empty}
    /\ timer \in BOOLEAN /\ notice \in {"blank", "text", "error"}
    /\ history \in Histories
    /\ searches \in 0..MaxSearches
    /\ creating \subseteq Entry \cup {Waiting}
    /\ polling \subseteq [was : Entry \cup {Empty},
                          now : {"waiting", "none", "error", "pending", "running"} \cup Terminal]
    /\ rendering \in BOOLEAN
    /\ shown \in Runs \cup {"none", "unavailable"}

(* Whoever has seen run r with status s can rely on it.                    *)
Reliable(r, s) ==
    /\ s = "completed" => r \in visible
    /\ s \in Terminal /\ r \notin Overtaken => status[r] = s

(* The page shows results only of a run whose results are published, every *)
(* run the browser holds or is about to hold as completed has them, and    *)
(* a finished status is the one the run has, however old the answer it     *)
(* came with - unless a worker writes the row of a run it has lost, which  *)
(* no poll would notice any more (poll_query_run stops at such a status).  *)
FinishedIsPublished ==
    LET held == {store} \cup creating \cup history
                  \cup {p.was : p \in polling}
    IN /\ \A e \in held : Reliable(e.run, e.status)
       /\ \A p \in polling : Reliable(p.was.run, p.now)
       /\ shown \in Runs => shown \in visible

(* A stored run that is not over is being polled, unless the status line   *)
(* shows an error or the page has been loaded again since.                 *)
NoRunIsAbandoned ==
    store # Empty /\ store.status \notin Terminal /\ ~timer => notice \in {"error", "blank"}

(* Whatever is searched, polled or restored, the entries of the history    *)
(* keep their order, and one goes only when so many others are newer       *)
(* (update_history_store).                                                 *)
HistoryKeepsOrder ==
    [][ /\ history' \in Histories /\ Cardinality(history') <= MaxHistory
        /\ \A d \in history :
             \/ \E e \in history' : e.run = d.run /\ e.saved = d.saved
             \/ /\ \A e \in history' : e.run # d.run /\ e.saved > d.saved
                /\ Cardinality(history') = MaxHistory ]_history

(* Once the stored run is completed and is being polled, its results are   *)
(* fetched for the page, unless another run is stored, a poll fails or the *)
(* page is loaded again.  Of a run that may be overtaken nothing is said:  *)
(* it may leave completed before the next poll.                            *)
FinishedRunIsShown ==
    \A r \in Runs \ Overtaken :
        store.run = r /\ status[r] = "completed" /\ timer ~>
            \/ shown \in {r, "unavailable"}
            \/ store.run # r \/ notice \in {"error", "blank"}
=============================================================================
