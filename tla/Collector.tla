----------------------------- MODULE Collector -----------------------------
(***************************************************************************)
(* The collection of one run (ArcticShiftCollector.collect) and what is    *)
(* kept of it (persist_posts_and_comments, match_and_persist_batch).       *)
(* collect starts one task per subreddit and then one per post; the tasks  *)
(* share a semaphore, retry transient answers while they keep their slot   *)
(* and are skipped after the last one.  Any other failure ends collect     *)
(* while its other tasks still run.                                        *)
(***************************************************************************)
EXTENDS Search, FiniteSets

CONSTANTS
    RawNames,      \* the subreddits as typed or configured
    Names,         \* normalized names
    NormalName,    \* normalize_name; "none" for an empty one
    Posts, Comments,
    SubredditOf,   \* the subreddit of each post
    PostOf,        \* the post of each comment
    Title, Body,   \* the texts
    Term,          \* the term of the run
    Concurrency,   \* arctic_shift_concurrency
    MaxRetries     \* arctic_shift_max_retries

Sources == Posts \cup Comments

(* Items of an answer that are not a post or comment: one without an id,   *)
(* and one whose score or time cannot be converted.                        *)
NoId == "no id"
Malformed == "malformed"

ASSUME ConstantsAssumption ==
    /\ NormalName \in [RawNames -> Names \cup {"none"}] /\ "none" \notin Names
    /\ Posts \cap Comments = {} /\ Names \cap Posts = {} /\ Sources \cap {NoId, Malformed} = {}
    /\ IsFiniteSet(RawNames) /\ IsFiniteSet(Sources)
    /\ Title \in [Posts -> Seq(Symbols)] /\ Body \in [Sources -> Seq(Symbols)]
    /\ SubredditOf \in [Posts -> Names] /\ PostOf \in [Comments -> Posts]
    /\ Concurrency \in Nat \ {0} /\ MaxRetries \in Nat

VARIABLES
    phase,    \* where collect, and the pipeline after it, is
    names,    \* the subreddits of the run
    task,     \* the requests of this phase, in order
    free,     \* free slots of the semaphore
    open,     \* the HTTP client is open
    posts, comments,  \* what collect returns
    served,   \* every post and comment the upstream has answered with
    kept,     \* the documents of the run, in order
    matched   \* the rows of query_document_matches

vars == <<phase, names, task, free, open, posts, comments, served, kept, matched>>

Phase == {"idle", "posts", "comments", "closing", "done", "failed", "matched"}
Over == {"answered", "skipped", "raised"}

Init ==
    /\ phase = "idle" /\ names = <<>> /\ task = <<>> /\ free = 0 /\ open = FALSE
    /\ posts = <<>> /\ comments = <<>> /\ served = {}
    /\ kept = <<>> /\ matched = <<>>

-----------------------------------------------------------------------------
(* The tasks of a gather.                                                  *)

Request(x) == [about |-> x, state |-> "queued", attempt |-> 0, payload |-> <<>>]
Requests(xs) == [i \in DOMAIN xs |-> Request(xs[i])]
At(i, s) == i \in DOMAIN task /\ task[i].state = s
Set(i, s) == task' = [task EXCEPT ![i].state = s]
kept_ == <<kept, matched>>
batch == <<names, posts, comments>>

(* async with semaphore: the waiters are served in order.  A request on a  *)
(* closed client raises at once and leaves the slot.                       *)
Acquire(i) ==
    /\ At(i, "queued") /\ free > 0 /\ \A j \in 1..(i - 1) : ~At(j, "queued")
    /\ IF open THEN Set(i, "sending") /\ free' = free - 1
               ELSE Set(i, "raised") /\ UNCHANGED free
    /\ UNCHANGED <<phase, open, batch, served, kept_>>

(* What the upstream has about a subreddit or a post.                      *)
Found(x) == {p \in Posts : SubredditOf[p] = x} \cup {c \in Comments : PostOf[c] = x}

(* The answers: some of it, in any order, and items that are no use.  The  *)
(* payload is the items of an answer, none when it has another form.  That *)
(* no answer names an item twice is an assumption about the upstream:      *)
(* nothing in the client would drop the second one.                        *)
Payloads(x) ==
    (UNION {SetToSeqs(S) : S \in SUBSET Found(x)})
    \cup {<<NoId>> \o all : all \in SetToSeqs(Found(x))}
    \cup {all \o <<Malformed>> : all \in SetToSeqs(Found(x))}

(* A JSON answer.                                                          *)
Answer(i) ==
    /\ At(i, "sending")
    /\ \E p \in Payloads(task[i].about) :
         /\ task' = [task EXCEPT ![i].state = "answered", ![i].payload = p]
         /\ served' = served \cup (ToSet(p) \cap Sources)
    /\ free' = free + 1
    /\ UNCHANGED <<phase, open, batch, kept_>>

(* Status 422 or at least 500: sleep with the slot and try again.          *)
Retry(i) ==
    /\ At(i, "sending") /\ task[i].attempt < MaxRetries
    /\ task' = [task EXCEPT ![i].state = "backoff", ![i].attempt = @ + 1]
    /\ UNCHANGED <<phase, free, open, batch, served, kept_>>

(* Mutant: the slot of a skipped request is not given back.                *)
SkipKeepingSlot(i) ==
    /\ At(i, "sending") /\ task[i].attempt = MaxRetries
    /\ Set(i, "skipped")
    /\ UNCHANGED <<phase, free, open, batch, served, kept_>>

(* The same, for the last time: an empty answer.                           *)
Skip(i) ==
    /\ At(i, "sending") /\ task[i].attempt = MaxRetries
    /\ Set(i, "skipped") /\ free' = free + 1
    /\ UNCHANGED <<phase, open, batch, served, kept_>>

(* Any other status, a network error, a timeout, or no JSON.               *)
Raise(i) ==
    /\ At(i, "sending")
    /\ Set(i, "raised") /\ free' = free + 1
    /\ UNCHANGED <<phase, open, batch, served, kept_>>

(* The sleep is over.                                                      *)
Wake(i) ==
    /\ At(i, "backoff")
    /\ IF open THEN Set(i, "sending") /\ UNCHANGED free
               ELSE Set(i, "raised") /\ free' = free + 1
    /\ UNCHANGED <<phase, open, batch, served, kept_>>

TaskStep(i) == Acquire(i) \/ Answer(i) \/ Retry(i) \/ Skip(i) \/ Raise(i) \/ Wake(i)

-----------------------------------------------------------------------------
(* collect.                                                                *)

(* Mutant: names are not compared.                                         *)
NormalNamesRepeated(raws) ==
    Select([i \in DOMAIN raws |-> NormalName[raws[i]]], LAMBDA n : n # "none")

(* normalize_names: the normalized names, each once.                       *)
NormalNames(raws) ==
    Distinct(Select([i \in DOMAIN raws |-> NormalName[raws[i]]], LAMBDA n : n # "none"))

(* build_scope_config sorts them; their order does not matter here.        *)
Begin ==
    /\ phase = "idle"
    /\ \E raws \in {SetToSeq(S) : S \in SUBSET RawNames} : names' = NormalNames(raws)
    /\ task' = Requests(names')
    /\ free' = Concurrency /\ open' = TRUE
    /\ phase' = "posts"
    /\ UNCHANGED <<posts, comments, served, kept_>>

GatherEnds == \A i \in DOMAIN task : task[i].state \in {"answered", "skipped"}
GatherFails == \E i \in DOMAIN task : task[i].state = "raised"

(* gather returns the payloads in the order of the tasks.                  *)
Gathered == [i \in DOMAIN task |-> task[i].payload]

(* Mutant: items without an id are kept.                                   *)
ItemsAll(payload) == payload

(* _extract_items and the normalizers drop what has no id.                 *)
Items(payload) == Select(payload, LAMBDA x : x # NoId)
MalformedAnswer == \E i \in DOMAIN task : Malformed \in ToSet(task[i].payload)

(* The posts are known: request their comments.                            *)
PostsCollected ==
    /\ phase = "posts" /\ GatherEnds /\ ~MalformedAnswer
    /\ posts' = FlattenSeq([i \in DOMAIN Gathered |-> Items(Gathered[i])])
    /\ task' = Requests(posts')
    /\ phase' = "comments"
    /\ UNCHANGED <<names, free, open, comments, served, kept_>>

(* A comment belongs to the post whose request was answered with it.  The  *)
(* client is closed before the comments are read.                          *)
CommentsCollected ==
    /\ phase = "comments" /\ GatherEnds /\ ~MalformedAnswer
    /\ comments' = FlattenSeq([i \in DOMAIN Gathered |->
                      [k \in DOMAIN Items(Gathered[i]) |->
                         [comment |-> Items(Gathered[i])[k], post |-> posts[i]]]])
    /\ open' = FALSE
    /\ phase' = "done"
    /\ UNCHANGED <<names, task, free, posts, served, kept_>>

(* The exception leaves gather, whose other tasks go on, or the loop over  *)
(* the items.                                                              *)
CollectRaises ==
    /\ phase \in {"posts", "comments"}
    /\ GatherFails \/ (GatherEnds /\ MalformedAnswer)
    /\ phase' = "closing"
    /\ UNCHANGED <<task, free, open, batch, served, kept_>>

(* Mutant: the client stays open when collect fails.                       *)
CloseNothing ==
    /\ phase = "closing"
    /\ phase' = "failed"
    /\ UNCHANGED <<task, free, open, batch, served, kept_>>

(* Leaving the client closes its connections: the requests in flight fail, *)
(* those that are still connecting included, which is an idealization.     *)
Close ==
    /\ phase = "closing"
    /\ open' = FALSE
    /\ task' = [i \in DOMAIN task |->
                  IF At(i, "sending") THEN [task[i] EXCEPT !.state = "raised"] ELSE task[i]]
    /\ free' = free + Cardinality({i \in DOMAIN task : At(i, "sending")})
    /\ phase' = "failed"
    /\ UNCHANGED <<batch, served, kept_>>

-----------------------------------------------------------------------------
(* What is kept.                                                           *)

(* Mutant: the title is not part of the document.                          *)
DocumentTextBody(x) == Body[x]

DocumentText(x) == IF x \in Posts THEN FullText(Title[x], Body[x]) ELSE Body[x]

(* A post matches by its title or its body, a comment by its body.         *)
Candidates ==
    {x \in Sources : (x \in Posts /\ Matches(Title[x], Term)) \/ Matches(Body[x], Term)}
Matching == {x \in Sources : Matches(DocumentText(x), Term)}

(* match_and_persist_batch: the rows it adds; those an overtaken pipeline  *)
(* of the same run has committed are left alone.                           *)
NewMatches(docs, already) ==
    Select(docs, LAMBDA x : x \in Matching \ already)

(* Candidates in another language get no document (CollectionPersistence). *)
Keep ==
    /\ phase = "done"
    /\ LET texts == posts \o [i \in DOMAIN comments |-> comments[i].comment]
       IN  \E S \in SUBSET (ToSet(texts) \cap Candidates) :
             \E already \in {{}, S} :
               /\ kept' = Select(texts, LAMBDA x : x \in S)
               /\ matched' = SetToSeq(already) \o NewMatches(kept', already)
    /\ phase' = "matched"
    /\ UNCHANGED <<task, free, open, batch, served>>

-----------------------------------------------------------------------------
CollectStep == Begin \/ PostsCollected \/ CommentsCollected \/ CollectRaises \/ Close \/ Keep

Next == CollectStep \/ \E i \in DOMAIN task : TaskStep(i)

Spec == Init /\ [][Next]_vars

(* The event loop runs what is ready, and a request ends: the client has a *)
(* timeout of 60 seconds.                                                  *)
Tasks == 1..(Cardinality(Names) + Cardinality(Posts))
FairSpec ==
    Spec /\ WF_vars(CollectStep) /\ \A i \in Tasks : WF_vars(i \in DOMAIN task /\ TaskStep(i))

-----------------------------------------------------------------------------
(* Types of the variables; a slot is held by a request that is sending or  *)
(* sleeps before the next attempt.                                         *)
TypeOK ==
    /\ phase \in Phase /\ open \in BOOLEAN
    /\ free \in 0..Concurrency
    /\ ToSet(names) \subseteq Names /\ ToSet(posts) \subseteq Posts /\ served \subseteq Sources
    /\ ToSet(comments) \subseteq [comment : Comments, post : Posts]
    /\ ToSet(kept) \subseteq Sources /\ ToSet(matched) \subseteq Sources
    /\ \A i \in DOMAIN task :
         /\ task[i].about \in Names \cup Posts /\ task[i].attempt \in 0..MaxRetries
         /\ task[i].state \in {"queued", "sending", "backoff"} \cup Over

(* A run never has more requests at the upstream than ARCTIC_SHIFT_CONCUR- *)
(* RENCY, and none once collect has returned or failed, although its other *)
(* tasks survive the first failure (_request_with_retry, async with).      *)
UpstreamLoad ==
    LET sending == {i \in DOMAIN task : At(i, "sending")} IN
    /\ Cardinality(sending) <= Concurrency
    /\ phase \in {"done", "failed", "matched"} => sending = {}

(* What collect returns is exactly what the upstream answered, each post   *)
(* and comment once and each comment under its own post, whatever was      *)
(* skipped or retried (collect, normalize_names).                          *)
BatchIsSound ==
    phase = "done" =>
        /\ IsInjective(posts) /\ IsInjective(comments)
        /\ \A k \in DOMAIN comments : comments[k].post = PostOf[comments[k].comment]
        /\ ToSet(posts) \cup {comments[k].comment : k \in DOMAIN comments} = served

(* Every document of the run has one match row, so that it is classified   *)
(* and counted: the text that is matched is the title and the body, joined,*)
(* and what matches a part matches the whole (match_and_persist_batch; the *)
(* rows are unique per run and document).                                  *)
KeptAreMatched ==
    phase = "matched" => IsInjective(matched) /\ ToSet(matched) = ToSet(kept)

(* Every collection ends, and no task of it is left waiting for a slot.    *)
CollectionEnds ==
    phase = "posts" ~> /\ phase \in {"matched", "failed"}
                       /\ \A i \in DOMAIN task : task[i].state \in Over

=============================================================================
