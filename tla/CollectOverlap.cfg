SPECIFICATION FairSpec
CONSTANTS
    Runs = {r1, r2}
    Subreddits = {"s1"}
    Posts = {"p1", "p2"}
    Comments = {"c1"}
    SubredditOf <- InSubreddit
    PostOf <- OnPost
    LanguageOf <- Detected
    Languages = {"hu", "en"}
    MaxFailures = 1
INVARIANTS TypeOK CompletedHasDocuments DocumentsHaveSources ConflictsAreCommitted
PROPERTIES EveryPipelineEnds
CHECK_DEADLOCK FALSE
