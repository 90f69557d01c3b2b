SPECIFICATION Spec
CONSTANTS
    Runs = {"r1", "r2"}
    Docs = {1, 2, 3, 4, 5}
    Found <- Batches
    Configured <- TheIdentities
    Models = {"m1", "m2"}
    Answers <- TwoAnswers
    XlmOutputs <- Outputs
    LanguageOf <- Languages
    QueryOf <- Queries
    PositiveWords <- Praise
    NegativeWords <- Blame
    Concurrency = 2
    MaxRestarts = 1
    Subreddits = {"food", "cook"}
    SubredditOf <- InSubreddit
    Days = {1, 2, 3, 4}
    DayOf <- OnDay
    TextOf <- Texts
    Labels <- LabelOrder
    RollingWindow = 2
    MaxSpikes = 1
    LongWords = {"pizza", "great", "crust"}
    TinyWords = {"of"}
    Heads <- Beginnings
    Tails <- Endings
    Middles <- Insides
    StopWords <- Stops
    MaxPhrases = 2
    MaxTokens = 2
    MaxBigrams = 1
    MaxKeywords = 2
    MaxTerms = 2
INVARIANTS TypeOK VerdictsAreAttributed ChartsMatchDocuments SpikesAreJumps
CHECK_DEADLOCK FALSE
