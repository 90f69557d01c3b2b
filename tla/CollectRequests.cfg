SPECIFICATION FairSpec
CONSTANTS
    Symbols = {"a", "b", "e", "A", "E", "-", " "}
    Blank = " "
    Letters = {"a", "b", "e"}
    Simple <- SimpleForm
    RawNames = {"food", "r/Food", "cook", "blank"}
    Names = {"food", "cook"}
    NormalName <- Normalized
    Posts = {"p1", "p2", "p3"}
    Comments = {"c1", "c2"}
    SubredditOf <- OfSubreddit
    PostOf <- OfPost
    Title <- Titles
    Body <- Bodies
    Term <- TheTerm
    Concurrency = 2
    MaxRetries = 1
INVARIANTS TypeOK UpstreamLoad BatchIsSound KeptAreMatched
PROPERTIES CollectionEnds
CHECK_DEADLOCK FALSE
