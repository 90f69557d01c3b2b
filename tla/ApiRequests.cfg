SPECIFICATION FairSpec
CONSTANTS
    Requests = {q1, q2, q3}
    RawTerms = {"Pizza", "pizza"}
    Terms = {"pizza"}
    NormalTerm <- OneTerm
    RawScopes = {"hu", "en_US"}
    Scopes = {"food-hu", "food-en"}
    NormalScope <- TwoScopes
    Providers = {mock, openai}
    Ttl = 0
    MaxClock = 2
    MaxAborts = 1
    Overtaken = {q1}
INVARIANTS TypeOK RunsShareQuery AnswerFits CachedIsPublished MissingIsUnfinished
PROPERTIES EveryRequestEnds
CHECK_DEADLOCK FALSE
