SPECIFICATION FairSpec
CONSTANTS
    Runs = {"r1", "r2", "r3"}
    MaxHistory = 2
    MaxListed = 2
    MaxSearches = 3
    Overtaken = {"r1"}
    Past <- OneSearch
INVARIANTS FinishedIsPublished NoRunIsAbandoned
PROPERTIES HistoryKeepsOrder FinishedRunIsShown
CHECK_DEADLOCK FALSE
