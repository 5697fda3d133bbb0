SPECIFICATION FairSpec
CONSTANTS
    Payments = {1, 2}
    Withdrawals = {3}
    Limit = 2
    Fallible = {"rpc"}
    MaxBlocks = 3
    MaxCrashes = 1
INVARIANTS
    FeedInv
    ListTrue
    ReportTrue
    NotifiedAtMostOnce
    CompleteUnlessOvertaken
    CoverInv
PROPERTIES
    IncludedEntriesSettle
    ReportsRemembered
CHECK_DEADLOCK FALSE
