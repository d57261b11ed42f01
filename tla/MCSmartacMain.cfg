\* Five lines hold two sections, the first with a path and no host, or each
\* with a host of its own.  One kind of signal, sent up to three times: to each thread
\* once.
SPECIFICATION MainFairSpec
CONSTANTS
    Settings <- TwoSettings
    Attributes <- OneAttribute
    Values <- TwoValues
    Names <- TwoNames
    PopularLists <- OnePopularList
    Lines <- FewLines
    MaxLines = 5
    Signals = {SIGTERM}
    MaxSent = 3
    NULL = NULL
INVARIANTS
    MainTypeOK
    ServersAsWritten
    StartsComplete
    OnlyOnce
    OwnerLives
PROPERTIES
    StartUpEnds
    RequestEnds
\* The process ends, or waits for a signal or for a route.
CHECK_DEADLOCK FALSE
