SPECIFICATION BothSpec
CONSTANTS
    Items <- MCItems
    Feeds <- MCFeeds
    Predictions <- MCPredictions
    Prices <- MCPrices
    Markets <- MCMarkets
    Changes <- MCChanges
    NewsVelocity = 1
    Window = 2
    MaxPoints = 3
    MaxNow = 4
    MaxTicks = 3
    N = 4
    Places <- MCPlaces
    Near <- MCNear
    Row <- MCRow
    Col <- MCCol
    Breadth <- MCBreadth
    Requests <- MCRequests
    Nowhere <- MCNowhere
    Close <- MCClose
    NoKey = "none"
    MaxRuns = 2
INVARIANTS
    EventsShareFeed
    TypeOK
    NoStrangers
    LevelTogether
PROPERTIES
    QuietWhenUnchanged
    ToldOnce
    MoreIsNeverLess
CHECK_DEADLOCK FALSE
