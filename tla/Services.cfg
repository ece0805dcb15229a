SPECIFICATION ServicesSpec
CONSTANTS
    w1 = w1
    w2 = w2
    MaxRequests = 2
    IdKeys = {k1}
    NoKey = NoKey
    MaxFaults = 1
    MaxOrders = 2
    MaxCancels = 2
    MaxReconciles = 2
    MaxRows = 4
    MaxTicks = 2
    BatchSize = 2
    MaxReconnects = 1
    Tabs = {t1}
    Calls = {q1, q2}
    MaxTokens = 3
    MaxFailures = 1
    Workers <- MCWorkers
    Interval <- MCInterval
    RunsAtOnce = {w1}
    ShortStale = 2
    LongStale = 5
    LongStaleFor = {w2}
    MaxHealthTime = 7
    MaxOutages = 1
    MaxStarts = 2
    Syncs = {s1}
    Copies = {c1}
    Profile <- MCProfile
    Offers <- MCOffers
    Holdings = {0, 130}
    BalanceTTL = 1
    MaxFundingTime = 1
    MaxChanges = 2
INVARIANTS
    TransfersWrittenAhead
    RecordedIsMined
    OneSubmissionPerKey
    OrdersTellExchange
    NoGaps
    
    CopiesWithinMeans
PROPERTIES
    WorkersTold
    WithdrawalsSettle
CHECK_DEADLOCK FALSE
