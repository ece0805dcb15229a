SPECIFICATION Spec
CONSTANTS
    t1 = t1
    t2 = t2
    h1 = h1
    NoHash = NoHash
    Users = {u1}
    Provisioned = {u1}
    Authorized = {u1}
    Trades = {t1}
    SideOf <- MCBuy
    ConditionOf <- MCDistinct
    TokenOf <- MCTokens
    HashOf <- MCDistinct
    MaxOpenPositions = 1
    Polls = {p1, p2}
    Syncs = {}
    FaultKinds = {"throw", "lostReply", "database", "crash"}
    Activity = {"copySwitch", "cancelOrder"}
    HandTrades = {}
    MaxFaults = 1
    MaxAttempts = 3
    MaxEvents = 2
    MaxTime = 2
    FailureThreshold = 1
    RecoveryTimeout = 1
    HalfOpenMaxCalls = 1
SYMMETRY MCSymmetry
INVARIANTS
    OrdersAccountedFor
    SubmittedIsLive
PROPERTIES
    AttemptsKept
