SPECIFICATION Spec
CONSTANTS
    t1 = t1
    t2 = t2
    h1 = h1
    NoHash = NoHash
    Users = {u1}
    Provisioned = {u1}
    Authorized = {u1}
    Trades = {t1, t2}
    SideOf <- MCBuySell
    ConditionOf <- MCDistinct
    TokenOf <- MCTokens
    HashOf <- MCPartlyHashed
    MaxOpenPositions = 1
    Polls = {p1}
    Syncs = {s1}
    FaultKinds = {"throw", "lostReply", "database", "crash"}
    Activity = {"leaderboard"}
    HandTrades = {t1}
    MaxFaults = 1
    MaxAttempts = 2
    MaxEvents = 2
    MaxTime = 2
    FailureThreshold = 1
    RecoveryTimeout = 1
    HalfOpenMaxCalls = 1
INVARIANTS
    TypeOK
    OneOrderPerEvent
PROPERTIES
    OpenMeansPaused
    PositionCap
