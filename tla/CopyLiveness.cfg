SPECIFICATION FairSpec
CONSTANTS
    t1 = t1
    t2 = t2
    h1 = h1
    NoHash = NoHash
    Users = {u1, u2, u3}
    Provisioned = {u1, u2}
    Authorized = {u1}
    Trades = {t1}
    SideOf <- MCBuy
    ConditionOf <- MCDistinct
    TokenOf <- MCTokens
    HashOf <- MCDistinct
    MaxOpenPositions = 1
    Polls = {p1}
    Syncs = {}
    FaultKinds = {"throw", "lostReply"}
    Activity = {"followSwitch"}
    HandTrades = {}
    MaxFaults = 0
    MaxAttempts = 5
    MaxEvents = 1
    MaxTime = 3
    FailureThreshold = 2
    RecoveryTimeout = 1
    HalfOpenMaxCalls = 1
PROPERTIES
    AttemptsSettle
    FollowersServed
