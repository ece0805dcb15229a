SPECIFICATION Spec
CONSTANTS
    t1 = t1
    t2 = t2
    h1 = h1
    NoHash = NoHash
    Users = {u1}
    Provisioned = {u1}
    Authorized = {u1}
    Trades = {t1}
    SideOf <- MCBuy
    ConditionOf <- MCDistinct
    TokenOf <- MCTokens
    HashOf <- MCDistinct
    MaxOpenPositions = 1
    Polls = {p1}
    Syncs = {s1}
    FaultKinds = {}
    Activity = {}
    HandTrades = {}
    MaxFaults = 0
    MaxAttempts = 4
    MaxEvents = 2
    MaxTime = 3
    FailureThreshold = 2
    RecoveryTimeout = 1
    HalfOpenMaxCalls = 1
PROPERTIES
    SyncedEventStillCopied
