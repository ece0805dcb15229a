SPECIFICATION FairSpec
CONSTANTS
    u1 = u1
    u2 = u2
    r1 = r1
    r2 = r2
    r3 = r3
    k1 = k1
    k2 = k2
    Requests = {r1, r2, r3}
    KindOf <- MCWithTx
    UserOf <- MCTwoUsers
    KeyOf <- MCKeys
    Ready = {u1, u2}
    MaxRetry = 1
    FaultKinds = {"refusal", "lostReply"}
    MaxFaults = 0
    Users = {u1, u2}
    PerUser = 1
    Global = 1
    RateWindow = 1
    MaxAdmitted = 3
    FailureThreshold = 1
    FailureWindow = 2
    RecoveryTimeout = 1
    HalfOpenMaxCalls = 1
    MaxFailures = 3
    MaxTime = 3
PROPERTIES
    LedgerKept
    RowsSettle
