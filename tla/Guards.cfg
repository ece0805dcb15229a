SPECIFICATION GuardsSpec
CONSTANTS
    Users = {u1, u2}
    PerUser = 2
    Global = 3
    RateWindow = 3
    MaxAdmitted = 6
    FailureThreshold = 3
    FailureWindow = 3
    RecoveryTimeout = 2
    HalfOpenMaxCalls = 2
    MaxFailures = 5
    MaxTime = 7
    NoRecipient = NoRecipient
    Keys = {k1}
    Targets = {ctf}
    Selectors = {"transfer", "other"}
    Recipients = {safe2}
    Constraints <- MCConstraints
    Notionals = {1, 2}
    Hour = 2
    Day = 3
    MaxUint32 = 3
    MaxUint256 = 4
    MaxTimestamp = 5
    MaxExecutions = 3
    MaxRegistrations = 2
INVARIANTS
    RatesKept
    TripsInTime
    QuietPeriod
    NeverStuck
    HourlyRate
    DailyBudget
    RollingHour
PROPERTIES
    RefusedForCause
    TripsForCause
