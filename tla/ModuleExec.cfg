SPECIFICATION FairSpec
CONSTANTS
    MaxRequests = 2
    MaxKeys = 2
    MaxLapsed = 1
    Addresses = {x}
    None = None
    Menus <- MCMenus
    MaxPolls = 2
    MaxTx = 2
    Take = 10
    MaxBusy = 2
    MaxInputs = 3
    MaxExecFaults = 2
INVARIANTS
    TypeOK
    KeysInOrder
    RowsTellChain
    LonePollExecutesOnce
PROPERTY
    TxsSettle
CHECK_DEADLOCK FALSE
