SPECIFICATION Spec
CONSTANTS
    MaxCalls = 3
    MaxMinted = 2
    MaxFaults = 1
INVARIANT ProvisionedOnce
CHECK_DEADLOCK FALSE
