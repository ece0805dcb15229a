SPECIFICATION Spec
CONSTANTS
    MaxCalls = 3
    MaxMinted = 2
    MaxFaults = 1
INVARIANTS
    HandedAddressStays
    PartsAgree
CHECK_DEADLOCK FALSE
