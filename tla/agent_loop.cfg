\* Two enrollments, every fault.
SPECIFICATION FairSpec
CONSTANTS
    k1 = k1
    k2 = k2
    none = none
    blank = blank
    Keys <- TwoKeys
    NoKey = none
    BlankKey = blank
    Interval = 2
    MaxBack = 1
    Faults <- AllFaults
INVARIANTS
    TypeOK
    RecordIsIssued
    InventoryClaimIsTrue
PROPERTIES
    InventoryReachesCentral
    SignalStops
