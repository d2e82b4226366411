\* All entries one at a time, two pairs, a list above the limit.
SPECIFICATION FairSpec
CONSTANTS
    Configs <- Lists
    MaxProbes = 2
INVARIANTS
    TypeOK
    RowTellsFirstFailure
    AcceptedIsProbeable
    ShutdownLeavesNoRow
PROPERTY
    ProbesEnd
