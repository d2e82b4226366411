SPECIFICATION FairSpec
CONSTANTS
    Procs = {p1}
    Fingerprints = {a, b}
    NoFingerprint = none
    NoManifest = nomanifest
    Nobody = nobody
    Faults = {"delay", "disk"}
INVARIANTS
    LockFreedByExit
    ConvergedIsKnown
PROPERTIES
    ReportedOnceSettled
