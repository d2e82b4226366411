SPECIFICATION Spec
CONSTANTS
    Procs = {p1, p2}
    Fingerprints = {a}
    NoFingerprint = none
    NoManifest = nomanifest
    Nobody = nobody
    Faults = {"delay", "disk", "crash"}
SYMMETRY Symmetry
INVARIANTS
    TypeOK
    LockExcludes
    ReportMatchesDisk
    AcknowledgedWasReceived
PROPERTIES
    ImplementsReports
