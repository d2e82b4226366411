SPECIFICATION Spec
CONSTANTS
    Procs = {p1}
    Fingerprints = {a, b}
    NoFingerprint = none
    NoManifest = nomanifest
    Nobody = nobody
    Faults = {"crash"}
INVARIANTS
    LockFreedByExit
