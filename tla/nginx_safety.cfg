SPECIFICATION Spec
CONSTANTS
    Sites = {s1, s2}
    Versions = {good, bad}
    BadVersions = {bad}
    NoVersion = noversion
    NoSite = nosite
    TlsWithdrawn = FALSE
    Faults = {"ack_loss", "disk", "crash"}
    MaxRequests = 4
SYMMETRY Symmetry
INVARIANTS
    TypeOK
    RuntimeReceiptsFollowLedger
    ReloadReceiptIsLive
    AppliedIsEnabled
    PoisonIsVisible
    TlsObservationIsLive
PROPERTY
    ImplementsRuntimeRequests
