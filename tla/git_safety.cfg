SPECIFICATION Spec
CONSTANTS
    Sites = {s1, s2}
    Urls = {u1}
    NoUrl = nourl
    NoSite = nosite
    MaxCommit = 2
    MaxRequests = 2
    Faults = {"ack_loss", "crash", "shutdown"}
SYMMETRY Symmetry
INVARIANTS
    TypeOK
    ReceiptsFollowLedger
    AppliedReflectsRequest
    AppliedIsObserved
PROPERTY
    ImplementsRequests
    IterationShrinks
