SPECIFICATION FairSpec
CONSTANTS
    Sites = {s1}
    Urls = {u1, u2}
    NoUrl = nourl
    NoSite = nosite
    MaxCommit = 2
    MaxRequests = 2
    Faults = {"ack_loss", "crash", "shutdown", "rerequest", "rebind"}
INVARIANTS
    AppliedIsObserved
    PinIsExact
    ShutdownIsNoFailure
PROPERTIES
    Answered
