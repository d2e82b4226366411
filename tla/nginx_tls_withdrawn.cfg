SPECIFICATION Spec
CONSTANTS
    Sites = {s1}
    Versions = {good, bad}
    BadVersions = {bad}
    NoVersion = noversion
    NoSite = nosite
    TlsWithdrawn = TRUE
    Faults = {}
    MaxRequests = 5
INVARIANTS
    TlsObservationIsLive
