SPECIFICATION Spec
CONSTANTS
    Sites = {s1}
    Urls = {u1, u2}
    NoUrl = nourl
    NoSite = nosite
    MaxCommit = 2
    MaxRequests = 2
    Faults = {"rebind"}
INVARIANTS
    AppliedReflectsRequest
