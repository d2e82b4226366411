\* One enrollment that Central revokes; nothing else goes wrong.
SPECIFICATION FairSpec
CONSTANTS
    k1 = k1
    k2 = k2
    none = none
    blank = blank
    Keys <- OneKey
    NoKey = none
    BlankKey = blank
    Interval = 1
    MaxBack = 0
    Faults = {"revoke"}
PROPERTY
    RevokedAgentExits
