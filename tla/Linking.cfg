SPECIFICATION FairSpec
CONSTANTS
    Links = {p1}
    Direct = Direct
    Creds = {c1}
    Keys = {k1, k2}
    None = None
    MaxFaults = 2
    MayRevoke = TRUE
INVARIANT PhaseTruthful
PROPERTY EventuallyLinked
CHECK_DEADLOCK FALSE
