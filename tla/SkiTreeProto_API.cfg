\* The byte-tree prototype against the contract of ski_cache.h.
CONSTANTS
    k1 = k1
    k2 = k2
    k3 = k3
    u1 = u1
    u2 = u2
    Keys <- MC_Keys
    UpdateIDs <- MC_UpdateIDs
    Paths <- MC_Paths
    MaxCount <- MC_MaxCount
    NotBgpsec = NotBgpsec
    NoPath = NoPath
SPECIFICATION Spec
PROPERTY APISpec
\* releaseSKICache ends the use of the cache; no call follows it.
CHECK_DEADLOCK FALSE
