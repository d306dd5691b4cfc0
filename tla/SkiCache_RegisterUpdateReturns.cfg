\* ski_registerUpdate on a little-endian host against RegisterUpdateReturns, the block loop weakly fair.
CONSTANTS
    ASNs <- MC_ASNs
    AlgoIDs <- MC_AlgoIDs
    SKIs <- MC_SKIs
    Attributes <- MC_Attributes
    UpdateIDs = {u1}
    HostOrders = {TRUE}
    Allocs = {"zero"}
    PrevOutcomes = {"null"}
    NULL = NULL
SPECIFICATION FairSpec
PROPERTY RegisterUpdateReturns
\* A call that crashes or spins ends the run; releasing the cache ends it too.
CHECK_DEADLOCK FALSE
