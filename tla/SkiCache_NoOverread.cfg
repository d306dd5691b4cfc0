\* The well-formed unsigned path on a little-endian host against NoOverread.
CONSTANTS
    ASNs <- MC_ASNs
    AlgoIDs <- MC_AlgoIDs
    SKIs <- MC_SKIs
    Attributes <- MC_Unsigned
    UpdateIDs = {u1}
    HostOrders = {TRUE}
    Allocs = {"zero"}
    PrevOutcomes = {"null"}
    NULL = NULL
SPECIFICATION Spec
INVARIANT NoOverread
\* A call that crashes or spins ends the run; releasing the cache ends it too.
CHECK_DEADLOCK FALSE
