\* The uninitialised prev of __ski_getCacheAlgoID is stored through.
CONSTANTS
    ASNs <- MC_ASNs
    AlgoIDs <- MC_AlgoIDs
    SKIs <- MC_SKIs
    Creates = {TRUE, FALSE}
    Allocs = {"zero"}
    PrevOutcomes = {"wild"}
    NULL = NULL
SPECIFICATION Spec
CONSTRAINT IndexBound
VIEW IndexView
INVARIANT NoUndefinedBehaviour
CHECK_DEADLOCK FALSE
