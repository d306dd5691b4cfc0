\* Ordering and lookup correctness of _getCacheData on zeroed allocations.
CONSTANTS
    ASNs <- MC_ASNs
    AlgoIDs <- MC_AlgoIDs
    SKIs <- MC_SKIs
    Creates = {TRUE, FALSE}
    Allocs = {"zero"}
    PrevOutcomes = {"null", "wild"}
    NULL = NULL
SPECIFICATION Spec
CONSTRAINT IndexBound
VIEW IndexView
INVARIANT TypeOK
INVARIANT IndexOrdered
PROPERTY LookupCorrect
\* A wild store through the uninitialised prev ends the process.
CHECK_DEADLOCK FALSE
