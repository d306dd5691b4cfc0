\* memset(p, sizeof(T), 0) clears nothing: a walk follows a pointer malloc left behind.
CONSTANTS
    ASNs <- MC_ASNs
    AlgoIDs <- MC_AlgoIDs
    SKIs <- MC_SKIs
    Creates = {TRUE, FALSE}
    Allocs = {"zero", "stale"}
    PrevOutcomes = {"null"}
    NULL = NULL
SPECIFICATION Spec
CONSTRAINT IndexBound
VIEW IndexView
INVARIANT NoUndefinedBehaviour
CHECK_DEADLOCK FALSE
