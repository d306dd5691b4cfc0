\* A key larger than every key of its level is never appended: create returns NULL.
CONSTANTS
    ASNs <- MC_ASNs
    AlgoIDs <- MC_AlgoIDs
    SKIs <- MC_SKIs
    Creates = {TRUE, FALSE}
    Allocs = {"zero"}
    PrevOutcomes = {"null"}
    NULL = NULL
SPECIFICATION Spec
CONSTRAINT IndexBound
VIEW IndexView
PROPERTY CreateNeverNull
CHECK_DEADLOCK FALSE
