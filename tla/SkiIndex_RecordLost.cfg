\* Inserting an algorithm id in front of the head bucket unlinks the old head.
CONSTANTS
    ASNs <- MC_ASNs
    AlgoIDs <- MC_AlgoIDs
    SKIs <- MC_SKIs
    Creates = {TRUE, FALSE}
    Allocs = {"zero"}
    PrevOutcomes = {"null"}
    NULL = NULL
SPECIFICATION Spec
CONSTRAINT IndexBound
VIEW IndexView
PROPERTY NoRecordLost
CHECK_DEADLOCK FALSE
