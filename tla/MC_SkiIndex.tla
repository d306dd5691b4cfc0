---------------------------- MODULE MC_SkiIndex ----------------------------
(* Instantiates SkiIndex for TLC.  Three ASNs with distinct upper halves   *)
(* (0, 1, 2) and a fourth sharing upper 0, so that the upper list is       *)
(* inserted into at the head and in the middle; three algorithm ids and    *)
(* three SKIs so that every level sees head, middle and past-the-tail      *)
(* inserts.  65534 is the ASN of the spec's scenario.                      *)
EXTENDS SkiIndex

MC_ASNs    == {65534, 65536 + 7, 2 * 65536 + 7}
MC_AlgoIDs == {1, 2, 3}
MC_SKIs    == {10, 20, 30}

\* Bound on the records the index holds: three fit in one list, so every
\* level can see an insert between two existing keys.
MaxRecords == 5
IndexBound == Cardinality(Reachable) <= MaxRecords

\* States that differ only in the last call and its result have the same
\* successors; the properties read call and result only in the new state
\* of a step, so TLC may identify them.
IndexView == <<nodes, algos, data, fault>>
=============================================================================
