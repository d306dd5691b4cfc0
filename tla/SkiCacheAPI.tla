----------------------------- MODULE SkiCacheAPI -----------------------------
(***************************************************************************)
(* What src/src/server/ski_cache.h promises a caller of the SKI cache,     *)
(* whatever implements it.                                                 *)
(*                                                                         *)
(* The cache counts registrations of every key <SKI, algorithm id, ASN>.   *)
(* It remembers, for each registered update, the keys its BGPsec path      *)
(* needs.  registerUpdateSKI answers a hint (e_Upd_RegRes) from the keys   *)
(* present now.  Every key change that might change that hint is reported  *)
(* through the keyChange callback given to createSKICache, once per        *)
(* update related to the key, with an e_SKI_status.                        *)
(*                                                                         *)
(* A path is a sequence of signature blocks, and a block is the set of     *)
(* keys it needs.  NotBgpsec stands for an attribute that is not BGPsec.   *)
(***************************************************************************)
EXTENDS Naturals, Sequences, FiniteSets

CONSTANTS
    Keys,        \* <SKI, algorithm id, ASN> triples, as model values
    UpdateIDs,   \* SRxUpdateID values
    Paths,       \* the BGPsec paths callers register
    NotBgpsec,   \* an attribute that is not a BGPsec path
    NoPath,      \* an update the cache does not hold
    MaxCount     \* bound on registrations of one key

ASSUME /\ \A p \in Paths : p \in Seq(SUBSET Keys)
       /\ NotBgpsec \notin Paths /\ NoPath \notin Paths \cup {NotBgpsec}
       /\ MaxCount \in Nat \ {0}

\* e_Upd_RegRes
RegRes == {"REGVAL_ERROR", "REGVAL_INVALID", "REGVAL_UNKNOWN"}

\* e_SKI_status
SkiStatus == {"SKI_NEW", "SKI_ADD", "SKI_DEL", "SKI_REMOVED"}

VARIABLES
    counter,   \* counter[k]: registerKeySKI minus unregisterKeySKI calls for k
    path,      \* path[u]: the path registered for update u, or NoPath
    answer,    \* answer[u]: what registerUpdateSKI last returned for u
    notified,  \* notified[u]: statuses keyChange reported for u since then
    alive      \* releaseSKICache has not been called

vars == <<counter, path, answer, notified, alive>>

\* The keys a path needs, over all of its blocks.
KeysOf(p) == IF p \in Paths THEN UNION {p[i] : i \in DOMAIN p} ELSE {}

(***************************************************************************)
(* registerUpdateSKI's result: ERROR when the attribute is not BGPsec,     *)
(* UNKNOWN when at least one signature block has every key registered,    *)
(* INVALID when a key is missing in every block.  For a path with no      *)
(* block, or with several, the header's comment and its @return can be    *)
(* read differently; the two agree on a path with one block.              *)
(***************************************************************************)
Verdict(p, cnt) ==
    CASE p = NotBgpsec                                   -> "REGVAL_ERROR"
      [] \E i \in DOMAIN p : \A k \in p[i] : cnt[k] > 0  -> "REGVAL_UNKNOWN"
      [] OTHER                                           -> "REGVAL_INVALID"

\* keyChange(st, u) for every update whose path needs key k.
Notify(k, st) ==
    notified' = [u \in UpdateIDs |->
                   IF k \in KeysOf(path[u]) THEN notified[u] \cup {st}
                   ELSE notified[u]]

\* createSKICache: an empty cache.
createSKICache ==
    /\ counter = [k \in Keys |-> 0]
    /\ path = [u \in UpdateIDs |-> NoPath]
    /\ answer = [u \in UpdateIDs |-> "none"]
    /\ notified = [u \in UpdateIDs |-> {}]
    /\ alive = TRUE

Init == createSKICache

\* registerUpdateSKI(cache, u, p): answer the hint; a BGPsec path is kept.
registerUpdateSKI(u, p) ==
    /\ alive
    /\ answer' = [answer EXCEPT ![u] = Verdict(p, counter)]
    /\ path' = [path EXCEPT ![u] = IF p = NotBgpsec THEN NoPath ELSE p]
    /\ notified' = [notified EXCEPT ![u] = {}]
    /\ UNCHANGED <<counter, alive>>

\* unregisterUpdateSKI(cache, u): the update is forgotten.
unregisterUpdateSKI(u) ==
    /\ alive
    /\ path' = [path EXCEPT ![u] = NoPath]
    /\ answer' = [answer EXCEPT ![u] = "none"]
    /\ notified' = [notified EXCEPT ![u] = {}]
    /\ UNCHANGED <<counter, alive>>

\* registerKeySKI(cache, ski, algoID, asn): SKI_NEW on the first
\* registration, SKI_ADD on the others.
registerKeySKI(k) ==
    /\ alive
    /\ counter[k] < MaxCount
    /\ counter' = [counter EXCEPT ![k] = @ + 1]
    /\ Notify(k, IF counter[k] = 0 THEN "SKI_NEW" ELSE "SKI_ADD")
    /\ UNCHANGED <<path, answer, alive>>

\* unregisterKeySKI: SKI_REMOVED when the counter reaches 0, SKI_DEL above.
unregisterKeySKI(k) ==
    /\ alive
    /\ counter[k] > 0
    /\ counter' = [counter EXCEPT ![k] = @ - 1]
    /\ Notify(k, IF counter[k] = 1 THEN "SKI_REMOVED" ELSE "SKI_DEL")
    /\ UNCHANGED <<path, answer, alive>>

\* clean: frees storage of unused SKIs; nothing a caller sees changes.
clean ==
    /\ alive
    /\ UNCHANGED vars

\* releaseSKICache: the cache is gone.
releaseSKICache ==
    /\ alive
    /\ alive' = FALSE
    /\ UNCHANGED <<counter, path, answer, notified>>

Next ==
    \/ \E u \in UpdateIDs, p \in Paths \cup {NotBgpsec} : registerUpdateSKI(u, p)
    \/ \E u \in UpdateIDs : unregisterUpdateSKI(u)
    \/ \E k \in Keys : registerKeySKI(k) \/ unregisterKeySKI(k)
    \/ clean
    \/ releaseSKICache

Spec == Init /\ [][Next]_vars

=============================================================================
