------------------------------ MODULE SkiCache ------------------------------
(***************************************************************************)
(* The SKI cache facade of ski_cache.c as the server drives it:            *)
(* ski_createCache, ski_registerUpdate, ski_unregisterUpdate,              *)
(* ski_registerKey, ski_unregisterKey, ski_clean, ski_releaseCache.        *)
(*                                                                         *)
(* ski_registerUpdate walks the attribute (BgpsecPathAttr), then runs the  *)
(* signature block loop: for each segment it calls _getCacheData (the      *)
(* SkiIndex walks, create = true), reads cData->counter and adds the       *)
(* update id with __ski_addUpdateCacheUID.  The key and maintenance entry *)
(* points have empty bodies in this revision and change nothing.           *)
(*                                                                         *)
(* The server calls the cache from one thread and the cache takes no       *)
(* locks.  Every call is one atomic step, except that ski_registerUpdate  *)
(* takes one more step per pass of its signature block loop; while it is  *)
(* in that loop no other call is made.  A call that dereferences NULL     *)
(* ("segv") or follows garbage ("ub") ends the server's use of the cache: *)
(* no further step is taken.                                              *)
(***************************************************************************)
EXTENDS Integers, Sequences, SequencesExt, FiniteSets, BgpsecPathAttr

CONSTANTS
    ASNs, AlgoIDs, SKIs,   \* keys, as in SkiIndex
    Allocs, PrevOutcomes,  \* malloc and stack outcomes, as in SkiIndex
    NULL,
    UpdateIDs,             \* update identifiers the server registers
    Attributes,            \* BGPsec_PATH attributes peers send
    HostOrders             \* byte orders of the build: TRUE is little-endian

VARIABLES
    nodes, algos, data, fault, call, result,   \* the index (SkiIndex)
    root,        \* cache->cacheNode as ski_createCache leaves it: NULL or GARBAGE
    counter,     \* counter[t]: the counter field of record t
    uid,         \* uid[t]: the cacheUID head of record t: NULL or GARBAGE
    last,        \* the last registerUpdate: attribute and what the walk decided
    overread,    \* some walk read past the end of its attribute
    alive,       \* the cache has not been released
    littleEndian,  \* the host byte order of this build
    loop         \* NULL, or the ski_registerUpdate call inside its block loop:
                 \* numSegments and the key its first segment reads

Idx == INSTANCE SkiIndex WITH Creates <- {TRUE}

vars == <<nodes, algos, data, fault, call, result, root, counter, uid,
          last, overread, alive, littleEndian, loop>>

Triples == ASNs \X AlgoIDs \X SKIs
NoCall == [attr |-> NULL, verdict |-> "none"]

GARBAGE == Idx!GARBAGE

\* A counter left over in a record from an allocation that was not cleared.
StaleCounter == 1

TypeOK ==
    /\ nodes \in Seq({Idx!Upper(a) : a \in ASNs})
    /\ algos \in [ASNs -> Idx!List(AlgoIDs)]
    /\ data \in [ASNs \X AlgoIDs -> Idx!List(SKIs)]
    /\ fault \in {"none", "segv", "ub"}
    /\ root \in {NULL, GARBAGE}
    /\ counter \in [Triples -> Nat]
    /\ uid \in [Triples -> {NULL, GARBAGE}]
    /\ last \in [attr : Attributes \cup {NULL},
                 verdict : {"none", "error", "invalid", "blocks"}]
    /\ overread \in BOOLEAN
    /\ alive \in BOOLEAN
    /\ littleEndian \in HostOrders
    /\ loop \in {NULL} \cup [n : Nat, key : Triples]

(***************************************************************************)
(* ski_createCache: malloc + a memset that clears nothing; keyChange is    *)
(* never stored.  cacheNode is whatever the allocation held.               *)
(***************************************************************************)
ski_createCache ==
    /\ Idx!Init
    /\ root \in {Idx!EndOf(al) : al \in Allocs}
    /\ counter = [t \in Triples |-> 0]
    /\ uid = [t \in Triples |-> NULL]
    /\ last = NoCall
    /\ overread = FALSE
    /\ alive = TRUE
    /\ littleEndian \in HostOrders
    /\ loop = NULL

Init == ski_createCache

(***************************************************************************)
(* ___ski_createCacheUID discards malloc's result and writes through the   *)
(* NULL cUID.  __ski_addUpdateCacheUID calls it when the record has no     *)
(* update yet; a GARBAGE head is compared as if it were a list entry.      *)
(* Either way the call does not come back.                                 *)
(***************************************************************************)
___ski_createCacheUID == "segv"

__ski_addUpdateCacheUID(head) ==
    IF head = NULL THEN ___ski_createCacheUID ELSE "ub"

(***************************************************************************)
(* One pass of the signature block loop of ski_registerUpdate, up to its  *)
(* first segment: _getCacheData(..., true), then cData->counter, then the *)
(* update id.  t is the key the loop reads (asn_list[0], the block's      *)
(* algorithm id, the first segment's SKI).  The add does not come back,   *)
(* so no later segment and no second pass is ever reached.               *)
(***************************************************************************)
SignatureBlockLoop(t, allocA, allocD, prev) ==
    LET r == Idx!_getCacheData(t[1], t[3], t[2], TRUE, allocA, allocD, prev)
        isNew == t \notin Idx!Reachable
    IN
    /\ nodes' = r.nodes
    /\ algos' = r.algos
    /\ data' = r.data
    /\ result' = r.result
    /\ call' = [asn |-> t[1], algoID |-> t[2], ski |-> t[3], create |-> TRUE]
    /\ counter' = IF isNew /\ r.result = t
                  THEN [counter EXCEPT ![t] = IF allocD = "zero" THEN 0 ELSE StaleCounter]
                  ELSE counter
    /\ uid' = IF isNew /\ r.result = t
              THEN [uid EXCEPT ![t] = Idx!EndOf(allocD)] ELSE uid
    /\ fault' = CASE root = GARBAGE    -> "ub"
                  [] r.fault # "none"  -> r.fault
                  [] r.result = NULL   -> "segv"
                  [] OTHER             -> __ski_addUpdateCacheUID(uid'[t])

\* The key the loop reads for segment 0: the real one where the walk found
\* the first block and the first segment, attacker bytes otherwise.
LoopKey(a, w, junkKey) ==
    << IF Len(a.asns) >= 1 THEN a.asns[1] ELSE junkKey[1],
       IF w.aligned THEN a.blocks[1].algo ELSE junkKey[2],
       IF w.aligned /\ Len(a.blocks[1].skis) >= 1 THEN a.blocks[1].skis[1] ELSE junkKey[3] >>

(***************************************************************************)
(* ski_registerUpdate(cache, updateID, bgpsec) up to its block loop.  An   *)
(* "error" or "invalid" walk returns at once.  Otherwise asn_list is      *)
(* filled and the call enters while (sigBlock != NULL) with sigBlocks[0], *)
(* which is never NULL there.                                             *)
(***************************************************************************)
ski_registerUpdate(upd, a) ==
    /\ alive /\ fault = "none" /\ loop = NULL
    /\ \E junk \in JunkValues(a) :
         LET w == ski_registerUpdateWalk(a, junk, littleEndian) IN
         /\ last' = [attr |-> a, verdict |-> w.verdict]
         /\ overread' = (overread \/ w.overread)
         /\ loop' \in IF w.verdict = "blocks"
                       THEN {[n |-> w.n, key |-> LoopKey(a, w, jk)] : jk \in Triples}
                       ELSE {NULL}
    /\ UNCHANGED <<nodes, algos, data, fault, call, result, root, counter, uid,
                   alive, littleEndian>>

\* A pass of the block loop with numSegments > 0.
SignatureBlock ==
    /\ loop # NULL /\ loop.n > 0 /\ fault = "none"
    /\ \E allocA, allocD \in Allocs, prev \in PrevOutcomes :
         SignatureBlockLoop(loop.key, allocA, allocD, prev)
    /\ UNCHANGED <<root, last, overread, alive, littleEndian, loop>>

\* A pass with numSegments = 0: the for loop runs no iteration and the
\* while loop tests the same sigBlock again.  Nothing changes.
EmptySignatureBlock ==
    /\ loop # NULL /\ loop.n = 0 /\ fault = "none"
    /\ UNCHANGED vars

\* ski_registerKey, ski_unregisterKey: empty bodies.
ski_registerKey(t) ==
    /\ alive /\ fault = "none" /\ loop = NULL
    /\ UNCHANGED vars

ski_unregisterKey(t) ==
    /\ alive /\ fault = "none" /\ loop = NULL
    /\ UNCHANGED vars

\* ski_unregisterUpdate and ski_clean: empty bodies.
ski_unregisterUpdate(upd) ==
    /\ alive /\ fault = "none" /\ loop = NULL
    /\ UNCHANGED vars

ski_clean ==
    /\ alive /\ fault = "none" /\ loop = NULL
    /\ UNCHANGED vars

\* ski_releaseCache frees the _SKI_CACHE struct alone; the upper nodes,
\* buckets and records it owned stay allocated and unreachable.
ski_releaseCache ==
    /\ alive /\ fault = "none" /\ loop = NULL
    /\ alive' = FALSE
    /\ UNCHANGED <<nodes, algos, data, fault, call, result, root, counter, uid,
                   last, overread, littleEndian, loop>>

Next ==
    \/ \E u \in UpdateIDs, a \in Attributes : ski_registerUpdate(u, a)
    \/ \E u \in UpdateIDs : ski_unregisterUpdate(u)
    \/ \E t \in Triples : ski_registerKey(t) \/ ski_unregisterKey(t)
    \/ ski_clean
    \/ ski_releaseCache
    \/ SignatureBlock
    \/ EmptySignatureBlock

Spec == Init /\ [][Next]_vars

\* The thread inside ski_registerUpdate keeps running: a pass of the block
\* loop that can change the state is eventually taken.  The callers' calls
\* are not fair; the server may stop calling at any time.
FairSpec == Spec /\ WF_vars(SignatureBlock)

-----------------------------------------------------------------------------
(* Properties                                                              *)

(* Spec sections 4.3, 7 and 8: ski_registerUpdate answers ERROR exactly  *)
(* for a malformed attribute (a length field that does not match what     *)
(* follows, bytes left over); one that follows the wire format is walked  *)
(* to the end and answered INVALID or UNKNOWN.                             *)
AcceptsExactlyWellFormed ==
    last.attr # NULL => (WellFormed(last.attr) <=> last.verdict # "error")

(* Spec section 9: the walk bounds-checks every field before reading it;  *)
(* no read of ski_registerUpdate goes past the attribute.                  *)
NoOverread == ~overread

(* ski_registerUpdate leaves its signature block loop: a call that       *)
(* enters it eventually returns, or at least ends the process, instead of *)
(* spinning with the server thread stuck inside the cache.                *)
RegisterUpdateReturns == (loop # NULL) ~> (loop = NULL \/ fault # "none")

(* No call dereferences a NULL pointer.                                    *)
NoNullDeref == fault # "segv"

=============================================================================
