# TLA+ models of the SRx server SKI cache

This directory holds TLA+ models of the SKI cache. `src/src/server/ski_cache.h` declares the cache's API and states its contract. `src/unnamed/part_000` holds two implementations: the current `ski_cache.c` (lines 1–990), and an older byte-tree prototype (lines 1178–1488, with a header copy at 991–1177). The SRx server uses the cache to map BGPsec router keys (ASN, algorithm id, SKI) to the updates that need them. Every module is translated from the C; the spec (`spec.md`) is used only as the statement of what the code should do.

## The system

| Part | Code | State | Operations |
|---|---|---|---|
| Index | `_getCacheData`, `__ski_getCacheNode`, `__ski_getCacheAlgoID`, `___ski_create*` (lines 106–177, 291–482, 560–733) | `cache->cacheNode`, a list of upper nodes sorted by `asn >> 16`. Each node has 65536 `as2` slots (`asn & 0xFFFF`). Each slot has a list of algorithm-id buckets, and each bucket has a list of records sorted by SKI (memcmp order). | lookup, or lookup-and-create, of one `<asn, algo, ski>` |
| Attribute walk | top of `ski_registerUpdate` (lines 819–888) | none: it computes over the attribute bytes with a `u_int16_t remainder` | `ERROR` and early return, `INVALID` with no block, or entry into the block loop |
| Update-id lists | `__ski_addUpdateCacheUID`, `___ski_createCacheUID` (235–256, 491–547) | `cData->cacheUID`, a sorted list of update ids | add an update id to a record |
| API | `ski_createCache`, `ski_releaseCache`, `ski_registerUpdate`, `ski_unregisterUpdate`, `ski_registerKey`, `ski_unregisterKey`, `ski_clean` (756–990) | the `_SKI_CACHE` struct | one call per entry point; the last four have empty bodies |
| Contract | `ski_cache.h` | per-key registration counters, the paths of registered updates, the `e_Upd_RegRes` hint, `e_SKI_status` callbacks | `createSKICache`, `releaseSKICache`, `registerUpdateSKI`, `unregisterUpdateSKI`, `registerKeySKI`, `unregisterKeySKI`, `clean` |
| Prototype | part_000 lines 1178–1488 | `_SKI_CACHE` with a root `_SKI_NODE` | the header's names; `registerUpdateSKI` answers from the pointer alone, and the rest are empty |
| Not modelled | part_001 | — | see below |

The header and the current `ski_cache.c` do not agree. `ski_cache.c` includes the header, which declares `createSKICache`, `registerKeySKI(cache, ski, algoID, asn)` and so on. Yet it defines `ski_createCache`, `ski_registerKey(cache, asn, ski, algoID)` and so on. Only the prototype defines the declared names.

How the parts interact:
- `ski_registerUpdate` walks the attribute. When the remainder arithmetic accepts the attribute, it loops over the signature blocks.
- For each segment, the loop calls `_getCacheData(..., create = true)`, reads `cData->counter`, and calls `__ski_addUpdateCacheUID`.
- The server makes all calls from one thread, and the cache takes no locks. Each call is therefore one atomic step. The exception is `ski_registerUpdate`, which takes one more step per pass of its signature block loop; no other call runs while it is in the loop.

Hard behaviours in this code, none of which involve concurrency:
- remainder arithmetic modulo 2^16 that wraps instead of going negative;
- a length compared in host byte order but subtracted in network order;
- `memset(p, sizeof(T), 0)`, which clears nothing, so malloc'ed structs keep stale pointers (the 512 KB upper node comes from mmap and is zeroed);
- an uninitialised `prev` in `__ski_getCacheAlgoID`;
- walks that never append at a list's tail;
- a NULL write in `___ski_createCacheUID`;
- a block loop that never advances.

## Modules

- **`SkiIndex`** models the index and its one operation, `_getCacheData`.
  - Each list is `[elems, end]`: the keys in list order, and what the last next pointer (or an empty head) holds, `NULL` or `GARBAGE`.
  - `__ski_getCacheNode`, `__ski_getCacheAlgoID` and `DataWalk` are operators with the C's case split: insert before a larger key, match, walk off the tail, follow garbage.
  - `_getCacheData` chains the three walks and returns the next index state together with `fault`.
  - `GetCacheData` is the action. It chooses nondeterministically:
    - what malloc hands out (`Allocs`: zeroed or stale);
    - what the uninitialised `prev` holds (`PrevOutcomes`: NULL or wild).
  - `fault` is `"ub"` when the code follows garbage or stores through a wild pointer.
- **`BgpsecPathAttr`** models the attribute walk as the operator `ski_registerUpdateWalk(attr, junk, littleEndian)`.
  - An attribute is a record: extended-length flag, ASNs, Secure_Path length field, blocks (length field, algorithm id, SKIs, signature length), and trailing pad.
  - The attribute length is the true size.
  - The operator keeps the code's `u_int16_t` arithmetic (`U16`), the truncating `int` division for `numSegments`, and the `ntohs`/no-`ntohs` reads (`Swap16`).
  - `junk` is the value of attacker bytes read where no block header is.
  - `WellFormed` is the reference definition of an attribute the spec accepts.
- **`SkiCache`** models the API. It composes the two modules above through `Idx == INSTANCE SkiIndex WITH Creates <- {TRUE}`, because `ski_registerUpdate` always creates.
  - `ski_registerUpdate` is the walk and, when the walk accepts a block, the entry into `while (sigBlock != NULL)`. `loop` records the call inside the loop: `numSegments` and the key segment 0 reads.
  - `SignatureBlock` is one pass with `numSegments > 0`. `SignatureBlockLoop` does the first segment's `_getCacheData`, the counter read, and `__ski_addUpdateCacheUID`.
  - The add never returns: it writes through NULL, or compares through an uncleared head. The loop therefore never gets past segment 0.
  - `EmptySignatureBlock` is a pass with `numSegments = 0`: the for loop runs no iteration, and nothing changes.
  - `littleEndian` is the build's byte order. It is chosen once, in `Init`, from `HostOrders`.
  - The empty-bodied entry points are actions that change nothing.
  - `ski_releaseCache` frees the struct and ends the run.
- **`SkiCacheAPI`** is the abstract specification: what `ski_cache.h` promises, translated from its declarations and doc comments.
  - `counter[k]` counts registrations of a key.
  - `path[u]` is the registered update's path: a sequence of blocks, each the set of keys it needs.
  - `answer[u]` is the hint `registerUpdateSKI` returned: ERROR for a non-BGPsec attribute, UNKNOWN when some block has all its keys, INVALID otherwise.
  - `notified[u]` holds the `keyChange` statuses reported since that answer: SKI_NEW/SKI_ADD on register, SKI_REMOVED/SKI_DEL on unregister, once per related update.
- **`SkiTreeProto`** models the prototype, one action per entry point.
  - `given`, `answer` and `keys` are the caller's records of what it passed, what came back, and how often it registered each key (`registerKeySKI` minus `unregisterKeySKI` calls). The prototype itself keeps none of them: its key functions have empty bodies.
  - Its refinement mapping to `SkiCacheAPI` (`API == INSTANCE SkiCacheAPI WITH ...`) maps each counter to the caller's `keys`, and `notified` to empty, since `keyChange` is never called.
  - `SkiCacheAPI` has no run of its own; the contract is checked only as the property `APISpec` of the prototype.
- **`MC_SkiIndex`**, **`MC_SkiCache`** and **`MC_SkiTreeProto`** give the constants and bounds.

The component list, the line ranges behind every definition, and the hazards are in `PROJECT.json`.

## Runs

| Run | Expect | What it shows |
|---|---|---|
| `ski_index` (SkiIndex.cfg) | pass | With zeroed allocations, every level stays sorted (`IndexOrdered`, which compares a full traversal with the sorted set of reachable keys). Every result agrees with the index (`LookupCorrect`, an action property). |
| `index_record_lost` | violation | Inserting a smaller algorithm id at the head of a slot drops the old head and its records. |
| `index_create_null` | violation | `create = true` returns NULL for a key above every existing key at a level. |
| `index_stale_alloc` | violation | An uncleared `cacheData` of a new bucket is followed. |
| `index_wild_prev` | violation | A head insert reads the uninitialised `prev`. |
| `cache_acceptance` | violation | `AcceptsExactlyWellFormed`: ERROR should be answered exactly for malformed attributes. A well-formed attribute is rejected, because the remainder is off by the length field's size. Trailing garbage with no block is also answered INVALID. |
| `cache_overread` | violation | Pinned to the well-formed unsigned path (extended length, one segment, no block) on a little-endian host. The `u_int16_t` remainder wraps to 65534 at line 856, and line 868 reads a block length past the attribute. |
| `cache_null_deref` | violation | The first update that reaches the block loop crashes in `___ski_createCacheUID`. |
| `cache_hang` | violation | `RegisterUpdateReturns`, a leads-to property checked under `FairSpec`: a call that enters the block loop should leave it. A Secure_Path length below 8 with a block accepted enters the loop with `numSegments = 0`. The behaviour then stutters forever, and no fair step is enabled that could end it. |
| `tree_proto_refines_api` | violation | `APISpec`: the prototype does not implement the contract. For a one-block path whose key the caller never registered, `registerUpdateSKI` answers UNKNOWN where the header says INVALID. |

Each passing property has a mutant in `PROJECT.json` that the run detects:
- the memcmp arguments swapped;
- the equal case folded into `<`;
- the upper list keyed by the whole ASN.

### Bounds

- **SkiIndex.** Three ASNs: 65534 (upper 0), 65543 and 131079 (uppers 1 and 2). Three algorithm ids and three SKIs, so every level sees inserts before, between and after existing keys. A state constraint keeps at most 5 reachable records, so a list can hold three keys and take an insert between any two. A `VIEW` drops `call`/`result`, which the properties read only in the new state of a step. The run has 14,002 distinct states.
- **SkiCache.** A grid of roughly 600 attributes: extended length or not (a 1-byte length only up to 255), 0–2 segments, a Secure_Path length off by −6, −1, 0 or +6, 0–2 blocks with 72- or 488-byte signatures, and 0, 1, 2 or 252 trailing bytes. Five named shapes show the bugs:
  - well formed with no block;
  - two bytes of trailing garbage;
  - one 97-byte block with a 1-byte attribute length;
  - a 513-byte block plus 2 pad bytes, whose length reads as 258 on a little-endian host;
  - a Secure_Path length of 2 followed by 252 bytes.

  Junk reads take the values 0 and the remainder itself, the only value that can zero the remainder. Every violation is found within a few calls. `cache_overread` is pinned to the well-formed unsigned path alone (`MC_Unsigned`), so the read it reports is the one a valid attribute triggers.

  No property of `SkiCache` that states what the comments or the spec promise holds of this code: acceptance, bounds checks, NULL safety and termination all fail. The module therefore has violation runs only.

Crash states are terminal, and so is the released cache. The cfgs therefore say `CHECK_DEADLOCK FALSE`.

- **SkiTreeProto.** Three keys, two updates, and at most two registrations per key. The paths have one signature block each, needing one key or two. The header is ambiguous for other paths: its comment says UNKNOWN if one block has all its keys, while its `@return` says INVALID only if a key is missing in all blocks and UNKNOWN if all keys are available. The two readings agree on one-block paths, and the header says nothing about a path with no block. On these paths the contract's answer is unambiguous.

## Fairness

Callers are not fair. The server may stop calling the cache at any time, so no entry point is assumed to be taken.

The one fair step is `SignatureBlock`. Once the thread is inside `ski_registerUpdate`, it keeps executing the loop, so `FairSpec == Spec /\ WF_vars(SignatureBlock)`. Weak fairness is enough, because nothing else can disable the step while the call is in the loop.

`EmptySignatureBlock` changes no variable, so fairness cannot force progress out of it. That is exactly the spin the code has.

No other liveness is stated. Every other call is one synchronous step, and the header's `keyChange` runs inside the call that changes the key, so nothing is left to happen later.

## Not modelled

- **part_000 lines 991–1177**: a header copy (a `static typedef` that does not compile) with no behaviour.
- **Prototype helpers `getSKI_NODE` and `_freeSKI_NODE`**: nothing calls them. `_createSKI_NODE` falls off its end without a return, but nothing reads the `rootNode` it fills.
- **part_001** (`main.h`): only declares `getSrxCAPI`.
- **`___ski_free*` helpers**: not called anywhere in this revision, and `ski_releaseCache` does not use them either. As operators over the index they would free every element of each list until the returned next is NULL. With zeroed allocations, the only claim left to check would be that they free the keys `Reachable` names, which holds by construction. What they get wrong only matters once they have a caller:
  - `___ski_freeCacheNode` never frees the node itself;
  - they would follow uncleared tails.

  This is why the SKI index component stays "partly".
- **`keyChange`**: `ski_createCache` never stores the callback, and no `ski_*` function calls it. It is listed as a hazard.
- **malloc failure**: no constructor checks malloc's result, so every failure faults the same way. It is listed as a hazard.
- **`__ski_addUpdateCacheUID` insert/compare loop**: unreachable, because every first add crashes.
- **Logging and the crypto API**.
- **`ski_registerKey` and the other `ski_*` stubs**: their bodies are empty, so they are actions that change nothing.
- **A `NULL` callback to `createSKICache`**: the server always passes one.
- **Wire layout assumption**: `SCA_BGP_PathAttribute` is 2 bytes (flags, type), and a Signature_Block header is length (2) then algorithm id (1), as in RFC 8205. `srxcryptoapi.h` is not in the repository.

## Plan for later work

1. A refinement of `SkiIndex` against an abstract sorted map of keys. Its first counterexamples are the head drop and the missing tail append, which `index_record_lost` and `index_create_null` already show. It becomes useful as a passing check once those are fixed.
2. A refinement of `SkiCache` (the `ski_*` implementation) against `SkiCacheAPI`, mapping an attribute's blocks to key sets. Today it fails first on the off-by-two acceptance (`cache_acceptance`). The empty `ski_registerKey` and the unused `keyCount` only become visible once the loop completes a pass.
3. The `___ski_free*` helpers, as operators checked against "frees everything reachable", once `ski_releaseCache` calls them.
