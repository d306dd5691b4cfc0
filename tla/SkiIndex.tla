------------------------------ MODULE SkiIndex ------------------------------
(***************************************************************************)
(* The three-level key index of the SKI cache (ski_cache.c):               *)
(*                                                                         *)
(*   cache->cacheNode  : list of "upper" nodes, ordered by asn >> 16       *)
(*   node->as2[lower]  : head of the algorithm-id list of one ASN          *)
(*   algo->cacheData   : list of <SKI;ASN;AlgoID> records, ordered by SKI  *)
(*                                                                         *)
(* Every list is a sequence of its keys plus what the last element's next  *)
(* pointer holds (for an empty algo/data list: what the head pointer       *)
(* holds): NULL, or GARBAGE when malloc returned memory the code never     *)
(* cleared.  memset(p, sizeof(T), 0) clears zero bytes, so every small     *)
(* struct the code creates keeps what the allocator handed out; the 512 KB *)
(* upper node is served by mmap and always arrives zeroed.                 *)
(*                                                                         *)
(* The one operation is _getCacheData(cache, asn, ski, algoID, create),    *)
(* modelled as one atomic step (the cache is single-threaded), with its    *)
(* three walks as operators named after the C functions.                   *)
(***************************************************************************)
EXTENDS Integers, Sequences, SequencesExt, FiniteSets

CONSTANTS
    ASNs,          \* 32-bit AS numbers the callers pass
    AlgoIDs,       \* algorithm identifiers (u_int8_t)
    SKIs,          \* SKIs, as naturals in the order memcmp gives the 20 bytes
    Creates,       \* values of the create flag the callers pass
    Allocs,        \* what malloc hands out for a small struct: "zero", "stale"
    PrevOutcomes,  \* what the uninitialised `prev` of __ski_getCacheAlgoID holds
    NULL           \* the null pointer (a model value)

GARBAGE == "garbage"

\* asn >> 16 and asn & 0xFFFF (ski_cache.c _getCacheData)
Upper(asn) == asn \div 65536
AS2(asn)   == asn % 65536

ASSUME /\ \A a \in ASNs : a \in Nat /\ Upper(a) < 65536
       /\ AlgoIDs \subseteq 0..255
       /\ SKIs \subseteq Nat
       /\ Creates \subseteq BOOLEAN
       /\ Allocs \subseteq {"zero", "stale"}
       /\ PrevOutcomes \subseteq {"null", "wild"}

\* The next/head pointer a freshly malloc'ed small struct carries.
EndOf(alloc) == IF alloc = "zero" THEN NULL ELSE GARBAGE

List(K) == [elems : Seq(K), end : {NULL, GARBAGE}]
EmptyList == [elems |-> <<>>, end |-> NULL]

VARIABLES
    nodes,   \* the upper values along cache->cacheNode
    algos,   \* algos[asn]: the algorithm-id list hanging off as2[AS2(asn)]
    data,    \* data[asn, algo]: the record list of that algorithm-id node
    fault,   \* "none", or how the process died: "segv", "ub"
    call,    \* the arguments of the last _getCacheData call
    result   \* what it returned: NULL or the <<asn, algo, ski>> it found

vars == <<nodes, algos, data, fault, call, result>>

Triples == ASNs \X AlgoIDs \X SKIs

TypeOK ==
    /\ nodes \in Seq({Upper(a) : a \in ASNs})
    /\ algos \in [ASNs -> List(AlgoIDs)]
    /\ data \in [ASNs \X AlgoIDs -> List(SKIs)]
    /\ fault \in {"none", "segv", "ub"}
    /\ result \in Triples \cup {NULL}

\* ski_createCache on a zeroed allocation: no upper node yet.
Init ==
    /\ nodes = <<>>
    /\ algos = [a \in ASNs |-> EmptyList]
    /\ data = [k \in ASNs \X AlgoIDs |-> EmptyList]
    /\ fault = "none"
    /\ call = [asn |-> 0, algoID |-> 0, ski |-> 0, create |-> FALSE]
    /\ result = NULL

\* Index of the first element the loop stops at (key <= element), 0 when
\* the walk runs off the end of the list.
StopAt(s, key) == SelectInSeq(s, LAMBDA e : key <= e)

(***************************************************************************)
(* __ski_getCacheNode: walk the upper list.  A node is created only on an  *)
(* empty list or in front of a larger node: walking off the tail leaves    *)
(* found = false and returns NULL, create or not.                          *)
(***************************************************************************)
__ski_getCacheNode(ns, upper, create) ==
    LET i == StopAt(ns, upper) IN
    CASE ns = <<>> /\ create          -> [found |-> TRUE,  nodes |-> <<upper>>]
      [] i # 0 /\ ns[i] = upper       -> [found |-> TRUE,  nodes |-> ns]
      [] i # 0 /\ ns[i] # upper /\ create
                                      -> [found |-> TRUE,  nodes |-> InsertAt(ns, i, upper)]
      [] OTHER                        -> [found |-> FALSE, nodes |-> ns]

(***************************************************************************)
(* __ski_getCacheAlgoID: walk the algorithm-id list of one as2 slot.       *)
(* st is "found", "new" (a node was created; its cacheData holds what      *)
(* malloc left), "null" or "ub".  Inserting in front of the head reads the *)
(* uninitialised `prev`: if it is NULL the new node takes the head's next, *)
(* dropping the old head; otherwise the store goes through a wild pointer. *)
(***************************************************************************)
__ski_getCacheAlgoID(slot, algoID, create, alloc, prev) ==
    LET s == slot.elems
        i == StopAt(s, algoID)
        made(l) == [st |-> "new", list |-> l]
    IN
    CASE s = <<>> /\ create           -> made([elems |-> <<algoID>>, end |-> EndOf(alloc)])
      [] s = <<>>                     -> [st |-> "null", list |-> slot]
      [] i = 0 /\ slot.end = GARBAGE  -> [st |-> "ub",   list |-> slot]
      [] i = 0                        -> [st |-> "null", list |-> slot]
      [] s[i] = algoID                -> [st |-> "found", list |-> slot]
      [] ~create                      -> [st |-> "null", list |-> slot]
      [] i > 1                        -> made([slot EXCEPT !.elems = InsertAt(s, i, algoID)])
      [] prev = "null"                -> made([slot EXCEPT !.elems = <<algoID>> \o Tail(s)])
      [] OTHER                        -> [st |-> "ub",   list |-> slot]

(* Plausible slips in the record walk, used to show that the properties   *)
(* below reject them: memcmp with its arguments swapped, and the walk      *)
(* testing cmp < 0 before cmp == 0 with the equal case folded into it.     *)
DataWalkMemcmpSwapped(l, ski, create, alloc) ==
    LET s == l.elems
        i == SelectInSeq(s, LAMBDA e : e <= ski)
    IN
    CASE s = <<>> /\ create           -> [st |-> "new",  list |-> [elems |-> <<ski>>, end |-> EndOf(alloc)]]
      [] s = <<>> \/ i = 0            -> [st |-> "null", list |-> l]
      [] s[i] = ski                   -> [st |-> "found", list |-> l]
      [] create                       -> [st |-> "new",  list |-> [l EXCEPT !.elems = InsertAt(s, i, ski)]]
      [] OTHER                        -> [st |-> "null", list |-> l]

DataWalkStrict(l, ski, create, alloc) ==
    LET s == l.elems
        i == SelectInSeq(s, LAMBDA e : ski < e)
    IN
    CASE s = <<>> /\ create           -> [st |-> "new",  list |-> [elems |-> <<ski>>, end |-> EndOf(alloc)]]
      [] s = <<>> \/ i = 0            -> [st |-> "null", list |-> l]
      [] create                       -> [st |-> "new",  list |-> [l EXCEPT !.elems = InsertAt(s, i, ski)]]
      [] OTHER                        -> [st |-> "null", list |-> l]

(***************************************************************************)
(* The record walk of _getCacheData: find the SKI (memcmp order) in the    *)
(* data list, inserting in front of the first larger one.  A head pointer  *)
(* or next pointer holding GARBAGE is followed: undefined behaviour.       *)
(***************************************************************************)
DataWalk(l, ski, create, alloc) ==
    LET s == l.elems
        i == StopAt(s, ski)
    IN
    CASE s = <<>> /\ l.end = GARBAGE  -> [st |-> "ub",   list |-> l]
      [] s = <<>> /\ create           -> [st |-> "new",  list |-> [elems |-> <<ski>>, end |-> EndOf(alloc)]]
      [] s = <<>>                     -> [st |-> "null", list |-> l]
      [] i = 0 /\ l.end = GARBAGE     -> [st |-> "ub",   list |-> l]
      [] i = 0                        -> [st |-> "null", list |-> l]
      [] s[i] = ski                   -> [st |-> "found", list |-> l]
      [] create                       -> [st |-> "new",  list |-> [l EXCEPT !.elems = InsertAt(s, i, ski)]]
      [] OTHER                        -> [st |-> "null", list |-> l]

\* A bucket the algorithm-id walk unlinked is leaked: nothing reaches its
\* record list again, and a bucket created later for the same id starts
\* from a fresh allocation, so the list is forgotten.
Unlinked(asn, list, d) ==
    [k \in DOMAIN d |-> IF k[1] = asn /\ k[2] \notin ToSet(list.elems)
                        THEN EmptyList ELSE d[k]]

(***************************************************************************)
(* _getCacheData: the three walks in sequence, each stopping the call with *)
(* NULL when its level has no match.  Returns the whole next state of the  *)
(* index: nodes, algos, data, fault and the returned record.  allocA and   *)
(* allocD are what malloc gives the algorithm-id node and the record.      *)
(***************************************************************************)
_getCacheData(asn, ski, algoID, create, allocA, allocD, prev) ==
    LET n  == __ski_getCacheNode(nodes, Upper(asn), create)
        a  == __ski_getCacheAlgoID(algos[asn], algoID, create, allocA, prev)
        dl == IF a.st = "new" THEN [elems |-> <<>>, end |-> EndOf(allocA)]
                              ELSE data[asn, algoID]
        d  == DataWalk(dl, ski, create, allocD)
        keep == [nodes |-> n.nodes, algos |-> algos, data |-> data,
                 fault |-> "none", result |-> NULL]
    IN
    CASE ~n.found         -> keep
      [] a.st = "null"    -> keep
      [] a.st = "ub"      -> [keep EXCEPT !.fault = "ub"]
      [] d.st = "ub"      -> [keep EXCEPT !.fault = "ub",
                                          !.algos = [algos EXCEPT ![asn] = a.list]]
      [] OTHER            -> [keep EXCEPT
                                !.algos = [algos EXCEPT ![asn] = a.list],
                                !.data = Unlinked(asn, a.list,
                                           [data EXCEPT ![asn, algoID] = d.list]),
                                !.result = IF d.st = "null" THEN NULL
                                           ELSE <<asn, algoID, ski>>]

\* Mutant: the upper list keyed by the whole ASN instead of asn >> 16.
GetCacheDataNoShift(asn, ski, algoID, create) ==
    /\ fault = "none"
    /\ \E allocA, allocD \in Allocs, prev \in PrevOutcomes :
         LET r == _getCacheData(asn, ski, algoID, create, allocA, allocD, prev) IN
         /\ nodes' = __ski_getCacheNode(nodes, asn, create).nodes
         /\ algos' = r.algos /\ data' = r.data
         /\ fault' = r.fault /\ result' = r.result
    /\ call' = [asn |-> asn, algoID |-> algoID, ski |-> ski, create |-> create]

\* One call of _getCacheData with the caller's arguments.
GetCacheData(asn, ski, algoID, create) ==
    /\ fault = "none"
    /\ \E allocA, allocD \in Allocs, prev \in PrevOutcomes :
         LET r == _getCacheData(asn, ski, algoID, create, allocA, allocD, prev) IN
         /\ nodes' = r.nodes
         /\ algos' = r.algos
         /\ data' = r.data
         /\ fault' = r.fault
         /\ result' = r.result
    /\ call' = [asn |-> asn, algoID |-> algoID, ski |-> ski, create |-> create]

Next ==
    \E asn \in ASNs, ski \in SKIs, algoID \in AlgoIDs, create \in Creates :
        GetCacheData(asn, ski, algoID, create)

Spec == Init /\ [][Next]_vars

-----------------------------------------------------------------------------
(* What the index holds, read the way a full traversal reads it.           *)

\* The triples reachable from cache->cacheNode.
Reachable ==
    { <<a, g, k>> \in Triples :
        /\ Upper(a) \in ToSet(nodes)
        /\ g \in ToSet(algos[a].elems)
        /\ k \in ToSet(data[a, g].elems) }

\* The triples one as2 slot yields, algorithm-id list then record list.
SlotWalk(a) ==
    LET gs == algos[a].elems IN
    FlattenSeq([j \in 1..Len(gs) |->
        [m \in 1..Len(data[a, gs[j]].elems) |-> <<a, gs[j], data[a, gs[j]].elems[m]>>]])

\* A full traversal: upper nodes in list order, as2 slots by index.
Traversal ==
    FlattenSeq([i \in 1..Len(nodes) |->
        FlattenSeq([j \in 1..Cardinality({a \in ASNs : Upper(a) = nodes[i]}) |->
            SlotWalk(SetToSortSeq({a \in ASNs : Upper(a) = nodes[i]}, <)[j])])])

\* Lexicographic order on <<asn, algo, ski>>.
TripleLess(x, y) ==
    \/ x[1] < y[1]
    \/ x[1] = y[1] /\ x[2] < y[2]
    \/ x[1] = y[1] /\ x[2] = y[2] /\ x[3] < y[3]

-----------------------------------------------------------------------------
(* Properties                                                              *)

(* Spec section 8, "lookup/insert ordering": a full traversal of the tree  *)
(* visits every reachable key exactly once, ASNs ascending, algorithm ids  *)
(* ascending within an ASN, SKIs ascending (memcmp) within an algorithm id *)
(* -- whatever sequence of inserts the three walks of _getCacheData and    *)
(* its helpers performed.                                                  *)
IndexOrdered == Traversal = SetToSortSeq(Reachable, TripleLess)

(* What _getCacheData returns agrees with the index: a key already in the  *)
(* index is returned and nothing changes; with create = false a key not in *)
(* the index yields NULL and nothing changes; a returned record is the one *)
(* asked for and is in the index afterwards.                               *)
LookupCorrect ==
    [][ fault' = "none" =>
        LET t == <<call'.asn, call'.algoID, call'.ski>> IN
        /\ t \in Reachable => (result' = t /\ UNCHANGED <<nodes, algos, data>>)
        /\ (t \notin Reachable /\ ~call'.create) =>
               (result' = NULL /\ UNCHANGED <<nodes, algos, data>>)
        /\ result' # NULL => (result' = t /\ t \in Reachable') ]_vars

(* Spec section 3: a key record, once created, stays in the index until    *)
(* clean reclaims it; _getCacheData never unlinks one.                     *)
NoRecordLost == [][fault' = "none" => Reachable \subseteq Reachable']_vars

(* Spec section 4.2: with create = true _getCacheData inserts a missing    *)
(* key at its sorted position, "or at tail", and so never returns NULL.    *)
CreateNeverNull == [][(fault' = "none" /\ call'.create) => result' # NULL]_vars

(* No call of _getCacheData dereferences an uninitialised pointer.         *)
NoUndefinedBehaviour == fault = "none"

=============================================================================
