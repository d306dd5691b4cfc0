---------------------------- MODULE SkiTreeProto ----------------------------
(***************************************************************************)
(* The byte-tree SKI cache prototype (src/unnamed/part_000, the second     *)
(* ski_cache.c copy): the one implementation of the names ski_cache.h      *)
(* declares (createSKICache, registerUpdateSKI, ...).                      *)
(*                                                                         *)
(* createSKICache allocates the struct and a root _SKI_NODE.               *)
(* registerUpdateSKI answers from the attribute pointer alone.  Every      *)
(* other entry point has an empty body, and keyChange is never called.     *)
(* No tree node or leaf is ever created, so no key has a counter.          *)
(*                                                                         *)
(* given, answer and keys are the caller's record of what it handed over *)
(* and what came back: the prototype keeps none of them.                  *)
(***************************************************************************)
EXTENDS Naturals, Sequences, FiniteSets

CONSTANTS Keys, UpdateIDs, Paths, NotBgpsec, NoPath, MaxCount

VARIABLES
    alive,    \* the _SKI_CACHE struct has not been freed
    given,    \* given[u]: the BGPsec path last registered for u, or NoPath
    answer,   \* answer[u]: what registerUpdateSKI returned for u
    keys      \* keys[k]: registerKeySKI minus unregisterKeySKI calls for k

vars == <<alive, given, answer, keys>>

TypeOK ==
    /\ alive \in BOOLEAN
    /\ given \in [UpdateIDs -> Paths \cup {NoPath}]
    /\ answer \in [UpdateIDs -> {"none", "REGVAL_ERROR", "REGVAL_UNKNOWN"}]
    /\ keys \in [Keys -> 0..MaxCount]

\* createSKICache with a callback: struct and root node allocated.
createSKICache ==
    /\ alive = TRUE
    /\ given = [u \in UpdateIDs |-> NoPath]
    /\ answer = [u \in UpdateIDs |-> "none"]
    /\ keys = [k \in Keys |-> 0]

Init == createSKICache

\* (bgpsec == NULL) ? REGVAL_ERROR : REGVAL_UNKNOWN
registerUpdateSKI(u, p) ==
    /\ alive
    /\ answer' = [answer EXCEPT ![u] = IF p = NotBgpsec THEN "REGVAL_ERROR"
                                                          ELSE "REGVAL_UNKNOWN"]
    /\ given' = [given EXCEPT ![u] = IF p = NotBgpsec THEN NoPath ELSE p]
    /\ UNCHANGED <<alive, keys>>

\* Empty body; the caller drops its own record of the update.
unregisterUpdateSKI(u) ==
    /\ alive
    /\ given' = [given EXCEPT ![u] = NoPath]
    /\ answer' = [answer EXCEPT ![u] = "none"]
    /\ UNCHANGED <<alive, keys>>

\* registerKeySKI declares two locals and does nothing, and unregisterKeySKI
\* is empty; only the caller's count of its registrations moves (up to
\* MaxCount, and down only for a key it registered).
registerKeySKI(k) ==
    /\ alive /\ keys[k] < MaxCount
    /\ keys' = [keys EXCEPT ![k] = @ + 1]
    /\ UNCHANGED <<alive, given, answer>>

unregisterKeySKI(k) ==
    /\ alive /\ keys[k] > 0
    /\ keys' = [keys EXCEPT ![k] = @ - 1]
    /\ UNCHANGED <<alive, given, answer>>

clean == alive /\ UNCHANGED vars

\* releaseSKICache frees the struct; the root node stays allocated.
releaseSKICache ==
    /\ alive
    /\ alive' = FALSE
    /\ UNCHANGED <<given, answer, keys>>

Next ==
    \/ \E u \in UpdateIDs, p \in Paths \cup {NotBgpsec} : registerUpdateSKI(u, p)
    \/ \E u \in UpdateIDs : unregisterUpdateSKI(u)
    \/ \E k \in Keys : registerKeySKI(k) \/ unregisterKeySKI(k)
    \/ clean
    \/ releaseSKICache

Spec == Init /\ [][Next]_vars

-----------------------------------------------------------------------------
(* Refinement: a key's counter is what the caller registered, the path    *)
(* and answer of an update are the caller's records, and nothing is       *)
(* notified because the prototype never calls keyChange.                  *)
API == INSTANCE SkiCacheAPI WITH
           counter  <- keys,
           path     <- given,
           answer   <- answer,
           notified <- [u \in UpdateIDs |-> {}],
           alive    <- alive

(* The prototype behaves as ski_cache.h promises: every answer of        *)
(* registerUpdateSKI is the hint the header defines for the keys present, *)
(* and every call is a step the header allows.                            *)
APISpec == API!Spec

=============================================================================
