------------------------------ MODULE TtlCache ------------------------------
(***************************************************************************)
(* The cache of packages/core (cache.ts): what its methods return and do   *)
(* to its Map, a sequence of entries in insertion order.  `undefined' is   *)
(* the empty set of results.                                               *)
(***************************************************************************)
EXTENDS Integers, Sequences, SequencesExt

CONSTANTS ttlMs, staleMs, maxSize

ASSUME CacheAssumption ==
    /\ ttlMs \in Nat /\ staleMs \in Nat
    /\ maxSize \in Nat \ {0}

Positions(m, k) == {i \in DOMAIN m : m[i].key = k}
has(m, k) == Positions(m, k) # {}
PositionOf(m, k) == CHOOSE i \in DOMAIN m : m[i].key = k
EntryOf(m, k) == m[PositionOf(m, k)]

(* Mutant: an entry never expires. *)
NeverExpired(m, k, now) == FALSE

Expired(m, k, now) == has(m, k) /\ now - EntryOf(m, k).timestamp > staleMs

(* get: an expired entry is deleted; a hit says whether it is stale. *)
AfterGet(m, k, now) ==
    IF Expired(m, k, now) THEN RemoveAt(m, PositionOf(m, k)) ELSE m

Got(m, k, now) ==
    {[value |-> e.value, stale |-> now - e.timestamp > ttlMs, timestamp |-> e.timestamp] :
        e \in IF has(m, k) /\ ~Expired(m, k, now) THEN {EntryOf(m, k)} ELSE {}}

(* A new key in a full cache takes the place of the first one in the Map. *)
WithRoom(m, k) ==
    IF ~has(m, k) /\ Len(m) >= maxSize /\ m # <<>> THEN Tail(m) ELSE m

(* Mutant: the entry is appended, as if the key were new. *)
SetAppending(m, k, v, now) ==
    Append(WithRoom(m, k), [key |-> k, value |-> v, timestamp |-> now])

(* set: Map.set on a key it has keeps the position of the entry. *)
AfterSet(m, k, v, now) ==
    LET entry == [key |-> k, value |-> v, timestamp |-> now]
    IN  IF has(m, k)
        THEN [m EXCEPT ![PositionOf(m, k)] = entry]
        ELSE Append(WithRoom(m, k), entry)
=============================================================================
