---------------------------- MODULE TtlCacheUse ----------------------------
(***************************************************************************)
(* A TtlCache under any sequence of get, set and clear, as time passes.    *)
(***************************************************************************)
EXTENDS TtlCache, FiniteSets

CONSTANTS
    Keys, Values,
    MaxNow                 \* bound on time

ASSUME UseAssumption == MaxNow \in Nat

VARIABLES
    store,
    now,
    written,    \* history: the last value set for each key and when, {} after clear
    lost        \* history: the keys a get has had no answer for since they were set

cacheVars == <<store, now, written, lost>>

Missing(m, t) == {k \in Keys : Got(m, k, t) = {}}

CacheInit ==
    /\ store = <<>>
    /\ now = 0
    /\ written = [k \in Keys |-> {}]
    /\ lost = Keys

get(k) ==
    /\ store' = AfterGet(store, k, now)
    /\ lost' = lost \cup Missing(store', now)
    /\ UNCHANGED <<now, written>>

set(k, v) ==
    /\ store' = AfterSet(store, k, v, now)
    /\ written' = [written EXCEPT ![k] = {[value |-> v, at |-> now]}]
    /\ lost' = (lost \ {k}) \cup Missing(store', now)
    /\ UNCHANGED now

clear ==
    /\ store' = <<>>
    /\ written' = [k \in Keys |-> {}]
    /\ lost' = Keys
    /\ UNCHANGED now

CacheTick ==
    /\ now < MaxNow
    /\ now' = now + 1
    /\ lost' = lost \cup Missing(store, now')
    /\ UNCHANGED <<store, written>>

CacheNext ==
    \/ \E k \in Keys : get(k)
    \/ \E k \in Keys, v \in Values : set(k, v)
    \/ clear
    \/ CacheTick

CacheSpec == CacheInit /\ [][CacheNext]_cacheVars

-----------------------------------------------------------------------------
(* cache.ts:31-68: through evictions, updates in place, deletions of       *)
(* expired entries and clears, the Map has each key once and never more    *)
(* entries than maxSize; a hit is the value last set for that key, no more *)
(* than staleMs ago, and is called stale exactly when that was more than   *)
(* ttlMs ago; and a key that once had no answer, because its entry was     *)
(* evicted, expired or cleared, has none before it is set again.           *)
CacheServesLastWrites ==
    /\ Len(store) <= maxSize
    /\ \A i, j \in DOMAIN store : store[i].key = store[j].key => i = j
    /\ \A k \in Keys : \A hit \in Got(store, k, now) :
          /\ k \notin lost
          /\ \E w \in written[k] :
                /\ hit.value = w.value
                /\ now - w.at <= staleMs
                /\ hit.stale <=> now - w.at > ttlMs
=============================================================================
