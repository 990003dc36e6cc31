--------------------------- MODULE PackageProofs ---------------------------
(***************************************************************************)
(* Theorems about the parts of packages/ beside the router and the         *)
(* backtest, for every value of their constants: the cache and the retry   *)
(* (TtlCache, TtlCacheUse, FetchRetry), the two ways rates reach the       *)
(* router (ApiClient, MarginfiData), and the backends that score them      *)
(* (LendingBackend).                                                       *)
(***************************************************************************)
EXTENDS TtlCacheUse, FetchRetry, ApiClient, MarginfiData, LendingBackend,
        SequenceTheorems, FiniteSetTheorems, TLAPS

-----------------------------------------------------------------------------
(* The cache *)

(* A Map: entries of E, and no key twice. *)
IsMap(m, E) ==
    /\ m \in Seq(E)
    /\ \A i, j \in DOMAIN m : m[i].key = m[j].key => i = j

(* Every entry of one Map is an entry of another. *)
Within(m, n) == \A i \in DOMAIN m : \E j \in DOMAIN n : m[i] = n[j]

(* The position of a key that the Map has. *)
LEMMA PositionIsThere ==
    ASSUME NEW m, NEW k, has(m, k)
    PROVE  PositionOf(m, k) \in DOMAIN m /\ m[PositionOf(m, k)].key = k
<1>1. \E i \in DOMAIN m : m[i].key = k
  BY DEF has, Positions
<1> QED BY <1>1 DEF PositionOf

(* A cache begins, and is cleared, empty. *)
LEMMA EmptyMap ==
    ASSUME NEW E
    PROVE  IsMap(<<>>, E) /\ Len(<<>>) <= maxSize /\ DOMAIN <<>> = {}
  BY CacheAssumption DEF IsMap, CacheAssumption

(* Removing an entry leaves the others, in their order. *)
LEMMA RemovalKeepsMap ==
    ASSUME NEW E, NEW m, IsMap(m, E), NEW p \in DOMAIN m
    PROVE  /\ IsMap(RemoveAt(m, p), E)
           /\ Len(RemoveAt(m, p)) = Len(m) - 1
           /\ Within(RemoveAt(m, p), m)
<1> DEFINE a == SubSeq(m, 1, p - 1)
           b == SubSeq(m, p + 1, Len(m))
           r == RemoveAt(m, p)
           at(i) == IF i < p THEN i ELSE i + 1
<1>1. m \in Seq(E) /\ p \in 1..Len(m) /\ Len(m) \in Nat /\ DOMAIN m = 1..Len(m)
  BY DEF IsMap
<1>2. a \in Seq(E) /\ Len(a) = p - 1 /\ \A i \in 1..p - 1 : a[i] = m[i]
  BY <1>1, SubSeqProperties
<1>3. b \in Seq(E) /\ Len(b) = Len(m) - p /\ \A i \in 1..Len(m) - p : b[i] = m[p + i]
  BY <1>1, SubSeqProperties
<1>4. /\ r \in Seq(E) /\ Len(r) = Len(a) + Len(b)
      /\ \A i \in 1..Len(a) + Len(b) : r[i] = IF i <= Len(a) THEN a[i] ELSE b[i - Len(a)]
  <2>1. r = a \o b
    BY DEF RemoveAt
  <2> HIDE DEF a, b, r
  <2> QED BY <1>2, <1>3, <2>1, ConcatProperties
<1> HIDE DEF a, b, r
<1>5. Len(r) = Len(m) - 1 /\ DOMAIN r = 1..Len(m) - 1
  BY <1>1, <1>2, <1>3, <1>4
<1>6. \A i \in DOMAIN r : at(i) \in DOMAIN m /\ r[i] = m[at(i)]
  <2>1. TAKE i \in DOMAIN r
  <2>2. i \in 1..Len(m) - 1
    BY <1>5
  <2>3. CASE i < p
    BY <1>1, <1>2, <1>3, <1>4, <2>2, <2>3
  <2>4. CASE ~(i < p)
    <3>1. r[i] = b[i - (p - 1)]
      BY <1>1, <1>2, <1>3, <1>4, <2>2, <2>4
    <3>2. i - (p - 1) \in 1..Len(m) - p
      BY <1>1, <2>2, <2>4
    <3>3. b[i - (p - 1)] = m[p + (i - (p - 1))]
      BY <1>3, <3>2
    <3>4. p + (i - (p - 1)) = i + 1
      BY <1>1, <2>2
    <3> QED BY <1>1, <2>2, <2>4, <3>1, <3>3, <3>4
  <2> QED BY <2>3, <2>4
<1>7. \A i, j \in DOMAIN r : at(i) = at(j) => i = j
  BY <1>1, <1>5
<1>8. \A i, j \in DOMAIN r : r[i].key = r[j].key => i = j
  BY <1>6, <1>7 DEF IsMap
<1> QED BY <1>4, <1>5, <1>6, <1>8 DEF r, IsMap, Within

(* get drops an entry or none. *)
LEMMA GetKeepsMap ==
    ASSUME NEW E, NEW m, IsMap(m, E), NEW k, NEW t
    PROVE  /\ IsMap(AfterGet(m, k, t), E)
           /\ Len(AfterGet(m, k, t)) <= Len(m)
           /\ Within(AfterGet(m, k, t), m)
<1>1. Len(m) \in Nat
  BY DEF IsMap
<1>2. CASE Expired(m, k, t)
  <2>1. PositionOf(m, k) \in DOMAIN m
    BY <1>2, PositionIsThere DEF Expired
  <2>2. AfterGet(m, k, t) = RemoveAt(m, PositionOf(m, k))
    BY <1>2 DEF AfterGet
  <2> QED BY <1>1, <2>1, <2>2, RemovalKeepsMap
<1>3. CASE ~Expired(m, k, t)
  BY <1>1, <1>3 DEF AfterGet, Within
<1> QED BY <1>2, <1>3

(* A hit is an entry of the Map with that key, not older than staleMs. *)
LEMMA HitIsAnEntry ==
    ASSUME NEW E, NEW m, IsMap(m, E), NEW k, NEW t, NEW h \in Got(m, k, t)
    PROVE  \E i \in DOMAIN m :
              /\ m[i].key = k /\ m[i].value = h.value /\ m[i].timestamp = h.timestamp
              /\ ~(t - m[i].timestamp > staleMs)
              /\ h.stale = (t - m[i].timestamp > ttlMs)
<1>1. has(m, k) /\ ~Expired(m, k, t)
  BY DEF Got
<1> DEFINE p == PositionOf(m, k)
           e == m[p]
<1>2. h = [value |-> e.value, stale |-> t - e.timestamp > ttlMs, timestamp |-> e.timestamp]
  BY <1>1 DEF Got, EntryOf
<1>3. p \in DOMAIN m /\ m[p].key = k
  BY <1>1, PositionIsThere
<1>4. ~(t - e.timestamp > staleMs)
  BY <1>1 DEF Expired, EntryOf
<1> QED BY <1>2, <1>3, <1>4

(* Room for a key: the oldest entry goes when the cache is full. *)
LEMMA RoomKeepsMap ==
    ASSUME NEW E, NEW m, IsMap(m, E), Len(m) <= maxSize, NEW k, ~has(m, k)
    PROVE  /\ IsMap(WithRoom(m, k), E)
           /\ Len(WithRoom(m, k)) < maxSize
           /\ Within(WithRoom(m, k), m)
<1>1. m \in Seq(E) /\ Len(m) \in Nat /\ DOMAIN m = 1..Len(m)
  BY DEF IsMap
<1>2. maxSize \in Nat /\ maxSize > 0
  BY CacheAssumption DEF CacheAssumption
<1>3. CASE Len(m) >= maxSize
  <2>1. m # <<>> /\ Len(m) > 0
    BY <1>1, <1>2, <1>3
  <2>2. WithRoom(m, k) = Tail(m)
    BY <1>3, <2>1 DEF WithRoom
  <2>3. /\ Tail(m) \in Seq(E) /\ Len(Tail(m)) = Len(m) - 1
        /\ \A i \in 1..Len(m) - 1 : Tail(m)[i] = m[i + 1]
    BY <1>1, <2>1, HeadTailProperties
  <2>4. DOMAIN Tail(m) = 1..Len(m) - 1
    BY <1>1, <2>1, <2>3
  <2>5. \A i \in DOMAIN Tail(m) : i + 1 \in DOMAIN m
    BY <1>1, <2>4
  <2>6. \A i, j \in DOMAIN Tail(m) : Tail(m)[i].key = Tail(m)[j].key => i = j
    <3>1. TAKE i, j \in DOMAIN Tail(m)
    <3>2. Tail(m)[i] = m[i + 1] /\ Tail(m)[j] = m[j + 1]
      BY <2>3, <2>4
    <3>3. m[i + 1].key = m[j + 1].key => i + 1 = j + 1
      BY <2>5 DEF IsMap
    <3>4. i \in Int /\ j \in Int
      BY <1>1, <2>4
    <3> QED BY <3>2, <3>3, <3>4
  <2>7. Within(Tail(m), m)
    BY <2>3, <2>4, <2>5 DEF Within
  <2> QED BY <1>1, <1>2, <1>3, <2>2, <2>3, <2>6, <2>7 DEF IsMap
<1>4. CASE ~(Len(m) >= maxSize)
  BY <1>1, <1>2, <1>4 DEF WithRoom, Within
<1> QED BY <1>3, <1>4

(* set: the new entry, and beside it only old entries with other keys. *)
LEMMA SetKeepsMap ==
    ASSUME NEW E, NEW m, IsMap(m, E), Len(m) <= maxSize,
           NEW k, NEW v, NEW t, [key |-> k, value |-> v, timestamp |-> t] \in E
    PROVE  LET n == AfterSet(m, k, v, t)
               e == [key |-> k, value |-> v, timestamp |-> t]
           IN  /\ IsMap(n, E) /\ Len(n) <= maxSize
               /\ \A i \in DOMAIN n :
                     \/ n[i] = e
                     \/ n[i].key # k /\ \E j \in DOMAIN m : n[i] = m[j]
<1> DEFINE e == [key |-> k, value |-> v, timestamp |-> t]
           n == AfterSet(m, k, v, t)
<1>1. m \in Seq(E) /\ Len(m) \in Nat /\ DOMAIN m = 1..Len(m) /\ e.key = k
  BY DEF IsMap
<1>2. CASE has(m, k)
  <2> DEFINE p == PositionOf(m, k)
  <2>1. p \in DOMAIN m /\ m[p].key = k
    BY <1>2, PositionIsThere
  <2>2. n = [m EXCEPT ![p] = e]
    BY <1>2 DEF AfterSet
  <2> HIDE DEF n, p, e
  <2>3. n \in Seq(E) /\ Len(n) = Len(m) /\ DOMAIN n = DOMAIN m
    BY <1>1, <2>1, <2>2 DEF e
  <2>4. \A i \in DOMAIN n : n[i] = IF i = p THEN e ELSE m[i]
    BY <1>1, <2>1, <2>2, <2>3
  <2>5. \A i \in DOMAIN n : i # p => m[i].key # k
    BY <2>1, <2>3 DEF IsMap
  <2>6. \A i, j \in DOMAIN n : n[i].key = n[j].key => i = j
    BY <1>1, <2>1, <2>3, <2>4, <2>5 DEF IsMap
  <2> QED BY <2>3, <2>4, <2>5, <2>6 DEF IsMap, e, n
<1>3. CASE ~has(m, k)
  <2> DEFINE w == WithRoom(m, k)
  <2>1. IsMap(w, E) /\ Len(w) < maxSize /\ Within(w, m)
    BY <1>3, RoomKeepsMap
  <2>2. n = Append(w, e)
    BY <1>3 DEF AfterSet
  <2>3. \A i \in DOMAIN m : m[i].key # k
    BY <1>3 DEF has, Positions
  <2> HIDE DEF n, w, e
  <2>4. w \in Seq(E) /\ Len(w) \in Nat /\ DOMAIN w = 1..Len(w)
    BY <2>1 DEF IsMap
  <2>5. /\ n \in Seq(E) /\ Len(n) = Len(w) + 1
        /\ \A i \in 1..Len(w) : n[i] = w[i]
        /\ n[Len(w) + 1] = e
    BY <2>2, <2>4, AppendProperties DEF e
  <2>6. DOMAIN n = 1..Len(w) + 1
    BY <2>4, <2>5
  <2>7. \A i \in DOMAIN w : w[i].key # k
    BY <2>1, <2>3 DEF Within
  <2>8. \A i \in DOMAIN n : IF i = Len(w) + 1 THEN n[i] = e ELSE i \in DOMAIN w /\ n[i] = w[i]
    BY <2>4, <2>5, <2>6
  <2>9. \A i, j \in DOMAIN n : n[i].key = n[j].key => i = j
    BY <1>1, <2>1, <2>7, <2>8 DEF IsMap
  <2>10. maxSize \in Nat
    BY CacheAssumption DEF CacheAssumption
  <2>11. \A i \in DOMAIN n : n[i] = e \/ (n[i].key # k /\ \E j \in DOMAIN m : n[i] = m[j])
    BY <2>1, <2>7, <2>8 DEF Within
  <2> QED BY <2>1, <2>4, <2>5, <2>9, <2>10, <2>11 DEF IsMap, n, e
<1> QED BY <1>2, <1>3

-----------------------------------------------------------------------------
Entry == [key : Keys, value : Values, timestamp : Nat]

(* A key whose entry is gone or expired stays without an answer while the  *)
(* entries under it are only entries there were, and time does not go back.*)
LEMMA GoneStaysGone ==
    ASSUME NEW m, IsMap(m, Entry), NEW n, NEW k, NEW t \in Nat, NEW u \in Nat, t <= u,
           \A i \in DOMAIN n : n[i].key = k => \E j \in DOMAIN m : n[i] = m[j],
           Got(m, k, t) = {}
    PROVE  Got(n, k, u) = {}
<1> SUFFICES ASSUME has(n, k), ~Expired(n, k, u) PROVE FALSE
  BY DEF Got
<1> DEFINE e == EntryOf(n, k)
<1>1. PositionOf(n, k) \in DOMAIN n /\ e.key = k
  BY PositionIsThere DEF EntryOf
<1>2. PICK j \in DOMAIN m : e = m[j]
  BY <1>1 DEF EntryOf
<1>3. has(m, k)
  BY <1>1, <1>2 DEF has, Positions
<1>4. PositionOf(m, k) = j
  BY <1>1, <1>2, <1>3, PositionIsThere DEF IsMap
<1>5. EntryOf(m, k) = e
  BY <1>2, <1>4 DEF EntryOf
<1>6. e.timestamp \in Nat
  <2>1. m[j] \in Entry
    BY <1>2 DEF IsMap
  <2> QED BY <1>2, <2>1 DEF Entry
<1>7. Expired(m, k, t)
  BY <1>3 DEF Got
<1>8. t - e.timestamp > staleMs /\ ~(u - e.timestamp > staleMs)
  BY <1>3, <1>5, <1>7 DEF Expired
<1> QED BY <1>6, <1>8, CacheAssumption DEF CacheAssumption

(* A hit can only be the last write if every entry is, not only the next   *)
(* one read; and entries are, because a key has one entry at most.         *)
StoreInv ==
    /\ IsMap(store, Entry)
    /\ Len(store) <= maxSize
    /\ now \in Nat
    /\ written \in [Keys -> SUBSET [value : Values, at : Nat]]
    /\ \A i \in DOMAIN store :
          [value |-> store[i].value, at |-> store[i].timestamp] \in written[store[i].key]
    /\ \A k \in lost : Got(store, k, now) = {}

(* The new cache satisfies the invariant. *)
LEMMA StoreInit == CacheInit => StoreInv
<1> SUFFICES ASSUME CacheInit PROVE StoreInv
  OBVIOUS
<1>1. store = <<>> /\ now = 0 /\ written = [k \in Keys |-> {}]
  BY DEF CacheInit
<1>2. written \in [Keys -> SUBSET [value : Values, at : Nat]]
  BY <1>1
<1>3. \A k : Got(store, k, now) = {}
  BY <1>1, EmptyMap DEF Got, has, Positions
<1> QED BY <1>1, <1>2, <1>3, EmptyMap DEF StoreInv

(* An entry of a sub-Map is one of the Map, under the same key. *)
LEMMA WithinKeepsValues ==
    ASSUME StoreInv, NEW m, Within(m, store)
    PROVE  \A i \in DOMAIN m :
              [value |-> m[i].value, at |-> m[i].timestamp] \in written[m[i].key]
  BY DEF StoreInv, Within

(* get, set, clear and the passing of time preserve it. *)
LEMMA StoreNext == StoreInv /\ [CacheNext]_cacheVars => StoreInv'
<1> SUFFICES ASSUME StoreInv, [CacheNext]_cacheVars PROVE StoreInv'
  OBVIOUS
<1>1. /\ IsMap(store, Entry) /\ Len(store) <= maxSize /\ now \in Nat
      /\ written \in [Keys -> SUBSET [value : Values, at : Nat]]
      /\ Len(store) \in Nat /\ maxSize \in Nat
      /\ \A k \in lost : Got(store, k, now) = {}
  BY CacheAssumption DEF StoreInv, IsMap, CacheAssumption
<1>2. ASSUME NEW k \in Keys, get(k) PROVE StoreInv'
  <2> DEFINE m == AfterGet(store, k, now)
  <2>1. store' = m /\ lost' = lost \cup Missing(m, now) /\ now' = now /\ written' = written
    BY <1>2 DEF get
  <2>2. IsMap(m, Entry) /\ Len(m) <= Len(store) /\ Within(m, store)
    BY <1>1, GetKeepsMap
  <2> HIDE DEF m
  <2>3. \A i \in DOMAIN m : [value |-> m[i].value, at |-> m[i].timestamp] \in written[m[i].key]
    BY <2>2, WithinKeepsValues
  <2>4. Len(m) <= maxSize
    BY <1>1, <2>2 DEF IsMap
  <2>5. ASSUME NEW j \in lost' PROVE Got(m, j, now) = {}
    <3>1. CASE j \in lost
      <4>1. Got(store, j, now) = {}
        BY <1>1, <3>1
      <4>2. \A i \in DOMAIN m : m[i].key = j => \E l \in DOMAIN store : m[i] = store[l]
        BY <2>2 DEF Within
      <4>3. now <= now
        BY <1>1
      <4> QED BY <1>1, <4>1, <4>2, <4>3, GoneStaysGone
    <3>2. CASE j \in Missing(m, now)
      BY <3>2 DEF Missing
    <3> QED BY <2>1, <3>1, <3>2
  <2> QED BY <1>1, <2>1, <2>2, <2>3, <2>4, <2>5 DEF StoreInv
<1>3. ASSUME NEW k \in Keys, NEW v \in Values, set(k, v) PROVE StoreInv'
  <2> DEFINE e == [key |-> k, value |-> v, timestamp |-> now]
             n == AfterSet(store, k, v, now)
  <2>1. /\ store' = n /\ now' = now
        /\ lost' = (lost \ {k}) \cup Missing(n, now)
        /\ written' = [written EXCEPT ![k] = {[value |-> v, at |-> now]}]
    BY <1>3 DEF set
  <2>2. e \in Entry
    BY <1>1 DEF Entry
  <2>3. /\ IsMap(n, Entry) /\ Len(n) <= maxSize
        /\ \A i \in DOMAIN n :
              n[i] = e \/ (n[i].key # k /\ \E j \in DOMAIN store : n[i] = store[j])
    BY <1>1, <2>2, SetKeepsMap
  <2> HIDE DEF n
  <2>4. written' \in [Keys -> SUBSET [value : Values, at : Nat]]
    BY <1>1, <2>1
  <2>5. \A i \in DOMAIN n : [value |-> n[i].value, at |-> n[i].timestamp] \in written'[n[i].key]
    <3>1. TAKE i \in DOMAIN n
    <3>2. CASE n[i] = e
      BY <1>1, <2>1, <3>2
    <3>3. CASE n[i].key # k /\ \E j \in DOMAIN store : n[i] = store[j]
      <4>1. [value |-> n[i].value, at |-> n[i].timestamp] \in written[n[i].key]
        BY <3>3 DEF StoreInv
      <4>2. n[i].key \in Keys
        <5>1. n \in Seq(Entry)
          BY <2>3 DEF IsMap
        <5>2. n[i] \in Entry
          BY <5>1
        <5> QED BY <5>2 DEF Entry
      <4> QED BY <1>1, <2>1, <3>3, <4>1, <4>2
    <3> QED BY <2>3, <3>2, <3>3
  <2>6. ASSUME NEW j \in lost' PROVE Got(n, j, now) = {}
    <3>1. CASE j \in lost /\ j # k
      <4>1. Got(store, j, now) = {}
        BY <1>1, <3>1
      <4>2. \A i \in DOMAIN n : n[i].key = j => \E l \in DOMAIN store : n[i] = store[l]
        BY <2>3, <3>1
      <4>3. now <= now
        BY <1>1
      <4> QED BY <1>1, <4>1, <4>2, <4>3, GoneStaysGone
    <3>2. CASE j \in Missing(n, now)
      BY <3>2 DEF Missing
    <3> QED BY <2>1, <3>1, <3>2
  <2> QED BY <1>1, <2>1, <2>3, <2>4, <2>5, <2>6 DEF StoreInv
<1>4. CASE clear
  <2>1. store' = <<>> /\ now' = now /\ written' = [k \in Keys |-> {}]
    BY <1>4 DEF clear
  <2>2. written' \in [Keys -> SUBSET [value : Values, at : Nat]]
    BY <2>1
  <2>3. \A k : Got(<<>>, k, now) = {}
    BY EmptyMap DEF Got, has, Positions
  <2> QED BY <1>1, <2>1, <2>2, <2>3, EmptyMap DEF StoreInv
<1>5. CASE CacheTick
  <2>1. /\ store' = store /\ now' = now + 1 /\ written' = written
        /\ lost' = lost \cup Missing(store, now + 1)
    BY <1>5 DEF CacheTick
  <2>2. now + 1 \in Nat /\ now <= now + 1
    BY <1>1
  <2>3. ASSUME NEW j \in lost' PROVE Got(store, j, now + 1) = {}
    <3>1. CASE j \in lost
      BY <1>1, <2>2, <3>1, GoneStaysGone
    <3>2. CASE j \in Missing(store, now + 1)
      BY <3>2 DEF Missing
    <3> QED BY <2>1, <3>1, <3>2
  <2> QED BY <1>1, <2>1, <2>2, <2>3 DEF StoreInv
<1>6. CASE UNCHANGED cacheVars
  BY <1>6 DEF StoreInv, cacheVars
<1> QED BY <1>2, <1>3, <1>4, <1>5, <1>6 DEF CacheNext

(* cache.ts:31-68: whatever is set, read, evicted and cleared in whatever  *)
(* order, the cache keeps each key once within its size, a hit is the      *)
(* value last set for its key within staleMs, and a key whose entry was    *)
(* evicted, expired or cleared has no answer before it is set again.       *)
THEOREM HitsAreLastWrites == CacheSpec => []CacheServesLastWrites
<1>1. ASSUME StoreInv PROVE CacheServesLastWrites
  <2>1. ASSUME NEW k \in Keys, NEW hit \in Got(store, k, now)
        PROVE  /\ k \notin lost
               /\ \E w \in written[k] :
                     /\ hit.value = w.value
                     /\ now - w.at <= staleMs
                     /\ hit.stale <=> now - w.at > ttlMs
    <3>1. IsMap(store, Entry)
      BY <1>1 DEF StoreInv
    <3>2. PICK i \in DOMAIN store :
             /\ store[i].key = k /\ store[i].value = hit.value
             /\ ~(now - store[i].timestamp > staleMs)
             /\ hit.stale = (now - store[i].timestamp > ttlMs)
      BY <3>1, HitIsAnEntry
    <3> DEFINE w == [value |-> store[i].value, at |-> store[i].timestamp]
    <3>3. w \in written[k]
      BY <1>1, <3>2 DEF StoreInv
    <3>4. store[i].timestamp \in Nat
      <4>1. store[i] \in Entry
        BY <3>1 DEF IsMap
      <4> QED BY <4>1 DEF Entry
    <3>5. now - store[i].timestamp <= staleMs
      BY <1>1, <3>2, <3>4, CacheAssumption DEF StoreInv, CacheAssumption
    <3>6. /\ w \in written[k] /\ hit.value = w.value
          /\ now - w.at <= staleMs /\ (hit.stale <=> now - w.at > ttlMs)
      BY <3>2, <3>3, <3>5
    <3>7. k \notin lost
      BY <1>1, <2>1 DEF StoreInv
    <3> QED BY <3>6, <3>7
  <2> QED BY <1>1, <2>1 DEF StoreInv, CacheServesLastWrites, IsMap
<1> QED BY <1>1, StoreInit, StoreNext, PTL DEF CacheSpec

-----------------------------------------------------------------------------
(* The retries.  The provers know nothing of powers, so what is needed of  *)
(* powers of two is taken from the number of subsets of an interval.       *)

(* 2^n counts the subsets of 1..n. *)
LEMMA PowerCounts ==
    ASSUME NEW n \in Nat
    PROVE  /\ IsFiniteSet(SUBSET (1..n))
           /\ Cardinality(SUBSET (1..n)) = 2 ^ n
           /\ 2 ^ n \in Nat
<1>1. IsFiniteSet(1..n) /\ Cardinality(1..n) = n
  BY FS_Interval
<1>2. IsFiniteSet(SUBSET (1..n)) /\ Cardinality(SUBSET (1..n)) = 2 ^ Cardinality(1..n)
  BY <1>1, FS_SUBSET
<1>3. Cardinality(SUBSET (1..n)) \in Nat
  BY <1>2, FS_CardinalityType
<1> QED BY <1>1, <1>2, <1>3

(* The empty interval has one subset. *)
LEMMA PowerOfZero == 2 ^ 0 = 1
<1>1. SUBSET (1..0) = {{}}
  OBVIOUS
<1>2. Cardinality({{}}) = 1
  BY FS_Singleton
<1> QED BY <1>1, <1>2, PowerCounts

(* The subsets of 1..n+1 that hold n+1 are as many as those that do not.    *)
LEMMA PowerDoubles ==
    ASSUME NEW n \in Nat
    PROVE  2 ^ (n + 1) = 2 ^ n + 2 ^ n
<1> DEFINE S == SUBSET (1..n)
           Larger == SUBSET (1..n + 1)
           T == Larger \ S
           f == [A \in S |-> A \cup {n + 1}]
<1>1. \A A \in S : n + 1 \notin A
  OBVIOUS
<1>2. \A A \in S : A \cup {n + 1} \in T
  OBVIOUS
<1>3. \A B \in T : n + 1 \in B /\ B \ {n + 1} \in S /\ (B \ {n + 1}) \cup {n + 1} = B
  OBVIOUS
<1>4. f \in Bijection(S, T)
  <2>1. f \in [S -> T]
    BY <1>2
  <2>2. \A A, B \in S : f[A] = f[B] => A = B
    BY <1>1
  <2>3. \A B \in T : f[B \ {n + 1}] = B
    BY <1>3
  <2>4. \A B \in T : \E A \in S : f[A] = B
    BY <1>3, <2>3
  <2> QED BY <2>1, <2>2, <2>4, Zenon DEF Bijection, Injection, Surjection, IsInjective
<1>5. Cardinality(T) = Cardinality(S)
  BY <1>4, PowerCounts, FS_Bijection DEF ExistsBijection
<1>6. n + 1 \in Nat
  OBVIOUS
<1>7. Cardinality(T) = Cardinality(Larger) - Cardinality(Larger \cap S)
  <2>1. IsFiniteSet(Larger)
    BY <1>6, PowerCounts
  <2> HIDE DEF S, Larger
  <2> QED BY <2>1, FS_Difference
<1>8. Larger \cap S = S
  OBVIOUS
<1>9. Cardinality(Larger) = 2 ^ (n + 1) /\ 2 ^ (n + 1) \in Nat
  BY <1>6, PowerCounts
<1>10. Cardinality(S) = 2 ^ n /\ 2 ^ n \in Nat
  BY PowerCounts
<1> HIDE DEF S, Larger
<1> QED BY <1>5, <1>7, <1>8, <1>9, <1>10

(* A higher power of two is no smaller. *)
LEMMA PowerGrows ==
    ASSUME NEW n \in Nat, NEW k \in Nat, n <= k
    PROVE  2 ^ n <= 2 ^ k
<1>1. 1..n \subseteq 1..k
  OBVIOUS
<1> DEFINE S == SUBSET (1..n)
           Larger == SUBSET (1..k)
<1>2. S \subseteq Larger
  BY <1>1
<1>3. IsFiniteSet(Larger) /\ Cardinality(Larger) = 2 ^ k /\ Cardinality(S) = 2 ^ n
  BY PowerCounts
<1> HIDE DEF S, Larger
<1>4. Cardinality(S) <= Cardinality(Larger)
  BY <1>2, <1>3, FS_Subset
<1> QED BY <1>3, <1>4

-----------------------------------------------------------------------------
(* The longest the first n attempts and the delays after them take. *)
Spent(n) == n * timeout + baseDelay * (2 ^ n - 1)

(* Delays and what they add up to are natural numbers. *)
LEMMA DelayType == ASSUME NEW n \in Nat PROVE Delay(n) \in Nat /\ Spent(n) \in Nat
<1>1. 2 ^ n \in Nat /\ 2 ^ n >= 1
  <2>1. 2 ^ n \in Nat
    BY PowerCounts
  <2>2. 0 \in Nat /\ 0 <= n
    OBVIOUS
  <2>3. 2 ^ 0 <= 2 ^ n
    BY <2>2, PowerGrows
  <2> QED BY <2>1, <2>3, PowerOfZero
<1>2. \A x, y \in Nat : x * y \in Nat
  OBVIOUS
<1> DEFINE p == 2 ^ n
<1>3. p - 1 \in Nat
  BY <1>1
<1>4. baseDelay * p \in Nat /\ baseDelay * (p - 1) \in Nat /\ n * timeout \in Nat
  <2>1. baseDelay \in Nat /\ timeout \in Nat /\ p \in Nat
    BY <1>1, FetchAssumption DEF FetchAssumption
  <2> HIDE DEF p
  <2>2. baseDelay * p \in Nat
    BY <1>2, <2>1
  <2>3. baseDelay * (p - 1) \in Nat
    BY <1>2, <1>3, <2>1
  <2>4. n * timeout \in Nat
    BY <1>2, <2>1
  <2> QED BY <2>2, <2>3, <2>4
<1>5. n * timeout + baseDelay * (p - 1) \in Nat
  <2> HIDE DEF p
  <2> DEFINE a == n * timeout
             b == baseDelay * (p - 1)
  <2>1. a \in Nat /\ b \in Nat
    BY <1>4
  <2> HIDE DEF a, b
  <2>2. a + b \in Nat
    BY <2>1
  <2> QED BY <2>2 DEF a, b
<1> QED BY <1>4, <1>5 DEF Delay, Spent

(* One more attempt takes its timeout and the delay after it. *)
LEMMA SpentNext ==
    ASSUME NEW n \in Nat
    PROVE  Spent(n + 1) = Spent(n) + timeout + Delay(n)
<1> DEFINE p == 2 ^ n
           q == 2 ^ (n + 1)
<1>1. p \in Nat /\ q = p + p
  BY PowerCounts, PowerDoubles
<1>2. (n + 1) * timeout + baseDelay * (q - 1)
          = n * timeout + baseDelay * (p - 1) + timeout + baseDelay * p
  <2> HIDE DEF p, q
  <2> QED BY <1>1, FetchAssumption DEF FetchAssumption
<1> QED BY <1>2 DEF Spent, Delay

(* What any attempt may have spent leaves room for its own timeout. *)
LEMMA SpentWithinBudget ==
    ASSUME NEW n \in 0..retries
    PROVE  Spent(n) + timeout <= Budget
<1> DEFINE p == 2 ^ n
           q == 2 ^ retries
<1>1. p \in Nat /\ q \in Nat /\ p <= q
  <2>1. n \in Nat /\ retries \in Nat /\ n <= retries
    BY FetchAssumption DEF FetchAssumption
  <2>2. p \in Nat /\ q \in Nat
    BY <2>1, PowerCounts
  <2>3. p <= q
    BY <2>1, PowerGrows
  <2> QED BY <2>2, <2>3
<1>2. baseDelay * (p - 1) <= baseDelay * (q - 1)
  <2> HIDE DEF p, q
  <2> QED BY <1>1, FetchAssumption DEF FetchAssumption
<1>3. n * timeout + timeout <= (retries + 1) * timeout
  BY FetchAssumption DEF FetchAssumption
<1>4. /\ n * timeout \in Int /\ (retries + 1) * timeout \in Int /\ timeout \in Int
      /\ baseDelay * (p - 1) \in Int /\ baseDelay * (q - 1) \in Int
  <2> HIDE DEF p, q
  <2> QED BY <1>1, FetchAssumption DEF FetchAssumption
<1>5. n * timeout + baseDelay * (p - 1) + timeout
          <= (retries + 1) * timeout + baseDelay * (q - 1)
  <2> HIDE DEF p, q
  <2> DEFINE a == n * timeout
             b == (retries + 1) * timeout
             c == baseDelay * (p - 1)
             d == baseDelay * (q - 1)
  <2>1. a + timeout <= b /\ c <= d /\ a \in Int /\ b \in Int /\ c \in Int /\ d \in Int
    BY <1>2, <1>3, <1>4
  <2> HIDE DEF a, b, c, d
  <2>2. a + c + timeout <= b + d
    BY <2>1, <1>4
  <2> QED BY <2>2 DEF a, b, c, d
<1> QED BY <1>5 DEF Spent, Budget

-----------------------------------------------------------------------------
(* WithinBudget is not inductive: what is left of the budget depends on the *)
(* attempt and on how long the present timer has run.                       *)
BudgetInv ==
    /\ phase \in {"fetching", "backoff", "resolved", "rejected"}
    /\ attempt \in 0..retries
    /\ waited \in Nat /\ elapsed \in Nat
    /\ phase = "fetching" => waited <= timeout /\ elapsed <= Spent(attempt) + waited
    /\ phase = "backoff" =>
          /\ attempt < retries /\ waited <= Delay(attempt)
          /\ elapsed <= Spent(attempt) + timeout + waited
    /\ Settled => elapsed <= Spent(attempt) + timeout

(* A call begins with nothing spent. *)
LEMMA BudgetInit == RetryInit => BudgetInv
<1> SUFFICES ASSUME RetryInit PROVE BudgetInv
  OBVIOUS
<1>1. Spent(0) \in Nat
  BY DelayType
<1> QED BY <1>1, FetchAssumption DEF RetryInit, BudgetInv, Settled, FetchAssumption

(* Every step of a call preserves the invariant. *)
LEMMA BudgetNext == BudgetInv /\ [RetryNext]_retryVars => BudgetInv'
<1> SUFFICES ASSUME BudgetInv, [RetryNext]_retryVars PROVE BudgetInv'
  OBVIOUS
<1> USE FetchAssumption DEF FetchAssumption
<1>1. attempt \in Nat /\ Delay(attempt) \in Nat /\ Spent(attempt) \in Nat
  BY DelayType DEF BudgetInv
<1>2. ASSUME NEW status, AttemptEnds(status) PROVE BudgetInv'
  <2>1. phase = "fetching" /\ waited <= timeout /\ elapsed <= Spent(attempt) + waited
    BY <1>2 DEF AttemptEnds, BudgetInv
  <2>2. waited' = 0 /\ attempt' = attempt /\ elapsed' = elapsed
    BY <1>2 DEF AttemptEnds
  <2>3. /\ phase' \in {"resolved", "backoff", "rejected"}
        /\ phase' = "backoff" => attempt < retries
    BY <1>2 DEF AttemptEnds, AfterAttempt
  <2>4. Spent(attempt)' = Spent(attempt) /\ Delay(attempt)' = Delay(attempt)
    BY <2>2 DEF Spent, Delay
  <2> QED BY <1>1, <2>1, <2>2, <2>3, <2>4 DEF BudgetInv, Settled
<1>3. CASE responds \/ networkError \/ abort
  BY <1>2, <1>3 DEF responds, networkError, abort
<1>4. CASE retry
  <2>1. /\ phase = "backoff" /\ waited = Delay(attempt) /\ attempt < retries
        /\ elapsed <= Spent(attempt) + timeout + waited
    BY <1>4 DEF retry, BudgetInv
  <2>2. phase' = "fetching" /\ attempt' = attempt + 1 /\ waited' = 0 /\ elapsed' = elapsed
    BY <1>4 DEF retry
  <2>3. Spent(attempt)' = Spent(attempt + 1)
    BY <2>2 DEF Spent
  <2>4. Spent(attempt + 1) = Spent(attempt) + timeout + Delay(attempt)
    BY <1>1, SpentNext
  <2> QED BY <1>1, <2>1, <2>2, <2>3, <2>4 DEF BudgetInv, Settled
<1>5. CASE TimerTick
  <2>1. phase' = phase /\ attempt' = attempt /\ waited' = waited + 1 /\ elapsed' = elapsed + 1
    BY <1>5 DEF TimerTick
  <2>2. Spent(attempt)' = Spent(attempt) /\ Delay(attempt)' = Delay(attempt)
    BY <2>1 DEF Spent, Delay
  <2> QED BY <1>1, <1>5, <2>1, <2>2 DEF TimerTick, BudgetInv, Settled
<1>6. CASE UNCHANGED retryVars
  <2>1. Spent(attempt)' = Spent(attempt) /\ Delay(attempt)' = Delay(attempt)
    BY <1>6 DEF retryVars, Spent, Delay
  <2> QED BY <1>6, <2>1 DEF retryVars, BudgetInv, Settled
<1> QED BY <1>3, <1>4, <1>5, <1>6 DEF RetryNext

(* The invariant keeps a call within its budget. *)
LEMMA BudgetHolds == BudgetInv => WithinBudget
<1> SUFFICES ASSUME BudgetInv PROVE WithinBudget
  OBVIOUS
<1>1. /\ Spent(attempt) \in Nat /\ Delay(attempt) \in Nat /\ attempt \in 0..retries
      /\ Spent(attempt) + timeout <= Budget
  BY DelayType, SpentWithinBudget, FetchAssumption DEF BudgetInv, FetchAssumption
<1>2. Budget \in Int
  <2>1. 2 ^ retries \in Int
    BY PowerCounts, FetchAssumption DEF FetchAssumption
  <2> DEFINE q == 2 ^ retries
  <2>2. (retries + 1) * timeout + baseDelay * (q - 1) \in Int
    <3> HIDE DEF q
    <3> QED BY <2>1, FetchAssumption DEF FetchAssumption, q
  <2> QED BY <2>2 DEF Budget
<1>3. phase = "backoff" => Spent(attempt + 1) + timeout <= Budget
  BY SpentWithinBudget, FetchAssumption DEF BudgetInv, FetchAssumption
<1>4. Spent(attempt + 1) = Spent(attempt) + timeout + Delay(attempt)
  BY <1>1, SpentNext
<1> QED BY <1>1, <1>2, <1>3, <1>4, FetchAssumption
       DEF BudgetInv, WithinBudget, Settled, FetchAssumption

(* fetch-retry.ts:20: a call never outlasts its budget. *)
THEOREM CallsEndInBudget == RetrySpec => []WithinBudget
  BY BudgetInit, BudgetNext, BudgetHolds, PTL DEF RetrySpec

-----------------------------------------------------------------------------
(* The rates of the API clients *)

(* An entry is set when its fetch ends, so it holds a value sampled at     *)
(* most one fetch before its timestamp.                                    *)
RateEntry ==
    {e \in [key : Caches, value : Nat, timestamp : Nat] :
        e.value <= e.timestamp /\ e.timestamp - e.value <= MaxFetch}

(* A hit at time t that the windows allow. *)
HitBy(h, t) ==
    /\ h.value <= h.timestamp /\ h.timestamp - h.value <= MaxFetch
    /\ h.timestamp <= t /\ t - h.timestamp <= staleMs

Reading ==
    {r \in [how : {"fetched", "fresh", "stale"}, value : Nat, at : Nat] :
        r.at - r.value <= MaxAge(r.how)}

Flight ==
    {f \in [began : Nat, cached : SUBSET [value : Nat, stale : BOOLEAN, timestamp : Nat]] :
        \A h \in f.cached : HitBy(h, f.began)}

(* Every entry of m was set by time t. *)
Past(m, t) == \A i \in DOMAIN m : m[i].timestamp <= t

(* ServedAge alone is not inductive: a stale answer is as old as the entry *)
(* read before the fetch was, and the fetch adds to it.                    *)
RateInv ==
    /\ source \in [Parts -> Caches]
    /\ entries \in [Caches -> Seq(RateEntry)]
    /\ \A s \in Caches : IsMap(entries[s], RateEntry) /\ Len(entries[s]) <= maxSize
    /\ \A s \in Caches : Past(entries[s], time)
    /\ time \in Nat
    /\ call \in [Queries -> [Parts -> SUBSET Flight]]
    /\ \A q \in Queries, p \in Parts : \A f \in call[q][p] :
          f.began <= time /\ time - f.began <= MaxFetch
    /\ reading \in [Queries -> [Parts -> SUBSET Reading]]

(* The windows, the bound on a fetch and the size are natural numbers. *)
LEMMA WindowTypes ==
    ttlMs \in Nat /\ staleMs \in Nat /\ MaxFetch \in Nat /\ maxSize \in Nat
  BY CacheAssumption, ClientAssumption DEF CacheAssumption, ClientAssumption

(* How old a hit may be. *)
LEMMA HitAge ==
    ASSUME RateInv, NEW p \in Parts
    PROVE  \A h \in Cached(p) :
              /\ h \in [value : Nat, stale : BOOLEAN, timestamp : Nat]
              /\ HitBy(h, time)
              /\ ~h.stale => time - h.value <= ttlMs + MaxFetch
<1> DEFINE s == source[p]
           m == entries[s]
<1>1. s \in Caches /\ IsMap(m, RateEntry) /\ time \in Nat
  BY DEF RateInv
<1> SUFFICES ASSUME NEW h \in Cached(p)
             PROVE  /\ h \in [value : Nat, stale : BOOLEAN, timestamp : Nat]
                    /\ HitBy(h, time)
                    /\ ~h.stale => time - h.value <= ttlMs + MaxFetch
  OBVIOUS
<1>2. h \in Got(m, s, time)
  BY DEF Cached
<1>3. PICK i \in DOMAIN m :
         /\ m[i].value = h.value /\ m[i].timestamp = h.timestamp
         /\ ~(time - m[i].timestamp > staleMs)
         /\ h.stale = (time - m[i].timestamp > ttlMs)
  BY <1>1, <1>2, HitIsAnEntry
<1>4. m[i] \in RateEntry
  BY <1>1 DEF IsMap
<1>5. /\ h.value \in Nat /\ h.timestamp \in Nat /\ h.timestamp - h.value <= MaxFetch
      /\ h.value <= h.timestamp /\ h.timestamp <= time
  BY <1>1, <1>3, <1>4 DEF RateEntry, RateInv, Past
<1>6. h \in [value : Nat, stale : BOOLEAN, timestamp : Nat]
  <2>1. \E e : h = [value |-> e.value, stale |-> time - e.timestamp > ttlMs,
                    timestamp |-> e.timestamp]
    BY <1>2 DEF Got
  <2>2. h.stale \in BOOLEAN
    BY <1>3
  <2> QED BY <1>5, <2>1, <2>2
<1>7. time - h.timestamp <= staleMs /\ (~h.stale => time - h.timestamp <= ttlMs)
  <2>1. ~(time - h.timestamp > staleMs)
    BY <1>3
  <2>2. ~h.stale => ~(time - h.timestamp > ttlMs)
    BY <1>3
  <2>3. time - h.timestamp \in Int
    BY <1>1, <1>5
  <2> QED BY <2>1, <2>2, <2>3, WindowTypes
<1> QED BY <1>1, <1>5, <1>6, <1>7, WindowTypes DEF HitBy

(* A result of an age its kind allows is a reading. *)
LEMMA ResultIsReading ==
    ASSUME RateInv, NEW how \in {"fetched", "fresh", "stale"}, NEW v \in Nat,
           time - v <= MaxAge(how)
    PROVE  Result(how, v) \subseteq Reading
<1>1. time \in Nat
  BY DEF RateInv
<1> QED BY <1>1 DEF Result, Reading

(* With empty caches nothing is old. *)
LEMMA RateInit == ClientInit => RateInv
<1> SUFFICES ASSUME ClientInit PROVE RateInv
  OBVIOUS
<1>1. source \in [Parts -> Caches]
  BY DEF ClientInit, Kamino, Lulo, Parts, Caches
<1>2. \A s \in Caches : entries[s] = <<>>
  BY DEF ClientInit
<1>3. \A s \in Caches : /\ IsMap(entries[s], RateEntry) /\ Len(entries[s]) <= maxSize
                        /\ Past(entries[s], time)
  BY <1>2, EmptyMap DEF Past
<1>4. entries \in [Caches -> Seq(RateEntry)]
  BY DEF ClientInit
<1>5. \A q \in Queries, p \in Parts : call[q][p] = {}
  BY DEF ClientInit
<1>6. /\ call \in [Queries -> [Parts -> SUBSET Flight]]
      /\ reading \in [Queries -> [Parts -> SUBSET Reading]]
      /\ time \in Nat
  BY DEF ClientInit
<1> QED BY <1>1, <1>3, <1>4, <1>5, <1>6 DEF RateInv

(* A query that is answered from the caches, or sets off fetches. *)
LEMMA AsksRates == ASSUME RateInv, NEW q \in Queries, asks(q) PROVE RateInv'
<1>1. /\ entries' = [s \in Caches |->
             IF s \in {source[p] : p \in Parts} THEN AfterGet(entries[s], s, time) ELSE entries[s]]
      /\ call' = [call EXCEPT ![q] = [p \in Parts |-> IF Fresh(p) = {} THEN Fetching(p) ELSE {}]]
      /\ reading' = [reading EXCEPT ![q] = [p \in Parts |->
             IF Fresh(p) = {} THEN @[p]
             ELSE Result("fresh", (CHOOSE e \in Fresh(p) : TRUE).value)]]
      /\ source' = source /\ time' = time
  BY DEF asks
<1>2. \A s \in Caches : /\ IsMap(entries'[s], RateEntry) /\ Len(entries'[s]) <= maxSize
                        /\ Past(entries'[s], time)
  <2>1. TAKE s \in Caches
  <2>2. /\ IsMap(entries[s], RateEntry) /\ Len(entries[s]) <= maxSize
        /\ Len(entries[s]) \in Nat /\ Past(entries[s], time)
    BY DEF RateInv, IsMap
  <2>3. /\ IsMap(AfterGet(entries[s], s, time), RateEntry)
        /\ Len(AfterGet(entries[s], s, time)) <= Len(entries[s])
        /\ Past(AfterGet(entries[s], s, time), time)
    BY <2>2, GetKeepsMap DEF Within, Past
  <2>4. Len(AfterGet(entries[s], s, time)) \in Nat
    BY <2>3 DEF IsMap
  <2>5. entries'[s] = entries[s] \/ entries'[s] = AfterGet(entries[s], s, time)
    BY <1>1
  <2> QED BY <2>2, <2>3, <2>4, <2>5, WindowTypes
<1>3. entries' \in [Caches -> Seq(RateEntry)]
  BY <1>1, <1>2 DEF IsMap
<1>4. \A p \in Parts : Fetching(p) \subseteq Flight
  <2>1. TAKE p \in Parts
  <2>2. time \in Nat
    BY DEF RateInv
  <2> QED BY <2>2, HitAge DEF Fetching, Flight
<1>5. call' \in [Queries -> [Parts -> SUBSET Flight]]
  BY <1>1, <1>4 DEF RateInv
<1>6. \A w \in Queries, p \in Parts : \A f \in call'[w][p] :
         f.began <= time' /\ time' - f.began <= MaxFetch
  <2>1. TAKE w \in Queries, p \in Parts
  <2>2. CASE w = q
    BY <1>1, <2>2, WindowTypes DEF RateInv, Fetching
  <2>3. CASE w # q
    BY <1>1, <2>3 DEF RateInv
  <2> QED BY <2>2, <2>3
<1>7. \A p \in Parts : Fresh(p) # {} =>
         Result("fresh", (CHOOSE e \in Fresh(p) : TRUE).value) \subseteq Reading
  <2>1. TAKE p \in Parts
  <2> DEFINE h == CHOOSE e \in Fresh(p) : TRUE
  <2>2. Fresh(p) # {} => h \in Cached(p) /\ ~h.stale
    BY DEF Fresh
  <2> HIDE DEF h
  <2>3. Fresh(p) # {} => h.value \in Nat /\ time - h.value <= ttlMs + MaxFetch
    BY <2>2, HitAge
  <2>4. Fresh(p) # {} => Result("fresh", h.value) \subseteq Reading
    BY <2>3, ResultIsReading DEF MaxAge
  <2> QED BY <2>4 DEF h
<1>8. reading' \in [Queries -> [Parts -> SUBSET Reading]]
  BY <1>1, <1>7 DEF RateInv
<1> QED BY <1>1, <1>2, <1>3, <1>5, <1>6, <1>8 DEF RateInv

(* The end of a fetch, for what it leaves of the calls in flight. *)
LEMMA FlightLands ==
    ASSUME RateInv, NEW q \in Queries, NEW p \in Parts,
           call' = [call EXCEPT ![q][p] = {}], time' = time
    PROVE  /\ call' \in [Queries -> [Parts -> SUBSET Flight]]
           /\ \A w \in Queries, r \in Parts : \A f \in call'[w][r] :
                 f.began <= time' /\ time' - f.began <= MaxFetch
<1>1. call \in [Queries -> [Parts -> SUBSET Flight]]
  BY DEF RateInv
<1>2. \A w \in Queries, r \in Parts : call'[w][r] \subseteq call[w][r]
  BY <1>1
<1>3. call' \in [Queries -> [Parts -> SUBSET Flight]]
  BY <1>1
<1> QED BY <1>2, <1>3 DEF RateInv

(* The last result of a part stays a reading. *)
LEMMA ResultKept ==
    ASSUME RateInv, NEW q \in Queries, NEW p \in Parts, NEW how, NEW v,
           Returns(q, p, how, v), Result(how, v) \subseteq Reading
    PROVE  reading' \in [Queries -> [Parts -> SUBSET Reading]]
  BY DEF RateInv, Returns

(* A value put in the cache within one fetch of its sample. *)
LEMMA RateCached ==
    ASSUME RateInv, NEW s \in Caches, NEW v \in Nat, v <= time, time - v <= MaxFetch,
           entries' = [entries EXCEPT ![s] = AfterSet(@, s, v, time)]
    PROVE  /\ entries' \in [Caches -> Seq(RateEntry)]
           /\ \A c \in Caches : /\ IsMap(entries'[c], RateEntry) /\ Len(entries'[c]) <= maxSize
                              /\ Past(entries'[c], time)
<1> DEFINE n == AfterSet(entries[s], s, v, time)
<1>1. [key |-> s, value |-> v, timestamp |-> time] \in RateEntry
  BY DEF RateInv, RateEntry
<1>2. IsMap(n, RateEntry) /\ Len(n) <= maxSize /\ Past(n, time)
  <2>1. /\ IsMap(n, RateEntry) /\ Len(n) <= maxSize
        /\ \A i \in DOMAIN n : \/ n[i] = [key |-> s, value |-> v, timestamp |-> time]
                              \/ \E j \in DOMAIN entries[s] : n[i] = entries[s][j]
    BY <1>1, SetKeepsMap DEF RateInv
  <2> HIDE DEF n
  <2>2. \A j \in DOMAIN entries[s] : entries[s][j].timestamp <= time
    BY DEF RateInv, Past
  <2>3. [key |-> s, value |-> v, timestamp |-> time].timestamp <= time
    BY DEF RateInv
  <2>4. \A i \in DOMAIN n : n[i].timestamp <= time
    BY <2>1, <2>2, <2>3
  <2> QED BY <2>1, <2>4 DEF Past
<1>3. \A c \in Caches : entries'[c] = IF c = s THEN n ELSE entries[c]
  BY DEF RateInv
<1> HIDE DEF n
<1>4. n \in Seq(RateEntry)
  BY <1>2 DEF IsMap
<1>5. entries' = [entries EXCEPT ![s] = n]
  BY DEF n
<1>6. entries' \in [Caches -> Seq(RateEntry)]
  BY <1>4, <1>5 DEF RateInv
<1> QED BY <1>2, <1>3, <1>6 DEF RateInv

(* A fetch that resolves. *)
LEMMA ResolvesRates ==
    ASSUME RateInv, NEW q \in Queries, NEW p \in Parts, resolves(q, p) PROVE RateInv'
<1>a. PICK f \in call[q][p] : \E sampled \in f.began..time :
         /\ entries' = [entries EXCEPT ![source[p]] = AfterSet(@, source[p], sampled, time)]
         /\ Returns(q, p, "fetched", sampled)
         /\ call' = [call EXCEPT ![q][p] = {}]
         /\ source' = source /\ time' = time
  BY DEF resolves
<1>1. PICK sampled \in f.began..time :
         /\ entries' = [entries EXCEPT ![source[p]] = AfterSet(@, source[p], sampled, time)]
         /\ Returns(q, p, "fetched", sampled)
         /\ call' = [call EXCEPT ![q][p] = {}]
         /\ source' = source /\ time' = time
  BY <1>a
<1>2. source[p] \in Caches /\ f.began \in Nat /\ time \in Nat /\ time - f.began <= MaxFetch
  BY DEF RateInv, Flight
<1>3. sampled \in Nat /\ sampled <= time /\ time - sampled <= MaxFetch
  BY <1>2, WindowTypes
<1>4. /\ entries' \in [Caches -> Seq(RateEntry)]
      /\ \A c \in Caches : /\ IsMap(entries'[c], RateEntry) /\ Len(entries'[c]) <= maxSize
                         /\ Past(entries'[c], time)
  BY <1>1, <1>2, <1>3, RateCached
<1>5. Result("fetched", sampled) \subseteq Reading
  BY <1>3, ResultIsReading DEF MaxAge
<1>6. reading' \in [Queries -> [Parts -> SUBSET Reading]]
  BY <1>1, <1>5, ResultKept
<1> QED BY <1>1, <1>4, <1>6, FlightLands DEF RateInv

(* A fetch that fails: its stale entry has aged by one more fetch. *)
LEMMA FailsRates ==
    ASSUME RateInv, NEW q \in Queries, NEW p \in Parts, fails(q, p) PROVE RateInv'
<1>1. PICK f \in call[q][p] :
         /\ \/ \E e \in f.cached : ServeStale(q, p, e)
            \/ f.cached = {} /\ UNCHANGED <<reading, answered, entries>>
         /\ call' = [call EXCEPT ![q][p] = {}]
         /\ source' = source /\ time' = time
  BY DEF fails
<1>2. /\ f \in Flight /\ f.began \in Nat /\ time \in Nat /\ time - f.began <= MaxFetch
      /\ \A e \in f.cached : e.value \in Nat /\ e.timestamp \in Nat /\ HitBy(e, f.began)
  BY DEF RateInv, Flight
<1>3. entries' = entries
  BY <1>1 DEF ServeStale
<1>4. reading' \in [Queries -> [Parts -> SUBSET Reading]]
  <2>1. CASE \E e \in f.cached : ServeStale(q, p, e)
    <3>1. PICK e \in f.cached : ServeStale(q, p, e)
      BY <2>1
    <3>2. e.value \in Nat /\ time - e.value <= staleMs + 2 * MaxFetch
      BY <1>2, WindowTypes DEF HitBy
    <3>3. Result("stale", e.value) \subseteq Reading
      BY <3>2, ResultIsReading DEF MaxAge
    <3> QED BY <3>1, <3>3, ResultKept DEF ServeStale
  <2>2. CASE UNCHANGED <<reading, answered, entries>>
    BY <2>2 DEF RateInv
  <2> QED BY <1>1, <2>1, <2>2
<1> QED BY <1>1, <1>3, <1>4, FlightLands DEF RateInv

(* Every step preserves the invariant. *)
LEMMA RateNext == RateInv /\ [ClientNext]_clientVars => RateInv'
<1> SUFFICES ASSUME RateInv, [ClientNext]_clientVars PROVE RateInv'
  OBVIOUS
<1>1. CASE clearCache
  <2>1. /\ entries' = [s \in Caches |->
               IF s \in {source[p] : p \in Parts} THEN <<>> ELSE entries[s]]
        /\ UNCHANGED <<source, time, call, reading, answered>>
    BY <1>1 DEF clearCache
  <2>2. IsMap(<<>>, RateEntry) /\ Len(<<>>) <= maxSize
    BY EmptyMap
  <2>3. \A s \in Caches : /\ IsMap(entries'[s], RateEntry) /\ Len(entries'[s]) <= maxSize
                          /\ Past(entries'[s], time)
    BY <2>1, <2>2 DEF RateInv, Past
  <2>4. entries' \in [Caches -> Seq(RateEntry)]
    BY <2>1, <2>3 DEF IsMap
  <2> QED BY <2>1, <2>3, <2>4 DEF RateInv
<1>2. CASE TimePasses
  <2>1. /\ time' = time + 1 /\ UNCHANGED <<source, entries, call, reading, answered>>
        /\ \A q \in Queries, p \in Parts : \A f \in call[q][p] : time - f.began < MaxFetch
    BY <1>2 DEF TimePasses, MayWait
  <2>2. \A q \in Queries, p \in Parts : \A f \in call[q][p] :
           f.began \in Nat /\ f.began <= time' /\ time' - f.began <= MaxFetch
    BY <2>1, WindowTypes DEF RateInv, Flight
  <2>3. \A s \in Caches : \A i \in DOMAIN entries[s] : entries[s][i].timestamp \in Nat
    <3>1. \A s \in Caches : \A i \in DOMAIN entries[s] : entries[s][i] \in RateEntry
      BY DEF RateInv, IsMap
    <3> QED BY <3>1 DEF RateEntry
  <2>4. \A s \in Caches : Past(entries'[s], time')
    BY <2>1, <2>3 DEF RateInv, Past
  <2> QED BY <2>1, <2>2, <2>4 DEF RateInv
<1>3. CASE UNCHANGED clientVars
  BY <1>3 DEF clientVars, RateInv
<1> QED BY <1>1, <1>2, <1>3, AsksRates, ResolvesRates, FailsRates DEF ClientNext

(* kamino-api.ts:63-97, lulo-api.ts: no rate is served older than its kind *)
(* allows, for any windows, any length of a fetch and any queries at once. *)
THEOREM RatesAreRecent == ClientSpec => []ServedAge
<1>1. RateInv => ServedAge
  BY DEF RateInv, Reading, ServedAge
<1> QED BY <1>1, RateInit, RateNext, PTL DEF ClientSpec

-----------------------------------------------------------------------------
(* No entry that part p can hit was set before the time v. *)
NoneBefore(p, v) ==
    LET m == entries[source[p]]
    IN  \A i \in DOMAIN m : m[i].key = source[p] => v <= m[i].timestamp

(* What part p of query q may still read, from its cache or from the stale *)
(* entry of its fetch, was set after its last result was sampled.          *)
Advances(q, p) ==
    /\ \A r, s \in reading[q][p] : r = s
    /\ \A r \in reading[q][p] : r.value <= time /\ NoneBefore(p, r.value)
    /\ \A f \in call[q][p] :
          /\ \A r \in reading[q][p] : r.value <= f.began
          /\ \A h \in f.cached :
                /\ NoneBefore(p, h.timestamp)
                /\ \A r \in reading[q][p] : r.value <= h.timestamp

AdvanceInv == \A q \in Queries, p \in Parts : Advances(q, p)

(* What a step may do to the readings of a part. *)
Onward(q, p) ==
    \A r \in reading[q][p], s \in reading'[q][p] : s.value >= r.value - MaxFetch

(* The entries of a cache that a part reads. *)
LEMMA PartEntries ==
    ASSUME RateInv, NEW p \in Parts
    PROVE  /\ source[p] \in Caches
           /\ IsMap(entries[source[p]], RateEntry) /\ Len(entries[source[p]]) <= maxSize
           /\ Past(entries[source[p]], time)
           /\ \A i \in DOMAIN entries[source[p]] : entries[source[p]][i].timestamp \in Nat
<1>1. /\ source[p] \in Caches
      /\ IsMap(entries[source[p]], RateEntry) /\ Len(entries[source[p]]) <= maxSize
      /\ Past(entries[source[p]], time)
  BY DEF RateInv
<1>2. \A i \in DOMAIN entries[source[p]] : entries[source[p]][i] \in RateEntry
  BY <1>1 DEF IsMap
<1> QED BY <1>1, <1>2 DEF RateEntry

(* Nothing set before a hit is left: the cache has its key once. *)
LEMMA HitIsTheEntry ==
    ASSUME RateInv, NEW p \in Parts, NEW h \in Cached(p)
    PROVE  /\ NoneBefore(p, h.timestamp)
           /\ \A v : NoneBefore(p, v) => v <= h.timestamp
<1> DEFINE m == entries[source[p]]
<1>1. IsMap(m, RateEntry) /\ \A i \in DOMAIN m : m[i].timestamp \in Nat
  BY PartEntries
<1>2. PICK i \in DOMAIN m : m[i].key = source[p] /\ m[i].timestamp = h.timestamp
  <2>1. h \in Got(m, source[p], time)
    BY DEF Cached
  <2> HIDE DEF m
  <2> QED BY <1>1, <2>1, HitIsAnEntry
<1>3. \A j \in DOMAIN m : m[j].key = source[p] => j = i
  BY <1>1, <1>2 DEF IsMap
<1> QED BY <1>1, <1>2, <1>3 DEF NoneBefore

(* Set earlier than what is left, set earlier than what is left. *)
LEMMA NoneBeforeEarlier ==
    ASSUME RateInv, NEW p \in Parts, NEW v \in Nat, NEW w \in Nat,
           v <= w, NoneBefore(p, w)
    PROVE  NoneBefore(p, v)
<1> DEFINE m == entries[source[p]]
<1>1. \A i \in DOMAIN m : m[i].timestamp \in Nat
  BY PartEntries
<1>2. \A i \in DOMAIN m : m[i].key = source[p] => w <= m[i].timestamp
  BY DEF NoneBefore
<1>3. \A i \in DOMAIN m : m[i].key = source[p] => v <= m[i].timestamp
  BY <1>1, <1>2
<1> QED BY <1>3 DEF NoneBefore

(* Dropping entries leaves it so. *)
LEMMA NoneBeforeWithin ==
    ASSUME NEW p \in Parts, NEW v, NoneBefore(p, v), source' = source,
           Within(entries'[source[p]], entries[source[p]])
    PROVE  NoneBefore(p, v)'
  BY DEF NoneBefore, Within

(* Setting a rate leaves it so, and replaces what its parts could hit. *)
LEMMA NoneBeforeSet ==
    ASSUME RateInv, NEW p \in Parts, NEW s \in Caches, NEW v \in Nat, NEW x \in Nat,
           v <= time, time - v <= MaxFetch, x <= time,
           source' = source, entries' = [entries EXCEPT ![s] = AfterSet(@, s, v, time)],
           source[p] = s \/ NoneBefore(p, x)
    PROVE  NoneBefore(p, x)'
<1>1. CASE source[p] # s
  <2>1. entries'[source[p]] = entries[source[p]] /\ source'[p] = source[p]
    BY <1>1 DEF RateInv
  <2> QED BY <1>1, <2>1 DEF NoneBefore
<1>2. CASE source[p] = s
  <2> DEFINE n == AfterSet(entries[s], s, v, time)
             e == [key |-> s, value |-> v, timestamp |-> time]
  <2>1. e \in RateEntry
    BY DEF RateInv, RateEntry
  <2>2. IsMap(entries[s], RateEntry) /\ Len(entries[s]) <= maxSize
    BY <1>2, PartEntries
  <2>3. \A i \in DOMAIN n : n[i] = e \/ n[i].key # s
    BY <2>1, <2>2, SetKeepsMap
  <2>4. entries'[s] = n /\ source'[p] = s
    BY <1>2 DEF RateInv
  <2> HIDE DEF n
  <2> QED BY <2>3, <2>4 DEF NoneBefore
<1> QED BY <1>1, <1>2

(* A part whose last result stays and whose fetch goes on or ends. *)
LEMMA KeepsAdvancing ==
    ASSUME RateInv, NEW q \in Queries, NEW p \in Parts, Advances(q, p),
           reading'[q][p] = reading[q][p], call'[q][p] \subseteq call[q][p],
           time <= time', time' \in Nat,
           \A x \in Nat : x <= time /\ NoneBefore(p, x) => NoneBefore(p, x)'
    PROVE  Advances(q, p)' /\ Onward(q, p)
<1>1. /\ time \in Nat
      /\ \A r \in reading[q][p] : r.value \in Nat
      /\ \A f \in call[q][p] : f.began <= time /\ f.began \in Nat
      /\ \A f \in call[q][p] : \A h \in f.cached : h.timestamp \in Nat /\ h.timestamp <= f.began
  BY DEF RateInv, Reading, Flight, HitBy
<1>2. \A r \in reading[q][p] : r.value <= time' /\ NoneBefore(p, r.value)'
  BY <1>1 DEF Advances
<1>3. \A f \in call[q][p] : \A h \in f.cached : NoneBefore(p, h.timestamp)'
  BY <1>1 DEF Advances
<1>4. Advances(q, p)'
  BY <1>2, <1>3 DEF Advances
<1>5. Onward(q, p)
  BY <1>1, WindowTypes DEF Advances, Onward
<1> QED BY <1>4, <1>5

(* A part that gets a result sampled no earlier than allows. *)
LEMMA ResultAdvances ==
    ASSUME RateInv, NEW q \in Queries, NEW p \in Parts, Advances(q, p),
           NEW how, NEW v \in Nat, v <= time, time' = time,
           reading'[q][p] = Result(how, v), call'[q][p] = {},
           NoneBefore(p, v)', \A r \in reading[q][p] : v >= r.value - MaxFetch
    PROVE  Advances(q, p)' /\ Onward(q, p)
<1>1. reading'[q][p] = {[how |-> how, value |-> v, at |-> time]}
  BY DEF Result
<1>2. Advances(q, p)'
  BY <1>1 DEF Advances
<1> QED BY <1>1, <1>2 DEF Onward

(* A query that begins: a part has a fresh hit, or starts a fetch with the *)
(* stale one in hand.                                                      *)
LEMMA AsksAdvance ==
    ASSUME RateInv, AdvanceInv, NEW q0 \in Queries, asks(q0)
    PROVE  \A q \in Queries, p \in Parts : Advances(q, p)' /\ Onward(q, p)
<1>1. /\ entries' = [s \in Caches |->
             IF s \in {source[p] : p \in Parts} THEN AfterGet(entries[s], s, time) ELSE entries[s]]
      /\ call' = [call EXCEPT ![q0] = [p \in Parts |-> IF Fresh(p) = {} THEN Fetching(p) ELSE {}]]
      /\ reading' = [reading EXCEPT ![q0] = [p \in Parts |->
             IF Fresh(p) = {} THEN @[p]
             ELSE Result("fresh", (CHOOSE e \in Fresh(p) : TRUE).value)]]
      /\ source' = source /\ time' = time
  BY DEF asks
<1>2. time \in Nat /\ MaxFetch \in Nat
  BY WindowTypes DEF RateInv
<1>3. ASSUME NEW p \in Parts, NEW x, NoneBefore(p, x) PROVE NoneBefore(p, x)'
  <2>1. entries'[source[p]] = AfterGet(entries[source[p]], source[p], time)
    BY <1>1, PartEntries
  <2>2. Within(entries'[source[p]], entries[source[p]])
    BY <2>1, PartEntries, GetKeepsMap
  <2> QED BY <1>1, <1>3, <2>2, NoneBeforeWithin
<1>4. ASSUME NEW q \in Queries, NEW p \in Parts, q # q0
      PROVE  Advances(q, p)' /\ Onward(q, p)
  <2>1. reading'[q][p] = reading[q][p] /\ call'[q][p] = call[q][p]
    BY <1>1, <1>4 DEF RateInv
  <2>2. Advances(q, p)
    BY DEF AdvanceInv
  <2> QED BY <1>1, <1>2, <1>3, <2>1, <2>2, KeepsAdvancing
<1>5. ASSUME NEW p \in Parts, Fresh(p) # {} PROVE Advances(q0, p)' /\ Onward(q0, p)
  <2>0. PICK h \in Fresh(p) : h = CHOOSE e \in Fresh(p) : TRUE
    BY <1>5
  <2>1. h \in Cached(p)
    BY <2>0 DEF Fresh
  <2>2. reading'[q0][p] = Result("fresh", h.value) /\ call'[q0][p] = {}
    BY <1>1, <1>5, <2>0 DEF RateInv
  <2>3. h.value \in Nat /\ h.timestamp \in Nat /\ HitBy(h, time)
    BY <2>1, HitAge
  <2>4. NoneBefore(p, h.timestamp) /\ \A v : NoneBefore(p, v) => v <= h.timestamp
    BY <2>1, HitIsTheEntry
  <2>5. h.value <= time
    BY <1>2, <2>3 DEF HitBy
  <2>6. NoneBefore(p, h.value)'
    BY <1>3, <2>3, <2>4, NoneBeforeEarlier DEF HitBy
  <2>7. \A r \in reading[q0][p] : h.value >= r.value - MaxFetch
    <3>1. TAKE r \in reading[q0][p]
    <3>2. r.value \in Nat
      BY DEF RateInv, Reading
    <3>3. r.value <= h.timestamp
      BY <2>4 DEF AdvanceInv, Advances
    <3> QED BY <1>2, <2>3, <3>2, <3>3 DEF HitBy
  <2>8. Advances(q0, p)
    BY DEF AdvanceInv
  <2> QED BY <1>1, <2>2, <2>3, <2>5, <2>6, <2>7, <2>8, ResultAdvances
<1>6. ASSUME NEW p \in Parts, Fresh(p) = {} PROVE Advances(q0, p)' /\ Onward(q0, p)
  <2>1. /\ reading'[q0][p] = reading[q0][p]
        /\ call'[q0][p] = {[began |-> time, cached |-> Cached(p)]}
    BY <1>1, <1>6 DEF RateInv, Fetching
  <2>2. Advances(q0, p) /\ \A r \in reading[q0][p] : r.value \in Nat
    BY DEF AdvanceInv, RateInv, Reading
  <2>3. \A h \in Cached(p) : /\ NoneBefore(p, h.timestamp)'
                             /\ \A r \in reading[q0][p] : r.value <= h.timestamp
    BY <1>3, <2>2, HitIsTheEntry DEF Advances
  <2>4. \A r \in reading[q0][p] : r.value <= time /\ NoneBefore(p, r.value)'
    BY <1>3, <2>2 DEF Advances
  <2>5. Advances(q0, p)'
    BY <1>1, <2>1, <2>2, <2>3, <2>4 DEF Advances
  <2>6. Onward(q0, p)
    BY <1>2, <2>1, <2>2 DEF Advances, Onward
  <2> QED BY <2>5, <2>6
<1> QED BY <1>4, <1>5, <1>6

(* A fetch that resolves, maybe after another that began later. *)
LEMMA ResolvesAdvance ==
    ASSUME RateInv, AdvanceInv, NEW q0 \in Queries, NEW p0 \in Parts, resolves(q0, p0)
    PROVE  \A q \in Queries, p \in Parts : Advances(q, p)' /\ Onward(q, p)
<1>a. PICK f \in call[q0][p0] : \E sampled \in f.began..time :
         /\ entries' = [entries EXCEPT ![source[p0]] = AfterSet(@, source[p0], sampled, time)]
         /\ Returns(q0, p0, "fetched", sampled)
         /\ call' = [call EXCEPT ![q0][p0] = {}]
         /\ source' = source /\ time' = time
  BY DEF resolves
<1>1. PICK sampled \in f.began..time :
         /\ entries' = [entries EXCEPT ![source[p0]] = AfterSet(@, source[p0], sampled, time)]
         /\ Returns(q0, p0, "fetched", sampled)
         /\ call' = [call EXCEPT ![q0][p0] = {}]
         /\ source' = source /\ time' = time
  BY <1>a
<1>2. /\ source[p0] \in Caches /\ f.began \in Nat /\ time \in Nat
      /\ time - f.began <= MaxFetch /\ MaxFetch \in Nat
  BY WindowTypes DEF RateInv, Flight
<1>3. sampled \in Nat /\ f.began <= sampled /\ sampled <= time /\ time - sampled <= MaxFetch
  BY <1>2
<1>4. ASSUME NEW p \in Parts, NEW x \in Nat, x <= time, source[p] = source[p0] \/ NoneBefore(p, x)
      PROVE  NoneBefore(p, x)'
  BY <1>1, <1>2, <1>3, <1>4, NoneBeforeSet
<1>5. ASSUME NEW q \in Queries, NEW p \in Parts, ~(q = q0 /\ p = p0)
      PROVE  Advances(q, p)' /\ Onward(q, p)
  <2>1. reading'[q][p] = reading[q][p] /\ call'[q][p] = call[q][p]
    BY <1>1, <1>5 DEF RateInv, Returns
  <2>2. Advances(q, p)
    BY DEF AdvanceInv
  <2> QED BY <1>1, <1>2, <1>4, <2>1, <2>2, KeepsAdvancing
<1>6. Advances(q0, p0)' /\ Onward(q0, p0)
  <2>1. reading'[q0][p0] = Result("fetched", sampled) /\ call'[q0][p0] = {}
    BY <1>1 DEF RateInv, Returns
  <2>2. Advances(q0, p0) /\ \A r \in reading[q0][p0] : r.value \in Nat
    BY DEF AdvanceInv, RateInv, Reading
  <2>3. \A r \in reading[q0][p0] : sampled >= r.value - MaxFetch
    BY <1>2, <1>3, <2>2 DEF Advances
  <2>4. NoneBefore(p0, sampled)'
    BY <1>3, <1>4
  <2> QED BY <1>1, <1>3, <2>1, <2>2, <2>3, <2>4, ResultAdvances
<1> QED BY <1>5, <1>6

(* A fetch that fails, maybe after another renewed the entry it serves. *)
LEMMA FailsAdvance ==
    ASSUME RateInv, AdvanceInv, NEW q0 \in Queries, NEW p0 \in Parts, fails(q0, p0)
    PROVE  \A q \in Queries, p \in Parts : Advances(q, p)' /\ Onward(q, p)
<1>1. PICK f \in call[q0][p0] :
         /\ \/ \E e \in f.cached : ServeStale(q0, p0, e)
            \/ f.cached = {} /\ UNCHANGED <<reading, answered, entries>>
         /\ call' = [call EXCEPT ![q0][p0] = {}]
         /\ source' = source /\ time' = time
  BY DEF fails
<1>2. /\ f \in Flight /\ f.began <= time /\ time \in Nat /\ f.began \in Nat
      /\ MaxFetch \in Nat /\ entries' = entries
  BY <1>1, WindowTypes DEF RateInv, Flight, ServeStale
<1>3. ASSUME NEW p \in Parts, NEW x, NoneBefore(p, x) PROVE NoneBefore(p, x)'
  BY <1>1, <1>2, <1>3 DEF NoneBefore
<1>4. call'[q0][p0] = {} /\ \A q \in Queries, p \in Parts : call'[q][p] \subseteq call[q][p]
  BY <1>1 DEF RateInv
<1>5. ASSUME NEW q \in Queries, NEW p \in Parts, reading'[q][p] = reading[q][p]
      PROVE  Advances(q, p)' /\ Onward(q, p)
  <2>1. Advances(q, p)
    BY DEF AdvanceInv
  <2> QED BY <1>1, <1>2, <1>3, <1>4, <1>5, <2>1, KeepsAdvancing
<1>6. ASSUME NEW e \in f.cached, ServeStale(q0, p0, e)
      PROVE  Advances(q0, p0)' /\ Onward(q0, p0)
  <2>1. reading'[q0][p0] = Result("stale", e.value)
    BY <1>6 DEF RateInv, ServeStale, Returns
  <2>2. e.value \in Nat /\ e.timestamp \in Nat /\ HitBy(e, f.began)
    BY <1>2 DEF Flight
  <2>3. /\ Advances(q0, p0) /\ NoneBefore(p0, e.timestamp)
        /\ \A r \in reading[q0][p0] : r.value \in Nat /\ r.value <= e.timestamp
    BY DEF AdvanceInv, Advances, RateInv, Reading
  <2>4. NoneBefore(p0, e.value)'
    BY <1>3, <2>2, <2>3, NoneBeforeEarlier DEF HitBy
  <2>5. e.value <= time /\ \A r \in reading[q0][p0] : e.value >= r.value - MaxFetch
    BY <1>2, <2>2, <2>3 DEF HitBy
  <2> QED BY <1>1, <1>4, <2>1, <2>2, <2>3, <2>4, <2>5, ResultAdvances
<1>7. ASSUME NEW q \in Queries, NEW p \in Parts, NEW e \in f.cached, ServeStale(q0, p0, e),
             ~(q = q0 /\ p = p0)
      PROVE  reading'[q][p] = reading[q][p]
  BY <1>7 DEF RateInv, ServeStale, Returns
<1>8. CASE \E e \in f.cached : ServeStale(q0, p0, e)
  BY <1>5, <1>6, <1>7, <1>8
<1>9. CASE reading' = reading
  BY <1>5, <1>9
<1> QED BY <1>1, <1>8, <1>9

(* Every step keeps what may be read ahead of what was. *)
LEMMA AdvanceNext ==
    RateInv /\ AdvanceInv /\ [ClientNext]_clientVars =>
        AdvanceInv' /\ \A q \in Queries, p \in Parts : Onward(q, p)
<1> SUFFICES ASSUME RateInv, AdvanceInv, [ClientNext]_clientVars
             PROVE  \A q \in Queries, p \in Parts : Advances(q, p)' /\ Onward(q, p)
  BY DEF AdvanceInv
<1>1. ASSUME UNCHANGED <<source, call, reading>>, time' \in Nat, time <= time',
             \A p \in Parts : Within(entries'[source[p]], entries[source[p]])
      PROVE  \A q \in Queries, p \in Parts : Advances(q, p)' /\ Onward(q, p)
  <2>1. TAKE q \in Queries, p \in Parts
  <2>2. \A x \in Nat : NoneBefore(p, x) => NoneBefore(p, x)'
    BY <1>1, NoneBeforeWithin
  <2>3. Advances(q, p)
    BY DEF AdvanceInv
  <2> QED BY <1>1, <2>2, <2>3, KeepsAdvancing
<1>2. time \in Nat /\ \A m : Within(m, m) /\ Within(<<>>, m)
  BY DEF RateInv, Within
<1>3. CASE clearCache
  <2>1. \A p \in Parts : entries'[source[p]] = <<>>
    BY <1>3, PartEntries DEF clearCache
  <2> QED BY <1>1, <1>2, <1>3, <2>1 DEF clearCache
<1>4. CASE TimePasses
  BY <1>1, <1>2, <1>4 DEF TimePasses
<1>5. CASE UNCHANGED clientVars
  BY <1>1, <1>2, <1>5 DEF clientVars
<1> QED
  BY <1>3, <1>4, <1>5, AsksAdvance, ResolvesAdvance, FailsAdvance DEF ClientNext

(* kamino-api.ts:63-97, lulo-api.ts: whatever fetches overtake each other, *)
(* fail or find the cache cleared, the readings of a caller go back in     *)
(* time by at most one fetch, for any windows and any queries at once.     *)
THEOREM ReadingsOnlyAdvance == ClientSpec => ReadingsAdvance
<1>1. ClientInit => AdvanceInv
  BY DEF ClientInit, AdvanceInv, Advances
<1>2. RateInv /\ AdvanceInv /\ [ClientNext]_clientVars =>
         [\A q \in Queries, p \in Parts : \A r \in reading[q][p], s \in reading'[q][p] :
             s.value >= r.value - MaxFetch]_clientVars
  BY AdvanceNext DEF Onward
<1> QED BY <1>1, <1>2, RateInit, RateNext, AdvanceNext, PTL DEF ClientSpec, ReadingsAdvance

-----------------------------------------------------------------------------
(* A result of one part against the time b at which the other part's fetch *)
(* began, which is when both were asked for.                               *)
Placed(r, b) ==
    /\ b - r.value <= staleMs + MaxFetch /\ r.value - b <= MaxFetch
    /\ r.how = "fetched" => b <= r.value
    /\ r.how = "fresh" => source # Kamino

(* Two results of one query. *)
Matched(y, r) ==
    /\ source = Kamino /\ "fresh" \in {y.how, r.how} => y.value = r.value
    /\ y.how = "fetched" /\ r.how = "fetched" => y.value - r.value <= MaxFetch
    /\ y.value - r.value <= staleMs + 2 * MaxFetch

Pairs(q) ==
    /\ \A p \in answered[q] : call[q][p] = {}
    /\ \A p, o \in Parts : \A f \in call[q][p], g \in call[q][o] : f.began = g.began
    /\ \A p \in answered[q], o \in Parts : \A r \in reading[q][p], f \in call[q][o] :
          Placed(r, f.began)
    /\ \A p, o \in answered[q] : \A y \in reading[q][p], r \in reading[q][o] : Matched(y, r)

(* PairSkew alone says nothing of a query that has one of its results.     *)
PairInv ==
    /\ answered \in [Queries -> SUBSET Parts]
    /\ \A q \in Queries : Pairs(q)

(* A query whose results stay, and whose fetches go on or end. *)
LEMMA KeepsPairs ==
    ASSUME PairInv, NEW q \in Queries, source' = source,
           answered'[q] = answered[q], reading'[q] = reading[q],
           \A p \in Parts : call'[q][p] \subseteq call[q][p]
    PROVE  Pairs(q)'
<1>1. Pairs(q) /\ answered[q] \subseteq Parts
  BY DEF PairInv
<1>2. \A y, r : Matched(y, r) => Matched(y, r)'
  BY DEF Matched
<1>3. \A r, b : Placed(r, b) => Placed(r, b)'
  BY DEF Placed
<1> QED BY <1>1, <1>2, <1>3 DEF Pairs

(* The two ways a part ends with a result that it did not have at once.    *)
LEMMA ResultPairs ==
    ASSUME RateInv, PairInv, NEW q \in Queries, NEW p \in Parts, NEW f \in call[q][p],
           NEW how \in {"fetched", "stale"}, NEW v \in Nat,
           f.began - v <= staleMs + MaxFetch, v - f.began <= MaxFetch,
           how = "fetched" => f.began <= v,
           Returns(q, p, how, v), call' = [call EXCEPT ![q][p] = {}], source' = source
    PROVE  PairInv'
<1> DEFINE r0 == [how |-> how, value |-> v, at |-> time]
<1>1. /\ reading'[q][p] = {r0} /\ answered'[q] = answered[q] \cup {p}
      /\ answered' \in [Queries -> SUBSET Parts] /\ call'[q][p] = {}
      /\ \A o \in Parts \ {p} : /\ reading'[q][o] = reading[q][o]
                                /\ call'[q][o] = call[q][o]
      /\ \A w \in Queries \ {q} : /\ answered'[w] = answered[w]
                                  /\ reading'[w] = reading[w] /\ call'[w] = call[w]
  BY DEF RateInv, PairInv, Returns, Result
<1>2. Pairs(q) /\ answered[q] \subseteq Parts /\ p \notin answered[q]
  BY DEF PairInv, Pairs
<1>3. f.began \in Nat /\ staleMs \in Nat /\ MaxFetch \in Nat
  BY WindowTypes DEF RateInv, Flight
<1>4. r0.how = how /\ r0.value = v
  OBVIOUS
<1> HIDE DEF r0
<1>5. \A y, r : Matched(y, r) => Matched(y, r)'
  BY DEF Matched
<1>6. \A r, b : Placed(r, b) => Placed(r, b)'
  BY DEF Placed
<1>7. Placed(r0, f.began) /\ Matched(r0, r0)
  BY <1>3, <1>4 DEF Placed, Matched
<1>8. ASSUME NEW o \in answered[q], NEW r \in reading[q][o]
      PROVE  Matched(r0, r) /\ Matched(r, r0)
  <2>1. Placed(r, f.began)
    BY <1>2 DEF Pairs
  <2>2. r.value \in Nat
    BY <1>2 DEF RateInv, Reading
  <2> QED BY <1>3, <1>4, <2>1, <2>2 DEF Placed, Matched
<1>9. \A w \in answered'[q], o \in Parts : \A r \in reading'[q][w], g \in call'[q][o] :
         Placed(r, g.began)
  <2>1. ASSUME NEW w \in answered'[q], NEW o \in Parts,
               NEW r \in reading'[q][w], NEW g \in call'[q][o]
        PROVE  Placed(r, g.began)
    <3>1. o # p /\ g \in call[q][o] /\ g.began = f.began
      BY <1>1, <1>2 DEF Pairs
    <3>2. CASE w = p
      BY <1>1, <1>7, <3>1, <3>2
    <3>3. CASE w # p
      BY <1>1, <1>2, <3>1, <3>3 DEF Pairs
    <3> QED BY <3>2, <3>3
  <2> QED BY <2>1
<1>10. \A w, o \in answered'[q] : \A y \in reading'[q][w], r \in reading'[q][o] : Matched(y, r)
  <2>1. ASSUME NEW w \in answered'[q], NEW o \in answered'[q],
               NEW y \in reading'[q][w], NEW r \in reading'[q][o]
        PROVE  Matched(y, r)
    <3>1. \/ w = p /\ y = r0
          \/ w \in answered[q] /\ y \in reading[q][w]
      BY <1>1, <1>2
    <3>2. \/ o = p /\ r = r0
          \/ o \in answered[q] /\ r \in reading[q][o]
      BY <1>1, <1>2
    <3> QED BY <1>2, <1>7, <1>8, <3>1, <3>2 DEF Pairs
  <2> QED BY <2>1
<1>11. /\ \A w \in answered'[q] : call'[q][w] = {}
       /\ \A w, o \in Parts : \A g \in call'[q][w], h \in call'[q][o] : g.began = h.began
  <2>1. \A w \in Parts : call'[q][w] \subseteq call[q][w]
    BY <1>1
  <2> QED BY <1>1, <1>2, <2>1 DEF Pairs
<1>12. Pairs(q)'
  BY <1>5, <1>6, <1>9, <1>10, <1>11 DEF Pairs
<1>13. \A w \in Queries \ {q} : Pairs(w)'
  BY <1>1, KeepsPairs
<1> QED BY <1>1, <1>12, <1>13 DEF PairInv

(* A query that begins: Kamino's parts are both answered or both fetched,  *)
(* because the first look at their cache leaves the second the same hit.   *)
LEMMA AsksPairs ==
    ASSUME RateInv, PairInv, NEW q \in Queries, asks(q)
    PROVE  PairInv'
<1> DEFINE hit(p) == CHOOSE e \in Fresh(p) : TRUE
<1>1. /\ source' = source
      /\ answered' = [answered EXCEPT ![q] = {p \in Parts : Fresh(p) # {}}]
      /\ call' = [call EXCEPT ![q] = [p \in Parts |-> IF Fresh(p) = {} THEN Fetching(p) ELSE {}]]
      /\ reading' = [reading EXCEPT ![q] = [p \in Parts |->
             IF Fresh(p) = {} THEN @[p] ELSE Result("fresh", hit(p).value)]]
  BY DEF asks
<1>2. /\ answered' \in [Queries -> SUBSET Parts]
      /\ answered'[q] = {p \in Parts : Fresh(p) # {}}
      /\ \A p \in Parts : Fresh(p) # {} =>
            call'[q][p] = {} /\ reading'[q][p] = Result("fresh", hit(p).value)
      /\ \A p \in Parts : \A f \in call'[q][p] : f.began = time
      /\ \A w \in Queries \ {q} : /\ answered'[w] = answered[w]
                                  /\ reading'[w] = reading[w] /\ call'[w] = call[w]
  BY <1>1 DEF RateInv, PairInv, Fetching
<1>3. ASSUME NEW p \in Parts, Fresh(p) # {}
      PROVE  /\ hit(p).value \in Nat
             /\ time - hit(p).value <= staleMs + MaxFetch /\ hit(p).value <= time
  <2>1. hit(p) \in Cached(p)
    BY <1>3 DEF Fresh
  <2>2. hit(p).value \in Nat /\ hit(p).timestamp \in Nat /\ HitBy(hit(p), time) /\ time \in Nat
    BY <2>1, HitAge DEF RateInv
  <2> HIDE DEF hit
  <2> QED BY <2>2, WindowTypes DEF HitBy
<1>4. ASSUME source = Kamino, NEW p \in Parts, NEW o \in Parts
      PROVE  Fresh(p) = Fresh(o)
  BY <1>4 DEF Fresh, Cached, Kamino, Parts
<1>5. ASSUME source = Kamino, NEW p \in Parts, NEW o \in Parts
      PROVE  hit(p) = hit(o)
  BY <1>4, <1>5
<1> HIDE DEF hit
<1>6. time \in Nat /\ staleMs \in Nat /\ MaxFetch \in Nat
  BY WindowTypes DEF RateInv
<1>7. \A p \in answered'[q], o \in Parts : \A r \in reading'[q][p], f \in call'[q][o] :
         Placed(r, f.began)'
  <2>1. ASSUME NEW p \in answered'[q], NEW o \in Parts,
               NEW r \in reading'[q][p], NEW f \in call'[q][o]
        PROVE  Placed(r, f.began)
    <3>1. p \in Parts /\ Fresh(p) # {} /\ Fresh(o) = {} /\ f.began = time
      BY <1>2
    <3>2. r.how = "fresh" /\ r.value = hit(p).value
      BY <1>2, <3>1 DEF Result
    <3>3. source # Kamino
      BY <1>4, <3>1
    <3> QED BY <1>3, <1>6, <3>1, <3>2, <3>3 DEF Placed
  <2> QED BY <1>1, <2>1 DEF Placed
<1>8. \A p, o \in answered'[q] : \A y \in reading'[q][p], r \in reading'[q][o] : Matched(y, r)'
  <2>1. ASSUME NEW p \in answered'[q], NEW o \in answered'[q],
               NEW y \in reading'[q][p], NEW r \in reading'[q][o]
        PROVE  Matched(y, r)
    <3>1. p \in Parts /\ Fresh(p) # {} /\ o \in Parts /\ Fresh(o) # {}
      BY <1>2
    <3>2. y.how = "fresh" /\ y.value = hit(p).value /\ r.how = "fresh" /\ r.value = hit(o).value
      BY <1>2, <3>1 DEF Result
    <3>3. y.value - r.value <= staleMs + 2 * MaxFetch
      BY <1>3, <1>6, <3>1, <3>2
    <3>4. source = Kamino => y.value = r.value
      BY <1>5, <3>1, <3>2
    <3> QED BY <3>2, <3>3, <3>4 DEF Matched
  <2>2. \A y, r : Matched(y, r) => Matched(y, r)'
    BY <1>1 DEF Matched
  <2> QED BY <2>1, <2>2
<1>9. Pairs(q)'
  BY <1>2, <1>7, <1>8 DEF Pairs
<1>10. \A w \in Queries \ {q} : Pairs(w)'
  BY <1>1, <1>2, KeepsPairs
<1> QED BY <1>2, <1>9, <1>10 DEF PairInv

(* Every step keeps the results of a query together. *)
LEMMA PairNext == RateInv /\ PairInv /\ [ClientNext]_clientVars => PairInv'
<1> SUFFICES ASSUME RateInv, PairInv, [ClientNext]_clientVars PROVE PairInv'
  OBVIOUS
<1>1. ASSUME UNCHANGED <<source, reading, answered>>,
             \A q \in Queries, p \in Parts : call'[q][p] \subseteq call[q][p]
      PROVE  PairInv'
  BY <1>1, KeepsPairs DEF PairInv
<1>2. ASSUME NEW q \in Queries, NEW p \in Parts, resolves(q, p) PROVE PairInv'
  <2>1. PICK f \in call[q][p] : \E sampled \in f.began..time :
           /\ Returns(q, p, "fetched", sampled)
           /\ call' = [call EXCEPT ![q][p] = {}] /\ source' = source
    BY <1>2 DEF resolves
  <2>2. PICK sampled \in f.began..time :
           /\ Returns(q, p, "fetched", sampled)
           /\ call' = [call EXCEPT ![q][p] = {}] /\ source' = source
    BY <2>1
  <2>3. f.began \in Nat /\ time \in Nat /\ time - f.began <= MaxFetch
    BY DEF RateInv, Flight
  <2>4. /\ sampled \in Nat /\ f.began <= sampled /\ sampled - f.began <= MaxFetch
        /\ f.began - sampled <= staleMs + MaxFetch
    BY <2>3, WindowTypes
  <2> QED BY <2>2, <2>4, ResultPairs
<1>3. ASSUME NEW q \in Queries, NEW p \in Parts, fails(q, p) PROVE PairInv'
  <2>1. PICK f \in call[q][p] :
           /\ \/ \E e \in f.cached : ServeStale(q, p, e)
              \/ f.cached = {} /\ UNCHANGED <<reading, answered, entries>>
           /\ call' = [call EXCEPT ![q][p] = {}] /\ source' = source
    BY <1>3 DEF fails
  <2>2. CASE UNCHANGED <<reading, answered>>
    BY <1>1, <2>1, <2>2 DEF RateInv
  <2>3. ASSUME NEW e \in f.cached, ServeStale(q, p, e) PROVE PairInv'
    <3>1. /\ f.began \in Nat /\ e.value \in Nat /\ e.timestamp \in Nat
          /\ HitBy(e, f.began)
      BY DEF RateInv, Flight
    <3>2. f.began - e.value <= staleMs + MaxFetch /\ e.value - f.began <= MaxFetch
      BY <3>1, WindowTypes DEF HitBy
    <3> QED BY <2>1, <2>3, <3>1, <3>2, ResultPairs DEF ServeStale
  <2> QED BY <2>1, <2>2, <2>3
<1>4. CASE clearCache \/ TimePasses \/ UNCHANGED clientVars
  BY <1>1, <1>4 DEF clearCache, TimePasses, clientVars
<1> QED BY <1>2, <1>3, <1>4, AsksPairs DEF ClientNext

(* router.ts:40-45: the yield and the risk of one answer are of one sample *)
(* when they come from Kamino's cache, within one fetch of each other when *)
(* both were fetched, and never further apart than a stale entry is old,   *)
(* for any windows and any queries at once.                                *)
THEOREM PairsStayTogether == ClientSpec => []PairSkew
<1>1. ClientInit => PairInv
  BY DEF ClientInit, PairInv, Pairs
<1>2. RateInv /\ PairInv => PairSkew
  <2> SUFFICES ASSUME RateInv, PairInv, NEW q \in Queries, answered[q] = Parts,
                      NEW y \in reading[q].yield, NEW r \in reading[q].risk
               PROVE  LET apart == IF y.value > r.value THEN y.value - r.value
                                   ELSE r.value - y.value
                      IN  /\ source = Kamino /\ "fresh" \in {y.how, r.how} =>
                                y.value = r.value
                          /\ source = Kamino /\ y.how = "fetched" /\ r.how = "fetched" =>
                                apart <= MaxFetch
                          /\ apart <= staleMs + 2 * MaxFetch
    BY DEF PairSkew
  <2>1. Matched(y, r) /\ Matched(r, y)
    BY DEF PairInv, Pairs, Parts
  <2>2. y.value \in Nat /\ r.value \in Nat
    BY DEF RateInv, Reading, Parts
  <2> QED BY <2>1, <2>2 DEF Matched
<1> QED BY <1>1, <1>2, RateInit, RateNext, PairNext, PTL DEF ClientSpec

-----------------------------------------------------------------------------
(* When client n was replaced, if it was. *)
Replaced(n) == n \in DOMAIN replaced

(* A value that is kept was computed while its client was still in use. *)
ClientInv ==
    /\ replaced \in Seq(Nat) /\ client = Len(replaced) + 1
    /\ instant \in Nat
    /\ \A n \in DOMAIN replaced : replaced[n] <= instant
    /\ memo \in [Memos -> SUBSET [value : Nat \ {0}, timestamp : Nat]]
    /\ \A m \in Memos : \A e \in memo[m] :
          /\ e.value <= client /\ e.timestamp <= instant
          /\ Replaced(e.value) => e.timestamp <= replaced[e.value]
    /\ served \in [Memos -> SUBSET [from : Nat \ {0}, at : Nat]]
    /\ \A m \in Memos : \A s \in served[m] :
          /\ s.from <= client /\ s.at <= instant
          /\ Replaced(s.from) /\ replaced[s.from] <= s.at =>
                s.at - replaced[s.from] < CACHE_TTL_MS

(* With one client and no values the invariant holds. *)
LEMMA ClientInvInit == MarginfiInit => ClientInv
  BY DEF MarginfiInit, ClientInv, Replaced

(* A value that is served, found or computed. *)
LEMMA ServesInv == ASSUME ClientInv, NEW m \in Memos, serves(m) PROVE ClientInv'
<1> DEFINE hit == CHOOSE e \in Valid(m) : TRUE
           from == IF Valid(m) # {} THEN hit.value ELSE client
           s == [from |-> from, at |-> instant]
           e1 == [value |-> client, timestamp |-> instant]
<1>1. /\ served' = [served EXCEPT ![m] = {s}]
      /\ memo' = IF Valid(m) # {} THEN memo ELSE [memo EXCEPT ![m] = {e1}]
      /\ UNCHANGED <<client, listed, replaced, instant>>
  BY DEF serves
<1>2. /\ replaced \in Seq(Nat) /\ client = Len(replaced) + 1 /\ client \in Nat \ {0}
      /\ instant \in Nat /\ DOMAIN replaced = 1..Len(replaced) /\ Len(replaced) \in Nat
  BY DEF ClientInv
<1>3. ~Replaced(client)
  BY <1>2 DEF Replaced
<1>4. Valid(m) # {} => hit \in memo[m] /\ instant - hit.timestamp < CACHE_TTL_MS
  BY DEF Valid
<1> HIDE DEF hit
<1>5. /\ from \in Nat \ {0} /\ from <= client
      /\ Replaced(from) /\ replaced[from] <= instant => instant - replaced[from] < CACHE_TTL_MS
  <2>1. CASE Valid(m) # {}
    <3>1. /\ hit.value \in Nat \ {0} /\ hit.timestamp \in Nat /\ hit.value <= client
          /\ Replaced(hit.value) => hit.timestamp <= replaced[hit.value]
      BY <1>4, <2>1 DEF ClientInv
    <3>2. Replaced(hit.value) => replaced[hit.value] \in Nat
      BY <1>2 DEF Replaced
    <3>3. CACHE_TTL_MS \in Nat
      BY MarginfiAssumption DEF MarginfiAssumption
    <3> QED BY <1>2, <1>4, <2>1, <3>1, <3>2, <3>3
  <2>2. CASE Valid(m) = {}
    BY <1>2, <1>3, <2>2
  <2> QED BY <2>1, <2>2
<1> HIDE DEF from
<1>6. served' \in [Memos -> SUBSET [from : Nat \ {0}, at : Nat]]
  BY <1>1, <1>2, <1>5 DEF ClientInv
<1>7. \A n \in Memos : \A r \in served'[n] :
         /\ r.from <= client /\ r.at <= instant
         /\ Replaced(r.from) /\ replaced[r.from] <= r.at =>
               r.at - replaced[r.from] < CACHE_TTL_MS
  <2>1. TAKE n \in Memos
  <2>2. CASE n = m
    BY <1>1, <1>2, <1>5, <2>2 DEF ClientInv
  <2>3. CASE n # m
    BY <1>1, <2>3 DEF ClientInv
  <2> QED BY <2>2, <2>3
<1>8. memo' \in [Memos -> SUBSET [value : Nat \ {0}, timestamp : Nat]]
  BY <1>1, <1>2 DEF ClientInv
<1>9. \A n \in Memos : \A e \in memo'[n] :
         /\ e.value <= client /\ e.timestamp <= instant
         /\ Replaced(e.value) => e.timestamp <= replaced[e.value]
  <2>1. TAKE n \in Memos
  <2>2. CASE n = m /\ Valid(m) = {}
    BY <1>1, <1>2, <1>3, <2>2 DEF ClientInv
  <2>3. CASE n # m \/ Valid(m) # {}
    BY <1>1, <2>3 DEF ClientInv
  <2> QED BY <2>2, <2>3
<1> QED BY <1>1, <1>6, <1>7, <1>8, <1>9 DEF ClientInv, Replaced

(* A client that is replaced was in use until now. *)
LEMMA ReconnectsInv == ASSUME ClientInv, reconnects PROVE ClientInv'
<1>1. /\ client' = client + 1 /\ replaced' = Append(replaced, instant)
      /\ UNCHANGED <<memo, served, instant>>
  BY DEF reconnects
<1>2. /\ replaced \in Seq(Nat) /\ client = Len(replaced) + 1 /\ client \in Nat
      /\ instant \in Nat /\ DOMAIN replaced = 1..Len(replaced) /\ Len(replaced) \in Nat
  BY DEF ClientInv
<1>3. /\ replaced' \in Seq(Nat) /\ Len(replaced') = client /\ DOMAIN replaced' = 1..client
      /\ \A n \in DOMAIN replaced : replaced'[n] = replaced[n]
      /\ replaced'[client] = instant
  BY <1>1, <1>2, AppendProperties
<1>4. \A n \in DOMAIN replaced' : n \in DOMAIN replaced \/ n = client
  BY <1>2, <1>3
<1>5. \A n \in DOMAIN replaced' : replaced'[n] <= instant'
  BY <1>1, <1>2, <1>3, <1>4 DEF ClientInv
<1>6. \A m \in Memos : \A e \in memo'[m] :
         /\ e.value <= client' /\ e.timestamp <= instant'
         /\ Replaced(e.value)' => e.timestamp <= replaced'[e.value]
  BY <1>1, <1>2, <1>3, <1>4 DEF ClientInv, Replaced
<1>7. \A m \in Memos : \A s \in served'[m] :
         /\ s.from <= client' /\ s.at <= instant'
         /\ Replaced(s.from)' /\ replaced'[s.from] <= s.at =>
               s.at - replaced'[s.from] < CACHE_TTL_MS
  <2>1. TAKE m \in Memos
  <2>2. TAKE s \in served'[m]
  <2>3. /\ s.from \in Nat /\ s.at \in Nat /\ s.from <= client /\ s.at <= instant
        /\ Replaced(s.from) /\ replaced[s.from] <= s.at =>
              s.at - replaced[s.from] < CACHE_TTL_MS
    BY <1>1 DEF ClientInv
  <2>4. s.from <= client' /\ s.at <= instant'
    BY <1>1, <1>2, <2>3
  <2>5. CASE s.from = client
    BY <1>2, <1>3, <2>3, <2>4, <2>5, MarginfiAssumption DEF MarginfiAssumption
  <2>6. CASE s.from # client
    BY <1>3, <1>4, <2>3, <2>4, <2>6 DEF Replaced
  <2> QED BY <2>5, <2>6
<1> QED BY <1>1, <1>2, <1>3, <1>5, <1>6, <1>7 DEF ClientInv

(* Every step preserves the invariant. *)
LEMMA ClientInvNext == ClientInv /\ [MarginfiNext]_marginfiVars => ClientInv'
<1> SUFFICES ASSUME ClientInv, [MarginfiNext]_marginfiVars PROVE ClientInv'
  OBVIOUS
<1>1. CASE clearRateCache
  <2>1. memo' = [m \in Memos |-> {}] /\ UNCHANGED <<client, replaced, served, instant>>
    BY <1>1 DEF clearRateCache
  <2> QED BY <2>1 DEF ClientInv, Replaced
<1>2. CASE InstantPasses
  <2>1. instant' = instant + 1 /\ UNCHANGED <<client, replaced, memo, served>>
    BY <1>2 DEF InstantPasses
  <2>2. /\ instant \in Nat
        /\ \A n \in DOMAIN replaced : replaced[n] \in Nat
        /\ \A m \in Memos : \A e \in memo[m] : e.timestamp \in Nat
        /\ \A m \in Memos : \A s \in served[m] : s.at \in Nat
    BY DEF ClientInv
  <2> QED BY <2>1, <2>2 DEF ClientInv, Replaced
<1>3. CASE UNCHANGED marginfiVars
  BY <1>3 DEF marginfiVars, ClientInv, Replaced
<1> QED BY <1>1, <1>2, <1>3, ServesInv, ReconnectsInv DEF MarginfiNext

(* marginfi-data-api.ts:63-97: a value served is from a client that was in *)
(* use less than CACHE_TTL_MS ago, for any number of clients.              *)
THEOREM ClientsAreRecent == MarginfiSpec => []ServedByRecentClient
<1>1. ClientInv => ServedByRecentClient
  <2> SUFFICES ASSUME ClientInv, NEW m \in Memos, NEW s \in served[m],
                      s.from <= Len(replaced), replaced[s.from] <= s.at
               PROVE  s.at - replaced[s.from] < CACHE_TTL_MS
    BY DEF ServedByRecentClient
  <2>1. s.from \in Nat \ {0}
    BY DEF ClientInv
  <2>2. Replaced(s.from)
    BY <2>1 DEF ClientInv, Replaced
  <2> QED BY <2>2 DEF ClientInv
<1> QED BY <1>1, ClientInvInit, ClientInvNext, PTL DEF MarginfiSpec

-----------------------------------------------------------------------------
(* What the backend and the double count, and that amounts are numbers. *)
PositionInv ==
    /\ protocol \in {"kamino", "lulo", "marginfi"}
    /\ market \in Markets
    /\ deposited \in Nat
    /\ active \in BOOLEAN
    /\ double \in [depositedAmount : Int, isActive : BOOLEAN]
    /\ overdrawn \in BOOLEAN
    /\ DoubleNeverAhead

(* A backend begins without a position, and so does the double. *)
LEMMA PositionInit == BackendInit => PositionInv
<1> SUFFICES ASSUME BackendInit PROVE PositionInv
  OBVIOUS
<1> USE DEF BackendInit
<1>1. double \in [depositedAmount : Int, isActive : BOOLEAN]
  OBVIOUS
<1>2. double = [depositedAmount |-> deposited, isActive |-> active]
  OBVIOUS
<1>3. double.depositedAmount <= deposited
  OBVIOUS
<1>4. deposited \in Nat /\ active \in BOOLEAN /\ overdrawn \in BOOLEAN
  OBVIOUS
<1> QED
  BY <1>1, <1>2, <1>3, <1>4, Zenon DEF PositionInv, DoubleNeverAhead

(* Deposits, withdrawals and moving markets preserve the invariant. *)
LEMMA PositionNext == PositionInv /\ [BackendNext]_backendVars => PositionInv'
<1> SUFFICES ASSUME PositionInv, [BackendNext]_backendVars PROVE PositionInv'
  OBVIOUS
<1> USE BackendAssumption DEF PositionInv, DoubleNeverAhead
<1>1. ASSUME NEW n \in Deposits, deposit_position(n) PROVE PositionInv'
  <2>1. n \in Nat
    OBVIOUS
  <2>2. /\ deposited' \in Nat /\ active' \in BOOLEAN
        /\ double' \in [depositedAmount : Int, isActive : BOOLEAN]
    BY <2>1, <1>1 DEF deposit_position
  <2>3. double'.depositedAmount <= deposited'
    BY <2>1, <1>1 DEF deposit_position
  <2>4. ASSUME ~overdrawn
        PROVE  double' = [depositedAmount |-> deposited', isActive |-> active']
    <3>1. double.depositedAmount = deposited
      BY <2>4
    <3> QED
      BY <3>1, <1>1, Zenon DEF deposit_position
  <2>5. UNCHANGED <<protocol, market, overdrawn>>
    BY <1>1 DEF deposit_position
  <2> QED
    BY <2>2, <2>3, <2>4, <2>5, Zenon
<1>2. ASSUME NEW n \in Deposits, withdraw_position(n) PROVE PositionInv'
  <2>1. n \in Nat
    OBVIOUS
  <2>2. deposited' \in Nat /\ double'.depositedAmount \in Int
    BY <2>1, <1>2 DEF withdraw_position
  <2>3. double'.depositedAmount <= deposited'
    BY <2>1, <1>2 DEF withdraw_position
  <2>4. ASSUME ~overdrawn'
        PROVE  double' = [depositedAmount |-> deposited', isActive |-> active']
    <3>1. ~overdrawn /\ n <= deposited
      <4>1. ~overdrawn /\ ~(n > deposited)
        BY <2>4, <1>2, Zenon DEF withdraw_position
      <4> QED
        BY <4>1, <2>1
    <3>2. deposited' = deposited - n
      BY <2>1, <3>1, <1>2 DEF withdraw_position
    <3>3. double = [depositedAmount |-> deposited, isActive |-> active]
      BY <3>1
    <3>4. /\ double.depositedAmount = deposited
          /\ double.isActive = active
      BY <3>3
    <3>5. active' = (active /\ deposited > n)
      BY <1>2 DEF withdraw_position
    <3>6. double' = [depositedAmount |-> deposited - n, isActive |-> active /\ deposited > n]
      BY <3>4, <1>2 DEF withdraw_position
    <3> QED
      BY <3>2, <3>5, <3>6, Zenon
  <2> QED
    BY <2>2, <2>3, <2>4, <1>2 DEF withdraw_position
<1>3. CASE MarketMoves
  BY <1>3 DEF MarketMoves
<1>4. CASE UNCHANGED backendVars
  BY <1>4 DEF backendVars
<1> QED
  BY <1>1, <1>2, <1>3, <1>4 DEF BackendNext

(* The invariant holds in every reachable state. *)
LEMMA PositionHolds == BackendSpec => []PositionInv
  BY PositionInit, PositionNext, PTL DEF BackendSpec

(* mock-yield-backend.ts:91-99: the double that stands in for a backend     *)
(* never shows more than the backend would, and the same until the first    *)
(* withdrawal of more than the position, for any amounts.                   *)
THEOREM DoubleStaysBehind == BackendSpec => []DoubleNeverAhead
<1>1. PositionInv => DoubleNeverAhead
  BY DEF PositionInv
<1> QED
  BY <1>1, PositionHolds, PTL

(* A share of what is available does not fall below 1/n as less is left. *)
LEMMA ShareGrows ==
    ASSUME NEW n \in Nat \ {0}, NEW amount \in Nat, NEW more \in Nat, NEW less \in Nat,
           less <= more, ShareAbove(n, amount, more)
    PROVE  ShareAbove(n, amount, less)
<1>1. CASE more = 0
  BY <1>1 DEF ShareAbove
<1>2. CASE more > 0
  <2> DEFINE scaled == amount * n
  <2>1. scaled \in Nat /\ scaled > more
    BY <1>2 DEF ShareAbove
  <2>2. amount > 0
    <3>1. amount = 0 => scaled = 0
      OBVIOUS
    <3> QED
      BY <2>1, <3>1, <1>2
  <2> HIDE DEF scaled
  <2>3. CASE less = 0
    BY <2>2, <2>3 DEF ShareAbove
  <2>4. CASE less > 0
    <3>1. scaled > less
      BY <2>1
    <3> QED
      BY <3>1, <2>4 DEF ShareAbove, scaled
  <2> QED
    BY <2>3, <2>4
<1> QED
  BY <1>1, <1>2

(* lending.ts:111-116: as more of a supply is lent out, down to nothing     *)
(* left, no backend scores the market better, for any supply and amount.    *)
THEOREM TighterMarkets == BackendSpec => TighterMarketsScoreWorse
<1> DEFINE Tighter ==
        market'.supply = market.supply /\ market'.borrow >= market.borrow
            /\ Available(market') >= 0
<1>1. ASSUME PositionInv, PositionInv', [BackendNext]_backendVars, Tighter
      PROVE  /\ ScaledVolatility(protocol, market') >= ScaledVolatility(protocol, market)
             /\ \A n \in Deposits :
                   estimateSlippage(protocol, n, market')
                       >= estimateSlippage(protocol, n, market)
  <2>1. market \in [supply : Nat, borrow : Nat] /\ market' \in [supply : Nat, borrow : Nat]
    BY <1>1, BackendAssumption DEF PositionInv
  <2>2. protocol \in {"kamino", "lulo", "marginfi"}
    BY <1>1 DEF PositionInv
  <2>3. /\ Available(market) \in Nat /\ Available(market') \in Nat
        /\ Available(market') <= Available(market)
    BY <1>1, <2>1 DEF Available
  <2>4. ScaledVolatility(protocol, market') >= ScaledVolatility(protocol, market)
    <3>1. CASE protocol = "lulo"
      BY <1>1, <2>1, <3>1 DEF ScaledVolatility
    <3>2. CASE protocol # "lulo"
      BY <1>1, <2>1, <3>2 DEF ScaledVolatility
    <3> QED
      BY <3>1, <3>2
  <2>5. ASSUME NEW n \in Deposits
        PROVE  estimateSlippage(protocol, n, market') >= estimateSlippage(protocol, n, market)
    <3>1. n \in Nat
      BY BackendAssumption
    <3>2. ShareAbove(10, n, Available(market)) => ShareAbove(10, n, Available(market'))
      BY <2>3, <3>1, ShareGrows
    <3>3. ShareAbove(100, n, Available(market)) => ShareAbove(100, n, Available(market'))
      BY <2>3, <3>1, ShareGrows
    <3>4. CASE protocol = "lulo"
      <4>1. Available(market) <= 0 => Available(market') <= 0
        BY <2>3
      <4> HIDE DEF Tighter
      <4> QED
        BY <3>2, <3>3, <3>4, <4>1 DEF estimateSlippage
    <3>5. CASE protocol # "lulo"
      BY <3>2, <3>3, <3>5 DEF estimateSlippage
    <3> QED
      BY <3>4, <3>5
  <2> QED
    BY <2>4, <2>5
<1>2. ASSUME PositionInv, PositionInv', [BackendNext]_backendVars
      PROVE  [Tighter =>
                 /\ ScaledVolatility(protocol, market') >= ScaledVolatility(protocol, market)
                 /\ \A n \in Deposits :
                       estimateSlippage(protocol, n, market')
                           >= estimateSlippage(protocol, n, market)]_backendVars
  BY <1>1, <1>2
<1> QED
  BY <1>2, PositionHolds, PTL DEF BackendSpec, TighterMarketsScoreWorse
=============================================================================
