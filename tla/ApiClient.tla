----------------------------- MODULE ApiClient -----------------------------
(***************************************************************************)
(* What the router reads through the Kamino and Lulo backends in real mode *)
(* (kamino-api.ts, lulo-api.ts, backends/lending.ts).  A query asks for    *)
(* yield and risk at once; each part reads a module-level TtlCache, one    *)
(* and the same for Kamino, one each for Lulo, fetches when the entry is   *)
(* not fresh, and falls back to the stale entry it read before the fetch   *)
(* when the fetch fails.  Code between two awaits is one step.  A value is *)
(* the time at which the server sampled it, so its age can be measured.    *)
(***************************************************************************)
EXTENDS TtlCache, FiniteSets

CONSTANTS
    Queries,
    MaxFetch,       \* the longest a fetch takes: FetchRetry's Budget
    MaxTime         \* bound on time

ASSUME ClientAssumption == MaxFetch \in Nat \ {0} /\ MaxTime \in Nat

VARIABLES
    source,     \* [Parts -> the cache a part reads]: which backend this is
    entries,    \* [Caches -> the entries of the cache]
    time,
    call,       \* [Queries -> [Parts -> the fetch in flight, {} or one record]]
    reading,    \* history: [Queries -> [Parts -> its last result, {} or one]]
    answered    \* [Queries -> the parts of its present query with a result]

clientVars == <<source, entries, time, call, reading, answered>>

Parts == {"yield", "risk"}
Caches == {"metrics", "rates", "pool"}

(* Mutant: a cache for each part. *)
KaminoApart == [yield |-> "rates", risk |-> "pool"]

Kamino == [yield |-> "metrics", risk |-> "metrics"]
Lulo == [yield |-> "rates", risk |-> "pool"]

ClientInit ==
    /\ source \in {Kamino, Lulo}
    /\ entries = [s \in Caches |-> <<>>]
    /\ time = 0
    /\ call = [q \in Queries |-> [p \in Parts |-> {}]]
    /\ reading = [q \in Queries |-> [p \in Parts |-> {}]]
    /\ answered = [q \in Queries |-> {}]

Cached(p) == Got(entries[source[p]], source[p], time)

Fresh(p) == {e \in Cached(p) : ~e.stale}

(* The fetch of a part that is not fresh, with the stale entry in hand. *)
Fetching(p) == {[began |-> time, cached |-> Cached(p)]}

Result(how, value) == {[how |-> how, value |-> value, at |-> time]}

(* router.ts:40: both parts are asked for before either is awaited.        *)
asks(q) ==
    /\ \A p \in Parts : call[q][p] = {}
    /\ entries' = [s \in Caches |->
           IF s \in {source[p] : p \in Parts} THEN AfterGet(entries[s], s, time) ELSE entries[s]]
    /\ call' = [call EXCEPT ![q] = [p \in Parts |-> IF Fresh(p) = {} THEN Fetching(p) ELSE {}]]
    /\ reading' = [reading EXCEPT ![q] = [p \in Parts |->
           IF Fresh(p) = {} THEN @[p]
           ELSE Result("fresh", (CHOOSE e \in Fresh(p) : TRUE).value)]]
    /\ answered' = [answered EXCEPT ![q] = {p \in Parts : Fresh(p) # {}}]
    /\ UNCHANGED <<source, time>>

Returns(q, p, how, value) ==
    /\ reading' = [reading EXCEPT ![q][p] = Result(how, value)]
    /\ answered' = [answered EXCEPT ![q] = @ \cup {p}]

(* fetchWithRetry resolves with a value sampled while the call was open. *)
resolves(q, p) ==
    \E f \in call[q][p] : \E sampled \in f.began..time :
        /\ entries' = [entries EXCEPT ![source[p]] = AfterSet(@, source[p], sampled, time)]
        /\ Returns(q, p, "fetched", sampled)
        /\ call' = [call EXCEPT ![q][p] = {}]
        /\ UNCHANGED <<source, time>>

(* Mutant: serving a stale value puts it back in the cache. *)
ServeStaleAndRecache(q, p, e) ==
    /\ Returns(q, p, "stale", e.value)
    /\ entries' = [entries EXCEPT ![source[p]] = AfterSet(@, source[p], e.value, time)]

ServeStale(q, p, e) == Returns(q, p, "stale", e.value) /\ UNCHANGED entries

(* It throws, or the body is malformed: the stale entry, else the error.   *)
fails(q, p) ==
    \E f \in call[q][p] :
        /\ \/ \E e \in f.cached : ServeStale(q, p, e)
           \/ f.cached = {} /\ UNCHANGED <<reading, answered, entries>>
        /\ call' = [call EXCEPT ![q][p] = {}]
        /\ UNCHANGED <<source, time>>

clearCache ==
    /\ entries' = [s \in Caches |->
           IF s \in {source[p] : p \in Parts} THEN <<>> ELSE entries[s]]
    /\ UNCHANGED <<source, time, call, reading, answered>>

MayWait(f) == time - f.began < MaxFetch

TimePasses ==
    /\ time < MaxTime
    /\ \A q \in Queries, p \in Parts : \A f \in call[q][p] : MayWait(f)
    /\ time' = time + 1
    /\ UNCHANGED <<source, entries, call, reading, answered>>

ClientNext ==
    \/ \E q \in Queries : asks(q)
    \/ \E q \in Queries, p \in Parts : resolves(q, p) \/ fails(q, p)
    \/ clearCache
    \/ TimePasses

ClientSpec == ClientInit /\ [][ClientNext]_clientVars

-----------------------------------------------------------------------------
(* kamino-api.ts:63-97: how old a rate may be when a caller gets it.  The  *)
(* windows of the cache run from the time of set, so a fetch may add its   *)
(* own length once to a fresh rate and twice to a stale one.               *)
MaxAge(how) ==
    CASE how = "fetched" -> MaxFetch
      [] how = "fresh"   -> ttlMs + MaxFetch
      [] how = "stale"   -> staleMs + 2 * MaxFetch

ServedAge ==
    \A q \in Queries, p \in Parts : \A r \in reading[q][p] : r.at - r.value <= MaxAge(r.how)

(* The readings of a caller never go back in time by more than one fetch,  *)
(* even when a slow fetch overwrites a newer rate, a failing one serves    *)
(* what it read earlier, or the cache is cleared in between.               *)
ReadingsAdvance ==
    [][ \A q \in Queries, p \in Parts : \A r \in reading[q][p], s \in reading'[q][p] :
          s.value >= r.value - MaxFetch ]_clientVars

(* router.ts:40-45: yield over risk of one answer.  Kamino's two parts are *)
(* of one sample when they come from its cache, and otherwise both were    *)
(* fetched or failed over; Lulo's may be of different ages, but no further *)
(* apart than a stale entry is old.                                        *)
PairSkew ==
    \A q \in Queries : answered[q] = Parts =>
        \A y \in reading[q].yield, r \in reading[q].risk :
            LET apart == IF y.value > r.value THEN y.value - r.value ELSE r.value - y.value
            IN  /\ source = Kamino /\ "fresh" \in {y.how, r.how} => y.value = r.value
                /\ source = Kamino /\ y.how = "fetched" /\ r.how = "fetched" => apart <= MaxFetch
                /\ apart <= staleMs + 2 * MaxFetch
=============================================================================
