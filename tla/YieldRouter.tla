----------------------------- MODULE YieldRouter -----------------------------
(***************************************************************************)
(* The router and the registry of packages/core (router.ts, registry.ts):  *)
(* concurrent getBestYields queries over the registered backends, each     *)
(* backend behind one breaker that all queries share.  Code between two    *)
(* awaits runs without interruption and is one action; the answers of the  *)
(* calls in flight arrive in any order.                                    *)
(***************************************************************************)
EXTENDS CircuitBreaker, Sequences, FiniteSets, SequencesExt

CONSTANTS
    Backends,               \* names
    Queries,                \* concurrent calls of getBestYields
    Assets, supportedAssets,    \* what each backend's capabilities list
    InitialBackends,        \* registered at the start, in order
    Mobile,                 \* backends registered and unregistered later
    Yields,                 \* answers: records of yield and volatility
    minVolatility,          \* 0.001, in the unit of volatilityScore
    MinYields,              \* query.minYield, NoMinYield if absent
    NoMinYield,
    HasLogger,
    MaxFailures             \* bound on failed calls

ASSUME RouterAssumption ==
    /\ supportedAssets \in [Backends -> SUBSET Assets]
    /\ InitialBackends \in Seq(Backends)
    /\ Mobile \subseteq Backends
    /\ \A y \in Yields : y.annualizedApy \in Nat /\ y.volatilityScore \in Nat
    /\ minVolatility \in Nat \ {0}
    /\ MinYields \subseteq Nat \cup {NoMinYield}
    /\ HasLogger \in BOOLEAN
    /\ MaxFailures \in Nat

VARIABLES
    registered,     \* registry: names in Map order
    breakers,       \* one per name; created on first use, as NewBreaker
    query,          \* the promises of each getBestYields call
    ranking,        \* what the last of them returned
    failures        \* history: failed calls so far

vars == <<registered, breakers, query, ranking, failures>>

NoAnswers == [b \in {} |-> 0]

(* waiting, rejected, DOMAIN fulfilled: the states of the query's promises. *)
Idle == [running |-> FALSE, minYield |-> NoMinYield, order |-> <<>>, waiting |-> {},
         rejected |-> {}, fulfilled |-> NoAnswers]

Init ==
    /\ registered = InitialBackends
    /\ breakers = [b \in Backends |-> NewBreaker]
    /\ query = [q \in Queries |-> Idle]
    /\ ranking = [q \in Queries |-> <<>>]
    /\ failures = 0

-----------------------------------------------------------------------------
(* registry *)

register(b) ==
    /\ ~Contains(registered, b)
    /\ registered' = Append(registered, b)
    /\ UNCHANGED <<breakers, query, ranking, failures>>

unregister(b) ==
    /\ \E i \in DOMAIN registered :
          registered[i] = b /\ registered' = RemoveAt(registered, i)
    /\ UNCHANGED <<breakers, query, ranking, failures>>

-----------------------------------------------------------------------------
(* router *)

(* To the first await: every breaker's `execute' has run its check. *)
getBestYields(q, asset, minYield) ==
    LET asked == {b \in ToSet(registered) : asset \in supportedAssets[b]}
        seen  == [b \in Backends |-> IF b \in asked THEN Observed(breakers[b])
                                                    ELSE breakers[b]]
        open  == {b \in asked : seen[b].state = "OPEN"}
    IN  /\ ~query[q].running
        /\ breakers' = seen
        /\ query' = [query EXCEPT ![q] =
               [running |-> TRUE, minYield |-> minYield, order |-> registered,
                waiting |-> asked \ open,
                rejected |-> open, fulfilled |-> NoAnswers]]
        /\ ranking' = [ranking EXCEPT ![q] = <<>>]
        /\ UNCHANGED <<registered, failures>>

Fulfilled(r, b, y) ==
    [r EXCEPT !.waiting = @ \ {b},
              !.fulfilled = [x \in DOMAIN @ \cup {b} |-> IF x = b THEN y ELSE @[x]]]

Rejected(r, b) == [r EXCEPT !.waiting = @ \ {b}, !.rejected = @ \cup {b}]

(* A backend answers; the breaker's onSuccess runs. *)
answers(q, b, y) ==
    /\ b \in query[q].waiting
    /\ breakers' = [breakers EXCEPT ![b] = onSuccess(@)]
    /\ query' = [query EXCEPT ![q] = Fulfilled(@, b, y)]
    /\ UNCHANGED <<registered, ranking, failures>>

(* A backend's call rejects; the breaker's onFailure runs. *)
rejects(q, b) ==
    /\ failures < MaxFailures
    /\ b \in query[q].waiting
    /\ breakers' = [breakers EXCEPT ![b] = onFailure(@)]
    /\ query' = [query EXCEPT ![q] = Rejected(@, b)]
    /\ failures' = failures + 1
    /\ UNCHANGED <<registered, ranking>>

(* Mutant: without the floor. *)
RawVolatility(y) == y.volatilityScore

Volatility(y) == IF y.volatilityScore > minVolatility THEN y.volatilityScore ELSE minVolatility

(* riskAdjustedScore of y above that of z, as a product of both quotients. *)
ScoresAbove(y, z) == y.annualizedApy * Volatility(z) > z.annualizedApy * Volatility(y)

Listed(r) ==
    {b \in DOMAIN r.fulfilled :
        r.minYield = NoMinYield \/ r.fulfilled[b].annualizedApy >= r.minYield}

(* Position i of the order comes before position j: best score first; the  *)
(* sort is stable, so ties keep the order that the registry had when the   *)
(* query began.                                                            *)
RanksAbove(r, i, j) ==
    LET at(k) == r.fulfilled[r.order[k]]
    IN  \/ ScoresAbove(at(i), at(j))
        \/ ~ScoresAbove(at(j), at(i)) /\ i < j

Ranking(r) ==
    LET listed == {i \in DOMAIN r.order : r.order[i] \in Listed(r)}
        place(i) == Cardinality({j \in listed : RanksAbove(r, j, i)}) + 1
    IN  [k \in 1..Cardinality(listed) |-> r.order[CHOOSE i \in listed : place(i) = k]]

(* Mutant: Promise.all, which only resolves when every call fulfils. *)
AllFulfilled(r) == r.waiting = {} /\ r.rejected = {}

AllSettled(r) == r.waiting = {}

(* The rest of getBestYields; the warning reads the state of the breakers. *)
returns(q) ==
    LET r == query[q]
    IN  /\ r.running
        /\ AllSettled(r)
        /\ breakers' = [b \in Backends |->
               IF HasLogger /\ b \in r.rejected
               THEN Observed(breakers[b]) ELSE breakers[b]]
        /\ query' = [query EXCEPT ![q].running = FALSE]
        /\ ranking' = [ranking EXCEPT ![q] = Ranking(r)]
        /\ UNCHANGED <<registered, failures>>

Tick ==
    /\ breakers' = [b \in Backends |-> Older(breakers[b])]
    /\ UNCHANGED <<registered, query, ranking, failures>>

Next ==
    \/ \E b \in Mobile : register(b)
    \/ \E b \in Mobile : unregister(b)
    \/ \E q \in Queries, a \in Assets, m \in MinYields : getBestYields(q, a, m)
    \/ \E q \in Queries, b \in Backends, y \in Yields : answers(q, b, y)
    \/ \E q \in Queries, b \in Backends : rejects(q, b)
    \/ \E q \in Queries : returns(q)
    \/ Tick

Spec == Init /\ [][Next]_vars

(* Calls end (fetch-retry.ts aborts every attempt), promises that settled  *)
(* are resumed, time passes, and the keeper polls.                         *)
Settles(q, b) == rejects(q, b) \/ \E y \in Yields : answers(q, b, y)
Polls(q) == \E a \in Assets, m \in MinYields : getBestYields(q, a, m)

FairSpec ==
    /\ Spec
    /\ \A q \in Queries : WF_vars(returns(q)) /\ WF_vars(Polls(q))
    /\ \A q \in Queries, b \in Backends : WF_vars(Settles(q, b))
    /\ WF_vars(Tick)

-----------------------------------------------------------------------------
(* Properties *)

Query ==
    [running : BOOLEAN, minYield : Nat \cup {NoMinYield}, order : Seq(Backends),
     waiting : SUBSET Backends, rejected : SUBSET Backends,
     fulfilled : UNION {[S -> Yields] : S \in SUBSET Backends}]

(* Each promise of a query is pending, rejected or fulfilled, never two of *)
(* them, and a query that returned has none pending.                       *)
TypeOK ==
    /\ registered \in Seq(Backends)
    /\ breakers \in [Backends -> Breaker]
    /\ query \in [Queries -> Query]
    /\ \A q \in Queries :
          LET r == query[q]
          IN  /\ r.waiting \cap (r.rejected \cup DOMAIN r.fulfilled) = {}
              /\ r.rejected \cap DOMAIN r.fulfilled = {}
              /\ r.running \/ r.waiting = {}
    /\ failures \in Nat

(* A breaker lets calls through exactly while its count is below the       *)
(* threshold or its timeout has passed, however the answers of calls that  *)
(* were in flight when it tripped arrive afterwards.                       *)
StateMatchesCount ==
    \A b \in Backends :
        LET k == breakers[b]
        IN  /\ k.state = "CLOSED" <=> k.failureCount < failureThreshold
            /\ k.state = "HALF_OPEN" => k.age = resetTimeoutMs

(* The three-state breakers implement the gate: a query calls exactly the  *)
(* backends the gate admits when it begins, and withholds none of them,    *)
(* whatever answers of earlier queries arrive late.                        *)
Gate == INSTANCE FailureGate WITH
    enrolled <- ToSet(registered),
    busy    <- [q \in Queries |-> query[q].running],
    streak  <- [b \in Backends |-> breakers[b].failureCount],
    age     <- [b \in Backends |-> breakers[b].age],
    waiting <- [q \in Queries |-> query[q].waiting]

BreakersGateCalls == Gate!GateSpec

(* A backend with a higher yield and no higher volatility than another is  *)
(* never ranked below it, at any volatility, zero included: dividing by    *)
(* the floored volatility keeps the order of dominance.                    *)
DominanceRespected ==
    \A q \in Queries :
        LET r == query[q]
            answer(k) == r.fulfilled[ranking[q][k]]
        IN  \A j, k \in DOMAIN ranking[q] :
                /\ answer(j).annualizedApy > answer(k).annualizedApy
                /\ answer(j).volatilityScore <= answer(k).volatilityScore
                => j < k

(* Every query returns, whatever backends fail and breakers trip. *)
QueriesReturn == \A q \in Queries : query[q].running ~> ~query[q].running

(* A query that asked b has not returned. *)
Asked(b) ==
    \E q \in Queries :
        /\ query[q].running
        /\ b \in query[q].waiting \cup query[q].rejected \cup DOMAIN query[q].fulfilled

(* Backends that stop failing are used again: the breaker of a backend     *)
(* that queries keep asking closes for good, although calls that fail late *)
(* may still trip it after it closed.                                      *)
BreakersRecover ==
    \A b \in Backends : []<>Asked(b) => <>[](breakers[b].state = "CLOSED")
=============================================================================
