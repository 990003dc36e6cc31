------------------------- MODULE YieldRouterProofs -------------------------
(***************************************************************************)
(* Theorems about YieldRouter, for any backends, any number of concurrent  *)
(* queries, any threshold and any timeout.  The inductive invariant is     *)
(* TypeOK and StateMatchesCount together: that a breaker's state is a      *)
(* function of its count and age is what makes it a gate.  What a query    *)
(* returned stays the ranking of the answers it holds (RankingInv), and    *)
(* ranking by quotients is a total order of the answers it lists.          *)
(***************************************************************************)
EXTENDS YieldRouter, DataLemmas, SequenceTheorems

(* A breaker whose state agrees with its count and age. *)
Agrees(b) ==
    /\ b \in Breaker
    /\ b.state = "CLOSED" <=> b.failureCount < failureThreshold
    /\ b.state = "HALF_OPEN" => b.age = resetTimeoutMs

(* A new breaker is closed, with no failures. *)
LEMMA NewAgrees == Agrees(NewBreaker)
  BY BreakerAssumption DEF BreakerAssumption, Agrees, NewBreaker, Breaker, CircuitState

(* The getter changes neither count nor age, and what it finds open is     *)
(* exactly what the gate does not admit.                                   *)
LEMMA ObservedAgrees ==
    ASSUME NEW b, Agrees(b)
    PROVE  /\ Agrees(Observed(b))
           /\ Observed(b).failureCount = b.failureCount
           /\ Observed(b).age = b.age
           /\ Observed(b).state = "OPEN"
                <=> ~(b.failureCount < failureThreshold \/ b.age = resetTimeoutMs)
  BY BreakerAssumption DEF BreakerAssumption, Agrees, Observed, Breaker, CircuitState

(* A success clears the count. *)
LEMMA SuccessAgrees ==
    ASSUME NEW b, Agrees(b)
    PROVE  /\ Agrees(onSuccess(b))
           /\ onSuccess(b).failureCount = 0
           /\ onSuccess(b).age = b.age
<1>1. /\ onSuccess(b) \in Breaker
      /\ onSuccess(b).state = "CLOSED"
      /\ onSuccess(b).failureCount = 0
      /\ onSuccess(b).age = b.age
  BY DEF Agrees, onSuccess, Breaker, CircuitState
<1> QED BY <1>1, BreakerAssumption DEF BreakerAssumption, Agrees

(* A failure counts, and starts the timeout again. *)
LEMMA FailureAgrees ==
    ASSUME NEW b, Agrees(b)
    PROVE  /\ Agrees(onFailure(b))
           /\ onFailure(b).failureCount = b.failureCount + 1
           /\ onFailure(b).age = 0
<1> DEFINE after == IF b.failureCount + 1 >= failureThreshold THEN "OPEN" ELSE b.state
<1>1. /\ b \in Breaker /\ b.failureCount \in Nat /\ b.state \in CircuitState
      /\ failureThreshold \in Nat /\ resetTimeoutMs \in Nat
  BY BreakerAssumption DEF BreakerAssumption, Agrees, Breaker
<1>2. after \in CircuitState
  BY <1>1 DEF CircuitState
<1>3. onFailure(b) = [state |-> after, failureCount |-> b.failureCount + 1, age |-> 0]
  BY DEF onFailure
<1>4. onFailure(b) \in Breaker
  BY <1>1, <1>2, <1>3 DEF Breaker
<1>5. after = "CLOSED" <=> b.failureCount + 1 < failureThreshold
  BY <1>1 DEF Agrees
<1>6. after # "HALF_OPEN"
  BY <1>1 DEF Agrees, CircuitState
<1> QED BY <1>3, <1>4, <1>5, <1>6 DEF Agrees

(* Time changes the age alone. *)
LEMMA OlderAgrees ==
    ASSUME NEW b, Agrees(b)
    PROVE  /\ Agrees(Older(b))
           /\ Older(b).failureCount = b.failureCount
           /\ Older(b).age = IF b.age < resetTimeoutMs THEN b.age + 1 ELSE b.age
  BY BreakerAssumption DEF BreakerAssumption, Agrees, Older, Breaker, CircuitState

-----------------------------------------------------------------------------
Inv == TypeOK /\ StateMatchesCount

(* What TypeOK says of one query. *)
Promises(r) ==
    /\ r \in Query
    /\ r.waiting \cap (r.rejected \cup DOMAIN r.fulfilled) = {}
    /\ r.rejected \cap DOMAIN r.fulfilled = {}
    /\ r.running \/ r.waiting = {}

(* The invariant, one query and one breaker at a time. *)
LEMMA InvByParts ==
    Inv <=> /\ registered \in Seq(Backends)
            /\ breakers = [b \in Backends |-> breakers[b]]
            /\ \A b \in Backends : Agrees(breakers[b])
            /\ query = [q \in Queries |-> query[q]]
            /\ \A q \in Queries : Promises(query[q])
            /\ failures \in Nat
<1>1. ASSUME Inv
      PROVE  /\ \A b \in Backends : Agrees(breakers[b])
             /\ \A q \in Queries : Promises(query[q])
  BY <1>1 DEF Inv, TypeOK, StateMatchesCount, Agrees, Promises
<1>2. ASSUME /\ \A b \in Backends : Agrees(breakers[b])
             /\ \A q \in Queries : Promises(query[q])
             /\ breakers = [b \in Backends |-> breakers[b]]
             /\ query = [q \in Queries |-> query[q]]
             /\ registered \in Seq(Backends) /\ failures \in Nat
      PROVE  Inv
  <2>1. \A b \in Backends : breakers[b] \in Breaker
    BY <1>2 DEF Agrees
  <2>2. \A q \in Queries : query[q] \in Query
    BY <1>2 DEF Promises
  <2>3. breakers \in [Backends -> Breaker] /\ query \in [Queries -> Query]
    BY <1>2, <2>1, <2>2
  <2> QED BY <1>2, <2>3 DEF Inv, TypeOK, StateMatchesCount, Agrees, Promises
<1> QED BY <1>1, <1>2 DEF Inv, TypeOK

(* Every breaker starts closed and no query is running. *)
LEMMA InvInit == Init => Inv
<1> SUFFICES ASSUME Init PROVE Inv
  OBVIOUS
<1> USE RouterAssumption DEF RouterAssumption, Init
<1>1. breakers \in [Backends -> Breaker] /\ StateMatchesCount
  BY NewAgrees DEF Agrees, StateMatchesCount
<1>2. Idle \in Query
  <2>1. NoAnswers \in [{} -> Yields]
    BY DEF NoAnswers
  <2>2. NoAnswers \in UNION {[S -> Yields] : S \in SUBSET Backends}
    BY <2>1
  <2>3. <<>> \in Seq(Backends)
    OBVIOUS
  <2> QED BY <2>2, <2>3 DEF Idle, Query
<1>3. query \in [Queries -> Query]
  BY <1>2
<1> QED BY <1>1, <1>3 DEF Inv, TypeOK, Idle, NoAnswers

(* Registering a name not listed, or removing one position, leaves a       *)
(* sequence of names.                                                      *)
LEMMA RegistryStays ==
    ASSUME Inv, NEW b \in Backends, register(b) \/ unregister(b)
    PROVE  registered' \in Seq(Backends)
<1>1. registered \in Seq(Backends)
  BY DEF Inv, TypeOK
<1>2. CASE register(b)
  BY <1>1, <1>2 DEF register
<1>3. CASE unregister(b)
  <2>1. PICK i \in DOMAIN registered : registered' = RemoveAt(registered, i)
    BY <1>3 DEF unregister
  <2>2. /\ SubSeq(registered, 1, i-1) \in Seq(Backends)
        /\ SubSeq(registered, i+1, Len(registered)) \in Seq(Backends)
    BY <1>1
  <2>3. RemoveAt(registered, i) \in Seq(Backends)
    BY <2>2 DEF RemoveAt
  <2> QED BY <2>1, <2>3
<1> QED BY <1>2, <1>3

(* A query that begins has the promises of the backends it called pending  *)
(* and those of the backends behind open breakers rejected.                *)
LEMMA PromisesBegin ==
    ASSUME Inv, NEW q \in Queries, NEW a \in Assets, NEW m \in MinYields,
           getBestYields(q, a, m)
    PROVE  /\ \A b \in Backends :
                 breakers'[b] = breakers[b] \/ breakers'[b] = Observed(breakers[b])
           /\ Promises(query'[q])
<1> DEFINE asked == {b \in ToSet(registered) : a \in supportedAssets[b]}
           open == {b \in asked : breakers'[b].state = "OPEN"}
<1>1. registered \in Seq(Backends) /\ query \in [Queries -> Query]
  BY DEF Inv, TypeOK
<1>2. asked \subseteq Backends
  BY <1>1 DEF ToSet
<1>3. breakers' = [b \in Backends |-> IF b \in asked THEN Observed(breakers[b])
                                                    ELSE breakers[b]]
  BY DEF getBestYields
<1>4. query'[q] = [running |-> TRUE, minYield |-> m, order |-> registered,
                   waiting |-> asked \ open, rejected |-> open,
                   fulfilled |-> NoAnswers]
  BY <1>1, <1>2, <1>3 DEF getBestYields
<1>5. NoAnswers \in UNION {[S -> Yields] : S \in SUBSET Backends} /\ DOMAIN NoAnswers = {}
  <2>1. NoAnswers \in [{} -> Yields]
    BY DEF NoAnswers
  <2> QED BY <2>1
<1>6. m \in Nat \cup {NoMinYield}
  BY RouterAssumption DEF RouterAssumption
<1>7. query'[q] \in Query
  <2>1. asked \ open \in SUBSET Backends /\ open \in SUBSET Backends
    BY <1>2
  <2>2. ASSUME NEW w \in SUBSET Backends, NEW o \in SUBSET Backends
        PROVE  [running |-> TRUE, minYield |-> m, order |-> registered, waiting |-> w,
                rejected |-> o, fulfilled |-> NoAnswers] \in Query
    BY <1>1, <1>5, <1>6 DEF Query
  <2> HIDE DEF asked, open
  <2> QED BY <1>4, <2>1, <2>2
<1> QED BY <1>3, <1>4, <1>5, <1>7 DEF Promises

(* A promise that is rejected is no longer pending. *)
LEMMA PromiseRejected ==
    ASSUME NEW r, Promises(r), NEW b \in r.waiting
    PROVE  /\ Promises(Rejected(r, b))
           /\ Rejected(r, b).waiting = r.waiting \ {b}
           /\ Rejected(r, b).running = r.running
<1>1. r \in Query /\ b \in Backends
  BY DEF Promises, Query
<1>2. Rejected(r, b) = [r EXCEPT !.waiting = r.waiting \ {b},
                                !.rejected = r.rejected \cup {b}]
  BY DEF Rejected
<1>3. r.waiting \ {b} \in SUBSET Backends /\ r.rejected \cup {b} \in SUBSET Backends
  BY <1>1 DEF Query
<1>4. /\ Rejected(r, b) \in Query
      /\ Rejected(r, b).waiting = r.waiting \ {b}
      /\ Rejected(r, b).fulfilled = r.fulfilled
      /\ Rejected(r, b).rejected = r.rejected \cup {b}
      /\ Rejected(r, b).running = r.running
  BY <1>1, <1>2, <1>3 DEF Query
<1> QED BY <1>4 DEF Promises

(* A promise that is fulfilled is no longer pending. *)
LEMMA PromiseFulfilled ==
    ASSUME NEW r, Promises(r), NEW b \in r.waiting, NEW y \in Yields
    PROVE  /\ Promises(Fulfilled(r, b, y))
           /\ Fulfilled(r, b, y).waiting = r.waiting \ {b}
           /\ Fulfilled(r, b, y).running = r.running
<1> DEFINE f == [x \in DOMAIN r.fulfilled \cup {b} |->
                    IF x = b THEN y ELSE r.fulfilled[x]]
<1>1. r \in Query /\ b \in Backends
  BY DEF Promises, Query
<1>2. PICK S \in SUBSET Backends : r.fulfilled \in [S -> Yields]
  BY <1>1 DEF Query
<1>3. f \in [S \cup {b} -> Yields] /\ DOMAIN f = DOMAIN r.fulfilled \cup {b}
  BY <1>2
<1>4. f \in UNION {[T -> Yields] : T \in SUBSET Backends}
  BY <1>1, <1>3
<1>5. Fulfilled(r, b, y) = [r EXCEPT !.waiting = r.waiting \ {b}, !.fulfilled = f]
  BY DEF Fulfilled
<1>6. r.waiting \ {b} \in SUBSET Backends
  BY <1>1 DEF Query
<1> HIDE DEF f
<1>7. /\ Fulfilled(r, b, y) \in Query
      /\ Fulfilled(r, b, y).waiting = r.waiting \ {b}
      /\ Fulfilled(r, b, y).fulfilled = f
      /\ Fulfilled(r, b, y).rejected = r.rejected
      /\ Fulfilled(r, b, y).running = r.running
  BY <1>1, <1>4, <1>5, <1>6 DEF Query
<1> QED BY <1>3, <1>7 DEF Promises

(* Every step keeps each breaker in agreement and each query's promises in *)
(* one state.                                                              *)
LEMMA InvNext == Inv /\ [Next]_vars => Inv'
<1> SUFFICES ASSUME Inv, [Next]_vars PROVE Inv'
  OBVIOUS
<1> DEFINE BreakersOK == /\ breakers' = [b \in Backends |-> breakers'[b]]
                         /\ \A b \in Backends : Agrees(breakers'[b])
           QueriesOK == /\ query' = [q \in Queries |-> query'[q]]
                        /\ \A q \in Queries : Promises(query'[q])
<1>0. /\ registered \in Seq(Backends) /\ failures \in Nat
      /\ breakers = [b \in Backends |-> breakers[b]]
      /\ query = [q \in Queries |-> query[q]]
      /\ \A b \in Backends : Agrees(breakers[b])
      /\ \A q \in Queries : Promises(query[q])
  BY InvByParts
<1>1. ASSUME NEW b \in Mobile, register(b) \/ unregister(b)
      PROVE  registered' \in Seq(Backends) /\ UNCHANGED <<breakers, query, failures>>
  BY <1>1, RegistryStays, RouterAssumption DEF register, unregister, RouterAssumption
<1>2. ASSUME NEW q \in Queries, NEW a \in Assets, NEW m \in MinYields,
             getBestYields(q, a, m)
      PROVE  BreakersOK /\ QueriesOK /\ UNCHANGED <<registered, failures>>
  <2>1. BreakersOK
    BY <1>0, <1>2, PromisesBegin, ObservedAgrees DEF getBestYields
  <2>2. QueriesOK
    BY <1>0, <1>2, PromisesBegin DEF getBestYields
  <2> QED BY <1>2, <2>1, <2>2 DEF getBestYields
<1>3. ASSUME NEW q \in Queries, NEW b \in Backends, NEW y \in Yields, answers(q, b, y)
      PROVE  BreakersOK /\ QueriesOK /\ UNCHANGED <<registered, failures>>
  <2>1. Promises(Fulfilled(query[q], b, y))
    BY <1>0, <1>3, PromiseFulfilled DEF answers
  <2>2. Agrees(onSuccess(breakers[b]))
    BY <1>0, SuccessAgrees
  <2> QED BY <1>0, <1>3, <2>1, <2>2 DEF answers
<1>4. ASSUME NEW q \in Queries, NEW b \in Backends, rejects(q, b)
      PROVE  BreakersOK /\ QueriesOK /\ registered' = registered /\ failures' \in Nat
  <2>1. Promises(Rejected(query[q], b))
    BY <1>0, <1>4, PromiseRejected DEF rejects
  <2>2. Agrees(onFailure(breakers[b]))
    BY <1>0, FailureAgrees
  <2> QED BY <1>0, <1>4, <2>1, <2>2 DEF rejects
<1>5. ASSUME NEW q \in Queries, returns(q)
      PROVE  BreakersOK /\ QueriesOK /\ UNCHANGED <<registered, failures>>
  <2>1. BreakersOK
    BY <1>0, <1>5, ObservedAgrees DEF returns
  <2>2. Promises([query[q] EXCEPT !.running = FALSE])
    BY <1>0, <1>5 DEF returns, AllSettled, Promises, Query
  <2> QED BY <1>0, <1>5, <2>1, <2>2 DEF returns
<1>6. ASSUME Tick
      PROVE  BreakersOK /\ UNCHANGED <<query, registered, failures>>
  BY <1>0, <1>6, OlderAgrees DEF Tick
<1>7. ASSUME BreakersOK, QueriesOK, registered' \in Seq(Backends), failures' \in Nat
      PROVE  Inv'
  <2>1. \A b \in Backends : breakers'[b] \in Breaker
    BY <1>7 DEF Agrees
  <2>2. \A q \in Queries : query'[q] \in Query
    BY <1>7 DEF Promises
  <2>3. breakers' \in [Backends -> Breaker] /\ query' \in [Queries -> Query]
    BY <1>7, <2>1, <2>2
  <2> QED BY <1>7, <2>3 DEF Inv, TypeOK, StateMatchesCount, Agrees, Promises
<1>8. UNCHANGED <<breakers, query>> => BreakersOK /\ QueriesOK
  BY <1>0
<1>9. UNCHANGED query => QueriesOK
  BY <1>0
<1> HIDE DEF BreakersOK, QueriesOK
<1>10. CASE Next
  BY <1>0, <1>1, <1>2, <1>3, <1>4, <1>5, <1>6, <1>7, <1>8, <1>9, <1>10 DEF Next
<1>11. CASE UNCHANGED vars
  BY <1>0, <1>7, <1>8, <1>11 DEF vars
<1> QED BY <1>10, <1>11

(* Inv holds in every state of every behaviour. *)
LEMMA InvHolds == Spec => []Inv
  BY InvInit, InvNext, PTL DEF Spec

(* The registry is a list of names, each breaker a breaker and each query  *)
(* a set of promises in one state each, for any interleaving.              *)
THEOREM RouterTypeCorrect == Spec => []TypeOK
<1>1. Inv => TypeOK
  BY DEF Inv
<1> QED BY <1>1, InvHolds, PTL

(* A breaker is closed exactly below the threshold, and half open only     *)
(* after its timeout, whatever answers arrive after it tripped.            *)
THEOREM BreakersAgreeWithCounts == Spec => []StateMatchesCount
<1>1. Inv => StateMatchesCount
  BY DEF Inv
<1> QED BY <1>1, InvHolds, PTL

-----------------------------------------------------------------------------
(* The breakers start as the gate does. *)
LEMMA GateInitial == Init => Gate!GateInit
<1> SUFFICES ASSUME Init PROVE Gate!GateInit
  OBVIOUS
<1>1. ToSet(registered) \in SUBSET Backends
  BY RouterAssumption DEF RouterAssumption, Init, ToSet
<1> QED BY <1>1 DEF Init, Gate!GateInit, NewBreaker, Idle

(* Every step of the router is a step of the gate or leaves it alone.  *)
LEMMA GateStep == Inv /\ [Next]_vars => [Gate!GateNext]_(Gate!gateVars)
<1> SUFFICES ASSUME Inv, [Next]_vars
             PROVE  Gate!GateNext \/ UNCHANGED Gate!gateVars
  OBVIOUS
<1> DEFINE streak == [b \in Backends |-> breakers[b].failureCount]
           age == [b \in Backends |-> breakers[b].age]
           waiting == [q \in Queries |-> query[q].waiting]
           busy == [q \in Queries |-> query[q].running]
<1>0. /\ breakers = [b \in Backends |-> breakers[b]]
      /\ query = [q \in Queries |-> query[q]]
      /\ \A b \in Backends : Agrees(breakers[b])
      /\ \A q \in Queries : Promises(query[q])
      /\ registered \in Seq(Backends)
  BY InvByParts
<1>1. ASSUME NEW b \in Mobile, register(b) \/ unregister(b)
      PROVE  Gate!Enrol
  <2>1. registered' \in Seq(Backends)
    BY <1>1, RegistryStays, InvByParts, RouterAssumption DEF RouterAssumption
  <2>2. ToSet(registered') \in SUBSET Backends
    BY <2>1 DEF ToSet
  <2>3. breakers' = breakers /\ query' = query
    BY <1>1 DEF register, unregister
  <2> QED BY <2>2, <2>3 DEF Gate!Enrol, ToSet
<1>2. ASSUME NEW q \in Queries, NEW a \in Assets, NEW m \in MinYields,
             getBestYields(q, a, m)
      PROVE  Gate!Ask(q, a)
  <2> DEFINE asked == {b \in ToSet(registered) : a \in supportedAssets[b]}
             open == {b \in asked : breakers'[b].state = "OPEN"}
  <2>1. asked \in SUBSET Backends
    BY <1>0 DEF ToSet
  <2>2. breakers' = [b \in Backends |-> IF b \in asked THEN Observed(breakers[b])
                                                      ELSE breakers[b]]
    BY <1>2 DEF getBestYields
  <2>3. \A b \in Backends : /\ breakers'[b].failureCount = breakers[b].failureCount
                            /\ breakers'[b].age = breakers[b].age
    BY <1>0, <2>2, ObservedAgrees
  <2>4. streak' = streak /\ age' = age
    BY <2>3
  <2>5. \A b \in asked : b \in open <=>
            ~(streak[b] < failureThreshold \/ age[b] = resetTimeoutMs)
    BY <1>0, <2>1, <2>2, ObservedAgrees
  <2>6. asked \ open = {b \in ToSet(registered) :
                           a \in supportedAssets[b] /\ Gate!Admitted(b)}
    BY <2>1, <2>5 DEF Gate!Admitted
  <2>7. waiting' = [waiting EXCEPT ![q] = asked \ open]
    <3>1. query'[q].waiting = asked \ open
      BY <1>0, <1>2, <2>1, <2>2 DEF getBestYields
    <3>2. \A p \in Queries \ {q} : query'[p] = query[p]
      BY <1>0, <1>2 DEF getBestYields
    <3> HIDE DEF asked, open
    <3> QED BY <3>1, <3>2
  <2>8. ~busy[q] /\ busy' = [busy EXCEPT ![q] = TRUE]
    <3>1. ~query[q].running /\ query'[q].running = TRUE
      BY <1>0, <1>2 DEF getBestYields
    <3>2. \A p \in Queries \ {q} : query'[p] = query[p]
      BY <1>0, <1>2 DEF getBestYields
    <3>3. \A p \in Queries : busy'[p] = IF p = q THEN TRUE ELSE busy[p]
      BY <3>1, <3>2
    <3> QED BY <3>1, <3>3
  <2>9. registered' = registered
    BY <1>2 DEF getBestYields
  <2> HIDE DEF asked, open
  <2> QED BY <2>4, <2>6, <2>7, <2>8, <2>9 DEF Gate!Ask
<1>3. ASSUME NEW q \in Queries, NEW b \in Backends, NEW y \in Yields, answers(q, b, y)
      PROVE  Gate!Succeed(q, b)
  <2>1. /\ Fulfilled(query[q], b, y).waiting = query[q].waiting \ {b}
        /\ Fulfilled(query[q], b, y).running = query[q].running
    BY <1>0, <1>3, PromiseFulfilled DEF answers
  <2>2. /\ onSuccess(breakers[b]).failureCount = 0
        /\ onSuccess(breakers[b]).age = breakers[b].age
    BY <1>0, SuccessAgrees
  <2> QED BY <1>0, <1>3, <2>1, <2>2 DEF answers, Gate!Succeed
<1>4. ASSUME NEW q \in Queries, NEW b \in Backends, rejects(q, b)
      PROVE  Gate!Fail(q, b)
  <2>1. /\ Rejected(query[q], b).waiting = query[q].waiting \ {b}
        /\ Rejected(query[q], b).running = query[q].running
    BY <1>0, <1>4, PromiseRejected DEF rejects
  <2>2. /\ onFailure(breakers[b]).failureCount = breakers[b].failureCount + 1
        /\ onFailure(breakers[b]).age = 0
    BY <1>0, FailureAgrees
  <2> QED BY <1>0, <1>4, <2>1, <2>2 DEF rejects, Gate!Fail
<1>5. ASSUME NEW q \in Queries, returns(q)
      PROVE  Gate!Return(q)
  <2>1. \A b \in Backends : /\ breakers'[b].failureCount = breakers[b].failureCount
                            /\ breakers'[b].age = breakers[b].age
    BY <1>0, <1>5, ObservedAgrees DEF returns
  <2>2. /\ query'[q].waiting = query[q].waiting /\ query'[q].running = FALSE
        /\ query[q].waiting = {} /\ query[q].running
        /\ \A p \in Queries \ {q} : query'[p] = query[p]
        /\ registered' = registered
    BY <1>0, <1>5 DEF returns, AllSettled, Promises, Query
  <2>3. \A p \in Queries : busy'[p] = IF p = q THEN FALSE ELSE busy[p]
    BY <2>2
  <2>4. busy' = [busy EXCEPT ![q] = FALSE]
    BY <2>3
  <2>5. waiting' = waiting /\ streak' = streak /\ age' = age
    BY <2>1, <2>2
  <2> QED BY <2>2, <2>4, <2>5 DEF Gate!Return
<1>6. ASSUME Tick
      PROVE  Gate!Pass
  <2>1. \A b \in Backends :
           /\ breakers'[b].failureCount = breakers[b].failureCount
           /\ breakers'[b].age = IF age[b] < resetTimeoutMs THEN age[b] + 1 ELSE age[b]
    BY <1>0, <1>6, OlderAgrees DEF Tick
  <2>2. query' = query /\ registered' = registered
    BY <1>6 DEF Tick
  <2> QED BY <2>1, <2>2 DEF Gate!Pass
<1>7. CASE UNCHANGED vars
  BY <1>7 DEF vars, Gate!gateVars
<1> QED
  BY <1>1, <1>2, <1>3, <1>4, <1>5, <1>6, <1>7 DEF Next, Gate!GateNext

(* The lazily evaluated three-state breakers implement the failure gate:   *)
(* for any threshold and timeout a query calls a backend exactly when the  *)
(* backend's streak of failures or the time since the last one allows it.  *)
THEOREM BreakersImplementGate == Spec => BreakersGateCalls
  BY GateInitial, GateStep, InvHolds, PTL DEF Spec, BreakersGateCalls, Gate!GateSpec

-----------------------------------------------------------------------------
(* Ranking *)

(* Comparing by cross multiplication is transitive. *)
LEMMA QuotientsCompare ==
    ASSUME NEW a \in Nat, NEW b \in Nat, NEW c \in Nat,
           NEW u \in Nat, NEW v \in Nat \ {0}, NEW w \in Nat,
           a * v <= b * u, b * w <= c * v
    PROVE  a * w <= c * u
<1>1. (a * v) * w <= (b * u) * w /\ (b * w) * u <= (c * v) * u
  <2>1. \A x, y \in Nat, z \in Nat : x <= y => x * z <= y * z
    OBVIOUS
  <2>2. a * v \in Nat /\ b * u \in Nat /\ b * w \in Nat /\ c * v \in Nat
    OBVIOUS
  <2> QED BY <2>1, <2>2
<1>2. /\ (a * v) * w = (a * w) * v /\ (b * u) * w = (b * w) * u
      /\ (c * v) * u = (c * u) * v
  OBVIOUS
<1>3. (a * w) * v <= (c * u) * v
  <2>1. (a * v) * w \in Nat /\ (b * u) * w \in Nat /\ (c * v) * u \in Nat
    OBVIOUS
  <2> QED BY <1>1, <1>2, <2>1
<1>4. \A x, y \in Nat : x * v <= y * v => x <= y
  OBVIOUS
<1>5. a * w \in Nat /\ c * u \in Nat
  OBVIOUS
<1> QED BY <1>3, <1>4, <1>5

(* The floor keeps every volatility positive. *)
LEMMA VolatilityType ==
    ASSUME NEW y \in Yields
    PROVE  /\ y.annualizedApy \in Nat /\ y.volatilityScore \in Nat
           /\ Volatility(y) \in Nat \ {0}
  BY RouterAssumption DEF RouterAssumption, Volatility

(* Scores are compared as a strict weak order. *)
LEMMA ScoresOrder ==
    ASSUME NEW x \in Yields, NEW y \in Yields, NEW z \in Yields
    PROVE  /\ ~ScoresAbove(x, x)
           /\ ScoresAbove(x, y) => ~ScoresAbove(y, x)
           /\ ~ScoresAbove(x, y) /\ ~ScoresAbove(y, z) => ~ScoresAbove(x, z)
<1> DEFINE a == x.annualizedApy    u == Volatility(x)
           b == y.annualizedApy    v == Volatility(y)
           c == z.annualizedApy    w == Volatility(z)
<1>1. /\ a \in Nat /\ b \in Nat /\ c \in Nat
      /\ u \in Nat \ {0} /\ v \in Nat \ {0} /\ w \in Nat \ {0}
  BY VolatilityType
<1>2. /\ ScoresAbove(x, x) <=> a * u > a * u
      /\ ScoresAbove(x, y) <=> a * v > b * u
      /\ ScoresAbove(y, x) <=> b * u > a * v
      /\ ScoresAbove(y, z) <=> b * w > c * v
      /\ ScoresAbove(x, z) <=> a * w > c * u
  BY DEF ScoresAbove
<1> HIDE DEF a, b, c, u, v, w
<1>3. /\ a * u \in Nat /\ a * v \in Nat /\ b * u \in Nat
      /\ b * w \in Nat /\ c * v \in Nat /\ a * w \in Nat /\ c * u \in Nat
  BY <1>1
<1>4. a * v <= b * u /\ b * w <= c * v => a * w <= c * u
  BY <1>1, QuotientsCompare
<1> QED BY <1>2, <1>3, <1>4

(* A higher yield at no higher volatility scores higher. *)
LEMMA DominantScoresAbove ==
    ASSUME NEW y \in Yields, NEW z \in Yields,
           y.annualizedApy > z.annualizedApy, y.volatilityScore <= z.volatilityScore
    PROVE  ScoresAbove(y, z)
<1> DEFINE a == y.annualizedApy    u == Volatility(y)
           b == z.annualizedApy    v == Volatility(z)
<1>1. a \in Nat /\ b \in Nat /\ u \in Nat \ {0} /\ v \in Nat \ {0} /\ a > b
  BY VolatilityType
<1>2. u <= v
  BY VolatilityType, RouterAssumption DEF RouterAssumption, Volatility
<1>3. ScoresAbove(y, z) <=> a * v > b * u
  BY DEF ScoresAbove
<1> HIDE DEF a, b, u, v
<1>4. b * u <= b * v
  BY <1>1, <1>2
<1>5. a * v > b * v
  <2>1. a * v = b * v + (a - b) * v /\ (a - b) * v > 0
    BY <1>1
  <2>2. b * v \in Int /\ (a - b) * v \in Int
    BY <1>1
  <2> QED BY <2>1, <2>2
<1>6. a * v \in Int /\ b * u \in Int /\ b * v \in Int
  BY <1>1
<1> QED BY <1>3, <1>4, <1>5, <1>6

(* The positions of a query's order whose answers are listed. *)
Positions(r) == {i \in DOMAIN r.order : r.order[i] \in Listed(r)}

Ranks(r) == {e \in Positions(r) \X Positions(r) : RanksAbove(r, e[1], e[2])}

(* The answers at the listed positions are yields. *)
LEMMA PositionsListAnswers ==
    ASSUME NEW r \in Query
    PROVE  /\ IsFiniteSet(Positions(r)) /\ Positions(r) \subseteq Nat
           /\ \A i \in Positions(r) : r.fulfilled[r.order[i]] \in Yields
<1>1. r.order \in Seq(Backends)
  BY DEF Query
<1>2. IsFiniteSet(1..Len(r.order))
  BY <1>1, FS_Interval
<1>3. Positions(r) \subseteq 1..Len(r.order)
  BY <1>1 DEF Positions
<1>4. PICK S \in SUBSET Backends : r.fulfilled \in [S -> Yields]
  BY DEF Query
<1> QED BY <1>2, <1>3, <1>4, FS_Subset DEF Positions, Listed

(* Ranks is a strict total order of the listed positions: positions with   *)
(* equal scores are told apart by where they stand.                        *)
LEMMA RanksAreTotal ==
    ASSUME NEW r \in Query
    PROVE  /\ \A i \in Positions(r) : <<i, i>> \notin Ranks(r)
           /\ \A i, j, k \in Positions(r) :
                 <<i, j>> \in Ranks(r) /\ <<j, k>> \in Ranks(r) => <<i, k>> \in Ranks(r)
           /\ \A i, j \in Positions(r) :
                 i = j \/ <<i, j>> \in Ranks(r) \/ <<j, i>> \in Ranks(r)
<1> DEFINE P == Positions(r)
           above(i, j) == ScoresAbove(r.fulfilled[r.order[i]], r.fulfilled[r.order[j]])
<1>1. P \subseteq Nat
  BY PositionsListAnswers
<1>2. \A i, j, k \in P : /\ ~above(i, i)
                         /\ above(i, j) => ~above(j, i)
                         /\ ~above(i, j) /\ ~above(j, k) => ~above(i, k)
  BY PositionsListAnswers, ScoresOrder
<1>3. \A i, j \in P : <<i, j>> \in Ranks(r) <=>
                      above(i, j) \/ (~above(j, i) /\ i < j)
  BY DEF Ranks, RanksAbove
<1> HIDE DEF P, above
<1>4. \A i \in P : <<i, i>> \notin Ranks(r)
  BY <1>1, <1>2, <1>3
<1>5. ASSUME NEW i \in P, NEW j \in P, NEW k \in P,
             <<i, j>> \in Ranks(r), <<j, k>> \in Ranks(r)
      PROVE  <<i, k>> \in Ranks(r)
  <2>1. i \in Nat /\ j \in Nat /\ k \in Nat
    BY <1>1
  <2>2. above(i, j) \/ (~above(j, i) /\ i < j)
    BY <1>3, <1>5
  <2>3. above(j, k) \/ (~above(k, j) /\ j < k)
    BY <1>3, <1>5
  <2>4. above(i, k) \/ (~above(k, i) /\ i < k)
    BY <1>2, <2>1, <2>2, <2>3
  <2> QED BY <1>3, <2>4
<1>6. ASSUME NEW i \in P, NEW j \in P
      PROVE  i = j \/ <<i, j>> \in Ranks(r) \/ <<j, i>> \in Ranks(r)
  <2>1. i < j \/ j < i \/ i = j
    BY <1>1
  <2>2. above(i, j) => ~above(j, i)
    BY <1>2
  <2>3. /\ <<i, j>> \in Ranks(r) <=> above(i, j) \/ (~above(j, i) /\ i < j)
        /\ <<j, i>> \in Ranks(r) <=> above(j, i) \/ (~above(i, j) /\ j < i)
    BY <1>3
  <2> QED BY <2>1, <2>2, <2>3
<1> QED BY <1>4, <1>5, <1>6 DEF P

(* What Ranking returns for a query: each place holds a listed position,   *)
(* and higher places hold positions that rank above.                       *)
LEMMA RankingFollowsRanks ==
    ASSUME NEW r \in Query
    PROVE  \E at \in [DOMAIN Ranking(r) -> Positions(r)] :
              /\ \A k \in DOMAIN Ranking(r) : Ranking(r)[k] = r.order[at[k]]
              /\ \A j, k \in DOMAIN Ranking(r) :
                    RanksAbove(r, at[j], at[k]) => j < k
<1> DEFINE P == Positions(r)
           place(i) == Cardinality({j \in P : RanksAbove(r, j, i)}) + 1
           n == Cardinality(P)
           at(k) == CHOOSE i \in P : place(i) = k
           f == [k \in 1..n |-> at(k)]
<1>1. IsFiniteSet(P) /\ n \in Nat
  BY PositionsListAnswers, FS_CardinalityType
<1>2. ASSUME NEW i \in P PROVE place(i) = Place(P, Ranks(r), i)
  <2>1. {j \in P : RanksAbove(r, j, i)} = {j \in P : <<j, i>> \in Ranks(r)}
    BY DEF Ranks
  <2> QED BY <2>1, Zenon DEF Place
<1>3. /\ \A k \in 1..n : \E i \in P : Place(P, Ranks(r), i) = k
      /\ \A i, j \in P : <<i, j>> \in Ranks(r) <=>
                            Place(P, Ranks(r), i) < Place(P, Ranks(r), j)
  <2> HIDE DEF P
  <2>1. P = Positions(r)
    BY DEF P
  <2> QED BY <1>1, <2>1, RanksAreTotal, PlacesFollowOrder
<1>4. \A i, j \in P : RanksAbove(r, i, j) => <<i, j>> \in Ranks(r)
  BY DEF Ranks
<1>5. Ranking(r) = [k \in 1..n |-> r.order[at(k)]]
  BY Zenon DEF Ranking, Positions
<1> HIDE DEF P, place, n
<1>6. ASSUME NEW k \in 1..n PROVE at(k) \in P /\ Place(P, Ranks(r), at(k)) = k
  <2>1. \E i \in P : place(i) = k
    BY <1>2, <1>3
  <2>2. at(k) \in P /\ place(at(k)) = k
    BY <2>1
  <2> QED BY <1>2, <2>2
<1> HIDE DEF at
<1>7. ASSUME NEW j \in 1..n, NEW k \in 1..n, RanksAbove(r, at(j), at(k))
      PROVE  j < k
  <2>1. <<at(j), at(k)>> \in Ranks(r)
    BY <1>4, <1>6, <1>7
  <2>2. Place(P, Ranks(r), at(j)) < Place(P, Ranks(r), at(k))
    BY <1>3, <1>6, <2>1
  <2> QED BY <1>6, <2>2
<1>8. f \in [1..n -> P] /\ \A k \in 1..n : f[k] = at(k)
  BY <1>6
<1>9. DOMAIN Ranking(r) = 1..n /\ \A k \in 1..n : Ranking(r)[k] = r.order[f[k]]
  BY <1>5, <1>8
<1> HIDE DEF f
<1>10. \A j, k \in 1..n : RanksAbove(r, f[j], f[k]) => j < k
  BY <1>7, <1>8
<1> QED BY <1>8, <1>9, <1>10 DEF P

(* A ranking respects dominance. *)
LEMMA RankingDominates ==
    ASSUME NEW r \in Query,
           NEW j \in DOMAIN Ranking(r), NEW k \in DOMAIN Ranking(r),
           r.fulfilled[Ranking(r)[j]].annualizedApy
             > r.fulfilled[Ranking(r)[k]].annualizedApy,
           r.fulfilled[Ranking(r)[j]].volatilityScore
             <= r.fulfilled[Ranking(r)[k]].volatilityScore
    PROVE  j < k
<1>1. PICK at \in [DOMAIN Ranking(r) -> Positions(r)] :
        /\ \A i \in DOMAIN Ranking(r) : Ranking(r)[i] = r.order[at[i]]
        /\ \A i, l \in DOMAIN Ranking(r) : RanksAbove(r, at[i], at[l]) => i < l
  BY RankingFollowsRanks
<1>2. /\ r.fulfilled[r.order[at[j]]] \in Yields
      /\ r.fulfilled[r.order[at[k]]] \in Yields
  BY <1>1, PositionsListAnswers
<1>3. ScoresAbove(r.fulfilled[r.order[at[j]]], r.fulfilled[r.order[at[k]]])
  BY <1>1, <1>2, DominantScoresAbove
<1> QED BY <1>1, <1>3 DEF RanksAbove

(* What was returned last is the ranking of the answers that the query     *)
(* still holds, until it is asked again.                                   *)
ReturnedRanking(q) ==
    \/ ranking[q] = <<>>
    \/ /\ query[q].waiting = {}
       /\ \E r \in Query : r.fulfilled = query[q].fulfilled /\ ranking[q] = Ranking(r)

RankingInv ==
    /\ ranking = [q \in Queries |-> ranking[q]]
    /\ \A q \in Queries : ReturnedRanking(q)

(* Only the query that returns or begins changes its ranking, and answers  *)
(* only arrive while they are awaited.                                     *)
LEMMA RankingNext == Inv /\ RankingInv /\ [Next]_vars => RankingInv'
<1> SUFFICES ASSUME Inv, RankingInv, [Next]_vars PROVE RankingInv'
  OBVIOUS
<1>0. /\ query = [q \in Queries |-> query[q]]
      /\ \A q \in Queries : Promises(query[q])
      /\ ranking = [q \in Queries |-> ranking[q]]
      /\ \A q \in Queries : ReturnedRanking(q)
  BY InvByParts DEF RankingInv
<1>1. ASSUME UNCHANGED <<query, ranking>> PROVE RankingInv'
  BY <1>1 DEF RankingInv, ReturnedRanking
<1>2. ASSUME NEW q \in Queries, ranking' = [ranking EXCEPT ![q] = <<>>],
             \A p \in Queries \ {q} : query'[p] = query[p]
      PROVE  RankingInv'
  BY <1>0, <1>2 DEF RankingInv, ReturnedRanking
<1>3. ASSUME NEW q \in Queries, NEW b \in query[q].waiting, ranking' = ranking,
             \A p \in Queries \ {q} : query'[p] = query[p]
      PROVE  RankingInv'
  <2>1. ranking[q] = <<>>
    BY <1>0, <1>3 DEF ReturnedRanking
  <2> QED BY <1>0, <1>3, <2>1 DEF RankingInv, ReturnedRanking
<1>4. ASSUME NEW q \in Queries, returns(q) PROVE RankingInv'
  <2>1. /\ query[q] \in Query
        /\ ranking' = [ranking EXCEPT ![q] = Ranking(query[q])]
        /\ query' = [query EXCEPT ![q].running = FALSE]
        /\ query[q].waiting = {}
    BY <1>0, <1>4 DEF returns, AllSettled, Promises
  <2>2. query'[q].fulfilled = query[q].fulfilled /\ query'[q].waiting = {}
    BY <1>0, <2>1 DEF Query
  <2>3. ranking'[q] = Ranking(query[q])
    BY <1>0, <2>1
  <2>4. \A p \in Queries \ {q} : query'[p] = query[p] /\ ranking'[p] = ranking[p]
    BY <1>0, <2>1
  <2>5. ranking' = [p \in Queries |-> ranking'[p]]
    BY <1>0, <2>1
  <2>6. ReturnedRanking(q)'
    BY <2>1, <2>2, <2>3 DEF ReturnedRanking
  <2>7. \A p \in Queries \ {q} : ReturnedRanking(p)'
    BY <1>0, <2>4 DEF ReturnedRanking
  <2> QED BY <2>5, <2>6, <2>7 DEF RankingInv
<1>5. ASSUME NEW q \in Queries, NEW a \in Assets, NEW m \in MinYields,
             getBestYields(q, a, m)
      PROVE  RankingInv'
  BY <1>0, <1>2, <1>5 DEF getBestYields
<1>6. ASSUME NEW q \in Queries, NEW b \in Backends, NEW y \in Yields, answers(q, b, y)
      PROVE  RankingInv'
  BY <1>0, <1>3, <1>6 DEF answers
<1>7. ASSUME NEW q \in Queries, NEW b \in Backends, rejects(q, b)
      PROVE  RankingInv'
  BY <1>0, <1>3, <1>7 DEF rejects
<1>8. CASE Next
  BY <1>1, <1>4, <1>5, <1>6, <1>7, <1>8 DEF Next, register, unregister, Tick
<1>9. CASE UNCHANGED vars
  BY <1>1, <1>9 DEF vars
<1> QED BY <1>8, <1>9

(* A backend with a higher yield and no higher volatility than another is  *)
(* never ranked below it, for any yields, any volatilities and any floor   *)
(* above zero.                                                             *)
THEOREM RankingRespectsDominance == Spec => []DominanceRespected
<1>1. Init => RankingInv
  BY DEF Init, RankingInv, ReturnedRanking
<1>2. RankingInv => DominanceRespected
  <2> SUFFICES ASSUME RankingInv, NEW q \in Queries,
                      NEW j \in DOMAIN ranking[q], NEW k \in DOMAIN ranking[q],
                      query[q].fulfilled[ranking[q][j]].annualizedApy
                        > query[q].fulfilled[ranking[q][k]].annualizedApy,
                      query[q].fulfilled[ranking[q][j]].volatilityScore
                        <= query[q].fulfilled[ranking[q][k]].volatilityScore
               PROVE  j < k
    BY DEF DominanceRespected
  <2>1. ranking[q] # <<>>
    OBVIOUS
  <2>2. PICK r \in Query : r.fulfilled = query[q].fulfilled /\ ranking[q] = Ranking(r)
    BY <2>1 DEF RankingInv, ReturnedRanking
  <2> QED BY <2>2, RankingDominates
<1> QED BY <1>1, <1>2, InvHolds, RankingNext, PTL DEF Spec
=============================================================================
