--------------------------- MODULE CircuitBreaker ---------------------------
(***************************************************************************)
(* The breaker of packages/core (circuit-breaker.ts): its states and what  *)
(* its getter and its two callbacks do to one of them.  Of lastFailureTime *)
(* only Date.now() - lastFailureTime is ever used, and only compared with  *)
(* the reset timeout: `age' is that difference, capped at the timeout.     *)
(***************************************************************************)
EXTENDS Integers

CONSTANTS failureThreshold, resetTimeoutMs

ASSUME BreakerAssumption ==
    /\ failureThreshold \in Nat \ {0}
    /\ resetTimeoutMs \in Nat

CircuitState == {"CLOSED", "OPEN", "HALF_OPEN"}

Breaker == [state : CircuitState, failureCount : Nat, age : 0..resetTimeoutMs]

(* lastFailureTime is 0, the epoch. *)
NewBreaker == [state |-> "CLOSED", failureCount |-> 0, age |-> resetTimeoutMs]

(* Mutant: the timeout never ends. *)
OpenForEver(b) == b

(* The breaker after its `state' getter ran. *)
Observed(b) ==
    IF b.state = "OPEN" /\ b.age >= resetTimeoutMs
    THEN [b EXCEPT !.state = "HALF_OPEN"]
    ELSE b

(* Mutant: a success clears the count and leaves the state. *)
SuccessKeepsState(b) == [b EXCEPT !.failureCount = 0]

onSuccess(b) == [b EXCEPT !.failureCount = 0, !.state = "CLOSED"]

onFailure(b) ==
    [state |-> IF b.failureCount + 1 >= failureThreshold THEN "OPEN" ELSE b.state,
     failureCount |-> b.failureCount + 1,
     age |-> 0]

Older(b) == [b EXCEPT !.age = IF @ < resetTimeoutMs THEN @ + 1 ELSE @]
=============================================================================
