----------------------------- MODULE FailureGate -----------------------------
(***************************************************************************)
(* What the router's breakers promise, without their three states: a query *)
(* calls exactly those of the enrolled backends for its asset whose latest *)
(* failureThreshold answers were not all failures, or whose last failure   *)
(* is resetTimeoutMs ago.  It withholds no call the rule admits, makes no  *)
(* other, and returns when the calls it made are answered.                 *)
(***************************************************************************)
EXTENDS Integers

CONSTANTS Backends, Queries, Assets, supportedAssets, failureThreshold, resetTimeoutMs

VARIABLES
    enrolled,   \* the backends in the registry
    streak,     \* failures since the last success, by backend
    age,        \* time since the last failure, capped, by backend
    busy,       \* whether a query is in progress
    waiting     \* the backends a query's calls are in flight to

gateVars == <<enrolled, streak, age, busy, waiting>>

GateInit ==
    /\ enrolled \in SUBSET Backends
    /\ streak = [b \in Backends |-> 0]
    /\ age = [b \in Backends |-> resetTimeoutMs]
    /\ busy = [q \in Queries |-> FALSE]
    /\ waiting = [q \in Queries |-> {}]

(* The registry changes, also while queries are in progress. *)
Enrol ==
    /\ enrolled' \in SUBSET Backends
    /\ UNCHANGED <<streak, age, busy, waiting>>

Admitted(b) == streak[b] < failureThreshold \/ age[b] = resetTimeoutMs

Ask(q, asset) ==
    /\ ~busy[q]
    /\ busy' = [busy EXCEPT ![q] = TRUE]
    /\ waiting' = [waiting EXCEPT ![q] =
          {b \in enrolled : asset \in supportedAssets[b] /\ Admitted(b)}]
    /\ UNCHANGED <<enrolled, streak, age>>

Succeed(q, b) ==
    /\ b \in waiting[q]
    /\ waiting' = [waiting EXCEPT ![q] = @ \ {b}]
    /\ streak' = [streak EXCEPT ![b] = 0]
    /\ UNCHANGED <<enrolled, age, busy>>

Fail(q, b) ==
    /\ b \in waiting[q]
    /\ waiting' = [waiting EXCEPT ![q] = @ \ {b}]
    /\ streak' = [streak EXCEPT ![b] = @ + 1]
    /\ age' = [age EXCEPT ![b] = 0]
    /\ UNCHANGED <<enrolled, busy>>

Return(q) ==
    /\ busy[q] /\ waiting[q] = {}
    /\ busy' = [busy EXCEPT ![q] = FALSE]
    /\ UNCHANGED <<enrolled, streak, age, waiting>>

Pass ==
    /\ age' = [b \in Backends |-> IF age[b] < resetTimeoutMs THEN age[b] + 1 ELSE age[b]]
    /\ UNCHANGED <<enrolled, streak, busy, waiting>>

GateNext ==
    \/ Enrol
    \/ \E q \in Queries, a \in Assets : Ask(q, a)
    \/ \E q \in Queries, b \in Backends : Succeed(q, b) \/ Fail(q, b)
    \/ \E q \in Queries : Return(q)
    \/ Pass

GateSpec == GateInit /\ [][GateNext]_gateVars
=============================================================================
