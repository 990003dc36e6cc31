---------------------------- MODULE MarginfiData ----------------------------
(***************************************************************************)
(* Rates and bank metrics of the Marginfi backend (marginfi-data-api.ts):  *)
(* two module-level Maps that keep a value for CACHE_TTL_MS.  Their keys   *)
(* name a token, not the client a value was read from.  A client is a      *)
(* snapshot of the banks, made by createReadOnlyMarginfiClient: to see new *)
(* rates the caller makes another one.  A value is the number of the       *)
(* client it was computed from.                                            *)
(***************************************************************************)
EXTENDS Integers, Sequences

CONSTANTS
    CACHE_TTL_MS,
    MaxClients, MaxInstant      \* bounds on clients made and on time

ASSUME MarginfiAssumption ==
    CACHE_TTL_MS \in Nat \ {0} /\ MaxClients \in Nat /\ MaxInstant \in Nat

VARIABLES
    client,         \* the client in use, 1 the first
    listed,         \* whether it knows the bank
    replaced,       \* history: when each earlier client was replaced
    memo,           \* rateCache and metricsCache: {} or one entry
    served,         \* history: the last values returned, {} or one
    instant

marginfiVars == <<client, listed, replaced, memo, served, instant>>

Memos == {"rate", "metrics"}

MarginfiInit ==
    /\ client = 1
    /\ listed \in BOOLEAN
    /\ replaced = <<>>
    /\ memo = [m \in Memos |-> {}]
    /\ served = [m \in Memos |-> {}]
    /\ instant = 0

(* Mutant: a value that is found is valid. *)
AnyEntry(m) == memo[m]

Valid(m) == {e \in memo[m] : instant - e.timestamp < CACHE_TTL_MS}

(* fetchLendingRate, fetchBankMetrics: synchronous. *)
serves(m) ==
    LET from == IF Valid(m) # {} THEN (CHOOSE e \in Valid(m) : TRUE).value ELSE client
    IN  /\ Valid(m) # {} \/ listed
        /\ served' = [served EXCEPT ![m] = {[from |-> from, at |-> instant]}]
        /\ memo' = IF Valid(m) # {} THEN memo
                   ELSE [memo EXCEPT ![m] = {[value |-> client, timestamp |-> instant]}]
        /\ UNCHANGED <<client, listed, replaced, instant>>

clearRateCache ==
    /\ memo' = [m \in Memos |-> {}]
    /\ UNCHANGED <<client, listed, replaced, served, instant>>

(* Another client, which may know the bank or not. *)
reconnects ==
    /\ client < MaxClients
    /\ client' = client + 1
    /\ listed' \in BOOLEAN
    /\ replaced' = Append(replaced, instant)
    /\ UNCHANGED <<memo, served, instant>>

InstantPasses ==
    /\ instant < MaxInstant
    /\ instant' = instant + 1
    /\ UNCHANGED <<client, listed, replaced, memo, served>>

MarginfiNext ==
    \/ \E m \in Memos : serves(m)
    \/ clearRateCache
    \/ reconnects
    \/ InstantPasses

MarginfiSpec == MarginfiInit /\ [][MarginfiNext]_marginfiVars

-----------------------------------------------------------------------------
(* marginfi-data-api.ts:63-97: a value may come from a client replaced     *)
(* since, but from one that was in use less than CACHE_TTL_MS before; so   *)
(* the rate and the utilization of one answer are from clients that were   *)
(* in use less than CACHE_TTL_MS apart.                                    *)
ServedByRecentClient ==
    \A m \in Memos : \A s \in served[m] :
        s.from <= Len(replaced) /\ replaced[s.from] <= s.at =>
            s.at - replaced[s.from] < CACHE_TTL_MS
=============================================================================
