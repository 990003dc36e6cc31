----------------------------- MODULE MCPackages -----------------------------
(* The parts of packages/ beside the router, each on its own, for TLC: at  *)
(* the start of a behaviour one part is chosen and only it takes steps.    *)
EXTENDS TtlCacheUse, FetchRetry, ApiClient, MarginfiData, LendingBackend, Backtest

CONSTANTS k1, k2, k3, v1, v2, q1

VARIABLE part

Packages == {"cache", "retry", "client", "marginfi", "backend", "backtest"}

packagesVars == <<part, cacheVars, retryVars, clientVars, marginfiVars,
                  backendVars, backtestVars>>

(* The others rest in one of their states; the retry in that of a call     *)
(* that was answered at once.                                              *)
RetryAtRest ==
    /\ phase = "resolved" /\ attempt = 0 /\ waited = 0 /\ elapsed = 0

PackagesInit ==
    /\ part \in Packages
    /\ CacheInit
    /\ IF part = "retry" THEN RetryInit ELSE RetryAtRest
    /\ ClientInit /\ (part # "client" => source = Kamino)
    /\ MarginfiInit /\ (part # "marginfi" => listed)
    /\ BackendInit
    /\ part # "backend" => protocol = "kamino" /\ market = [supply |-> 0, borrow |-> 0]
    /\ BacktestInit

PackagesNext ==
    \/ /\ part = "cache" /\ CacheNext
       /\ UNCHANGED <<part, retryVars, clientVars, marginfiVars, backendVars, backtestVars>>
    \/ /\ part = "retry" /\ RetryNext
       /\ UNCHANGED <<part, cacheVars, clientVars, marginfiVars, backendVars, backtestVars>>
    \/ /\ part = "client" /\ ClientNext
       /\ UNCHANGED <<part, cacheVars, retryVars, marginfiVars, backendVars, backtestVars>>
    \/ /\ part = "marginfi" /\ MarginfiNext
       /\ UNCHANGED <<part, cacheVars, retryVars, clientVars, backendVars, backtestVars>>
    \/ /\ part = "backend" /\ BackendNext
       /\ UNCHANGED <<part, cacheVars, retryVars, clientVars, marginfiVars, backtestVars>>
    \/ /\ part = "backtest" /\ BacktestNext
       /\ UNCHANGED <<part, cacheVars, retryVars, clientVars, marginfiVars, backendVars>>

PackagesSpec == PackagesInit /\ [][PackagesNext]_packagesVars /\ RetryFairness

(* One status of each class the code tells apart. *)
MCStatuses == {200, 304, 404, 429, 500}

(* From an idle market to one that is lent out, and past that; and none.   *)
MCMarkets ==
    [supply : {200}, borrow : {0, 50, 150, 180, 199, 200, 201}] \cup {[supply |-> 0, borrow |-> 0]}

MCHours == [day : 0..2, apy : {0, 1, 3}]

MCDailyRates == [{"kamino", "marginfi", "lulo"} -> 0..2]
=============================================================================
