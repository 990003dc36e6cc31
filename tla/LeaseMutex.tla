----------------------------- MODULE LeaseMutex -----------------------------
(***************************************************************************)
(* What a keeper lease promises: it is held by nobody or by one keeper,    *)
(* and passes from one keeper to another only after it was free.           *)
(***************************************************************************)
CONSTANTS Keepers, NoKeeper

VARIABLE owner

Init == owner = NoKeeper

Grant(k) == owner = NoKeeper /\ owner' = k

Expire == owner' = NoKeeper

Next == Expire \/ \E k \in Keepers : Grant(k)

Spec == Init /\ [][Next]_owner
=============================================================================
