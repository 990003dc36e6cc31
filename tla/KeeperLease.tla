---------------------------- MODULE KeeperLease ----------------------------
(***************************************************************************)
(* Which keeper acts on a vault: the authority the admin configures in the *)
(* Allocator account, and the lease a keeper takes and renews.             *)
(*                                                                         *)
(* The handlers read lease_expiry_slot only to compare it with the clock,  *)
(* so the state keeps the slots left before it, `lease_left', and time has *)
(* no bound.  heartbeat_slot is written and never read; it is left out.    *)
(***************************************************************************)
EXTENDS Integers

CONSTANTS
    Keepers, NoKeeper,
    LEASE_DURATION_SLOTS

ASSUME KeeperLeaseAssumption ==
    /\ NoKeeper \notin Keepers
    /\ LEASE_DURATION_SLOTS \in Nat

VARIABLES
    keeper_authority,   \* Allocator.keeper_authority
    lease_keeper,       \* KeeperLease.keeper, NoKeeper until first taken
    lease_left,         \* lease_expiry_slot - clock.slot, or 0 once past
    since_rotation      \* history: slots since the authority was set, capped

leaseVars == <<keeper_authority, lease_keeper, lease_left, since_rotation>>

LeaseInit ==
    /\ keeper_authority \in Keepers
    /\ lease_keeper = NoKeeper
    /\ lease_left = 0
    /\ since_rotation = 0

update_keeper_authority(k) ==
    /\ keeper_authority' = k
    /\ since_rotation' = 0
    /\ UNCHANGED <<lease_keeper, lease_left>>

(* Mutants: another keeper's lease is no obstacle; a lease never expires. *)
LeaseIsMineToTake == lease_keeper # keeper_authority \/ lease_left = 0
LeaseNeverTaken == lease_keeper = NoKeeper

LeaseIsFree == lease_keeper = NoKeeper \/ lease_left = 0

(* A lease in force is refused to everyone, its own keeper included. *)
acquire_lease(k) ==
    /\ k = keeper_authority
    /\ LeaseIsFree
    /\ lease_keeper' = k
    /\ lease_left' = LEASE_DURATION_SLOTS
    /\ UNCHANGED <<keeper_authority, since_rotation>>

(* Mutant: the lease alone entitles its keeper to renew it. *)
HeartbeatOfAnyHolder(k) ==
    /\ lease_keeper = k
    /\ lease_left' = LEASE_DURATION_SLOTS
    /\ UNCHANGED <<keeper_authority, lease_keeper, since_rotation>>

(* The expiry is not checked: a heartbeat also revives an expired lease. *)
heartbeat(k) ==
    /\ k = keeper_authority
    /\ lease_keeper = k
    /\ lease_left' = LEASE_DURATION_SLOTS
    /\ UNCHANGED <<keeper_authority, lease_keeper, since_rotation>>

(* A slot passes.  History is kept up to the length of a lease. *)
Tick ==
    /\ lease_left > 0 \/ since_rotation < LEASE_DURATION_SLOTS
    /\ lease_left' = IF lease_left > 0 THEN lease_left - 1 ELSE 0
    /\ since_rotation' = IF since_rotation < LEASE_DURATION_SLOTS
                         THEN since_rotation + 1 ELSE since_rotation
    /\ UNCHANGED <<keeper_authority, lease_keeper>>

LeaseNext ==
    \/ \E k \in Keepers : update_keeper_authority(k)
    \/ \E k \in Keepers : acquire_lease(k)
    \/ \E k \in Keepers : heartbeat(k)
    \/ Tick

LeaseSpec == LeaseInit /\ [][LeaseNext]_leaseVars

(* The clock advances, and a keeper whose acquire_lease can succeed gets   *)
(* it through: a keeper process retries every cycle.                       *)
FairLeaseSpec ==
    /\ LeaseSpec
    /\ WF_leaseVars(Tick)
    /\ \A k \in Keepers : WF_leaseVars(acquire_lease(k))

-----------------------------------------------------------------------------
TypeOK ==
    /\ keeper_authority \in Keepers
    /\ lease_keeper \in Keepers \cup {NoKeeper}
    /\ lease_left \in 0..LEASE_DURATION_SLOTS
    /\ since_rotation \in 0..LEASE_DURATION_SLOTS

(* A keeper that lost the authority cannot keep the lease alive: what is   *)
(* left of it and the time since the rotation never add up to more than    *)
(* one lease, so the new keeper is shut out for one lease at most.         *)
OldLeaseRunsOut ==
    lease_keeper # keeper_authority /\ lease_left > 0
        => lease_left + since_rotation <= LEASE_DURATION_SLOTS

(* The keeper whose lease is in force. *)
owner == IF lease_left > 0 THEN lease_keeper ELSE NoKeeper

Mutex == INSTANCE LeaseMutex

(* The lease is a mutex: through rotations of the authority, expiries,     *)
(* late heartbeats and retries it never passes from one keeper to another  *)
(* while the first still holds it.                                         *)
LeaseIsMutex == Mutex!Spec

(* A rotation completes: once the admin has settled on a keeper, that      *)
(* keeper gets the lease and keeps it, however long the old one renewed it *)
(* before.                                                                 *)
RotationCompletes ==
    <>[][keeper_authority' = keeper_authority]_leaseVars
        => <>[](lease_keeper = keeper_authority)
=============================================================================
