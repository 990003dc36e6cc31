------------------------- MODULE KeeperLeaseProofs -------------------------
(* Theorems about KeeperLease, for every value of its constants. *)
EXTENDS KeeperLease, TLAPS

(* The initial state has the right types. *)
LEMMA TypeInit == LeaseInit => TypeOK
  BY KeeperLeaseAssumption DEF LeaseInit, TypeOK, KeeperLeaseAssumption

(* Every step keeps the types. *)
LEMMA TypeNext == TypeOK /\ [LeaseNext]_leaseVars => TypeOK'
<1> SUFFICES ASSUME TypeOK, [LeaseNext]_leaseVars PROVE TypeOK'
  OBVIOUS
<1> USE KeeperLeaseAssumption DEF KeeperLeaseAssumption, TypeOK
<1>1. ASSUME NEW k \in Keepers, update_keeper_authority(k) PROVE TypeOK'
  BY <1>1 DEF update_keeper_authority
<1>2. ASSUME NEW k \in Keepers, acquire_lease(k) PROVE TypeOK'
  BY <1>2 DEF acquire_lease
<1>3. ASSUME NEW k \in Keepers, heartbeat(k) PROVE TypeOK'
  BY <1>3 DEF heartbeat
<1>4. CASE Tick
  BY <1>4 DEF Tick
<1>5. CASE UNCHANGED leaseVars
  BY <1>5 DEF leaseVars
<1> QED BY <1>1, <1>2, <1>3, <1>4, <1>5 DEF LeaseNext

(* The lease never outlasts its duration, counted from the last acquire or *)
(* heartbeat, and is only ever held by a known keeper.                     *)
THEOREM LeaseTypeCorrect == LeaseSpec => []TypeOK
  BY TypeInit, TypeNext, PTL DEF LeaseSpec

(* Every step keeps the old lease running out. *)
LEMMA OldLeaseNext == TypeOK /\ OldLeaseRunsOut /\ [LeaseNext]_leaseVars => OldLeaseRunsOut'
<1> SUFFICES ASSUME TypeOK, OldLeaseRunsOut, [LeaseNext]_leaseVars PROVE OldLeaseRunsOut'
  OBVIOUS
<1> USE KeeperLeaseAssumption DEF KeeperLeaseAssumption, TypeOK, OldLeaseRunsOut
<1>1. ASSUME NEW k \in Keepers, update_keeper_authority(k) PROVE OldLeaseRunsOut'
  BY <1>1 DEF update_keeper_authority
<1>2. ASSUME NEW k \in Keepers, acquire_lease(k) PROVE OldLeaseRunsOut'
  BY <1>2 DEF acquire_lease
<1>3. ASSUME NEW k \in Keepers, heartbeat(k) PROVE OldLeaseRunsOut'
  BY <1>3 DEF heartbeat
<1>4. CASE Tick
  BY <1>4 DEF Tick
<1>5. CASE UNCHANGED leaseVars
  BY <1>5 DEF leaseVars
<1> QED BY <1>1, <1>2, <1>3, <1>4, <1>5 DEF LeaseNext

(* A keeper that lost the authority holds the lease for one lease duration *)
(* at most, whatever it and the other keepers send: its heartbeats stop    *)
(* counting the moment the authority is another's.                         *)
THEOREM OldLeaseExpires == LeaseSpec => []OldLeaseRunsOut
<1>1. LeaseInit => OldLeaseRunsOut
  BY DEF LeaseInit, OldLeaseRunsOut
<1> QED BY <1>1, LeaseTypeCorrect, OldLeaseNext, PTL DEF LeaseSpec

(* Nobody holds the lease at the start. *)
LEMMA MutexInit == LeaseInit => Mutex!Init
  BY DEF LeaseInit, Mutex!Init, owner

(* A step of the lease grants it, ends it, or leaves its owner alone. *)
LEMMA MutexNext == TypeOK /\ [LeaseNext]_leaseVars => [Mutex!Next]_owner
<1> SUFFICES ASSUME TypeOK, [LeaseNext]_leaseVars PROVE Mutex!Next \/ owner' = owner
  OBVIOUS
<1> USE KeeperLeaseAssumption DEF KeeperLeaseAssumption, TypeOK, owner, Mutex!Next
<1>1. ASSUME NEW k \in Keepers, update_keeper_authority(k)
      PROVE  owner' = owner
  BY <1>1 DEF update_keeper_authority
<1>2. ASSUME NEW k \in Keepers, acquire_lease(k)
      PROVE  Mutex!Grant(k) \/ owner' = owner
  BY <1>2 DEF acquire_lease, LeaseIsFree, Mutex!Grant
<1>3. ASSUME NEW k \in Keepers, heartbeat(k)
      PROVE  Mutex!Grant(k) \/ Mutex!Expire \/ owner' = owner
  BY <1>3 DEF heartbeat, Mutex!Grant, Mutex!Expire
<1>4. ASSUME Tick
      PROVE  Mutex!Expire \/ owner' = owner
  BY <1>4 DEF Tick, Mutex!Expire
<1>5. CASE UNCHANGED leaseVars
  BY <1>5 DEF leaseVars
<1> QED BY <1>1, <1>2, <1>3, <1>4, <1>5 DEF LeaseNext

(* The lease implements the mutex: it never passes from one keeper to      *)
(* another while the first holds it, for any number of keepers, whatever   *)
(* the admin does to the authority and for any lease duration.             *)
THEOREM LeaseImplementsMutex == LeaseSpec => LeaseIsMutex
<1>1. LeaseInit => Mutex!Init
  BY MutexInit
<1>2. TypeOK /\ [LeaseNext]_leaseVars => [Mutex!Next]_owner
  BY MutexNext
<1> QED BY <1>1, <1>2, LeaseTypeCorrect, PTL DEF LeaseSpec, LeaseIsMutex, Mutex!Spec
=============================================================================
