----------------------------- MODULE MCOperators -----------------------------
(* Those who operate a deployment, each on its own, for TLC: the scripts    *)
(* that set it up (DevnetSetup), the drills on one that is set up           *)
(* (DevnetDrills), and the keepers with their lease (KeeperLease).          *)
EXTENDS DevnetSetup, DevnetDrills, KeeperLease

CONSTANTS k1, k2, k3

VARIABLE part

operatorVars == <<part, vars, drillVars, leaseVars>>

MCToolboxes ==
    {{}, {"setup_devnet", "migrate_v1", "setup_ranger"},
     {"setup_devnet", "migrate_v1", "migrate_vaults", "migrate_positions"},
     {"setup_devnet", "migrate_v1", "fix_treasury", "raise_caps"}}

MCCrews ==
    {{}, {"gate", "halt", "resume"}, {"gate", "seed"}, {"gate", "phase_b", "raise_caps"}}

(* The others rest: no script is used, and the first keeper has had the    *)
(* lease.                                                                  *)
LeaseAtRest ==
    /\ keeper_authority = k1 /\ lease_keeper = k1
    /\ lease_left = 0 /\ since_rotation = LEASE_DURATION_SLOTS

OperatorInit ==
    /\ part \in {"setup", "drills", "lease"}
    /\ Init /\ (toolbox # {}) = (part = "setup")
    /\ part # "setup" => chain = EmptyChain
    /\ DrillInit /\ (crew # {}) = (part = "drills")
    /\ IF part = "lease" THEN LeaseInit ELSE LeaseAtRest

OperatorNext ==
    \/ Next /\ UNCHANGED <<part, drillVars, leaseVars>>
    \/ DrillNext /\ UNCHANGED <<part, vars, leaseVars>>
    \/ part = "lease" /\ LeaseNext /\ UNCHANGED <<part, vars, drillVars>>

OperatorSpec == OperatorInit /\ [][OperatorNext]_operatorVars

(* FairLeaseSpec's fairness, of the part that is the lease. *)
LeaseFairness ==
    /\ WF_operatorVars(part = "lease" /\ Tick /\ UNCHANGED <<part, vars, drillVars>>)
    /\ \A k \in Keepers :
          WF_operatorVars(part = "lease" /\ acquire_lease(k)
                             /\ UNCHANGED <<part, vars, drillVars>>)

FairOperatorSpec == OperatorSpec /\ SetupFairness /\ DrillFairness /\ LeaseFairness
=============================================================================
