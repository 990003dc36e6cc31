----------------------------- MODULE DevnetSetup -----------------------------
(***************************************************************************)
(* The scripts that set up, extend and migrate the devnet deployment       *)
(* (scripts/*.ts).  A script is a list of groups; a group reads the chain  *)
(* once and, unless it finds its work done, sends its transactions one by  *)
(* one.  A run ends at the first error; only setup-devnet catches one.     *)
(* The operator starts scripts again, in any order.                        *)
(*                                                                         *)
(* A send may fail in four ways: the program rejects it, it is lost, it    *)
(* lands although its confirmation throws, or it lands after the script    *)
(* gave it up.                                                             *)
(***************************************************************************)
EXTENDS AccountLayout, FiniteSets

CONSTANTS
    Levels,             \* risk levels in use, a subset of 0..2
    Toolboxes,          \* sets of scripts that are used together
    OldWeights,         \* numbers of weights an old vault may hold
    MaxFaults,          \* bound on lost, unconfirmed and late transactions
    MaxOrphans          \* bound on the share mints counted

ASSUME SetupAssumption ==
    /\ Levels \subseteq 0..2 /\ 0 \in Levels
    /\ OldWeights \subseteq 0..MAX_WEIGHTS
    /\ MaxFaults \in Nat /\ MaxOrphans \in Nat \ {0}

VARIABLES
    chain,      \* what the scripts read and write of the deployment
    run,        \* the script under way
    inflight,   \* a transaction given up that may still land
    toolbox,    \* the scripts used on this deployment
    origin,     \* history: the allocator found at the start
    faults      \* faults left

vars == <<chain, run, inflight, toolbox, origin, faults>>

-----------------------------------------------------------------------------
(* The deployment *)

NoVault == [layout |-> "none", limited |-> FALSE, cap |-> "setup"]

(* orphans: share mints that no vault uses. *)
EmptyChain ==
    [allocator |-> "none", treasury |-> "none", treasuryMint |-> "test",
     vault |-> [l \in Levels |-> NoVault], position |-> [l \in Levels |-> "none"],
     atas |-> {}, strategy |-> FALSE, funded |-> FALSE, idleUsdc |-> FALSE,
     orphans |-> 0]

(* A deployment of the first version: the treasury holds Circle's USDC,    *)
(* there is no conservative vault.                                         *)
OldChain(n) ==
    [EmptyChain EXCEPT
        !.allocator = "v0", !.treasury = "v0", !.treasuryMint = "circle",
        !.vault = [l \in Levels |-> IF l = 0 THEN NoVault
                      ELSE [layout |-> "v0", cap |-> "setup",
                            limited |-> n \in LimitedByMigration]],
        !.position = [l \in Levels |-> IF l = 0 THEN "none" ELSE "v0"]]

Readable(c) == c.allocator \in {"v1", "v1 without room"}    \* Account<Allocator>

-----------------------------------------------------------------------------
(* Groups and transactions: <<name, level>> *)

PerLevel(name, ls) ==
    LET one(l) == IF l \in ls THEN << <<name, l>> >> ELSE <<>>
    IN  one(0) \o one(1) \o one(2)

setup_devnet == << <<"allocator", 0>>, <<"treasury", 0>> >> \o PerLevel("vault", Levels)

setup_ranger ==
    << <<"prerequisites", 0>>, <<"idle_ata", 0>>, <<"asset_ata", 0>>, <<"share_ata", 0>>,
       <<"fund", 0>>, <<"strategy", 0>>, <<"idle_usdc", 0>> >>

migrate_v1 == << <<"grow_allocator", 0>>, <<"grow_treasury", 0>> >>

migrate_vaults == PerLevel("grow_vault", Levels \ {0})

migrate_positions == PerLevel("grow_position", Levels)

fix_treasury ==
    << <<"treasury_account", 0>>, <<"treasury_ata", 0>>, <<"repoint", 0>>, <<"repointed", 0>> >>

raise_caps == PerLevel("cap", Levels)

Plan ==
    [setup_devnet |-> setup_devnet, setup_ranger |-> setup_ranger,
     migrate_v1 |-> migrate_v1, migrate_vaults |-> migrate_vaults,
     migrate_positions |-> migrate_positions,
     fix_treasury |-> fix_treasury, raise_caps |-> raise_caps]

Scripts == DOMAIN Plan

Txs(g) ==
    CASE g[1] = "treasury" -> << <<"treasury_ata", 0>>, g >>
      [] g[1] = "vault"    -> << <<"createMint", g[2]>>, g >>
      [] OTHER             -> << g >>

Atas == {"idle_ata", "asset_ata", "share_ata", "treasury_ata"}

(* Mutant: setup does not look for vaults. *)
SkipsButNotVaults(g, c) ==
    CASE g[1] = "allocator" -> c.allocator # "none"
      [] g[1] = "treasury"  -> c.treasury = "v1"
      [] OTHER              -> FALSE

(* What the group reads, or the run has read, tells it that there is       *)
(* nothing to do.                                                          *)
Skips(g, c) ==
    CASE g[1] = "allocator"     -> c.allocator # "none"
      [] g[1] = "treasury"      -> c.treasury = "v1"
      [] g[1] = "vault"         -> c.vault[g[2]].layout # "none"
      [] g[1] = "prerequisites" -> c.allocator # "none" /\ c.vault[0].layout # "none"
                                       /\ c.treasury # "none"
      [] g[1] \in Atas          -> g[1] \in c.atas
      [] g[1] = "fund"          -> c.funded
      [] g[1] = "strategy"      -> c.strategy
      [] g[1] = "idle_usdc"     -> run.idle
      [] g[1] = "grow_vault"    -> c.vault[g[2]].layout # "v0"
      [] g[1] = "grow_position" -> c.position[g[2]] # "v0"
      [] g[1] = "treasury_account" -> c.treasury = "v1"
      [] g[1] = "repointed"     -> c.treasuryMint = "test"
      [] g[1] = "cap"           -> c.vault[g[2]].layout = "none"
      [] OTHER                  -> FALSE

(* It throws on what it reads: a missing account, or Anchor's decoder on a *)
(* version-0 treasury.                                                     *)
Throws(g, c) ==
    \/ g[1] \in {"prerequisites", "treasury_account", "repointed"} /\ ~Skips(g, c)
    \/ g[1] = "treasury" /\ c.treasury = "v0"

(* When the program accepts a transaction. *)
Accepts(t, c) ==
    CASE t[1] = "allocator" -> c.allocator = "none"
      [] t[1] = "treasury"  -> Readable(c) /\ c.treasury = "none" /\ "treasury_ata" \in c.atas
      [] t[1] = "vault"     -> Readable(c) /\ c.vault[t[2]].layout = "none"
      [] t[1] \in Atas      -> t[1] \notin c.atas
      [] t[1] = "strategy"  -> Readable(c) /\ c.vault[0].layout = "v1" /\ ~c.strategy
      [] t[1] = "grow_allocator" -> c.allocator # "none"
      [] t[1] = "grow_treasury"  -> c.treasury # "none"
      [] t[1] = "grow_vault"     -> Readable(c) \/ c.vault[t[2]].layout = "v1"
      [] t[1] = "repoint"   -> Readable(c) /\ c.treasury = "v1"
      [] t[1] = "cap"       -> Readable(c) /\ c.vault[t[2]].layout = "v1"
      [] OTHER              -> TRUE

CountedOrphans(n) == IF n > MaxOrphans THEN MaxOrphans ELSE n

(* The migrations change version-0 accounts only; the migrated allocator   *)
(* has no room for a whitelisted protocol.                                 *)
Grown(layout) == IF layout = "v0" THEN "v1" ELSE layout

admin_migrate_allocator(c) ==
    [c EXCEPT !.allocator = IF @ = "v0" THEN "v1 without room" ELSE @]

admin_migrate_treasury(c) == [c EXCEPT !.treasury = Grown(@)]

admin_migrate_user_position(c, l) == [c EXCEPT !.position[l] = Grown(@)]

(* What it does.  A vault uses up a mint. *)
Effect(t, c) ==
    CASE t[1] = "allocator" -> [c EXCEPT !.allocator = "v1"]
      [] t[1] = "treasury"  -> [c EXCEPT !.treasury = "v1", !.treasuryMint = "test"]
      [] t[1] = "createMint" -> [c EXCEPT !.orphans = CountedOrphans(@ + 1)]
      [] t[1] = "vault"     -> [c EXCEPT !.vault[t[2]].layout = "v1", !.orphans = @ - 1]
      [] t[1] \in Atas      -> [c EXCEPT !.atas = @ \cup {t[1]}]
      [] t[1] = "fund"      -> [c EXCEPT !.funded = TRUE]
      [] t[1] = "strategy"  -> [c EXCEPT !.strategy = TRUE]
      [] t[1] = "idle_usdc" -> [c EXCEPT !.idleUsdc = TRUE]
      [] t[1] = "grow_allocator" -> admin_migrate_allocator(c)
      [] t[1] = "grow_treasury"  -> admin_migrate_treasury(c)
      [] t[1] = "grow_vault"     -> [c EXCEPT !.vault[t[2]].layout = Grown(@)]
      [] t[1] = "grow_position"  -> admin_migrate_user_position(c, t[2])
      [] t[1] = "repoint"   -> [c EXCEPT !.treasuryMint = "test"]
      [] t[1] = "cap"       -> [c EXCEPT !.vault[t[2]].cap = "raised"]

-----------------------------------------------------------------------------
(* A run *)

(* fellBack: setup-devnet warned that it could not see to the treasury;    *)
(* missing: the vaults raise-caps passed over; idle: what setup-ranger saw *)
(* of the idle USDC when it looked up the account.                         *)
NoRun ==
    [script |-> "none", todo |-> <<>>, txs |-> <<>>, fellBack |-> FALSE, missing |-> {},
     idle |-> FALSE]

Init ==
    /\ chain \in {EmptyChain} \cup {OldChain(n) : n \in OldWeights}
    /\ origin = chain.allocator
    /\ run = NoRun
    /\ inflight = <<>>
    /\ toolbox \in Toolboxes
    /\ faults = MaxFaults

start(s) ==
    /\ s \in toolbox
    /\ run = NoRun
    /\ run' = [NoRun EXCEPT !.script = s, !.todo = Plan[s]]
    /\ UNCHANGED <<chain, inflight, toolbox, origin, faults>>

(* Mutant: every error is caught. *)
GiveUpNothing == run' = [run EXCEPT !.todo = Tail(@), !.txs = <<>>]

(* An error ends the run, but for setup's treasury. *)
GiveUp ==
    run' = IF Head(run.todo)[1] = "treasury"
           THEN [run EXCEPT !.todo = Tail(@), !.txs = <<>>, !.fellBack = TRUE]
           ELSE NoRun

(* What a run keeps of what a group read. *)
Noting(g, r) ==
    [r EXCEPT !.idle = IF g[1] = "idle_ata" THEN chain.idleUsdc ELSE @,
              !.missing = IF g[1] = "cap" /\ Skips(g, chain) THEN @ \cup {g[2]} ELSE @]

(* The group reads what it goes by. *)
looks ==
    /\ run.todo # <<>> /\ run.txs = <<>>
    /\ LET g == Head(run.todo)
       IN  IF Throws(g, chain) THEN GiveUp
           ELSE run' = IF Skips(g, chain) THEN [Noting(g, run) EXCEPT !.todo = Tail(@)]
                       ELSE [Noting(g, run) EXCEPT !.txs = Txs(g)]
    /\ UNCHANGED <<chain, inflight, toolbox, origin, faults>>

GoOn ==
    run' = [run EXCEPT !.txs = Tail(@), !.todo = IF Len(run.txs) = 1 THEN Tail(@) ELSE @]

(* Mutant: an existing token account is an error. *)
NeverFound(t) == FALSE

(* A token account is looked up again whatever became of its transaction. *)
FoundAnyway(t) == t[1] \in Atas /\ t[1] \in chain.atas

(* The next transaction lands and is confirmed, or is rejected. *)
sends ==
    /\ run.txs # <<>>
    /\ LET t == Head(run.txs)
       IN  IF Accepts(t, chain) THEN chain' = Effect(t, chain) /\ GoOn
           ELSE /\ IF FoundAnyway(t) THEN GoOn ELSE GiveUp
                /\ UNCHANGED chain
    /\ UNCHANGED <<inflight, toolbox, origin, faults>>

(* A read throws or a transaction is lost; or the transaction is given up  *)
(* and may still land.                                                     *)
fails(late) ==
    /\ faults > 0
    /\ run.todo # <<>>
    /\ GiveUp
    /\ faults' = faults - 1
    /\ IF late
       THEN run.txs # <<>> /\ inflight = <<>> /\ inflight' = <<Head(run.txs)>>
       ELSE UNCHANGED inflight
    /\ UNCHANGED <<chain, toolbox, origin>>

unconfirmed ==
    /\ faults > 0
    /\ run.txs # <<>>
    /\ LET t == Head(run.txs)
       IN  /\ Accepts(t, chain)
           /\ chain' = Effect(t, chain)
           /\ IF t[1] \in Atas THEN GoOn ELSE GiveUp
    /\ faults' = faults - 1
    /\ UNCHANGED <<inflight, toolbox, origin>>

landsLate ==
    /\ inflight # <<>>
    /\ chain' = IF Accepts(inflight[1], chain) THEN Effect(inflight[1], chain) ELSE chain
    /\ inflight' = <<>>
    /\ UNCHANGED <<run, toolbox, origin, faults>>

expires ==
    /\ inflight # <<>>
    /\ inflight' = <<>>
    /\ UNCHANGED <<chain, run, toolbox, origin, faults>>

(* `Setup Complete', `Migration complete!' and so on. *)
Completing == run # NoRun /\ run.todo = <<>>

completes ==
    /\ Completing
    /\ run' = NoRun
    /\ UNCHANGED <<chain, inflight, toolbox, origin, faults>>

Work == looks \/ sends \/ completes

Next ==
    \/ \E s \in Scripts : start(s)
    \/ looks
    \/ sends
    \/ \E late \in BOOLEAN : fails(late)
    \/ unconfirmed
    \/ landsLate
    \/ expires
    \/ completes

Spec == Init /\ [][Next]_vars

(* A run goes on until it ends, a transaction lands or expires, and the    *)
(* operator goes on starting setup and the first migration.                *)
SetupFairness ==
    /\ WF_vars(Work)
    /\ WF_vars(landsLate \/ expires)
    /\ SF_vars(start("setup_devnet"))
    /\ SF_vars(start("migrate_v1"))

FairSpec == Spec /\ SetupFairness

-----------------------------------------------------------------------------
(* Properties *)

(* What a script says it did when it completes.  setup-devnet goes on when *)
(* it cannot see to the treasury: its closing line then only follows a     *)
(* warning, and some read or transaction has failed.                       *)
Goal(r, c) ==
    CASE r.script = "setup_devnet" ->
             /\ c.allocator # "none"
             /\ c.treasury # "none" \/ (r.fellBack /\ faults < MaxFaults)
             /\ \A l \in Levels : c.vault[l].layout # "none"
      [] r.script = "setup_ranger" ->
             Atas \ {"treasury_ata"} \subseteq c.atas /\ c.funded /\ c.strategy /\ c.idleUsdc
      [] r.script = "migrate_v1" -> Readable(c) /\ c.treasury = "v1"
      [] r.script = "migrate_vaults" -> \A l \in Levels \ {0} : c.vault[l].layout # "v0"
      [] r.script = "migrate_positions" -> \A l \in Levels : c.position[l] # "v0"
      [] r.script = "fix_treasury" -> c.treasury = "v1" /\ c.treasuryMint = "test"
      [] r.script = "raise_caps" ->
             \A l \in Levels \ r.missing : c.vault[l].cap = "raised"

(* A script that reports completion has done what it is for, although it   *)
(* went by reads that late transactions of earlier runs made stale; but    *)
(* for the treasury, after the warning of setup-devnet.ts:254 (see         *)
(* FallbackFindsTreasury) and only if something failed, and the vaults     *)
(* that raise-caps named as missing.                                       *)
CompleteMeansDone == Completing => Goal(run, chain)

(* setup-devnet.ts:256, "Treasury already exists, derive the expected USDC *)
(* ATA": when setup-devnet falls back to the address it expects, and goes  *)
(* on to `Setup Complete', the treasury is there.                          *)
FallbackFindsTreasury == run.fellBack => chain.treasury # "none"

(* setup-devnet.ts:10, "Idempotent - safe to run multiple times": on a new *)
(* deployment every share mint without a vault is due to a transaction     *)
(* that failed, or belongs to the vault about to be made; runs that find   *)
(* all vaults waste none.                                                  *)
OrphansComeFromFaults ==
    origin = "none" =>
        chain.orphans <= (MaxFaults - faults) + (IF run.txs # <<>> THEN 1 ELSE 0)

(* Wherever faults and scripts in any order leave the deployment, running  *)
(* setup and the migration again completes it.                             *)
SetUp ==
    /\ Readable(chain) /\ chain.treasury = "v1"
    /\ \A l \in Levels : chain.vault[l].layout # "none"

SetupConverges == <>[]({"setup_devnet", "migrate_v1"} \subseteq toolbox => SetUp)

(* lib.rs:1120: a migrated vault has no limit on a single deposit. *)
MigrationUncaps ==
    \A l \in Levels : chain.vault[l].layout = "v1" => ~chain.vault[l].limited
=============================================================================
