---------------------------- MODULE DevnetDrills ----------------------------
(***************************************************************************)
(* The scripts that exercise a deployment that is set up: the gate before  *)
(* mainnet, the extended tests of phase B, seeding, halting and resuming   *)
(* (scripts/seed-and-test.ts, scripts/legacy).  A script runs from step to *)
(* step; a step reads the chain or sends a transaction, which may be       *)
(* refused, lost, unconfirmed or late.  The operator starts one script at  *)
(* a time, may stop it at any point, and starts others.                    *)
(*                                                                         *)
(* The admin, who runs the scripts, is the only depositor and the share    *)
(* price is one: position and assets of the moderate vault are one number, *)
(* in units of the gate's deposit.                                         *)
(***************************************************************************)
EXTENDS Integers

CONSTANTS
    Crews,              \* sets of scripts that are used together
    Cap,                \* the cap setup-devnet gives a vault, and the seed deposit
    OtherHoldings,      \* what other vaults may hold in the same USDC account
    Mishaps             \* bound on lost, unconfirmed, late and cut-off calls

DrillScripts == {"gate", "phase_b", "seed", "halt", "resume", "raise_caps"}

ASSUME DrillAssumption ==
    /\ Crews \subseteq SUBSET DrillScripts
    /\ Cap \in Nat \ {0} /\ OtherHoldings \subseteq Nat /\ Mishaps \in Nat

VARIABLES
    site,       \* what the scripts read and write of the deployment
    drill,      \* the script under way
    limbo,      \* a transaction given up that may still land
    crew,       \* the scripts used
    mishaps     \* mishaps left

drillVars == <<site, drill, limbo, crew, mishaps>>

-----------------------------------------------------------------------------
(* Deposit caps *)
PhaseBCap == 5 * Cap
RaisedCap == 100 * Cap
ORIGINAL_DEPOSIT_CAP == Cap

(* haltedBy: who set the flag, or "none" while it is not set.  held is the *)
(* USDC of the account that all vaults share; pending, of the position,    *)
(* awaits withdrawal.                                                      *)
SetUpSite(held) ==
    [haltedBy |-> "none", shares |-> 0, pending |-> 0, held |-> held,
     cap |-> Cap, keeper |-> "original", listed |-> FALSE]

(* Transactions: <<instruction, argument>>.  Whether the redemption period *)
(* has passed is open.                                                     *)
Refused(t, c) ==
    CASE t[1] = "deposit"  -> c.haltedBy # "none" \/ c.shares + t[2] > c.cap
      [] t[1] = "request"  -> c.pending > 0 \/ t[2] > c.shares
      [] t[1] = "withdraw" -> c.pending = 0 \/ c.pending > c.held
      [] t[1] = "allocate" -> c.haltedBy # "none" \/ c.held = 0 \/ c.keeper # "original"
      [] t[1] = "whitelist" -> c.listed
      [] OTHER             -> FALSE

MayRefuse(t, c) == Refused(t, c) \/ (t[1] = "withdraw" /\ c.haltedBy = "none")

Landed(t, c) ==
    CASE t[1] = "deposit"  -> [c EXCEPT !.shares = @ + t[2], !.held = @ + t[2]]
      [] t[1] = "request"  -> [c EXCEPT !.pending = t[2]]
      [] t[1] = "withdraw" -> [c EXCEPT !.shares = @ - c.pending, !.held = @ - c.pending,
                                        !.pending = 0]
      [] t[1] = "halt"     -> [c EXCEPT !.haltedBy = IF @ = "none" THEN t[2] ELSE @]
      [] t[1] = "resume"   -> [c EXCEPT !.haltedBy = "none"]
      [] t[1] = "cap"      -> [c EXCEPT !.cap = t[2]]
      [] t[1] = "keeper"   -> [c EXCEPT !.keeper = t[2]]
      [] t[1] = "whitelist" -> [c EXCEPT !.listed = TRUE]
      [] t[1] = "allocate" -> [c EXCEPT !.held = @ - 1]

-----------------------------------------------------------------------------
(* Steps *)

NoDrill == [script |-> "none", at |-> "end", failed |-> {}, wasHalted |-> FALSE,
            amount |-> 0, unseen |-> FALSE, haunted |-> FALSE, budget |-> 0]

At(script, step) == drill.script = script /\ drill.at = step
Go(step) == [drill EXCEPT !.at = step]

(* record(name, 'fail'), also of what a step throws. *)
Fail(name, step) == [drill EXCEPT !.at = step, !.failed = @ \cup {name}]

(* A read of the chain, or an error of the connection. *)
Reads(ok, err) ==
    /\ \/ drill' = ok /\ UNCHANGED mishaps
       \/ mishaps > 0 /\ mishaps' = mishaps - 1 /\ drill' = err
    /\ UNCHANGED <<site, limbo, crew>>

(* A transaction: it lands, it is refused, or an error hides that it was   *)
(* lost, has landed or will land.                                          *)
Sends(t, ok, refused, err) ==
    /\ UNCHANGED crew
    /\ \/ /\ ~Refused(t, site)
          /\ site' = Landed(t, site) /\ drill' = ok /\ UNCHANGED <<limbo, mishaps>>
       \/ MayRefuse(t, site) /\ drill' = refused /\ UNCHANGED <<site, limbo, mishaps>>
       \/ /\ mishaps > 0 /\ mishaps' = mishaps - 1 /\ drill' = err
          /\ \/ UNCHANGED <<site, limbo>>
             \/ ~Refused(t, site) /\ site' = Landed(t, site) /\ UNCHANGED limbo
             \/ limbo = <<>> /\ limbo' = <<t>> /\ UNCHANGED site

SendsOrFails(t, name, ok, failed) == Sends(t, Go(ok), Fail(name, failed), Fail(name, failed))

-----------------------------------------------------------------------------
(* e2e-gate.ts: each step returns pass, fail or skip, and the next one runs *)
(* whatever it returned.  Steps 3, 5 and 8 pass or skip, whatever they read.*)
Gate(step) == At("gate", step)

step1_verifyProgram == Gate("1") /\ Reads(Go("2"), Fail("1", "2"))

step2_verifyVaults == Gate("2") /\ Reads(Go("3"), Fail("2", "3"))

step3_verifyProtocolIntegration ==
    Gate("3") /\ drill' = Go("4") /\ UNCHANGED <<site, limbo, crew, mishaps>>

step4_reads == Gate("4") /\ Reads(Go("4 balance"), Fail("4", "5"))

(* Too little USDC skips the deposit, and so does an error.                *)
step4_balance == Gate("4 balance") /\ \E next \in {"4 deposit", "5"} : Reads(Go(next), Go("5"))

(* DepositCapExceeded skips; other errors fail.                            *)
step4_deposit ==
    /\ Gate("4 deposit")
    /\ Sends(<<"deposit", 1>>, Go("5"),
             IF site.haltedBy = "none" THEN Go("5") ELSE Fail("4", "5"), Fail("4", "5"))

step5_verifyShares == Gate("5") /\ Reads(Go("6"), Go("6"))

(* All shares of the position, unless some are pending; an error skips.    *)
step6_reads ==
    /\ Gate("6")
    /\ Reads(IF site.shares > 0 /\ site.pending = 0
             THEN [Go("6 request") EXCEPT !.amount = site.shares] ELSE Go("7"),
             Go("7"))

step6_requestWithdraw ==
    Gate("6 request") /\ SendsOrFails(<<"request", drill.amount>>, "6", "7", "7")

(* An error reading the position skips like a position without a request.  *)
step7_reads ==
    /\ Gate("7")
    /\ Reads(Go(IF site.pending = 0 THEN "8" ELSE "7 flag"), [Go("8") EXCEPT !.unseen = TRUE])

step7_flag ==
    /\ Gate("7 flag")
    /\ LET halted == site.haltedBy # "none"
       IN  Reads([Go(IF halted THEN "7 fetch" ELSE "7 halt") EXCEPT !.wasHalted = halted],
                 Fail("7", "8"))

step7_halt == Gate("7 halt") /\ SendsOrFails(<<"halt", "gate">>, "7", "7 fetch", "8")

step7_fetch == Gate("7 fetch") /\ Reads(Go("7 withdraw"), Fail("7", "8"))

AfterWithdraw == IF drill.wasHalted THEN "8" ELSE "7 resume"

(* Mutant: an error of the withdrawal does not count. *)
step7_withdraw_unjudged ==
    /\ Gate("7 withdraw")
    /\ Sends(<<"withdraw", 0>>, Go(AfterWithdraw), Go(AfterWithdraw), Go(AfterWithdraw))

step7_withdraw ==
    Gate("7 withdraw") /\ SendsOrFails(<<"withdraw", 0>>, "7", AfterWithdraw, AfterWithdraw)

(* resumeAllocator, its result not looked at. *)
step7_resume == Gate("7 resume") /\ Sends(<<"resume", 0>>, Go("8"), Go("8"), Go("8"))

step8_verifyUsdcReturned == Gate("8") /\ Reads(Go("9"), Go("9"))

step9_flag ==
    /\ Gate("9")
    /\ LET halted == site.haltedBy # "none"
       IN  Reads([Go(IF halted THEN "9 check" ELSE "9 halt") EXCEPT !.wasHalted = halted],
                 Fail("9", "10"))

step9_halt == Gate("9 halt") /\ SendsOrFails(<<"halt", "gate">>, "9", "9 check", "10")

step9_check ==
    Gate("9 check") /\ Reads(IF site.haltedBy = "none" THEN Fail("9", "10") ELSE Go("9 vault"),
                             Fail("9", "10"))

step9_vault == Gate("9 vault") /\ Reads(Go("9 deposit"), Go("9 give up"))

step9_giveUp == Gate("9 give up") /\ Sends(<<"resume", 0>>, Go("10"), Go("10"), Go("10"))

(* Any error is taken for the rejection it expects. *)
step9_deposit ==
    /\ Gate("9 deposit")
    /\ Sends(<<"deposit", 1>>, Fail("9", "9 resume"), Go("9 resume"), Go("9 resume"))

(* Mutant: it leaves a halt it found. *)
step9_resume_own ==
    /\ Gate("9 resume")
    /\ IF drill.wasHalted THEN Reads(Go("10"), Go("10"))
       ELSE SendsOrFails(<<"resume", 0>>, "9", "9 verify", "10")

(* It resumes even if it found the allocator halted. *)
step9_resume == Gate("9 resume") /\ SendsOrFails(<<"resume", 0>>, "9", "9 verify", "10")

step9_verify ==
    Gate("9 verify") /\ Reads(IF site.haltedBy = "none" THEN Go("10") ELSE Fail("9", "10"),
                              Fail("9", "10"))

(* Mutant: the flag is printed only. *)
step10_prints == Gate("10") /\ Reads(Go("end"), Fail("10", "end"))

step10_verifyState ==
    Gate("10") /\ Reads(IF site.haltedBy = "none" THEN Go("end") ELSE Fail("10", "end"),
                        Fail("10", "end"))

GateStep ==
    \/ step1_verifyProgram \/ step2_verifyVaults \/ step3_verifyProtocolIntegration
    \/ step4_reads \/ step4_balance \/ step4_deposit
    \/ step5_verifyShares
    \/ step6_reads \/ step6_requestWithdraw
    \/ step7_reads \/ step7_flag \/ step7_halt \/ step7_fetch \/ step7_withdraw
    \/ step7_resume
    \/ step8_verifyUsdcReturned
    \/ step9_flag \/ step9_halt \/ step9_check \/ step9_vault \/ step9_giveUp
    \/ step9_deposit \/ step9_resume \/ step9_verify
    \/ step10_verifyState

-----------------------------------------------------------------------------
(* test-phase-b.ts.  Anchor's client refuses its deposit and rebalances,   *)
(* whose usdcMint account is missing.                                      *)
PhaseB(step) == At("phase_b", step)

b17_reads == PhaseB("17") /\ Reads(Go("17 update"), Fail("17", "18"))

b17_update == PhaseB("17 update") /\ SendsOrFails(<<"cap", PhaseBCap>>, "17", "17 verify", "18")

b17_verify ==
    /\ PhaseB("17 verify")
    /\ Reads(IF site.cap = PhaseBCap THEN Go("17 vault") ELSE Fail("17", "17 vault"),
             Fail("17", "18"))

(* An error skips the deposit, and the restoration with it. *)
b17_vault == PhaseB("17 vault") /\ Reads(Go("17 balance"), Go("18"))

b17_balance ==
    PhaseB("17 balance") /\ \E next \in {"17 deposit", "17 restore"} :
        Reads(Go(next), Go("17 restore"))

(* Mutant: the failing deposit returns. *)
b17_deposit_returns == PhaseB("17 deposit") /\ Reads(Fail("17", "18"), NoDrill)

(* An error making a token account ends the run. *)
b17_deposit == PhaseB("17 deposit") /\ Reads(Fail("17", "17 restore"), NoDrill)

(* To a constant, whatever the cap was; a failure is a warning. *)
restoreDepositCap ==
    /\ PhaseB("17 restore")
    /\ Sends(<<"cap", ORIGINAL_DEPOSIT_CAP>>, Go("18"), Go("18"), Go("18"))

b18_change == PhaseB("18") /\ SendsOrFails(<<"keeper", "temp">>, "18", "18 verify", "20")

b18_verify ==
    PhaseB("18 verify") /\ Reads(IF site.keeper = "temp" THEN Go("18 restore") ELSE Fail("18", "20"),
                                 Fail("18", "20"))

b18_restore == PhaseB("18 restore") /\ SendsOrFails(<<"keeper", "original">>, "18", "18 check", "20")

b18_check ==
    PhaseB("18 check") /\ Reads(IF site.keeper = "original" THEN Go("20") ELSE Fail("18", "20"),
                                Fail("18", "20"))

b20ab_weightValidation == PhaseB("20") /\ Reads(Go("19"), Fail("20", "19"))

b19_rebalanceValid == PhaseB("19") /\ Reads(Fail("19", "20c"), Fail("19", "20c"))

b20c_rebalanceTooSoon == PhaseB("20c") /\ Reads(Go("end"), Fail("20", "end"))

PhaseBStep ==
    \/ b17_reads \/ b17_update \/ b17_verify \/ b17_vault \/ b17_balance \/ b17_deposit
    \/ restoreDepositCap
    \/ b18_change \/ b18_verify \/ b18_restore \/ b18_check
    \/ b20ab_weightValidation \/ b19_rebalanceValid \/ b20c_rebalanceTooSoon

-----------------------------------------------------------------------------
(* seed-and-test.ts up to its lease and rebalance, and test-halt-resume.ts:*)
(* an error ends the run.                                                  *)

seed_reads == At("seed", "1") /\ Reads(Go("1 deposit"), NoDrill)

(* DepositCapExceeded skips. *)
seed_deposit ==
    /\ At("seed", "1 deposit")
    /\ Sends(<<"deposit", Cap>>, Go("2"),
             IF site.haltedBy = "none" THEN Go("2") ELSE NoDrill, NoDrill)

(* AlreadyWhitelisted skips. *)
seed_whitelist == At("seed", "2") /\ Sends(<<"whitelist", 0>>, Go("2 allocate"), Go("2 allocate"), NoDrill)

seed_allocate == At("seed", "2 allocate") /\ Sends(<<"allocate", 0>>, Go("end"), NoDrill, NoDrill)

(* What the flag already is, is not sent. *)
flag_reads ==
    \E s \in {"halt", "resume"} :
        /\ At(s, "1")
        /\ Reads(Go(IF (site.haltedBy # "none") = (s = "halt") THEN "end" ELSE "2"), NoDrill)

flag_sends ==
    \E s \in {"halt", "resume"} :
        At(s, "2") /\ Sends(<<s, "operator">>, Go("end"), NoDrill, NoDrill)

(* raise-deposit-caps.ts, the moderate vault. *)
raise_cap == At("raise_caps", "1") /\ Sends(<<"cap", RaisedCap>>, Go("end"), NoDrill, NoDrill)

OtherStep ==
    seed_reads \/ seed_deposit \/ seed_whitelist \/ seed_allocate \/ flag_reads \/ flag_sends
        \/ raise_cap

-----------------------------------------------------------------------------
(* Running the scripts *)

FirstStep == [s \in DrillScripts |-> IF s = "phase_b" THEN "17" ELSE "1"]

DrillInit ==
    /\ \E held \in OtherHoldings : site = SetUpSite(held)
    /\ drill = NoDrill
    /\ limbo = <<>>
    /\ crew \in Crews
    /\ mishaps = Mishaps

(* haunted: a transaction of an earlier run may still land. *)
begins(s) ==
    /\ s \in crew
    /\ drill = NoDrill
    /\ drill' = [NoDrill EXCEPT !.script = s, !.at = FirstStep[s], !.haunted = limbo # <<>>,
                                !.budget = mishaps]
    /\ UNCHANGED <<site, limbo, crew, mishaps>>

Ending == drill # NoDrill /\ drill.at = "end"

ends ==
    /\ Ending
    /\ drill' = NoDrill
    /\ UNCHANGED <<site, limbo, crew, mishaps>>

(* The operator, or the machine, stops the script. *)
cutOff ==
    /\ drill # NoDrill /\ mishaps > 0
    /\ drill' = NoDrill
    /\ mishaps' = mishaps - 1
    /\ UNCHANGED <<site, limbo, crew>>

limboLands ==
    /\ limbo # <<>>
    /\ site' = IF Refused(limbo[1], site) THEN site ELSE Landed(limbo[1], site)
    /\ limbo' = <<>>
    /\ UNCHANGED <<drill, crew, mishaps>>

limboExpires ==
    /\ limbo # <<>>
    /\ limbo' = <<>>
    /\ UNCHANGED <<site, drill, crew, mishaps>>

DrillStep == GateStep \/ PhaseBStep \/ OtherStep \/ ends

DrillNext ==
    \/ \E s \in crew : begins(s)
    \/ DrillStep
    \/ cutOff
    \/ limboLands
    \/ limboExpires

DrillSpec == DrillInit /\ [][DrillNext]_drillVars

(* A script goes on, a transaction lands or expires, and the gate is run   *)
(* again and again.                                                        *)
DrillFairness ==
    /\ WF_drillVars(DrillStep)
    /\ WF_drillVars(limboLands \/ limboExpires)
    /\ SF_drillVars(begins("gate"))

FairDrillSpec == DrillSpec /\ DrillFairness

-----------------------------------------------------------------------------
(* Properties *)

(* e2e-gate.ts:748-766: a gate run without a failed step leaves the        *)
(* allocator running, although a resume of step 7 or 9 may fail unnoticed; *)
(* transactions of this run that may still land count as failures.         *)
GateVerdictHonest ==
    Ending /\ drill.script = "gate" /\ drill.failed = {} /\ ~drill.haunted =>
        site.haltedBy = "none"

(* e2e-gate.ts:355-450: a gate run without a failed step leaves no         *)
(* withdrawal pending, its own or one it found, unless step 7 could not    *)
(* read the position: an error it takes for there being none.              *)
WithdrawalsSettle ==
    Ending /\ drill.script = "gate" /\ drill.failed = {} /\ ~drill.haunted /\ ~drill.unseen =>
        site.pending = 0

(* test-phase-b.ts:214,277: an undisturbed run puts cap and keeper back to *)
(* its constants, and no run leaves the temporary keeper in place without  *)
(* saying so.                                                              *)
PhaseBRestores ==
    Ending /\ drill.script = "phase_b" /\ ~drill.haunted =>
        /\ site.keeper = "temp" => "18" \in drill.failed
        /\ mishaps = drill.budget =>
               site.cap = ORIGINAL_DEPOSIT_CAP /\ site.keeper = "original"

(* However gate runs are cut off and their transactions lost, a halt the   *)
(* gate made does not last: a later run resumes it.                        *)
GateHaltEnds == []<>(site.haltedBy # "gate")
=============================================================================
