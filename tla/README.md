# Verification of nanuqfi

nanuqfi is a yield-routing platform for Solana. An on-chain program, the
*allocator*, keeps USDC vaults: users deposit and redeem shares, a keeper
rebalances the vault among lending protocols within guardrails, an admin halts,
resumes and configures. A second program, the *Ranger adaptor*, is a strategy
of another vault that invests in an allocator vault. Off chain, a TypeScript
SDK reads rates from lending protocols through cached, retried HTTP calls and
ranks the protocols; its router guards each of them with a circuit breaker.
A backtest replays historical rates through the same scores. Scripts set up,
extend, migrate and exercise the devnet deployment.

This directory holds TLA+ models of these parts, TLC runs that check them on
small instances, and TLAPS proofs that hold for every instance.

Paths below are those of the repository. `lib.rs` alone is
`programs/allocator/src/lib.rs`, `validation.rs` and `state.rs` are its siblings.

## 1. Inventory

| Component | State | Operations | Hard part |
|---|---|---|---|
| Allocator (`lib.rs`, `state.rs`) | `Allocator` (halted, TVL, whitelist), `RiskVault`, a `UserPosition` per user, `Treasury`, `RebalanceRecord` accounts keyed by a counter, SPL token accounts | deposit, request_withdraw, withdraw, close_user_position; rebalance, allocate_to_protocol, recall_from_protocol; emergency_halt, resume, the configuration and treasury instructions | any order of instructions by users, keeper and admin; rounding; checked arithmetic that fails; requests that age while the vault changes; an auto-halt that returns `Ok` half-way |
| Share and fee arithmetic (`validation.rs`, inline in `lib.rs`) | none | share price, minting, redemption value, performance and management fee | rounding direction, virtual offset, `as u64` |
| Validation helpers (`validation.rs`) | none | the checks the unit tests exercise; `rebalance` has its own copies | two implementations of one check that round differently |
| Keeper lease (`lib.rs:732-767`) | `KeeperLease`, `Allocator.keeper_authority` | acquire_lease, heartbeat, update_keeper_authority | rotation while a lease is in force, late heartbeats |
| Ranger adaptor (`programs/nanuqfi-adaptor`, `programs/mock-ranger-vault`) | `NanuqfiStrategy`, the authority's position and token accounts | initialize, deposit, withdraw, each calling the allocator in the same transaction | two calls that succeed or fail together; a position shared with other users' price movements |
| Circuit breaker (`packages/core/src/circuit-breaker.ts`) | state, failure count, last failure time | state getter, execute | calls admitted before a trip end after it |
| Router and registry (`router.ts`, `registry.ts`) | one breaker per name, the registered backends | getBestYields, register, unregister | concurrent queries share breakers; a breaker outlives its backend |
| TTL cache (`cache.ts`) | a `Map` of timestamped entries | get, set, clear | eviction, expiry, update in place |
| HTTP retry (`fetch-retry.ts`) | one call's attempt number and timers | fetchWithRetry | a reply races the abort timer; backoff |
| Kamino and Lulo API clients (`kamino-api.ts`, `lulo-api.ts`) | module-level caches, one for Kamino, two for Lulo | the reads behind yield and risk, clear | an entry read before an `await` is used after it; two reads make one answer |
| Lending backends (`backends/lending.ts`, `mock-yield-backend.ts`) | the position kept in memory | yield, risk, slippage, deposit, withdraw | division by an empty market; a test double that differs |
| Marginfi data access (`marginfi-data-api.ts`) | two memo maps keyed by token | rates and bank metrics, clear | a value outlives the client it came from |
| Backtest (`packages/backtest/src`) | none between runs | load and aggregate history, compound, measure | how often it compounds; weights when nothing scores |
| Account layouts and migrations (`state.rs`, `lib.rs:901-1197`) | the bytes of version-0 and version-1 accounts | four migrations | fixed offsets behind a `Vec` |
| Set-up and migration scripts (`scripts/*.ts`) | the deployment; the run under way | setup-devnet, setup-ranger, three migrations, fix-treasury, raise-caps | a transaction that is lost, unconfirmed or late; work in two transactions |
| Drill scripts (`scripts/legacy`, `seed-and-test.ts`) | the deployment; the run under way | the gate before mainnet, phase B, seeding, halting, resuming | a halt or a changed cap that the script does not live to undo |
| Strategy base, interfaces, logger, environment, devnet instructions, errors, events | see section 8 | | not modelled |

How they interact. Users, keeper and admin send transactions; the runtime runs
one instruction at a time, and one that returns an error changes nothing. The
adaptor calls the allocator inside its own transaction. Lending protocols are
outside: they hold token accounts whose balance may grow or shrink. The keeper
and its process are not in this repository; what it may do is what the program
accepts. In the SDK everything runs on one JavaScript thread, so code between
two awaits is atomic and everything else interleaves: queries share breakers,
callers of an API client share its cache. A script talks to the chain through
reads and transactions that may fail in either direction, and the operator may
stop it anywhere and start another.

What makes each component correct:

- *Allocator*: the three counts of shares agree; USDC is conserved, whichever
  account is the treasury's; fees are where they were put; a pending redemption
  is covered by shares, and by assets up to what the virtual offset adds;
  rounding never favours the one who enters or leaves; a halt freezes everything
  but payouts; records of rebalances form a chain.
- *Lease*: a mutex with expiry, which a rotated-out keeper loses.
- *Adaptor*: it holds the tokens its position counts, and it never takes more
  than the price.
- *Breaker and router*: a query calls every enrolled backend but those that
  failed too often too recently; every query returns; recovery happens.
- *Cache, retry, data access*: bounded size and time, no resurrected entry, a
  bounded age of what is served and a bounded distance between the two rates
  that make one score.
- *Backends*: a market that is lent out further never scores better, down to one
  with nothing left; the double that tests use never shows more than the real
  position.
- *Backtest*: one compounding per day, a portfolio no worse than the worst of
  its parts, the drawdown as defined.
- *Scripts*: a report of success is true (one is not, section 6), an undisturbed
  test leaves nothing changed, and whatever was cut off, running again gets there.

## 2. Modules

| Module | Models | Notes |
|---|---|---|
| `ShareMath` | pricing, minting, fees | `checked_*` is a `Fits` guard in the caller, `as u64` is `AsU64` |
| `Allocator` | the allocator program | one action per instruction |
| `AllocatorClaims` | statements of comments that the program contradicts | section 6 |
| `ValidationHelpers` | the helpers of `validation.rs` that tests use | evaluated in the states of `Allocator` |
| `KeeperLease`, `LeaseMutex` | lease instructions; the mutex they implement | `LeaseMutex` is the abstract specification |
| `RangerAdaptor` | adaptor and calling vault, composed with all of `Allocator` | |
| `CircuitBreaker`, `YieldRouter`, `FailureGate` | breaker functions; router, registry and concurrent queries; the gate they implement | `FailureGate` is the abstract specification |
| `TtlCache`, `TtlCacheUse` | the methods of the cache as functions on its `Map`; any client of it | |
| `FetchRetry` | one call of `fetchWithRetry` | |
| `ApiClient` | a query's two cached reads with stale fallback, for Kamino and for Lulo | uses `TtlCache`; `MaxFetch` stands for `FetchRetry`'s budget |
| `MarginfiData` | the two memo maps and the clients they outlive | |
| `LendingBackend` | scores and positions of the three backends, and of the mock | |
| `Backtest` | loader, engine and drawdown in exact fractions | |
| `AccountLayout` | account layouts and the vault's migration, byte by byte | a pure module |
| `DevnetSetup` | seven set-up and migration scripts and the chain as they see it | uses `AccountLayout` |
| `DevnetDrills` | gate, phase B, seeding, halt, resume, raised cap | |
| `DataLemmas` | induction, sums, places in an order | for all proofs |
| `AllocatorProofs`, `RangerAdaptorProofs`, `KeeperLeaseProofs`, `YieldRouterProofs`, `PackageProofs`, `BacktestProofs`, `OperatorProofs` | the proofs | `AllocatorProofs` includes `ShareMath` and `ValidationHelpers`, and `RangerAdaptorProofs` builds on it; `PackageProofs` is about the other parts of `packages/`, `OperatorProofs` about the scripts |
| `MCAllocator`, `MCRangerAdaptor`, `MCYieldRouter` | values of constants for TLC | |
| `MCPackages`, `MCOperators` | the small parts of `packages/`; those who operate a deployment: set-up scripts, drills, keepers | a behaviour is of one part, chosen at its start |

A definition whose comment begins with "Mutant:" is not part of a model. It is
the definition below it with a plausible mistake; replacing one by the other
must make TLC report the property that guards against the mistake.

### Allocator

`vault`, `position[u]`, `treasury` and `rebalance_record[n]` are the accounts of
the same names with the fields the program reads. Fields that are only written
(`current_equity`, `deposited_usdc`, `entry_slot`, lending and leverage caps,
versions, bumps) are left out. Token accounts are numbers: `user_usdc`,
`user_shares`, `vault_usdc`, `protocol_usdc` (owned by the allocator, so
recallable) and `external_usdc` (owned elsewhere). `protocol_pnl` is a history
variable: what protocols earned and lost.

`initialize_treasury` and `update_treasury_usdc` take any token account
(`lib.rs:1399`, `:1801`), also the vault's own: `setup-devnet.ts:138-145`
configures the allocator's associated account, which the other scripts pass as
`vault_usdc`. So `treasury_account` is one of `TreasuryChoices`, initially too,
and `VaultAccount` may be among them. `treasury_usdc` holds the balances of the
others. While the treasury is the vault's account a fee is a transfer from it to
itself (`PayWithFee`) and a withdrawal of fees comes out of it; `vault_fees` is
history, what fees it holds so. `AllocatorAccounts` are the choices that the
allocator's PDA can sign for.

An instruction's early returns are the guards of its action. Four points that
are easy to miss in the code are kept:

- `rebalance` is two actions. `rebalance_auto_halt` is the path of
  `lib.rs:541`, which returns `Ok` after setting `halted`. Anchor has created
  the record account by then and commits it blank. The counter is unchanged, so
  `RebalanceChecks` asks that the next record's address be free, and
  `close_rebalance_record` cannot match a blank record (its `risk_vault` is the
  default key).
- `withdraw` pays the lesser of the current and the requested price, subtracts
  the gross amount from three balances with checked subtractions (`Payable`),
  burns tokens the signer must still have, and resets the high-water mark to
  the price after the burn only for a partial redemption.
- The management fee's product is computed in `u64` (`FeeComputable`), and what
  is paid is capped by the vault's balance.
- The divergence, drawdown and 24-hour checks multiply in `u64` as well; a
  product that overflows rejects the rebalance (`WithinDivergence`,
  `RatioWithin`, `CrashRatioFits`). The helpers of `validation.rs` overflow
  elsewhere: one of them computes in `u128`.

`TransferShares` is a plain SPL transfer of share tokens; nothing in the program
sees it. Signer checks and account constraints that compare keys fixed at set-up
are taken as satisfied. Initialisation is `Init`.

### Lease

The handlers compare `lease_expiry_slot` with the clock and do nothing else with
it, so the state keeps the slots left. Time needs no bound then, and the state
space is finite. `since_rotation` is history, capped at one lease.

### Ranger adaptor

The strategy's authority is one of the allocator's users and can only run the
three adaptor instructions. `withdraw_strategy` runs `request_withdraw` and
`withdraw` in one step: it applies the allocator's own operators `Requestable`,
`Requested` and `Redeem` to the intermediate position. Everyone else in the
allocator goes on as before.

### Router

`getBestYields` is cut at its awaits: `getBestYields` up to the calls (each
breaker's `execute` has read its `state` getter, which may turn OPEN into
HALF_OPEN), `answers` and `rejects` for the end of one call with the breaker's
callback, `returns` after `Promise.allSettled`, including the warning that
reads the getter again. A query keeps the order the registry had when it
began: the sort is stable. Of `lastFailureTime` only its age against the reset
timeout matters, capped there. Scores are quotients and are compared by cross
multiplication.

### Cache, retry, API clients

`TtlCache` describes `get`, `set` and `clear` as functions on the sequence of
map entries, in insertion order, because eviction takes the first and
`Map.set` on a present key keeps its place. `TtlCacheUse` calls them in any
order, and remembers in `lost` the keys that have had no answer since they were
last set; `ApiClient` calls them the way `kamino-api.ts` and `lulo-api.ts` do.

`FetchRetry` has one phase per await of the loop. A timer that is due fires
before time goes on, and a reply may still win against it: `clearTimeout` runs
when the reply's continuation does.

In `ApiClient` a rate is the time at which the server sampled it, so its age is
measurable. `asks` starts both parts of a query, as the router does before it
awaits either; a part that fetches holds on to the stale entry it read, and
`fails` serves that entry whatever happened to the cache meanwhile, as the code
does. Kamino's parts share one cache, Lulo's have one each: `source` says which
backend a behaviour is about.

In `MarginfiData` a value is the number of the client it was computed from. A
client is a snapshot of the banks; the SDK's caller replaces it to see new rates.

### Backends and backtest

Volatility is multiplied by the supply and slippage compared by cross
multiplication, so nothing is rounded. Where JavaScript yields `Infinity` or
`NaN` the model says what the comparison that follows does with it
(`ShareAbove`). `double` is `MockYieldBackend` under the same calls.

The backtest's values are fractions of the initial deposit and its rates small
integers, so that products over three days stay exact. `observes` and `brings`
are the two ways to data: the loader's, and a caller's own.

### Scripts

A script of `DevnetSetup` is a list of groups: a group looks at the chain once
and, unless it finds its work done, sends its transactions one by one. A send
may be rejected, be lost, land although its confirmation throws, or land after
the script gave it up (`inflight`). An error ends the run, except that
setup-devnet catches every one of its treasury step (`fellBack`), and that a
token account is looked up again. What a run reads once and uses later is kept
in it (`Noting`). `OldChain` is a version-0 deployment, with vaults that hold few or all
weights: `LimitedByMigration` computes from the layouts which of them
`admin_migrate_risk_vault` leaves limited.

A script of `DevnetDrills` goes from step to step, each a read or a transaction
with the outcome that the code's `catch` gives it: fail, skip, or nothing. The
gate's steps carry its step numbers. Phase B's deposit and rebalance are refused
before they are sent, since the account `usdcMint` is missing from them. The
vaults share one USDC account: `held` counts what other vaults have in it
(`OtherHoldings`) too.

## 3. Runs

Basis points are hundredths in the models, so one unit is one percent, and
prices, offsets and fees are scaled down so that every rounding matters at
amounts below ten.

| Run | Properties | Bounds |
|---|---|---|
| `accounts` | `ShareLedgerBalances`, `TvlCoversAssets`, `PendingIsCovered`, `RedemptionsLackOnlyOffset`, `NoDilution` | two users (symmetric) with 5 USDC, deposits of 3 or 5, redemptions of 2 or of everything, transfers of 2 tokens, three slots, both fees, an offset of 4 and a management fee of a third per slot, so that assets fall below shares while a redemption is pending |
| `custody` | `AssetsAreHeld`, `TreasuryHoldsFees`, `HaltFreezesFunds` | one user with 6 USDC, moves of 2 to a recallable and to a foreign account, profit and loss up to 2, whitelist of at most 2, halts; the treasury's account starts and moves among the vault's, another of the allocator's and a foreign one |
| `guardrails` | `AuditTrail`, `PeakDominates`, `AutoHaltShadowed`, `HelpersErrOneWay` | one user with 99 USDC, four weight vectors, snapshots at the edges of every threshold and one whose drawdown overflows, guardrails tightened at any time, closed records, four slots |
| `ranger` | `TokensBackPosition`, `RedeemsAtPrice` | the strategy and one user, amounts of 4, shares of 2, halts, a changed cap and period, three slots |
| `router` | `DominanceRespected`, `BreakersGateCalls`, `QueriesReturn`, `BreakersRecover` | two queries, two backends of which one comes and goes, threshold 2, three failures, three different answers |
| `packages`: cache | `CacheServesLastWrites` | three keys, two values, room for two, ttl 1, stale 2, five points in time |
| `packages`: retry | `WithinBudget`, `Settles` | the default three retries, one status of each class the code tells apart, delay 1, timeout 3 |
| `packages`: API client | `ServedAge`, `PairSkew`, `ReadingsAdvance` | Kamino and Lulo, a query with two fetches in flight, fetches of 1, ttl 1, stale 2, eight points in time |
| `packages`: Marginfi | `ServedByRecentClient` | three clients that know the bank or not, a memo of 2, six points in time |
| `packages`: backend | `DoubleNeverAhead`, `TighterMarketsScoreWorse` | three protocols, amounts 0, 1, 2, 5 against a supply of 200 lent out to 0 up to 201, and an empty market |
| `packages`: backtest | `NeverBelowWorst`, `CompoundsOncePerDay`, `DrawdownIsLargestFall` | up to four observations over three days, or three days of rates 0 to 2 for each protocol; curves of up to four values |
| `operators`: set-up | `CompleteMeansDone`, `OrphansComeFromFaults`, `SetupConverges` | a new and two old deployments, two levels, three sets of scripts in any order, two faults |
| `operators`: drills | `GateVerdictHonest`, `WithdrawalsSettle`, `PhaseBRestores`, `GateHaltEnds` | three sets of scripts in any order, two mishaps, a cap of two gate deposits, one unit of another vault's in the USDC account |
| `operators`: keepers | `OldLeaseRunsOut`, `LeaseIsMutex`, `RotationCompletes` | three keepers, a lease of five slots, any number of rotations |
| `record_slot`, `fee_rate`, `two_step`, `migrated_vault`, `setup_report` | one claim each, violated | section 6 |

The parts of `packages` and of `operators` share a run and nothing else: their
variables are disjoint and all but the chosen part rest.

What the properties say, beyond their names:

- `ShareLedgerBalances`: the vault, the positions and the share tokens count
  the same shares. The program never compares them. Two users and a token
  transfer between a request and its withdrawal are what could break it.
- `RedemptionsLackOnlyOffset`: a withdrawal fails on its checked subtraction
  when it would pay more than the assets left. Shares start at 1:1 and fees only
  lower the assets, so after a fee this is possible: the virtual offset then
  prices a large redemption above what is left (section 7). The property says of
  every pending redemption, after any fees and other redemptions, that what it
  lacks is due to that alone: it is below the offset, bounded by a formula in the
  excess of its shares over the assets, and nothing for a request of no more
  shares than there are assets. A vault with no assets left redeems none.
- `AssetsAreHeld`, `TreasuryHoldsFees`: the USDC in all accounts together is the
  assets plus the fees not withdrawn, up to the protocols' profit and loss, and
  the accounts other than the vault's have their part of those fees. Changes of
  the treasury's account between the vault's and others are what could break it.
  `vault_fees` may be below zero: fees paid elsewhere can be withdrawn from the
  vault's account, and the depositors then lack what a treasury account has too
  much.
- `NoDilution`: `(assets + offset) / (shares + offset)` does not fall when
  shares are minted or burned.
- `HaltFreezesFunds`: while halted no shares are minted, nothing is allocated,
  recalled or charged, and the vault's account only pays out.
- `AuditTrail`: adjacent records agree on weights and are an interval apart,
  and the newest one is the state of the vault, whichever records were closed.
- `AutoHaltShadowed`: with a drawdown cap below the auto-halt's threshold the
  drawdown check returns its error first for every snapshot that would halt.
- `HelpersErrOneWay`: the weight checks of the helpers are laxer than
  `rebalance`'s, the drawdown helper stricter but where the program's product
  overflows, the halt helper later, the divergence helper the same where it
  answers. A passing test of a helper speaks for the program
  in one direction only.
- `OldLeaseRunsOut`: what is left of a rotated-out keeper's lease plus the time
  since the rotation never exceeds one lease.
- `BreakersGateCalls`: the three-state breakers implement `FailureGate`, which
  only knows failure streaks and ages, and in which a query calls all the
  enrolled backends for its asset that the rule admits, and no other: a breaker
  that withholds an admitted call breaks it as much as one that lets through
  another. `BreakersRecover`: the breaker of a
  backend that queries keep asking closes for good once failures stop.
- `TokensBackPosition`: the strategy never lacks tokens to burn for the position
  it counts, beside users who pass tokens around; `RedeemsAtPrice`: USDC reaches
  the calling vault only against burned shares, at no more than their price.
- `CacheServesLastWrites`: a hit is the value last set for its key, within the
  stale window and called stale at the right time; a key that once had no answer,
  because its entry was evicted, expired or cleared, has none until it is set
  again; and the cache keeps to its size.
- `ServedAge`: a fresh rate may be older than the ttl by one fetch, a stale one
  older than the stale window by two. `ReadingsAdvance`: a caller's readings
  never go back by more than one fetch.
- `PairSkew`: the router divides a yield by a risk. Kamino's are of one sample
  when either comes fresh from the cache; Lulo's may differ by as much as the
  older of them is old, and never by more.
- `ServedByRecentClient`: a Marginfi rate may come from a replaced client, but
  only from one that was in use less than the ttl before.
- `TighterMarketsScoreWorse`: monotone through the quotients that become
  infinite or undefined at nothing available. Past that point, with more lent
  out than supplied, the code is not monotone (section 7).
- `NeverBelowWorst`: the weights of the scores never lose to the worst protocol
  even though another may be the worst each day. It is the rates that must not
  be negative.
- `CompleteMeansDone`: a closing line such as "Migration complete!" is true of
  the chain, also when transactions of an earlier run landed behind the back of
  this one. Two exceptions are in the property: vaults that `raise-caps` named as
  missing, and the treasury of setup-devnet, which may be absent at "Setup
  Complete" after a warning, and only if a read or a transaction failed. That
  the second exception is needed is the finding `setup_report`.
  `OrphansComeFromFaults`: on a new deployment, mints without a vault are due to
  faults only, so repeating setup is safe. `SetupConverges`: whatever was left
  behind, setup and the first migration complete it.
- `GateVerdictHonest`, `WithdrawalsSettle`: a gate run without a failed step
  leaves the allocator running and no withdrawal pending. The premises are
  exact: the run saw the position, and no earlier transaction was at large.
- `PhaseBRestores`: a run that ends without errors restores cap and keeper, and
  no run that ends leaves a temporary keeper silently. Runs that are cut off may.
- `RotationCompletes`: if the authority changes no more, its keeper gets the
  lease and keeps it.
- `GateHaltEnds`: a halt the gate made and did not undo is undone by a later gate.

Why the bounds are enough. In the allocator the hazards are one-step roundings
and orders of a few instructions: request, price change, withdraw; allocate,
halt, withdraw; rebalance, close, rebalance. All fit in three or four slots, and
the proofs of section 5 remove the bounds for every property that needs no
fairness. Two queries are the least at
which a call ends after another tripped the breaker; three failures trip a
breaker of threshold 2 and fail its half-open probe. One query of the API client
has two fetches of Kamino's one cache in flight, the least at which they
overlap, and eight points in time let an entry go stale, a fetch fail and a
newer value be overwritten. Three days leave two that compound, the least at which the worst protocol of one
day is not that of another. Two faults let one transaction land late and a
second be lost in the run that meets it; a cap of two deposits is reached by two
gates or one seed.

Constants that are bounds and not in the code: `MaxSlot`, `MaxPnl`, `MaxNow`,
`MaxTime`, `MaxInstant`, `MaxClients`, `MaxFailures`, `MaxDeposited`, `MaxEntries`,
`MaxDays`, `MaxCurve`, `MaxFaults`, `MaxOrphans`, `Mishaps`, and the sets of
amounts, weights, snapshots, markets, rates and choices. A model's clock stops
at its bound. TLC checks deadlock in the runs of the allocator, the adaptor and
the router, where some operation stays possible for ever; a retry
ends when its call settles, a backtest when its data is used up, and operators
may have nothing left to run.

## 4. Fairness

- `operators`, keepers: the clock advances, and an `acquire_lease` that stays possible is
  made (keepers retry every cycle). Heartbeats and rotations are not fair.
- `router`: a call in flight settles, since `fetchWithRetry` aborts every
  attempt and runs out of them (`Settles` of the `packages` run; the body of the
  reply is assumed to arrive too); settled promises resume; the keeper goes on
  polling; time passes. `MaxFailures` makes failures end, which is the
  hypothesis of recovery. Registering and unregistering are not fair, so
  `BreakersRecover` is about backends that are asked again and again.
- `packages`: the retry's timers fire and time passes while it is the part
  chosen. The server owes nothing. The other parts need no fairness.
- `operators`, scripts: a script that is running goes on, since its process does (weakly
  fair `Work` and `DrillStep`; stopping it is a mishap, bounded); a transaction
  lands or expires with its blockhash; the operator goes on starting setup, the
  first migration and the gate whenever no other script runs (strongly fair).
  The bounds on faults make them end, which is the hypothesis of convergence.
- `two_step`: time passes and the calling vault's withdrawal is strongly fair,
  the most one can grant it.

The other runs assume no fairness.

## 5. Proofs

Every safety property of a passing run, invariant or action property, is proved
for every value of the constants, and so are the two refinements. The proofs use
the named assumptions of the modules (`ShareMathAssumption`,
`AllocatorAssumption`, `AdaptorAssumption`, `KeeperLeaseAssumption`,
`BreakerAssumption`, `RouterAssumption`, `CacheAssumption`, `FetchAssumption`,
`ClientAssumption`, `MarginfiAssumption`, `BackendAssumption`,
`BacktestAssumption`, `SetupAssumption`, `DrillAssumption`), which say that
amounts and windows are natural numbers, divisors are not zero, a fee is at most
100%, the price precision fits in a `u64`, the users are finitely many and the
strategy is one of them, historical rates are not negative, and operators run the
scripts that exist. TLC evaluates each of them in a run.

An invariant is usually inductive only with more: the strengthenings are named
below. TLC agrees with them on the runs of their components, except for
`ReturnsInv`, whose 57th powers exceed TLC's integers, and for `RankingInv` and
the types in `DrillInv`, which range over infinite sets.

**Allocator.** `TypeOK` is not inductive: a withdrawal subtracts the shares of
an earlier request, which needs `PendingIsCovered`, and a fee is charged for the
slots since the last one, which needs the recorded slots to be past. So
`Inv == TypeOK /\ PendingIsCovered /\ TimesArePast` is shown to hold initially
and to be kept by each of the program's actions, one lemma per action
(`TypeCorrect`, `PendingCovered`). On it rest:

- `Custody`, `TreasuryBalances`, `TvlCovers`, `PeakIsKept`: the conjunction
  `Books` is inductive relative to `Inv`. `PaymentFacts` and `TreasuryFacts` say
  what a payment with a fee, and a step of the admin, do to the sum of the
  treasury accounts, whether the vault's is the configured one or not.
- `SharesBalance`: each action changes at most one user's position and tokens,
  or moves tokens between two users. `DataLemmas` has what that does to a sum:
  `SumFunction` picks its arguments in an order of its own, so the sum is shown
  to be the size of the set of units (`SumCountsUnits`), which has no order.
- `RedemptionsLackOffset`: the pending shares are part of the position's by
  `PendingIsCovered`, and the position's part of the vault's, since a sum bounds
  its terms (`PositionWithinSupply`). `LackBounds` does the arithmetic: with `n`
  shares of a supply `S`, assets `A` and offset `V`, what is paid is at most
  `n * (A + V) / (S + V)`, so what it lacks, times `S + V`, is at most
  `V * (n - A) - A * (S - n)`; that is below `V * (S + V)` and not above zero when
  `n <= A`.
- `NeverDilutes`: from `MintRoundsDown` and `ValueRoundsDown`. For a redemption
  the step is that what is paid is at most
  `shares * (assets + offset) / (supply + offset)`.
- `HaltFreezes`: case by case over the actions.
- `AutoHaltIsShadowed`: from `PeakIsKept`, a snapshot below the halt threshold
  of the reference is further below the peak than the drawdown cap admits,
  roundings included.
- `AuditTrailHolds`: inductive together with `Inv`.
- `HelpersErr`: the roundings of each helper against those of the program, and
  that a ratio within its bound can be computed (`RatioAtMost`).

The proofs are about the steps of `OpenSpec`, in which a deposit is of any
amount and a redemption may be of a request made in the same transaction, which
is what an on-chain program must expect of another program that calls it.
`Spec` implements it.

**Adaptor.** Its steps are not steps of `Spec`: a strategy deposits amounts of
its own and redeems a request that no earlier state held. Each is a
step of `OpenSpec` or a stutter (`AdaptorIsACaller`), so ledger, cover,
custody and dilution hold of the composition too (`AdaptorKeepsLedger`,
`AdaptorLeavesCover`, `AdaptorKeepsCustody`, `AdaptorNeverDilutes`).
`StrategyInv == Inv /\ TokensBackPosition` is inductive: tokens back the position
because the shares of a request never exceed it, and the converse part, that no
one else takes tokens from the strategy, is one lemma over the allocator's
actions. It gives `TokensAlwaysBack`, `AdaptorKeepsCover` and
`StrategyRedeemsAtPrice`.

**Lease.** `TypeOK` is inductive. `OldLeaseExpires` needs no strengthening:
every step keeps the sum or makes the premise false. `LeaseImplementsMutex`
maps each step to a grant, an expiry or a stutter of `LeaseMutex`.

**Router.** `Inv == TypeOK /\ StateMatchesCount` (`RouterTypeCorrect`,
`BreakersAgreeWithCounts`). `BreakersImplementGate` maps each step to one of
`FailureGate`; the invariant is what makes "OPEN after the getter" equal to "not
admitted". `RankingRespectsDominance`: `RanksAbove`, cross products first and the
registry's order second, is a strict total order of a query's results, by
multiplying inequalities of quotients; `PlacesFollowOrder` then says that the
places in it are 1 to the number of results and follow it. `RankingInv` keeps the
ranking of a query that has returned.

**Cache.** That a hit is the last write needs more than the next read:
`StoreInv` says of every entry that it is one, that no key has two, and that a
lost key has no entry that would be served (`GoneStaysGone`: time, a `get` and
the eviction of another key bring none back). Removal,
eviction and insertion each keep a `Map` a `Map` (`RemovalKeepsMap`,
`RoomKeepsMap`, `SetKeepsMap`). It gives `HitsAreLastWrites`.

**Retry.** `WithinBudget` bounds the time at each end of a call; `BudgetInv`
bounds it in each phase by `Spent(n)`, what `n` attempts and the delays after
them take at most. `Spent(n + 1)` needs `2^(n+1) = 2 * 2^n`, and the provers know
no powers: `PowerDoubles` gets it by counting the subsets of an interval, which
the finite-set theorems do. It gives `CallsEndInBudget` for any number of
retries, any delay and timeout.

**Rates.** `RateInv` follows a value through its life: at most one fetch old when
it enters the cache, at most the stale window and a fetch when a query reads it,
one more fetch when that query fails and serves it (`RatesAreRecent`).
`AdvanceInv` adds that no part can hit an entry set before the moment its last
reading is of, and that a fetch in flight began after that moment
(`ReadingsOnlyAdvance`). `PairInv` relates the two parts of one query:
what one part returned against when the other part's fetch began
(`PairsStayTogether`). `ClientInv`: a value kept was computed while its client was
in use (`ClientsAreRecent`).

**Backends.** `PositionInv` adds the types to `DoubleNeverAhead`
(`DoubleStaysBehind`). `TighterMarkets` rests on `ShareGrows`: the share of what
is available that an amount takes does not fall as less is left, infinite
quotients included.

**Backtest.**

- `DrawdownIsTheLargest`: `Measured` says what the fold knows after `k` values:
  the peak is one of them and the largest, no fall so far exceeds the drawdown
  and some fall reaches it. That the fold computes its recursion at all is
  `FoldExists`, by extending a solution for `n` values to one for `n + 1`.
- `OncePerDay`: `LoaderInv` says that the data is the aggregate of the history;
  the days come in the order of their places, and a sum is at most its largest
  term times the number of terms.
- `NeverLosesToAll`: the worst protocol may have a good day, so the property is
  not inductive. What is kept is that the portfolio's value is at least the
  geometric mean of the protocols', with the volatility weights 20, 19, 18 as
  exponents: in integers, an inequality of 57th powers (`MeanKept` in
  `ReturnsInv`). A day keeps it because weights in proportion to the rates earn
  at least the weights' mean (`WeightsEarnMean`, a sum of squares) and because an
  arithmetic mean is at least the geometric one (`MeanPower`: seven copies of the
  mean make 64 factors of 57, which are paired six times over).

**Set-up.** `CompletionIsTrue` needs to know of a running script what its plan
has done already: `SetupInv` adds to the types `RunHolds`, that every group of
the script's plan is done on the chain or still to do, that a group's
transactions in progress are those of its first group to do, and that the
allocator is there before vaults are made. A late transaction of an earlier run
may land at any point; `Advances` says that no transaction takes back what
another achieved. Of the treasury, `FallInv` says that a run that fell back
without one has met a failure: a rejected `initialize_treasury` means that the
treasury is there, or that its token account or the allocator is not, and the
run has just made sure of those. `OrphansAreFaults` is proved of a new deployment: `OrphanInv`
counts the mints without a vault and those whose transaction is in flight against
the transactions that failed, plus the one mint for which the run is about to
make a vault, minus a vault that landed late.

**Drills.** `DrillInv` adds to the types, for the step the gate or phase B is at,
what its earlier steps established and an undisturbed run cannot have lost since
(`GateInv`, `PhaseBInv`); its lemmas are one per step. It gives `GateVerdict`,
`GateSettles` and `PhaseBUndone`, for every crew of scripts and every number of
mishaps.

**Only model-checked.** What needs fairness, which is out of the prover's reach:
`RotationCompletes`, `QueriesReturn`, `BreakersRecover`, `Settles`,
`SetupConverges`, `GateHaltEnds`. The claims of section 6 are counterexamples,
found by TLC. No theorem uses induction over data by an operator: where a proof is
by induction, a set takes the place of the predicate (`NatSetInduction`,
`FiniteSetInduction`).

## 6. Findings

Five comments of the code that the code contradicts, each with a run that TLC
ends with a counterexample.

- `record_slot`: an auto-halt leaves a blank record under the counter that the
  next rebalance uses, so no later rebalance can create its record and the vault
  stays without rebalances after `resume`. `lib.rs:837-838` says why the
  counter must not collide.
- `fee_rate`: `MGMT_FEE_PER_SLOT_SCALED` is 158,548 where its own comment's
  quotient is 158.548, and the divisor already holds both scales. The fee is
  100,000 times the stated 1% a year: about 14% of the assets each minimum
  interval. The run takes a minimum interval (9,000 slots) as its unit of time:
  a year is 7,008 of them and the fee per unit is 125/876 = 0.1427.
- `two_step`: the adaptor requests and withdraws in one transaction. With a
  redemption period the withdrawal fails and undoes the request, so the
  "two-step flow" of its comment never has a first step.
- `migrated_vault`: `admin_migrate_risk_vault` copies from the offsets of a full
  list of weights. Borsh packs a shorter list, so in a vault with fewer than
  eight weights what the program reads afterwards as `max_single_deposit` begins
  with the old bump byte, not with the eight zeros that `lib.rs:1120` calls
  unlimited. The run migrates a vault without weights; `LimitedByMigration` says
  that every number of weights below eight has the effect.
- `setup_report`: the `catch` of `setup-devnet.ts:254` takes every error of the
  treasury step for a treasury that exists ("Treasury already exists, derive the
  expected USDC ATA", `:256`). After one lost transaction there is none, and the
  script goes on to "Setup Complete" and prints its address.

## 7. Other divergences noted while modelling

No run stands for these; the models contain the behaviour.

- The 24-hour auto-halt cannot fire under the documented moderate guardrails
  (drawdown cap 5%): `AutoHaltShadowed`, against
  `docs/hackathon/strategy-documentation.md:66`.
- `resume` checks nothing; the vault design (`:227`) says it requires risk
  metrics within bounds.
- A partial withdrawal lowers the high-water mark to the current price
  (`lib.rs:409`); the vault design (`:189`) says the mark prevents charging
  twice after a recovery.
- `admin_set_redemption_period` may shorten the period; `lib.rs:687` says the
  period can only increase.
- When fees have left assets below shares, the last holder's redemption may fail
  its checked subtraction, because the offset prices the shares above the
  assets: `RedemptionsLackOnlyOffset` bounds by how much.
- With the vault's account as the treasury's, as `setup-devnet` leaves it, the
  fees stay among the USDC that redemptions and allocations draw on, and the
  admin can withdraw fees only while they are there. After a change of account,
  fees paid into the old one can be withdrawn from the new one, also when that is
  the vault's.
- `recall_from_protocol` returns earnings to the vault's account and leaves
  `total_assets` alone; no share gains by it.
- At the documented cap of 10,000 USDC the fee product `10^10 * slots * 158548`
  exceeds `u64` after about 11,600 slots without a rebalance, and every later
  rebalance fails with `MathOverflow`.
- An empty whitelist admits every destination (`lib.rs:1238`); `README.md:75`
  says only approved destinations are admitted.
- `recall_from_protocol` is refused while halted; the vault design (`:203`)
  expects the keeper to unwind positions then.
- `rebalance`, `allocate_to_protocol` and `recall_from_protocol` check the
  keeper authority and not the lease; `strategy-documentation.md:117` calls the
  lease a mutex for operating.
- A call admitted before a breaker tripped closes it from OPEN when it succeeds
  late, without HALF_OPEN in between.
- The cache evicts the key inserted first, not the entry updated longest ago as
  `cache.ts:9-10` says.
- An API client may serve an entry past `staleMs`, by the length of the fetch
  that failed (bounded by `ServedAge`).
- The weight-shift helper of `validation.rs` ignores weights that a shorter
  vector drops; `rebalance` does not.

The vault design is
`docs/superpowers/specs/2026-03-15-nanuqfi-vault-strategy-design.md`.

In `packages/`:

- Estimates carry the time of the call as their timestamp, also when the value
  is a stale one from the cache.
- Kamino's and Marginfi's slippage falls back to the lowest tier when more is
  lent out than supplied, and for an amount of zero against an empty market.
- `deposit(0)` activates a position. `MockYieldBackend` goes below zero where the
  backends stop at it.
- `minDeposit` and `maxDeposit` of the capabilities are enforced nowhere.
- The backtest annualises `n - 1` daily returns over `n` points, counts missing
  days as none, fails on empty data, and with rates of mixed sign its weights
  may exceed any bound.

In the scripts:

- `setup-devnet.ts:10` calls setup idempotent. On a version-0 deployment each run
  makes a mint whose vault is then rejected, until `migrate-v1` has run.
- `migrate-v1` looks for an "already migrated" error that the program never
  returns. `setup-ranger` takes a treasury of 74 bytes or more for version 1;
  version 0 has 81.
- A migrated allocator has 87 bytes, room for an empty whitelist: no protocol
  can ever be whitelisted in it.
- `migrate-vaults` before `migrate-v1` is rejected, in no document.
- `fix-treasury` makes the allocator's USDC account the treasury's, which is the
  account all vaults hold their USDC in.
- Seeding says it skips if already seeded; it only skips at the deposit cap.
- `README.md:127` counts nine steps of the gate; there are ten. Step 3 always
  skips, so "ALL GATES PASSED" cannot be printed.
- Step 7 gives up without resuming on the paths at `e2e-gate.ts:405-420`, and
  takes a failed read for there being no withdrawal. Step 9 resumes even if it
  found the allocator halted, and so ends an operator's halt; an operator who
  halts while the gate does is told "Already halted." and loses the halt.
- Phase B restores a constant cap, not the one it read, and not at all on the
  paths that return first; its deposit and rebalances, and the deposit of
  `seed-aggressive.ts`, lack an account, so the client refuses them.

## 8. Not modelled

- Instructions that only a `devnet` build enables. They set numbers that the
  default build keeps consistent, and return an error in it.
- Several vaults under one allocator. `total_tvl`, `halted`, the treasury and
  the whitelist are shared among them; the model has one vault.
- Which keys sign, rent, events, account sizes outside the migrations; a treasury
  account of another mint, with which every fee's transfer fails.
- A holder who burns share tokens with the token program itself. Supply and
  positions would differ from then on, and the tokens be missing at the
  redemption.
- Negative yields, which no protocol modelled here pays: the scores of
  `DominanceRespected` are of yields from zero up.
- The path from which the scripts under `legacy/` import the program's IDL, which
  does not resolve from where they lie; they are modelled as if it did.
- A network error whose message begins with "HTTP ", which `fetch-retry.ts:43`
  takes for its own and does not retry.
- Response shapes, field mapping and unit conversion of the API clients; the
  history fetch and `defillama-api.ts`, which keep no state; the backends' mock
  mode, whose answers are constants.
- CAGR, volatility, Sharpe and Sortino ratio: powers and square roots of
  floating-point numbers.
- Strategy base, type declarations, logger and environment: a weight check that
  nothing else calls, types, output and constants.
- `test-phase-c.ts`, which tests a keeper and an API it defines itself; the lease
  and the rebalance at the end of `seed-and-test.ts`, instructions that
  `KeeperLease` and `Allocator` model; the seeding of vaults other than the
  moderate one.
- The deposit, whitelist and fee helpers of `validation.rs`, which have no
  counterpart in the program to compare with.
- How long the body of a reply takes: `fetch-retry.ts:26` clears the abort timer
  when the headers arrive. `MaxFetch` assumes a bound on both.

## 9. Plan

Done, in this order: allocator and its arithmetic; lease; adaptor; breaker and
router; cache, retry and API clients; the proofs of allocator, lease and router;
Marginfi's memo, the backends and the backtest; layouts, migrations and scripts;
the proofs of adaptor, cache, retry, rates and backends; those of the share
ledger, the helpers, the ranking, the pairs of rates, the backtest, set-up and
drills.

What is left, most important first:

1. *Several vaults.* A module that instantiates the vault's part of `Allocator`
   for two vaults under one halt flag, TVL and treasury. Abstract
   specification: the vaults are independent except for those.
2. *A vault as promised to a depositor.* An abstract ledger of claims that
   `Allocator` implements, with the claim of a share never falling but by
   fees; the refinement proved on `OpenSpec`.
3. *Admissible weights.* Whether guardrails tightened below current weights
   leave a next weight vector within the shift limit.
4. *The migration's layouts.* `LimitedByMigration` is evaluated for every number
   of weights; a theorem about `AccountLayout` would give the reason.
