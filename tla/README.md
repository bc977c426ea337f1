# Bluechip contracts in TLA+

A verification development for the Bluechip pool contracts, the keeper processes
that serve them and the frontend that calls them: TLA+ modules translated from
the Rust and TypeScript sources, TLC configurations that check them on small
instances, and TLAPS proofs that carry the most important properties to every
value of the constants.

All paths below are relative to the repository root; `x.rs:n` names a line.

## 1. The system

A creator opens a pool with a funding target in USD. Users *commit* bluechip to
it. The commit that reaches the target *crosses the threshold*: the creator token
is minted, an AMM is seeded with what was raised, the protocol receives a bluechip
mint, and the committers' share of the token is *distributed* in batches by
keepers. From then on the pool is an ordinary constant-product AMM.

Every contract is a CosmWasm contract. A transaction is atomic: a handler, the
messages it emits and the replies to those messages either all take effect or none
does. So the concurrency on the chain is the order of transactions of independent
actors (committers, traders, keepers, the creator, liquidity providers, the admin
behind its timelocks), block time, and those sub-message failures that a reply
catches so that the rest of the transaction stands.

Off the chain nothing is atomic. A keeper is one process with one loop; between
two of its calls the pools move, other keepers act, a call may fail or land after
the keeper gave up on it, and the process may die. A page of the frontend runs a
handler per click; each awaits several answers, and while it does the user clicks
again, closes and opens dialogs, or connects another wallet.

### Inventory

| Component | Source | State | Operations | Interacts with |
|---|---|---|---|---|
| creator-pool | `creator-pool/src` | commit ledger, sums raised, threshold flag, distribution state, failed mints, pending notification, creator excess | `Commit` (funding, exact hit, crossing, trading), `ContinueDistribution`, `ClaimFailedDistribution`, `RecoverStuckStates`, `SelfRecoverDistribution`, `RetryFactoryNotify`, `ClaimCreatorExcessLiquidity`, `ClaimCreatorFees` | factory (rate, notification, bounty, admin calls), token contract (mints), pool-core |
| pool-core: swaps, pause, emergency | `packages/pool-core/src/{swap,admin,generic,state}.rs` | reserves, fee reserves, pause flags, armed withdrawal, drained flag, escrow snapshot, rate limits | `SimpleSwap` and its CW20 hook, `Pause`, `Unpause`, `EmergencyWithdraw` (two calls), `CancelEmergencyWithdraw`, `ClaimEmergencyShare`, sweep, `UpdateConfigFromFactory` | bank and CW20 contracts, factory |
| pool-core: positions | `packages/pool-core/src/liquidity*` | positions, total liquidity, fee growth, creator fee pot, auto-pause flag | deposit, add, remove (all, partial, percent), collect fees, the balance check in the deposit's reply | position NFT, CW20 contracts |
| standard-pool | `standard-pool/src` | as pool-core, no commit phase | the pool-core operations, acceptance of the NFT contract | factory, pool-core |
| factory: pool creation | `factory/src/execute/pool_lifecycle/create.rs`, `pool_creation_reply.rs` | creation contexts, counters, registry, per-creator rate limit | create and its reply chain, pruning of the rate-limit index | pools, token and NFT contracts |
| factory: notification and mint | `factory/src/execute/pool_lifecycle/admin.rs`, `mint_bluechips_pool_creation.rs` | once-per-pool gate, time of the first crossing | `NotifyThresholdCrossed` | creator-pool, expand-economy |
| factory: timelocks | `factory/src/execute/{config,upgrades}.rs` | pending configuration, per-pool configuration, pending upgrade with its progress | propose, apply and cancel of each, batches of an upgrade | every pool, expand-economy |
| factory: price oracle | `factory/src/internal_bluechip_price_oracle.rs`, `execute/oracle.rs` | TWAP observations, cumulative snapshots, warm-up and failure counters, pending first price, allowlist | update, rotate, confirm and cancel the first price, anchor change, allowlist, bounties | pools, Pyth |
| expand-economy | `expand-economy/src` | configuration, log of the rolling window, pending update and withdrawal | `RequestExpansion`, propose/execute/cancel of both timelocks | factory |
| router | `router/src` | configuration and its pending update | multi-hop swap, final balance assertion | pools |
| interfaces, easy-addr, mockoracle | `packages/pool-factory-interfaces`, `packages/easy-addr`, `mockoracle` | none of the protocol's | message types, test helpers, a test price feed | |
| keepers: distribution | `keepers/src/distribution-keeper.ts`, `lib/{distribution,retry-notify}-loop.ts` | in memory only: where the sweep is, batches so far, whether it made progress | sweep of the notifications, sweep of the distributions, the choice of the sleep, stop, restart | pools, factory |
| keepers: oracle | `keepers/src/oracle-keeper.ts`, `lib/{oracle,prune}-loop.ts` | in memory only: the prune counter | mock price push, update, balance checks, prune every few iterations, jittered sleep, stop, restart | factory, mock oracle |
| frontend: wallet and transactions | `frontend/src/components`, `components/modals` | wallet address, client, fields, the loading flag of each modal | connect; swap, deposit, add, remove, collect, subscribe, create; buy, sell and commit modals | pools, tokens, factory |
| frontend: portfolio | `frontend/src/pages/Portfolio.tsx` | two tables, two spinners | load tokens, load positions, refresh | pools |
| frontend: discover, tracker, information | the other pages | a list, a text field | display | |
| fuzz, fuzz-stateful | same names | | test harnesses | |

### What is hard about it

* **Commit and crossing.** Two commits race to the target; the one that crosses is
  split, at the oracle's rate and net of two fees, into the part that completes the
  target, a capped swap against the pool it has just seeded, and a refund. Every
  split rounds. Part of the raised bluechip, and the same share of the seed tokens,
  may be locked for the creator.
* **Distribution.** Any mint of a batch may fail and is then owed; the batch goes on.
  A distribution that has stalled for more than 24 h refuses keepers; the admin may
  restart it after 1 h, anyone after 7 days, while earlier batches are already paid
  and further mints may bounce. A pause or a drain can fall between any two batches.
* **Emergency.** Pause, unpause, arm, cancel and drain can be interleaved in any
  order with everything else.
* **The protocol mint.** The notification may fail for reasons of two other
  contracts (their denoms and addresses move behind independent timelocks, the
  rolling cap is used up, the reservoir is short), the pool's crossing must stand
  anyway, and the mint must happen once.
* **Ownership.** Timelocked withdrawals and configuration updates of the reservoir
  run side by side, and ownership may change while a withdrawal waits.
* **Positions.** Fees accrue per unit of liquidity and are paid per position after a
  size multiplier and a cap; the clip goes to the creator; a partial removal splits
  what has accrued. All of it rounds, and all of it draws on one fee reserve. A removal
  may pause the pool, a deposit reopens it, and an admin pause must outlive both. CW20
  tokens of third parties may deliver other amounts than named. After a drain everybody
  claims from one escrow, in any order.
* **Keepers.** A sweep must reach every pool whatever the others answer, must not sleep
  long over work it was doing, and must survive lost answers and restarts; the oracle
  keeper has to wake after the cooldown and before the price is stale, in spite of its
  jitter.
* **The page.** Handlers work with the wallet and the fields they captured, and overlap.
  A deposit is two transactions, and the approval outlives a failure of the second.

`PROJECT.json` lists each of these hazards at the line where it bites, with the
properties that would catch it.

### What makes each component correct

| Component | Properties |
|---|---|
| creator-pool | both books balance to the unit; the target is met exactly; every committer gets the reward of all it committed exactly once; a token is minted once or owed once; no committer is skipped; the distribution ends; the crossing's successors wait out the cooldown; one notification settled or retriable |
| pool-core | the product of the reserves never falls; a drain is final; a funding pool cannot be drained; a unit of liquidity never loses value; the fee reserve covers the accrued fees of all; the bank covers the books; an admin pause outlives every removal and deposit; the escrow covers every claim |
| factory mint, expand-economy | no 24 hours see more than the cap; skipped requests burn no budget; crossings are settled or retriable and in the end settled; the schedule is exact and tapers; no withdrawal survives its owner |
| keepers | each pool has its turn in each sweep; distributions and notifications end; no long sleep over work at hand; the price stays fresh; old entries go |
| frontend | no click moves another account; what the pool may draw stays bounded; a deposit has the allowance it needs; one transaction per modal; no dead button, no endless spinner; no table of two wallets |
| factory timelocks, creation, oracle, router | planned, see section 7 |

## 2. Modules

| Module | What it is |
|---|---|
| `Totals` | the sum of a function over a finite set, as a cardinality, so that it needs no recursion |
| `CreatorPool` | one creator pool from instantiation to drain |
| `CreatorPoolProperties` | its type invariant, invariants, action properties, liveness, and the refinement mapping |
| `CommitterPayouts` | the abstract specification: what committers may expect of a pool |
| `ServedPool` | the abstract specification: a pool as its keepers see it |
| `MCCreatorPool` | small instances for TLC |
| `MintSchedule` | `calculate_mint_amount`, a pure function of ordinal and seconds |
| `MCMintSchedule` | the schedule walked over a grid, one ordinal or one step of time at a time |
| `ExpandEconomy` | reservoir, factory and the pools' side of the notification, and their properties |
| `PoolLiquidity` | the positions of a creator or a standard pool, pauses, drain and escrow |
| `PoolLiquidityProperties`, `MCPoolLiquidity` | what it owes to its providers; its small instances |
| `KeeperDecisions` | what both keepers share: configuration, reading of transactions and errors, sleeps |
| `PoolSweep` | the abstract specification: what a sweep over the pools promises |
| `DistributionKeeper`, `MCDistributionKeeper` | the distribution keeper with the pools as it sees them |
| `OracleKeeper`, `MCOracleKeeper` | the oracle keeper with the factory's price and rate-limit entries |
| `WalletSession` | the wallet of a page, extended by the two modules below |
| `TransactionForms`, `MCTransactionForms` | every form and modal that sends a transaction |
| `Portfolio`, `MCPortfolio` | the loads and tables of the portfolio page |
| `Totals_proofs`, `CreatorPool_proofs`, `ExpandEconomy_proofs` (with the schedule), `PoolLiquidity_proofs`, `DistributionKeeper_proofs`, `OracleKeeper_proofs`, `TransactionForms_proofs`, `Portfolio_proofs` | the proofs |

### CreatorPool and the code

The variables are the storage items, named in the declarations. `bank0`, `bank1`,
`supply` and `minted` are kept by the bank and token contracts; `credited`,
`sinceCrossing` and `trades` are history.

| Action | Handler |
|---|---|
| `CommitFunding` | `commit.rs`, `commit/pre_threshold.rs` |
| `CommitHitExact`, `CommitCrossing` | `commit/threshold_crossing.rs` with `commit/threshold_payout.rs`, the factory call and its reply |
| `CommitTrading` | `commit/post_threshold.rs` |
| `Swap` | `simple_swap`, `execute_swap_cw20` with `compute_swap` |
| `ContinueDistribution` | `commit/distribution.rs` and `distribution_batch.rs`, each mint's reply, the bounty |
| `ClaimFailedDistribution`, `RecoverStuckDistribution`, `SelfRecoverDistribution`, `RetryFactoryNotify`, `ClaimCreatorExcess` | the handlers of these names |
| `Pause`, `Unpause`, `EmergencyInitiate`, `EmergencyDrain`, `CancelEmergencyWithdraw` | `pool-core/src/admin.rs` and the creator pool's drain |
| `NextBlock(dt)` | a block, `dt` time units after the last |

How data is abstracted:

* A timestamp is an age or a wait, cut off where the code no longer tells its values
  apart. This keeps the state finite without bounding the length of a behaviour.
* Users are numbers, because the batch walks the ledger in address order.
* The oracle answers any rate of `Rates`. A refusal makes the transaction fail and
  so is no step.
* Amounts are small, with all the divisions and their truncation as in the code. The
  18-digit `Decimal` inside `compute_swap` truncates differently from the exact
  quotient only for reserves beyond 10^18, which the token cap of 1.2 * 10^12 base
  units excludes for one side.
* Maximum-spread checks and deadlines only let a caller refuse a trade it could have
  not sent; they are left out.
* `REENTRANCY_LOCK` and `THRESHOLD_PROCESSING` are set and cleared within one
  transaction, or reverted with it, so no transaction ever sees them set; the
  threshold branch of `RecoverStuckStates` is therefore never enabled, and neither is
  the branch on consecutive failures, which nothing increments.
* `InitialNotify` and `RetryFactoryNotify` show the factory as the pool sees it: it
  may succeed once per pool or fail. `ExpandEconomy` has the inside.
* Positions, the creator fee pot and claims on the escrow are in `PoolLiquidity`. Here
  the fee reserve only grows, and the escrow is constant.

### PoolLiquidity and the code

A pool after its crossing, or a standard pool from its first deposit, the two initial
states. What the code keeps in pairs of fields (`_0`, `_1`; `_a`, `_b`) is a function
over two sides. `closed` and `calls` are history.

| Action | Handler |
|---|---|
| `Deposit` | `liquidity/deposit.rs` with the reply of `balance_verify.rs` |
| `AddToPosition` | `liquidity/add.rs` with the same |
| `CollectFees` | `liquidity/fees.rs` |
| `RemoveAllLiquidity`, `RemovePartialLiquidity` | `liquidity/remove.rs`; a percentage is an amount |
| `ClaimCreatorFees` | `creator-pool/src/liquidity_helpers.rs` |
| `Swap` | `swap.rs`: `execute_simple_swap` and its CW20 hook with its balance check |
| `Pause`, `Unpause`, `EmergencyInitiate`, `CancelEmergencyWithdraw`, `EmergencyDrain`, `ClaimEmergencyShare`, `SweepUnclaimedEmergencyShares` | the handlers of these names in `admin.rs` |
| `Gift`, `Tick` | a transfer nobody announced; time, as far as a delay waits for it |

* `Decimal` is an integer number of `1/Unit`, and every product and quotient rounds down
  where the code's does. `Unit` is 10^18 in the code and a hundred in the instance, so
  the roundings are larger here.
* The reply of a deposit reverts the transaction when a CW20 side moved by another amount
  than was credited: the action has the comparison as a guard on the new balances.
* Owners, the transfer of their NFTs, minimum amounts, slippage, deadlines, the rate limit
  of a position and the post-threshold cooldown only ever refuse a call, so any call
  that could succeed for somebody is a step. `lp_fee` is a constant.

### ExpandEconomy and the code

| Action | Handler |
|---|---|
| `Cross` | the crossing's notification with the factory's handler, the request to the reservoir and the pool's reply |
| `RetryNotify` | `RetryFactoryNotify` with the same |
| `RequestExpansion` (part of both, and of `ForeignRequest`) | `expand-economy/src/expand.rs`: zero request, window, balance, debit |
| `ProposeConfigUpdate` ... `CancelWithdrawal` | `expand-economy/src/timelock.rs` |
| `ProposeFactoryConfig`, `UpdateFactoryConfig`, `CancelFactoryConfig` | `factory/src/execute/config.rs` |
| `Fund`, `NextPeriod` | a bank transfer; time |

* Time moves in periods; the log is the amount granted at each age, which is what
  `check_and_compute_window` computes from the entries. The code's clock ticks in
  seconds; nothing but the length of the window and of the timelocks in ticks
  depends on it. The proofs hold for any of them, a window of 86,400 included.
* While the reservoir is configured for a foreign factory, that factory may ask for
  any amount and answers the denom query as it likes. This is what a compromised
  factory address could do, and the cap must hold against it.
* Without a mint contract the factory pays from its own balance, whose content is
  left open.
* Recipients are left out: no property is about them. A refusal of the second
  validation when a proposal is applied is no step.
* `SinceCap` is the number of periods after which the schedule of every pool of the
  instance is at its base amount.

### The keepers and the code

| Action of `DistributionKeeper` | Code |
|---|---|
| `QueryNotify`, `RetryAnswered`, `RetryFails` | `checkAndRetryPool`, called by `runRetryNotifySweep` |
| `BatchAnswered`, `BatchRefused`, `BatchUnanswered`, `DelayOver` | `drainPool`, called by `runDistributionSweep` |
| `Check`, `Wake`, `Start`, `ShutDown` | `main` of `distribution-keeper.ts`, `interruptibleSleep` |
| `Cross`, `Halt`, `OtherBatch`, `OtherRetry`, `InflightLands`, `Crash`, `Tick` | the pools, other keepers, the node, the host and time |

| Action of `OracleKeeper` | Code |
|---|---|
| `Push`, `UpdatePublished`, `UpdateRecorded`, `UpdateTooSoon`, `UpdateFails` | `runOracleIteration` |
| `Check` | the balance checks and the prune counter of `main` |
| `PruneAnswered`, `PruneFails` | `runPruneIteration` |
| `Start`, `Wake`, `ShutDown` | `main` of `oracle-keeper.ts`, `interruptibleSleep` |
| `OtherUpdate`, `Expire`, `InflightLands`, `Crash`, `Tick` | other updaters, the factory, the node, the host and time |

* The configuration goes through the schema as in `lib/config.ts`: a number is the digits
  at its beginning, an empty entry of `POOL_ADDRESSES` is dropped.
* A transaction that was broadcast and never answered for may land later, once. While it
  is in the mempool its sequence number is taken and every other one of this keeper is
  refused.
* Of a pool the keeper's module knows what `ServedPool` says of it, which `CreatorPool` is
  proved to implement; what a batch pays is there. Of the factory's price the oracle keeper's module knows its age.
* The balance checks only log. Health reports and logging have no state.

### The frontend and the code

| Action of `WalletSession` and `TransactionForms` | Code |
|---|---|
| `WalletAnswers`, `ClientConnects`, `ConnectFails` | `connectToChain` of `WalletConnect.tsx` |
| `SwapClick`, `CreateClick`, `SubscribeClick`, `CollectClick`, `RemoveClick`, `DepositClick`, `AddClick` | the handlers of `Swap`, `CreatePool`, `Commit`, `Fees` and `Liquidity`, up to their first await |
| `BuyClick`, `SellClick`, `CommitClick`, `CloseModal` | the handlers of the three modals |
| `OwnerAnswers`, `PairAnswers`, `StatusAnswers`, `AllowanceAnswers` | an awaited query, and the handler up to its next await |
| `ApproveAnswers`, `SendAnswers`, `SendTimesOut`, `CallFails` | an awaited `execute`; the `catch` and `finally` of the handler |
| `LateLanding`, `LateFailure`, `LeavePage` | the chain; the router of `App.tsx` |

| Action of `Portfolio` | Code |
|---|---|
| `Connects`, `Reconnected`, `ConnectError` | `WalletConnect` with the two effects of the page |
| `Refresh` | the button |
| `PoolAnswers`, `QueryFails`, `TokensLoaded` | `fetchPortfolioTokens` |
| `PositionAnswers`, `QueryFails`, `PositionsLoaded` | `fetchPositions` |
| `Receive` | the chain |

* The wallet's answer is merged with the click that asked for it; `connectToChain` knows
  the account then and has a client only an await later.
* Who owns a position is whatever the query answers. The answers for the pair and the
  commit status are data of the message that follows, so only their order is here.
* The signer refuses to sign for another sender than its own account, and the node takes
  one transaction per account and sequence number: these are the wallet's and the
  node's part, modelled from the use `execute` is put to.
* `LeavePage` resets the wallet and the modals and lets started handlers run on; the
  forms of the dashboard keep their wallet, which is no step.
* Of each account the model keeps what the pool may draw of its creator tokens. Which
  token a modal was opened for, and what the guards of `SellModal` say of it, is not
  tracked.
* A position table has at most 30 rows per pool in the code, and one per pool here.

### Seeded faults

Definitions marked "seeded fault" are the plausible bugs that `PROJECT.json` lists as
mutants. They are used nowhere; put in the place of the definition below them, they
make TLC find the property named there violated.

## 3. Runs

| Run | Properties | Outcome |
|---|---|---|
| `creator_money`: do funding, crossing, seeding, trades, pause and drain keep the books? | `BluechipBacked`, `TokenBacked`, `Phases`, `CommitsAccounted`, `FairLaunch`, `KNeverFalls` | hold |
| `creator_distribution`: is everybody paid once, and in the end, under failing mints, stalls, restarts and drains? | `TokenBudget`, `Entitlements`, `NoCommitterSkipped`, `DrainedIsFrozen`, `KeepsPayoutPromise`, `IsServedPool`, `DistributionCompletes` | hold |
| `mint_schedule`: is the schedule exact, and does it taper? | `ExactAmount`, `LaterPoolsGetNoMore`, `WaitingCostsNothing` | hold |
| `economy_cap`: does the cap hold while everything is reconfigured and the owner changes? | `RollingCap`, `LogIsPayments`, `HandoffAccounted`, `NoInheritedWithdrawal` | hold |
| `economy_liveness`: does every crossing get its mint? | `MintsSettle` | holds |
| `pool_liquidity`: is anybody paid from another one's share? | `TypeOK`, `Backed`, `FeesCovered`, `PausesHold`, `EscrowCovers`, `ShareValueNeverFalls` | hold |
| `keeper_distribution`: do the keeper's sweeps reach and finish what there is to do? | `NapOnlyWhenIdle`, `KeepsSweepPromise`, `PoolsDrain`, `NotifiesSettle` | hold |
| `keeper_oracle`: does the price stay fresh, and do old entries go? | `PriceStaysFresh`, `StaleEntriesGo` | hold |
| `frontend_forms`: what can overlapping clicks, wallets, failures and late answers do? | `AllowanceBounded`, `EnoughToSpend`, `OnePerModal`, `ButtonsComeBack`, `MovesForItsClick` | hold |
| `portfolio`: what can overlapping loads show? | `TablesOfOneWallet`, `SpinnersHaveLoads` | hold |
| `creator_armed_unpause`: a comment says an armed drain blocks trades | `ArmedDrainBlocksTrades` | violated |
| `pool_liquidity_partial`: a comment says the clipped fees of what stays are collected later | `PartialRemovalKeepsFees` | violated |

### Bounds and why they suffice

* **creator_money**: two committers, amounts 100 and 250, rates 4 and 6 per 100, target
  10. A commit is worth 4, 6, 10 or 15 dollars, so the target is reached by one commit
  or two, exactly (4 + 6, 10) or with an overshoot that depends on the rate, and the
  raised bluechip ends on both sides of the lock of 200. Fees of 1, 5 and 10 percent
  and reserves in the hundreds make every division of the crossing round. One trade
  after the crossing would show an error of one trade; two trades show an order.
* **creator_distribution**: three committers, one of them the creator, batches of two,
  so that there is a full batch, a short one and a cursor between them; a share of 47
  for 10 dollars leaves a residue. The stall timeout is 2 units, the windows 1 and 4,
  so that all the relations between them in the code (1 h < 24 h < 7 d) occur. Trades
  are off and there is one rate: no swap touches what these properties speak about.
* **mint_schedule**: the constants are scaled so that the polynomial's amount has
  reached zero at the cut-off, as with the values of the code, the ordinals pass the
  cut-off, and the times run from none to long after; times between two steps of the
  grid are covered by the proofs.
* **economy_cap**: a cap of 6 with a mint of 5 lets one mint or two foreign requests of 3
  into a window, and no mint beside a request; the window is two periods, so that an
  entry can be fresh, old or gone. Two owners, a configuration timelock of one period
  and a withdrawal timelock of two, so that an owner can leave and come back while a
  withdrawal proposed before would still wait.
* **economy_liveness**: two pools, two denoms and the switch between the mint contract and
  the factory's own balance; a cap of 7 admits one of the two mints in a window.
* **pool_liquidity**: a creator pool seeded with 20 and 45 or an empty standard pool; offers
  in the ratio of the reserves and beside it; two positions and four calls that change
  the books, so that both positions can be opened, one traded against and one removed
  from, with collections, gifts, pauses, drain and claims at any point besides. A swap
  of 20 moves the reserves near the minimum of 8, so that a removal pauses the pool; the
  positions are below the optimal size of 50, so that they are clipped; one side is a
  CW20 token that delivers one too few, the amount, or one too many.
* **pool_liquidity_partial**: amounts ten times as large, where a clip is more than the
  rounding the property allows for.
* **keeper_distribution**: two pools with an empty entry between them, one of four batches
  and one of one, at most two batches in a turn, so that one pool needs several
  sweeps; the first may be halted again and again; a poll of 2 and a fast poll of 1 tell
  the two sleeps apart. One crash and any number of shutdowns.
* **keeper_oracle**: a unit of 30 s: cooldown 10, default poll 11, the pools' limit 12. The
  jitter of 5 s is rounded up to a unit, which leaves the least room there can be. Ages
  above 24 are not told apart, which is beyond every bound of the properties. A backlog of
  two with a batch of one takes two prunes.
* **frontend_forms**: two accounts and two handlers at a time, so that two can overlap on
  one account or on two; amounts 1 and 2 make an allowance sufficient, insufficient or
  left over. The other account uses everything but the deposit forms. One call of
  `connectToChain` and one lost transaction at a time. The two handlers are
  interchangeable in every property, hence the symmetry.
* **portfolio**: two accounts with a position in different pools, two overlapping loads,
  one connection at a time.

Bounds that stand in guards only cut the repetition of steps, not kinds of state:
`MaxTrades`, `MaxFunds`, `MaxCalls`, `MaxPositions`, `MaxGift`, `MaxCrashes`, `MaxConnects`,
`MaxStale` (and one backlog at a time), the size of `Tasks` and `Loads`, one lost
transaction at a time, and `Receive`, which only adds. `CHECK_DEADLOCK FALSE` appears in
the configurations of the grid, which ends in its last corner, and of the two keepers,
where a process may be down with nothing left to do.

### Where the documentation and the code disagree

Two runs show it:

* `packages/pool-core/src/state.rs:622` says that an armed emergency withdrawal rejects
  trades and adds; an unpause while it is armed reopens both
  (`creator_armed_unpause`).
* `packages/pool-core/src/liquidity/remove.rs:270` says that the clipped fees of what stays
  after a partial removal accrue on the next collection; the removal moves the position's
  starting point past them, so they are paid to nobody and stay in the fee reserve
  until a drain (`pool_liquidity_partial`).

The others need no run of their own, because a property above states the opposite, or
because they can be read off:

* `README.md:658` says that a longer time between crossings reduces the mint further; the
  amount rises with the time (`WaitingCostsNothing`).
* `README.md:569` says that the drain sends the reserves to the wallet; they stay in the
  escrow, and only the creator's pot goes there (`Phases`, `EscrowCovers`).
* `README.md:663` says that the window of the cap is a single bucket; it is a sliding log,
  which is stricter (`RollingCap`, `LogIsPayments`).
* `keepers/README.md:115` reads `ok` as an update without a bounty; the factory answers an
  update that recorded and did not publish in the same way
  (`internal_bluechip_price_oracle.rs:1145`, `UpdateRecorded`).
* `Portfolio.tsx:287` says that positions are fetched across all known pools; they are
  asked of the pools whose token the wallet holds (`PositionsLoad`).
* `creator-pool/src/contract.rs:445` gives an add the recovery semantics of a deposit; an
  add is admitted by an automatic pause but never lifts it (`AddToPosition`).
* Arm, unpause, and a removal below the minimum set the automatic flag while the
  withdrawal waits; `pause_kind` then answers `low_liquidity`, and removals are refused
  for the rest of the timelock, which `pause_kind` means to keep open for exits.

## 4. Fairness

* `CreatorPool!FairSpec`. Blocks keep coming (weak fairness of `NextBlock`). The
  distribution keeper polls every 30 minutes (`keepers/README.md:148`,
  `keepers/src/lib/distribution-loop.ts`); a distribution accepts batches for 24 h
  after the last one, and after a restart again, so a keeper that polls for ever does
  not miss it for ever: strong fairness of `ContinueDistribution`. It has to be strong:
  a distribution that stalls disables the action until somebody restarts it.
  `SelfRecoverDistribution`, once open, stays open to everyone: weak fairness. Nothing
  is assumed of the admin. `DistributionCompletes` supposes that the pool does
  not stay paused, since the admin may keep it paused at will.
* `ExpandEconomy!FairSpec`. Time passes, and the keeper retries every pending
  notification for ever (`keepers/src/lib/retry-notify-loop.ts`). `MintsSettle` supposes
  that the two configurations end up agreeing. Weak fairness of the retry is enough:
  after the window has emptied nothing but a mint of another pool can disable it, and
  of those there are finitely many.
* `DistributionKeeper!FairSpec`. The event loop runs the process and systemd restarts it
  (`keepers/README.md:63`): weak fairness of the process as a whole, so no branch of it
  is promised. Time passes, and a transaction in the mempool lands or leaves. A node asked
  again and again in the end answers: strong fairness, per pool, of the query that finds a
  pending notification, of the retry that the factory accepts, and of a batch that is
  answered. It has to be strong, for other pools' turns and lost transactions disable
  these steps in between. `PoolsDrain` supposes of a pool only that it is not halted for
  ever.
* `OracleKeeper!FairSpec`. The same of the process, time and mempool, and strong fairness of
  a prune that is answered. No update need ever succeed: `StaleEntriesGo` must not depend
  on the price.

## 5. What is proved

Proofs rest on the named `ASSUME`s of the modules: `UsersAssumption`, `NoneAssumption`,
`AmountsAssumption`, `FeesAssumption`, `SizesAssumption`, `WindowsAssumption`
(`CreatorPool`), `ScheduleAssumption` (`MintSchedule`), `GridAssumption`
(`MCMintSchedule`), `EconomyAssumption` (`ExpandEconomy`), `LiquidityAssumption` and its own
`NoneAssumption` (`PoolLiquidity`), `OracleAssumption` and `TimingAssumption`
(`OracleKeeper`), `KeeperAssumption` and its own `NoneAssumption` (`DistributionKeeper`),
`SessionAssumption` (`WalletSession`), `FormsAssumption` and `NothingAssumption`
(`TransactionForms`), `PortfolioAssumption` (`Portfolio`). They say what instantiation validates, that a
quantity is a natural number, that an absent value is no value, or, in
`TimingAssumption`, that the operator's poll interval fits between the cooldown and the
staleness limit. TLC evaluates them in the runs.

The type invariants of `CreatorPool`, `ExpandEconomy`, `DistributionKeeper`, `OracleKeeper`
and `TransactionForms`, `NotifyAccounted`, `TooSoonMeansBeaten` and `PoolsAreServed` are proved
and therefore in no run.

**CreatorPool.** `IInv` is the conjunction of the types, the phases, the two books and
the account of the factory call. None of the books is inductive alone: that
`bank0 - excess.bluechip` is a natural number when the creator claims needs the book to
say the bank covers it, the book at the crossing needs the phase to say that there was
no reserve before, and the crossing's split needs the types. The lemmas follow the
code: `ConversionTypes` and `ShareAtMost` bound the split of a commit, `SwapBounds`
says that a swap cannot return more than the reserve, `SeededBounds` that seeding
divides what it is given and loses nothing, `BatchBounds` that a batch stays within
the ledger. There is one lemma per action, `Inductive` puts them together, and
`TypeCorrect`, `BluechipIsBacked`, `TokensAreBacked`, `PhasesHold` and
`NotificationIsAccounted` read off the parts. `ProductNeverFalls` and `DrainIsFinal` are
properties of steps; the first rests on `SwapKeepsProduct`, which says that the truncated
return of a swap leaves the product of the reserves at least what it was, whatever
the fee.

Two more invariants are inductive on top of `IInv`.
`CommitsAreAccounted`: each of the three funding commits counts the dollars it credits
(`CreditKeeps`), and the two that cross count exactly what was missing, which is where
`Overshoots` divides them; a batch removes rows as wholes. `NobodyIsSkipped`: a batch is
an initial segment of the rows in address order (`BatchIsFirst`, by comparing the
numbers of rows below two addresses), so what is left lies behind its last row, and
the cursor, the end of the distribution and the count of remaining rows move together.

A third invariant, `PayoutInv`, ties both to the tokens: what the distribution has recorded for a
committer is the reward of its row once the row is gone, and nothing before. The rewards
rounded down fit the committers' share (`RewardsFit`, from `TotalShares`: what is
proportional in every place is so in the sum), a batch turns its rows into tokens minted
or owed (`BatchSettles`), and every other step moves tokens between the parts of the budget.
`BudgetHolds` and `EntitlementsHold` follow, and `ImplementsPayouts`: every step maps to a
step of `CommitterPayouts` or to a stutter, where the two facts that need the invariants
are that a batch takes at least one share (`BatchTakesSome`) and that
a drain, a restart or a claim serves nobody twice.

`ImplementsServedPool` says of the same pool what its keepers rely on. Every row that is left
lies behind the cursor (`NoCommitterSkipped`), so the rows with fewer than `BatchSize` rows below
them are `BatchSize` many or all (`BatchIsFull`; `FirstOnes` shows it by the bijection that sends
a row to the number of rows below it), and the quotient that counts the batches falls by exactly
one (`BatchesFor`). The other steps keep the rows (`RowsKeptHalts`) and settle the notification
only by its retry (`OnlyRetriesSettle`).

**MintSchedule.** The decay is a quotient that falls with the seconds, because its
divisor grows, and rises with the ordinal. The second is not obvious, since both
its parts grow; after clearing denominators the difference is a sum of non-negative
terms (`DecayParts`, `DecayGrows`). Hence `ScheduleTapers` and `WaitingIsFree` for every
base amount, scale and cut-off. `AmountIsExact` assumes that the cut-off lies
beyond the last ordinal that gets anything on the grid; without it
the code mints nothing where the formula still gives something.

**ExpandEconomy.** `RollingCap` is inductive only together with `LogIsPayments`: the
guard of the code looks at the log, the cap speaks of what was paid. That ageing the
window by a period does not raise the total uses the lemmas of `Totals_proofs`
(`TotalEqual`, `TotalAdd`, `TotalShift`). `NothingInherited` and `HandoffHolds` are inductive with the
types. The proof has one lemma per action, grouped by what the actions leave alone.

**PoolLiquidity.** What is paid are rounded shares, so sums of them are no invariant; the
inductive invariant speaks of what they are rounded from. `FeesWeighed`: the *weight* of a
position is its liquidity times the growth since its last collection, with what it has
put aside, and the fee reserve covers all weights; a collection takes off at most the
weight it settles (`CollectFacts`), a swap adds at most its commission to them
(`GrowthSpreads`). `LiquidityOwned`: the positions own no more than the total, and less in a
pool that was seeded; in one that was not, the first position keeps a lock. So whoever
removes leaves liquidity behind (`LeavesSome`), no share of the reserves is all of them
(`RemovedShare`), and none is left without an owner. Adds, collections and both removals
are one kind of step (`PositionMoves`, `MoveKeeps`). `FeesAreCovered` then is that rounded
weights fit where the weights do (`FeesFit`), and `EscrowIsEnough` that claims are shares
of what the drain found (`SharesFit`), both from `TotalShares`. `PoolIsBacked` needs that
the balance check lets pass only what was credited (`DeliveredExactly`). `ShareIsKept`
has one lemma per way the reserves move: each side keeps up with the liquidity
(`ProvideKeepsUp`, `RemovalKeepsUp`) or the product grows (`SwapKeepsUp`). The root of the
first deposit exists because the numbers are well-founded (`RootExists`).

**DistributionKeeper.** `SweepInv` adds two facts to the types. `BatchCounted`: the count of the
batches starts from none at every pool and is below the limit whenever another call is due.
`AckRemembered`: a batch that was answered in this sweep is remembered as progress, through
every refusal, lost answer and pool that comes after it; it rests on `SuccessIsProgress`, that each
of the three classifications of a successful transaction counts. `NapsOnlyWhenIdle` follows,
since `Check` is the only step from the checks to the sleep. `ImplementsSweep` maps every
step to `PoolSweep`: whichever way a turn ends, its pool is the next one visited (`TurnIsVisit`),
and queries, further batches of the same pool and the steps of others are stutters (`NoTurn`).
`PoolsAreServedPools` is the other half of `ImplementsServedPool`: what the keeper's
calls, its late transactions and its rivals do to a pool are steps of `ServedPool`.

**OracleKeeper.** Freshness and earliness are two sides of one argument. `NotTooEarly`: after
its own update the keeper's sleep and the price's age add up to at least the shortest
sleep (`SleepBounds`, from the centred jitter), so alone it wakes no earlier than the
cooldown. `NotTooLate`: age and what is left of the sleep never exceed the longest sleep,
the time awake, and, if another update came between, a cooldown. The first is
inductive only with `Remembered`, that an update in the mempool leaves the keeper without
a lead.
`PriceFreshness` and `NeverTooEarly` follow from `TimingAssumption`.

**TransactionForms.** `AllowanceBounded` is not inductive: a handler about to approve adds to
the allowance whatever it is by then. What never reaches the ceiling is the *exposure*:
the allowance with a full amount for every handler that has decided to approve and for the
approval in the mempool. A handler decides only when the allowance is below its own
amount; at most the other handlers and one pending approval have decided before it
(`ExposureDecided`, by counting the claims), and every other step moves a claim
into the allowance or drops it (`ExposureFalls`, `ClaimGivenUp`). `EnoughToSpend` needs
`AloneIsAlone`: nothing of the account runs or is unanswered for beside a deposit
marked alone, so its allowance is still the one it read or raised. `OnePerModal` and
`ButtonsComeBack` need `ModalsHeld`: a running handler of a modal keeps it loading.
The bound of `AllowanceBounded` is tight: one handler at a time can leave three full amounts
less one unit, when an approval of one unit less than the full amount is left over, one
of the full amount is given up by its handler, and it lands after the next handler has
read the allowance and before that one's own approval.
`OnlyOwnClicksMove` rests on `SignedByClicker`: what a handler sends is signed by the
account it captured, or not at all. `AllowanceMoves` says which transactions move an
allowance and by how much, `LateWasSent` that what may land late was sent by a handler of
its account, `HandlersOfClicks` that a handler starts for the address the page shows and
keeps what it captured to its end.

**Portfolio.** `TablesOfOneWallet` is not inductive: a load fills its table with the rows it has
gathered over several answers, while other loads and the wallet move on. `PageInv` adds
`LoadsOfOneWallet`, that a load has picked up no row but of the wallet it started with, and
`AddressFirst`, that no load runs before there is an address. A spinner may be stopped by any
load of its kind, so `SpinnersHaveLoads` needs that a step which ends a load stops the spinner
with it, and that one load's progress leaves the kind of the others alone (`OneLoadMoves`).

## 6. What is only model-checked

* Liveness (`DistributionCompletes`, `MintsSettle`, `PoolsDrain`, `NotifiesSettle`,
  `StaleEntriesGo`): the prover has no rule for fairness and `ENABLED`.
* The statements of the documentation that the code refutes are counterexamples of
  TLC and need no proof.

Nothing is proved by induction over data: no operator here is recursive, and sums are
cardinalities, so that the library's facts on finite sets apply.

### The refinements

`CommitterPayouts` has five variables: the phase, what each committer has staked, who has
been served, what each has received and what is set aside for it. `KeepsPayoutPromise`
says that the pool implements it: a commit is `Fund`, a batch is `Pay` with some of the
shares received and the others set aside, a claim is `Claim`, a drain is `Halt`, and
everything else, restarts included, is a stutter. `creator_distribution` checks it and
`ImplementsPayouts` proves it for any committers and amounts.

`PoolSweep` has two variables, the pools that had their turn in this sweep and whether the
sweep rests. `KeepsSweepPromise` says that the distribution keeper implements it: whatever
a pool answers, or does not, is a `Visit`, the sleep is `Rest`, waking is `Begin`, and only
the end of the process is `CutShort`. `keeper_distribution` checks it and `ImplementsSweep`
proves it for any pools and limits.

`ServedPool` joins the two sides of a distribution. Its four variables are what
`DistributionKeeper` keeps of a pool: crossed, batches left, halted, notification pending.
`IsServedPool` says that `CreatorPool` implements it, with the rows that are left divided by the
batch size, rounded up, for the batches, and paused, drained or stalled for halted;
`creator_distribution` checks it and `ImplementsServedPool` proves it. `PoolsAreServedPools`
proves that each pool of `DistributionKeeper` moves only so. The keeper's theorems hold for any
`Batches` and `MayHalt`, that is, for any number of batches a crossing may leave and with
every pool free to halt at any time, which is all that `ServedPool` allows. The rate limit per
address is on the keeper's side only, since another address has a limit of its own.

## 7. Plan

In this order; each step adds a module, its runs and its proofs.

1. `FactoryTimelocks`: configuration per factory and per pool, upgrades in batches with
   paused pools skipped, cancellation half way. Properties: nothing applies before its
   delay, every pool of a proposal is migrated or skipped once.
2. `PriceOracle`: update interval, TWAP window, warm-up after an anchor change, the circuit
   breaker and the confirmation of a first price. Properties: no price during warm-up,
   no jump past the bound, recovery in the end if the feed does.
3. `PoolCreation`: the reply chain with its context, the registry, rate limits and the
   pruning of their index. Properties: a registered pool is registered whole, an
   ordinal is used once.
4. `Router`: a route as a sequence of hops over pools. Property: all or nothing, and the
   recipient gets at least the minimum.
5. Composition: of `CreatorPool` with `ExpandEconomy`, where the flag of the first is the
   flag of the second, and with `PoolLiquidity`, where the crossing is the initial state. Its
   composition with the keepers is `ServedPool`.
6. Proofs: that these compositions refine what their parts suppose, as `ServedPool` does, and the
   invariants of the modules above.

### Not modelled

* Queries, message types, analytics and attributes keep no state the properties speak of.
* Migration of a pool changes its version, resets the price accumulators and may set a new
  `lp_fee`; like `UpdateConfigFromFactory` it belongs to `FactoryTimelocks`. Until then
  fees and limits are constants of a pool, of any value.
* Of the frontend: the discover, tracker and information pages only display; the queries
  that a changed contract address starts only prepare the other amount of a deposit,
  which the user may type over, and the tracker's table; status texts, balance
  warnings and styles have no state a property speaks of. Leaving the portfolio page
  ends its tables, so it is no step.
* `mockoracle` is a test price feed, of which the oracle keeper's push is modelled. `fuzz`
  and `fuzz-stateful` were read as statements of what the authors expect.
