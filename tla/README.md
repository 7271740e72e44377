# Bonzo Finance lending protocol: TLA+ models, checks and proofs

Bonzo Finance is a fork of Aave v2: a pool of reserves in which depositors earn
interest, borrowers post collateral, liquidators repay unhealthy debts, and
anybody may borrow without collateral for one transaction. The repository also
holds what brings such a pool to a network: market configurations, migrations
made of tasks, and a test suite that computes what every call must do. This
directory models the Solidity and the TypeScript under `src/`, checks the models
with TLC on small instances, and proves what matters most with TLAPS.

## 1. Inventory

| part | state it keeps | operations | modelled in |
|---|---|---|---|
| `libraries/math` | none | `rayMul`, `rayDiv`, `percentMul`, linear and compounded interest | `ProtocolMath` |
| `DefaultReserveInterestRateStrategy` | immutables of a kinked curve | `calculateInterestRates` | `InterestRateStrategy` |
| `ReserveLogic` | per asset: two indexes, two rates, time of last update | `updateState`, `updateInterestRates`, `cumulateToLiquidityIndex`, `init` | `ReserveLogic` |
| `AToken`, `VariableDebtToken`, `IncentivizedERC20` | scaled balances, scaled supply, credit delegations | mint, burn, transfer, `approveDelegation` | `ReserveLogic`, `LendingPool` |
| `GenericLogic`, `ValidationLogic` | none | value of a position, health factor, the `validate...` functions | `GenericLogic`, `LendingPool` |
| `LendingPool` | reserves, flags of the users, pause | deposit, withdraw, borrow, repay, collateral switch, `finalizeTransfer`, `flashLoan`, `initReserve` | `LendingPool`, `FlashLoan`, `ReserveList` |
| `LendingPoolCollateralManager` | the pool's, by delegatecall | `liquidationCall` | `LendingPool` |
| `LendingPoolConfigurator` | none; writes configurations | switches, parameters, caps, factor, strategy, pause; listing | `LendingPoolConfigurator`, `ReserveSetup` |
| `UserConfiguration` | one word of bits per user | set and get two bits per reserve | `ReserveList`, as sets in `LendingPool` |
| `AaveOracle`, `SupraOracle` | sources, fallback, names and feeds, staleness windows | `getAssetPrice`, the owners' setters | `PriceOracle`; any positive price in `LendingPool` |
| `WETHGateway`, `WHBARGateway` | wrapped coins and aTokens that strayed to them | deposit, withdraw, repay, borrow in the native coin | `NativeGateway` |
| `LendingPoolAddressesProvider`, registry, proxies | addresses, implementations | set, upgrade, initialise, register | `MarketDeployment` |
| `src/markets` | none | reserves, curves and addresses of five markets | `HederaMarket`, `AaveMarket`, `AmmMarket`, `AvalancheMarket`, `MaticMarket`, `MarketPool` |
| `src/tasks`, `src/helpers` | `deployed-contracts.json`, a script's variables | the migrations of `package.json` | `DeploymentTasks`, `MarketDeployment` |
| `full:initialize-lending-pool`, `init-helpers.ts` | the same | listing and configuring a market's reserves | `ReserveSetup` |
| `src/test-suites/test-aave` | the data read before a call | stories, `calculations.ts` | `Calculations`, `ScenarioEngine` |
| `StableDebtToken` | stable debts | unreachable: `borrow` and `repay` revert in stable mode | no |
| wrappers, swap adapters, data providers, `src/scripts`, mocks | none of the pool's | see "Not modelled" | no |

**How they interact.** A user calls the pool, or a gateway that calls it twice.
The pool validates on the stored state and the oracle's prices, accrues interest
on the reserve (`updateState`), tells it what liquidity is about to come and go
(`updateInterestRates`), moves the money and mints or burns scaled tokens. An
aToken transfer goes the other way: the token moves the balances and calls back
`finalizeTransfer`. A liquidation touches two reserves, which may be one. A flash
loan hands money out, calls a receiver that may call the pool, and then settles
loan after loan. The administrators rewrite configurations between any two
calls. Before all that, a migration runs its tasks one after the other; they find
each other's contracts through `deployed-contracts.json` and through the
addresses provider, and users reach the pool before the last of them has run.

**What is hard.** On the chain: the order of accrual, pricing and payment inside
one call; amounts against scaled amounts (what is read is a product, what is
burned is a quotient, both rounded); flags that must agree with balances, since
a reserve whose flag is clear is skipped when health is computed; prices and time
that move between calls; callbacks in the middle of a flash loan; a
configuration change that applies to the past. A transaction happens or is
undone. Around it, things do get lost: price reports arrive late, out of order
or from a clock that is ahead, and a deployment script may die between any two
transactions, keeping the chain and forgetting its variables.

**What makes each part correct.** Accrual credits no more than it charges; every
call conserves value up to rounding; the rates stored are those of the real
liquidity; a full withdrawal and a full repayment are exact; every debt counts;
nobody can be made unhealthy by a call; only the unhealthy are liquidated and a
liquidation helps; a flash loan returns what it took or leaves a consented debt;
a frozen reserve only shrinks, a paused pool stands still (a guard of every action here), and a reserve whose
depositors have a share of its interest is disabled only when nobody is in it; bitmaps say what was set; a gateway changes
coins into positions at par and keeps what strayed to it; a price is recent and belongs to
a name; a setup that dies and is repeated ends with the market it was given.
`PROJECT.json` lists the hazards at their lines, with the properties that watch
each.

## 2. The modules

### The pool

`ProtocolMath` ⊂ `InterestRateStrategy` ⊂ `ReserveLogic` ⊂ `GenericLogic` ⊂
`LendingPool` ⊂ `PoolProperties`, each extending the one before. The first four
are pure operators; `LendingPool` has the variables and the actions;
`PoolProperties` says what the pool promises. `FlashLoan`,
`LendingPoolConfigurator`, `MarketPool`, `ScenarioEngine` and `NativeGateway`
compose the pool with actions and promises of their own.

* **`ProtocolMath`**: the fixed-point operations, rounding half up as the code
  does. `RAY`, `WAD`, `PERCENTAGE_FACTOR` and the length of a year are constants.
  Numbers are unbounded: the code's overflow checks revert, so that an execution
  that overflows is one that does not happen.
* **`InterestRateStrategy`**: utilization, the two branches of the borrow rate,
  and the liquidity rate. The stable rate is left out because nothing reads it.
* **`ReserveLogic`**: a reserve is one record: `DataTypes.ReserveData`, the
  balances and supplies of its two tokens, and the underlying held by the aToken
  (`cash`). An operation maps a reserve to a reserve; `Can...` says when it does
  not revert. `NormalizedIncome` and `NormalizedDebt` are the views of
  what the next accrual is expected to store.
* **`GenericLogic`**: value, health, and `balanceDecreaseAllowed`, over the assets
  whose flags are set. The user's bitmap is a pair of sets.
* **`LendingPool`**: variables `reserves` (`_reserves` and token storage),
  `usersConfig`, `borrowAllowance`, `paused`, `price` (the oracle) and `now`
  (the block). Each action is one successful transaction, in the code's order:
  what the code reads before an accrual the action reads from the old reserve.

  | action | code |
  |---|---|
  | `Deposit`, `Withdraw`, `Borrow`, `Repay` | the functions of the same name, with their `validate...` |
  | `ExecuteBorrow` | `_executeBorrow`, shared by `Borrow` and the flash loan |
  | `ApproveDelegation` | `DebtTokenBase.approveDelegation` |
  | `SetUserUseReserveAsCollateral` | the function of the same name |
  | `LiquidationCall` | `LendingPoolCollateralManager.liquidationCall` |
  | `Transfer` | `AToken._transfer` with `finalizeTransfer` |
  | `SetPrice`, `Tick` | the environment: a new price, a later block |

* **`FlashLoan`**: variables `flash` (the open loan and its phase) and `saved` (the
  storage to return to). `FlashLend`, any number of `Callback`s (each a pool
  call), `CallbackReturns`, then `SettleWithReturn` or `SettleWithDebt` per loan;
  `FlashRevert` undoes the transaction at any point, as a revert does. Prices and
  time stand still meanwhile. One flash loan is open at a time.
* **`LendingPoolConfigurator`**: one action per setter, interleaved with the calls
  of the users. That the caller is the admin is assumed. `MCConfigurator` adds a
  history variable, `sharing`: the reserves whose rates were last computed under a
  factor below 100%.
* **`ReserveList`**, **`UserFlags`**: the pool keeps the two sets of a user as bits
  of one word, addressed by the position of a reserve in a list; the first
  reserve has the id of one never listed. `ReserveList` has `initReserve`,
  `setBorrowing` and `setUsingAsCollateral` over words (sets of bit positions)
  and the walk of `calculateUserAccountData`. `UserFlags` is the abstract
  specification, sets as `LendingPool` has them; the refinement mapping reads
  each set off the list and the word.
* **`MarketPool`**: the pool with the numbers of the deployed markets
  (`HederaMarket` and its four siblings: reserves, curves, parameters, addresses by
  network). The initial states are every two neighbouring reserves of every
  market, with a lender's deposit in what is borrowed and a borrower's collateral in
  one of them or spread over both. Caps are zero: `borrowCap` and `supplyCap` of the
  Hedera entries are applied by no task.

### Gateways and oracles

* **`NativeGateway`**: one wrapped reserve of the pool, callers with native coins and
  the gateway. A gateway's call is one transaction of several pool calls;
  `withdrawNative` and the second call it makes are two steps, because
  whether the second succeeds depends on the first, and nothing else runs in
  between; `saved` is the storage that a revert brings back. `Kind` selects the
  contract, which differ in the amount `repay` hands to the pool.
* **`PriceOracle`**: both oracles over feeds. `Publish` makes a report (the clock of
  a publisher may be `Skew` ahead), `Deliver` brings any report published so far
  to the feed contract, again and in any order. The owners' setters of
  `AaveOracle` and `SupraOracle` are actions. `None` stands for a missing source.

### Bringing up a market

* **`ReserveParameters`**: what `reservesConfigs.ts` says of a reserve, and what
  the configurator makes of it.
* **`ReserveSetup`**, **`ReserveLifecycle`**: the task that lists the reserves one
  transaction each, takes the pool admin role for `ATokensAndRatesHelper`,
  configures them and hands the role back. `chain` survives a `Crash`; the script's
  variables (`pc`, `admin`, `next`, `batch`, `strategyAddresses`) do not. Users
  deposit and withdraw meanwhile and an admin may disable borrowing.
  `ReserveLifecycle` is the abstract specification: unlisted, listed, configured.
* **`DeploymentTasks`**, **`MarketDeployment`**: a migration is a sequence of tasks, a
  task a sequence of small instructions (deploy, save to or load from the
  json, take or read an address, write it to the provider, upgrade a proxy,
  register, pause, list, configure), generated from the target by the same
  conditions as in the tasks. One action per kind of instruction, except that
  listing and configuring are loops of transactions: `ListReserve` and
  `ConfigureReserve` handle a reserve each, `TakeAdmin` gives the pool admin role to the
  helper, and `GiveAdminBack` returns it to whoever the task read as admin when it
  began. Another script may find any state in between. The operator
  runs the task that died again, or the migration from the start; another market
  may follow on the same network with the same json. A step that throws kills
  the script (`FailStep`); so does one the chain refuses, as `setAssetSources` of an oracle the
  deployer does not own (`ownsOracle` of a target). `interrupted` is history:
  the providers whose admin role a script held when it died.

### The test suite as a second opinion

* **`Calculations`**: `calculations.ts` as operators: the reserve and the user
  expected after a call, computed apart from the contracts.
* **`ScenarioEngine`**: `actions.ts` over the pool: read, send, read again, compare.
  Actions of the stories are drawn freely. Each step of `actions.ts` between two
  awaits is an action, so that the clock may move between the read and the call.

An operator preceded by the comment "A seeded fault" is a plausible mistake in
the operator it is named after. No specification uses it: substituted for that
operator it makes a property fail, which shows that the property can see it.

## 3. What is checked

| run | question |
|---|---|
| `MCPoolOneAsset` | Does one reserve keep its books? Supplies match balances, every debt counts, full repayment and full withdrawal are exact, no call and no accrual creates value, indexes grow. |
| `MCPoolTwoAssets` | Are positions safe when prices move? Rates fit the real liquidity, nobody is made unhealthy by a call, the healthy are left alone, loans cover the bonus. |
| `MCMarketPool` | Do the numbers of the markets keep what the code promises for good numbers? Collateral covers debt and bonus one price move of a tenth after health, a liquidation heals above threshold times bonus. |
| `MCFlashLoan` | Can a receiver gain anything by calling the pool in its callback? Loans of one asset, once or twice in a batch, returned or kept as debt, with a premium of 9% so that it survives rounding. |
| `MCConfigurator` | What do freezing, deactivating and a new reserve factor, up to 100%, promise while users and the other setters go on? |
| `MCReserveList` | Do bitmaps and list say what the sets of the pool model say, up to a full list? |
| `MCNativeGateway` | Do coins become positions and back at par, in two calls that may fail, with aTokens straying to the gateway? |
| `MCRepaySpecified` | Expected to fail: see below. |
| `MCPriceOracle` | Was every price given recently a market price, of both feeds where it is a quotient, and of an address that some name stands for? |
| `MCReserveSetup` | Does a market end up listed and configured as its file says, although the script dies and users are there already? |
| `MCMarketDeployment` | Do migrations none of whose steps throws by itself end, with every proxy, admin, source and entry of the json in its place, although scripts die and two markets share a network? |
| `MCScenario` | Does the pool do, call by call, what the test suite computes? |

**Bounds.** Two users and one or two assets are the fewest with a depositor, a
borrower, a liquidator, a self-liquidation and a transfer to oneself; the
delegate and the liquidator are the other user. `RAY = WAD = 1000` keeps products
small while leaving an amount of 100 enough digits for rates of 0.1 to 0.8 to
show (`MCPoolOneAsset` moves 600 and 1000, where a year's interest stands clear of
`InterestDust`); one year is one tick, so that interest is visible after one. A pool has
no finite state graph, since every call drifts balances by a unit of rounding:
`MaxSteps` bounds the length of a behaviour (8 calls and ticks with one asset, 6
with two, with flash loans and with administrators, 5 with a gateway), `MaxTime`
the ticks, and amounts come from one or two values and `type(uint256).max`. Five calls suffice
to deposit, borrow, accrue, liquidate and leave. At a bound only a stuttering
step is left, so that deadlock is checked everywhere before it.

`MCMarketPool` starts with both deposits of 1000 made, so three steps reach a
borrow, a price move and a liquidation, and no tick fits in; loans of 620 and 800
come close to what the markets lend, which is 0.62 to 0.8 of the collateral where
a tenth can matter; `RAY` is 10000 there and a market's basis points enter as they
are. Where both reserves may be lent against, the collateral is also split, four fifths in the first
and a quarter in the second, so that the same three steps liquidate a position of two collaterals by
way of one. `MCFlashLoan` has one asset, which a batch may name twice; more
assets are left to the proofs. `MCConfigurator` lets the factor be raised from 10% to 50% or to 100%, its
highest useful value: above it the rates cannot be computed. `MCReserveList` has four contracts for a list of three and two
addresses that are no contracts; widths keep the proportions of 128 indexes, 256
ids and 256 bits. `MCNativeGateway` starts with the approvals given.
`MCPriceOracle` has four ticks, one report of each of three feeds (a report may
be delivered again), windows of one and two ticks and one call of an owner: what
matters is whether a report is younger or older than a window, and both
occur. `MCReserveSetup` has five reserves cut from two markets, one for each case
the task distinguishes (collateral or not, sharing a strategy or not, to be left
unconfigured, without an address) and two crashes, so that a repetition can die
too. `MCMarketDeployment` has two migrations in a row and one crash, at any step;
more would repeat a task from a state that one crash already reaches. Its targets are
Hedera with and without an entry in the registry, and Amm on kovan with the provided
oracle the deployer's own or not.
`MCScenario` has five actions and three ticks.

**Fairness.** Nothing obliges a user, an administrator or a liquidator to act, so
the pool has none. A script is a process that runs: `ReserveSetup` assumes weak
fairness of its steps and of the operator starting it again as long as it has not
finished; `MarketDeployment` of the script's steps and of the operator starting
over. Crashes, deposits, withdrawals and the admin's calls are never fair, and
crashes are bounded. `EventuallyConfigured` adds its own condition: from some time
on users leave alone the reserves that are not to be collateral, because the
configurator refuses those that hold liquidity. `EventuallyDeployed` is about
migrations none of whose steps throws by itself (`Endable`): which do throw is told below.

**Tolerances.** Value properties say how much rounding they allow:
`RoundingDust` is half a unit of rounding for one mint or burn of each token, and
`ShareDust` two roundings of the treasury's share and its mint;
`InterestDust` the half units that views and mints round by, the half rays that
rates and indexes round by on all they apply to, and the interest on claims already
ahead of their backing, which nobody is charged; `PremiumDust` what half a ray of the
index is worth over all claims when a premium is paid out through it; `DustWorth` what one
rounded mint or burn of a token is worth, which grows with its index and price.
`HealthWithDust` is a health factor with that of every token (`DebtDust`,
`CollateralDust`) and the hundredth of a percent that the average threshold loses by
truncation. `LoansCoverBonus` allows `DebtDust`, one unit of each quotient and a hundredth of a
percent, since `configureReserveAsCollateral` bounds a product it has rounded
half up; `CoveredAfterMove` the dust and the quotients. `almostEqualOrEqual` three units, as in the suite. Everything
a seeded fault creates is larger.

### Where the code and its documentation disagree

`MCRepaySpecified` shows `WETHGateway.repayETH` ("repays a borrow on the WETH
reserve, for the specified amount") repay more than the amount specified: it
wraps the payback clamped to `amount` but asks the pool to repay `msg.value`.
When more is sent than specified and more is owed, the pool takes the rest from
wrapped coins that strayed to the gateway, and the call reverts when there are
none. `WHBARGateway` asks for the clamped amount.

Modelling met other disagreements. The passing runs state the promises where they
do hold, and the conditions are named here:

* *Same reserve* (`LendingPoolCollateralManager.sol:189`, `:228`). A liquidation whose
  debt and collateral are one reserve, paid out in the underlying, prices the
  reserve with the repayment and then again for the seizure with the payment still
  to come; the rates stored last miss it. `MCPoolTwoAssets` borrows an asset that
  is no collateral.
* *Full reserve factor* (`ReserveLogic.sol:347`). With a factor of 100% the liquidity
  rate is 0, `_updateIndexes` leaves the borrow index alone and
  `getNormalizedDebt` compounds: `repay(type(uint256).max)` tries to burn more than
  the balance. `RepayableWhileEarning` names the condition. It is checked where the
  factor stays at 10%, and proved for all.
* *Closed with money inside* (`LendingPoolConfigurator.sol:517`). "We need to ensure no
  liquidity is deposited", says `deactivateReserve` (`:315`), and `_checkNoLiquidity` takes no cash and
  no liquidity rate for that. `setReserveFactor` accepts 100%
  (`ReserveConfiguration.sol:243`), under which the liquidity rate is 0 with deposits and
  debts present: a reserve lent out to the last unit then passes for empty. `MCConfigurator`
  raises factors to 100% and reaches such reserves being closed. `NothingStranded` states what holds: a reserve whose rates were last
  computed under a factor below 100% (`sharing`) is closed only when it is empty, up to
  rounding.
* *New reserve factor* (`LendingPoolConfigurator.sol:427`). `setReserveFactor` does not
  accrue. `AdminMovesOnlyShareChange` states how much that can move.
* *Several collaterals* (`LendingPoolCollateralManager.sol:82`). A position below
  threshold times bonus of the asset a liquidator picks is pushed further down,
  even if all of it covers debt and bonus. `HealsAboveFloor` is the true bound.
* *Part of a balance through a gateway* (`WETHGateway.sol:70`). A transfer moves
  rounded scaled amounts and may arrive worth a unit less than asked for, and the
  pool then refuses to withdraw it. `WholeBalanceWithdrawable` is what does hold.
* *Windows of the oracles* (`AaveOracle.sol:113`). `setMaxPriceStaleness` bounds an
  asset's own source only. On Hedera prices come from the fallback, which has a
  window of its own; `PricesWereRecent` is stated by the window of each.
* *XPACK* (`SupraOracle.sol:313`). `getAssetPrice` returns the XPACK/PACK feed as a
  price in HBAR; `getXPackPrice`, which converts it, is called by nobody. Not in
  the model.
* *Migrations that do not end.* `deploySupraOracle`
  (`helpers/contracts-deployments.ts:267`) hands three arguments to a constructor of four
  (`SupraOracle.sol:41`), so no Hedera migration gets past its oracles. `SupraFeeds` is the
  number handed over; with 3 TLC finds every Hedera script dying in that task, and
  `MCMarketDeployment` sets 4, as if that were repaired, so that the tasks behind it can be looked at.
  `3_oracles.ts:80` reads the
  address of a fallback oracle it only assigns when none is provided (Aave on
  kovan). The mock prices of `dev/4_oracles.ts:54` name tokens that are commented out
  of `TokenContractId`. The markets other than Hedera have no Supra feeds, so their
  main, Matic, Avalanche and Fuji migrations die in the third task. `amm` on kovan ends only
  if the deployer owns the `AaveOracle` it is given: `setAssetSources` is `onlyOwner`
  (`AaveOracle.sol:59`), as a comment at `amm/commons.ts:221` expects. What can end is that and
  Hedera repaired; `EventuallyDeployed` excludes the others by `Endable`. The task
  `aave:testnet` that `package.json:44` runs does not exist.
* *Open while it is set up* (`2_lending_pool.ts:96`). The task pauses the pool and opens
  it again before it ends; reserves are listed and configured in an open pool
  by later tasks. `MCReserveSetup` therefore lets users in, and
  `FailsOnlyOnLiquidity` says that this is all that can stop it.
* *The admin read back* (`6-initialize.ts:47`). The initialization task reads the pool admin from
  the provider when it starts and, to "Set deployer back as admin" (`init-helpers.ts:297`), hands the
  role back to that account. Started again after it died between taking the role (`:278`) and
  handing it back (`:298`), it reads the helper and leaves the role there. Setting up still goes on,
  the helper being owned by the deployer. `MCMarketDeployment` has these deaths.
  `FinishedMarketsWhole` names the exception: the pool admin of a finished market is the deployer or,
  of a provider in `interrupted`, a helper made for that provider.
* *The suite's expectations.* The debt expected of a borrower starts from the scaled
  debt of the whole reserve (`calculations.ts:638`), a depositor's stable debt from
  its variable debt (`:81`), and liquidity from what was read before the call,
  without the interest up to its timestamp (`:167`). `UserKeys` and `Prompt` leave
  these comparisons out.

## 4. What is proved

Eight modules hold proofs. Four are about the pool and what goes on around it, each
extending the one it builds on: `ReserveLogicProofs` (lemmas only: the arithmetic,
what each operation on a reserve keeps and moves, and what `GenericLogic` makes of
a position), `LendingPoolProofs`, and on
that `PoolCallersProofs` (flash loans and the configurator) and `NativeGatewayProofs`;
`PriceOracleProofs`, `ReserveSetupProofs`, `DeploymentProofs` and
`ReserveListProofs` stand alone. The
theorems hold for any sets of amounts, prices, loans, feeds and windows,
any configurations and strategies, any number of reserves, crashes, migrations and
calls, any scales; users and assets may be any finite sets.

| theorem | property |
|---|---|
| `TypeCorrect` | `TypeOK`, so that no subtraction on the way of a successful call goes below zero |
| `EveryDebtIsCounted` | `BorrowFlagTracksDebt` |
| `FullWithdrawalIsExact` | `WithdrawableInFull` |
| `DebtsCanBeCleared` | `RepayableWhileEarning` |
| `SuppliesAreTheSums` | `TotalsMatchBalances` |
| `CallsAreFair` | `CallsConserveValue` |
| `InterestIsPaidFor` | `InterestIsBacked`, when no liquidation takes collateral and repays debt of one reserve |
| `IndexesNeverShrink` | `IndexesMonotone` |
| `HealthyPositionsAreSafe` | `HealthyAreLeftAlone` |
| `RatesAreThoseOfTheLiquidity` | `RatesReflectLiquidity`, when no liquidation takes collateral and repays debt of one reserve |
| `HealthyPositionsStayHealthy` | `NobodyMadeUnhealthy` |
| `EveryLoanCoversTheBonus` | `LoansCoverBonus` |
| `FlashLoansKeepTheInvariants` | `TypeOK`, `BorrowFlagTracksDebt`, `TotalsMatchBalances`, `WithdrawableInFull` and `RepayableWhileEarning` with flash loans |
| `FlashLoansAreFair` | `FlashConservesValue` |
| `RatesAreRightAfterwards` | `RatesReflectLiquidityAfterwards`, on the same condition as without flash loans |
| `NobodyOwesUnasked` | `DebtIsConsented` |
| `PositionsOutliveAdministration` | `TypeOK`, `BorrowFlagTracksDebt` and `WithdrawableInFull` with the configurator's steps in between |
| `AdministrationKeepsTheBooks` | `TotalsMatchBalances` and `RepayableWhileEarning`, the same |
| `AdministrationTakesNothing` | `IndexesMonotone` and `HealthyAreLeftAlone`, the same |
| `AdministrationMovesOnlyShare` | `AdminMovesOnlyShareChange` |
| `FreezingHolds` | `FrozenOnlyShrinks`, when the treasury is not one of the users |
| `GatewaysKeepTheInvariants` | the five of `FlashLoansKeepTheInvariants` with users coming through either gateway |
| `WholeBalancesPassThrough` | `WholeBalanceWithdrawable` |
| `StrayCoinsAreKept` | `StrayStays` of `WHBARGateway`, while no account has 2^256 - 1 aTokens |
| `CoinsPassAtPar` | `NativeAtPar` of both gateways, while no account has 2^256 - 1 aTokens |
| `PricesAreRecent` | `PricesWereRecent` |
| `NoReplacedAddressIsPriced` | `PricedAreNamed` |
| `SetupTypes`, `SetupMatchesStrategies`, `SetupListsFirst` | the invariants of `ReserveSetup` |
| `SetupFailsOnlyOnLiquidity`, `SetupKeepsDisabled` | what a step of the setup may never do |
| `SetupImplementsLifecycle` | `ListedThenConfigured`: the refinement of `ReserveLifecycle` |
| `JsonNamesTheMarket` | `DbNamesTheMarket` |
| `FinishedStayWhole` | `FinishedMarketsWhole`, its exception for admins a dead script left in place included |
| `ListedStayPriced` | `ListedArePriced` |
| `ListInvariant` | `ListInv`: ids and list are inverse to each other |
| `FlagsRefined` | `ImplementsUserFlags`: the refinement of `UserFlags` |
| `ShortcutsAgreeAlways` | `ShortcutsAgree` |

**Assumptions.** `ScalesPositive`, `PoolConstants`, `FlashLoanConstants`,
`ConfiguratorConstants`, `GatewayConstants`, `OracleConstants`,
`ReserveSetupConstants`, `SupraFeedsAssumption`, `MarketDeploymentConstants` and `ListConstants` give types
and what the constructors guarantee: `WAD` fits into a word, a batch of loans is not empty, the address of an
initial price index belongs to an initial name, a target's migration is one of the five
that the tasks are written for and its market one of the five configured, and ids and words are wide enough.
`FinitelyManyUsers` and `FinitelyManyAssets` (the pool refuses more than
`_maxNumberOfReserves`) are needed for sums. `CollateralParametersAccepted` is what
`configureReserveAsCollateral` requires of a threshold, a loan-to-value and a bonus. `MarketParametersAccepted`: what a market
means to configure passes the configurator's checks and leaves a mark there. TLC
evaluates each of them in the runs, and `MCMarketPool` evaluates the first half of
the last of every market.

**The pool.** The heart is arithmetic: for an index of at least one ray,
`RayDiv(RayMul(s, i), i) = s` (`RoundTrip`), and both operations are monotone.
That the indexes are at least one ray is not a type; nor is it inductive alone,
since an accrual over a negative time could shrink them. So the invariant `Inv`
adds to `TypeOK` that every reserve is `WellFormed`: both indexes at least one
ray and no update in the future. The borrowing flags are inductive only with
that: `repay` clears the flag when the amount paid is the debt it read, and
the balance is then empty because the debt scales back to at least the balance
(`DebtScalesBack`, where the debt read may exceed what the accrual stores) and
the burn cannot take more than the balance. Each operation on a reserve has a
lemma (`UpdateStateSound`, `BurnDebtSound`, ...) that says what it keeps and what
it moves; each action of the pool has a lemma (`DepositStep`, ...) that chains
them; `EveryStep` collects those, and the theorems follow by temporal logic.
Liquidation replaces reserves three times, twice perhaps the same:
`OneMoreReserve` carries what holds of the reserves on the way.

**The accounts.** Sums over users are folds, and the library's induction theorems
are out of reach; but a statement about all subsets of a finite set can be proved
by well-founded induction on their sizes (`SubsetInduction`). `TotalChanges`,
`BalanceMoves` and `BalanceTransfers` say once what replacing one balance, or moving
an amount between two accounts, does to a sum. With them `Balanced` (each supply is the sum of its balances) is
kept by every operation of a token, a transfer to oneself and a seizure by the
treasury included. That a debt can be cleared rests on it: the borrow index
moves only while the supply of the debt token is not 0, and by `Balanced` it is not
0 while anybody owes; then the debt that is read scales back to the balance that is
burned. For value, `BooksMoveBy` says how much `Gap(r)`, what depositors can claim
less what backs it, moves in an operation, and `Dust` how much of that is rounding:
one half-up product per mint or burn. A call is a few such moves with the cash
going the other way, so that the dust of a call is a constant number of units and the
claims never run ahead by more (`EveryStepKeepsAccounts`). `Deficit`
accrues first, so that interest of the time passed before a call is not counted
as the call's doing. What time does is counted apart, below.

**The rates.** A reserve is `Priced` when its rates are those of its own cash and
debt. That needs no invariant beyond `Inv`: each call reprices the reserve it
moves (`ToldWhatMoved`), a transfer moves nothing the rates depend on, and the two
reserves of a liquidation are repriced each for its own half. Where they are one
reserve that fails (section 3), so the theorem excludes `SelfLiquidation` and
nothing else.

**The interest.** `InterestIsPaidFor` compares, when a unit of time passes, what
depositors and treasury are credited with what borrowers are charged. Only `Tick`
changes the time and it changes no reserve (`OnlyTickPasses`), so both sides settle
the same stored reserve, one unit apart. The treasury's mint gives
back its share of the interest (`AccrualGap`), and what is left is a race of two indexes:
over one unit the income index grows by the stored liquidity rate on all claims
(`IncomeOfAUnit`), and the compounded borrow index by at least the borrow rate on
all debt (`ChargeOfAUnit`). The income does not run ahead because the
stored liquidity rate is at most the depositors' part of the borrow rate times the
utilization (`IncomeRateBound`). That is a fact about the liquidity the
rates were computed from, so the theorem needs `RatesReflectLiquidity` as an
invariant, and with it the absence of `SelfLiquidation`: such a call stores rates for a
reserve without the repayment still to come, which pay depositors for
more utilization than there is. It needs that a reserve that lends keeps a factor of at
most 100%, which no guard says: above it the computation of the rates reverts
(`StepShareFits`). The bound is about one unit of time from any reachable
state, so it needs no hypothesis on what earlier calls have rounded: claims ahead of
their backing earn interest no borrower pays, and `InterestDust` names it.

**Health.** A position is four sums over its assets: what its collateral is worth,
what it weighs (each worth times its threshold), what it may borrow, and what it owes
(`AccountSums`). A health factor of at least one means that weight covers debt
(`HealthyIsCovered`) and, with what the average truncates given back, the converse
(`CoveredIsHealthy`). A call keeps the terms of each reserve (`SameTerms`: the
configuration and the normalized income stand, the normalized debt is no higher),
because within one block nothing accrues twice; so the sums move only with balances
and flags. Other people's calls take no token of a user and give it no debt, by
`HealthyPositionsAreSafe` (`UntouchedStayHealthy`). For its own calls the two
checks of the code have to be enough. `balanceDecreaseAllowed` decides on a weight
that is the truncated average of the whole, and what is burned rounds the other
way (`AllowedDecrease`, `WeightAfterBurn`); it looks at no health at all where the
asset has no threshold or is no collateral. A borrow is checked against
loan-to-value, with the debt taken before the mint (`AcceptedLoan`,
`DebtAfterMint`): health follows because no loan-to-value is above its threshold. That the terms are
those the configurator accepted is the invariant `AsListed`. The bonus is the same
argument with one more step: threshold times bonus is at most 100%, so that weight is at most
the worth net of the bonus, reserve by reserve (`WeightNetOfBonus`).

**Flash loans.** A flash loan is not one step, so its invariant `FlashInv` says
what the open loan and the storage it would return to are (`SavedSound`, well formed
at the present time: time stands still, or a revert could bring back a reserve
updated in the future). `FlashBooks` adds that both balance. `FlashRates` is the
interesting part: while a loan is out a reserve is priced, *unless* some of it is left
to be settled, since the cash is gone that any call of the callback reckons
with; settling the last loan of a reserve reprices it with the cash and the premium
back or with the debt in its place, and undoing restores reserves that
were priced. A loan may name an asset twice, so "left" is about the rest of the
list. For value, the gap of a reserve is counted without what is out (`Missing`):
lending moves cash from one side of the sum to the other, and settling a loan drops it
from the list as it brings the cash or the debt back. Paying the premium through the
liquidity index rounds an amount per ray of all claims (`PremiumRounding`); with that
allowed as `PremiumDust` the theorem holds for any premium and any deposits.
That debt is consented is shown call by call: a transaction gives debt to its
own sender or takes from a delegation exactly what it adds (`NobodyOwesUnasked`).

**The configurator.** An administrator's step replaces a configuration or a
strategy by another of its type (`AdministersOnly`) and leaves every holding as it
was (`HoldingsStand`), so it keeps `Inv`, and what the pool's steps promise
holds of it too. A changed configuration changes one thing in the next accrual, the
share of interest that `_mintToTreasury` mints; `ShareDust` is what rounding the share and minting
it can add, which grows with the liquidity index, because one scaled unit is
worth that much. For the freeze, `Shrinks` relates a reserve to a later one: no more
scaled debt and no more aTokens outside the treasury. Accruing, burning,
transferring, pricing and paying all shrink; it is transitive, which chains the three
replacements of a liquidation, of a frozen debt as of a frozen collateral. If the
treasury were a user its transfers would add to what users hold.

**The gateways.** Between its two calls of the pool the gateway holds somebody
else's aTokens. `Passing` says what: what it held before and, scaled, what it is to
withdraw; and when a whole balance was asked for, nothing stayed with the caller
and the amount is what the scaled balance is worth, which is why the pool cannot
refuse it (`WholeBalancesPassThrough`). Nor can a liquidator take what strayed to
the gateway: it is healthy because it owes nothing and has lent no credit that
could make it owe (`OwesNothing`, `LendsNoCredit`). That strays stay put is proved of `WHBARGateway` only, since of `WETHGateway` it is false
(`MCRepaySpecified`). Its hypothesis is no artefact: `withdraw` takes
2^256 - 1 for "everything", so an account with exactly that many aTokens would have
the gateway withdraw its strays as well. Par has the same hypothesis and holds of both
contracts. It compares settled positions before and after, so for a withdrawal, which
takes two steps, the invariant `Handed` keeps what the first has done: the
reserve is the saved one after the transfer and nothing else. Transferring and accruing commute,
since the treasury's share depends on the supplies and not on who holds them;
so only one account's worth moves, by what was paid out and half a unit of rounding.

**The oracle.** `OracleInv` says that feeds hold only what was published, with a
timestamp no more than `Skew` ahead of its publication (`FeedsAreHonest`), so a report
that passes the check of its age is recent up to the clock (`FreshIsRecent`). The
rest follows each path of `getAssetPrice`: own source, fallback, quotient of two
feeds, each with its window. For the names it says that an address keeps an index
only while some name stands for it, which `updateAsset` keeps by deleting the old
index.

**The setup.** `IInv` adds to the invariants what the script's variables know of
the chain where the program counter is: which strategies it has deployed, that
what its scan collected is listed and not configured, and who the pool admin is. With
that a step of the script is a step of the lifecycle or none, and a transaction
that reverts was refused for liquidity, since everything else the configurator
checks is in `IInv` or in `MarketParametersAccepted`.

**The deployment.** The tasks are constants, so the first half of `DeploymentProofs` is
about sequences: each task is a concatenation whose parts depend on the target, and
`PoolTask`, `OraclesTask`, `InitTask` and the like say what holds of it for every
target: where the steps are that make a proxy, enter a contract in the json or write to the
provider, and that no other step does any of it (`Courses`). Every step of every
task is `Regular`: implementations are kept under their own names, and proxies are
upgraded and never written. The steps of a migration come in three groups: `Moves` do one
instruction, `Loops` do part of one that lists or configures, and `Turns` begin, end,
kill and restart scripts; each part of the invariant has a lemma for each group.
What a migration leaves needs to know where it is. `Core` says that the steps to come
are the rest of the task (`OnTrack`), what is on chain, what the script holds, and
that from the second step of the provider's task on the provider in hand is the one of the json
(`ProviderInHand`); `Entries` what the json and, a step before, a variable of
the script hold; `Achieved` what each task has done for that provider once the
script is `Past` a step of it or `Ending` it. A dead script changes nothing of this,
since a rerun begins a task that was reached before, and a fresh start deploys another
provider (`TurnBack`). At the end all of it holds at once (`WholeAtEnd`). That it
goes on holding is a fact about later scripts: they work with a provider that no
finished market has (`Fresh`), since the provider's task mines one and enters it in
the json at once; so what they list, configure or pause is that provider's own pool
(`PoolReached`, `OtherPools`), and a rate oracle is handed over only by the script
that deployed it (`GrantSteps`). That is `FinishedStay`, the last part of `IInv`.
The role that configuring takes is the delicate part. `AdminsSet` says who is pool admin from
the first task on: the account the script will hand the role back to or, while it is
taken, the helper in hand; and either is somebody `AdminFor` admits, the deployer or, if
the provider is one of `interrupted`, a helper made for it. A script that dies with the role
taken died in the task that enters its helper in the json, and for its own
provider (`TakenHome`), so what a later script reads as admin is admitted again.
`ListedStayPriced` is about the order of steps within the oracles' task and of that task
and the listing. `Ordered` says of a task that the fallback is deployed before the
oracle that asks it and that an oracle is in hand before it gets sources or the
provider gets it, unless the task throws; every step that lists comes in a later task (`OraclesTaskInOrder`, `ThirdTask`).
`OracleInv` follows the oracle from the script's variable (`OracleInHand`) to
the provider (`OracleEntered`), says that nothing is listed until then
(`NothingListed`), and that from then on every pool with a reserve has an
oracle that can price it (`ListedPriced`). A market that takes an oracle instead of deploying one has
no fallback of its own: `OracleData` reads off the five configurations that only Amm on
kovan gets through its task that way, and that it has a source for each of its
reserves but WETH, in which it quotes.

**The bitmaps.** `ListInv` says that ids and list are inverse to each other, the
rest of either untouched, and that no bit lies past the list. Then the walk finds
an asset exactly when the bit at its id is set (`CountedByBit`), and a call,
which writes one bit at one id, turns one asset of one user
(`SetBorrowingTurns`, `SetUsingAsCollateralTurns`), since bits of two reserves,
and the two bits of one, differ. Listing turns nothing: the bits of the new
reserve were never set.

**Only model-checked**, and why.

* What adds up over a behaviour: `NothingStranded`. Each call leaves some
  rounding behind; the bound the run checks is for a few calls, and no
  inductive bound is independent of their number. It is also about the factor a rate was stored
  under, which no variable of the pool keeps.
* What needs good numbers: `CoveredAfterMove`, `HealsAboveFloor`. They hold for the
  constants of the markets and not for all that the assumptions allow.
* The scenario suite: two independent computations compared by value.
* Liveness (`EventuallyListed`, `EventuallyConfigured`, `EventuallyDeployed`) and
  `ENABLED` are out of the prover's reach.
* `RepaysTheSpecifiedAmount`, which is false: `MCRepaySpecified` has the counterexample.

## 5. Not modelled

* Wallets and ERC-20 approvals of the pool's users (a caller can pay what it
  offers), permits, events, referral codes, the stable-rate flag of a reserve.
* `StableDebtToken` and the stable rate: at this commit `borrow` and `repay` revert
  for stable mode and no other call mints stable debt.
* Flash loans inside flash loans.
* The bit layout of `ReserveConfiguration` (a record here); 128-bit indexes and
  256-bit words of arithmetic, whose overflow reverts.
* How long a rate stored under an old strategy or factor stays: until the next
  call, and nothing in the code makes one happen.
* Upgrading the tokens of a reserve; market ids; addresses no script sets.
* Swap and liquidation adapters: receivers of flash loans that depend on an
  exchange; `FlashLoan` has any receiver. Token wrappers: wrapping around a deposit
  of tokens the Hedera market does not have. The delegation-aware aToken adds
  one governance call. The incentives controller is not in the repository.
* Data providers and `src/scripts`: views, and series of configurator calls that
  `LendingPoolConfigurator` allows in any order.
* Token association of Hedera accounts, recovery of stray native coins, and the
  approvals of `WHBARGateway`'s helper.
* Forked and Tenderly networks, source verification, tasks that deploy a single
  contract, and the `test-amm` suite, a copy of `test-aave`.

## 6. Left to do

To prove: `HealsAboveFloor` from the lemmas on positions.

To model: checked 128- and 256-bit arithmetic as a refinement of `ProtocolMath`; an
abstract share ledger that `ReserveLogic` and its tokens implement; nested flash
loans.
