---------------------------- MODULE ReserveSetup ----------------------------
(***************************************************************************)
(* The task full:initialize-lending-pool with initReservesByHelper and     *)
(* configureReservesByHelper: a script lists a market's reserves one       *)
(* transaction each, then makes ATokensAndRatesHelper the pool admin,      *)
(* configures them one transaction each, and hands the role back.  The     *)
(* pool is not paused meanwhile.  The script may die between any two       *)
(* steps, keeping the chain and losing its variables; it may be run again, *)
(* also after it finished.  A reserve is its position in ReservesConfig.   *)
(***************************************************************************)
EXTENDS ReserveParameters, Sequences, FiniteSets

CONSTANTS N,               \* number of reserves in ReservesConfig
          Params,          \* their parameters
          TokenAddresses,  \* reserves whose token address is set
          Deployer,        \* the account that runs the scripts, owner and first admin
          Helper,          \* the ATokensAndRatesHelper contract
          MaxCrashes       \* bound on deaths of the script

Reserves == 1 .. N

ASSUME ReserveSetupConstants ==
  /\ N \in Nat \ {0}
  /\ Params \in [Reserves -> ReserveParams]
  /\ TokenAddresses \subseteq Reserves
  /\ Deployer # Helper
  /\ MaxCrashes \in Nat

(* Reserves the market means to list, and to configure. *)
Listable == TokenAddresses

Configurable ==
  {r \in TokenAddresses : Params[r].baseLTVAsCollateral # LeaveUnconfigured}

(* The market's own parameters pass the configurator and leave a mark.     *)
ASSUME MarketParametersAccepted ==
  \A r \in Configurable :
    /\ CollateralAccepted(Params[r].baseLTVAsCollateral, Params[r].liquidationThreshold,
                          Params[r].liquidationBonus)
    /\ Params[r].liquidationThreshold # 0 \/ Params[r].reserveFactor # 0

VARIABLES
  poolAdmin,          \* chain: the provider's pool admin
  listed,             \* chain: reserves with an aToken
  config,             \* chain: their configuration
  funded,             \* chain: reserves that hold users' liquidity
  strategies,         \* chain: strategy contracts deployed, by name
  strategyOf,         \* chain: a listed reserve's strategy contract
  services,           \* chain: collateral manager and data provider registered
  pc,                 \* script: where it is
  admin,              \* script: the admin it read when it started
  next,               \* script: the entry of ReservesConfig it looks at
  batch,              \* script: reserves its scan found to work on
  strategyAddresses,  \* script: strategies deployed in this run
  crashes             \* how often it died

chain == <<poolAdmin, listed, config, funded, strategies, strategyOf, services>>
script == <<pc, admin, next, batch, strategyAddresses>>
vars == <<chain, script, crashes>>

Programs == {"idle", "scanInit", "init", "scanConfig", "takeAdmin", "configure",
             "giveBack", "manager", "dataProvider", "done", "failed"}

TypeOK ==
  /\ poolAdmin \in {Deployer, Helper}
  /\ listed \subseteq Reserves
  /\ config \in [Reserves -> ReserveConfiguration]
  /\ funded \subseteq listed
  /\ strategies \in Seq(StrategyNames)
  /\ strategyOf \in [Reserves -> 0 .. Len(strategies)]
  /\ services \subseteq {"collateralManager", "dataProvider"}
  /\ pc \in Programs
  /\ admin \in {Deployer, Helper}
  /\ next \in 1 .. N + 1
  /\ batch \subseteq Reserves
  /\ strategyAddresses \in [StrategyNames -> 0 .. Len(strategies)]
  /\ crashes \in 0 .. MaxCrashes

NoStrategies == [s \in StrategyNames |-> 0]

Init ==
  /\ poolAdmin = Deployer
  /\ listed = {}
  /\ config = [r \in Reserves |-> InitialConfiguration]
  /\ funded = {}
  /\ strategies = <<>>
  /\ strategyOf = [r \in Reserves |-> 0]
  /\ services = {}
  /\ pc = "idle"
  /\ admin = Deployer
  /\ next = 1
  /\ batch = {}
  /\ strategyAddresses = NoStrategies
  /\ crashes = 0

-----------------------------------------------------------------------------
(* The task starts, for the first time or again, and reads the admin it    *)
(* will hand the role back to.                                             *)
Start ==
  /\ pc \in {"idle", "done", "failed"}
  /\ pc' = "scanInit"
  /\ admin' = poolAdmin
  /\ next' = 1
  /\ batch' = {}
  /\ strategyAddresses' = NoStrategies
  /\ UNCHANGED <<chain, crashes>>

(* A seeded fault: the loop returns where it should continue. *)
SkipInitStops ==
  /\ pc = "scanInit" /\ next <= N
  /\ next \notin TokenAddresses \/ next \in listed
  /\ next' = N + 1
  /\ UNCHANGED <<chain, pc, admin, batch, strategyAddresses, crashes>>

(* initReservesByHelper, first loop: reserves without a token address and  *)
(* reserves that are already initialized are skipped.                      *)
SkipInit ==
  /\ pc = "scanInit" /\ next <= N
  /\ next \notin TokenAddresses \/ next \in listed
  /\ next' = next + 1
  /\ UNCHANGED <<chain, pc, admin, batch, strategyAddresses, crashes>>

StrategyKnown(name) == strategyAddresses[name] # 0

(* The others are queued, each with its strategy, which the run deploys    *)
(* when it meets the name for the first time.                              *)
QueueInit ==
  /\ pc = "scanInit" /\ next <= N
  /\ next \in TokenAddresses \ listed
  /\ LET name == Params[next].strategy
     IN  IF StrategyKnown(name)
         THEN UNCHANGED <<strategies, strategyAddresses>>
         ELSE /\ strategies' = Append(strategies, name)
              /\ strategyAddresses' = [strategyAddresses EXCEPT ![name] = Len(strategies) + 1]
  /\ batch' = batch \cup {next}
  /\ next' = next + 1
  /\ UNCHANGED <<poolAdmin, listed, config, funded, strategyOf, services, pc, admin, crashes>>

ScannedInit ==
  /\ pc = "scanInit" /\ next = N + 1
  /\ pc' = "init"
  /\ UNCHANGED <<chain, admin, next, batch, strategyAddresses, crashes>>

(* The chunks are worked off in the order of the configuration. *)
FirstOfBatch(r) == r \in batch /\ \A other \in batch : r <= other

(* A seeded fault: the strategy deployed last, whatever its name. *)
StrategyForLatest(r) == Len(strategies)

StrategyFor(r) == strategyAddresses[Params[r].strategy]

(* configurator.batchInitReserve reverts unless the caller is pool admin   *)
(* and the reserve is new, which is so whenever the script comes here      *)
(* (EventuallyListed): the failing run is left out.                        *)
InitReserve(r) ==
  /\ pc = "init" /\ FirstOfBatch(r)
  /\ poolAdmin = Deployer /\ r \notin listed
  /\ listed' = listed \cup {r}
  /\ strategyOf' = [strategyOf EXCEPT ![r] = StrategyFor(r)]
  /\ batch' = batch \ {r}
  /\ UNCHANGED <<poolAdmin, config, funded, strategies, services, pc, admin, next,
                 strategyAddresses, crashes>>

Initialized ==
  /\ pc = "init" /\ batch = {}
  /\ pc' = "scanConfig"
  /\ next' = 1
  /\ UNCHANGED <<chain, admin, batch, strategyAddresses, crashes>>

-----------------------------------------------------------------------------
(* A seeded fault: nothing is taken as configured already. *)
AlreadyEnabledNever(r) == FALSE

(* usageAsCollateralEnabled of AaveProtocolDataProvider. *)
AlreadyEnabled(r) == config[r].liquidationThreshold > 0

(* A seeded fault: again a return for a continue. *)
SkipConfigStops ==
  /\ pc = "scanConfig" /\ next <= N
  /\ next \notin Configurable \/ AlreadyEnabled(next)
  /\ next' = N + 1
  /\ UNCHANGED <<chain, pc, admin, batch, strategyAddresses, crashes>>

SkipConfig ==
  /\ pc = "scanConfig" /\ next <= N
  /\ next \notin Configurable \/ AlreadyEnabled(next)
  /\ next' = next + 1
  /\ UNCHANGED <<chain, pc, admin, batch, strategyAddresses, crashes>>

QueueConfig ==
  /\ pc = "scanConfig" /\ next <= N
  /\ next \in Configurable /\ ~AlreadyEnabled(next)
  /\ batch' = batch \cup {next}
  /\ next' = next + 1
  /\ UNCHANGED <<chain, pc, admin, strategyAddresses, crashes>>

(* Both changes of the admin are skipped when there is nothing to do. *)
ScannedConfig ==
  /\ pc = "scanConfig" /\ next = N + 1
  /\ pc' = IF batch = {} THEN "manager" ELSE "takeAdmin"
  /\ UNCHANGED <<chain, admin, next, batch, strategyAddresses, crashes>>

TakeAdmin ==
  /\ pc = "takeAdmin"
  /\ poolAdmin' = Helper
  /\ pc' = "configure"
  /\ UNCHANGED <<listed, config, funded, strategies, strategyOf, services, admin, next,
                 batch, strategyAddresses, crashes>>

(* A seeded fault: no reserve may hold liquidity. *)
ConfigurationAcceptedIfEmpty(r) ==
  /\ CollateralAccepted(Params[r].baseLTVAsCollateral, Params[r].liquidationThreshold,
                        Params[r].liquidationBonus)
  /\ r \notin funded

(* What configureReserveAsCollateral requires; _checkNoLiquidity only when *)
(* the reserve is not to be collateral.                                    *)
ConfigurationAccepted(r) ==
  /\ CollateralAccepted(Params[r].baseLTVAsCollateral, Params[r].liquidationThreshold,
                        Params[r].liquidationBonus)
  /\ Params[r].liquidationThreshold = 0 => r \notin funded

(* A seeded fault: every chunk is the whole batch. *)
ConfigureReserveWhole(r) ==
  /\ pc = "configure" /\ FirstOfBatch(r)
  /\ poolAdmin = Helper /\ \A b \in batch : ConfigurationAccepted(b)
  /\ config' = [b \in Reserves |->
                  IF b \in batch THEN ConfigureWith(config[b], Params[b]) ELSE config[b]]
  /\ batch' = batch \ {r}
  /\ UNCHANGED <<poolAdmin, listed, funded, strategies, strategyOf, services, pc, admin,
                 next, strategyAddresses, crashes>>

(* helper.configureReserves of one reserve is one transaction.             *)
ConfigureReserve(r) ==
  /\ pc = "configure" /\ FirstOfBatch(r)
  /\ poolAdmin = Helper /\ ConfigurationAccepted(r)
  /\ config' = [config EXCEPT ![r] = ConfigureWith(@, Params[r])]
  /\ batch' = batch \ {r}
  /\ UNCHANGED <<poolAdmin, listed, funded, strategies, strategyOf, services, pc, admin,
                 next, strategyAddresses, crashes>>

ConfigureReserveReverts(r) ==
  /\ pc = "configure" /\ FirstOfBatch(r)
  /\ poolAdmin # Helper \/ ~ConfigurationAccepted(r)
  /\ pc' = "failed"
  /\ UNCHANGED <<chain, admin, next, batch, strategyAddresses, crashes>>

Configured ==
  /\ pc = "configure" /\ batch = {}
  /\ pc' = "giveBack"
  /\ UNCHANGED <<chain, admin, next, batch, strategyAddresses, crashes>>

GiveAdminBack ==
  /\ pc = "giveBack"
  /\ poolAdmin' = admin
  /\ pc' = "manager"
  /\ UNCHANGED <<listed, config, funded, strategies, strategyOf, services, admin, next,
                 batch, strategyAddresses, crashes>>

(* The two registrations that end the task; its wallet balance provider is *)
(* a contract nobody in the protocol knows of.                             *)
SetCollateralManager ==
  /\ pc = "manager"
  /\ services' = services \cup {"collateralManager"}
  /\ pc' = "dataProvider"
  /\ UNCHANGED <<poolAdmin, listed, config, funded, strategies, strategyOf, admin, next,
                 batch, strategyAddresses, crashes>>

RegisterDataProvider ==
  /\ pc = "dataProvider"
  /\ services' = services \cup {"dataProvider"}
  /\ pc' = "done"
  /\ UNCHANGED <<poolAdmin, listed, config, funded, strategies, strategyOf, admin, next,
                 batch, strategyAddresses, crashes>>

-----------------------------------------------------------------------------
(* The process dies: its variables are gone, the chain is not. *)
Crash ==
  /\ pc \notin {"idle", "done", "failed"}
  /\ crashes < MaxCrashes
  /\ crashes' = crashes + 1
  /\ pc' = "idle"
  /\ admin' = Deployer
  /\ next' = 1
  /\ batch' = {}
  /\ strategyAddresses' = NoStrategies
  /\ UNCHANGED chain

(* Users find the market live: a reserve is active as soon as it is listed. *)
Deposit(r) ==
  /\ r \in listed \ funded
  /\ funded' = funded \cup {r}
  /\ UNCHANGED <<poolAdmin, listed, config, strategies, strategyOf, services, script, crashes>>

WithdrawAll(r) ==
  /\ r \in funded
  /\ funded' = funded \ {r}
  /\ UNCHANGED <<poolAdmin, listed, config, strategies, strategyOf, services, script, crashes>>

(* The pool admin stops borrowing of a reserve while no script runs, as    *)
(* scripts/disableBorrowing.ts does.                                       *)
DisableBorrowing(r) ==
  /\ pc \in {"idle", "done", "failed"} /\ poolAdmin = Deployer
  /\ config[r].borrowingEnabled
  /\ config' = [config EXCEPT ![r].borrowingEnabled = FALSE]
  /\ UNCHANGED <<poolAdmin, listed, funded, strategies, strategyOf, services, script, crashes>>

Step ==
  \/ SkipInit \/ QueueInit \/ ScannedInit \/ Initialized
  \/ SkipConfig \/ QueueConfig \/ ScannedConfig \/ TakeAdmin
  \/ Configured \/ GiveAdminBack \/ SetCollateralManager \/ RegisterDataProvider
  \/ \E r \in Reserves :
       InitReserve(r) \/ ConfigureReserve(r) \/ ConfigureReserveReverts(r)

Others == \E r \in Reserves : Deposit(r) \/ WithdrawAll(r) \/ DisableBorrowing(r)

Next == Start \/ Step \/ Crash \/ Others

(* A started script goes on; a script that died or failed is run again.    *)
Fairness == WF_vars(Step) /\ WF_vars(Start /\ pc \in {"idle", "failed"})

Spec == Init /\ [][Next]_vars

FairSpec == Spec /\ Fairness

-----------------------------------------------------------------------------
(* A contract of another reserve's curve would price its loans: whatever   *)
(* runs were cut short, a listed reserve uses a contract of its strategy.  *)
StrategiesMatch ==
  \A r \in listed : strategyOf[r] # 0 /\ strategies[strategyOf[r]] = Params[r].strategy

IsConfigured(r) == config[r].liquidationThreshold # 0 \/ config[r].reserveFactor # 0

(* Nothing is configured before it is listed, and while the helper is pool *)
(* admin nothing is left to list: the deployer could not list it.          *)
ConfiguredAreListed ==
  /\ \A r \in Reserves : IsConfigured(r) => r \in listed
  /\ poolAdmin = Helper => Listable \subseteq listed

(* A run fails only because users put money into a reserve that is not to  *)
(* be collateral before the script came to configure it.                   *)
FailsOnlyOnLiquidity ==
  [][pc # "failed" /\ pc' = "failed" =>
       \E r \in funded : Params[r].liquidationThreshold = 0]_vars

(* Running the task again does not undo what the admin did to a collateral *)
(* reserve: borrowing it disabled stays disabled.                          *)
DisabledStaysDisabled ==
  [][\A r \in Reserves :
       config[r].liquidationThreshold # 0 /\ ~config[r].borrowingEnabled =>
         config'[r] = config[r]]_vars

(* The market's reserves are listed once and then configured once.         *)

Stage ==
  [r \in Reserves |->
     IF r \notin listed THEN "unlisted"
     ELSE IF IsConfigured(r) THEN "configured" ELSE "listed"]

Lifecycle == INSTANCE ReserveLifecycle WITH stage <- Stage

ListedThenConfigured == Lifecycle!LifecycleSpec

(* Every reserve with a token ends up listed, whatever users do.           *)
EventuallyListed == <>[](Listable \subseteq listed)

(* If users leave the reserves that are not to be collateral alone, the    *)
(* whole market ends up configured as its configuration says, up to the    *)
(* borrowing the admin disables.                                           *)
EventuallyConfigured ==
  <>[](\A r \in funded : Params[r].liquidationThreshold # 0) =>
    <>[](/\ \A r \in Configurable :
              \E c \in BOOLEAN :
                config[r] = [ConfigureWith(InitialConfiguration, Params[r]) EXCEPT
                               !.borrowingEnabled = @ /\ c]
         /\ services = {"collateralManager", "dataProvider"})
=============================================================================
