--------------------------- MODULE DeploymentTasks ---------------------------
(***************************************************************************)
(* The deployment tasks as programs: every deployment helper, task and     *)
(* migration is the sequence of steps it takes that a death of the script  *)
(* can fall between.  MarketDeployment runs them.                          *)
(*                                                                         *)
(* A target is a market on a network with the way it is deployed:          *)
(* [market, network, migration, skipRegistry, ownsRegistry, ownsOracle];   *)
(* the last two say whether the deployer owns what is provided.            *)
(***************************************************************************)
EXTENDS Naturals, Sequences, SequencesExt

CONSTANT SupraFeeds  \* arguments deploySupraOracle hands to the constructor

ASSUME SupraFeedsAssumption == SupraFeeds \in Nat

Hedera    == INSTANCE HederaMarket
Aave      == INSTANCE AaveMarket
Amm       == INSTANCE AmmMarket
Avalanche == INSTANCE AvalancheMarket
Matic     == INSTANCE MaticMarket

Config ==
  [Hedera |-> Hedera!HederaConfig, Aave |-> Aave!AaveConfig, Amm |-> Amm!AmmConfig,
   Avalanche |-> Avalanche!AvalancheConfig, Matic |-> Matic!MaticConfig]

(* The first two signers and the addresses a configuration may provide are *)
(* on chain before any script runs.                                        *)
Accounts == <<"signer0", "signer1", "ProviderRegistry", "LendingPoolImpl",
              "LendingPoolConfiguratorImpl", "LendingRateOracle", "AaveOracle",
              "FallbackOracle", "LendingPoolCollateralManager", "WrappedNativeToken">>

Address(account) == CHOOSE i \in DOMAIN Accounts : Accounts[i] = account

Provided(t, role) == t.network \in Config[t.market].provided[role]

EmergencyAdminIndex(market) == IF market \in {"Aave", "Amm"} THEN 1 ELSE 0

(* The tokens of the target (with aave:dev, mocks), its reserves, and      *)
(* those configured as collateral.                                         *)
TokenContractIds == <<"USDC", "HBARX", "SAUCE", "XSAUCE", "KARATE", "WHBAR", "DOVU", "HST">>
TokenContractId == ToSet(TokenContractIds)

ReserveAssets(t) ==
  IF t.migration = "aave:dev" THEN TokenContractId ELSE Config[t.market].assets[t.network]

Listable(t) == Hedera!Symbols(Config[t.market].reserves) \cap ReserveAssets(t)

ConfiguredOf(t) ==
  {s \in Listable(t) :
     \E i \in DOMAIN Config[t.market].reserves :
       LET entry == Config[t.market].reserves[i]
       IN  entry.symbol = s /\ entry.params.baseLTVAsCollateral # Hedera!LeaveUnconfigured}

(* tasks/full/3_oracles.ts asks for sources of the reserves and of USD;    *)
(* getPairsTokenAggregator keeps those with an aggregator that are not the *)
(* quote currency.                                                         *)
QuoteCurrencies(t) == IF Config[t.market].quote = "USD" THEN {"USD"} ELSE {"ETH", "WETH"}

PairsTokenAggregator(t, tokens) ==
  (tokens \ QuoteCurrencies(t)) \cap Config[t.market].aggregators[t.network]

-----------------------------------------------------------------------------
(* Steps.  `var` is a local variable of the script, named after the        *)
(* contract it holds; `key` is an entry of deployed-contracts.json.  Grant *)
(* is transferOwnership, and authorizeLendingPool of a gateway.            *)
Mine(var, kind, uses) == <<[op |-> "mine", var |-> var, arg |-> kind, uses |-> uses]>>
Save(key, var)        == <<[op |-> "save", var |-> var, arg |-> key]>>
Load(var, key)        == <<[op |-> "load", var |-> var, arg |-> key]>>
Take(var, account)    == <<[op |-> "take", var |-> var, arg |-> Address(account)]>>
Read(var, slot)       == <<[op |-> "read", var |-> var, arg |-> slot]>>
Write(slot, var)      == <<[op |-> "write", var |-> var, arg |-> slot]>>
Upgrade(slot, var)    == <<[op |-> "upgrade", var |-> var, arg |-> slot]>>
Register              == <<[op |-> "register"]>>
SetPoolPause(val, by) == <<[op |-> "pause", var |-> Address(by), arg |-> val]>>
Grant(var, to)        == <<[op |-> "grant", var |-> var, arg |-> to]>>
SetOracleBorrowRates  == <<[op |-> "rates"]>>
SetAssetSources(syms) == <<[op |-> "sources", arg |-> syms]>>
BatchInitReserve      == <<[op |-> "list"]>>
ConfigureReserves     == <<[op |-> "configure"]>>
Throw                 == <<[op |-> "throw"]>>

Nothing == <<>>

(* withSaveAndVerify: the contract is mined, then entered under its id.    *)
Deployed(id, uses) == Mine(id, id, uses) \o Save(id, id)

provider == "LendingPoolAddressesProvider"
registry == "LendingPoolAddressesProviderRegistry"

deployLendingPoolAddressesProvider == Deployed(provider, {})
deployLendingPoolAddressesProviderRegistry == Deployed(registry, {})
deployReserveLogicLibrary == Deployed("ReserveLogic", {})
deployGenericLogic == Deployed("GenericLogic", {"ReserveLogic"})
deployValidationLogic == Deployed("ValidationLogic", {"ReserveLogic", "GenericLogic"})

deployAaveLibraries == deployReserveLogicLibrary \o deployGenericLogic \o deployValidationLogic

(* An implementation is entered twice: under its own id, and under the id  *)
(* of the proxy, which is overwritten once there is a proxy.               *)
deployLendingPool ==
  deployAaveLibraries
  \o Mine("LendingPoolImpl", "LendingPoolImpl", {"ValidationLogic", "ReserveLogic"})
  \o Save("LendingPoolImpl", "LendingPoolImpl") \o Save("LendingPool", "LendingPoolImpl")

deployLendingPoolConfigurator ==
  Mine("LendingPoolConfiguratorImpl", "LendingPoolConfiguratorImpl", {})
  \o Save("LendingPoolConfiguratorImpl", "LendingPoolConfiguratorImpl")
  \o Save("LendingPoolConfigurator", "LendingPoolConfiguratorImpl")

deployLendingPoolCollateralManager ==
  Mine("LendingPoolCollateralManager", "LendingPoolCollateralManager", {})
  \o Save("LendingPoolCollateralManagerImpl", "LendingPoolCollateralManager")
  \o Save("LendingPoolCollateralManager", "LendingPoolCollateralManager")

deployPriceOracle == Deployed("PriceOracle", {})
deployLendingRateOracle == Deployed("LendingRateOracle", {})
deployAaveOracle == Deployed("AaveOracle", {"PriceOracle"})
deployStableAndVariableTokensHelper ==
  Deployed("StableAndVariableTokensHelper", {"LendingPool", provider})
deployATokensAndRatesHelper ==
  Deployed("ATokensAndRatesHelper", {"LendingPool", provider, "LendingPoolConfigurator"})
deployAaveProtocolDataProvider == Deployed("AaveProtocolDataProvider", {provider})
deployWalletBalancerProvider == Deployed("WalletBalanceProvider", {})
deployWETHGateway == Deployed("WETHGateway", {"WrappedNativeToken"})
deployMockFlashLoanReceiver == Deployed("MockFlashLoanReceiver", {provider})
deployUiPoolDataProviderV2V3 == Deployed("UiPoolDataProvider", {})
deployUiIncentiveDataProviderV2V3 == Deployed("UiIncentiveDataProviderV2V3", {})

(* SupraOracle's constructor takes the Supra feed and three Chainlink      *)
(* feeds.  Only the Hedera market has a SupraPriceFeed: for the others the *)
(* arguments are undefined.  The oracle is entered as PriceOracle.         *)
SupraOracleFeeds == 4

deploySupraOracle(t) ==
  IF t.market = "Hedera" /\ SupraFeeds = SupraOracleFeeds THEN deployPriceOracle ELSE Throw

(* No market provides token implementations; all but UNI of the Aave       *)
(* market use AToken.                                                      *)
deployATokenImplementations(t) ==
  Deployed("AToken", {})
  \o (IF t.market = "Aave" THEN Deployed("DelegationAwareAToken", {}) ELSE Nothing)
  \o Deployed("StableDebtToken", {}) \o Deployed("VariableDebtToken", {})

getWrappedNativeTokenAddress(t) ==
  IF Provided(t, "WrappedNativeToken") THEN Take("WrappedNativeToken", "WrappedNativeToken")
  ELSE IF t.network \in {"main", "hedera_mainnet"} THEN Throw
  ELSE Mine("WrappedNativeToken", "WETHMocked", {}) \o Save("WETHMocked", "WrappedNativeToken")

getGenesisPoolAdmin == Take("PoolAdmin", "signer0")

getEmergencyAdmin(t) == IF EmergencyAdminIndex(t.market) = 1 THEN "signer1" ELSE "signer0"

getQuoteCurrency(t) ==
  IF Config[t.market].quote = "USD" \/ Provided(t, "WETH") THEN Nothing
  ELSE IF t.network \in {"main", "hedera_mainnet"} THEN Throw
  ELSE Mine("WETHMocked", "WETHMocked", {}) \o Save("WETHMocked", "WETHMocked")

getLendingPoolAddressesProvider == Load(provider, provider)

(* The rate oracle is handed to StableAndVariableTokensHelper, which sets  *)
(* the rates, and by it to the pool admin.                                 *)
setInitialMarketRatesInRatesOracleByHelper(rates, assets) ==
  Load("StableAndVariableTokensHelper", "StableAndVariableTokensHelper")
  \o IF rates \subseteq assets
     THEN Grant("LendingRateOracle", "StableAndVariableTokensHelper")
          \o SetOracleBorrowRates \o Grant("LendingRateOracle", "PoolAdmin")
     ELSE Throw

(* The pool admin is read before initReservesByHelper and handed back to   *)
(* by configureReservesByHelper.  The loops of the two are steps of their  *)
(* own (ListReserve, TakeAdmin, ConfigureReserve, GiveAdminBack).          *)
getPoolAdmin == Read("PoolAdmin", "PoolAdmin")

initReservesByHelper ==
  getLendingPoolAddressesProvider \o Read("LendingPool", "LendingPool")
  \o Load("AToken", "AToken") \o Load("StableDebtToken", "StableDebtToken")
  \o Load("VariableDebtToken", "VariableDebtToken")
  \o Load("LendingPoolConfigurator", "LendingPoolConfigurator") \o BatchInitReserve

configureReservesByHelper ==
  getLendingPoolAddressesProvider
  \o Load("ATokensAndRatesHelper", "ATokensAndRatesHelper") \o ConfigureReserves

-----------------------------------------------------------------------------
(* tasks/full *)
fullDeployAddressProviderRegistry(t) ==
  IF Provided(t, "ProviderRegistry") THEN Nothing
  ELSE deployLendingPoolAddressesProviderRegistry

addMarketToRegistry(t) ==
  (IF Provided(t, "ProviderRegistry")
   THEN IF Provided(t, "ProviderRegistryOwner") /\ t.ownsRegistry
        THEN Take(registry, "ProviderRegistry")
        ELSE Throw
   ELSE fullDeployAddressProviderRegistry(t) \o Load(registry, registry))
  \o Register

fullDeployAddressProvider(t) ==
  deployLendingPoolAddressesProvider
  \o (IF t.skipRegistry THEN Nothing ELSE addMarketToRegistry(t))
  \o getGenesisPoolAdmin \o Write("PoolAdmin", "PoolAdmin")
  \o Take("EmergencyAdmin", getEmergencyAdmin(t)) \o Write("EmergencyAdmin", "EmergencyAdmin")

lendingPoolImplementation(t) ==
  IF Provided(t, "LendingPool") THEN Take("LendingPoolImpl", "LendingPoolImpl")
  ELSE deployLendingPool

lendingPoolConfiguratorImplementation(t) ==
  IF Provided(t, "LendingPoolConfigurator")
  THEN Take("LendingPoolConfiguratorImpl", "LendingPoolConfiguratorImpl")
  ELSE deployLendingPoolConfigurator

(* Two seeded faults: insertContractAddressInDb is forgotten for the pool, *)
(* and for the configurator.                                               *)
poolProxyUnsaved ==
  Upgrade("LendingPool", "LendingPoolImpl") \o Read("LendingPool", "LendingPool")

poolProxy ==
  Upgrade("LendingPool", "LendingPoolImpl") \o Read("LendingPool", "LendingPool")
  \o Save("LendingPool", "LendingPool")

configuratorProxyUnsaved ==
  Upgrade("LendingPoolConfigurator", "LendingPoolConfiguratorImpl")
  \o Read("LendingPoolConfigurator", "LendingPoolConfigurator")

configuratorProxy ==
  Upgrade("LendingPoolConfigurator", "LendingPoolConfiguratorImpl")
  \o Read("LendingPoolConfigurator", "LendingPoolConfigurator")
  \o Save("LendingPoolConfigurator", "LendingPoolConfigurator")

fullDeployLendingPool(t) ==
  getLendingPoolAddressesProvider
  \o lendingPoolImplementation(t) \o poolProxy
  \o lendingPoolConfiguratorImplementation(t) \o configuratorProxy
  \o SetPoolPause(TRUE, getEmergencyAdmin(t))
  \o deployStableAndVariableTokensHelper \o deployATokensAndRatesHelper
  \o deployATokenImplementations(t)
  \o SetPoolPause(FALSE, getEmergencyAdmin(t))

(* setAssetSources is onlyOwner: of an oracle that is provided the         *)
(* deployer need not be the owner.  The constructor's own call of it sets  *)
(* what the call that follows sets again.                                  *)
setAssetSources(t, symbols) ==
  IF Provided(t, "AaveOracle") /\ ~t.ownsOracle THEN Throw ELSE SetAssetSources(symbols)

(* fallbackOracle stays undefined when the fallback is provided, and its   *)
(* address is read when AaveOracle is not.                                 *)
priceOracles(t) ==
  (IF Provided(t, "FallbackOracle") THEN Nothing ELSE deploySupraOracle(t))
  \o (IF Provided(t, "AaveOracle") THEN Take("AaveOracle", "AaveOracle")
      ELSE IF Provided(t, "FallbackOracle") THEN Throw
      ELSE getQuoteCurrency(t) \o deployAaveOracle)
  \o setAssetSources(t, PairsTokenAggregator(t, ReserveAssets(t) \cup {"USD"}))

(* getLendingRateOracles keeps the rates of the reserves. *)
lendingRateOracle(t) ==
  IF Provided(t, "LendingRateOracle") THEN Take("LendingRateOracle", "LendingRateOracle")
  ELSE deployLendingRateOracle
       \o setInitialMarketRatesInRatesOracleByHelper(Config[t.market].rates \cap ReserveAssets(t),
                                                     ReserveAssets(t))

fullDeployOracles(t) ==
  (IF ReserveAssets(t) = {} THEN Throw ELSE Nothing)
  \o getLendingPoolAddressesProvider \o getGenesisPoolAdmin
  \o priceOracles(t) \o lendingRateOracle(t)
  \o Write("PriceOracle", "AaveOracle") \o Write("LendingRateOracle", "LendingRateOracle")

fullDataProvider == getLendingPoolAddressesProvider \o deployAaveProtocolDataProvider

fullDeployWethGateway(t) == getWrappedNativeTokenAddress(t) \o deployWETHGateway

collateralManager(t) ==
  IF Provided(t, "LendingPoolCollateralManager")
  THEN Take("LendingPoolCollateralManager", "LendingPoolCollateralManager")
  ELSE deployLendingPoolCollateralManager

(* A seeded fault: nothing is entered at 0x01. *)
fullInitializeLendingPoolWithout01(t) ==
  getLendingPoolAddressesProvider
  \o Load("AaveProtocolDataProvider", "AaveProtocolDataProvider") \o getPoolAdmin
  \o initReservesByHelper \o configureReservesByHelper
  \o collateralManager(t)
  \o Write("LendingPoolCollateralManager", "LendingPoolCollateralManager")
  \o deployWalletBalancerProvider

(* The gateway is not authorized: that part of the task is commented out.  *)
fullInitializeLendingPool(t) ==
  getLendingPoolAddressesProvider
  \o Load("AaveProtocolDataProvider", "AaveProtocolDataProvider") \o getPoolAdmin
  \o initReservesByHelper \o configureReservesByHelper
  \o collateralManager(t)
  \o Write("LendingPoolCollateralManager", "LendingPoolCollateralManager")
  \o Load("AaveProtocolDataProvider", "AaveProtocolDataProvider")
  \o Write("0x01", "AaveProtocolDataProvider")
  \o deployWalletBalancerProvider

-----------------------------------------------------------------------------
(* tasks/dev: the Aave market with mock tokens.                            *)
MOCK_CHAINLINK_AGGREGATORS_PRICES ==
  {"KARATE", "WHBAR", "USDC", "XSAUCE", "DOVU", "HST", "PACK", "STEAM", "HBARX", "SAUCE",
   "USD"}

(* Three steps per token, token by token. *)
deployAllMockTokens ==
  LET mock(symbol) == Mine("MintableERC20", "MintableERC20", {})
                      \o Save("MintableERC20", "MintableERC20") \o Save(symbol, "MintableERC20")
  IN  [n \in 1 .. 3 * Len(TokenContractIds) |->
         mock(TokenContractIds[(n + 2) \div 3])[1 + ((n - 1) % 3)]]

devDeployAddressProvider ==
  deployLendingPoolAddressesProvider
  \o getGenesisPoolAdmin \o Write("PoolAdmin", "PoolAdmin") \o Write("EmergencyAdmin", "PoolAdmin")
  \o deployLendingPoolAddressesProviderRegistry \o Register

devDeployLendingPool(t) ==
  getLendingPoolAddressesProvider \o deployLendingPool \o poolProxy
  \o deployLendingPoolConfigurator \o configuratorProxy
  \o deployStableAndVariableTokensHelper \o deployATokensAndRatesHelper
  \o deployATokenImplementations(t)

(* Every price needs its token's address. *)
setInitialAssetPricesInOracle(prices, assets) == IF prices \subseteq assets THEN Nothing ELSE Throw

devDeployOracles(t) ==
  getLendingPoolAddressesProvider \o Read("PoolAdmin", "PoolAdmin")
  \o deployPriceOracle
  \o setInitialAssetPricesInOracle(MOCK_CHAINLINK_AGGREGATORS_PRICES, TokenContractId \cup {"USD"})
  \o getQuoteCurrency(t) \o deployAaveOracle \o SetAssetSources(TokenContractId \ QuoteCurrencies(t))
  \o Write("PriceOracle", "PriceOracle")
  \o deployLendingRateOracle \o Write("LendingRateOracle", "LendingRateOracle")
  \o setInitialMarketRatesInRatesOracleByHelper(Config[t.market].rates, TokenContractId)
  \o Write("PriceOracle", "AaveOracle") \o Write("LendingRateOracle", "LendingRateOracle")

devInitializeLendingPool ==
  getLendingPoolAddressesProvider \o deployAaveProtocolDataProvider
  \o Save("AaveProtocolDataProvider", "AaveProtocolDataProvider") \o getPoolAdmin
  \o initReservesByHelper \o configureReservesByHelper
  \o deployLendingPoolCollateralManager
  \o Write("LendingPoolCollateralManager", "LendingPoolCollateralManager")
  \o deployMockFlashLoanReceiver \o Save("MockFlashLoanReceiver", "MockFlashLoanReceiver")
  \o deployWalletBalancerProvider
  \o Read("LendingPool", "LendingPool") \o Load("WETHGateway", "WETHGateway")
  \o Grant("WETHGateway", "LendingPool")
  \o Load("LendingPoolConfigurator", "LendingPoolConfigurator")
  \o SetPoolPause(FALSE, "signer0")

-----------------------------------------------------------------------------
(* tasks/migrations: the tasks of a migration, in their order.             *)
aaveDev(t) ==
  <<deployAllMockTokens, devDeployAddressProvider, devDeployLendingPool(t), devDeployOracles(t),
    fullDeployWethGateway(t), devInitializeLendingPool>>

(* A seeded fault: the reserves are listed before the oracles are set.     *)
marketTasksReordered(t) ==
  <<fullDeployAddressProvider(t), fullDeployLendingPool(t), fullDataProvider,
    fullInitializeLendingPool(t), fullDeployOracles(t), fullDeployWethGateway(t)>>

marketTasks(t) ==
  <<fullDeployAddressProvider(t), fullDeployLendingPool(t), fullDeployOracles(t),
    fullDataProvider, fullDeployWethGateway(t), fullInitializeLendingPool(t)>>

ammMainnet(t) == marketTasks(t)

sidechainMainnet(t) == <<fullDeployAddressProviderRegistry(t)>> \o marketTasks(t)

avalancheMainnet(t) == <<fullDeployAddressProviderRegistry(t)>> \o marketTasks(t)

aaveMainnet(t) ==
  <<fullDeployAddressProviderRegistry(t)>> \o marketTasks(t)
  \o <<deployUiPoolDataProviderV2V3, deployUiIncentiveDataProviderV2V3,
       Load("LendingPoolConfigurator", "LendingPoolConfigurator")
       \o SetPoolPause(FALSE, getEmergencyAdmin(t))>>

Migration(t) ==
  CASE t.migration = "aave:dev"          -> aaveDev(t)
    [] t.migration = "aave:mainnet"      -> aaveMainnet(t)
    [] t.migration = "amm:mainnet"       -> ammMainnet(t)
    [] t.migration = "avalanche:mainnet" -> avalancheMainnet(t)
    [] t.migration = "sidechain:mainnet" -> sidechainMainnet(t)
=============================================================================
