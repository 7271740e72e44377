----------------------------- MODULE MaticMarket ----------------------------
(***************************************************************************)
(* The Polygon market of markets/matic.                                    *)
(***************************************************************************)
EXTENDS MarketData

(* rateStrategies.ts: name, optimal utilization, base rate, slopes. *)
rateStrategyStableOne == Curve("rateStrategyStableOne", 8000, 0, 400, 10000)
rateStrategyStableTwo == Curve("rateStrategyStableTwo", 8000, 0, 400, 7500)
rateStrategyStableThree == Curve("rateStrategyStableThree", 9000, 0, 400, 6000)
rateStrategyWETH == Curve("rateStrategyWETH", 6500, 0, 800, 10000)
rateStrategyAAVE == Curve("rateStrategyAAVE", 4500, 0, 0, 0)
rateStrategyVolatileOne == Curve("rateStrategyVolatileOne", 4500, 0, 700, 30000)
rateStrategyVolatileTwo == Curve("rateStrategyVolatileTwo", 6500, 0, 800, 30000)
rateStrategyVolatileThree == Curve("rateStrategyVolatileThree", 6500, 0, 800, 30000)

(* reservesConfigs.ts: curve, ltv, liquidation threshold and bonus,        *)
(* reserve factor, borrowing, supply and borrow caps.                      *)
strategyDAI ==
  Parameters(rateStrategyStableTwo, 7500, 8000, 10500, 1000, TRUE, 0, 0)

strategyUSDC ==
  Parameters(rateStrategyStableThree, 8000, 8500, 10500, 1000, TRUE, 0, 0)

strategyUSDT ==
  Parameters(rateStrategyStableThree, 0, 0, 0, 1000, TRUE, 0, 0)

strategyWETH ==
  Parameters(rateStrategyWETH, 8000, 8250, 10500, 1000, TRUE, 0, 0)

strategyWBTC ==
  Parameters(rateStrategyVolatileTwo, 7000, 7500, 11000, 2000, TRUE, 0, 0)

strategyMATIC ==
  Parameters(rateStrategyVolatileOne, 5000, 6500, 11000, 2000, TRUE, 0, 0)

strategyAAVE ==
  Parameters(rateStrategyAAVE, 5000, 6500, 11000, 0, FALSE, 0, 0)

(* index.ts: the reserves in the order they are listed. *)
ReservesConfig ==
  <<Entry("DAI", strategyDAI),
    Entry("USDC", strategyUSDC),
    Entry("USDT", strategyUSDT),
    Entry("WBTC", strategyWBTC),
    Entry("WETH", strategyWETH),
    Entry("WMATIC", strategyMATIC),
    Entry("AAVE", strategyAAVE)>>

(* The symbols whose token address is set. *)
ReserveAssets ==
  [network \in Networks |->
     CASE network = "matic"
       -> {"DAI", "USDC", "USDT", "WBTC", "WETH", "WMATIC", "AAVE"}
     [] network = "mumbai"
       -> {"DAI", "USDC", "USDT", "WBTC", "WETH", "WMATIC"}
     [] OTHER -> {}]

(* commons.ts: the symbols with an entry, be it the zero address. *)
ChainlinkAggregator ==
  [network \in Networks |->
     CASE network = "matic"
       -> {"AAVE", "DAI", "USDC", "USDT", "WBTC", "WMATIC", "USD"}
     [] network = "mumbai"
       -> {"DAI", "USDC", "USDT", "WBTC", "WMATIC", "USD"}
     [] OTHER -> {}]

(* The symbols with an initial market rate. *)
LendingRateOracleRatesCommon ==
  {"WETH", "DAI", "USDC", "USDT", "WBTC", "WMATIC", "AAVE"}

(* The networks for which commons.ts sets an address other than zero; for  *)
(* WETH and WrappedNativeToken, which are only asked to be truthy, any.    *)
PoolAdmin == {}
EmergencyAdmin == {}
ProviderRegistry == {"mumbai", "matic"}
ProviderRegistryOwner == {"mumbai", "matic"}
LendingPool == {}
LendingPoolConfigurator == {}
LendingRateOracle == {"mumbai", "matic"}
LendingPoolCollateralManager == {"mumbai", "matic"}
WethGateway == {}
AaveOracle == {}
FallbackOracle == {}
WETH == {"mumbai", "matic"}
WrappedNativeToken == {"mumbai", "matic"}
ReserveFactorTreasuryAddress == {"matic"}
IncentivesController == {"mumbai", "matic"}
OracleQuoteCurrency == "ETH"

(* The market as the deployment reads it; `provided` is, for each role,    *)
(* the networks it has an address on.                                      *)
MaticConfig ==
  [reserves |-> ReservesConfig, assets |-> ReserveAssets, aggregators |-> ChainlinkAggregator,
   rates |-> LendingRateOracleRatesCommon, quote |-> OracleQuoteCurrency,
   provided |-> [PoolAdmin |-> PoolAdmin,
                 EmergencyAdmin |-> EmergencyAdmin,
                 ProviderRegistry |-> ProviderRegistry,
                 ProviderRegistryOwner |-> ProviderRegistryOwner,
                 LendingPool |-> LendingPool,
                 LendingPoolConfigurator |-> LendingPoolConfigurator,
                 LendingRateOracle |-> LendingRateOracle,
                 LendingPoolCollateralManager |-> LendingPoolCollateralManager,
                 WethGateway |-> WethGateway,
                 AaveOracle |-> AaveOracle,
                 FallbackOracle |-> FallbackOracle,
                 WETH |-> WETH,
                 WrappedNativeToken |-> WrappedNativeToken,
                 ReserveFactorTreasuryAddress |-> ReserveFactorTreasuryAddress,
                 IncentivesController |-> IncentivesController]]
=============================================================================
