--------------------------- MODULE AvalancheMarket --------------------------
(***************************************************************************)
(* The Avalanche market of markets/avalanche.                              *)
(***************************************************************************)
EXTENDS MarketData

(* rateStrategies.ts: name, optimal utilization, base rate, slopes. *)
rateStrategyVolatileOne == Curve("rateStrategyVolatileOne", 4500, 0, 700, 30000)
rateStrategyStableOne == Curve("rateStrategyStableOne", 8000, 0, 400, 7500)

(* reservesConfigs.ts: curve, ltv, liquidation threshold and bonus,        *)
(* reserve factor, borrowing, supply and borrow caps.                      *)
strategyWAVAX ==
  Parameters(rateStrategyVolatileOne, 5000, 6500, 11000, 1500, TRUE, 0, 0)

strategyWETH ==
  Parameters(rateStrategyVolatileOne, 8000, 8250, 10500, 1000, TRUE, 0, 0)

strategyWBTC ==
  Parameters(rateStrategyVolatileOne, 6000, 7500, 10500, 1000, TRUE, 0, 0)

strategyAAVE ==
  Parameters(rateStrategyVolatileOne, 4000, 6500, 11000, 2000, FALSE, 0, 0)

strategyDAI ==
  Parameters(rateStrategyStableOne, 7500, 8000, 10500, 1000, TRUE, 0, 0)

strategyUSDT ==
  Parameters(rateStrategyStableOne, 0, 0, 0, 1000, TRUE, 0, 0)

strategyUSDC ==
  Parameters(rateStrategyStableOne, 7500, 8000, 10500, 1000, TRUE, 0, 0)

(* index.ts: the reserves in the order they are listed. *)
ReservesConfig ==
  <<Entry("WETH", strategyWETH),
    Entry("DAI", strategyDAI),
    Entry("USDT", strategyUSDT),
    Entry("USDC", strategyUSDC),
    Entry("AAVE", strategyAAVE),
    Entry("WBTC", strategyWBTC),
    Entry("WAVAX", strategyWAVAX)>>

(* The symbols whose token address is set. *)
ReserveAssets ==
  [network \in Networks |->
     CASE network = "avalanche"
       -> {"WETH", "DAI", "USDT", "USDC", "AAVE", "WBTC", "WAVAX"}
     [] network = "fuji"
       -> {"WETH", "DAI", "USDT", "AAVE", "WBTC", "WAVAX"}
     [] OTHER -> {}]

(* commons.ts: the symbols with an entry, be it the zero address. *)
ChainlinkAggregator ==
  [network \in Networks |->
     CASE network = "avalanche"
       -> {"WETH", "DAI", "USDC", "USDT", "AAVE", "WBTC", "WAVAX"}
     [] network = "fuji"
       -> {"WETH", "USDT", "WBTC", "WAVAX", "USD"}
     [] OTHER -> {}]

(* The symbols with an initial market rate. *)
LendingRateOracleRatesCommon ==
  {"WETH", "DAI", "USDC", "USDT", "AAVE", "WBTC", "WAVAX"}

(* The networks for which commons.ts sets an address other than zero; for  *)
(* WETH and WrappedNativeToken, which are only asked to be truthy, any.    *)
PoolAdmin == {}
EmergencyAdmin == {}
ProviderRegistry == {"fuji"}
ProviderRegistryOwner == {"fuji"}
LendingPool == {"fuji"}
LendingPoolConfigurator == {}
LendingRateOracle == {"fuji"}
LendingPoolCollateralManager == {"fuji"}
WethGateway == {"fuji"}
AaveOracle == {"fuji"}
FallbackOracle == {}
WETH == {}
WrappedNativeToken == {"avalanche", "fuji"}
ReserveFactorTreasuryAddress == {"avalanche", "fuji"}
IncentivesController == {"avalanche", "fuji"}
OracleQuoteCurrency == "USD"

(* The market as the deployment reads it; `provided` is, for each role,    *)
(* the networks it has an address on.                                      *)
AvalancheConfig ==
  [reserves |-> ReservesConfig, assets |-> ReserveAssets, aggregators |-> ChainlinkAggregator,
   rates |-> LendingRateOracleRatesCommon, quote |-> OracleQuoteCurrency,
   provided |-> [PoolAdmin |-> PoolAdmin,
                 EmergencyAdmin |-> EmergencyAdmin,
                 ProviderRegistry |-> ProviderRegistry,
                 ProviderRegistryOwner |-> ProviderRegistryOwner,
                 LendingPool |-> LendingPool,
                 LendingPoolConfigurator |-> LendingPoolConfigurator,
                 LendingRateOracle |-> LendingRateOracle,
                 LendingPoolCollateralManager |-> LendingPoolCollateralManager,
                 WethGateway |-> WethGateway,
                 AaveOracle |-> AaveOracle,
                 FallbackOracle |-> FallbackOracle,
                 WETH |-> WETH,
                 WrappedNativeToken |-> WrappedNativeToken,
                 ReserveFactorTreasuryAddress |-> ReserveFactorTreasuryAddress,
                 IncentivesController |-> IncentivesController]]
=============================================================================
