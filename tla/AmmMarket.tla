------------------------------ MODULE AmmMarket -----------------------------
(***************************************************************************)
(* The AMM market of markets/amm.                                          *)
(***************************************************************************)
EXTENDS MarketData

(* rateStrategies.ts: name, optimal utilization, base rate, slopes. *)
rateStrategyAmmBase == Curve("rateStrategyAmmBase", 4500, 300, 1000, 30000)
rateStrategyBaseOne == Curve("rateStrategyBaseOne", 6500, 0, 800, 10000)
rateStrategyStable == Curve("rateStrategyStable", 8000, 0, 400, 7500)

(* reservesConfigs.ts: curve, ltv, liquidation threshold and bonus,        *)
(* reserve factor, borrowing, supply and borrow caps.                      *)
strategyWETH ==
  Parameters(rateStrategyBaseOne, 8000, 8250, 10500, 1000, TRUE, 0, 0)

strategyWBTC ==
  Parameters(rateStrategyBaseOne, 7000, 7500, 11000, 2000, TRUE, 0, 0)

strategyDAI ==
  Parameters(rateStrategyStable, 7500, 8000, 10500, 1000, TRUE, 0, 0)

strategyUSDC ==
  Parameters(rateStrategyStable, 8000, 8500, 10500, 1000, TRUE, 0, 0)

strategyUSDT ==
  Parameters(rateStrategyStable, LeaveUnconfigured, 8500, 10500, 1000, TRUE, 0, 0)

strategyDAIWETH ==
  Parameters(rateStrategyAmmBase, 6000, 7000, 11500, 1000, TRUE, 0, 0)

strategyWBTCWETH ==
  Parameters(rateStrategyAmmBase, 6000, 7000, 11500, 1500, TRUE, 0, 0)

strategyAAVEWETH ==
  Parameters(rateStrategyAmmBase, 6000, 7000, 11500, 500, TRUE, 0, 0)

strategyBATWETH ==
  Parameters(rateStrategyAmmBase, 6000, 7000, 11500, 1500, TRUE, 0, 0)

strategyDAIUSDC ==
  Parameters(rateStrategyAmmBase, 6000, 7000, 11500, 1000, TRUE, 0, 0)

strategyCRVWETH ==
  Parameters(rateStrategyAmmBase, 5000, 6000, 11500, 1500, TRUE, 0, 0)

strategyLINKWETH ==
  Parameters(rateStrategyAmmBase, 6000, 7000, 11500, 1500, TRUE, 0, 0)

strategyMKRWETH ==
  Parameters(rateStrategyAmmBase, 6000, 7000, 11500, 1500, TRUE, 0, 0)

strategyRENWETH ==
  Parameters(rateStrategyAmmBase, 6000, 7000, 11500, 1500, TRUE, 0, 0)

strategySNXWETH ==
  Parameters(rateStrategyAmmBase, 4000, 6000, 11500, 2000, TRUE, 0, 0)

strategyUNIWETH ==
  Parameters(rateStrategyAmmBase, 6000, 7000, 11500, 1500, TRUE, 0, 0)

strategyUSDCWETH ==
  Parameters(rateStrategyAmmBase, 6000, 7000, 11500, 1000, TRUE, 0, 0)

strategyWBTCUSDC ==
  Parameters(rateStrategyAmmBase, 6000, 7000, 11500, 1500, TRUE, 0, 0)

strategyYFIWETH ==
  Parameters(rateStrategyAmmBase, 5000, 6000, 11500, 1500, TRUE, 0, 0)

strategyBALWETH ==
  Parameters(rateStrategyAmmBase, 6000, 7000, 11500, 1500, TRUE, 0, 0)

(* index.ts: the reserves in the order they are listed. *)
ReservesConfig ==
  <<Entry("WETH", strategyWETH),
    Entry("DAI", strategyDAI),
    Entry("USDC", strategyUSDC),
    Entry("USDT", strategyUSDT),
    Entry("WBTC", strategyWBTC),
    Entry("UniDAIWETH", strategyDAIWETH),
    Entry("UniWBTCWETH", strategyWBTCWETH),
    Entry("UniAAVEWETH", strategyAAVEWETH),
    Entry("UniBATWETH", strategyBATWETH),
    Entry("UniDAIUSDC", strategyDAIUSDC),
    Entry("UniCRVWETH", strategyCRVWETH),
    Entry("UniLINKWETH", strategyLINKWETH),
    Entry("UniMKRWETH", strategyMKRWETH),
    Entry("UniRENWETH", strategyRENWETH),
    Entry("UniSNXWETH", strategySNXWETH),
    Entry("UniUNIWETH", strategyUNIWETH),
    Entry("UniUSDCWETH", strategyUSDCWETH),
    Entry("UniWBTCUSDC", strategyWBTCUSDC),
    Entry("UniYFIWETH", strategyYFIWETH),
    Entry("BptWBTCWETH", strategyWBTCWETH),
    Entry("BptBALWETH", strategyBALWETH)>>

(* The symbols whose token address is set. *)
ReserveAssets ==
  [network \in Networks |->
     CASE network = "kovan" \/ network = "main" \/ network = "tenderly"
       -> {"DAI", "USDC", "USDT", "WBTC", "WETH", "UniDAIWETH", "UniWBTCWETH",
           "UniAAVEWETH", "UniBATWETH", "UniDAIUSDC", "UniCRVWETH", "UniLINKWETH",
           "UniMKRWETH", "UniRENWETH", "UniSNXWETH", "UniUNIWETH", "UniUSDCWETH",
           "UniWBTCUSDC", "UniYFIWETH", "BptWBTCWETH", "BptBALWETH"}
     [] OTHER -> {}]

(* commons.ts: the symbols with an entry, be it the zero address. *)
ChainlinkAggregator ==
  [network \in Networks |->
     CASE network = "kovan" \/ network = "main" \/ network = "tenderly"
       -> {"USDT", "WBTC", "USDC", "DAI", "UniDAIWETH", "UniWBTCWETH", "UniAAVEWETH",
           "UniBATWETH", "UniDAIUSDC", "UniCRVWETH", "UniLINKWETH", "UniMKRWETH",
           "UniRENWETH", "UniSNXWETH", "UniUNIWETH", "UniUSDCWETH", "UniWBTCUSDC",
           "UniYFIWETH", "BptWBTCWETH", "BptBALWETH", "USD"}
     [] OTHER -> {}]

(* The symbols with an initial market rate. *)
LendingRateOracleRatesCommon ==
  {"WETH", "DAI", "USDC", "USDT", "WBTC", "UniDAIWETH", "UniWBTCWETH", "UniAAVEWETH",
   "UniBATWETH", "UniDAIUSDC", "UniCRVWETH", "UniLINKWETH", "UniMKRWETH", "UniRENWETH",
   "UniSNXWETH", "UniUNIWETH", "UniUSDCWETH", "UniWBTCUSDC", "UniYFIWETH", "BptWBTCWETH",
   "BptBALWETH"}

(* The networks for which commons.ts sets an address other than zero; for  *)
(* WETH and WrappedNativeToken, which are only asked to be truthy, any.    *)
PoolAdmin == {}
EmergencyAdmin == {}
ProviderRegistry == {"kovan", "main", "tenderly"}
ProviderRegistryOwner == {"kovan", "main", "tenderly"}
LendingPool == {"kovan"}
LendingPoolConfigurator == {"kovan"}
LendingRateOracle == {"kovan", "ropsten", "tenderly"}
LendingPoolCollateralManager == {"kovan", "main", "tenderly"}
WethGateway == {"kovan"}
AaveOracle == {"kovan", "tenderly"}
FallbackOracle == {"kovan", "ropsten"}
WETH == {"kovan", "ropsten", "main", "tenderly"}
WrappedNativeToken == {"kovan", "ropsten", "main", "tenderly"}
ReserveFactorTreasuryAddress == {"coverage", "hardhat", "buidlerevm", "kovan",
                                 "ropsten", "main", "tenderly", "goerli"}

IncentivesController == {}
OracleQuoteCurrency == "ETH"

(* The market as the deployment reads it; `provided` is, for each role,    *)
(* the networks it has an address on.                                      *)
AmmConfig ==
  [reserves |-> ReservesConfig, assets |-> ReserveAssets, aggregators |-> ChainlinkAggregator,
   rates |-> LendingRateOracleRatesCommon, quote |-> OracleQuoteCurrency,
   provided |-> [PoolAdmin |-> PoolAdmin,
                 EmergencyAdmin |-> EmergencyAdmin,
                 ProviderRegistry |-> ProviderRegistry,
                 ProviderRegistryOwner |-> ProviderRegistryOwner,
                 LendingPool |-> LendingPool,
                 LendingPoolConfigurator |-> LendingPoolConfigurator,
                 LendingRateOracle |-> LendingRateOracle,
                 LendingPoolCollateralManager |-> LendingPoolCollateralManager,
                 WethGateway |-> WethGateway,
                 AaveOracle |-> AaveOracle,
                 FallbackOracle |-> FallbackOracle,
                 WETH |-> WETH,
                 WrappedNativeToken |-> WrappedNativeToken,
                 ReserveFactorTreasuryAddress |-> ReserveFactorTreasuryAddress,
                 IncentivesController |-> IncentivesController]]
=============================================================================
