----------------------------- MODULE AaveMarket -----------------------------
(***************************************************************************)
(* The Aave market of markets/aave.                                        *)
(***************************************************************************)
EXTENDS MarketData

(* rateStrategies.ts: name, optimal utilization, base rate, slopes. *)
rateStrategyStableOne == Curve("rateStrategyStableOne", 8000, 0, 400, 10000)
rateStrategyStableTwo == Curve("rateStrategyStableTwo", 8000, 0, 400, 7500)
rateStrategyStableThree == Curve("rateStrategyStableThree", 9000, 0, 400, 6000)
rateStrategyWETH == Curve("rateStrategyWETH", 6500, 0, 800, 10000)
rateStrategyAAVE == Curve("rateStrategyAAVE", 4500, 0, 0, 0)
rateStrategyVolatileOne == Curve("rateStrategyVolatileOne", 4500, 0, 700, 30000)
rateStrategyVolatileTwo == Curve("rateStrategyVolatileTwo", 6500, 0, 800, 30000)
rateStrategyVolatileThree == Curve("rateStrategyVolatileThree", 6500, 0, 800, 30000)
rateStrategyVolatileFour == Curve("rateStrategyVolatileFour", 4500, 0, 700, 30000)

(* reservesConfigs.ts: curve, ltv, liquidation threshold and bonus,        *)
(* reserve factor, borrowing, supply and borrow caps.                      *)
strategyBUSD ==
  Parameters(rateStrategyStableOne, 0, 0, 0, 1000, TRUE, 0, 0)

strategyDAI ==
  Parameters(rateStrategyStableTwo, 7500, 8000, 10500, 1000, TRUE, 0, 0)

strategySUSD ==
  Parameters(rateStrategyStableOne, 0, 0, 0, 2000, TRUE, 0, 0)

strategyTUSD ==
  Parameters(rateStrategyStableTwo, 7500, 8000, 10500, 1000, TRUE, 0, 0)

strategyUSDC ==
  Parameters(rateStrategyStableThree, 8000, 8500, 10500, 1000, TRUE, 0, 0)

strategyUSDT ==
  Parameters(rateStrategyStableThree, 0, 0, 0, 1000, TRUE, 0, 0)

strategyAAVE ==
  Parameters(rateStrategyAAVE, 5000, 6500, 11000, 0, FALSE, 0, 0)

strategyBAT ==
  Parameters(rateStrategyVolatileOne, 7000, 7500, 11000, 2000, TRUE, 0, 0)

strategyENJ ==
  Parameters(rateStrategyVolatileOne, 5500, 6000, 11000, 2000, TRUE, 0, 0)

strategyWETH ==
  Parameters(rateStrategyWETH, 8000, 8250, 10500, 1000, TRUE, 0, 0)

strategyKNC ==
  Parameters(rateStrategyVolatileTwo, 6000, 6500, 11000, 2000, TRUE, 0, 0)

strategyLINK ==
  Parameters(rateStrategyVolatileOne, 7000, 7500, 11000, 2000, TRUE, 0, 0)

strategyMANA ==
  Parameters(rateStrategyVolatileOne, 6000, 6500, 11000, 3500, TRUE, 0, 0)

strategyMKR ==
  Parameters(rateStrategyVolatileOne, 6000, 6500, 11000, 2000, TRUE, 0, 0)

strategyREN ==
  Parameters(rateStrategyVolatileOne, 5500, 6000, 11000, 2000, TRUE, 0, 0)

strategySNX ==
  Parameters(rateStrategyVolatileThree, 1500, 4000, 11000, 3500, TRUE, 0, 0)

strategyUNI ==
  Parameters(rateStrategyVolatileThree, 6000, 6500, 11000, 2000, FALSE, 0, 0)

strategyWBTC ==
  Parameters(rateStrategyVolatileTwo, 7000, 7500, 11000, 2000, TRUE, 0, 0)

strategyYFI ==
  Parameters(rateStrategyVolatileOne, 4000, 5500, 11500, 2000, TRUE, 0, 0)

strategyZRX ==
  Parameters(rateStrategyVolatileOne, 6000, 6500, 11000, 2000, TRUE, 0, 0)

strategyXSUSHI ==
  Parameters(rateStrategyVolatileFour, 2500, 4500, 11500, 3500, TRUE, 0, 0)

(* index.ts: the reserves in the order they are listed. *)
ReservesConfig ==
  <<Entry("AAVE", strategyAAVE),
    Entry("BAT", strategyBAT),
    Entry("BUSD", strategyBUSD),
    Entry("DAI", strategyDAI),
    Entry("ENJ", strategyENJ),
    Entry("KNC", strategyKNC),
    Entry("LINK", strategyLINK),
    Entry("MANA", strategyMANA),
    Entry("MKR", strategyMKR),
    Entry("REN", strategyREN),
    Entry("SNX", strategySNX),
    Entry("SUSD", strategySUSD),
    Entry("TUSD", strategyTUSD),
    Entry("UNI", strategyUNI),
    Entry("USDC", strategyUSDC),
    Entry("USDT", strategyUSDT),
    Entry("WBTC", strategyWBTC),
    Entry("WETH", strategyWETH),
    Entry("YFI", strategyYFI),
    Entry("ZRX", strategyZRX),
    Entry("xSUSHI", strategyXSUSHI)>>

(* The symbols whose token address is set. *)
ReserveAssets ==
  [network \in Networks |->
     CASE network = "kovan"
       -> {"AAVE", "BAT", "BUSD", "DAI", "ENJ", "KNC", "LINK", "MANA", "MKR", "REN",
           "SNX", "SUSD", "TUSD", "UNI", "USDC", "USDT", "WBTC", "WETH", "YFI", "ZRX"}
     [] network = "ropsten"
       -> {"BAT", "BUSD", "DAI", "ENJ", "KNC", "LINK", "MANA", "MKR", "REN", "SNX",
           "SUSD", "TUSD", "UNI", "USDC", "USDT", "WBTC", "WETH", "YFI", "ZRX"}
     [] network = "main" \/ network = "tenderly"
       -> {"AAVE", "BAT", "BUSD", "DAI", "ENJ", "KNC", "LINK", "MANA", "MKR", "REN",
           "SNX", "SUSD", "TUSD", "UNI", "USDC", "USDT", "WBTC", "WETH", "YFI", "ZRX",
           "xSUSHI"}
     [] OTHER -> {}]

(* commons.ts: the symbols with an entry, be it the zero address. *)
ChainlinkAggregator ==
  [network \in Networks |->
     CASE network = "kovan" \/ network = "ropsten"
       -> {"AAVE", "BAT", "BUSD", "DAI", "ENJ", "KNC", "LINK", "MANA", "MKR", "REN",
           "SNX", "SUSD", "TUSD", "UNI", "USDC", "USDT", "WBTC", "YFI", "ZRX", "USD"}
     [] network = "main" \/ network = "tenderly"
       -> {"AAVE", "BAT", "BUSD", "DAI", "ENJ", "KNC", "LINK", "MANA", "MKR", "REN",
           "SNX", "SUSD", "TUSD", "UNI", "USDC", "USDT", "WBTC", "YFI", "ZRX", "USD",
           "xSUSHI"}
     [] OTHER -> {}]

(* The symbols with an initial market rate. *)
LendingRateOracleRatesCommon ==
  {"WETH", "DAI", "TUSD", "USDC", "SUSD", "USDT", "BAT", "AAVE", "LINK", "KNC", "MKR",
   "MANA", "WBTC", "ZRX", "SNX", "YFI", "REN", "UNI", "ENJ", "BUSD"}

(* The networks for which commons.ts sets an address other than zero; for  *)
(* WETH and WrappedNativeToken, which are only asked to be truthy, any.    *)
PoolAdmin == {}
EmergencyAdmin == {}
ProviderRegistry == {"kovan", "main", "tenderly"}
ProviderRegistryOwner == {"kovan", "main", "tenderly"}
LendingPool == {}
LendingPoolConfigurator == {}
LendingRateOracle == {"ropsten", "tenderly"}
LendingPoolCollateralManager == {"kovan", "main", "tenderly"}
WethGateway == {}
AaveOracle == {"tenderly"}
FallbackOracle == {"kovan", "ropsten"}
WETH == {"kovan", "ropsten", "main", "tenderly"}
WrappedNativeToken == {"kovan", "ropsten", "main", "tenderly"}
ReserveFactorTreasuryAddress == {"coverage", "hardhat", "buidlerevm", "kovan",
                                 "ropsten", "main", "tenderly", "goerli",
                                 "hedera_testnet"}

IncentivesController == {}
OracleQuoteCurrency == "ETH"

(* The market as the deployment reads it; `provided` is, for each role,    *)
(* the networks it has an address on.                                      *)
AaveConfig ==
  [reserves |-> ReservesConfig, assets |-> ReserveAssets, aggregators |-> ChainlinkAggregator,
   rates |-> LendingRateOracleRatesCommon, quote |-> OracleQuoteCurrency,
   provided |-> [PoolAdmin |-> PoolAdmin,
                 EmergencyAdmin |-> EmergencyAdmin,
                 ProviderRegistry |-> ProviderRegistry,
                 ProviderRegistryOwner |-> ProviderRegistryOwner,
                 LendingPool |-> LendingPool,
                 LendingPoolConfigurator |-> LendingPoolConfigurator,
                 LendingRateOracle |-> LendingRateOracle,
                 LendingPoolCollateralManager |-> LendingPoolCollateralManager,
                 WethGateway |-> WethGateway,
                 AaveOracle |-> AaveOracle,
                 FallbackOracle |-> FallbackOracle,
                 WETH |-> WETH,
                 WrappedNativeToken |-> WrappedNativeToken,
                 ReserveFactorTreasuryAddress |-> ReserveFactorTreasuryAddress,
                 IncentivesController |-> IncentivesController]]
=============================================================================
