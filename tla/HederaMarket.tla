---------------------------- MODULE HederaMarket ----------------------------
(***************************************************************************)
(* The Hedera market of markets/hedera: the one Bonzo deploys.             *)
(***************************************************************************)
EXTENDS MarketData

(* rateStrategies.ts: name, optimal utilization, base rate, slopes. *)
rateStrategyUSDC == Curve("rateStrategyUSDC", 5200, 0, 1200, 20000)
rateStrategyUSDCNew == Curve("rateStrategyUSDCNew", 8500, 200, 1300, 5000)
rateStrategyWETH == Curve("rateStrategyWETH", 8000, 0, 330, 8500)
rateStrategyHBAR == Curve("rateStrategyHBAR", 5500, 0, 600, 15000)
rateStrategyHBARX == Curve("rateStrategyHBARX", 5300, 0, 600, 15000)
rateStrategyXSAUCE == Curve("rateStrategySAUCE", 5400, 0, 700, 15000)
rateStrategySAUCE == Curve("rateStrategySAUCE", 5400, 0, 900, 15000)
rateStrategyKARATE == Curve("rateStrategySAUCE", 7000, 0, 900, 10000)
rateStrategyDOVU == Curve("rateStrategySAUCE", 4700, 0, 900, 25000)
rateStrategyPACK == Curve("rateStrategySAUCE", 5200, 0, 900, 25000)
rateStrategyHST == Curve("rateStrategySAUCE", 5400, 0, 900, 25000)
rateStrategySTEAM == Curve("rateStrategySAUCE", 5400, 0, 900, 25000)
rateStrategyVolatileOne == Curve("rateStrategyVolatileOne", 5400, 0, 900, 25000)
rateStrategyVolatileTwo == Curve("rateStrategyVolatileTwo", 4500, 0, 800, 25000)
rateStrategyVolatileThree == Curve("rateStrategyVolatileThree", 4500, 0, 800, 25000)

(* reservesConfigs.ts: curve, ltv, liquidation threshold and bonus,        *)
(* reserve factor, borrowing, supply and borrow caps.                      *)
strategyXSAUCE ==
  Parameters(rateStrategySAUCE, 4000, 6759, 10395, 1094, TRUE, 0, 11656189)

strategyKARATE ==
  Parameters(rateStrategyVolatileOne, 2000, 6500, 10346, 1960, FALSE, 0, 159294201)

strategyWHBAR ==
  Parameters(rateStrategyHBAR, 6272, 6798, 10198, 1168, TRUE, 0, 9714624)

strategyWETH ==
  Parameters(rateStrategyWETH, 7000, 7500, 10700, 2000, TRUE, 0, 0)

strategyHBARX ==
  Parameters(rateStrategyHBARX, 6298, 6828, 10118, 1014, TRUE, 0, 14770600)

strategySAUCE ==
  Parameters(rateStrategySAUCE, 4000, 6804, 10395, 1460, TRUE, 0, 2077258)

(* A seeded fault: a threshold the configurator accepts, without margin. *)
strategyUSDCTight ==
  Parameters(rateStrategyUSDCNew, 8045, 9300, 10740, 1350, TRUE, 0, 823749)

strategyUSDC ==
  Parameters(rateStrategyUSDCNew, 8045, 8350, 10740, 1350, TRUE, 0, 823749)

strategyDOVU ==
  Parameters(rateStrategyVolatileOne, 2000, 5900, 10666, 1725, TRUE, 0, 99458344)

strategyBONZO ==
  Parameters(rateStrategyVolatileOne, 4000, 5900, 10666, 1725, TRUE, 0, 0)

strategyGRELF ==
  Parameters(rateStrategyVolatileOne, 2000, 5700, 10666, 1725, TRUE, 0, 0)

strategyKBL ==
  Parameters(rateStrategyVolatileOne, 1000, 5700, 10666, 1725, TRUE, 0, 0)

strategyXPACK ==
  Parameters(rateStrategyVolatileOne, 3000, 4350, 10666, 1725, TRUE, 0, 0)

strategyHST ==
  Parameters(rateStrategyVolatileOne, 1000, 5200, 10617, 1522, TRUE, 50000000, 12098299)

strategyPACK ==
  Parameters(rateStrategyVolatileOne, 1000, 5700, 10691, 1297, TRUE, 0, 1001122)

strategySTEAM ==
  Parameters(rateStrategyVolatileTwo, 1000, 5700, 10814, 1388, TRUE, 0, 5419281)

(* index.ts: the reserves in the order they are listed. *)
ReservesConfig ==
  <<Entry("XSAUCE", strategyXSAUCE),
    Entry("USDC", strategyUSDC),
    Entry("KARATE", strategyKARATE),
    Entry("HBARX", strategyHBARX),
    Entry("SAUCE", strategySAUCE),
    Entry("WHBAR", strategyWHBAR),
    Entry("DOVU", strategyDOVU),
    Entry("HST", strategyHST),
    Entry("PACK", strategyPACK),
    Entry("STEAM", strategySTEAM)>>

(* The symbols whose token address is set. *)
ReserveAssets ==
  [network \in Networks |->
     CASE network = "hedera_testnet"
       -> {"USDC", "HBARX", "SAUCE", "XSAUCE", "KARATE", "WHBAR"}
     [] network = "hedera_mainnet"
       -> {"USDC", "HBARX", "SAUCE", "XSAUCE", "KARATE", "WHBAR", "DOVU", "HST", "PACK",
           "STEAM"}
     [] OTHER -> {}]

(* commons.ts: the symbols with an entry, be it the zero address. *)
ChainlinkAggregator ==
  [network \in Networks |->
     CASE network = "hedera_testnet" \/ network = "hedera_mainnet"
       -> {"DAI", "USDC", "USDT", "WBTC", "USD"}
     [] OTHER -> {}]

(* The symbols with an initial market rate. *)
LendingRateOracleRatesCommon ==
  {"WETH", "DAI", "USDC", "USDT", "WBTC", "Whedera_mainnet", "AAVE"}

(* The networks for which commons.ts sets an address other than zero; for  *)
(* WETH and WrappedNativeToken, which are only asked to be truthy, any.    *)
PoolAdmin == {}
EmergencyAdmin == {}
ProviderRegistry == {}
ProviderRegistryOwner == {}
LendingPool == {}
LendingPoolConfigurator == {}
LendingRateOracle == {}
LendingPoolCollateralManager == {}
WethGateway == {}
AaveOracle == {}
FallbackOracle == {}
WETH == {"hedera_testnet", "hedera_mainnet"}
WrappedNativeToken == {"hedera_testnet", "hedera_mainnet"}
ReserveFactorTreasuryAddress == {"hedera_testnet", "hedera_mainnet"}
IncentivesController == {"hedera_testnet", "hedera_mainnet"}
OracleQuoteCurrency == "HBAR"

(* The market as the deployment reads it; `provided` is, for each role,    *)
(* the networks it has an address on.                                      *)
HederaConfig ==
  [reserves |-> ReservesConfig, assets |-> ReserveAssets, aggregators |-> ChainlinkAggregator,
   rates |-> LendingRateOracleRatesCommon, quote |-> OracleQuoteCurrency,
   provided |-> [PoolAdmin |-> PoolAdmin,
                 EmergencyAdmin |-> EmergencyAdmin,
                 ProviderRegistry |-> ProviderRegistry,
                 ProviderRegistryOwner |-> ProviderRegistryOwner,
                 LendingPool |-> LendingPool,
                 LendingPoolConfigurator |-> LendingPoolConfigurator,
                 LendingRateOracle |-> LendingRateOracle,
                 LendingPoolCollateralManager |-> LendingPoolCollateralManager,
                 WethGateway |-> WethGateway,
                 AaveOracle |-> AaveOracle,
                 FallbackOracle |-> FallbackOracle,
                 WETH |-> WETH,
                 WrappedNativeToken |-> WrappedNativeToken,
                 ReserveFactorTreasuryAddress |-> ReserveFactorTreasuryAddress,
                 IncentivesController |-> IncentivesController]]
=============================================================================
