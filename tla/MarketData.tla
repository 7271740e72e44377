----------------------------- MODULE MarketData -----------------------------
(***************************************************************************)
(* The vocabulary of the market configurations under markets/.  Rates and  *)
(* percentages are in basis points; an amount of tokens is a whole number. *)
(* The stable side of a curve is left out, as in InterestRateStrategy.     *)
(***************************************************************************)
EXTENDS Integers, Sequences

(* IInterestRateStrategyParams.  Deployments are told apart by `name`.     *)
Curve(name, optimal, base, slope1, slope2) ==
  [name |-> name, optimal |-> optimal, base |-> base, slope1 |-> slope1, slope2 |-> slope2]

(* A baseLTVAsCollateral of '-1'. *)
LeaveUnconfigured == -1

(* IReserveParams. *)
Parameters(strategy, ltv, threshold, bonus, factor, borrowing, supplyCap, borrowCap) ==
  [strategy |-> strategy, baseLTVAsCollateral |-> ltv, liquidationThreshold |-> threshold,
   liquidationBonus |-> bonus, reserveFactor |-> factor, borrowingEnabled |-> borrowing,
   supplyCap |-> supplyCap, borrowCap |-> borrowCap]

Entry(symbol, params) == [symbol |-> symbol, params |-> params]

Symbols(entries) == {entries[i].symbol : i \in DOMAIN entries}

(* The cases of getParamPerNetwork; hardhat reads buidlerevm's parameters. *)
Networks ==
  {"main", "ropsten", "kovan", "coverage", "buidlerevm", "tenderly", "goerli",
   "matic", "mumbai", "xdai", "avalanche", "fuji", "hedera_testnet", "hedera_mainnet"}
=============================================================================
