-------------------------- MODULE MCReserveSetup ---------------------------
(***************************************************************************)
(* A market of five entries cut from markets/aave and markets/amm: two     *)
(* collateral reserves and one that is not, sharing strategies, one to be  *)
(* left unconfigured and one without a token address.                      *)
(***************************************************************************)
EXTENDS ReserveSetup

Entry(strategy, ltv, threshold, bonus, factor) ==
  [strategy |-> strategy, baseLTVAsCollateral |-> ltv, liquidationThreshold |-> threshold,
   liquidationBonus |-> bonus, reserveFactor |-> factor, borrowingEnabled |-> TRUE]

MCStrategyNames == {"StableTwo", "StableThree"}

MCParams ==
  <<Entry("StableTwo", 7500, 8000, 10500, 1000),
    Entry("StableThree", 0, 0, 0, 1000),
    Entry("StableThree", 8000, 8500, 10500, 1000),
    Entry("StableTwo", LeaveUnconfigured, 0, 0, 1000),
    Entry("StableTwo", 7500, 8000, 10500, 1000)>>
=============================================================================
