------------------------- MODULE MCMarketDeployment -------------------------
(***************************************************************************)
(* The migrations of package.json:35-70 that the runs look at.             *)
(***************************************************************************)
EXTENDS MarketDeployment

Target(market, network, migration, skipRegistry, ownsOracle) ==
  [market |-> market, network |-> network, migration |-> migration,
   skipRegistry |-> skipRegistry, ownsRegistry |-> TRUE, ownsOracle |-> ownsOracle]

HederaTargets ==
  {Target("Hedera", "hedera_testnet", "sidechain:mainnet", skip, TRUE) : skip \in BOOLEAN}

(* With and without add-market-to-registry; with the provided AaveOracle   *)
(* the deployer's own and not (amm/commons.ts:221).  The rest of a market  *)
(* is given.                                                               *)
DeployableTargets ==
  HederaTargets
    \cup {Target("Amm", "kovan", "amm:mainnet", FALSE, owns) : owns \in BOOLEAN}
=============================================================================
