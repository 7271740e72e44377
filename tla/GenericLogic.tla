---------------------------- MODULE GenericLogic ----------------------------
(***************************************************************************)
(* GenericLogic.sol: the value of a position over all the reserves, its    *)
(* health factor, and whether collateral may leave it.  R is the reserves, *)
(* P the oracle's prices (per whole token, in the base currency) and       *)
(* cfg a user's UserConfigurationMap: the assets used as collateral and    *)
(* the assets borrowed.  Every quotient rounds down, as Solidity's does,   *)
(* except the two in HealthFactor.                                         *)
(***************************************************************************)
EXTENDS ReserveLogic, Functions

CONSTANTS Assets,
          MAX_UINT   \* type(uint256).max: the health factor of who owes nothing

(* A pool has at most _maxNumberOfReserves of them. *)
ASSUME FinitelyManyAssets == IsFiniteSet(Assets)

UserConfiguration == [collateral : SUBSET Assets, borrowing : SUBSET Assets]

CollateralInBase(R, P, a, u, t) ==
  (P[a] * BalanceOf(R[a], u, t)) \div R[a].configuration.unit
DebtInBase(R, P, a, u, t) ==
  (P[a] * DebtOf(R[a], u, t)) \div R[a].configuration.unit

(* The assets that count: the flag is set and the reserve still has a      *)
(* liquidation threshold.                                                  *)
CountedCollateral(R, cfg) ==
  {a \in cfg.collateral : R[a].configuration.liquidationThreshold # 0}

AverageOf(total, weighted) == IF total > 0 THEN weighted \div total ELSE 0

UserAccountData(R, cfg, P, u, t) ==
  LET counted == CountedCollateral(R, cfg)
      value   == [a \in counted |-> CollateralInBase(R, P, a, u, t)]
      total   == SumFunction(value)
      byLtv   == [a \in counted |-> value[a] * R[a].configuration.ltv]
      byLT    == [a \in counted |-> value[a] * R[a].configuration.liquidationThreshold]
      debt    == [a \in cfg.borrowing |-> DebtInBase(R, P, a, u, t)]
  IN  [collateral |-> total,
       debt       |-> SumFunction(debt),
       ltv        |-> AverageOf(total, SumFunction(byLtv)),
       liquidationThreshold |-> AverageOf(total, SumFunction(byLT))]

HealthFactor(collateral, debt, liquidationThreshold) ==
  IF debt = 0
  THEN MAX_UINT
  ELSE WadDiv(PercentMul(collateral, liquidationThreshold), debt)

HealthFactorOf(R, cfg, P, u, t) ==
  LET data == UserAccountData(R, cfg, P, u, t)
  IN  HealthFactor(data.collateral, data.debt, data.liquidationThreshold)

(* A seeded fault: the health before the decrease is asked for. *)
BalanceDecreaseAllowedStale(R, cfg, P, a, u, amount, t) ==
  cfg.borrowing = {} \/ HealthFactorOf(R, cfg, P, u, t) >= WAD

(* False also where the Solidity reverts on a SafeMath subtraction: every  *)
(* caller requires the answer to be true.                                  *)
BalanceDecreaseAllowed(R, cfg, P, a, u, amount, t) ==
  LET threshold == R[a].configuration.liquidationThreshold
      data      == UserAccountData(R, cfg, P, u, t)
      decrease  == (P[a] * amount) \div R[a].configuration.unit
      left      == data.collateral - decrease
      weighted  == data.collateral * data.liquidationThreshold - decrease * threshold
  IN  \/ cfg.borrowing = {} \/ a \notin cfg.collateral
      \/ threshold = 0
      \/ data.debt = 0
      \/ /\ left > 0
         /\ weighted >= 0
         /\ HealthFactor(left, data.debt, weighted \div left) >= WAD
=============================================================================
