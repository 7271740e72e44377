------------------------- MODULE ReserveParameters --------------------------
(***************************************************************************)
(* What a market's configuration says of one reserve (IReserveParams), and *)
(* when LendingPoolConfigurator accepts it.  Amounts in basis points.      *)
(***************************************************************************)
EXTENDS Integers

CONSTANT StrategyNames  \* names of interest rate strategies

(* '-1': a reserve to list and not to configure. *)
LeaveUnconfigured == -1

ReserveParams ==
  [strategy : StrategyNames,
   baseLTVAsCollateral : Nat \cup {LeaveUnconfigured},
   liquidationThreshold : Nat, liquidationBonus : Nat,
   reserveFactor : Nat, borrowingEnabled : BOOLEAN]

(* A reserve's configuration in the pool, as far as setup decides it.      *)
ReserveConfiguration ==
  [ltv : Nat, liquidationThreshold : Nat, liquidationBonus : Nat,
   reserveFactor : Nat, borrowingEnabled : BOOLEAN]

(* initReserve leaves everything but decimals and the active flag at zero. *)
InitialConfiguration ==
  [ltv |-> 0, liquidationThreshold |-> 0, liquidationBonus |-> 0,
   reserveFactor |-> 0, borrowingEnabled |-> FALSE]

(* PercentageMath.percentMul, rounded half up. *)
PercentOf(value, percentage) == (value * percentage + 5000) \div 10000

(* The validation of configureReserveAsCollateral, but for the liquidity.  *)
CollateralAccepted(ltv, threshold, bonus) ==
  /\ ltv <= threshold
  /\ IF threshold # 0
     THEN bonus > 10000 /\ PercentOf(threshold, bonus) <= 10000
     ELSE bonus = 0

(* ATokensAndRatesHelper.configureReserves on one reserve: the collateral  *)
(* parameters, borrowing if the market enables it (it never disables it),  *)
(* and the reserve factor.                                                 *)
ConfigureWith(c, p) ==
  [ltv |-> p.baseLTVAsCollateral,
   liquidationThreshold |-> p.liquidationThreshold,
   liquidationBonus |-> p.liquidationBonus,
   reserveFactor |-> p.reserveFactor,
   borrowingEnabled |-> c.borrowingEnabled \/ p.borrowingEnabled]
=============================================================================
