------------------------ MODULE InterestRateStrategy ------------------------
(***************************************************************************)
(* DefaultReserveInterestRateStrategy.sol.  A strategy is a record of the  *)
(* contract's immutables.  The stable side is left out: no call of the     *)
(* pool mints stable debt, so totalStableDebt is 0 wherever the pool asks  *)
(* for rates, and the stable rate it stores is read by nobody.             *)
(***************************************************************************)
EXTENDS ProtocolMath

(* OPTIMAL_UTILIZATION_RATE strictly inside (0, RAY): both quotients below *)
(* are then defined.                                                       *)
Strategy == [optimal : 1 .. RAY - 1, base : Nat, slope1 : Nat, slope2 : Nat]

UtilizationRate(availableLiquidity, totalDebt) ==
  IF totalDebt = 0 THEN 0 ELSE RayDiv(totalDebt, availableLiquidity + totalDebt)

(* A seeded fault: beyond the optimum the slope below it is forgotten.     *)
VariableBorrowRateUnlevelled(s, utilization) ==
  IF utilization > s.optimal
  THEN s.base + RayMul(s.slope2, RayDiv(utilization - s.optimal, RAY - s.optimal))
  ELSE s.base + RayDiv(RayMul(utilization, s.slope1), s.optimal)

(* A kinked curve: slope1 up to the optimal utilization, slope2 beyond.    *)
VariableBorrowRate(s, utilization) ==
  IF utilization > s.optimal
  THEN s.base + s.slope1
         + RayMul(s.slope2, RayDiv(utilization - s.optimal, RAY - s.optimal))
  ELSE s.base + RayDiv(RayMul(utilization, s.slope1), s.optimal)

(* The debt-weighted average of the borrow rates; only variable debt here. *)
OverallBorrowRate(totalDebt, rate) ==
  IF totalDebt = 0
  THEN 0
  ELSE RayDiv(RayMul(WadToRay(totalDebt), rate), WadToRay(totalDebt))

(* A seeded fault: depositors are paid the borrow rate on all liquidity.   *)
LiquidityRateUnspread(s, availableLiquidity, totalDebt, reserveFactor) ==
  PercentMul(OverallBorrowRate(totalDebt,
               VariableBorrowRate(s, UtilizationRate(availableLiquidity, totalDebt))),
             PERCENTAGE_FACTOR - reserveFactor)

(* What the borrowers pay, spread over all the liquidity, less the part    *)
(* the treasury keeps.  reserveFactor > PERCENTAGE_FACTOR makes the        *)
(* subtraction revert: UpdateInterestRates is guarded by it.               *)
LiquidityRate(s, availableLiquidity, totalDebt, reserveFactor) ==
  LET utilization == UtilizationRate(availableLiquidity, totalDebt)
  IN  PercentMul(RayMul(OverallBorrowRate(totalDebt, VariableBorrowRate(s, utilization)),
                        utilization),
                 PERCENTAGE_FACTOR - reserveFactor)
=============================================================================
