---------------------------- MODULE Calculations ----------------------------
(***************************************************************************)
(* The reference the scenario tests hold the contracts against:            *)
(* test-suites/test-aave/helpers/utils/calculations.ts over math.ts, with  *)
(* the BigNumber configuration of scenario.spec.ts (no decimals, round     *)
(* down).  It is written apart from the contracts, down to rayMul, so that *)
(* the two can be compared.  A ReserveData or UserData is a record of what *)
(* helpers.ts reads; wallets and the stable borrow rate are left out.      *)
(***************************************************************************)
EXTENDS ProtocolMath

(* math.ts *)
rayMul(a, b)     == (RAY \div 2 + a * b) \div RAY
rayDiv(a, b)     == (b \div 2 + a * RAY) \div b
wadToRay(a)      == a * WAD_RAY_RATIO
percentMul(a, b) == (PERCENTAGE_FACTOR \div 2 + a * b) \div PERCENTAGE_FACTOR

calcLinearInterest(rate, currentTimestamp, lastUpdateTimestamp) ==
  (rate * (currentTimestamp - lastUpdateTimestamp)) \div SECONDS_PER_YEAR + RAY

calcCompoundedInterest(rate, currentTimestamp, lastUpdateTimestamp) ==
  LET elapsed        == currentTimestamp - lastUpdateTimestamp
      expMinusOne    == elapsed - 1
      expMinusTwo    == IF elapsed > 2 THEN elapsed - 2 ELSE 0
      ratePerSecond  == rate \div SECONDS_PER_YEAR
      basePowerTwo   == rayMul(ratePerSecond, ratePerSecond)
      basePowerThree == rayMul(basePowerTwo, ratePerSecond)
  IN  IF elapsed = 0 THEN RAY
      ELSE RAY + ratePerSecond * elapsed
               + (elapsed * expMinusOne * basePowerTwo) \div 2
               + (elapsed * expMinusOne * expMinusTwo * basePowerThree) \div 6

calcExpectedReserveNormalizedIncome(r, currentTimestamp) ==
  IF r.liquidityRate = 0 THEN r.liquidityIndex
  ELSE rayMul(calcLinearInterest(r.liquidityRate, currentTimestamp, r.lastUpdateTimestamp),
              r.liquidityIndex)

calcExpectedReserveNormalizedDebt(rate, index, lastUpdateTimestamp, currentTimestamp) ==
  IF rate = 0 THEN index
  ELSE rayMul(calcCompoundedInterest(rate, currentTimestamp, lastUpdateTimestamp), index)

calcExpectedLiquidityIndex(r, timestamp) ==
  IF r.utilizationRate = 0 THEN r.liquidityIndex
  ELSE rayMul(calcLinearInterest(r.liquidityRate, timestamp, r.lastUpdateTimestamp),
              r.liquidityIndex)

calcExpectedVariableBorrowIndex(r, timestamp) ==
  IF r.totalVariableDebt = 0 THEN r.variableBorrowIndex
  ELSE rayMul(calcCompoundedInterest(r.variableBorrowRate, timestamp, r.lastUpdateTimestamp),
              r.variableBorrowIndex)

calcExpectedScaledATokenBalance(u, index, amountAdded, amountTaken) ==
  u.scaledATokenBalance + rayDiv(amountAdded, index) - rayDiv(amountTaken, index)

calcExpectedATokenBalance(r, u, currentTimestamp) ==
  rayMul(u.scaledATokenBalance, calcExpectedReserveNormalizedIncome(r, currentTimestamp))

calcExpectedVariableDebtTokenBalance(r, u, currentTimestamp) ==
  rayMul(u.scaledVariableDebt,
         calcExpectedReserveNormalizedDebt(r.variableBorrowRate, r.variableBorrowIndex,
                                           r.lastUpdateTimestamp, currentTimestamp))

calcExpectedTotalVariableDebt(r, index) == rayMul(r.scaledVariableDebt, index)

calcExpectedStableDebtTokenBalance(principal, rate, lastUpdated, currentTimestamp) ==
  IF rate = 0 \/ currentTimestamp = lastUpdated \/ lastUpdated = 0 THEN principal
  ELSE rayMul(principal, calcCompoundedInterest(rate, currentTimestamp, lastUpdated))

calcExpectedTotalStableDebt(principal, averageRate, lastUpdateTimestamp, currentTimestamp) ==
  rayMul(calcCompoundedInterest(averageRate, currentTimestamp, lastUpdateTimestamp), principal)

(* Amounts are negative when debt is repaid: the quotient truncates.       *)
truncatedDiv(a, b) == IF a < 0 THEN -((-a) \div b) ELSE a \div b

calcExpectedAverageStableBorrowRate(avgRateBefore, totalDebtBefore, amountChanged, rate) ==
  LET total == totalDebtBefore + amountChanged
  IN  IF total = 0 THEN 0
      ELSE truncatedDiv(avgRateBefore * totalDebtBefore + rate * amountChanged, total)

calcExpectedUserStableRate(balanceBefore, rateBefore, amount, rateNew) ==
  (balanceBefore * rateBefore + amount * rateNew) \div (balanceBefore + amount)

-----------------------------------------------------------------------------
calcExpectedUtilizationRate(totalStableDebt, totalVariableDebt, totalLiquidity) ==
  IF totalStableDebt = 0 /\ totalVariableDebt = 0 THEN 0
  ELSE rayDiv(totalStableDebt + totalVariableDebt, totalLiquidity)

calcExpectedOverallBorrowRate(stableDebt, variableDebt, variableRate, averageStableRate) ==
  IF stableDebt + variableDebt = 0 THEN 0
  ELSE rayDiv(rayMul(wadToRay(variableDebt), variableRate)
                + rayMul(wadToRay(stableDebt), averageStableRate),
              wadToRay(stableDebt + variableDebt))

(* The reserve's entry of reservesParams comes as strategy s and factor f. *)
calcExpectedInterestRates(s, f, utilization, stableDebt, variableDebt, averageStableRate) ==
  LET variable == IF utilization > s.optimal
                  THEN s.base + s.slope1
                       + rayMul(s.slope2, rayDiv(utilization - s.optimal, RAY - s.optimal))
                  ELSE s.base + rayMul(rayDiv(utilization, s.optimal), s.slope1)
      overall  == calcExpectedOverallBorrowRate(stableDebt, variableDebt, variable,
                                                averageStableRate)
  IN  [variableBorrowRate |-> variable,
       liquidityRate |-> percentMul(rayMul(overall, utilization), PERCENTAGE_FACTOR - f)]

(* What every calcExpectedReserveDataAfter... ends with: the rates of what *)
(* it has found for the debts and the liquidity.                           *)
withRates(d, s, f) ==
  LET utilization == calcExpectedUtilizationRate(d.totalStableDebt, d.totalVariableDebt,
                                                 d.totalLiquidity)
      rates == calcExpectedInterestRates(s, f, utilization, d.totalStableDebt,
                                         d.totalVariableDebt, d.averageStableBorrowRate)
  IN  [d EXCEPT !.utilizationRate = utilization,
                !.variableBorrowRate = rates.variableBorrowRate,
                !.liquidityRate = rates.liquidityRate]

(* ... and begins with: both indexes moved to the time of the transaction. *)
withIndexes(r, txTimestamp) ==
  [r EXCEPT !.liquidityIndex = calcExpectedLiquidityIndex(r, txTimestamp),
            !.variableBorrowIndex = calcExpectedVariableBorrowIndex(r, txTimestamp)]

stableDebtUntil(r, t) ==
  calcExpectedTotalStableDebt(r.principalStableDebt, r.averageStableBorrowRate,
                              r.totalStableDebtLastUpdated, t)

-----------------------------------------------------------------------------
(* Reserve data.  A deposit adds its amount to the liquidity of the view   *)
(* before, without the interest since.                                     *)
calcExpectedReserveDataAfterDeposit(s, f, amount, r, txTimestamp) ==
  LET n == withIndexes(r, txTimestamp)
  IN  withRates([n EXCEPT
        !.totalLiquidity = @ + amount, !.availableLiquidity = @ + amount,
        !.totalStableDebt = stableDebtUntil(r, txTimestamp),
        !.totalVariableDebt = calcExpectedTotalVariableDebt(r, n.variableBorrowIndex)], s, f)

calcExpectedReserveDataAfterWithdraw(s, f, amount, r, u, txTimestamp, maxAmount) ==
  LET n         == withIndexes(r, txTimestamp)
      withdrawn == IF amount = maxAmount THEN calcExpectedATokenBalance(r, u, txTimestamp)
                   ELSE amount
      stable    == stableDebtUntil(r, txTimestamp)
      variable  == rayMul(r.scaledVariableDebt, n.variableBorrowIndex)
  IN  withRates([n EXCEPT
        !.availableLiquidity = @ - withdrawn,
        !.totalStableDebt = stable, !.totalVariableDebt = variable,
        !.totalLiquidity = r.availableLiquidity - withdrawn + variable + stable], s, f)

(* A borrow sets the rates for the debt at the transaction, and then lets  *)
(* the debts grow until the view after, which timeTravel may put off.      *)
grownTo(d, currentTimestamp) ==
  LET variable == rayMul(d.scaledVariableDebt,
                         calcExpectedReserveNormalizedDebt(d.variableBorrowRate,
                           d.variableBorrowIndex, d.lastUpdateTimestamp, currentTimestamp))
      total    == d.availableLiquidity + d.totalStableDebt + variable
  IN  [d EXCEPT !.totalVariableDebt = variable, !.totalLiquidity = total,
                !.utilizationRate =
                   calcExpectedUtilizationRate(d.totalStableDebt, variable, total)]

calcExpectedReserveDataAfterBorrow(s, f, amount, mode, r, txTimestamp, currentTimestamp) ==
  LET n      == [withIndexes(r, txTimestamp) EXCEPT
                   !.availableLiquidity = @ - amount, !.lastUpdateTimestamp = txTimestamp]
      stable == stableDebtUntil(r, txTimestamp)
      debts  == IF mode = "stable"
                THEN [n EXCEPT
                        !.principalStableDebt = stable + amount,
                        !.totalStableDebt = stable + amount,
                        !.averageStableBorrowRate =
                           calcExpectedAverageStableBorrowRate(@, stable, amount,
                                                               r.stableBorrowRate),
                        !.totalVariableDebt = rayMul(@, n.variableBorrowIndex)]
                ELSE LET scaled == r.scaledVariableDebt + rayDiv(amount, n.variableBorrowIndex)
                     IN  [n EXCEPT
                            !.totalStableDebt = stable,
                            !.scaledVariableDebt = scaled,
                            !.totalVariableDebt = rayMul(scaled, n.variableBorrowIndex)]
      rated  == withRates([debts EXCEPT !.totalLiquidity = n.availableLiquidity
                             + debts.totalStableDebt + debts.totalVariableDebt], s, f)
  IN  grownTo([rated EXCEPT !.totalStableDebt =
                 calcExpectedTotalStableDebt(debts.principalStableDebt,
                   debts.averageStableBorrowRate,
                   IF mode = "stable" THEN txTimestamp ELSE r.totalStableDebtLastUpdated,
                   currentTimestamp)],
              currentTimestamp)

(* A repayment in the stable mode can leave the totals below zero by the   *)
(* rounding of the token: both then fall back to zero.                     *)
afterStableRepay(r, u, repaid, txTimestamp) ==
  LET debt    == stableDebtUntil(r, txTimestamp)
      average == calcExpectedAverageStableBorrowRate(r.averageStableBorrowRate, debt,
                                                     -repaid, u.stableBorrowRate)
      nothing == debt - repaid < 0 \/ average < 0
  IN  [r EXCEPT !.principalStableDebt = IF nothing THEN 0 ELSE debt - repaid,
                !.totalStableDebt = IF nothing THEN 0 ELSE debt - repaid,
                !.averageStableBorrowRate = IF nothing THEN 0 ELSE average]

calcExpectedReserveDataAfterRepay(s, f, amount, mode, r, u, txTimestamp, maxAmount) ==
  LET n      == withIndexes(r, txTimestamp)
      owed   == IF mode = "stable"
                THEN calcExpectedStableDebtTokenBalance(u.principalStableDebt,
                       u.stableBorrowRate, u.stableRateLastUpdated, txTimestamp)
                ELSE calcExpectedVariableDebtTokenBalance(r, u, txTimestamp)
      repaid == IF amount = maxAmount THEN owed ELSE amount
      scaled == r.scaledVariableDebt
                  - (IF mode = "stable" THEN 0 ELSE rayDiv(repaid, n.variableBorrowIndex))
      debts  == [(IF mode = "stable" THEN afterStableRepay(n, u, repaid, txTimestamp) ELSE n)
                   EXCEPT !.scaledVariableDebt = scaled,
                          !.totalVariableDebt = rayMul(scaled, n.variableBorrowIndex),
                          !.availableLiquidity = @ + repaid,
                          !.lastUpdateTimestamp = txTimestamp]
  IN  withRates([debts EXCEPT !.totalLiquidity =
        debts.availableLiquidity + debts.totalStableDebt + debts.totalVariableDebt], s, f)

-----------------------------------------------------------------------------
(* User data: r is the reserve before the call, e what is expected of it   *)
(* after.  After a deposit the chained assignments of lines 74 to 85 leave *)
(* the variable debt in principalStableDebt.                               *)
calcExpectedUserDataAfterDeposit(amount, r, e, u, txTimestamp) ==
  LET variable == calcExpectedVariableDebtTokenBalance(r, u, txTimestamp)
  IN  [u EXCEPT
        !.currentStableDebt = calcExpectedStableDebtTokenBalance(u.principalStableDebt,
           u.stableBorrowRate, u.stableRateLastUpdated, txTimestamp),
        !.currentVariableDebt = variable,
        !.principalStableDebt = variable,
        !.liquidityRate = e.liquidityRate,
        !.scaledATokenBalance = calcExpectedScaledATokenBalance(u, e.liquidityIndex, amount, 0),
        !.currentATokenBalance = calcExpectedATokenBalance(r, u, txTimestamp) + amount,
        !.usageAsCollateralEnabled = @ \/ u.currentATokenBalance = 0]

calcExpectedUserDataAfterWithdraw(amount, r, e, u, txTimestamp, maxAmount) ==
  LET balance   == calcExpectedATokenBalance(r, u, txTimestamp)
      withdrawn == IF amount = maxAmount THEN balance ELSE amount
  IN  [u EXCEPT
        !.scaledATokenBalance = calcExpectedScaledATokenBalance(u, e.liquidityIndex, 0, withdrawn),
        !.currentATokenBalance = balance - withdrawn,
        !.currentStableDebt = calcExpectedStableDebtTokenBalance(u.principalStableDebt,
           u.stableBorrowRate, u.stableRateLastUpdated, txTimestamp),
        !.currentVariableDebt = calcExpectedVariableDebtTokenBalance(r, u, txTimestamp),
        !.liquidityRate = e.liquidityRate,
        !.usageAsCollateralEnabled =
           IF u.currentATokenBalance = 0 THEN TRUE ELSE @ /\ balance # withdrawn]

(* The scaled debt expected of the borrower starts from the whole          *)
(* reserve's: line 638 reads reserveDataBeforeAction.                      *)
calcExpectedUserDataAfterBorrow(amount, mode, r, e, u, txTimestamp, currentTimestamp) ==
  LET until == calcExpectedStableDebtTokenBalance(u.principalStableDebt, u.stableBorrowRate,
                                                  u.stableRateLastUpdated, txTimestamp)
      debts == IF mode = "stable"
               THEN [u EXCEPT
                      !.principalStableDebt = until + amount,
                      !.stableRateLastUpdated = txTimestamp,
                      !.stableBorrowRate =
                         calcExpectedUserStableRate(until, @, amount, r.stableBorrowRate)]
               ELSE [u EXCEPT !.scaledVariableDebt =
                      r.scaledVariableDebt + rayDiv(amount, e.variableBorrowIndex)]
  IN  [debts EXCEPT
        !.currentStableDebt = calcExpectedStableDebtTokenBalance(debts.principalStableDebt,
           debts.stableBorrowRate, debts.stableRateLastUpdated, currentTimestamp),
        !.currentVariableDebt = calcExpectedVariableDebtTokenBalance(e, debts, currentTimestamp),
        !.liquidityRate = e.liquidityRate,
        !.currentATokenBalance = calcExpectedATokenBalance(e, u, currentTimestamp)]

calcExpectedUserDataAfterRepay(amount, mode, r, e, u, txTimestamp, currentTimestamp, maxAmount) ==
  LET variable == calcExpectedVariableDebtTokenBalance(r, u, currentTimestamp)
      stable   == calcExpectedStableDebtTokenBalance(u.principalStableDebt, u.stableBorrowRate,
                                                     u.stableRateLastUpdated, currentTimestamp)
      repaid   == IF amount # maxAmount THEN amount
                  ELSE IF mode = "stable" THEN stable ELSE variable
      scaled   == u.scaledVariableDebt - rayDiv(repaid, e.variableBorrowIndex)
      debts    == IF mode = "stable"
                  THEN [u EXCEPT
                         !.currentVariableDebt = variable,
                         !.principalStableDebt = stable - repaid,
                         !.currentStableDebt = stable - repaid,
                         !.stableBorrowRate = IF stable = repaid THEN 0 ELSE @,
                         !.stableRateLastUpdated =
                            IF stable = repaid THEN 0 ELSE txTimestamp]
                  ELSE [u EXCEPT
                         !.currentStableDebt = u.principalStableDebt,
                         !.principalStableDebt = stable,
                         !.scaledVariableDebt = scaled,
                         !.currentVariableDebt = rayMul(scaled, e.variableBorrowIndex)]
  IN  [debts EXCEPT !.liquidityRate = e.liquidityRate,
                    !.currentATokenBalance = calcExpectedATokenBalance(r, u, txTimestamp)]

calcExpectedUserDataAfterSetUseAsCollateral(using, u) ==
  [u EXCEPT !.usageAsCollateralEnabled = using]
=============================================================================
