-------------------------- MODULE MCConfigurator ---------------------------
(* The administrators at work on the small pools of MCPool.                *)
EXTENDS MCPool, LendingPoolConfigurator

CONSTANTS NewLT  \* liquidation threshold to configure, or 0 for no collateral

MCCollateralParameters ==
  {[ltv |-> 0, liquidationThreshold |-> 0, liquidationBonus |-> 0],
   [ltv |-> NewLT, liquidationThreshold |-> NewLT, liquidationBonus |-> Bonus]}

MCNewStrategies == {[optimal |-> 500, base |-> 50, slope1 |-> 100, slope2 |-> 900]}

(* History: the reserves whose stored rate was calculated while their      *)
(* depositors had a share of the interest.  A call of the pool calculates  *)
(* the rates exactly when it moves liquidity in or out; an administrator   *)
(* who changes the factor leaves the rates as they are.                    *)
VARIABLE sharing

adminVars == <<mcVars, sharing>>

SharesInterest(a) == reserves[a].configuration.reserveFactor < PERCENTAGE_FACTOR

RatesCalculated(a) == reserves'[a].cash # reserves[a].cash

MCAdminInit == MCInit /\ sharing = Assets

MCAdminStep ==
  /\ steps < MaxSteps
  /\ ConfiguratorNext
  /\ steps' = steps + 1
  /\ sharing' = {a \in Assets : IF RatesCalculated(a) THEN SharesInterest(a)'
                                                      ELSE a \in sharing}

MCAdminSpec == MCAdminInit /\ [][MCAdminStep \/ (BoundReached /\ UNCHANGED sharing)]_adminVars

(* deactivateReserve strands neither deposits nor debts, and disabling a   *)
(* collateral leaves no loan bare, where the rate in store was calculated  *)
(* under a reserve factor below 100%: then a reserve without cash that     *)
(* still owes its depositors pays them a rate, and _checkNoLiquidity sees  *)
(* it, whatever the factor has become since.                               *)
NothingStranded ==
  [][\A a \in sharing : Closes(a) => Empty(a)]_adminVars
=============================================================================
