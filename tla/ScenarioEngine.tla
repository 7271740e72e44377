--------------------------- MODULE ScenarioEngine ---------------------------
(***************************************************************************)
(* The scenario tests of test-suites/test-aave: scenario-engine.ts runs    *)
(* one action of actions.ts after another against the pool, and each of    *)
(* them (1) reads the reserve and the user, (2) sends its transaction, (3) *)
(* after a borrow may travel in time, (4) reads both again and (5) holds   *)
(* them against calculations.ts.  Nothing else calls the pool meanwhile,   *)
(* but the chain's clock may move between the first read and the           *)
(* transaction.  One reserve; a story's actions are drawn freely.          *)
(***************************************************************************)
EXTENDS LendingPool, Calculations

CONSTANTS Reserve1,    \* the reserve of the stories
          Latency,     \* ticks that may pass between a read and its call
          TravelTime,  \* ticks of a borrow's timeTravel
          MaxActions   \* bound: actions of the stories together

ASSUME ScenarioConstants ==
  /\ Reserve1 \in Assets
  /\ Latency \in Nat
  /\ TravelTime \in Nat
  /\ MaxActions \in Nat

VARIABLES phase,    \* where the running action is
          before,   \* the data read before the transaction, and whose it is
          tx,       \* the transaction sent, and its timestamp
          actions   \* actions run so far

scenarioVars == <<vars, phase, before, tx, actions>>

-----------------------------------------------------------------------------
(* helpers.ts over AaveProtocolDataProvider.sol.  No stable debt exists.   *)
getReserveData ==
  LET r     == reserves[Reserve1]
      debt  == TotalDebt(r, now)
      total == r.cash + debt
  IN  [totalLiquidity |-> total,
       utilizationRate |-> IF total = 0 THEN 0 ELSE rayDiv(debt, total),
       availableLiquidity |-> r.cash, totalVariableDebt |-> debt,
       totalStableDebt |-> 0, principalStableDebt |-> 0,
       averageStableBorrowRate |-> 0, stableBorrowRate |-> 0,
       totalStableDebtLastUpdated |-> 0,
       liquidityRate |-> r.liquidityRate, variableBorrowRate |-> r.borrowRate,
       liquidityIndex |-> r.liquidityIndex, variableBorrowIndex |-> r.variableBorrowIndex,
       lastUpdateTimestamp |-> r.lastUpdate, scaledVariableDebt |-> r.dSupply]

getUserData(u) ==
  LET r == reserves[Reserve1]
  IN  [scaledATokenBalance |-> r.aBalance[u],
       currentATokenBalance |-> BalanceOf(r, u, now),
       currentVariableDebt |-> DebtOf(r, u, now), scaledVariableDebt |-> r.dBalance[u],
       currentStableDebt |-> 0, principalStableDebt |-> 0,
       stableBorrowRate |-> 0, stableRateLastUpdated |-> 0,
       liquidityRate |-> r.liquidityRate,
       usageAsCollateralEnabled |-> Reserve1 \in usersConfig[u].collateral]

getContractsData(u) ==
  [user |-> u, reserveData |-> getReserveData, userData |-> getUserData(u), time |-> now]

-----------------------------------------------------------------------------
NoAction == [name |-> "none", amount |-> 0, time |-> 0]

ScenarioInit ==
  /\ Init
  /\ phase = "idle"
  /\ \E u \in Users : before = getContractsData(u)
  /\ tx = NoAction
  /\ actions = 0

(* The user read is the one the call will be on behalf of.                 *)
ReadBefore(u) ==
  /\ phase = "idle"
  /\ actions < MaxActions
  /\ phase' = "read"
  /\ before' = getContractsData(u)
  /\ actions' = actions + 1
  /\ UNCHANGED <<vars, tx>>

(* The chain's clock moves while the call is on its way.                   *)
Delay ==
  /\ phase = "read"
  /\ now < before.time + Latency
  /\ Tick
  /\ UNCHANGED <<phase, before, tx, actions>>

(* Time passes between two actions too.                                    *)
Wait ==
  /\ phase = "idle"
  /\ actions < MaxActions
  /\ Tick
  /\ UNCHANGED <<phase, before, tx, actions>>

Send(name, amount, next) ==
  /\ phase = "read"
  /\ phase' = next
  /\ tx' = [name |-> name, amount |-> amount, time |-> now]
  /\ UNCHANGED <<before, actions>>

deposit(amount) ==
  Send("deposit", amount, "viewed") /\ Deposit(Reserve1, amount, before.user)

withdraw(amount) ==
  Send("withdraw", amount, "viewed") /\ Withdraw(before.user, Reserve1, amount)

(* Compares the allowance alone, so it reads nothing before.               *)
delegateBorrowAllowance(u, delegatee, amount) ==
  /\ phase = "idle"
  /\ actions < MaxActions
  /\ ApproveDelegation(u, delegatee, Reserve1, amount)
  /\ actions' = actions + 1
  /\ UNCHANGED <<phase, before, tx>>

borrow(caller, amount) ==
  Send("borrow", amount, "sent") /\ Borrow(caller, Reserve1, before.user, amount)

(* No story repays more than is owed other than with "-1".                 *)
repay(caller, amount) ==
  /\ amount = MAX_UINT \/ amount <= DebtOf(reserves[Reserve1], before.user, now)
  /\ Send("repay", amount, "viewed")
  /\ Repay(caller, Reserve1, before.user, amount)

setUseAsCollateral(using) ==
  /\ Send(IF using THEN "enable" ELSE "disable", 0, "viewed")
  /\ SetUserUseReserveAsCollateral(before.user, Reserve1, using)

(* advanceTimeAndBlock after a borrow whose story asks for it.             *)
TimeTravel ==
  /\ phase = "sent"
  /\ now < tx.time + TravelTime
  /\ Tick
  /\ UNCHANGED <<phase, before, tx, actions>>

ReadAfter ==
  /\ phase = "sent"
  /\ phase' = "viewed"
  /\ UNCHANGED <<vars, before, tx, actions>>

(* The assertions have been made: the action is over.                      *)
Finish ==
  /\ phase = "viewed"
  /\ phase' = "idle"
  /\ tx' = NoAction
  /\ UNCHANGED <<vars, before, actions>>

Done ==
  /\ phase = "idle"
  /\ actions = MaxActions
  /\ UNCHANGED scenarioVars

ScenarioNext ==
  \/ \E u \in Users : ReadBefore(u)
  \/ Delay \/ Wait \/ TimeTravel \/ ReadAfter \/ Finish \/ Done
  \/ \E x \in Amounts : deposit(x)
  \/ \E x \in Amounts \cup {MAX_UINT} : withdraw(x)
  \/ \E x \in AllowanceAmounts, u, v \in Users : delegateBorrowAllowance(u, v, x)
  \/ \E x \in Amounts, caller \in Users : borrow(caller, x)
  \/ \E x \in Amounts \cup {MAX_UINT}, caller \in Users : repay(caller, x)
  \/ \E using \in BOOLEAN : setUseAsCollateral(using)

ScenarioSpec == ScenarioInit /\ [][ScenarioNext]_scenarioVars

-----------------------------------------------------------------------------
(* What calculations.ts makes of the data read before.                     *)
strategy      == reserves[Reserve1].strategy
reserveFactor == reserves[Reserve1].configuration.reserveFactor

expectedReserveData ==
  LET r == before.reserveData
      u == before.userData
  IN  CASE tx.name = "deposit" ->
             calcExpectedReserveDataAfterDeposit(strategy, reserveFactor, tx.amount, r, tx.time)
        [] tx.name = "withdraw" ->
             calcExpectedReserveDataAfterWithdraw(strategy, reserveFactor, tx.amount, r, u,
                                                  tx.time, MAX_UINT)
        [] tx.name = "borrow" ->
             calcExpectedReserveDataAfterBorrow(strategy, reserveFactor, tx.amount, "variable",
                                                r, tx.time, now)
        [] tx.name = "repay" ->
             calcExpectedReserveDataAfterRepay(strategy, reserveFactor, tx.amount, "variable",
                                               r, u, tx.time, MAX_UINT)
        [] OTHER -> r

expectedUserData ==
  LET r == before.reserveData
      u == before.userData
      e == expectedReserveData
  IN  CASE tx.name = "deposit" -> calcExpectedUserDataAfterDeposit(tx.amount, r, e, u, tx.time)
        [] tx.name = "withdraw" ->
             calcExpectedUserDataAfterWithdraw(tx.amount, r, e, u, tx.time, MAX_UINT)
        [] tx.name = "borrow" ->
             calcExpectedUserDataAfterBorrow(tx.amount, "variable", r, e, u, tx.time, now)
        [] tx.name = "repay" ->
             calcExpectedUserDataAfterRepay(tx.amount, "variable", r, e, u, tx.time, now, MAX_UINT)
        [] tx.name \in {"enable", "disable"} ->
             calcExpectedUserDataAfterSetUseAsCollateral(tx.name = "enable", u)
        [] OTHER -> u

(* almostEqualOrEqual: numbers may differ by 3; the timestamps of the      *)
(* reserve are accessory data and are not compared.                        *)
AccessoryData == {"lastUpdateTimestamp", "totalStableDebtLastUpdated"}

almostEqualOrEqual(expected, actual, keys) ==
  \A key \in keys \ AccessoryData :
    IF key = "usageAsCollateralEnabled" THEN actual[key] = expected[key]
    ELSE actual[key] - expected[key] \in -3 .. 3

-----------------------------------------------------------------------------
(* calculations.ts lets the borrow index grow whenever there is debt, the  *)
(* pool only while depositors earn: the two are compared where they do.    *)
Earning ==
  before.reserveData.totalVariableDebt > 0 => before.reserveData.liquidityRate > 0

(* Expected liquidity and debts are those read before the call, without    *)
(* the interest up to its timestamp (line 167).                            *)
Prompt == tx.time = before.time

CoBorrowed == before.reserveData.scaledVariableDebt # before.userData.scaledVariableDebt

(* Two expectations of calculations.ts are not those of the pool and are   *)
(* left out: the debt of a borrower who is not the only one, which starts  *)
(* from the scaled debt of the whole reserve (line 638), and the stable    *)
(* debt of a depositor, which is the variable debt (line 81).              *)
UserKeys ==
  {"scaledATokenBalance", "currentATokenBalance", "currentStableDebt", "stableBorrowRate",
   "stableRateLastUpdated", "liquidityRate", "usageAsCollateralEnabled"}
    \cup (IF tx.name = "borrow" /\ CoBorrowed THEN {}
          ELSE {"scaledVariableDebt", "currentVariableDebt"})
    \cup (IF tx.name = "deposit" THEN {} ELSE {"principalStableDebt"})

(* After every deposit, withdrawal, borrow and repayment the reserve is    *)
(* what an account kept apart from the contracts says: liquidity, debts,   *)
(* both indexes, the utilization and the rates, within the rounding the    *)
(* suite tolerates.  Rates computed from what the reserve held before the  *)
(* money moved, or an index left behind, would show here.                  *)
ReserveDataAsExpected ==
  phase = "viewed" /\ Earning /\ Prompt /\ tx.name \notin {"enable", "disable"} =>
    almostEqualOrEqual(expectedReserveData, getReserveData, DOMAIN getReserveData)

(* ... and so is the user the call was for: both scaled balances, what     *)
(* they are worth, and the collateral flag.                                *)
UserDataAsExpected ==
  phase = "viewed" /\ Earning /\ Prompt =>
    almostEqualOrEqual(expectedUserData, getUserData(before.user), UserKeys)
=============================================================================
