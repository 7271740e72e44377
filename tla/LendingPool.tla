---------------------------- MODULE LendingPool -----------------------------
(***************************************************************************)
(* LendingPool.sol with LendingPoolCollateralManager.sol (which runs by    *)
(* delegatecall on the pool's storage), ValidationLogic.sol and the aToken *)
(* transfers that call back into the pool.  One action is one successful   *)
(* transaction; a call that reverts changes nothing and is not a step.     *)
(*                                                                         *)
(* Wallets are outside the model: a caller can always pay what it repays   *)
(* or deposits.  Prices and time belong to the environment.                *)
(***************************************************************************)
EXTENDS GenericLogic

CONSTANTS Amounts,           \* amounts a caller passes
          AllowanceAmounts,  \* credit delegations a user grants
          Prices,            \* prices the oracle may report
          InitialPrice,      \* [Assets -> Prices]
          Configurations,    \* [Assets -> Configuration]
          Strategies,        \* [Assets -> Strategy]
          CLOSE_FACTOR,      \* LIQUIDATION_CLOSE_FACTOR_PERCENT
          MaxTime            \* bound: time stops here

ASSUME PoolConstants ==
  /\ Amounts \subseteq Nat \ {0}
  /\ AllowanceAmounts \subseteq Nat
  /\ Prices \subseteq Nat \ {0}
  /\ InitialPrice \in [Assets -> Prices]
  /\ Configurations \in [Assets -> Configuration]
  /\ Strategies \in [Assets -> Strategy]
  /\ CLOSE_FACTOR \in Nat
  /\ MAX_UINT \in Nat \ {0} /\ WAD <= MAX_UINT
  /\ MaxTime \in Nat

VARIABLES reserves,         \* _reserves, with the storage of their tokens
          usersConfig,      \* _usersConfig
          borrowAllowance,  \* _borrowAllowances of the variable debt tokens
          paused,           \* _paused; only the configurator changes it
          price,            \* IPriceOracleGetter.getAssetPrice
          now               \* block.timestamp

vars == <<reserves, usersConfig, borrowAllowance, paused, price, now>>

Init ==
  /\ reserves = [a \in Assets |-> InitReserve(Configurations[a], Strategies[a])]
  /\ usersConfig = [u \in Users |-> [collateral |-> {}, borrowing |-> {}]]
  /\ borrowAllowance = [a \in Assets |-> [u \in Users |-> [v \in Users |-> 0]]]
  /\ paused = FALSE
  /\ price = InitialPrice
  /\ now = 0

-----------------------------------------------------------------------------
(* The modifier of every call that moves a position. *)
WhenNotPaused == ~paused

(* UserConfiguration.setUsingAsCollateral and setBorrowing. *)

SetUsingAsCollateral(cfg, u, a, using) ==
  [cfg EXCEPT ![u].collateral = IF using THEN @ \cup {a} ELSE @ \ {a}]

SetBorrowing(cfg, u, a, owing) ==
  [cfg EXCEPT ![u].borrowing = IF owing THEN @ \cup {a} ELSE @ \ {a}]

AccountData(R, u)    == UserAccountData(R, usersConfig[u], price, u, now)
HealthFactorIn(R, u) == HealthFactorOf(R, usersConfig[u], price, u, now)

-----------------------------------------------------------------------------
(* deposit *)

(* A seeded fault: a frozen reserve takes deposits. *)
ValidateDepositFrozen(a, amount) == amount # 0 /\ reserves[a].configuration.active

ValidateDeposit(a, amount) ==
  LET c == reserves[a].configuration
  IN  /\ amount # 0
      /\ c.active
      /\ ~c.frozen
      /\ c.supplyCap = 0 \/ TotalSupply(reserves[a], now) + amount <= c.supplyCap * c.unit

Deposit(a, amount, onBehalfOf) ==
  LET accrued == UpdateState(reserves[a], now)
      priced  == UpdateInterestRates(accrued, amount, 0)
      paid    == Receive(priced, amount)
  IN  /\ WhenNotPaused
      /\ ValidateDeposit(a, amount)
      /\ CanUpdateInterestRates(accrued, amount, 0)
      /\ CanMintAToken(paid, amount)
      /\ reserves' = [reserves EXCEPT ![a] = MintAToken(paid, onBehalfOf, amount)]
      /\ usersConfig' = IF paid.aBalance[onBehalfOf] = 0
                        THEN SetUsingAsCollateral(usersConfig, onBehalfOf, a, TRUE)
                        ELSE usersConfig
      /\ UNCHANGED <<borrowAllowance, paused, price, now>>

-----------------------------------------------------------------------------
(* withdraw: MAX_UINT asks for the whole balance.  The collateral flag is  *)
(* cleared only when the amount is exactly the balance.                    *)

ValidateWithdraw(u, a, amount, balance) ==
  /\ amount # 0
  /\ amount <= balance
  /\ reserves[a].configuration.active
  /\ BalanceDecreaseAllowed(reserves, usersConfig[u], price, a, u, amount, now)

Withdraw(u, a, amount) ==
  LET balance == BalanceOf(reserves[a], u, now)
      taken   == IF amount = MAX_UINT THEN balance ELSE amount
      accrued == UpdateState(reserves[a], now)
      priced  == UpdateInterestRates(accrued, 0, taken)
  IN  /\ WhenNotPaused
      /\ ValidateWithdraw(u, a, taken, balance)
      /\ CanUpdateInterestRates(accrued, 0, taken)
      /\ CanBurnAToken(priced, u, taken)
      /\ reserves' = [reserves EXCEPT ![a] = BurnAToken(priced, u, taken)]
      /\ usersConfig' = IF taken = balance
                        THEN SetUsingAsCollateral(usersConfig, u, a, FALSE)
                        ELSE usersConfig
      /\ UNCHANGED <<borrowAllowance, paused, price, now>>

-----------------------------------------------------------------------------
(* borrow: only at the variable rate, _executeBorrow reverts otherwise.    *)
(* u's debt grows and `caller`, if another, spends u's delegation.         *)

(* A seeded fault: what is owed already does not count. *)
ValidateBorrowWithoutDebt(a, u, amount) ==
  LET c    == reserves[a].configuration
      data == AccountData(reserves, u)
  IN  /\ c.active /\ ~c.frozen /\ c.borrowingEnabled
      /\ data.ltv # 0
      /\ PercentDiv((price[a] * amount) \div c.unit, data.ltv) <= data.collateral

ValidateBorrow(a, u, amount) ==
  LET c    == reserves[a].configuration
      data == AccountData(reserves, u)
      amountInBase == (price[a] * amount) \div c.unit
  IN  /\ c.active
      /\ ~c.frozen
      /\ amount # 0
      /\ c.borrowingEnabled
      /\ data.collateral > 0
      /\ HealthFactorIn(reserves, u) > WAD
      /\ data.ltv # 0
      /\ PercentDiv(data.debt + amountInBase, data.ltv) <= data.collateral
      /\ c.borrowCap = 0 \/ TotalDebt(reserves[a], now) + amount <= c.borrowCap * c.unit

(* A seeded fault: the delegation is not asked for, nor spent. *)
ExecuteBorrowUndelegated(caller, a, u, amount, released) ==
  LET accrued == UpdateState(reserves[a], now)
      owed    == MintDebt(accrued, u, amount)
  IN  /\ ValidateBorrow(a, u, amount)
      /\ CanMintDebt(accrued, amount)
      /\ CanUpdateInterestRates(owed, 0, released)
      /\ reserves' = [reserves EXCEPT ![a] = Release(UpdateInterestRates(owed, 0, released), released)]
      /\ usersConfig' = SetBorrowing(usersConfig, u, a, TRUE)
      /\ UNCHANGED borrowAllowance

(* The part of _executeBorrow the flash loan shares; `released` is what    *)
(* still has to leave the aToken.                                          *)
ExecuteBorrow(caller, a, u, amount, released) ==
  LET accrued == UpdateState(reserves[a], now)
      owed    == MintDebt(accrued, u, amount)
  IN  /\ ValidateBorrow(a, u, amount)
      /\ caller # u => amount <= borrowAllowance[a][u][caller]
      /\ CanMintDebt(accrued, amount)
      /\ CanUpdateInterestRates(owed, 0, released)
      /\ reserves' = [reserves EXCEPT ![a] = Release(UpdateInterestRates(owed, 0, released), released)]
      /\ usersConfig' = IF accrued.dBalance[u] = 0
                        THEN SetBorrowing(usersConfig, u, a, TRUE)
                        ELSE usersConfig
      /\ borrowAllowance' = IF caller # u
                            THEN [borrowAllowance EXCEPT ![a][u][caller] = @ - amount]
                            ELSE borrowAllowance

Borrow(caller, a, u, amount) ==
  /\ WhenNotPaused
  /\ ExecuteBorrow(caller, a, u, amount, amount)
  /\ UNCHANGED <<paused, price, now>>

(* DebtTokenBase.approveDelegation, which no pause stops. *)
ApproveDelegation(u, delegatee, a, amount) ==
  /\ borrowAllowance' = [borrowAllowance EXCEPT ![a][u][delegatee] = amount]
  /\ UNCHANGED <<reserves, usersConfig, paused, price, now>>

-----------------------------------------------------------------------------
(* repay: the debt is read before updateState and burned after it.         *)

ValidateRepay(caller, a, u, amount, debt) ==
  /\ reserves[a].configuration.active
  /\ amount > 0
  /\ debt > 0
  /\ amount = MAX_UINT => caller = u

Repay(caller, a, u, amount) ==
  LET debt    == DebtOf(reserves[a], u, now)
      payback == IF amount < debt THEN amount ELSE debt
      accrued == UpdateState(reserves[a], now)
      burned  == BurnDebt(accrued, u, payback)
  IN  /\ WhenNotPaused
      /\ ValidateRepay(caller, a, u, amount, debt)
      /\ CanBurnDebt(accrued, u, payback)
      /\ CanUpdateInterestRates(burned, payback, 0)
      /\ reserves' = [reserves EXCEPT ![a] = Receive(UpdateInterestRates(burned, payback, 0), payback)]
      /\ usersConfig' = IF debt = payback
                        THEN SetBorrowing(usersConfig, u, a, FALSE)
                        ELSE usersConfig
      /\ UNCHANGED <<borrowAllowance, paused, price, now>>

-----------------------------------------------------------------------------
(* setUserUseReserveAsCollateral *)

ValidateSetUseReserveAsCollateral(u, a, using) ==
  LET balance == BalanceOf(reserves[a], u, now)
  IN  /\ balance > 0
      /\ using \/ BalanceDecreaseAllowed(reserves, usersConfig[u], price, a, u, balance, now)

SetUserUseReserveAsCollateral(u, a, using) ==
  /\ WhenNotPaused
  /\ ValidateSetUseReserveAsCollateral(u, a, using)
  /\ usersConfig' = SetUsingAsCollateral(usersConfig, u, a, using)
  /\ UNCHANGED <<reserves, borrowAllowance, paused, price, now>>

-----------------------------------------------------------------------------
(* liquidationCall *)

(* A seeded fault: the position does not have to be unhealthy. *)
ValidateLiquidationCallAlways(c, d, u) ==
  /\ c \in usersConfig[u].collateral
  /\ DebtOf(reserves[d], u, now) > 0

ValidateLiquidationCall(c, d, u) ==
  /\ reserves[c].configuration.active
  /\ reserves[d].configuration.active
  /\ HealthFactorIn(reserves, u) < WAD
  /\ reserves[c].configuration.liquidationThreshold > 0
  /\ c \in usersConfig[u].collateral
  /\ DebtOf(reserves[d], u, now) > 0

(* _calculateAvailableCollateralToLiquidate: what is seized, and the debt  *)
(* that pays for it when the collateral does not cover debtToCover.        *)
AvailableCollateralToLiquidate(c, d, debtToCover, balance) ==
  LET bonus == reserves[c].configuration.liquidationBonus
      cUnit == reserves[c].configuration.unit
      dUnit == reserves[d].configuration.unit
      most  == PercentMul(price[d] * debtToCover * cUnit, bonus) \div (price[c] * dUnit)
  IN  IF most > balance
      THEN [seized |-> balance,
            needed |-> PercentDiv((price[c] * balance * dUnit) \div (price[d] * cUnit), bonus)]
      ELSE [seized |-> most, needed |-> debtToCover]

(* A seeded fault: the close factor is applied to the repayment again. *)
LiquidationClosedTwice(c, d, u, debtToCover) ==
  LET most    == PercentMul(DebtOf(reserves[d], u, now), CLOSE_FACTOR)
      cover   == IF debtToCover > most THEN most ELSE debtToCover
      balance == BalanceOf(reserves[c], u, now)
      avail   == AvailableCollateralToLiquidate(c, d, cover, balance)
  IN  [balance |-> balance, seized |-> avail.seized,
       repaid |-> PercentMul(avail.needed, CLOSE_FACTOR)]

(* What one call repays and seizes. *)
Liquidation(c, d, u, debtToCover) ==
  LET debt    == DebtOf(reserves[d], u, now)
      balance == BalanceOf(reserves[c], u, now)
      most    == PercentMul(debt, CLOSE_FACTOR)
      cover   == IF debtToCover > most THEN most ELSE debtToCover
      avail   == AvailableCollateralToLiquidate(c, d, cover, balance)
  IN  [balance |-> balance, seized |-> avail.seized,
       repaid |-> IF avail.needed < cover THEN avail.needed ELSE cover]

(* The debt reserve is settled first, then the collateral leaves, and the  *)
(* liquidator's payment arrives last: c and d may be the same reserve.     *)
LiquidationCall(liquidator, c, d, u, debtToCover, receiveAToken) ==
  LET l        == Liquidation(c, d, u, debtToCover)
      accrued  == UpdateState(reserves[d], now)
      burned   == BurnDebt(accrued, u, l.repaid)
      settled  == [reserves EXCEPT ![d] = UpdateInterestRates(burned, l.repaid, 0)]
      cAccrued == UpdateState(settled[c], now)
      cPriced  == UpdateInterestRates(cAccrued, 0, l.seized)
      moved    == IF receiveAToken
                  THEN TransferAToken(settled[c], u, liquidator, l.seized, now)
                  ELSE BurnAToken(cPriced, u, l.seized)
      seized   == [settled EXCEPT ![c] = moved]
      rewarded == IF receiveAToken /\ BalanceOf(settled[c], liquidator, now) = 0
                  THEN SetUsingAsCollateral(usersConfig, liquidator, c, TRUE)
                  ELSE usersConfig
  IN  /\ WhenNotPaused
      /\ ValidateLiquidationCall(c, d, u)
      /\ receiveAToken \/ l.seized <= reserves[c].cash
      /\ CanBurnDebt(accrued, u, l.repaid)
      /\ CanUpdateInterestRates(burned, l.repaid, 0)
      /\ IF receiveAToken
         THEN CanTransferAToken(settled[c], u, l.seized, now)
         ELSE /\ CanUpdateInterestRates(cAccrued, 0, l.seized)
              /\ CanBurnAToken(cPriced, u, l.seized)
      /\ reserves' = [seized EXCEPT ![d] = Receive(@, l.repaid)]
      /\ usersConfig' = IF l.seized = l.balance
                        THEN SetUsingAsCollateral(rewarded, u, c, FALSE)
                        ELSE rewarded
      /\ UNCHANGED <<borrowAllowance, paused, price, now>>

-----------------------------------------------------------------------------
(* AToken.transfer and finalizeTransfer: the sender's health is checked on *)
(* the moved balances and the flags it still has.                          *)

Transfer(from, to, a, amount) ==
  LET fromBefore == BalanceOf(reserves[a], from, now)
      toBefore   == BalanceOf(reserves[a], to, now)
      moved      == [reserves EXCEPT ![a] = TransferAToken(@, from, to, amount, now)]
      emptied    == IF from # to /\ fromBefore = amount
                    THEN SetUsingAsCollateral(usersConfig, from, a, FALSE)
                    ELSE usersConfig
  IN  /\ WhenNotPaused
      /\ CanTransferAToken(reserves[a], from, amount, now)
      /\ HealthFactorIn(moved, from) >= WAD
      /\ from # to => amount <= fromBefore
      /\ reserves' = moved
      /\ usersConfig' = IF from # to /\ toBefore = 0 /\ amount # 0
                        THEN SetUsingAsCollateral(emptied, to, a, TRUE)
                        ELSE emptied
      /\ UNCHANGED <<borrowAllowance, paused, price, now>>

-----------------------------------------------------------------------------
(* The environment. *)
SetPrice(a, p) ==
  /\ price[a] # p
  /\ price' = [price EXCEPT ![a] = p]
  /\ UNCHANGED <<reserves, usersConfig, borrowAllowance, paused, now>>

Tick ==
  /\ now < MaxTime
  /\ now' = now + 1
  /\ UNCHANGED <<reserves, usersConfig, borrowAllowance, paused, price>>

(* The transactions users send, and what happens around them. *)
Call ==
  \/ \E a \in Assets, x \in Amounts, u \in Users : Deposit(a, x, u)
  \/ \E u \in Users, a \in Assets, x \in Amounts \cup {MAX_UINT} : Withdraw(u, a, x)
  \/ \E caller \in Users, a \in Assets, u \in Users, x \in Amounts : Borrow(caller, a, u, x)
  \/ \E u, v \in Users, a \in Assets, x \in AllowanceAmounts : ApproveDelegation(u, v, a, x)
  \/ \E caller \in Users, a \in Assets, u \in Users, x \in Amounts \cup {MAX_UINT} :
       Repay(caller, a, u, x)
  \/ \E u \in Users, a \in Assets, using \in BOOLEAN : SetUserUseReserveAsCollateral(u, a, using)
  \/ \E l \in Users, c, d \in Assets, u \in Users, x \in Amounts \cup {MAX_UINT}, b \in BOOLEAN :
       LiquidationCall(l, c, d, u, x, b)
  \/ \E from, to \in Users, a \in Assets, x \in Amounts : Transfer(from, to, a, x)

Environment ==
  \/ \E a \in Assets, p \in Prices : SetPrice(a, p)
  \/ Tick

Next == Call \/ Environment

Spec == Init /\ [][Next]_vars
=============================================================================
