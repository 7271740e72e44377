----------------------------- MODULE FlashLoan ------------------------------
(***************************************************************************)
(* LendingPool.flashLoan.  It is not one step: the pool hands the money    *)
(* out, calls the receiver, and only then settles loan after loan.  During *)
(* the callback the receiver, and any contract it calls, may call the pool *)
(* (flashLoan holds no reentrancy lock), while time and prices stand       *)
(* still.  When the receiver returns false, cannot pay, or a settlement    *)
(* reverts, the whole transaction is undone.                               *)
(*                                                                         *)
(* One flash loan is open at a time; a nested flashLoan is left out.       *)
(***************************************************************************)
EXTENDS PoolProperties, Sequences, Functions

CONSTANTS FLASHLOAN_PREMIUM_TOTAL,  \* _flashLoanPremiumTotal, of 10000
          Batches                   \* sequences of loans a caller asks for

Loan == [asset : Assets, amount : Nat, mode : {"none", "variable"}]

ASSUME FlashLoanConstants ==
  /\ FLASHLOAN_PREMIUM_TOTAL \in Nat
  /\ Batches \subseteq Seq(Loan) \ {<<>>}

VARIABLES flash,  \* the open flash loan
          saved   \* the pool's storage when it was opened

flashVars == <<vars, flash, saved>>

Storage == [reserves |-> reserves, usersConfig |-> usersConfig,
            borrowAllowance |-> borrowAllowance]

NoFlashLoan == [phase |-> "none"]

FlashInit ==
  /\ Init
  /\ flash = NoFlashLoan
  /\ saved = <<>>

-----------------------------------------------------------------------------
Premium(amount) == (amount * FLASHLOAN_PREMIUM_TOTAL) \div 10000

LentOf(loans, a) ==
  LET amounts == [i \in DOMAIN loans |-> loans[i].amount]
  IN  SumFunctionOnSet(amounts, {i \in DOMAIN loans : loans[i].asset = a})

(* transferUnderlyingTo for every loan; no check of the reserve's state.   *)
FlashLend(caller, onBehalfOf, loans) ==
  /\ flash = NoFlashLoan
  /\ WhenNotPaused
  /\ \A a \in Assets : LentOf(loans, a) <= reserves[a].cash
  /\ reserves' = [a \in Assets |-> Release(reserves[a], LentOf(loans, a))]
  /\ flash' = [phase |-> "callback", caller |-> caller, onBehalfOf |-> onBehalfOf,
               left |-> loans]
  /\ saved' = Storage
  /\ UNCHANGED <<usersConfig, borrowAllowance, paused, price, now>>

(* executeOperation: calls back into the pool, and returns true.           *)
Callback ==
  /\ flash.phase = "callback"
  /\ Call
  /\ UNCHANGED <<flash, saved>>

CallbackReturns ==
  /\ flash.phase = "callback"
  /\ flash' = [flash EXCEPT !.phase = "settle"]
  /\ UNCHANGED <<vars, saved>>

AfterFirst(f) ==
  IF Len(f.left) = 1 THEN NoFlashLoan ELSE [f EXCEPT !.left = Tail(@)]

NextLoan(mode) ==
  /\ flash.phase = "settle"
  /\ Head(flash.left).mode = mode
  /\ flash' = AfterFirst(flash)
  /\ saved' = IF Len(flash.left) = 1 THEN <<>> ELSE saved

(* A seeded fault: the premium is credited but never collected. *)
ReturnedWithoutPremium(r, amount) ==
  LET accrued == UpdateState(r, now)
      earned  == CumulateToLiquidityIndex(accrued, TotalSupply(accrued, now), Premium(amount))
  IN  Receive(UpdateInterestRates(earned, amount, 0), amount)

(* A seeded fault: the rates do not see the premium come in. *)
ReturnedUnpriced(r, amount) ==
  LET accrued == UpdateState(r, now)
      earned  == CumulateToLiquidityIndex(accrued, TotalSupply(accrued, now), Premium(amount))
  IN  Receive(UpdateInterestRates(earned, amount, 0), amount + Premium(amount))

(* Mode NONE: the loan comes back with the premium, which goes to the      *)
(* depositors through the liquidity index.                                 *)
Returned(r, amount) ==
  LET premium == Premium(amount)
      accrued == UpdateState(r, now)
      earned  == CumulateToLiquidityIndex(accrued, TotalSupply(accrued, now), premium)
  IN  Receive(UpdateInterestRates(earned, amount + premium, 0), amount + premium)

SettleWithReturn ==
  /\ NextLoan("none")
  /\ LET loan == Head(flash.left)
         r    == reserves[loan.asset]
     IN  /\ CanCumulate(TotalSupply(UpdateState(r, now), now))
         /\ CanUpdateInterestRates(r, loan.amount + Premium(loan.amount), 0)
         /\ reserves' = [reserves EXCEPT ![loan.asset] = Returned(@, loan.amount)]
  /\ UNCHANGED <<usersConfig, borrowAllowance, paused, price, now>>

(* Mode VARIABLE: the loan becomes a debt of onBehalfOf, without premium.  *)
SettleWithDebt ==
  /\ NextLoan("variable")
  /\ ExecuteBorrow(flash.caller, Head(flash.left).asset, flash.onBehalfOf,
                   Head(flash.left).amount, 0)
  /\ UNCHANGED <<paused, price, now>>

(* A revert anywhere: nothing of the transaction happened.                 *)
FlashRevert ==
  /\ flash # NoFlashLoan
  /\ reserves' = saved.reserves
  /\ usersConfig' = saved.usersConfig
  /\ borrowAllowance' = saved.borrowAllowance
  /\ flash' = NoFlashLoan
  /\ saved' = <<>>
  /\ UNCHANGED <<paused, price, now>>

BetweenTransactions ==
  /\ flash = NoFlashLoan
  /\ Next
  /\ UNCHANGED <<flash, saved>>

FlashNext ==
  \/ \E caller, u \in Users, b \in Batches : FlashLend(caller, u, b)
  \/ Callback
  \/ CallbackReturns
  \/ SettleWithReturn
  \/ SettleWithDebt
  \/ FlashRevert
  \/ BetweenTransactions

FlashSpec == FlashInit /\ [][FlashNext]_flashVars

-----------------------------------------------------------------------------
(* What is lent out and not settled yet still backs the deposits.          *)
Outstanding(a) == IF flash = NoFlashLoan THEN 0 ELSE LentOf(flash.left, a)

FlashDeficit(a) == Deficit(a) - Outstanding(a)

(* A revert may undo a repayment made in the callback.                     *)
Undone == flash # NoFlashLoan /\ flash' = NoFlashLoan /\ Storage' = saved

(* A premium is paid through the index, and rounds it by half a unit: what *)
(* that is worth on all claims, and the share of the premium it stands for.*)
PremiumDust(a) ==
  LET loan == Head(flash.left)
  IN  IF flash.phase = "settle" /\ loan.asset = a /\ loan.mode = "none"
      THEN Claims(a) \div RAY + Premium(loan.amount) \div (Claims(a) + 1)
      ELSE 0

(* A flash loan, whatever its receiver does in the callback, returns what  *)
(* it took or leaves an equal debt; depositors get the premium and no more.*)
FlashConservesValue ==
  [][now' = now /\ ~Undone =>
       \A a \in Assets :
         FlashDeficit(a)' <= FlashDeficit(a) + RoundingDust(a) + PremiumDust(a)]_flashVars

(* Between transactions the stored rates are those of the real liquidity,  *)
(* although the callback computes rates while the money is away.           *)
RatesReflectLiquidityAfterwards ==
  flash = NoFlashLoan => RatesReflectLiquidity

(* A flash loan makes debt only for its caller or for who delegated to the *)
(* caller, by exactly the delegation spent.                                *)
DelegationPaysFor(v, a, u) ==
  LET spent == borrowAllowance[a][u][v] - borrowAllowance'[a][u][v]
  IN  /\ spent > 0
      /\ RayDiv(spent, reserves'[a].variableBorrowIndex)
           = reserves'[a].dBalance[u] - reserves[a].dBalance[u]

DebtIsConsented ==
  [][~Undone =>
       \A u \in Users, a \in Assets :
         GainsDebt(u, a) =>
           \/ flash.phase = "settle" /\ flash.caller = u /\ flash.onBehalfOf = u
           \/ \E x \in Amounts : Borrow(u, a, u, x)
           \/ \E v \in Users \ {u} : DelegationPaysFor(v, a, u)]_flashVars
=============================================================================
