--------------------------- MODULE PoolProperties ---------------------------
(***************************************************************************)
(* What LendingPool promises.  The properties are stated on what the       *)
(* positions are worth "settled", that is after the interest accrued so    *)
(* far has been credited, so that a step that merely triggers the accrual  *)
(* is not blamed for it.                                                   *)
(***************************************************************************)
EXTENDS LendingPool, FiniteSetsExt

(* The parameters of a collateral are those configureReserveAsCollateral   *)
(* takes: no loan is measured by more than what liquidation counts, and    *)
(* what it counts leaves room for the bonus.                               *)
ASSUME CollateralParametersAccepted ==
  \A a \in Assets :
    LET c == Configurations[a]
    IN  /\ c.ltv <= c.liquidationThreshold
        /\ c.liquidationThreshold # 0 =>
             /\ c.liquidationBonus > PERCENTAGE_FACTOR
             /\ PercentMul(c.liquidationThreshold, c.liquidationBonus) <= PERCENTAGE_FACTOR

(* Every field has its type; in particular no balance, supply, index or    *)
(* cash ever goes below zero.                                              *)
TypeOK ==
  /\ reserves \in [Assets -> Reserve]
  /\ usersConfig \in [Users -> UserConfiguration]
  /\ borrowAllowance \in [Assets -> [Users -> [Users -> Nat]]]
  /\ paused \in BOOLEAN
  /\ price \in [Assets -> Nat \ {0}]
  /\ now \in Nat

(* Whoever owes a reserve has its borrowing flag set: calculateUserAccount-*)
(* Data skips a reserve whose flags are clear, so a debt without the flag  *)
(* would not count against the health of its owner.  The flag is cleared   *)
(* by repay on the amount, the debt is burned on the scaled amount, and    *)
(* the two agree only because rayDiv undoes rayMul.                        *)
BorrowFlagTracksDebt ==
  \A u \in Users, a \in Assets :
    reserves[a].dBalance[u] > 0 => a \in usersConfig[u].borrowing

(* The supply each token stores is the sum of its balances.                *)
TotalsMatchBalances ==
  \A a \in Assets :
    LET held(u) == reserves[a].aBalance[u]
        owed(u) == reserves[a].dBalance[u]
    IN  /\ reserves[a].aSupply = MapThenSumSet(held, Accounts)
        /\ reserves[a].dSupply = MapThenSumSet(owed, Users)

(* The stored rates are the rates of the liquidity the reserve really has: *)
(* updateInterestRates is told what a call adds and takes before the money *)
(* moves, and must have been told exactly what moved.                      *)
RatesReflectLiquidity ==
  \A a \in Assets :
    reserves[a].aSupply > 0 => reserves[a] = UpdateInterestRates(reserves[a], 0, 0)

(* The scaled amount repay burns for the debt it read is the whole scaled  *)
(* balance.                                                                *)
FullRepaymentClears(a, u) ==
  RayDiv(DebtOf(reserves[a], u, now), UpdateState(reserves[a], now).variableBorrowIndex)
    = reserves[a].dBalance[u]

(* A borrower can always repay in full (type(uint256).max) while the       *)
(* depositors earn.  While they do not, as with a reserve factor of 100%,  *)
(* _updateIndexes leaves the borrow index behind that getNormalizedDebt    *)
(* has compounded, and the two amounts differ.                             *)
RepayableWhileEarning ==
  \A u \in Users, a \in Assets :
    reserves[a].dBalance[u] > 0 /\ reserves[a].liquidityRate > 0 => FullRepaymentClears(a, u)

(* A depositor can always withdraw in full as far as its own balance goes. *)
WithdrawableInFull ==
  \A u \in Users, a \in Assets :
    RayDiv(BalanceOf(reserves[a], u, now), UpdateState(reserves[a], now).liquidityIndex)
      = reserves[a].aBalance[u]

-----------------------------------------------------------------------------
(* Solvency. *)

Settled(a) == UpdateState(reserves[a], now)
Claims(a)  == TotalSupply(Settled(a), now)
Backing(a) == Settled(a).cash + TotalDebt(Settled(a), now)
Deficit(a) == Claims(a) - Backing(a)

(* What the half-up rounding of one mint or burn of each token can give.   *)
RoundingDust(a) ==
  (Settled(a).liquidityIndex + Settled(a).variableBorrowIndex) \div (2 * RAY) + 2

(* No call of the pool hands depositors more, or takes more from what      *)
(* backs their claims, than rounding: whatever is minted was paid for,     *)
(* whatever leaves was burned.                                             *)
CallsConserveValue ==
  [][now' = now => \A a \in Assets : Deficit(a)' <= Deficit(a) + RoundingDust(a)]_vars

(* The interest of one time unit. *)
UnitInterest(amount, rate) == (amount * rate) \div (RAY * SECONDS_PER_YEAR)

(* The half units that views and mints round by, the half rays that rates  *)
(* and indexes round by on all they apply to, and what no borrower is      *)
(* charged: the interest on claims ahead of their backing.                 *)
InterestDust(a) ==
  LET r         == reserves[a]
      claims    == RayMul(r.aSupply, r.liquidityIndex)
      backing   == r.cash + RayMul(r.dSupply, r.variableBorrowIndex)
      shortfall == IF claims > backing THEN claims - backing ELSE 0
  IN  6 + ((NormalizedIncome(r, now + 1) + 2 * claims + 4 * backing) \div RAY
             + UnitInterest(backing \div RAY + 1, r.borrowRate)
             + UnitInterest(shortfall + 1, r.liquidityRate))

(* Interest credited to the depositors and to the treasury is interest     *)
(* charged to the borrowers.                                               *)
InterestIsBacked ==
  [][now' # now => \A a \in Assets : Deficit(a)' <= Deficit(a) + InterestDust(a)]_vars

(* Indexes only grow: a balance or a debt never shrinks on its own.        *)
NoIndexShrinks ==
  \A a \in Assets :
    /\ reserves'[a].liquidityIndex >= reserves[a].liquidityIndex
    /\ reserves'[a].variableBorrowIndex >= reserves[a].variableBorrowIndex

IndexesMonotone == [][NoIndexShrinks]_vars

-----------------------------------------------------------------------------
(* Health. *)

Health(u) == HealthFactorIn(reserves, u)

(* What the rounding of one mint or burn at an index is worth: half a      *)
(* scaled unit, half a unit when it is read, and the quotients.            *)
DustWorth(a, index) ==
  (price[a] * (index \div (2 * RAY) + 1)) \div reserves[a].configuration.unit + 2

DebtDust(u) ==
  SumFunction([a \in usersConfig[u].borrowing |->
                 DustWorth(a, reserves[a].variableBorrowIndex)])

CollateralDust(u) ==
  SumFunction([a \in CountedCollateral(reserves, usersConfig[u]) |->
                 DustWorth(a, reserves[a].liquidityIndex)
                   * reserves[a].configuration.liquidationThreshold])

(* Health with the benefit of the rounding: the dust of every token, and   *)
(* the hundredth of a percent the average threshold loses by truncation.   *)
HealthWithDust(u) ==
  LET data     == AccountData(reserves, u)
      weighted == data.collateral * (data.liquidationThreshold + 1) + CollateralDust(u)
      owed     == data.debt - DebtDust(u)
  IN  HealthFactor(weighted, IF owed > 0 THEN owed ELSE 0, 1)

(* While prices and time stand still no call makes a healthy position      *)
(* liquidatable: neither its owner's withdrawals, borrows, transfers and   *)
(* collateral switches, nor anything another user does to it.              *)
NobodyMadeUnhealthy ==
  [][now' = now /\ price' = price =>
       \A u \in Users : Health(u) >= WAD => HealthWithDust(u)' >= WAD]_vars

(* Only an unhealthy position, or its owner, loses aTokens or gains debt;  *)
(* a delegate's borrow spends the allowance it was given.                  *)
LosesTokens(u, a) == reserves'[a].aBalance[u] < reserves[a].aBalance[u]
GainsDebt(u, a)   == reserves'[a].dBalance[u] > reserves[a].dBalance[u]

OwnerMoves(u, a) ==
  \/ \E x \in Amounts \cup {MAX_UINT} : Withdraw(u, a, x)
  \/ \E v \in Users, x \in Amounts : Transfer(u, v, a, x)

DelegateSpends(u, a) ==
  \E v \in Users \ {u} : borrowAllowance'[a][u][v] < borrowAllowance[a][u][v]

ByConsent ==
  \A u \in Users, a \in Assets :
    /\ LosesTokens(u, a) => Health(u) < WAD \/ OwnerMoves(u, a)
    /\ GainsDebt(u, a) => DelegateSpends(u, a) \/ \E x \in Amounts : Borrow(u, a, u, x)

HealthyAreLeftAlone == [][ByConsent]_vars

(* What a liquidator would pay for all of a position's collateral.         *)
ValueNetOfBonus(u) ==
  SumFunction([a \in CountedCollateral(reserves, usersConfig[u]) |->
                 PercentDiv(CollateralInBase(reserves, price, a, u, now),
                            reserves[a].configuration.liquidationBonus)])

(* The configurator bounds threshold times bonus so that "at the moment a  *)
(* loan is taken there is enough collateral available to cover the         *)
(* liquidation bonus": it holds of every borrow, to the hundredth of a     *)
(* percent the configurator's own product rounds to, and rounding.         *)
LoansCoverBonus ==
  [][\A u \in Users :
       (\E a \in Assets : GainsDebt(u, a)) =>
          AccountData(reserves, u).debt'
            <= (PercentMul(ValueNetOfBonus(u), PERCENTAGE_FACTOR + 1) + DebtDust(u))'
                 + Cardinality(Assets)]_vars
=============================================================================
