---------------------------- MODULE ReserveLogic ----------------------------
(***************************************************************************)
(* One reserve of the pool and the operations on it, as pure operators     *)
(* from a reserve to the reserve after the call: ReserveLogic.sol and the  *)
(* state-changing calls of its two tokens, AToken.sol and                  *)
(* VariableDebtToken.sol.  An operation that can revert comes with a       *)
(* predicate (Can...) that says when it does not.                          *)
(*                                                                         *)
(* Balances are stored scaled, that is divided by the index of the time    *)
(* they were minted at; what a user owns or owes is the scaled balance     *)
(* times the current index.                                                *)
(***************************************************************************)
EXTENDS InterestRateStrategy, FiniteSets

CONSTANTS Users,     \* addresses that call the pool
          Treasury   \* address that receives the protocol's share of interest

(* An address is one of 2^160. *)
ASSUME FinitelyManyUsers == IsFiniteSet(Users)

Accounts == Users \cup {Treasury}

(* ReserveConfiguration's bitmap; `unit` is 10^decimals, a cap of 0 is no  *)
(* cap and caps are in whole tokens.                                       *)
Configuration ==
  [active : BOOLEAN, frozen : BOOLEAN, borrowingEnabled : BOOLEAN,
   ltv : Nat, liquidationThreshold : Nat, liquidationBonus : Nat,
   reserveFactor : Nat, borrowCap : Nat, supplyCap : Nat, unit : Nat \ {0}]

(* DataTypes.ReserveData together with the storage of the reserve's aToken *)
(* and variable debt token, and the underlying the aToken holds (cash).    *)
Reserve ==
  [configuration       : Configuration,
   strategy            : Strategy,
   liquidityIndex      : Nat,
   variableBorrowIndex : Nat,
   liquidityRate       : Nat,
   borrowRate          : Nat,
   lastUpdate          : Nat,
   aBalance            : [Accounts -> Nat],
   aSupply             : Nat,
   dBalance            : [Users -> Nat],
   dSupply             : Nat,
   cash                : Nat]

(* A reserve just listed: init() sets both indexes to one ray; the rest is *)
(* the zero storage of a fresh proxy.                                      *)
InitReserve(configuration, strategy) ==
  [configuration |-> configuration, strategy |-> strategy,
   liquidityIndex |-> RAY, variableBorrowIndex |-> RAY,
   liquidityRate |-> 0, borrowRate |-> 0, lastUpdate |-> 0,
   aBalance |-> [u \in Accounts |-> 0], aSupply |-> 0,
   dBalance |-> [u \in Users |-> 0], dSupply |-> 0, cash |-> 0]

-----------------------------------------------------------------------------
(* Views: what the stored state is worth at time t. *)

NormalizedIncome(r, t) ==
  IF r.lastUpdate = t
  THEN r.liquidityIndex
  ELSE RayMul(LinearInterest(r.liquidityRate, t - r.lastUpdate), r.liquidityIndex)

(* A seeded fault: the debt as of the last update. *)
NormalizedDebtStale(r, t) == r.variableBorrowIndex

NormalizedDebt(r, t) ==
  IF r.lastUpdate = t
  THEN r.variableBorrowIndex
  ELSE RayMul(CompoundedInterest(r.borrowRate, t - r.lastUpdate), r.variableBorrowIndex)

BalanceOf(r, u, t) == RayMul(r.aBalance[u], NormalizedIncome(r, t))
DebtOf(r, u, t)    == RayMul(r.dBalance[u], NormalizedDebt(r, t))
TotalSupply(r, t)  == RayMul(r.aSupply, NormalizedIncome(r, t))
TotalDebt(r, t)    == RayMul(r.dSupply, NormalizedDebt(r, t))

-----------------------------------------------------------------------------
(* updateState *)

(* A seeded fault: the borrow index grows from the wrong index. *)
UpdateIndexesCrossed(r, t) ==
  LET elapsed == t - r.lastUpdate
  IN  IF r.liquidityRate = 0
      THEN [r EXCEPT !.lastUpdate = t]
      ELSE [r EXCEPT
             !.liquidityIndex = RayMul(LinearInterest(r.liquidityRate, elapsed), @),
             !.variableBorrowIndex =
                IF r.dSupply # 0
                THEN RayMul(CompoundedInterest(r.borrowRate, elapsed), r.liquidityIndex)
                ELSE @,
             !.lastUpdate = t]

(* _updateIndexes: both indexes stand still while the liquidity rate is 0, *)
(* the borrow index also while nobody owes; the timestamp always moves.    *)
UpdateIndexes(r, t) ==
  LET earning == r.liquidityRate > 0
      elapsed == t - r.lastUpdate
  IN  [r EXCEPT
        !.liquidityIndex =
           IF earning THEN RayMul(LinearInterest(r.liquidityRate, elapsed), @) ELSE @,
        !.variableBorrowIndex =
           IF earning /\ r.dSupply # 0
           THEN RayMul(CompoundedInterest(r.borrowRate, elapsed), @)
           ELSE @,
        !.lastUpdate = t]

(* A seeded fault: the share is taken of the whole debt. *)
AmountToTreasuryOfDebt(r, n) ==
  PercentMul(RayMul(r.dSupply, n.variableBorrowIndex), r.configuration.reserveFactor)

(* _mintToTreasury: r is the reserve before its indexes moved to those of  *)
(* n.  No check that the scaled amount is positive, unlike a user's mint.  *)
AmountToTreasury(r, n) ==
  PercentMul(RayMul(r.dSupply, n.variableBorrowIndex)
               - RayMul(r.dSupply, r.variableBorrowIndex),
             r.configuration.reserveFactor)

MintToTreasury(r, n) ==
  LET scaled == RayDiv(AmountToTreasury(r, n), n.liquidityIndex)
  IN  IF r.configuration.reserveFactor = 0
      THEN n
      ELSE [n EXCEPT !.aBalance[Treasury] = @ + scaled, !.aSupply = @ + scaled]

UpdateState(r, t) == MintToTreasury(r, UpdateIndexes(r, t))

-----------------------------------------------------------------------------
(* cumulateToLiquidityIndex: an income of `amount` for all depositors.     *)

CanCumulate(totalLiquidity) == totalLiquidity # 0

CumulateToLiquidityIndex(r, totalLiquidity, amount) ==
  [r EXCEPT !.liquidityIndex =
     RayMul(RAY + RayDiv(WadToRay(amount), WadToRay(totalLiquidity)), @)]

-----------------------------------------------------------------------------
(* updateInterestRates: the rates for the liquidity the reserve will have  *)
(* once `added` has come in and `taken` has left.                          *)

CanUpdateInterestRates(r, added, taken) ==
  /\ taken <= r.cash + added
  /\ r.configuration.reserveFactor <= PERCENTAGE_FACTOR

(* A seeded fault: the rates of the liquidity before the withdrawal. *)
UpdateInterestRatesBeforeTaken(r, added, taken) ==
  LET debt == RayMul(r.dSupply, r.variableBorrowIndex)
  IN  [r EXCEPT
        !.borrowRate =
           VariableBorrowRate(r.strategy, UtilizationRate(r.cash + added, debt)),
        !.liquidityRate =
           LiquidityRate(r.strategy, r.cash + added, debt, r.configuration.reserveFactor)]

UpdateInterestRates(r, added, taken) ==
  LET liquidity == r.cash + added - taken
      debt      == RayMul(r.dSupply, r.variableBorrowIndex)
  IN  [r EXCEPT
        !.borrowRate =
           VariableBorrowRate(r.strategy, UtilizationRate(liquidity, debt)),
        !.liquidityRate =
           LiquidityRate(r.strategy, liquidity, debt, r.configuration.reserveFactor)]

-----------------------------------------------------------------------------
(* AToken: mint, burn and _transfer, on the index the caller passes.       *)

CanMintAToken(r, amount) == RayDiv(amount, r.liquidityIndex) # 0

(* A seeded fault: the amount is minted as if it were scaled. *)
MintATokenUnscaled(r, u, amount) ==
  [r EXCEPT !.aBalance[u] = @ + amount, !.aSupply = @ + amount]

MintAToken(r, u, amount) ==
  LET scaled == RayDiv(amount, r.liquidityIndex)
  IN  [r EXCEPT !.aBalance[u] = @ + scaled, !.aSupply = @ + scaled]

CanBurnAToken(r, u, amount) ==
  /\ RayDiv(amount, r.liquidityIndex) \in 1 .. r.aBalance[u]
  /\ RayDiv(amount, r.liquidityIndex) <= r.aSupply
  /\ amount <= r.cash

(* burn also sends the underlying away. *)
BurnAToken(r, u, amount) ==
  LET scaled == RayDiv(amount, r.liquidityIndex)
  IN  [r EXCEPT !.aBalance[u] = @ - scaled, !.aSupply = @ - scaled, !.cash = @ - amount]

CanTransferAToken(r, from, amount, t) ==
  RayDiv(amount, NormalizedIncome(r, t)) <= r.aBalance[from]

(* A seeded fault: both balances are read before either is written, so a   *)
(* transfer to oneself creates tokens.                                     *)
TransferATokenReadFirst(r, from, to, amount, t) ==
  LET scaled == RayDiv(amount, NormalizedIncome(r, t))
      less   == [r.aBalance EXCEPT ![from] = @ - scaled]
  IN  [r EXCEPT !.aBalance = [less EXCEPT ![to] = r.aBalance[to] + scaled]]

TransferAToken(r, from, to, amount, t) ==
  LET scaled == RayDiv(amount, NormalizedIncome(r, t))
      less   == [r.aBalance EXCEPT ![from] = @ - scaled]
  IN  [r EXCEPT !.aBalance = [less EXCEPT ![to] = @ + scaled]]

(* VariableDebtToken: mint and burn. *)

CanMintDebt(r, amount) == RayDiv(amount, r.variableBorrowIndex) # 0

MintDebt(r, u, amount) ==
  LET scaled == RayDiv(amount, r.variableBorrowIndex)
  IN  [r EXCEPT !.dBalance[u] = @ + scaled, !.dSupply = @ + scaled]

CanBurnDebt(r, u, amount) ==
  /\ RayDiv(amount, r.variableBorrowIndex) \in 1 .. r.dBalance[u]
  /\ RayDiv(amount, r.variableBorrowIndex) <= r.dSupply

(* A seeded fault: the supply is reduced by the unscaled amount. *)
BurnDebtUnscaled(r, u, amount) ==
  LET scaled == RayDiv(amount, r.variableBorrowIndex)
  IN  [r EXCEPT !.dBalance[u] = @ - scaled, !.dSupply = @ - amount]

BurnDebt(r, u, amount) ==
  LET scaled == RayDiv(amount, r.variableBorrowIndex)
  IN  [r EXCEPT !.dBalance[u] = @ - scaled, !.dSupply = @ - scaled]

(* The underlying arriving at, or leaving, the aToken contract. *)
Receive(r, amount) == [r EXCEPT !.cash = @ + amount]
Release(r, amount) == [r EXCEPT !.cash = @ - amount]
=============================================================================
