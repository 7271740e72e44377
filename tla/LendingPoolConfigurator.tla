---------------------- MODULE LendingPoolConfigurator ----------------------
(***************************************************************************)
(* LendingPoolConfigurator.sol: the administrators change a live pool,     *)
(* between any two calls of its users.  Every action reads a reserve's     *)
(* configuration, changes a field and writes it back; none touches the     *)
(* indexes, the rates or the time of the last update.  Who the admins are  *)
(* is outside the model: an action is a call that passed onlyPoolAdmin or  *)
(* onlyEmergencyAdmin.  The reserves are those Init lists; the stable-rate *)
(* switches change a flag nobody reads.                                    *)
(***************************************************************************)
EXTENDS PoolProperties

CONSTANTS CollateralParameters,  \* [ltv, liquidationThreshold, liquidationBonus] to configure
          ReserveFactors,        \* reserve factors to set
          SupplyCaps, BorrowCaps,
          NewStrategies          \* rate strategies to switch to

ASSUME ConfiguratorConstants ==
  /\ CollateralParameters \subseteq
       [ltv : Nat, liquidationThreshold : Nat, liquidationBonus : Nat]
  /\ ReserveFactors \subseteq Nat
  /\ SupplyCaps \subseteq Nat
  /\ BorrowCaps \subseteq Nat
  /\ NewStrategies \subseteq Strategy

UNCHANGED_POSITIONS == UNCHANGED <<usersConfig, borrowAllowance, price, now>>

SetConfiguration(a, c) ==
  /\ reserves' = [reserves EXCEPT ![a].configuration = c]
  /\ UNCHANGED paused
  /\ UNCHANGED_POSITIONS

(* A seeded fault: half of the check. *)
CheckNoCash(a) == reserves[a].cash = 0

(* _checkNoLiquidity looks at the cash and at the stored rate, not at what *)
(* the depositors hold.                                                    *)
CheckNoLiquidity(a) == reserves[a].cash = 0 /\ reserves[a].liquidityRate = 0

EnableBorrowingOnReserve(a) ==
  SetConfiguration(a, [reserves[a].configuration EXCEPT !.borrowingEnabled = TRUE])

DisableBorrowingOnReserve(a) ==
  SetConfiguration(a, [reserves[a].configuration EXCEPT !.borrowingEnabled = FALSE])

ConfigureReserveAsCollateral(a, p) ==
  /\ p.ltv <= p.liquidationThreshold
  /\ IF p.liquidationThreshold # 0
     THEN /\ p.liquidationBonus > PERCENTAGE_FACTOR
          /\ PercentMul(p.liquidationThreshold, p.liquidationBonus) <= PERCENTAGE_FACTOR
     ELSE p.liquidationBonus = 0 /\ CheckNoLiquidity(a)
  /\ SetConfiguration(a, [reserves[a].configuration EXCEPT
                            !.ltv = p.ltv,
                            !.liquidationThreshold = p.liquidationThreshold,
                            !.liquidationBonus = p.liquidationBonus])

ActivateReserve(a) ==
  SetConfiguration(a, [reserves[a].configuration EXCEPT !.active = TRUE])

DeactivateReserve(a) ==
  /\ CheckNoLiquidity(a)
  /\ SetConfiguration(a, [reserves[a].configuration EXCEPT !.active = FALSE])

FreezeReserve(a) ==
  SetConfiguration(a, [reserves[a].configuration EXCEPT !.frozen = TRUE])

UnfreezeReserve(a) ==
  SetConfiguration(a, [reserves[a].configuration EXCEPT !.frozen = FALSE])

SetReserveFactor(a, factor) ==
  SetConfiguration(a, [reserves[a].configuration EXCEPT !.reserveFactor = factor])

SetBorrowCap(a, cap) ==
  SetConfiguration(a, [reserves[a].configuration EXCEPT !.borrowCap = cap])

SetSupplyCap(a, cap) ==
  SetConfiguration(a, [reserves[a].configuration EXCEPT !.supplyCap = cap])

SetReserveInterestRateStrategyAddress(a, s) ==
  /\ reserves' = [reserves EXCEPT ![a].strategy = s]
  /\ UNCHANGED paused
  /\ UNCHANGED_POSITIONS

SetPoolPause(val) ==
  /\ paused' = val
  /\ UNCHANGED reserves
  /\ UNCHANGED_POSITIONS

Administer ==
  \/ \E a \in Assets : EnableBorrowingOnReserve(a)
  \/ \E a \in Assets : DisableBorrowingOnReserve(a)
  \/ \E a \in Assets, p \in CollateralParameters : ConfigureReserveAsCollateral(a, p)
  \/ \E a \in Assets : ActivateReserve(a)
  \/ \E a \in Assets : DeactivateReserve(a)
  \/ \E a \in Assets : FreezeReserve(a)
  \/ \E a \in Assets : UnfreezeReserve(a)
  \/ \E a \in Assets, f \in ReserveFactors : SetReserveFactor(a, f)
  \/ \E a \in Assets, cap \in BorrowCaps : SetBorrowCap(a, cap)
  \/ \E a \in Assets, cap \in SupplyCaps : SetSupplyCap(a, cap)
  \/ \E a \in Assets, s \in NewStrategies : SetReserveInterestRateStrategyAddress(a, s)
  \/ \E val \in BOOLEAN : SetPoolPause(val)

ConfiguratorNext == Next \/ Administer

ConfiguratorSpec == Init /\ [][ConfiguratorNext]_vars

-----------------------------------------------------------------------------
(* The calls that are to be made of empty reserves only: an inactive       *)
(* reserve neither repays its depositors nor lets its borrowers repay, and *)
(* one that stops being collateral leaves its depositors' loans bare.      *)
Closes(a) ==
  LET old == reserves[a].configuration
      new == reserves'[a].configuration
  IN  \/ old.active /\ ~new.active
      \/ old.liquidationThreshold # 0 /\ new.liquidationThreshold = 0

(* Nobody's money is in a reserve.  What may remain is rounding.           *)
Empty(a) == Claims(a) <= RoundingDust(a) /\ TotalDebt(reserves[a], now) = 0

(* freezeReserve: no new deposit and no new borrow while withdrawals,      *)
(* repayments and liquidations go on; the treasury's share still grows.    *)
FrozenOnlyShrinks ==
  [][\A a \in Assets :
       reserves[a].configuration.frozen =>
         /\ reserves'[a].dSupply <= reserves[a].dSupply
         /\ reserves'[a].aSupply - reserves'[a].aBalance[Treasury]
              <= reserves[a].aSupply - reserves[a].aBalance[Treasury]]_vars

(* The interest of a reserve not yet accrued, and by how much a change of  *)
(* its configuration changes the treasury's share.                         *)
InterestPending(a) ==
  RayMul(reserves[a].dSupply, Settled(a).variableBorrowIndex)
    - RayMul(reserves[a].dSupply, reserves[a].variableBorrowIndex)

ShareChange(a) ==
  LET old == reserves[a].configuration.reserveFactor
      new == reserves'[a].configuration.reserveFactor
  IN  IF new > old THEN new - old ELSE old - new

(* The treasury's share, and its mint, round half up once before and once  *)
(* after the change.                                                       *)
ShareDust(a) == Settled(a).liquidityIndex \div RAY + 3

(* setReserveFactor does not accrue first: the next accrual pays the       *)
(* treasury the new share of interest of which the depositors are paid the *)
(* old rate (LendingPoolConfigurator.sol:427).  That is all a call that     *)
(* changes a configuration ever moves between depositors, borrowers and    *)
(* treasury: the change of the share, of the interest not yet accrued.     *)
AdminMovesOnlyShareChange ==
  [][\A a \in Assets :
       reserves'[a].configuration # reserves[a].configuration =>
         LET moved == PercentMul(InterestPending(a), ShareChange(a)) + ShareDust(a)
         IN  Deficit(a)' - Deficit(a) \in -moved .. moved]_vars
=============================================================================
