------------------------- MODULE LendingPoolProofs --------------------------
(***************************************************************************)
(* LendingPool, for any number of users and assets, any configurations,    *)
(* strategies, prices, amounts and fixed-point scales.                     *)
(*                                                                         *)
(* First the inductive invariant and what follows from it.  Then the       *)
(* accounts.  The books: each supply is the sum of its balances, and no    *)
(* call leaves more to be claimed than backs it, beyond the rounding of    *)
(* two operations.  The rates: those stored are the rates of the liquidity *)
(* a reserve has, as long as no liquidation takes its collateral from the  *)
(* reserve whose debt it repays.  Last, health: no call makes a healthy    *)
(* position liquidatable, and every loan is covered net of the bonus.      *)
(***************************************************************************)
EXTENDS PoolProperties, ReserveLogicProofs

(* TypeOK is inductive only with the indexes bounded below and no reserve  *)
(* updated in the future; the borrowing flags only with both.              *)
Inv ==
  /\ TypeOK
  /\ AllWellFormed(reserves, now)
  /\ BorrowFlagTracksDebt

-----------------------------------------------------------------------------
LEMMA WellFormedLater ==
  ASSUME NEW r, NEW t \in Nat, NEW s \in Nat, t <= s, WellFormed(r, t)
  PROVE  WellFormed(r, s)
BY ReserveFields DEF WellFormed

LEMMA ReplaceReserve ==
  ASSUME NEW R, NEW t \in Nat, AllWellFormed(R, t), NEW a \in Assets, NEW n, WellFormed(n, t)
  PROVE  LET S == [R EXCEPT ![a] = n]
         IN  /\ AllWellFormed(S, t)
             /\ S[a] = n
             /\ \A b \in Assets \ {a} : S[b] = R[b]
BY DEF AllWellFormed, WellFormed

(* A step of the collateral flags leaves the borrowing flags alone.        *)
KeepsBorrowing(cfg, new) ==
  /\ new \in [Users -> UserConfiguration]
  /\ \A v \in Users : new[v].borrowing = cfg[v].borrowing

LEMMA CollateralFlags ==
  ASSUME NEW cfg \in [Users -> UserConfiguration], NEW u \in Users, NEW a \in Assets
  PROVE  /\ KeepsBorrowing(cfg, SetUsingAsCollateral(cfg, u, a, TRUE))
         /\ KeepsBorrowing(cfg, SetUsingAsCollateral(cfg, u, a, FALSE))
         /\ KeepsBorrowing(cfg, cfg)
BY DEF KeepsBorrowing, SetUsingAsCollateral, UserConfiguration

LEMMA KeepsBorrowingTransitive ==
  ASSUME NEW c, NEW d, NEW e, KeepsBorrowing(c, d), KeepsBorrowing(d, e)
  PROVE  KeepsBorrowing(c, e)
BY DEF KeepsBorrowing

(* Only u's flag for a changes, to what is asked.                          *)
SwitchesBorrowing(cfg, new, u, a, owing) ==
  /\ new \in [Users -> UserConfiguration]
  /\ a \in new[u].borrowing <=> owing
  /\ \A v \in Users, b \in Assets :
       v # u \/ b # a => (b \in new[v].borrowing <=> b \in cfg[v].borrowing)

LEMMA BorrowingFlags ==
  ASSUME NEW cfg \in [Users -> UserConfiguration], NEW u \in Users, NEW a \in Assets
  PROVE  /\ SwitchesBorrowing(cfg, SetBorrowing(cfg, u, a, TRUE), u, a, TRUE)
         /\ SwitchesBorrowing(cfg, SetBorrowing(cfg, u, a, FALSE), u, a, FALSE)
BY DEF SwitchesBorrowing, SetBorrowing, UserConfiguration

LEMMA AmountTypes ==
  /\ \A x \in Amounts : x \in Nat
  /\ \A x \in Amounts \cup {MAX_UINT} : x \in Nat
BY PoolConstants

-----------------------------------------------------------------------------
LEMMA InitInv == Init => Inv
<1> SUFFICES ASSUME Init PROVE Inv
  OBVIOUS
<1>1. /\ Configurations \in [Assets -> Configuration] /\ Strategies \in [Assets -> Strategy]
      /\ reserves = [a \in Assets |-> InitReserve(Configurations[a], Strategies[a])]
      /\ now = 0
  BY PoolConstants DEF Init
<1>2. \A a \in Assets : WellFormed(InitReserve(Configurations[a], Strategies[a]), 0)
  BY <1>1, InitReserveWellFormed
<1>3. AllWellFormed(reserves, now)
  BY <1>1, <1>2 DEF AllWellFormed, WellFormed
<1>4. TypeOK
  <2>1. usersConfig \in [Users -> UserConfiguration]
    BY DEF Init, UserConfiguration
  <2>2. borrowAllowance \in [Assets -> [Users -> [Users -> Nat]]]
    BY DEF Init
  <2>3. price \in [Assets -> Nat \ {0}]
    BY PoolConstants DEF Init
  <2>4. paused \in BOOLEAN
    BY DEF Init
  <2> QED
    BY <1>1, <1>3, <2>1, <2>2, <2>3, <2>4 DEF TypeOK, AllWellFormed
<1>5. BorrowFlagTracksDebt
  BY <1>1 DEF BorrowFlagTracksDebt, InitReserve
<1> QED
  BY <1>3, <1>4, <1>5 DEF Inv

(* Enough for Inv after a step that leaves prices, pause and time alone.   *)
LEMMA InvKept ==
  ASSUME Inv, paused' = paused, price' = price, now' = now,
         AllWellFormed(reserves', now),
         borrowAllowance' \in [Assets -> [Users -> [Users -> Nat]]],
         usersConfig' \in [Users -> UserConfiguration],
         \A u \in Users, a \in Assets :
           \/ reserves'[a].dBalance[u] = 0
           \/ a \in usersConfig'[u].borrowing
           \/ /\ reserves'[a].dBalance[u] <= reserves[a].dBalance[u]
              /\ a \in usersConfig[u].borrowing => a \in usersConfig'[u].borrowing
  PROVE  Inv'
<1>1. BorrowFlagTracksDebt'
  <2> SUFFICES ASSUME NEW u \in Users, NEW a \in Assets, reserves'[a].dBalance[u] > 0
               PROVE  a \in usersConfig'[u].borrowing
    BY DEF BorrowFlagTracksDebt
  <2>1. reserves[a].dBalance[u] \in Nat /\ reserves'[a].dBalance[u] \in Nat
    BY ReserveFields DEF Inv, AllWellFormed
  <2> QED
    BY <2>1 DEF Inv, BorrowFlagTracksDebt
<1>2. paused' \in BOOLEAN
  BY DEF Inv, TypeOK
<1>3. TypeOK'
  BY <1>2 DEF Inv, TypeOK, AllWellFormed
<1> QED
  BY <1>1, <1>3 DEF Inv

(* A step that replaces one reserve by a well-formed one with no smaller   *)
(* index.                                                                  *)
LEMMA OneReserveStep ==
  ASSUME Inv, NEW a \in Assets, NEW n, WellFormed(n, now), IndexesGrow(reserves[a], n),
         reserves' = [reserves EXCEPT ![a] = n]
  PROVE  /\ AllWellFormed(reserves', now) /\ NoIndexShrinks
         /\ reserves'[a] = n
         /\ \A b \in Assets \ {a} : reserves'[b] = reserves[b]
<1>1. AllWellFormed(reserves', now) /\ reserves'[a] = n
      /\ \A b \in Assets \ {a} : reserves'[b] = reserves[b]
  <2>1. reserves \in [Assets -> Reserve] /\ \A b \in Assets : WellFormed(reserves[b], now)
    BY DEF Inv, AllWellFormed
  <2>2. n \in Reserve
    BY DEF WellFormed
  <2>3. reserves' \in [Assets -> Reserve] /\ reserves'[a] = n
        /\ \A b \in Assets \ {a} : reserves'[b] = reserves[b]
    BY <2>1, <2>2
  <2> QED
    BY <2>1, <2>3 DEF AllWellFormed
<1>2. \A b \in Assets : /\ reserves[b].liquidityIndex \in Nat
                        /\ reserves[b].variableBorrowIndex \in Nat
  BY ReserveFields DEF Inv, AllWellFormed
<1> QED
  BY <1>1, <1>2 DEF NoIndexShrinks, IndexesGrow

(* Whose deposits no step shrinks; what may shrink is u's deposit of a,    *)
(* and no debt grows.                                                      *)
NoneLose(us) == \A v \in us, b \in Assets : ~LosesTokens(v, b)
NoneGain     == \A v \in Users, b \in Assets : ~GainsDebt(v, b)

TakesOnlyFrom(u, a) ==
  \A v \in Users, b \in Assets :
    ~GainsDebt(v, b) /\ (v # u \/ b # a => ~LosesTokens(v, b))

LEMMA NothingTaken ==
  ASSUME Inv, AllWellFormed(reserves', now),
         \A a \in Assets, u \in Users :
           /\ reserves'[a].aBalance[u] >= reserves[a].aBalance[u]
           /\ reserves'[a].dBalance[u] <= reserves[a].dBalance[u]
  PROVE  NoneLose(Users) /\ NoneGain /\ ByConsent
<1>1. \A a \in Assets, u \in Users :
        /\ reserves[a].aBalance[u] \in Nat /\ reserves'[a].aBalance[u] \in Nat
        /\ reserves[a].dBalance[u] \in Nat /\ reserves'[a].dBalance[u] \in Nat
  BY ReserveFields DEF Inv, AllWellFormed, Accounts
<1> QED
  BY <1>1 DEF ByConsent, LosesTokens, GainsDebt, NoneLose, NoneGain

LEMMA OnlyOneTaken ==
  ASSUME Inv, AllWellFormed(reserves', now), NEW u \in Users, NEW a \in Assets,
         \A b \in Assets, v \in Users :
           /\ reserves'[b].dBalance[v] <= reserves[b].dBalance[v]
           /\ v # u \/ b # a => reserves'[b].aBalance[v] >= reserves[b].aBalance[v]
  PROVE  TakesOnlyFrom(u, a)
<1>1. \A b \in Assets, v \in Users :
        /\ reserves[b].aBalance[v] \in Nat /\ reserves'[b].aBalance[v] \in Nat
        /\ reserves[b].dBalance[v] \in Nat /\ reserves'[b].dBalance[v] \in Nat
  BY ReserveFields DEF Inv, AllWellFormed, Accounts
<1> QED
  BY <1>1 DEF LosesTokens, GainsDebt, TakesOnlyFrom

LEMMA TakenWithConsent ==
  ASSUME NEW u \in Users, NEW a \in Assets, TakesOnlyFrom(u, a),
         Health(u) < WAD \/ OwnerMoves(u, a)
  PROVE  ByConsent
BY DEF TakesOnlyFrom, ByConsent

LEMMA InvKeptByCollateralFlags ==
  ASSUME Inv, paused' = paused, price' = price, now' = now,
         borrowAllowance' = borrowAllowance,
         AllWellFormed(reserves', now),
         KeepsBorrowing(usersConfig, usersConfig'),
         \A b \in Assets, v \in Users :
           reserves'[b].dBalance[v] <= reserves[b].dBalance[v]
  PROVE  Inv'
<1>1. borrowAllowance' \in [Assets -> [Users -> [Users -> Nat]]]
  BY DEF Inv, TypeOK
<1> QED
  BY <1>1, InvKept DEF KeepsBorrowing

LEMMA BalanceIsNat ==
  ASSUME NEW r, NEW t \in Nat, WellFormed(r, t), NEW u \in Accounts
  PROVE  BalanceOf(r, u, t) \in Nat
<1>1. r.aBalance[u] \in Nat
  BY ReserveFields DEF WellFormed
<1> QED
  BY <1>1, IncomeIsAccrued, RayMulIsNat DEF BalanceOf

-----------------------------------------------------------------------------
(* One lemma per action. *)

LEMMA DepositStep ==
  ASSUME Inv, NEW a \in Assets, NEW x \in Amounts, NEW u \in Users, Deposit(a, x, u)
  PROVE  /\ Inv' /\ NoIndexShrinks /\ ByConsent /\ NoneLose(Users) /\ NoneGain
         /\ KeepsBorrowing(usersConfig, usersConfig')
<1> DEFINE r == reserves[a]
           accrued == UpdateState(r, now)
           priced  == UpdateInterestRates(accrued, x, 0)
           paid    == Receive(priced, x)
           n       == MintAToken(paid, u, x)
<1>1. /\ now \in Nat /\ x \in Nat /\ u \in Accounts /\ r \in Reserve
      /\ WellFormed(r, now)
      /\ CanUpdateInterestRates(accrued, x, 0)
      /\ reserves' = [reserves EXCEPT ![a] = n]
      /\ borrowAllowance' = borrowAllowance
      /\ paused' = paused /\ price' = price /\ now' = now
      /\ usersConfig' = IF paid.aBalance[u] = 0
                        THEN SetUsingAsCollateral(usersConfig, u, a, TRUE)
                        ELSE usersConfig
  BY AmountTypes DEF Inv, TypeOK, AllWellFormed, Deposit, Accounts
<1> HIDE DEF r
<1>2. /\ WellFormed(accrued, now) /\ SamePositions(r, accrued) /\ IndexesGrow(r, accrued)
      /\ \A v \in Accounts : accrued.aBalance[v] >= r.aBalance[v]
  BY <1>1, UpdateStateSound
<1> HIDE DEF accrued
<1>3. /\ WellFormed(priced, now) /\ SamePositions(accrued, priced)
      /\ SameIndexes(accrued, priced) /\ priced.aBalance = accrued.aBalance
  BY <1>1, <1>2, UpdateInterestRatesSound DEF SameIndexes
<1> HIDE DEF priced
<1>4. /\ WellFormed(paid, now) /\ SameIndexes(priced, paid) /\ SameDebts(priced, paid)
      /\ paid.aBalance = priced.aBalance
  BY <1>1, <1>3, CashMoves
<1> HIDE DEF paid
<1>5. /\ WellFormed(n, now) /\ SameIndexes(paid, n) /\ SameDebts(paid, n)
      /\ \A v \in Accounts : n.aBalance[v] >= paid.aBalance[v]
  BY <1>1, <1>4, MintATokenSound
<1> HIDE DEF n
<1>6. /\ IndexesGrow(r, n) /\ n.dBalance = r.dBalance
      /\ \A v \in Accounts : n.aBalance[v] >= r.aBalance[v]
  <2>1. IndexesGrow(r, n) /\ n.dBalance = r.dBalance
    BY <1>2, <1>3, <1>4, <1>5 DEF IndexesGrow, SameIndexes, SamePositions, SameDebts
  <2>2. \A v \in Accounts : r.aBalance[v] \in Nat /\ paid.aBalance[v] \in Nat /\ n.aBalance[v] \in Nat
    BY <1>1, <1>4, <1>5, ReserveFields DEF WellFormed
  <2> QED
    BY <1>2, <1>3, <1>4, <1>5, <2>1, <2>2
<1>7. /\ AllWellFormed(reserves', now) /\ NoIndexShrinks /\ reserves'[a] = n
      /\ \A b \in Assets \ {a} : reserves'[b] = reserves[b]
  BY <1>1, <1>5, <1>6, OneReserveStep DEF r
<1>8. \A b \in Assets, v \in Users :
        /\ reserves'[b].aBalance[v] >= reserves[b].aBalance[v]
        /\ reserves'[b].dBalance[v] <= reserves[b].dBalance[v]
  <2>1. \A b \in Assets, v \in Users :
          reserves[b].aBalance[v] \in Nat /\ reserves[b].dBalance[v] \in Nat
    BY ReserveFields DEF Inv, AllWellFormed, Accounts
  <2> QED
    BY <1>6, <1>7, <2>1 DEF r, Accounts
<1>9. KeepsBorrowing(usersConfig, usersConfig')
  <2>1. usersConfig \in [Users -> UserConfiguration]
    BY DEF Inv, TypeOK
  <2>2. \/ usersConfig' = SetUsingAsCollateral(usersConfig, u, a, TRUE)
        \/ usersConfig' = usersConfig
    BY <1>1
  <2> QED
    BY <2>1, <2>2, CollateralFlags
<1>10. Inv'
  BY <1>1, <1>7, <1>8, <1>9, InvKeptByCollateralFlags
<1>11. ByConsent /\ NoneLose(Users) /\ NoneGain
  BY <1>7, <1>8, NothingTaken
<1> QED
  BY <1>7, <1>9, <1>10, <1>11

LEMMA WithdrawStep ==
  ASSUME Inv, NEW u \in Users, NEW a \in Assets, NEW x \in Nat, Withdraw(u, a, x)
  PROVE  /\ Inv' /\ NoIndexShrinks /\ TakesOnlyFrom(u, a)
         /\ KeepsBorrowing(usersConfig, usersConfig')
<1> DEFINE r == reserves[a]
           balance == BalanceOf(r, u, now)
           taken   == IF x = MAX_UINT THEN balance ELSE x
           accrued == UpdateState(r, now)
           priced  == UpdateInterestRates(accrued, 0, taken)
           n       == BurnAToken(priced, u, taken)
<1>1. /\ now \in Nat /\ x \in Nat /\ u \in Accounts /\ r \in Reserve
      /\ WellFormed(r, now)
      /\ CanUpdateInterestRates(accrued, 0, taken)
      /\ CanBurnAToken(priced, u, taken)
      /\ reserves' = [reserves EXCEPT ![a] = n]
      /\ borrowAllowance' = borrowAllowance
      /\ paused' = paused /\ price' = price /\ now' = now
      /\ usersConfig' = IF taken = balance
                        THEN SetUsingAsCollateral(usersConfig, u, a, FALSE)
                        ELSE usersConfig
  BY DEF Inv, TypeOK, AllWellFormed, Withdraw, Accounts
<1>2. taken \in Nat
  <2>1. balance \in Nat
    BY <1>1, BalanceIsNat
  <2> QED
    BY <1>1, <2>1
<1> HIDE DEF r, taken
<1>3. /\ WellFormed(accrued, now) /\ SamePositions(r, accrued) /\ IndexesGrow(r, accrued)
      /\ \A v \in Accounts : accrued.aBalance[v] >= r.aBalance[v]
  BY <1>1, UpdateStateSound
<1> HIDE DEF accrued
<1>4. /\ WellFormed(priced, now) /\ SamePositions(accrued, priced)
      /\ SameIndexes(accrued, priced) /\ priced.aBalance = accrued.aBalance
  BY <1>1, <1>2, <1>3, UpdateInterestRatesSound DEF SameIndexes
<1> HIDE DEF priced
<1>5. /\ WellFormed(n, now) /\ SameIndexes(priced, n) /\ SameDebts(priced, n)
      /\ \A v \in Accounts \ {u} : n.aBalance[v] = priced.aBalance[v]
  BY <1>1, <1>2, <1>4, BurnATokenSound
<1> HIDE DEF n
<1>6. /\ IndexesGrow(r, n) /\ n.dBalance = r.dBalance
      /\ \A v \in Accounts \ {u} : n.aBalance[v] >= r.aBalance[v]
  BY <1>3, <1>4, <1>5 DEF IndexesGrow, SameIndexes, SamePositions, SameDebts
<1>7. /\ AllWellFormed(reserves', now) /\ NoIndexShrinks /\ reserves'[a] = n
      /\ \A b \in Assets \ {a} : reserves'[b] = reserves[b]
  BY <1>1, <1>5, <1>6, OneReserveStep DEF r
<1>8. KeepsBorrowing(usersConfig, usersConfig')
  <2>1. usersConfig \in [Users -> UserConfiguration]
    BY DEF Inv, TypeOK
  <2>2. \/ usersConfig' = SetUsingAsCollateral(usersConfig, u, a, FALSE)
        \/ usersConfig' = usersConfig
    BY <1>1
  <2> QED
    BY <2>1, <2>2, CollateralFlags
<1>9. \A b \in Assets, v \in Users :
        /\ reserves'[b].dBalance[v] <= reserves[b].dBalance[v]
        /\ v # u \/ b # a => reserves'[b].aBalance[v] >= reserves[b].aBalance[v]
  <2>1. \A b \in Assets, v \in Users :
          reserves[b].aBalance[v] \in Nat /\ reserves[b].dBalance[v] \in Nat
    BY ReserveFields DEF Inv, AllWellFormed, Accounts
  <2> QED
    BY <1>6, <1>7, <2>1 DEF r, Accounts
<1>10. Inv'
  BY <1>1, <1>7, <1>8, <1>9, InvKeptByCollateralFlags
<1>11. TakesOnlyFrom(u, a)
  BY <1>7, <1>9, OnlyOneTaken
<1> QED
  BY <1>7, <1>8, <1>10, <1>11

(* The part of borrow a flash loan shares.                                 *)
LEMMA ExecuteBorrowStep ==
  ASSUME Inv, paused' = paused, price' = price, now' = now,
         NEW caller \in Users, NEW a \in Assets, NEW u \in Users, NEW x \in Nat \ {0},
         NEW released \in Nat, ExecuteBorrow(caller, a, u, x, released)
  PROVE  /\ Inv' /\ NoIndexShrinks /\ AllWellFormed(reserves', now)
         /\ caller # u => borrowAllowance'[a][u][caller] < borrowAllowance[a][u][caller]
         /\ \A b \in Assets, v \in Users :
              /\ reserves'[b].aBalance[v] >= reserves[b].aBalance[v]
              /\ v # u \/ b # a => reserves'[b].dBalance[v] = reserves[b].dBalance[v]
<1> DEFINE r == reserves[a]
           accrued == UpdateState(r, now)
           owed    == MintDebt(accrued, u, x)
           priced  == UpdateInterestRates(owed, 0, released)
           n       == Release(priced, released)
<1>0. /\ now \in Nat /\ x \in Nat /\ x > 0 /\ u \in Accounts /\ r \in Reserve
      /\ WellFormed(r, now)
  BY DEF Inv, TypeOK, AllWellFormed, Accounts
<1>1. /\ CanUpdateInterestRates(owed, 0, released)
      /\ reserves' = [reserves EXCEPT ![a] = n]
      /\ caller # u => x <= borrowAllowance[a][u][caller]
      /\ borrowAllowance' = IF caller # u
                            THEN [borrowAllowance EXCEPT ![a][u][caller] = @ - x]
                            ELSE borrowAllowance
      /\ usersConfig' = IF accrued.dBalance[u] = 0
                        THEN SetBorrowing(usersConfig, u, a, TRUE)
                        ELSE usersConfig
  BY DEF ExecuteBorrow
<1> HIDE DEF r
<1>2. /\ WellFormed(accrued, now) /\ SamePositions(r, accrued) /\ IndexesGrow(r, accrued)
      /\ \A v \in Accounts : accrued.aBalance[v] >= r.aBalance[v]
  BY <1>0, <1>1, UpdateStateSound
<1> HIDE DEF accrued
<1>3. /\ WellFormed(owed, now) /\ SameIndexes(accrued, owed)
      /\ owed.aBalance = accrued.aBalance /\ owed.cash = accrued.cash
      /\ \A v \in Users \ {u} : owed.dBalance[v] = accrued.dBalance[v]
  <2>1. LET m == MintDebt(accrued, u, x)
        IN  /\ WellFormed(m, now) /\ SameIndexes(accrued, m)
            /\ m.aBalance = accrued.aBalance /\ m.cash = accrued.cash
            /\ \A v \in Users \ {u} : m.dBalance[v] = accrued.dBalance[v]
    <3>1. WellFormed(accrued, now) /\ now \in Nat /\ u \in Users /\ x \in Nat
      BY <1>0, <1>2
    <3> QED
      BY ONLY <3>1, MintDebtSound
  <2> QED
    BY <2>1 DEF owed
<1> HIDE DEF owed
<1>4. /\ WellFormed(priced, now) /\ SamePositions(owed, priced)
      /\ SameIndexes(owed, priced) /\ priced.aBalance = owed.aBalance
  BY <1>0, <1>1, <1>3, UpdateInterestRatesSound DEF SameIndexes
<1>5. released <= priced.cash
  <2>1. priced.cash = owed.cash /\ owed.cash \in Nat /\ released <= owed.cash + 0
    BY <1>0, <1>1, <1>3, <1>4, ReserveFields DEF CanUpdateInterestRates, SamePositions, WellFormed
  <2> QED
    BY <2>1
<1> HIDE DEF priced
<1>6. /\ WellFormed(n, now) /\ SameIndexes(priced, n) /\ SameDebts(priced, n)
      /\ n.aBalance = priced.aBalance
  BY <1>0, <1>1, <1>4, <1>5, CashMoves
<1> HIDE DEF n
<1>7. /\ IndexesGrow(r, n)
      /\ \A v \in Users \ {u} : n.dBalance[v] = r.dBalance[v]
      /\ \A v \in Accounts : n.aBalance[v] >= r.aBalance[v]
  BY <1>2, <1>3, <1>4, <1>6 DEF IndexesGrow, SameIndexes, SamePositions, SameDebts
<1>8. /\ AllWellFormed(reserves', now) /\ NoIndexShrinks /\ reserves'[a] = n
      /\ \A b \in Assets \ {a} : reserves'[b] = reserves[b]
  BY <1>0, <1>1, <1>6, <1>7, OneReserveStep DEF r
<1>9. \A b \in Assets, v \in Users :
        /\ reserves'[b].aBalance[v] >= reserves[b].aBalance[v]
        /\ v # u \/ b # a => reserves'[b].dBalance[v] = reserves[b].dBalance[v]
  <2>1. \A b \in Assets, v \in Users : reserves[b].aBalance[v] \in Nat
    BY ReserveFields DEF Inv, AllWellFormed, Accounts
  <2> QED
    BY <1>7, <1>8, <2>1 DEF r, Accounts
<1>10. /\ borrowAllowance' \in [Assets -> [Users -> [Users -> Nat]]]
       /\ caller # u => borrowAllowance'[a][u][caller] < borrowAllowance[a][u][caller]
  <2>1. borrowAllowance \in [Assets -> [Users -> [Users -> Nat]]]
    BY DEF Inv, TypeOK
  <2>2. CASE caller = u
    BY <1>0, <1>1, <2>1, <2>2
  <2>3. CASE caller # u
    <3>1. /\ borrowAllowance[a][u][caller] \in Nat
          /\ borrowAllowance[a][u][caller] - x \in Nat
          /\ borrowAllowance[a][u][caller] - x < borrowAllowance[a][u][caller]
      BY <1>0, <1>1, <2>1, <2>3
    <3>2. borrowAllowance' = [borrowAllowance EXCEPT
                                ![a][u][caller] = borrowAllowance[a][u][caller] - x]
      BY <1>0, <1>1, <2>3
    <3> QED
      BY <2>1, <3>1, <3>2
  <2> QED
    BY <2>2, <2>3
<1>11. /\ usersConfig' \in [Users -> UserConfiguration]
       /\ \A b \in Assets, v \in Users :
            b \in usersConfig[v].borrowing => b \in usersConfig'[v].borrowing
       /\ a \in usersConfig'[u].borrowing
  <2>1. usersConfig \in [Users -> UserConfiguration]
    BY DEF Inv, TypeOK
  <2>2. CASE accrued.dBalance[u] = 0
    <3>1. usersConfig' = SetBorrowing(usersConfig, u, a, TRUE)
      BY <1>1, <2>2
    <3>2. SwitchesBorrowing(usersConfig, usersConfig', u, a, TRUE)
      BY <2>1, <3>1, BorrowingFlags
    <3> QED
      BY <3>2 DEF SwitchesBorrowing
  <2>3. CASE accrued.dBalance[u] # 0
    <3>1. usersConfig' = usersConfig
      BY <1>0, <1>1, <2>3
    <3>2. r.dBalance[u] # 0 /\ r.dBalance[u] \in Nat
      BY <1>0, <1>1, <1>2, <2>3, ReserveFields DEF SamePositions
    <3>3. a \in usersConfig[u].borrowing
      BY <3>2 DEF Inv, BorrowFlagTracksDebt, r
    <3> QED
      BY <2>1, <3>1, <3>3
  <2> QED
    BY <2>2, <2>3
<1>12. Inv'
  <2>1. \A v \in Users, b \in Assets :
          \/ reserves'[b].dBalance[v] = 0
          \/ b \in usersConfig'[v].borrowing
          \/ /\ reserves'[b].dBalance[v] <= reserves[b].dBalance[v]
             /\ b \in usersConfig[v].borrowing => b \in usersConfig'[v].borrowing
    <3>1. \A b \in Assets, v \in Users : reserves[b].dBalance[v] \in Nat
      BY ReserveFields DEF Inv, AllWellFormed
    <3> QED
      BY <1>9, <1>11, <3>1
  <2> QED
    BY <1>0, <1>1, <1>8, <1>10, <1>11, <2>1, InvKept
<1> QED
  BY <1>8, <1>9, <1>10, <1>12

LEMMA BorrowStep ==
  ASSUME Inv, NEW caller \in Users, NEW a \in Assets, NEW u \in Users, NEW x \in Amounts,
         Borrow(caller, a, u, x)
  PROVE  Inv' /\ NoIndexShrinks /\ ByConsent /\ NoneLose(Users)
<1>1. /\ x \in Nat \ {0} /\ x \in Nat /\ ExecuteBorrow(caller, a, u, x, x)
      /\ paused' = paused /\ price' = price /\ now' = now
  BY PoolConstants DEF Borrow
<1>2. /\ Inv' /\ NoIndexShrinks /\ AllWellFormed(reserves', now)
      /\ caller # u => borrowAllowance'[a][u][caller] < borrowAllowance[a][u][caller]
      /\ \A b \in Assets, v \in Users :
           /\ reserves'[b].aBalance[v] >= reserves[b].aBalance[v]
           /\ v # u \/ b # a => reserves'[b].dBalance[v] = reserves[b].dBalance[v]
  BY <1>1, ExecuteBorrowStep
<1>3. \A b \in Assets, v \in Users :
        ~LosesTokens(v, b) /\ (v # u \/ b # a => ~GainsDebt(v, b))
  <2>1. \A b \in Assets, v \in Users :
          /\ reserves[b].aBalance[v] \in Nat /\ reserves'[b].aBalance[v] \in Nat
          /\ reserves[b].dBalance[v] \in Nat
    BY <1>2, ReserveFields DEF Inv, AllWellFormed, Accounts
  <2> QED
    BY <1>2, <2>1 DEF LosesTokens, GainsDebt
<1>4. DelegateSpends(u, a) \/ \E y \in Amounts : Borrow(u, a, u, y)
  BY <1>2 DEF DelegateSpends
<1> QED
  BY <1>2, <1>3, <1>4 DEF ByConsent, NoneLose

LEMMA RepayStep ==
  ASSUME Inv, NEW caller \in Users, NEW a \in Assets, NEW u \in Users, NEW x \in Nat,
         Repay(caller, a, u, x)
  PROVE  Inv' /\ NoIndexShrinks /\ ByConsent /\ NoneLose(Users) /\ NoneGain
<1> DEFINE r == reserves[a]
           debt    == DebtOf(r, u, now)
           payback == IF x < debt THEN x ELSE debt
           accrued == UpdateState(r, now)
           burned  == BurnDebt(accrued, u, payback)
           priced  == UpdateInterestRates(burned, payback, 0)
           n       == Receive(priced, payback)
<1>0. /\ now \in Nat /\ x \in Nat /\ u \in Accounts /\ r \in Reserve
      /\ WellFormed(r, now)
  BY DEF Inv, TypeOK, AllWellFormed, Accounts
<1>1. /\ CanBurnDebt(accrued, u, payback)
      /\ CanUpdateInterestRates(burned, payback, 0)
      /\ reserves' = [reserves EXCEPT ![a] = n]
      /\ borrowAllowance' = borrowAllowance
      /\ paused' = paused /\ price' = price /\ now' = now
      /\ usersConfig' = IF debt = payback
                        THEN SetBorrowing(usersConfig, u, a, FALSE)
                        ELSE usersConfig
  BY DEF Repay
<1> HIDE DEF r
<1>2. /\ debt \in Nat
      /\ RayDiv(debt, accrued.variableBorrowIndex) >= r.dBalance[u]
      /\ RayDiv(debt, accrued.variableBorrowIndex) \in Nat
  BY <1>0, DebtScalesBack
<1> HIDE DEF debt
<1>3. payback \in Nat
  BY <1>0, <1>2
<1> HIDE DEF payback
<1>4. /\ WellFormed(accrued, now) /\ SamePositions(r, accrued) /\ IndexesGrow(r, accrued)
      /\ \A v \in Accounts : accrued.aBalance[v] >= r.aBalance[v]
  BY <1>0, UpdateStateSound
<1> HIDE DEF accrued
<1>5. /\ WellFormed(burned, now) /\ SameIndexes(accrued, burned)
      /\ burned.aBalance = accrued.aBalance
      /\ burned.dBalance[u] = accrued.dBalance[u] - RayDiv(payback, accrued.variableBorrowIndex)
      /\ \A v \in Users : burned.dBalance[v] <= accrued.dBalance[v]
  BY <1>0, <1>1, <1>3, <1>4, BurnDebtSound
<1> HIDE DEF burned
<1>6. /\ WellFormed(priced, now) /\ SamePositions(burned, priced)
      /\ SameIndexes(burned, priced) /\ priced.aBalance = burned.aBalance
  BY <1>0, <1>1, <1>3, <1>5, UpdateInterestRatesSound DEF SameIndexes
<1> HIDE DEF priced
<1>7. /\ WellFormed(n, now) /\ SameIndexes(priced, n) /\ SameDebts(priced, n)
      /\ n.aBalance = priced.aBalance
  BY <1>0, <1>3, <1>6, CashMoves
<1> HIDE DEF n
<1>8. /\ IndexesGrow(r, n)
      /\ \A v \in Users : n.dBalance[v] <= r.dBalance[v]
      /\ \A v \in Accounts : n.aBalance[v] >= r.aBalance[v]
  BY <1>4, <1>5, <1>6, <1>7 DEF IndexesGrow, SameIndexes, SamePositions, SameDebts
<1>9. debt = payback => n.dBalance[u] = 0
  <2>1. n.dBalance[u] = r.dBalance[u] - RayDiv(payback, accrued.variableBorrowIndex)
    BY <1>4, <1>5, <1>6, <1>7 DEF SamePositions, SameDebts
  <2>2. r.dBalance[u] \in Nat /\ n.dBalance[u] \in Nat
    BY <1>0, <1>7, ReserveFields DEF WellFormed
  <2> QED
    BY <1>2, <2>1, <2>2
<1>10. /\ AllWellFormed(reserves', now) /\ NoIndexShrinks /\ reserves'[a] = n
       /\ \A b \in Assets \ {a} : reserves'[b] = reserves[b]
  BY <1>0, <1>1, <1>7, <1>8, OneReserveStep DEF r
<1>11. \A b \in Assets, v \in Users :
         /\ reserves'[b].aBalance[v] >= reserves[b].aBalance[v]
         /\ reserves'[b].dBalance[v] <= reserves[b].dBalance[v]
  <2>1. \A b \in Assets, v \in Users :
          reserves[b].aBalance[v] \in Nat /\ reserves[b].dBalance[v] \in Nat
    BY ReserveFields DEF Inv, AllWellFormed, Accounts
  <2> QED
    BY <1>8, <1>10, <2>1 DEF r, Accounts
<1>12. Inv'
  <2>1. usersConfig \in [Users -> UserConfiguration]
        /\ borrowAllowance' \in [Assets -> [Users -> [Users -> Nat]]]
    BY <1>1 DEF Inv, TypeOK
  <2>2. CASE debt = payback
    <3>1. usersConfig' = SetBorrowing(usersConfig, u, a, FALSE)
      BY <1>1, <2>2
    <3>2. SwitchesBorrowing(usersConfig, usersConfig', u, a, FALSE)
      BY <2>1, <3>1, BorrowingFlags
    <3>3. reserves'[a].dBalance[u] = 0
      BY <1>9, <1>10, <2>2
    <3>4. \A v \in Users, b \in Assets :
            \/ reserves'[b].dBalance[v] = 0
            \/ /\ reserves'[b].dBalance[v] <= reserves[b].dBalance[v]
               /\ b \in usersConfig[v].borrowing => b \in usersConfig'[v].borrowing
      BY <1>11, <3>2, <3>3 DEF SwitchesBorrowing
    <3>5. usersConfig' \in [Users -> UserConfiguration]
      BY <3>2 DEF SwitchesBorrowing
    <3> QED
      BY <1>1, <1>10, <2>1, <3>4, <3>5, InvKept
  <2>3. CASE debt # payback
    <3>1. usersConfig' = usersConfig
      BY <1>1, <2>3
    <3> QED
      BY <1>1, <1>10, <1>11, <2>1, <3>1, InvKept
  <2> QED
    BY <2>2, <2>3
<1>13. ByConsent /\ NoneLose(Users) /\ NoneGain
  BY <1>10, <1>11, NothingTaken
<1> QED
  BY <1>10, <1>12, <1>13

(* No reserve moves.                                                       *)
LEMMA ReservesStand ==
  ASSUME Inv, reserves' = reserves, NEW t \in Nat, now <= t
  PROVE  AllWellFormed(reserves', t) /\ NoIndexShrinks /\ ByConsent
<1>1. reserves \in [Assets -> Reserve] /\ now \in Nat
      /\ \A a \in Assets : WellFormed(reserves[a], now)
  BY DEF Inv, AllWellFormed, TypeOK
<1>2. AllWellFormed(reserves', t)
  BY <1>1, WellFormedLater DEF AllWellFormed
<1>3. NoIndexShrinks
  BY <1>1, ReserveFields DEF NoIndexShrinks
<1>4. \A a \in Assets, u \in Users : ~LosesTokens(u, a) /\ ~GainsDebt(u, a)
  BY <1>1, ReserveFields DEF LosesTokens, GainsDebt, Accounts
<1> QED
  BY <1>2, <1>3, <1>4 DEF ByConsent

LEMMA SetUserUseReserveAsCollateralStep ==
  ASSUME Inv, NEW u \in Users, NEW a \in Assets, NEW using \in BOOLEAN,
         SetUserUseReserveAsCollateral(u, a, using)
  PROVE  Inv' /\ NoIndexShrinks /\ ByConsent
<1>1. /\ reserves' = reserves /\ borrowAllowance' = borrowAllowance
      /\ paused' = paused /\ price' = price /\ now' = now
      /\ usersConfig' = SetUsingAsCollateral(usersConfig, u, a, using)
  BY DEF SetUserUseReserveAsCollateral
<1>2. now \in Nat /\ now <= now /\ usersConfig \in [Users -> UserConfiguration]
  BY DEF Inv, TypeOK
<1>3. AllWellFormed(reserves', now) /\ NoIndexShrinks /\ ByConsent
  BY <1>1, <1>2, ReservesStand
<1>4. KeepsBorrowing(usersConfig, usersConfig')
  <2>1. CASE using = TRUE
    BY <1>1, <1>2, <2>1, CollateralFlags
  <2>2. CASE using = FALSE
    BY <1>1, <1>2, <2>2, CollateralFlags
  <2> QED
    BY <2>1, <2>2
<1>5. \A b \in Assets, v \in Users : reserves'[b].dBalance[v] <= reserves[b].dBalance[v]
  BY <1>1, ReserveFields DEF Inv, AllWellFormed
<1> QED
  BY <1>1, <1>3, <1>4, <1>5, InvKeptByCollateralFlags

LEMMA ApproveDelegationStep ==
  ASSUME Inv, NEW u \in Users, NEW v \in Users, NEW a \in Assets, NEW x \in AllowanceAmounts,
         ApproveDelegation(u, v, a, x)
  PROVE  Inv' /\ NoIndexShrinks /\ ByConsent
<1>1. /\ reserves' = reserves /\ usersConfig' = usersConfig
      /\ paused' = paused /\ price' = price /\ now' = now
      /\ borrowAllowance' = [borrowAllowance EXCEPT ![a][u][v] = x]
  BY DEF ApproveDelegation
<1>2. /\ now \in Nat /\ now <= now /\ usersConfig' \in [Users -> UserConfiguration]
      /\ borrowAllowance \in [Assets -> [Users -> [Users -> Nat]]] /\ x \in Nat
  BY <1>1, PoolConstants DEF Inv, TypeOK
<1>3. borrowAllowance' \in [Assets -> [Users -> [Users -> Nat]]]
  BY <1>1, <1>2
<1>4. AllWellFormed(reserves', now) /\ NoIndexShrinks /\ ByConsent
  BY <1>1, <1>2, ReservesStand
<1>5. \A b \in Assets, w \in Users : reserves'[b].dBalance[w] <= reserves[b].dBalance[w]
  BY <1>1, ReserveFields DEF Inv, AllWellFormed
<1> QED
  BY <1>1, <1>2, <1>3, <1>4, <1>5, InvKept

LEMMA EnvironmentStep ==
  ASSUME Inv, Environment
  PROVE  Inv' /\ NoIndexShrinks /\ ByConsent
<1>1. /\ reserves' = reserves /\ usersConfig' = usersConfig
      /\ borrowAllowance' = borrowAllowance /\ paused' = paused
  BY DEF Environment, SetPrice, Tick
<1>2. now \in Nat /\ now' \in Nat /\ now <= now'
  BY DEF Inv, TypeOK, Environment, SetPrice, Tick
<1>3. price' \in [Assets -> Nat \ {0}]
  BY PoolConstants DEF Inv, TypeOK, Environment, SetPrice, Tick
<1>4. AllWellFormed(reserves', now') /\ NoIndexShrinks /\ ByConsent
  BY <1>1, <1>2, ReservesStand
<1>5. paused' \in BOOLEAN
  BY <1>1 DEF Inv, TypeOK
<1>6. TypeOK'
  BY <1>1, <1>2, <1>3, <1>5 DEF Inv, TypeOK
<1>7. BorrowFlagTracksDebt'
  BY <1>1 DEF Inv, BorrowFlagTracksDebt
<1> QED
  BY <1>4, <1>6, <1>7 DEF Inv

LEMMA StutterStep ==
  ASSUME Inv, UNCHANGED vars
  PROVE  Inv' /\ NoIndexShrinks /\ ByConsent
<1>1. /\ reserves' = reserves /\ usersConfig' = usersConfig
      /\ borrowAllowance' = borrowAllowance /\ paused' = paused
      /\ price' = price /\ now' = now
  BY DEF vars
<1>2. now \in Nat /\ now <= now
  BY DEF Inv, TypeOK
<1>3. AllWellFormed(reserves', now') /\ NoIndexShrinks /\ ByConsent
  BY <1>1, <1>2, ReservesStand
<1>4. TypeOK'
  <2>1. paused' \in BOOLEAN
    BY <1>1 DEF Inv, TypeOK
  <2> QED
    BY <1>1, <2>1 DEF Inv, TypeOK
<1>5. BorrowFlagTracksDebt'
  BY <1>1 DEF Inv, BorrowFlagTracksDebt
<1> QED
  BY <1>3, <1>4, <1>5 DEF Inv

LEMMA TransferStep ==
  ASSUME Inv, NEW from \in Users, NEW to \in Users, NEW a \in Assets, NEW x \in Nat,
         Transfer(from, to, a, x)
  PROVE  /\ Inv' /\ NoIndexShrinks /\ TakesOnlyFrom(from, a)
         /\ KeepsBorrowing(usersConfig, usersConfig')
<1> DEFINE r == reserves[a]
           n == TransferAToken(r, from, to, x, now)
           emptied == IF from # to /\ BalanceOf(r, from, now) = x
                      THEN SetUsingAsCollateral(usersConfig, from, a, FALSE)
                      ELSE usersConfig
<1>0. /\ now \in Nat /\ x \in Nat /\ from \in Accounts /\ to \in Accounts /\ r \in Reserve
      /\ WellFormed(r, now) /\ usersConfig \in [Users -> UserConfiguration]
  BY DEF Inv, TypeOK, AllWellFormed, Accounts
<1>1. /\ CanTransferAToken(r, from, x, now)
      /\ reserves' = [reserves EXCEPT ![a] = n]
      /\ borrowAllowance' = borrowAllowance
      /\ paused' = paused /\ price' = price /\ now' = now
      /\ \/ usersConfig' = SetUsingAsCollateral(emptied, to, a, TRUE)
         \/ usersConfig' = emptied
  BY DEF Transfer
<1>2. KeepsBorrowing(usersConfig, usersConfig')
  <2>1. \/ emptied = SetUsingAsCollateral(usersConfig, from, a, FALSE)
        \/ emptied = usersConfig
    OBVIOUS
  <2> HIDE DEF emptied
  <2>2. KeepsBorrowing(usersConfig, emptied)
    BY <1>0, <2>1, CollateralFlags
  <2>3. emptied \in [Users -> UserConfiguration]
    BY <2>2 DEF KeepsBorrowing
  <2>4. KeepsBorrowing(emptied, usersConfig')
    BY <1>1, <2>3, CollateralFlags
  <2> QED
    BY <2>2, <2>4, KeepsBorrowingTransitive
<1> HIDE DEF r, emptied
<1>3. /\ WellFormed(n, now) /\ SameIndexes(r, n) /\ SameDebts(r, n)
      /\ \A v \in Accounts \ {from} : n.aBalance[v] >= r.aBalance[v]
  BY <1>0, <1>1, TransferATokenSound
<1> HIDE DEF n
<1>4. IndexesGrow(r, n) /\ n.dBalance = r.dBalance
  BY <1>0, <1>3, ReserveFields DEF IndexesGrow, SameIndexes, SameDebts
<1>5. /\ AllWellFormed(reserves', now) /\ NoIndexShrinks /\ reserves'[a] = n
      /\ \A b \in Assets \ {a} : reserves'[b] = reserves[b]
  BY <1>0, <1>1, <1>3, <1>4, OneReserveStep DEF r
<1>6. \A b \in Assets, v \in Users :
        /\ reserves'[b].dBalance[v] <= reserves[b].dBalance[v]
        /\ v # from \/ b # a => reserves'[b].aBalance[v] >= reserves[b].aBalance[v]
  <2>1. \A b \in Assets, v \in Users :
          reserves[b].aBalance[v] \in Nat /\ reserves[b].dBalance[v] \in Nat
    BY ReserveFields DEF Inv, AllWellFormed, Accounts
  <2> QED
    BY <1>3, <1>4, <1>5, <2>1 DEF r, Accounts
<1>7. Inv'
  BY <1>1, <1>2, <1>5, <1>6, InvKeptByCollateralFlags
<1>8. TakesOnlyFrom(from, a)
  BY <1>5, <1>6, OnlyOneTaken
<1> QED
  BY <1>2, <1>5, <1>7, <1>8

(* What a liquidation seizes and repays are natural numbers: in particular *)
(* the bonus is never a divisor when it is zero, for nothing is seized     *)
(* beyond the balance then.                                                *)
LEMMA ZeroPercent ==
  ASSUME NEW v \in Nat
  PROVE  PercentMul(v, 0) = 0
<1>1. v * 0 = 0 /\ PERCENTAGE_FACTOR \div 2 \in Nat /\ PERCENTAGE_FACTOR \div 2 < PERCENTAGE_FACTOR
  BY ScalesPositive, QuotientBounds
<1>2. (PERCENTAGE_FACTOR \div 2) \div PERCENTAGE_FACTOR = 0
  BY <1>1, ScalesPositive, QuotientIs
<1> QED
  BY <1>1, <1>2 DEF PercentMul

LEMMA ProductIsPositive ==
  ASSUME NEW x \in Nat \ {0}, NEW y \in Nat \ {0}
  PROVE  x * y \in Nat \ {0}
OBVIOUS

LEMMA ProductIsNat ==
  ASSUME NEW x \in Nat, NEW y \in Nat
  PROVE  x * y \in Nat
OBVIOUS

LEMMA SeizedAndNeededAreNat ==
  ASSUME Inv, NEW c \in Assets, NEW d \in Assets, NEW cover \in Nat, NEW balance \in Nat
  PROVE  /\ AvailableCollateralToLiquidate(c, d, cover, balance).seized \in Nat
         /\ AvailableCollateralToLiquidate(c, d, cover, balance).needed \in Nat
<1> DEFINE bonus == reserves[c].configuration.liquidationBonus
           cUnit == reserves[c].configuration.unit
           dUnit == reserves[d].configuration.unit
           most  == PercentMul(price[d] * cover * cUnit, bonus) \div (price[c] * dUnit)
           base  == (price[c] * balance * dUnit) \div (price[d] * cUnit)
<1>1. /\ bonus \in Nat /\ cUnit \in Nat \ {0} /\ dUnit \in Nat \ {0}
      /\ price[c] \in Nat \ {0} /\ price[d] \in Nat \ {0}
  <2>1. reserves[c].configuration \in Configuration /\ reserves[d].configuration \in Configuration
    BY ReserveFields DEF Inv, AllWellFormed
  <2> QED
    BY <2>1 DEF Inv, TypeOK, Configuration
<1> HIDE DEF bonus, cUnit, dUnit
<1>2. price[d] * cover * cUnit \in Nat /\ price[c] * dUnit \in Nat \ {0}
      /\ price[c] * balance * dUnit \in Nat /\ price[d] * cUnit \in Nat \ {0}
  BY <1>1, ProductIsNat, ProductIsPositive
<1>3. most \in Nat /\ base \in Nat
  BY <1>1, <1>2, PercentMulIsNat, QuotientBounds
<1>4. bonus = 0 => most = 0
  BY <1>2, ZeroPercent, QuotientIs
<1>5. bonus # 0 => PercentDiv(base, bonus) \in Nat
  BY <1>1, <1>3, PercentDivIsNat
<1>6. AvailableCollateralToLiquidate(c, d, cover, balance)
        = IF most > balance
          THEN [seized |-> balance, needed |-> PercentDiv(base, bonus)]
          ELSE [seized |-> most, needed |-> cover]
  BY DEF AvailableCollateralToLiquidate, bonus, cUnit, dUnit
<1> HIDE DEF most, base
<1>7. CASE most > balance
  BY <1>1, <1>3, <1>4, <1>5, <1>6, <1>7
<1>8. CASE ~(most > balance)
  BY <1>3, <1>6, <1>8
<1> QED
  BY <1>7, <1>8

LEMMA LiquidationTypes ==
  ASSUME Inv, NEW c \in Assets, NEW d \in Assets, NEW u \in Users, NEW x \in Nat
  PROVE  /\ Liquidation(c, d, u, x).seized \in Nat
         /\ Liquidation(c, d, u, x).repaid \in Nat
<1> DEFINE debt    == DebtOf(reserves[d], u, now)
           balance == BalanceOf(reserves[c], u, now)
           most    == PercentMul(debt, CLOSE_FACTOR)
           cover   == IF x > most THEN most ELSE x
           avail   == AvailableCollateralToLiquidate(c, d, cover, balance)
<1>1. /\ now \in Nat /\ CLOSE_FACTOR \in Nat /\ u \in Accounts
      /\ WellFormed(reserves[c], now) /\ WellFormed(reserves[d], now)
  BY PoolConstants DEF Inv, TypeOK, AllWellFormed, Accounts
<1>2. debt \in Nat /\ balance \in Nat
  BY <1>1, DebtScalesBack, BalanceIsNat
<1> HIDE DEF debt, balance
<1>3. most \in Nat
  BY <1>1, <1>2, PercentMulIsNat
<1> HIDE DEF most
<1>4. cover \in Nat
  BY <1>3
<1> HIDE DEF cover
<1>5. avail.seized \in Nat /\ avail.needed \in Nat
  BY <1>2, <1>4, SeizedAndNeededAreNat
<1> HIDE DEF avail
<1>6. Liquidation(c, d, u, x)
        = [balance |-> balance, seized |-> avail.seized,
           repaid |-> IF avail.needed < cover THEN avail.needed ELSE cover]
  BY DEF Liquidation, avail, cover, most, balance, debt
<1> QED
  BY <1>4, <1>5, <1>6

(* The debt reserve, the collateral reserve, and the debt reserve again:   *)
(* for reserves R on the way from `reserves` to reserves'.                 *)
OnTheWay(R, u, c) ==
  /\ AllWellFormed(R, now)
  /\ \A b \in Assets :
       /\ IndexesGrow(reserves[b], R[b])
       /\ \A v \in Users :
            /\ R[b].dBalance[v] <= reserves[b].dBalance[v]
            /\ v # u \/ b # c => R[b].aBalance[v] >= reserves[b].aBalance[v]

LEMMA OneMoreReserve ==
  ASSUME Inv, NEW R, NEW u \in Users, NEW c \in Assets, OnTheWay(R, u, c),
         NEW a \in Assets, NEW n, WellFormed(n, now), IndexesGrow(R[a], n),
         \A v \in Users :
           /\ n.dBalance[v] <= R[a].dBalance[v]
           /\ v # u \/ a # c => n.aBalance[v] >= R[a].aBalance[v]
  PROVE  OnTheWay([R EXCEPT ![a] = n], u, c)
<1> DEFINE S == [R EXCEPT ![a] = n]
<1>1. AllWellFormed(R, now) /\ now \in Nat
  BY DEF Inv, TypeOK, OnTheWay
<1>2. /\ AllWellFormed(S, now) /\ S[a] = n
      /\ \A b \in Assets \ {a} : S[b] = R[b]
  BY <1>1, ReplaceReserve
<1> HIDE DEF S
<1>3. \A b \in Assets :
        /\ reserves[b].liquidityIndex \in Nat /\ reserves[b].variableBorrowIndex \in Nat
        /\ R[b].liquidityIndex \in Nat /\ R[b].variableBorrowIndex \in Nat
        /\ S[b].liquidityIndex \in Nat /\ S[b].variableBorrowIndex \in Nat
        /\ \A v \in Users :
             /\ reserves[b].dBalance[v] \in Nat /\ reserves[b].aBalance[v] \in Nat
             /\ R[b].dBalance[v] \in Nat /\ R[b].aBalance[v] \in Nat
             /\ S[b].dBalance[v] \in Nat /\ S[b].aBalance[v] \in Nat
  <2>1. \A b \in Assets : reserves[b] \in Reserve /\ R[b] \in Reserve /\ S[b] \in Reserve
    BY <1>1, <1>2 DEF Inv, AllWellFormed
  <2> QED
    BY <2>1, ReserveFields DEF Accounts
<1>4. \A b \in Assets : IndexesGrow(reserves[b], S[b])
  BY <1>2, <1>3 DEF OnTheWay, IndexesGrow
<1>5. \A b \in Assets, v \in Users :
        /\ S[b].dBalance[v] <= reserves[b].dBalance[v]
        /\ v # u \/ b # c => S[b].aBalance[v] >= reserves[b].aBalance[v]
  BY <1>2, <1>3 DEF OnTheWay
<1> QED
  BY <1>2, <1>4, <1>5 DEF OnTheWay, S

LEMMA LiquidationCallStep ==
  ASSUME Inv, NEW l \in Users, NEW c \in Assets, NEW d \in Assets, NEW u \in Users,
         NEW x \in Amounts \cup {MAX_UINT}, NEW receiveAToken \in BOOLEAN,
         LiquidationCall(l, c, d, u, x, receiveAToken)
  PROVE  /\ Inv' /\ NoIndexShrinks /\ TakesOnlyFrom(u, c) /\ Health(u) < WAD
         /\ KeepsBorrowing(usersConfig, usersConfig')
<1> DEFINE taken    == Liquidation(c, d, u, x).seized
           repaid   == Liquidation(c, d, u, x).repaid
           balance  == Liquidation(c, d, u, x).balance
           accrued  == UpdateState(reserves[d], now)
           burned   == BurnDebt(accrued, u, repaid)
           priced   == UpdateInterestRates(burned, repaid, 0)
           settled  == [reserves EXCEPT ![d] = priced]
           cAccrued == UpdateState(settled[c], now)
           cPriced  == UpdateInterestRates(cAccrued, 0, taken)
           moved    == IF receiveAToken
                       THEN TransferAToken(settled[c], u, l, taken, now)
                       ELSE BurnAToken(cPriced, u, taken)
           seized   == [settled EXCEPT ![c] = moved]
           rewarded == IF receiveAToken /\ BalanceOf(settled[c], l, now) = 0
                       THEN SetUsingAsCollateral(usersConfig, l, c, TRUE)
                       ELSE usersConfig
<1>0. /\ now \in Nat /\ x \in Nat /\ u \in Accounts /\ l \in Accounts
      /\ usersConfig \in [Users -> UserConfiguration]
      /\ AllWellFormed(reserves, now) /\ WellFormed(reserves[d], now)
      /\ taken \in Nat /\ repaid \in Nat
  BY AmountTypes, LiquidationTypes DEF Inv, TypeOK, AllWellFormed, Accounts
<1>1. /\ ValidateLiquidationCall(c, d, u)
      /\ CanBurnDebt(accrued, u, repaid)
      /\ CanUpdateInterestRates(burned, repaid, 0)
      /\ IF receiveAToken
         THEN CanTransferAToken(settled[c], u, taken, now)
         ELSE CanUpdateInterestRates(cAccrued, 0, taken) /\ CanBurnAToken(cPriced, u, taken)
      /\ reserves' = [seized EXCEPT ![d] = Receive(seized[d], repaid)]
      /\ borrowAllowance' = borrowAllowance
      /\ paused' = paused /\ price' = price /\ now' = now
      /\ \/ usersConfig' = SetUsingAsCollateral(rewarded, u, c, FALSE)
         \/ usersConfig' = rewarded
  BY DEF LiquidationCall
<1>2. KeepsBorrowing(usersConfig, usersConfig')
  <2>1. \/ rewarded = SetUsingAsCollateral(usersConfig, l, c, TRUE)
        \/ rewarded = usersConfig
    OBVIOUS
  <2> HIDE DEF rewarded
  <2>2. KeepsBorrowing(usersConfig, rewarded)
    BY <1>0, <2>1, CollateralFlags
  <2>3. rewarded \in [Users -> UserConfiguration]
    BY <2>2 DEF KeepsBorrowing
  <2>4. KeepsBorrowing(rewarded, usersConfig')
    BY <1>1, <2>3, CollateralFlags
  <2> QED
    BY <2>2, <2>4, KeepsBorrowingTransitive
<1> HIDE DEF taken, repaid, balance, rewarded
<1>3. OnTheWay(reserves, u, c)
  <2>1. \A b \in Assets : reserves[b] \in Reserve
    BY <1>0 DEF AllWellFormed
  <2> QED
    BY <1>0, <2>1, ReserveFields DEF OnTheWay, IndexesGrow, Accounts
<1>4. OnTheWay(settled, u, c)
  <2>1. /\ WellFormed(accrued, now) /\ SamePositions(reserves[d], accrued)
        /\ IndexesGrow(reserves[d], accrued)
        /\ \A v \in Accounts : accrued.aBalance[v] >= reserves[d].aBalance[v]
    BY <1>0, UpdateStateSound
  <2> HIDE DEF accrued
  <2>2. /\ WellFormed(burned, now) /\ SameIndexes(accrued, burned)
        /\ burned.aBalance = accrued.aBalance
        /\ \A v \in Users : burned.dBalance[v] <= accrued.dBalance[v]
    BY <1>0, <1>1, <2>1, BurnDebtSound
  <2> HIDE DEF burned
  <2>3. /\ WellFormed(priced, now) /\ SamePositions(burned, priced)
        /\ SameIndexes(burned, priced) /\ priced.aBalance = burned.aBalance
    BY <1>0, <1>1, <2>2, UpdateInterestRatesSound DEF SameIndexes
  <2> HIDE DEF priced
  <2>4. /\ IndexesGrow(reserves[d], priced)
        /\ \A v \in Users : /\ priced.dBalance[v] <= reserves[d].dBalance[v]
                            /\ priced.aBalance[v] >= reserves[d].aBalance[v]
    BY <2>1, <2>2, <2>3 DEF IndexesGrow, SameIndexes, SamePositions, Accounts
  <2> QED
    BY <1>3, <2>3, <2>4, OneMoreReserve
<1> HIDE DEF settled
<1>5. WellFormed(settled[c], now)
  BY <1>4 DEF OnTheWay, AllWellFormed
<1>6. /\ WellFormed(moved, now) /\ IndexesGrow(settled[c], moved)
      /\ moved.dBalance = settled[c].dBalance
      /\ \A v \in Users \ {u} : moved.aBalance[v] >= settled[c].aBalance[v]
  <2>1. CASE receiveAToken
    <3>1. moved = TransferAToken(settled[c], u, l, taken, now)
      BY <2>1
    <3>2. CanTransferAToken(settled[c], u, taken, now)
      BY <1>1, <2>1
    <3> HIDE DEF moved
    <3>3. /\ WellFormed(moved, now) /\ SameIndexes(settled[c], moved)
          /\ SameDebts(settled[c], moved)
          /\ \A v \in Accounts \ {u} : moved.aBalance[v] >= settled[c].aBalance[v]
      BY <1>0, <1>5, <3>1, <3>2, TransferATokenSound
    <3>4. settled[c] \in Reserve
      BY <1>5 DEF WellFormed
    <3> QED
      BY <3>3, <3>4, ReserveFields DEF IndexesGrow, SameIndexes, SameDebts, Accounts
  <2>2. CASE ~receiveAToken
    <3>1. moved = BurnAToken(cPriced, u, taken)
      BY <2>2
    <3>2. CanUpdateInterestRates(cAccrued, 0, taken) /\ CanBurnAToken(cPriced, u, taken)
      BY <1>1, <2>2
    <3> HIDE DEF moved
    <3>3. /\ WellFormed(cAccrued, now) /\ SamePositions(settled[c], cAccrued)
          /\ IndexesGrow(settled[c], cAccrued)
          /\ \A v \in Accounts : cAccrued.aBalance[v] >= settled[c].aBalance[v]
      BY <1>0, <1>5, UpdateStateSound
    <3> HIDE DEF cAccrued
    <3>4. /\ WellFormed(cPriced, now) /\ SamePositions(cAccrued, cPriced)
          /\ SameIndexes(cAccrued, cPriced) /\ cPriced.aBalance = cAccrued.aBalance
      BY <1>0, <3>2, <3>3, UpdateInterestRatesSound DEF SameIndexes
    <3> HIDE DEF cPriced
    <3>5. /\ WellFormed(moved, now) /\ SameIndexes(cPriced, moved) /\ SameDebts(cPriced, moved)
          /\ \A v \in Accounts \ {u} : moved.aBalance[v] = cPriced.aBalance[v]
      BY <1>0, <3>1, <3>2, <3>4, BurnATokenSound
    <3> QED
      BY <3>3, <3>4, <3>5
         DEF IndexesGrow, SameIndexes, SamePositions, SameDebts, Accounts
  <2> QED
    BY <2>1, <2>2
<1> HIDE DEF moved
<1>7. OnTheWay(seized, u, c)
  <2>1. \A v \in Users : moved.dBalance[v] <= settled[c].dBalance[v]
    BY <1>5, <1>6, ReserveFields DEF WellFormed
  <2> QED
    BY <1>4, <1>6, <2>1, OneMoreReserve
<1> HIDE DEF seized
<1>8. OnTheWay(reserves', u, c)
  <2> DEFINE n == Receive(seized[d], repaid)
  <2>1. WellFormed(seized[d], now) /\ seized[d] \in Reserve
    BY <1>7 DEF OnTheWay, AllWellFormed
  <2>2. /\ WellFormed(n, now) /\ SameIndexes(seized[d], n)
        /\ SameDebts(seized[d], n) /\ n.aBalance = seized[d].aBalance
    BY <1>0, <2>1, CashMoves
  <2> HIDE DEF n
  <2>3. /\ IndexesGrow(seized[d], n)
        /\ \A v \in Users : /\ n.dBalance[v] <= seized[d].dBalance[v]
                            /\ n.aBalance[v] >= seized[d].aBalance[v]
    BY <2>1, <2>2, ReserveFields DEF IndexesGrow, SameIndexes, SameDebts, Accounts
  <2>4. OnTheWay([seized EXCEPT ![d] = n], u, c)
    BY <1>7, <2>2, <2>3, OneMoreReserve
  <2> QED
    BY <1>1, <2>4 DEF n
<1>9. /\ AllWellFormed(reserves', now)
      /\ \A b \in Assets, v \in Users :
           /\ reserves'[b].dBalance[v] <= reserves[b].dBalance[v]
           /\ v # u \/ b # c => reserves'[b].aBalance[v] >= reserves[b].aBalance[v]
  BY <1>8 DEF OnTheWay
<1>10. NoIndexShrinks
  BY <1>8 DEF OnTheWay, IndexesGrow, NoIndexShrinks
<1>11. Inv'
  BY <1>1, <1>2, <1>9, InvKeptByCollateralFlags
<1>12. Health(u) < WAD
  BY <1>1 DEF ValidateLiquidationCall, Health
<1>13. TakesOnlyFrom(u, c)
  BY <1>9, OnlyOneTaken
<1> QED
  BY <1>2, <1>10, <1>11, <1>12, <1>13

-----------------------------------------------------------------------------
(* Every step of the pool keeps the invariant, shrinks no index and takes  *)
(* nothing without consent.                                                *)
LEMMA EveryStep == Inv /\ [Next]_vars => Inv' /\ NoIndexShrinks /\ ByConsent
<1> SUFFICES ASSUME Inv, [Next]_vars
             PROVE  Inv' /\ NoIndexShrinks /\ ByConsent
  OBVIOUS
<1>1. ASSUME NEW a \in Assets, NEW x \in Amounts, NEW u \in Users, Deposit(a, x, u)
      PROVE  Inv' /\ NoIndexShrinks /\ ByConsent
  BY <1>1, DepositStep
<1>2. ASSUME NEW u \in Users, NEW a \in Assets, NEW x \in Amounts \cup {MAX_UINT},
             Withdraw(u, a, x)
      PROVE  Inv' /\ NoIndexShrinks /\ ByConsent
  <2>1. Inv' /\ NoIndexShrinks /\ TakesOnlyFrom(u, a)
    BY <1>2, AmountTypes, WithdrawStep
  <2>2. OwnerMoves(u, a)
    BY <1>2 DEF OwnerMoves
  <2> QED
    BY <2>1, <2>2, TakenWithConsent
<1>3. ASSUME NEW caller \in Users, NEW a \in Assets, NEW u \in Users, NEW x \in Amounts,
             Borrow(caller, a, u, x)
      PROVE  Inv' /\ NoIndexShrinks /\ ByConsent
  BY <1>3, BorrowStep
<1>4. ASSUME NEW u \in Users, NEW v \in Users, NEW a \in Assets, NEW x \in AllowanceAmounts,
             ApproveDelegation(u, v, a, x)
      PROVE  Inv' /\ NoIndexShrinks /\ ByConsent
  BY <1>4, ApproveDelegationStep
<1>5. ASSUME NEW caller \in Users, NEW a \in Assets, NEW u \in Users,
             NEW x \in Amounts \cup {MAX_UINT}, Repay(caller, a, u, x)
      PROVE  Inv' /\ NoIndexShrinks /\ ByConsent
  BY <1>5, AmountTypes, RepayStep
<1>6. ASSUME NEW u \in Users, NEW a \in Assets, NEW using \in BOOLEAN,
             SetUserUseReserveAsCollateral(u, a, using)
      PROVE  Inv' /\ NoIndexShrinks /\ ByConsent
  BY <1>6, SetUserUseReserveAsCollateralStep
<1>7. ASSUME NEW l \in Users, NEW c \in Assets, NEW d \in Assets, NEW u \in Users,
             NEW x \in Amounts \cup {MAX_UINT}, NEW b \in BOOLEAN,
             LiquidationCall(l, c, d, u, x, b)
      PROVE  Inv' /\ NoIndexShrinks /\ ByConsent
  <2>1. Inv' /\ NoIndexShrinks /\ TakesOnlyFrom(u, c) /\ Health(u) < WAD
    BY <1>7, LiquidationCallStep
  <2> QED
    BY <2>1, TakenWithConsent
<1>8. ASSUME NEW from \in Users, NEW to \in Users, NEW a \in Assets, NEW x \in Amounts,
             Transfer(from, to, a, x)
      PROVE  Inv' /\ NoIndexShrinks /\ ByConsent
  <2>1. Inv' /\ NoIndexShrinks /\ TakesOnlyFrom(from, a)
    BY <1>8, AmountTypes, TransferStep
  <2>2. OwnerMoves(from, a)
    BY <1>8 DEF OwnerMoves
  <2> QED
    BY <2>1, <2>2, TakenWithConsent
<1>9. CASE Call
  BY <1>1, <1>2, <1>3, <1>4, <1>5, <1>6, <1>7, <1>8, <1>9 DEF Call
<1>10. CASE Environment
  BY <1>10, EnvironmentStep
<1>11. CASE UNCHANGED vars
  BY <1>11, StutterStep
<1> QED
  BY <1>9, <1>10, <1>11 DEF Next

LEMMA Invariance == Spec => []Inv
<1>1. Init => Inv
  BY InitInv
<1>2. Inv /\ [Next]_vars => Inv'
  BY EveryStep
<1> QED
  BY <1>1, <1>2, PTL DEF Spec

(* Type correctness.  Because every amount is a natural number this also   *)
(* says that no subtraction on the way of a call that does not revert goes *)
(* below zero: in the indexes, the rates, both tokens and the cash.        *)
THEOREM TypeCorrect == Spec => []TypeOK
<1>1. Inv => TypeOK
  BY DEF Inv
<1> QED
  BY <1>1, Invariance, PTL

(* Nobody owes a reserve without its borrowing flag: every debt counts     *)
(* when the health of its owner is computed (GenericLogic skips a reserve  *)
(* whose flags are clear).                                                 *)
THEOREM EveryDebtIsCounted == Spec => []BorrowFlagTracksDebt
<1>1. Inv => BorrowFlagTracksDebt
  BY DEF Inv
<1> QED
  BY <1>1, Invariance, PTL

LEMMA DepositorsCanLeave == Inv => WithdrawableInFull
<1> SUFFICES ASSUME Inv, NEW u \in Users, NEW a \in Assets
             PROVE  RayDiv(BalanceOf(reserves[a], u, now),
                           UpdateState(reserves[a], now).liquidityIndex)
                      = reserves[a].aBalance[u]
  BY DEF WithdrawableInFull
<1>1. now \in Nat /\ WellFormed(reserves[a], now) /\ u \in Accounts
  BY DEF Inv, TypeOK, AllWellFormed, Accounts
<1> QED
  BY <1>1, BalanceScalesBack

(* The scaled amount burned by a withdrawal of the whole balance is        *)
(* exactly the scaled balance: withdraw(type(uint256).max) leaves no dust  *)
(* and takes nobody else's tokens.                                         *)
THEOREM FullWithdrawalIsExact == Spec => []WithdrawableInFull
<1>1. Inv => WithdrawableInFull
  BY DepositorsCanLeave
<1> QED
  BY <1>1, Invariance, PTL

(* No step of the pool makes an index smaller: what a deposit is worth and *)
(* what a debt amounts to never falls by itself.                           *)
THEOREM IndexesNeverShrink == Spec => IndexesMonotone
<1>1. Inv /\ [Next]_vars => NoIndexShrinks
  BY EveryStep
<1> QED
  BY <1>1, Invariance, PTL DEF Spec, IndexesMonotone

(* Only an unhealthy user, or one that withdraws or transfers itself, loses*)
(* aTokens; only a user that borrows itself, or whose delegate spends an   *)
(* allowance, gets debt: whatever sequence of calls anybody makes.         *)
THEOREM HealthyPositionsAreSafe == Spec => HealthyAreLeftAlone
<1>1. Inv /\ [Next]_vars => ByConsent
  BY EveryStep
<1> QED
  BY <1>1, Invariance, PTL DEF Spec, HealthyAreLeftAlone
-----------------------------------------------------------------------------
(* The accounts. *)

(* The rates r stores are those of its own cash and debt. *)
Priced(r) ==
  LET debt == RayMul(r.dSupply, r.variableBorrowIndex)
  IN  /\ r.borrowRate = VariableBorrowRate(r.strategy, UtilizationRate(r.cash, debt))
      /\ r.liquidityRate =
           LiquidityRate(r.strategy, r.cash, debt, r.configuration.reserveFactor)

(* n has the rates of r and all they depend on, but for the cash. *)
SamePricing(r, n) ==
  /\ n.borrowRate = r.borrowRate /\ n.liquidityRate = r.liquidityRate
  /\ n.strategy = r.strategy /\ n.configuration = r.configuration
  /\ n.dSupply = r.dSupply /\ n.variableBorrowIndex = r.variableBorrowIndex

(* The case in which updateInterestRates runs twice on one reserve, the    *)
(* second time without the repayment that is still to come.                *)
SelfLiquidation ==
  \E l, u \in Users, c \in Assets, x \in Amounts \cup {MAX_UINT}, b \in BOOLEAN :
    LiquidationCall(l, c, c, u, x, b)

-----------------------------------------------------------------------------
LEMMA PricedIsFixpoint ==
  ASSUME NEW r \in Reserve
  PROVE  Priced(r) <=> r = UpdateInterestRates(r, 0, 0)
<1>1. r.cash + 0 - 0 = r.cash
  BY ReserveFields
<1> QED
  BY <1>1 DEF Priced, UpdateInterestRates, Reserve

(* Whatever has exactly moved what updateInterestRates was told is priced. *)
LEMMA ToldWhatMoved ==
  ASSUME NEW r, NEW t, WellFormed(r, t), NEW added, NEW taken, NEW n,
         SamePricing(UpdateInterestRates(r, added, taken), n),
         n.cash = r.cash + added - taken
  PROVE  Priced(n)
<1> DEFINE debt == RayMul(r.dSupply, r.variableBorrowIndex)
           p == UpdateInterestRates(r, added, taken)
<1>1. r \in Reserve
  BY DEF WellFormed
<1>2. /\ p.borrowRate = VariableBorrowRate(r.strategy, UtilizationRate(n.cash, debt))
      /\ p.liquidityRate =
           LiquidityRate(r.strategy, n.cash, debt, r.configuration.reserveFactor)
      /\ p.strategy = r.strategy /\ p.configuration = r.configuration
      /\ p.dSupply = r.dSupply /\ p.variableBorrowIndex = r.variableBorrowIndex
  BY <1>1 DEF UpdateInterestRates, Reserve
<1>3. SamePricing(p, n)
  OBVIOUS
<1> HIDE DEF p
<1> QED
  BY <1>2, <1>3 DEF Priced, SamePricing

(* What the tokens do to a priced reserve. *)
LEMMA TokensKeepPricing ==
  ASSUME NEW r \in Reserve, NEW u, NEW v, NEW x, NEW t
  PROVE  /\ SamePricing(r, Receive(r, x)) /\ Receive(r, x).cash = r.cash + x
         /\ SamePricing(r, Release(r, x)) /\ Release(r, x).cash = r.cash - x
         /\ SamePricing(r, MintAToken(r, u, x)) /\ MintAToken(r, u, x).cash = r.cash
         /\ SamePricing(r, BurnAToken(r, u, x)) /\ BurnAToken(r, u, x).cash = r.cash - x
         /\ SamePricing(r, TransferAToken(r, u, v, x, t))
         /\ TransferAToken(r, u, v, x, t).cash = r.cash
         /\ TransferAToken(r, u, v, x, t).aSupply = r.aSupply
BY DEF SamePricing, Receive, Release, MintAToken, BurnAToken, TransferAToken, Reserve

LEMMA PricingIsTransitive ==
  ASSUME NEW r, NEW m, NEW n, SamePricing(r, m), SamePricing(m, n)
  PROVE  SamePricing(r, n)
BY DEF SamePricing

(* Whether a reserve holds rates of its own liquidity, if anybody deposited. *)
PricedIfHeld(r) == r.aSupply > 0 => Priced(r)

LEMMA RatesMeanPriced ==
  ASSUME AllWellFormed(reserves, now)
  PROVE  RatesReflectLiquidity <=> \A a \in Assets : PricedIfHeld(reserves[a])
BY PricedIsFixpoint DEF AllWellFormed, RatesReflectLiquidity, PricedIfHeld

(* A transfer moves tokens, not what the rates depend on.                  *)
LEMMA TransferKeepsPriced ==
  ASSUME NEW r \in Reserve, PricedIfHeld(r), NEW u, NEW v, NEW x, NEW t
  PROVE  PricedIfHeld(TransferAToken(r, u, v, x, t))
<1> DEFINE n == TransferAToken(r, u, v, x, t)
<1>1. SamePricing(r, n) /\ n.cash = r.cash /\ n.aSupply = r.aSupply
  BY TokensKeepPricing
<1> HIDE DEF n
<1>2. PricedIfHeld(n)
  BY <1>1 DEF PricedIfHeld, Priced, SamePricing
<1> QED
  BY <1>2 DEF n

(* The withdrawal both withdraw and a liquidation end with.                *)
LEMMA BurnIsTold ==
  ASSUME NEW r, NEW t \in Nat, WellFormed(r, t), NEW u, NEW x \in Nat,
         CanUpdateInterestRates(r, 0, x)
  PROVE  Priced(BurnAToken(UpdateInterestRates(r, 0, x), u, x))
<1> DEFINE p == UpdateInterestRates(r, 0, x)
           n == BurnAToken(p, u, x)
<1>1. WellFormed(p, t) /\ p.cash = r.cash
  BY UpdateInterestRatesSound DEF SamePositions
<1>2. SamePricing(p, n) /\ n.cash = p.cash - x
  BY <1>1, TokensKeepPricing DEF WellFormed
<1>3. r.cash \in Nat
  BY ReserveFields DEF WellFormed
<1>4. n.cash = r.cash + 0 - x
  BY <1>1, <1>2, <1>3
<1> HIDE DEF n
<1>5. Priced(n)
  BY <1>2, <1>4, ToldWhatMoved
<1> QED
  BY <1>5 DEF n

(* The payment both repay and a liquidation end with.                      *)
LEMMA PaymentIsTold ==
  ASSUME NEW r, NEW t \in Nat, WellFormed(r, t), NEW x \in Nat,
         CanUpdateInterestRates(r, x, 0)
  PROVE  Priced(Receive(UpdateInterestRates(r, x, 0), x))
<1> DEFINE p == UpdateInterestRates(r, x, 0)
           n == Receive(p, x)
<1>1. WellFormed(p, t) /\ p.cash = r.cash
  BY UpdateInterestRatesSound DEF SamePositions
<1>2. SamePricing(p, n) /\ n.cash = p.cash + x
  BY <1>1, TokensKeepPricing DEF WellFormed
<1>3. r.cash \in Nat
  BY ReserveFields DEF WellFormed
<1>4. n.cash = r.cash + x - 0
  BY <1>1, <1>2, <1>3
<1> HIDE DEF n
<1>5. Priced(n)
  BY <1>2, <1>4, ToldWhatMoved
<1> QED
  BY <1>5 DEF n

-----------------------------------------------------------------------------
(* The books of a reserve across a call at time t.  Both ends are compared *)
(* settled, so that the accrual a call triggers is not held against it.    *)

Dust(s) == (s.liquidityIndex + s.variableBorrowIndex) \div (2 * RAY) + 2

(* A call that moves k of the backing in or out besides what it books.     *)
BooksMoveBy(r, n, t, k) ==
  /\ Balanced(r) => Balanced(n)
  /\ Gap(UpdateState(n, t)) <= Gap(UpdateState(r, t)) + k + Dust(UpdateState(r, t))

KeepsBooks(r, n, t) == BooksMoveBy(r, n, t, 0)

LEMMA DustCovers ==
  ASSUME NEW s, NEW t, WellFormed(s, t)
  PROVE  /\ HalfUnit(s.liquidityIndex) \in Nat /\ HalfUnit(s.variableBorrowIndex) \in Nat
         /\ Dust(s) \in Nat
         /\ HalfUnit(s.liquidityIndex) + HalfUnit(s.variableBorrowIndex) <= Dust(s)
<1>1. s.liquidityIndex \in Nat /\ s.variableBorrowIndex \in Nat
  BY ReserveFields DEF WellFormed
<1>2. /\ s.liquidityIndex + s.variableBorrowIndex \in Nat
      /\ 2 * RAY \in Nat \ {0}
  BY <1>1, ScalesPositive
<1>3. Dust(s) \in Nat
  BY <1>2, QuotientBounds DEF Dust
<1> QED
  BY <1>1, <1>3, HalfUnitIsNat, TwoHalfUnits DEF Dust

(* What every call starts with. *)
LEMMA Settling ==
  ASSUME NEW r, NEW t \in Nat, WellFormed(r, t)
  PROVE  LET s == UpdateState(r, t)
         IN  /\ WellFormed(s, t) /\ s.lastUpdate = t /\ s.cash = r.cash
             /\ Balanced(r) => Balanced(s)
             /\ Gap(s) \in Int
BY UpdateStateSound, AccrualKeepsBooks, GapIsInt DEF SamePositions

(* What a call that ends at n, settled, has to show. *)
LEMMA SettledBooks ==
  ASSUME NEW r, NEW t \in Nat, WellFormed(r, t), NEW n, WellFormed(n, t), n.lastUpdate = t,
         NEW k, Balanced(UpdateState(r, t)) => Balanced(n),
         Gap(n) <= Gap(UpdateState(r, t)) + k + Dust(UpdateState(r, t))
  PROVE  BooksMoveBy(r, n, t, k)
BY Settling, SettledIsStable DEF BooksMoveBy

LEMMA StandingBooks ==
  ASSUME NEW r, NEW t \in Nat, WellFormed(r, t)
  PROVE  KeepsBooks(r, r, t)
<1>1. Gap(UpdateState(r, t)) \in Int /\ Dust(UpdateState(r, t)) \in Nat
  BY Settling, DustCovers
<1> QED
  BY <1>1 DEF KeepsBooks, BooksMoveBy

-----------------------------------------------------------------------------
(* One lemma for what each call does to a reserve. *)

LEMMA DepositAccounts ==
  ASSUME NEW r, NEW t \in Nat, WellFormed(r, t), NEW u \in Accounts, NEW x \in Nat,
         CanUpdateInterestRates(UpdateState(r, t), x, 0)
  PROVE  LET n == MintAToken(Receive(UpdateInterestRates(UpdateState(r, t), x, 0), x), u, x)
         IN  Priced(n) /\ KeepsBooks(r, n, t)
<1> DEFINE s == UpdateState(r, t)
           p == UpdateInterestRates(s, x, 0)
           c == Receive(p, x)
           n == MintAToken(c, u, x)
<1>1. /\ WellFormed(s, t) /\ s.lastUpdate = t
      /\ Balanced(r) => Balanced(s)
      /\ Gap(s) \in Int
  BY Settling
<1> HIDE DEF s
<1>2. /\ WellFormed(p, t) /\ p.lastUpdate = t
      /\ Balanced(s) => Balanced(p)
      /\ Gap(p) = Gap(s)
      /\ p.liquidityIndex = s.liquidityIndex
  BY <1>1, UpdateInterestRatesSound, PricingKeepsBooks DEF s
<1>3. Priced(c)
  BY <1>1, PaymentIsTold DEF s
<1> HIDE DEF p
<1>4. /\ WellFormed(c, t) /\ c.lastUpdate = t
      /\ Balanced(p) => Balanced(c)
      /\ Gap(c) = Gap(p) - x
      /\ c.liquidityIndex = p.liquidityIndex
  BY <1>2, CashMoves, CashMovesGap DEF SameIndexes
<1> HIDE DEF c
<1>5. /\ WellFormed(n, t)
      /\ Balanced(c) => Balanced(n)
      /\ Gap(n) <= Gap(c) + x + HalfUnit(c.liquidityIndex)
  BY <1>4, MintATokenSound, MintATokenKeepsBooks
<1>6. SamePricing(c, n) /\ n.cash = c.cash /\ n.lastUpdate = c.lastUpdate
  <2>1. n.lastUpdate = c.lastUpdate
    BY <1>4 DEF MintAToken, WellFormed, Reserve
  <2> QED
    BY <1>4, <2>1, TokensKeepPricing DEF WellFormed
<1> HIDE DEF n
<1>7. Priced(n)
  BY <1>3, <1>6 DEF Priced, SamePricing
<1>8. Gap(n) \in Int /\ Gap(n) <= Gap(s) + HalfUnit(s.liquidityIndex)
  BY <1>1, <1>2, <1>4, <1>5, GapIsInt
<1>9. Gap(n) <= Gap(s) + 0 + Dust(s)
  BY <1>1, <1>8, DustCovers
<1>10. KeepsBooks(r, n, t)
  BY <1>1, <1>2, <1>4, <1>5, <1>6, <1>9, SettledBooks DEF KeepsBooks, s
<1> QED
  BY <1>7, <1>10 DEF n, c, p, s

LEMMA WithdrawAccounts ==
  ASSUME NEW r, NEW t \in Nat, WellFormed(r, t), NEW u \in Accounts, NEW x \in Nat,
         CanUpdateInterestRates(UpdateState(r, t), 0, x),
         CanBurnAToken(UpdateInterestRates(UpdateState(r, t), 0, x), u, x)
  PROVE  LET n == BurnAToken(UpdateInterestRates(UpdateState(r, t), 0, x), u, x)
         IN  Priced(n) /\ KeepsBooks(r, n, t)
<1> DEFINE s == UpdateState(r, t)
           p == UpdateInterestRates(s, 0, x)
           n == BurnAToken(p, u, x)
<1>1. /\ WellFormed(s, t) /\ s.lastUpdate = t
      /\ Balanced(r) => Balanced(s)
      /\ Gap(s) \in Int
  BY Settling
<1>2. Priced(n)
  BY <1>1, BurnIsTold
<1> HIDE DEF s
<1>3. /\ WellFormed(p, t) /\ p.lastUpdate = t
      /\ Balanced(s) => Balanced(p)
      /\ Gap(p) = Gap(s)
      /\ p.liquidityIndex = s.liquidityIndex
  BY <1>1, UpdateInterestRatesSound, PricingKeepsBooks DEF s
<1>4. CanBurnAToken(p, u, x)
  BY DEF s
<1> HIDE DEF p
<1>5. /\ WellFormed(n, t)
      /\ Balanced(p) => Balanced(n)
      /\ Gap(n) <= Gap(p) + HalfUnit(p.liquidityIndex)
  BY <1>3, <1>4, BurnATokenSound, BurnATokenKeepsBooks
<1>6. n.lastUpdate = p.lastUpdate
  BY <1>3 DEF BurnAToken, WellFormed, Reserve
<1> HIDE DEF n
<1>7. Gap(n) \in Int /\ Gap(n) <= Gap(s) + HalfUnit(s.liquidityIndex)
  BY <1>1, <1>3, <1>5, GapIsInt
<1>8. Gap(n) <= Gap(s) + 0 + Dust(s)
  BY <1>1, <1>7, DustCovers
<1>9. KeepsBooks(r, n, t)
  BY <1>1, <1>3, <1>5, <1>6, <1>8, SettledBooks DEF KeepsBooks, s
<1> QED
  BY <1>2, <1>9 DEF n, p, s

(* The debt is booked in full, and `released` of it is paid out.           *)
LEMMA BorrowAccounts ==
  ASSUME NEW r, NEW t \in Nat, WellFormed(r, t), NEW u \in Users, NEW x \in Nat,
         NEW released \in Nat,
         CanUpdateInterestRates(MintDebt(UpdateState(r, t), u, x), 0, released)
  PROVE  LET owed == MintDebt(UpdateState(r, t), u, x)
             n    == Release(UpdateInterestRates(owed, 0, released), released)
         IN  Priced(n) /\ BooksMoveBy(r, n, t, released - x)
<1> DEFINE s == UpdateState(r, t)
           d == MintDebt(s, u, x)
           p == UpdateInterestRates(d, 0, released)
           n == Release(p, released)
<1>1. /\ WellFormed(s, t) /\ s.lastUpdate = t
      /\ Balanced(r) => Balanced(s)
      /\ Gap(s) \in Int
  BY Settling
<1>0. CanUpdateInterestRates(d, 0, released)
  OBVIOUS
<1> HIDE DEF s
<1>2. /\ WellFormed(d, t)
      /\ Balanced(s) => Balanced(d)
      /\ Gap(d) <= Gap(s) - x + HalfUnit(s.variableBorrowIndex)
  BY <1>1, MintDebtSound, MintDebtKeepsBooks
<1>3. d.lastUpdate = s.lastUpdate
  BY <1>1 DEF MintDebt, WellFormed, Reserve
<1> HIDE DEF d
<1>4. /\ WellFormed(p, t) /\ p.lastUpdate = t /\ p.cash = d.cash
      /\ Balanced(d) => Balanced(p)
      /\ Gap(p) = Gap(d)
  BY <1>0, <1>1, <1>2, <1>3, UpdateInterestRatesSound, PricingKeepsBooks DEF SamePositions
<1>5. SamePricing(p, n) /\ n.cash = p.cash - released
  BY <1>4, TokensKeepPricing DEF WellFormed
<1>6. released <= p.cash /\ d.cash \in Nat
  BY <1>0, <1>2, <1>4, ReserveFields DEF CanUpdateInterestRates, WellFormed
<1>7. Priced(n)
  <2>1. n.cash = d.cash + 0 - released
    BY <1>4, <1>5, <1>6
  <2> HIDE DEF n
  <2> QED
    BY <1>2, <1>5, <2>1, ToldWhatMoved
<1> HIDE DEF p
<1>8. /\ WellFormed(n, t) /\ n.lastUpdate = t
      /\ Balanced(p) => Balanced(n)
      /\ Gap(n) = Gap(p) + released
  BY <1>4, <1>6, CashMoves, CashMovesGap
<1> HIDE DEF n
<1>9. Gap(n) \in Int /\ Gap(d) \in Int
      /\ HalfUnit(s.variableBorrowIndex) \in Nat /\ HalfUnit(s.liquidityIndex) \in Nat
      /\ Dust(s) \in Nat
      /\ HalfUnit(s.liquidityIndex) + HalfUnit(s.variableBorrowIndex) <= Dust(s)
  BY <1>1, <1>2, <1>8, GapIsInt, DustCovers
<1>10. Gap(n) <= Gap(s) + (released - x) + Dust(s)
  BY <1>1, <1>2, <1>4, <1>8, <1>9
<1>11. BooksMoveBy(r, n, t, released - x)
  <2>1. Balanced(s) => Balanced(n)
    BY <1>2, <1>4, <1>8
  <2> QED
    BY <1>8, <1>10, <2>1, SettledBooks DEF s
<1> QED
  BY <1>7, <1>11 DEF n, p, d, s

(* The debt reserve of a repayment, and of a liquidation, before the money *)
(* arrives and after.                                                      *)
LEMMA RepayAccounts ==
  ASSUME NEW r, NEW t \in Nat, WellFormed(r, t), NEW u \in Users, NEW x \in Nat,
         CanBurnDebt(UpdateState(r, t), u, x),
         CanUpdateInterestRates(BurnDebt(UpdateState(r, t), u, x), x, 0)
  PROVE  LET s == UpdateState(r, t)
             p == UpdateInterestRates(BurnDebt(s, u, x), x, 0)
             n == Receive(p, x)
         IN  /\ WellFormed(p, t) /\ p.lastUpdate = t
             /\ p.liquidityIndex = s.liquidityIndex
             /\ Balanced(s) => Balanced(p)
             /\ Gap(p) <= Gap(s) + x + HalfUnit(s.variableBorrowIndex)
             /\ Priced(n) /\ KeepsBooks(r, n, t)
<1> DEFINE s == UpdateState(r, t)
           d == BurnDebt(s, u, x)
           p == UpdateInterestRates(d, x, 0)
           n == Receive(p, x)
<1>1. /\ WellFormed(s, t) /\ s.lastUpdate = t
      /\ Balanced(r) => Balanced(s)
      /\ Gap(s) \in Int
  BY Settling
<1>0. CanUpdateInterestRates(d, x, 0) /\ CanBurnDebt(s, u, x)
  OBVIOUS
<1> HIDE DEF s
<1>2. /\ WellFormed(d, t) /\ SameIndexes(s, d)
      /\ Balanced(s) => Balanced(d)
      /\ Gap(d) <= Gap(s) + x + HalfUnit(s.variableBorrowIndex)
  BY <1>0, <1>1, BurnDebtSound, BurnDebtKeepsBooks
<1>3. d.lastUpdate = s.lastUpdate
  BY <1>1 DEF BurnDebt, WellFormed, Reserve
<1> HIDE DEF d
<1>4. /\ WellFormed(p, t) /\ p.lastUpdate = t
      /\ Balanced(d) => Balanced(p)
      /\ Gap(p) = Gap(d)
      /\ p.liquidityIndex = d.liquidityIndex
  BY <1>0, <1>1, <1>2, <1>3, UpdateInterestRatesSound, PricingKeepsBooks
<1>5. Priced(n)
  BY <1>0, <1>2, PaymentIsTold
<1> HIDE DEF p
<1>6. /\ WellFormed(n, t) /\ n.lastUpdate = t
      /\ Balanced(p) => Balanced(n)
      /\ Gap(n) = Gap(p) - x
  BY <1>4, CashMoves, CashMovesGap
<1> HIDE DEF n
<1>7. /\ Gap(n) \in Int /\ Gap(p) \in Int /\ Gap(d) \in Int
      /\ HalfUnit(s.variableBorrowIndex) \in Nat /\ HalfUnit(s.liquidityIndex) \in Nat
      /\ Dust(s) \in Nat
      /\ HalfUnit(s.liquidityIndex) + HalfUnit(s.variableBorrowIndex) <= Dust(s)
  BY <1>1, <1>2, <1>4, <1>6, GapIsInt, DustCovers
<1>8. Gap(n) <= Gap(s) + 0 + Dust(s)
  BY <1>1, <1>2, <1>4, <1>6, <1>7
<1>9. KeepsBooks(r, n, t)
  <2>1. Balanced(s) => Balanced(n)
    BY <1>2, <1>4, <1>6
  <2> QED
    BY <1>6, <1>8, <2>1, SettledBooks DEF KeepsBooks, s
<1>10. /\ WellFormed(p, t) /\ p.lastUpdate = t
       /\ p.liquidityIndex = s.liquidityIndex
       /\ Balanced(s) => Balanced(p)
       /\ Gap(p) <= Gap(s) + x + HalfUnit(s.variableBorrowIndex)
  BY <1>2, <1>4 DEF SameIndexes
<1> QED
  BY <1>5, <1>9, <1>10 DEF n, p, d, s

(* A liquidation of a reserve's debt out of the same reserve: the payment  *)
(* arrives after the collateral has left, or has changed hands.            *)
LEMMA SelfLiquidationAccounts ==
  ASSUME NEW r, NEW t \in Nat, WellFormed(r, t), NEW u \in Users, NEW l \in Users,
         NEW x \in Nat, NEW y \in Nat, NEW receiveAToken \in BOOLEAN,
         CanBurnDebt(UpdateState(r, t), u, x),
         CanUpdateInterestRates(BurnDebt(UpdateState(r, t), u, x), x, 0),
         NEW p, p = UpdateInterestRates(BurnDebt(UpdateState(r, t), u, x), x, 0),
         receiveAToken => CanTransferAToken(p, u, y, t),
         ~receiveAToken =>
           /\ CanUpdateInterestRates(UpdateState(p, t), 0, y)
           /\ CanBurnAToken(UpdateInterestRates(UpdateState(p, t), 0, y), u, y)
  PROVE  LET moved == IF receiveAToken
                      THEN TransferAToken(p, u, l, y, t)
                      ELSE BurnAToken(UpdateInterestRates(UpdateState(p, t), 0, y), u, y)
         IN  KeepsBooks(r, Receive(moved, x), t)
<1> DEFINE s == UpdateState(r, t)
           moved == IF receiveAToken
                    THEN TransferAToken(p, u, l, y, t)
                    ELSE BurnAToken(UpdateInterestRates(UpdateState(p, t), 0, y), u, y)
           n == Receive(moved, x)
<1>1. /\ WellFormed(p, t) /\ p.lastUpdate = t
      /\ p.liquidityIndex = s.liquidityIndex
      /\ Balanced(s) => Balanced(p)
      /\ Gap(p) <= Gap(s) + x + HalfUnit(s.variableBorrowIndex)
  BY RepayAccounts
<1>2. WellFormed(s, t) /\ Gap(s) \in Int /\ Gap(p) \in Int
  BY <1>1, Settling, GapIsInt
<1> HIDE DEF s
<1>3. u \in Accounts /\ l \in Accounts
  BY DEF Accounts
<1>4. /\ WellFormed(moved, t) /\ moved.lastUpdate = t
      /\ Balanced(p) => Balanced(moved)
      /\ Gap(moved) <= Gap(p) + HalfUnit(p.liquidityIndex)
  <2>1. CASE receiveAToken
    <3> DEFINE m == TransferAToken(p, u, l, y, t)
    <3>1. /\ WellFormed(m, t)
          /\ Balanced(p) => Balanced(m)
          /\ Gap(m) = Gap(p)
      BY <1>1, <1>3, <2>1, TransferATokenSound, TransferATokenKeepsBooks
    <3>2. m.lastUpdate = p.lastUpdate
      BY <1>1 DEF TransferAToken, WellFormed, Reserve
    <3>3. HalfUnit(p.liquidityIndex) \in Nat
      BY <1>1, DustCovers
    <3> HIDE DEF m
    <3>4. Gap(m) <= Gap(p) + HalfUnit(p.liquidityIndex)
      BY <1>2, <3>1, <3>3
    <3>5. moved = m
      BY <2>1 DEF m
    <3> QED
      BY <1>1, <3>1, <3>2, <3>4, <3>5
  <2>2. CASE ~receiveAToken
    <3> DEFINE q == UpdateInterestRates(p, 0, y)
               m == BurnAToken(q, u, y)
    <3>1. UpdateState(p, t) = p
      BY <1>1, SettledIsStable
    <3>2. CanUpdateInterestRates(p, 0, y) /\ CanBurnAToken(q, u, y) /\ moved = m
      BY <2>2, <3>1
    <3>3. /\ WellFormed(q, t) /\ q.lastUpdate = t
          /\ Balanced(p) => Balanced(q)
          /\ Gap(q) = Gap(p)
          /\ q.liquidityIndex = p.liquidityIndex
      BY <1>1, <3>2, UpdateInterestRatesSound, PricingKeepsBooks
    <3> HIDE DEF q
    <3>4. /\ WellFormed(m, t)
          /\ Balanced(q) => Balanced(m)
          /\ Gap(m) <= Gap(q) + HalfUnit(q.liquidityIndex)
      BY <1>3, <3>2, <3>3, BurnATokenSound, BurnATokenKeepsBooks
    <3>5. m.lastUpdate = q.lastUpdate
      BY <3>3 DEF BurnAToken, WellFormed, Reserve
    <3> HIDE DEF m, moved
    <3> QED
      BY <3>2, <3>3, <3>4, <3>5
  <2> QED
    BY <2>1, <2>2
<1> HIDE DEF moved
<1>5. /\ WellFormed(n, t) /\ n.lastUpdate = t
      /\ Balanced(moved) => Balanced(n)
      /\ Gap(n) = Gap(moved) - x
  BY <1>4, CashMoves, CashMovesGap
<1> HIDE DEF n
<1>6. /\ Gap(n) \in Int /\ Gap(moved) \in Int
      /\ HalfUnit(s.variableBorrowIndex) \in Nat /\ HalfUnit(s.liquidityIndex) \in Nat
      /\ Dust(s) \in Nat
      /\ HalfUnit(s.liquidityIndex) + HalfUnit(s.variableBorrowIndex) <= Dust(s)
  BY <1>2, <1>4, <1>5, GapIsInt, DustCovers
<1>7. Gap(n) <= Gap(s) + 0 + Dust(s)
  BY <1>1, <1>2, <1>4, <1>5, <1>6
<1>8. KeepsBooks(r, n, t)
  <2>1. Balanced(s) => Balanced(n)
    BY <1>1, <1>4, <1>5
  <2> QED
    BY <1>5, <1>7, <2>1, SettledBooks DEF KeepsBooks, s
<1> QED
  BY <1>8 DEF n, moved

-----------------------------------------------------------------------------
(* One lemma for what each call does to the pool. *)

PricesKept == \A a \in Assets : PricedIfHeld(reserves[a]) => PricedIfHeld(reserves'[a])
BooksKept  == \A a \in Assets : KeepsBooks(reserves[a], reserves'[a], now)

LEMMA OneReserveAccounts ==
  ASSUME Inv, NEW a \in Assets, NEW n, KeepsBooks(reserves[a], n, now),
         PricedIfHeld(reserves[a]) => PricedIfHeld(n),
         reserves' = [reserves EXCEPT ![a] = n]
  PROVE  PricesKept /\ BooksKept
<1>1. now \in Nat /\ \A b \in Assets : WellFormed(reserves[b], now)
  BY DEF Inv, TypeOK, AllWellFormed
<1>2. \A b \in Assets : reserves'[b] = IF b = a THEN n ELSE reserves[b]
  BY DEF Inv, AllWellFormed
<1>3. \A b \in Assets : KeepsBooks(reserves[b], reserves[b], now)
  BY <1>1, StandingBooks
<1> QED
  BY <1>2, <1>3 DEF PricesKept, BooksKept

LEMMA StandingAccounts ==
  ASSUME Inv, reserves' = reserves
  PROVE  PricesKept /\ BooksKept
<1>1. now \in Nat /\ \A b \in Assets : WellFormed(reserves[b], now)
  BY DEF Inv, TypeOK, AllWellFormed
<1> QED
  BY <1>1, StandingBooks DEF PricesKept, BooksKept

LEMMA DepositKeepsAccounts ==
  ASSUME Inv, NEW a \in Assets, NEW x \in Amounts, NEW u \in Users, Deposit(a, x, u)
  PROVE  PricesKept /\ BooksKept
<1> DEFINE s == UpdateState(reserves[a], now)
           n == MintAToken(Receive(UpdateInterestRates(s, x, 0), x), u, x)
<1>1. /\ now \in Nat /\ x \in Nat /\ u \in Accounts /\ WellFormed(reserves[a], now)
      /\ CanUpdateInterestRates(s, x, 0)
      /\ reserves' = [reserves EXCEPT ![a] = n]
  BY AmountTypes DEF Inv, TypeOK, AllWellFormed, Deposit, Accounts
<1>2. Priced(n) /\ KeepsBooks(reserves[a], n, now)
  BY <1>1, DepositAccounts
<1> HIDE DEF n
<1> QED
  BY <1>1, <1>2, OneReserveAccounts DEF PricedIfHeld

LEMMA WithdrawKeepsAccounts ==
  ASSUME Inv, NEW u \in Users, NEW a \in Assets, NEW x \in Nat, Withdraw(u, a, x)
  PROVE  PricesKept /\ BooksKept
<1> DEFINE balance == BalanceOf(reserves[a], u, now)
           taken   == IF x = MAX_UINT THEN balance ELSE x
           p       == UpdateInterestRates(UpdateState(reserves[a], now), 0, taken)
           n       == BurnAToken(p, u, taken)
<1>1. /\ now \in Nat /\ x \in Nat /\ u \in Accounts /\ WellFormed(reserves[a], now)
      /\ CanUpdateInterestRates(UpdateState(reserves[a], now), 0, taken)
      /\ CanBurnAToken(p, u, taken)
      /\ reserves' = [reserves EXCEPT ![a] = n]
  BY DEF Inv, TypeOK, AllWellFormed, Withdraw, Accounts
<1>2. taken \in Nat
  <2>1. balance \in Nat
    BY <1>1, BalanceIsNat
  <2> QED
    BY <1>1, <2>1
<1> HIDE DEF taken
<1>3. Priced(n) /\ KeepsBooks(reserves[a], n, now)
  BY <1>1, <1>2, WithdrawAccounts
<1> HIDE DEF n
<1> QED
  BY <1>1, <1>3, OneReserveAccounts DEF PricedIfHeld

(* Stated for the flash loan too, where nothing is released any more.      *)
LEMMA ExecuteBorrowKeepsAccounts ==
  ASSUME Inv, NEW caller \in Users, NEW a \in Assets, NEW u \in Users, NEW x \in Nat,
         NEW released \in Nat, ExecuteBorrow(caller, a, u, x, released)
  PROVE  /\ reserves' = [reserves EXCEPT ![a] = reserves'[a]]
         /\ Priced(reserves'[a])
         /\ BooksMoveBy(reserves[a], reserves'[a], now, released - x)
<1> DEFINE owed == MintDebt(UpdateState(reserves[a], now), u, x)
           n    == Release(UpdateInterestRates(owed, 0, released), released)
<1>1. /\ now \in Nat /\ WellFormed(reserves[a], now)
      /\ CanUpdateInterestRates(owed, 0, released)
      /\ reserves' = [reserves EXCEPT ![a] = n]
      /\ reserves \in [Assets -> Reserve]
  BY DEF Inv, TypeOK, AllWellFormed, ExecuteBorrow
<1>2. Priced(n) /\ BooksMoveBy(reserves[a], n, now, released - x)
  BY <1>1, BorrowAccounts
<1> HIDE DEF n
<1>3. reserves'[a] = n
  BY <1>1
<1> QED
  BY <1>1, <1>2, <1>3

LEMMA BorrowKeepsAccounts ==
  ASSUME Inv, NEW caller \in Users, NEW a \in Assets, NEW u \in Users, NEW x \in Amounts,
         Borrow(caller, a, u, x)
  PROVE  PricesKept /\ BooksKept
<1>1. x \in Nat /\ ExecuteBorrow(caller, a, u, x, x) /\ x - x = 0
  BY AmountTypes DEF Borrow
<1>2. /\ reserves' = [reserves EXCEPT ![a] = reserves'[a]]
      /\ Priced(reserves'[a])
      /\ BooksMoveBy(reserves[a], reserves'[a], now, x - x)
  BY <1>1, ExecuteBorrowKeepsAccounts
<1> QED
  BY <1>1, <1>2, OneReserveAccounts DEF PricedIfHeld, KeepsBooks

LEMMA RepayKeepsAccounts ==
  ASSUME Inv, NEW caller \in Users, NEW a \in Assets, NEW u \in Users, NEW x \in Nat,
         Repay(caller, a, u, x)
  PROVE  PricesKept /\ BooksKept
<1> DEFINE debt    == DebtOf(reserves[a], u, now)
           payback == IF x < debt THEN x ELSE debt
           s       == UpdateState(reserves[a], now)
           burned  == BurnDebt(s, u, payback)
           n       == Receive(UpdateInterestRates(burned, payback, 0), payback)
<1>1. /\ now \in Nat /\ x \in Nat /\ WellFormed(reserves[a], now)
      /\ CanBurnDebt(s, u, payback)
      /\ CanUpdateInterestRates(burned, payback, 0)
      /\ reserves' = [reserves EXCEPT ![a] = n]
  BY DEF Inv, TypeOK, AllWellFormed, Repay
<1>2. payback \in Nat
  <2>1. debt \in Nat
    BY <1>1, DebtScalesBack
  <2> QED
    BY <1>1, <2>1
<1> HIDE DEF payback
<1>3. Priced(n) /\ KeepsBooks(reserves[a], n, now)
  BY <1>1, <1>2, RepayAccounts
<1> HIDE DEF n
<1> QED
  BY <1>1, <1>3, OneReserveAccounts DEF PricedIfHeld

LEMMA TransferBooks ==
  ASSUME NEW r, NEW t \in Nat, WellFormed(r, t),
         NEW from \in Accounts, NEW to \in Accounts, NEW x \in Nat,
         CanTransferAToken(r, from, x, t)
  PROVE  KeepsBooks(r, TransferAToken(r, from, to, x, t), t)
<1> DEFINE n == TransferAToken(r, from, to, x, t)
<1>1. /\ Balanced(r) => Balanced(n)
      /\ Gap(UpdateState(n, t)) = Gap(UpdateState(r, t))
  BY TransferATokenKeepsBooks
<1>2. WellFormed(UpdateState(r, t), t) /\ Gap(UpdateState(r, t)) \in Int
  BY Settling
<1>3. Dust(UpdateState(r, t)) \in Nat
  BY <1>2, DustCovers
<1> HIDE DEF n
<1>4. KeepsBooks(r, n, t)
  BY <1>1, <1>2, <1>3 DEF KeepsBooks, BooksMoveBy
<1> QED
  BY <1>4 DEF n

LEMMA TransferKeepsAccounts ==
  ASSUME Inv, NEW from \in Users, NEW to \in Users, NEW a \in Assets, NEW x \in Nat,
         Transfer(from, to, a, x)
  PROVE  PricesKept /\ BooksKept
<1> DEFINE n == TransferAToken(reserves[a], from, to, x, now)
<1>1. /\ now \in Nat /\ x \in Nat /\ from \in Accounts /\ to \in Accounts
      /\ WellFormed(reserves[a], now) /\ reserves[a] \in Reserve
      /\ CanTransferAToken(reserves[a], from, x, now)
      /\ reserves' = [reserves EXCEPT ![a] = n]
  BY DEF Inv, TypeOK, AllWellFormed, Transfer, Accounts
<1>2. KeepsBooks(reserves[a], n, now)
  BY <1>1, TransferBooks
<1>3. PricedIfHeld(reserves[a]) => PricedIfHeld(n)
  BY <1>1, TransferKeepsPriced
<1> HIDE DEF n
<1> QED
  BY <1>1, <1>2, <1>3, OneReserveAccounts

(* The debt's reserve and the collateral's, when they are two.             *)
LEMMA LiquidationOfAnother ==
  ASSUME Inv,
         NEW l \in Users, NEW c \in Assets, NEW d \in Assets, c # d, NEW u \in Users,
         NEW x \in Amounts \cup {MAX_UINT}, NEW receiveAToken \in BOOLEAN,
         LiquidationCall(l, c, d, u, x, receiveAToken)
  PROVE  PricesKept /\ BooksKept
<1> DEFINE taken    == Liquidation(c, d, u, x).seized
           repaid   == Liquidation(c, d, u, x).repaid
           accrued  == UpdateState(reserves[d], now)
           burned   == BurnDebt(accrued, u, repaid)
           priced   == UpdateInterestRates(burned, repaid, 0)
           settled  == [reserves EXCEPT ![d] = priced]
           cAccrued == UpdateState(settled[c], now)
           cPriced  == UpdateInterestRates(cAccrued, 0, taken)
           moved    == IF receiveAToken
                       THEN TransferAToken(settled[c], u, l, taken, now)
                       ELSE BurnAToken(cPriced, u, taken)
           seized   == [settled EXCEPT ![c] = moved]
           paid     == Receive(priced, repaid)
<1>0. /\ now \in Nat /\ x \in Nat /\ u \in Accounts /\ l \in Accounts
      /\ reserves \in [Assets -> Reserve]
      /\ WellFormed(reserves[d], now) /\ WellFormed(reserves[c], now)
      /\ \A a \in Assets : WellFormed(reserves[a], now)
      /\ taken \in Nat /\ repaid \in Nat
  BY AmountTypes, LiquidationTypes DEF Inv, TypeOK, AllWellFormed, Accounts
<1>1. /\ CanBurnDebt(accrued, u, repaid)
      /\ CanUpdateInterestRates(burned, repaid, 0)
      /\ receiveAToken => CanTransferAToken(settled[c], u, taken, now)
      /\ ~receiveAToken => CanUpdateInterestRates(cAccrued, 0, taken)
      /\ ~receiveAToken => CanBurnAToken(cPriced, u, taken)
      /\ reserves' = [seized EXCEPT ![d] = Receive(seized[d], repaid)]
  BY DEF LiquidationCall
<1> HIDE DEF taken, repaid
<1>2. Priced(paid) /\ KeepsBooks(reserves[d], paid, now)
  BY <1>0, <1>1, RepayAccounts
<1> HIDE DEF priced
<1>3. settled[c] = reserves[c]
  BY <1>0
<1>4. /\ reserves'[c] = moved
      /\ reserves'[d] = paid
      /\ \A a \in Assets \ {c, d} : reserves'[a] = reserves[a]
  <2> HIDE DEF moved
  <2> QED
    BY <1>0, <1>1
<1> HIDE DEF settled, seized, paid
<1>5. (PricedIfHeld(reserves[c]) => PricedIfHeld(moved)) /\ KeepsBooks(reserves[c], moved, now)
  <2>1. CASE receiveAToken
    <3>1. /\ moved = TransferAToken(reserves[c], u, l, taken, now)
          /\ CanTransferAToken(reserves[c], u, taken, now)
      BY <1>1, <1>3, <2>1
    <3>2. reserves[c] \in Reserve
      BY <1>0
    <3> HIDE DEF moved
    <3> QED
      BY <1>0, <3>1, <3>2, TransferKeepsPriced, TransferBooks
  <2>2. CASE ~receiveAToken
    <3>1. /\ moved = BurnAToken(UpdateInterestRates(UpdateState(reserves[c], now), 0, taken),
                                u, taken)
          /\ CanUpdateInterestRates(UpdateState(reserves[c], now), 0, taken)
          /\ CanBurnAToken(UpdateInterestRates(UpdateState(reserves[c], now), 0, taken), u, taken)
      BY <1>1, <1>3, <2>2
    <3> HIDE DEF moved
    <3>2. Priced(moved) /\ KeepsBooks(reserves[c], moved, now)
      BY <1>0, <3>1, WithdrawAccounts
    <3> QED
      BY <3>2 DEF PricedIfHeld
  <2> QED
    BY <2>1, <2>2
<1> HIDE DEF moved
<1>6. \A a \in Assets : KeepsBooks(reserves[a], reserves[a], now)
  BY <1>0, StandingBooks
<1>7. PricesKept
  BY <1>2, <1>4, <1>5 DEF PricesKept, PricedIfHeld
<1>8. BooksKept
  BY <1>2, <1>4, <1>5, <1>6 DEF BooksKept
<1> QED
  BY <1>7, <1>8

(* And when they are one: the books still agree.                           *)
LEMMA LiquidationOfItself ==
  ASSUME Inv,
         NEW l \in Users, NEW c \in Assets, NEW u \in Users,
         NEW x \in Amounts \cup {MAX_UINT}, NEW receiveAToken \in BOOLEAN,
         LiquidationCall(l, c, c, u, x, receiveAToken)
  PROVE  BooksKept
<1> DEFINE taken    == Liquidation(c, c, u, x).seized
           repaid   == Liquidation(c, c, u, x).repaid
           accrued  == UpdateState(reserves[c], now)
           burned   == BurnDebt(accrued, u, repaid)
           priced   == UpdateInterestRates(burned, repaid, 0)
           settled  == [reserves EXCEPT ![c] = priced]
           cAccrued == UpdateState(settled[c], now)
           cPriced  == UpdateInterestRates(cAccrued, 0, taken)
           moved    == IF receiveAToken
                       THEN TransferAToken(settled[c], u, l, taken, now)
                       ELSE BurnAToken(cPriced, u, taken)
           seized   == [settled EXCEPT ![c] = moved]
           arrived  == IF receiveAToken
                       THEN TransferAToken(priced, u, l, taken, now)
                       ELSE BurnAToken(UpdateInterestRates(UpdateState(priced, now), 0, taken),
                                       u, taken)
           paid     == Receive(arrived, repaid)
<1>0. /\ now \in Nat /\ x \in Nat
      /\ reserves \in [Assets -> Reserve]
      /\ WellFormed(reserves[c], now)
      /\ \A a \in Assets : WellFormed(reserves[a], now)
      /\ taken \in Nat /\ repaid \in Nat
  BY AmountTypes, LiquidationTypes DEF Inv, TypeOK, AllWellFormed, Accounts
<1>1. /\ CanBurnDebt(accrued, u, repaid)
      /\ CanUpdateInterestRates(burned, repaid, 0)
      /\ receiveAToken => CanTransferAToken(settled[c], u, taken, now)
      /\ ~receiveAToken => CanUpdateInterestRates(cAccrued, 0, taken)
      /\ ~receiveAToken => CanBurnAToken(cPriced, u, taken)
      /\ reserves' = [seized EXCEPT ![c] = Receive(seized[c], repaid)]
  BY DEF LiquidationCall
<1> HIDE DEF taken, repaid
<1>2. settled[c] = priced
  <2> HIDE DEF priced
  <2> QED
    BY <1>0
<1>3. moved = arrived
  <2> HIDE DEF settled, priced
  <2> QED
    BY <1>2
<1>4. reserves'[c] = paid /\ \A a \in Assets \ {c} : reserves'[a] = reserves[a]
  <2> HIDE DEF moved, arrived, priced
  <2> QED
    BY <1>0, <1>1, <1>3
<1>5. /\ receiveAToken => CanTransferAToken(priced, u, taken, now)
      /\ ~receiveAToken =>
           /\ CanUpdateInterestRates(UpdateState(priced, now), 0, taken)
           /\ CanBurnAToken(UpdateInterestRates(UpdateState(priced, now), 0, taken), u, taken)
  <2> HIDE DEF settled, priced
  <2> QED
    BY <1>1, <1>2
<1>6. KeepsBooks(reserves[c], paid, now)
  BY <1>0, <1>1, <1>5, SelfLiquidationAccounts
<1> HIDE DEF paid
<1>7. \A a \in Assets : KeepsBooks(reserves[a], reserves[a], now)
  BY <1>0, StandingBooks
<1> QED
  BY <1>4, <1>6, <1>7 DEF BooksKept

-----------------------------------------------------------------------------
(* Every transaction, and what happens around them. *)
LEMMA EveryCallKeepsAccounts ==
  ASSUME Inv, Call
  PROVE  BooksKept /\ (SelfLiquidation \/ PricesKept)
<1>1. ASSUME NEW a \in Assets, NEW x \in Amounts, NEW u \in Users, Deposit(a, x, u)
      PROVE  PricesKept /\ BooksKept
  BY <1>1, DepositKeepsAccounts
<1>2. ASSUME NEW u \in Users, NEW a \in Assets, NEW x \in Amounts \cup {MAX_UINT},
             Withdraw(u, a, x)
      PROVE  PricesKept /\ BooksKept
  BY <1>2, AmountTypes, WithdrawKeepsAccounts
<1>3. ASSUME NEW caller \in Users, NEW a \in Assets, NEW u \in Users, NEW x \in Amounts,
             Borrow(caller, a, u, x)
      PROVE  PricesKept /\ BooksKept
  BY <1>3, BorrowKeepsAccounts
<1>4. ASSUME NEW u \in Users, NEW v \in Users, NEW a \in Assets, NEW x \in AllowanceAmounts,
             ApproveDelegation(u, v, a, x)
      PROVE  PricesKept /\ BooksKept
  BY <1>4, StandingAccounts DEF ApproveDelegation
<1>5. ASSUME NEW caller \in Users, NEW a \in Assets, NEW u \in Users,
             NEW x \in Amounts \cup {MAX_UINT}, Repay(caller, a, u, x)
      PROVE  PricesKept /\ BooksKept
  BY <1>5, AmountTypes, RepayKeepsAccounts
<1>6. ASSUME NEW u \in Users, NEW a \in Assets, NEW using \in BOOLEAN,
             SetUserUseReserveAsCollateral(u, a, using)
      PROVE  PricesKept /\ BooksKept
  BY <1>6, StandingAccounts DEF SetUserUseReserveAsCollateral
<1>7. ASSUME NEW l \in Users, NEW c \in Assets, NEW d \in Assets, NEW u \in Users,
             NEW x \in Amounts \cup {MAX_UINT}, NEW b \in BOOLEAN,
             LiquidationCall(l, c, d, u, x, b)
      PROVE  BooksKept /\ (SelfLiquidation \/ PricesKept)
  <2>1. CASE c # d
    BY <1>7, <2>1, LiquidationOfAnother
  <2>2. CASE c = d
    <3>1. LiquidationCall(l, c, c, u, x, b)
      BY <1>7, <2>2
    <3> QED
      BY <3>1, LiquidationOfItself DEF SelfLiquidation
  <2> QED
    BY <2>1, <2>2
<1>8. ASSUME NEW from \in Users, NEW to \in Users, NEW a \in Assets, NEW x \in Amounts,
             Transfer(from, to, a, x)
      PROVE  PricesKept /\ BooksKept
  BY <1>8, AmountTypes, TransferKeepsAccounts
<1> QED
  BY <1>1, <1>2, <1>3, <1>4, <1>5, <1>6, <1>7, <1>8 DEF Call

LEMMA EveryStepKeepsAccounts ==
  ASSUME Inv, [Next]_vars
  PROVE  BooksKept /\ (SelfLiquidation \/ PricesKept)
<1>1. CASE Call
  BY <1>1, EveryCallKeepsAccounts
<1>2. CASE Environment
  BY <1>2, StandingAccounts DEF Environment, SetPrice, Tick
<1>3. CASE UNCHANGED vars
  BY <1>3, StandingAccounts DEF vars
<1> QED
  BY <1>1, <1>2, <1>3 DEF Next

-----------------------------------------------------------------------------
(* What the books are for. *)

BooksBalance == \A a \in Assets : Balanced(reserves[a])

LEMMA BalancedBooks == TotalsMatchBalances <=> BooksBalance
BY DEF TotalsMatchBalances, BooksBalance, Balanced, Total

LEMMA NewReserveBalanced ==
  ASSUME NEW c, NEW s
  PROVE  Balanced(InitReserve(c, s))
<1> DEFINE none == [u \in Accounts |-> 0]
           free == [u \in Users |-> 0]
<1>1. Total(none, Accounts) = 0 /\ Total(free, Users) = 0
  BY FinitelyManyAccounts, FinitelyManyUsers, TotalOfZeros
<1> QED
  BY <1>1 DEF Balanced, InitReserve

LEMMA InitBalanced == Init => BooksBalance
<1> SUFFICES ASSUME Init, NEW a \in Assets PROVE Balanced(reserves[a])
  BY DEF BooksBalance
<1>1. reserves[a] = InitReserve(Configurations[a], Strategies[a])
  BY DEF Init
<1> QED
  BY <1>1, NewReserveBalanced

LEMMA StepBalanced ==
  ASSUME Inv, BooksBalance, [Next]_vars
  PROVE  BooksBalance'
BY EveryStepKeepsAccounts DEF BooksBalance, BooksKept, KeepsBooks, BooksMoveBy

(* Each token's supply is the sum of its balances, whatever is minted,     *)
(* burned or moved, also to oneself, to the treasury or to a liquidator:   *)
(* no balance is created and none is lost.                                 *)
THEOREM SuppliesAreTheSums == Spec => []TotalsMatchBalances
<1>1. Init => BooksBalance
  BY InitBalanced
<1>2. Inv /\ BooksBalance /\ [Next]_vars => BooksBalance'
  BY StepBalanced
<1>3. TotalsMatchBalances <=> BooksBalance
  BY BalancedBooks
<1> QED
  BY <1>1, <1>2, <1>3, Invariance, PTL DEF Spec

(* The views agree with the books on what a settled reserve is short of.   *)
AsBooked ==
  \A a \in Assets : Deficit(a) = Gap(Settled(a)) /\ RoundingDust(a) = Dust(Settled(a))

LEMMA DeficitIsGap == Inv => AsBooked
<1> SUFFICES ASSUME Inv, NEW a \in Assets
             PROVE  Deficit(a) = Gap(Settled(a)) /\ RoundingDust(a) = Dust(Settled(a))
  BY DEF AsBooked
<1> DEFINE s == UpdateState(reserves[a], now)
<1>1. now \in Nat /\ WellFormed(reserves[a], now)
  BY DEF Inv, TypeOK, AllWellFormed
<1>2. WellFormed(s, now) /\ s.lastUpdate = now
  BY <1>1, Settling
<1> HIDE DEF s
<1>3. /\ RayMul(s.aSupply, s.liquidityIndex) \in Nat
      /\ RayMul(s.dSupply, s.variableBorrowIndex) \in Nat
      /\ s.cash \in Nat
  BY <1>2, ReserveFields, RayMulIsNat DEF WellFormed
<1>4. /\ TotalSupply(s, now) = RayMul(s.aSupply, s.liquidityIndex)
      /\ TotalDebt(s, now) = RayMul(s.dSupply, s.variableBorrowIndex)
  BY <1>2 DEF TotalSupply, TotalDebt, NormalizedIncome, NormalizedDebt
<1>5. TotalSupply(s, now) - (s.cash + TotalDebt(s, now)) = Gap(s)
  BY <1>3, <1>4 DEF Gap
<1>6. Settled(a) = s
  BY DEF Settled, s
<1> QED
  BY <1>5, <1>6 DEF Deficit, Claims, Backing, RoundingDust, Dust

(* No transaction of anybody, in any sequence and at any amount, hands the *)
(* depositors more, or takes more of what backs their claims, than the     *)
(* half-up rounding of one operation of each token.                        *)
THEOREM CallsAreFair == Spec => CallsConserveValue
<1>1. Inv /\ AsBooked /\ AsBooked' /\ [Next]_vars
        => [now' = now => \A a \in Assets : Deficit(a)' <= Deficit(a) + RoundingDust(a)]_vars
  <2> SUFFICES ASSUME Inv, AsBooked, AsBooked', [Next]_vars, now' = now, NEW a \in Assets
               PROVE  Deficit(a)' <= Deficit(a) + RoundingDust(a)
    OBVIOUS
  <2> DEFINE s == UpdateState(reserves[a], now)
             n == UpdateState(reserves'[a], now)
  <2>1. Gap(n) <= Gap(s) + 0 + Dust(s)
    BY EveryStepKeepsAccounts DEF BooksKept, KeepsBooks, BooksMoveBy
  <2>2. Deficit(a) = Gap(s) /\ RoundingDust(a) = Dust(s) /\ Deficit(a)' = Gap(n)
    BY DEF AsBooked, Settled
  <2>3. Gap(s) \in Int /\ Dust(s) \in Nat
    <3>1. now \in Nat /\ WellFormed(reserves[a], now)
      BY DEF Inv, TypeOK, AllWellFormed
    <3> QED
      BY <3>1, Settling, DustCovers
  <2> HIDE DEF s, n
  <2> QED
    BY <2>1, <2>2, <2>3
<1>2. Inv => AsBooked
  BY DeficitIsGap
<1> QED
  BY <1>1, <1>2, Invariance, PTL DEF Spec, CallsConserveValue

(* Where somebody owes and depositors earn, the index repay divides by is  *)
(* the one the debt was read with.                                         *)
LEMMA AccruedInFull ==
  ASSUME NEW r, NEW t \in Nat, WellFormed(r, t), r.dSupply > 0, r.liquidityRate > 0
  PROVE  NormalizedDebt(r, t) = UpdateState(r, t).variableBorrowIndex
<1> DEFINE elapsed == t - r.lastUpdate
           vi == RayMul(CompoundedInterest(r.borrowRate, elapsed), r.variableBorrowIndex)
<1>1. r \in Reserve /\ elapsed \in Nat
  BY ReserveFields DEF WellFormed
<1>2. UpdateIndexes(r, t).variableBorrowIndex = vi
  <2>1. r.dSupply # 0
    BY <1>1, ReserveFields
  <2> QED
    BY <1>1, <2>1 DEF UpdateIndexes, Reserve
<1>3. elapsed = 0 => vi = r.variableBorrowIndex
  <2> SUFFICES ASSUME elapsed = 0 PROVE CompoundedInterest(r.borrowRate, 0) = RAY
    BY <1>1, ReserveFields, RayMulByOne
  <2> QED
    BY <1>1, ReserveFields, NoTimeNoInterest
<1>4. r.lastUpdate = t <=> elapsed = 0
  BY <1>1, ReserveFields
<1>5. NormalizedDebt(r, t) = vi
  BY <1>3, <1>4 DEF NormalizedDebt
<1> QED
  BY <1>2, <1>5, UpdateStateSound

LEMMA BorrowersCanClear == Inv /\ BooksBalance => RepayableWhileEarning
<1> SUFFICES ASSUME Inv, BooksBalance, NEW u \in Users, NEW a \in Assets,
                    reserves[a].dBalance[u] > 0, reserves[a].liquidityRate > 0
             PROVE  FullRepaymentClears(a, u)
  BY DEF RepayableWhileEarning
<1> DEFINE r == reserves[a]
           i == UpdateState(r, now).variableBorrowIndex
<1>1. now \in Nat /\ WellFormed(r, now) /\ r \in Reserve
  BY DEF Inv, TypeOK, AllWellFormed
<1>2. r.dBalance[u] \in Nat /\ r.dBalance \in [Users -> Nat] /\ r.dSupply \in Nat
  BY <1>1, ReserveFields
<1>3. r.dBalance[u] <= r.dSupply
  BY <1>2, FinitelyManyUsers, TotalBounds DEF BooksBalance, Balanced
<1>4. NormalizedDebt(r, now) = i
  BY <1>1, <1>2, <1>3, AccruedInFull
<1>5. i \in Nat /\ i >= RAY
  BY <1>1, UpdateStateSound, ReserveFields DEF WellFormed
<1>6. RayDiv(RayMul(r.dBalance[u], i), i) = r.dBalance[u]
  BY <1>2, <1>5, RoundTrip
<1> QED
  BY <1>4, <1>6 DEF FullRepaymentClears, DebtOf

(* As long as the depositors earn, a borrower that repays in full owes     *)
(* nothing afterwards: no debt is too large or too old for repay.          *)
THEOREM DebtsCanBeCleared == Spec => []RepayableWhileEarning
<1>1. Inv /\ BooksBalance => RepayableWhileEarning
  BY BorrowersCanClear
<1>2. TotalsMatchBalances <=> BooksBalance
  BY BalancedBooks
<1> QED
  BY <1>1, <1>2, Invariance, SuppliesAreTheSums, PTL

-----------------------------------------------------------------------------
LEMMA InitPriced == Init => RatesReflectLiquidity
<1> SUFFICES ASSUME Init, NEW a \in Assets PROVE ~(reserves[a].aSupply > 0)
  BY DEF RatesReflectLiquidity
<1>1. reserves[a] = InitReserve(Configurations[a], Strategies[a])
  BY DEF Init
<1> QED
  BY <1>1 DEF InitReserve

LEMMA StepKeepsPrices ==
  ASSUME Inv, [Next]_vars, [~SelfLiquidation]_vars
  PROVE  PricesKept
<1>1. CASE SelfLiquidation
  BY <1>1, StandingAccounts DEF vars
<1>2. CASE ~SelfLiquidation
  BY <1>2, EveryStepKeepsAccounts
<1> QED
  BY <1>1, <1>2

LEMMA StepPriced ==
  ASSUME Inv, Inv', RatesReflectLiquidity, [Next]_vars, [~SelfLiquidation]_vars
  PROVE  RatesReflectLiquidity'
<1>1. PricesKept
  BY StepKeepsPrices
<1>2. \A a \in Assets : PricedIfHeld(reserves[a])
  BY RatesMeanPriced DEF Inv
<1>3. \A a \in Assets : PricedIfHeld(reserves'[a]) /\ reserves'[a] \in Reserve
  BY <1>1, <1>2 DEF PricesKept, Inv, AllWellFormed
<1> QED
  BY <1>3, PricedIsFixpoint DEF RatesReflectLiquidity, PricedIfHeld

(* Every call tells updateInterestRates exactly what it moves before it    *)
(* moves it, so that nobody is charged or paid the rate of a liquidity the *)
(* reserve never had: the one exception is a liquidation of a reserve's    *)
(* debt out of the same reserve.                                           *)
THEOREM RatesAreThoseOfTheLiquidity ==
  Spec /\ [][~SelfLiquidation]_vars => []RatesReflectLiquidity
<1>1. Init => RatesReflectLiquidity
  BY InitPriced
<1>2. Inv /\ Inv' /\ RatesReflectLiquidity /\ [Next]_vars /\ [~SelfLiquidation]_vars
        => RatesReflectLiquidity'
  BY StepPriced
<1> QED
  BY <1>1, <1>2, Invariance, PTL DEF Spec

-----------------------------------------------------------------------------
(* Health. Each call keeps the terms of every reserve, so that a position  *)
(* changes only by its tokens and flags; those of a healthy one only by    *)
(* its owner's calls, which check it, and for the better by others'.       *)

(* While prices and time stand, and a call keeps the terms.                *)
TermsStand  == SameTerms(reserves, reserves', now)
Stands      == now' = now /\ price' = price
StayHealthy == \A v \in Users : Health(v) >= WAD => HealthWithDust(v)' >= WAD

(* The properties' state functions, as functions of the state.             *)
LEMMA HealthForms ==
  \A v \in Users :
    /\ Health(v) = HealthFactorOf(reserves, usersConfig[v], price, v, now)
    /\ HealthWithDust(v) = HealthWithDustOf(reserves, usersConfig[v], price, v, now)
    /\ DebtDust(v) = DustOwed(reserves, usersConfig[v], price)
<1> SUFFICES ASSUME NEW v \in Users
             PROVE  /\ Health(v) = HealthFactorOf(reserves, usersConfig[v], price, v, now)
                    /\ HealthWithDust(v)
                         = HealthWithDustOf(reserves, usersConfig[v], price, v, now)
                    /\ DebtDust(v) = DustOwed(reserves, usersConfig[v], price)
  OBVIOUS
<1>1. Health(v) = HealthFactorOf(reserves, usersConfig[v], price, v, now)
  BY DEF Health, HealthFactorIn
<1>2. DebtDust(v) = SumFunction(DebtDusts(reserves, usersConfig[v], price))
  BY Zenon DEF DebtDust, DebtDusts, DustAt, DustWorth
<1>3. CollateralDust(v) = SumFunction(CollateralDusts(reserves, usersConfig[v], price))
  BY Zenon DEF CollateralDust, CollateralDusts, DustAt, DustWorth
<1>4. /\ DebtDust(v) = DustOwed(reserves, usersConfig[v], price)
      /\ CollateralDust(v) = DustWeight(reserves, usersConfig[v], price)
  BY <1>2, <1>3, DustSums
<1>5. HealthWithDust(v) = HealthWithDustOf(reserves, usersConfig[v], price, v, now)
  BY <1>4, Zenon DEF HealthWithDust, HealthWithDustOf, AccountData
<1> QED
  BY <1>1, <1>4, <1>5

(* Every user's position satisfies what the lemmas above ask of one.       *)
Positions == \A v \in Users : Position(reserves, usersConfig[v], price, v, now)
TokensAreNat ==
  \A b \in Assets, v \in Users :
    reserves[b].aBalance[v] \in Nat /\ reserves[b].dBalance[v] \in Nat

LEMMA PositionsHeld == Inv => Positions /\ TokensAreNat
BY ReserveFields DEF Inv, TypeOK, AllWellFormed, Accounts, Position, Positions, TokensAreNat

(* Before and after a step.                                                *)
LEMMA PositionsNext ==
  ASSUME Inv, Inv', Stands
  PROVE  \A v \in Users :
           /\ Position(reserves, usersConfig[v], price, v, now)
           /\ Position(reserves', usersConfig'[v], price, v, now)
           /\ Health(v) = HealthFactorOf(reserves, usersConfig[v], price, v, now)
           /\ HealthWithDust(v)' = HealthWithDustOf(reserves', usersConfig'[v], price, v, now)
           /\ DebtDust(v)' = DustOwed(reserves', usersConfig'[v], price)
<1>1. \A v \in Users : Position(reserves, usersConfig[v], price, v, now)
  BY PositionsHeld DEF Positions
<1>2. \A v \in Users : Position(reserves', usersConfig'[v], price', v, now')
  <2>1. Positions'
    BY PositionsHeld, PTL
  <2> QED
    BY <2>1 DEF Positions
<1>3. \A v \in Users :
        /\ HealthWithDust(v)' = HealthWithDustOf(reserves', usersConfig'[v], price', v, now')
        /\ DebtDust(v)' = DustOwed(reserves', usersConfig'[v], price')
  <2>1. (\A v \in Users :
          /\ Health(v) = HealthFactorOf(reserves, usersConfig[v], price, v, now)
          /\ HealthWithDust(v) = HealthWithDustOf(reserves, usersConfig[v], price, v, now)
          /\ DebtDust(v) = DustOwed(reserves, usersConfig[v], price))'
    BY HealthForms, PTL
  <2> QED
    BY <2>1
<1>4. now' = now /\ price' = price
  BY DEF Stands
<1> QED
  BY <1>1, <1>2, <1>3, <1>4, HealthForms

(* Who is not taken from, nor made to owe, stays healthy. *)
LEMMA UntouchedStayHealthy ==
  ASSUME Inv, Inv', Stands, TermsStand, NEW v \in Users,
         \A b \in Assets : ~LosesTokens(v, b) /\ ~GainsDebt(v, b),
         usersConfig[v].collateral \subseteq usersConfig'[v].collateral,
         usersConfig'[v].borrowing \subseteq usersConfig[v].borrowing
  PROVE  Health(v) >= WAD => HealthWithDust(v)' >= WAD
<1>1. /\ Position(reserves, usersConfig[v], price, v, now)
      /\ Position(reserves', usersConfig'[v], price, v, now)
      /\ Health(v) = HealthFactorOf(reserves, usersConfig[v], price, v, now)
      /\ HealthWithDust(v)' = HealthWithDustOf(reserves', usersConfig'[v], price, v, now)
  BY PositionsNext
<1>2. \A b \in Assets :
        /\ reserves[b].aBalance[v] <= reserves'[b].aBalance[v]
        /\ reserves'[b].dBalance[v] <= reserves[b].dBalance[v]
  <2>1. \A b \in Assets :
          /\ reserves[b].aBalance[v] \in Nat /\ reserves[b].dBalance[v] \in Nat
          /\ reserves'[b].aBalance[v] \in Nat /\ reserves'[b].dBalance[v] \in Nat
    <3>1. TokensAreNat /\ TokensAreNat'
      BY PositionsHeld, PTL
    <3> QED
      BY <3>1 DEF TokensAreNat
  <2> QED
    BY <2>1 DEF LosesTokens, GainsDebt
<1>3. usersConfig[v] \in UserConfiguration /\ usersConfig'[v] \in UserConfiguration
  BY <1>1 DEF Position
<1>4. NoWorse(reserves, usersConfig[v], reserves', usersConfig'[v], v)
  BY <1>2, <1>3 DEF NoWorse, UserConfiguration
<1>5. WAD <= MAX_UINT
  BY PoolConstants
<1> QED
  BY <1>1, <1>4, <1>5, NoWorseIsHealthy DEF TermsStand

(* A call that touches one reserve. *)
LEMMA OneReserveTerms ==
  ASSUME Inv, NEW a \in Assets, NEW n, TermsKept(reserves[a], n, now),
         reserves' = [reserves EXCEPT ![a] = n]
  PROVE  TermsStand
<1>1. /\ now \in Nat
      /\ \A b \in Assets : WellFormed(reserves[b], now)
      /\ reserves \in [Assets -> Reserve]
  BY DEF Inv, TypeOK, AllWellFormed
<1>2. \A b \in Assets : TermsKept(reserves[b], reserves'[b], now)
  <2> SUFFICES ASSUME NEW b \in Assets PROVE TermsKept(reserves[b], reserves'[b], now)
    OBVIOUS
  <2>1. CASE b = a
    <3>1. reserves'[b] = n
      BY <1>1, <2>1
    <3> QED
      BY <2>1, <3>1
  <2>2. CASE b # a
    <3>1. reserves'[b] = reserves[b]
      BY <1>1, <2>2
    <3>2. TermsKept(reserves[b], reserves[b], now)
      BY <1>1, SameTermsAtRest
    <3> QED
      BY <3>1, <3>2
  <2> QED
    BY <2>1, <2>2
<1> QED
  BY <1>2 DEF TermsStand, SameTerms, TermsKept

LEMMA ReservesAtRest ==
  ASSUME Inv, reserves' = reserves
  PROVE  TermsStand
<1>1. now \in Nat /\ \A b \in Assets : WellFormed(reserves[b], now)
  BY DEF Inv, TypeOK, AllWellFormed
<1>2. \A b \in Assets : TermsKept(reserves[b], reserves[b], now)
  BY <1>1, SameTermsAtRest
<1> QED
  BY <1>2 DEF TermsStand, SameTerms, TermsKept

(* How a call may change the collateral flags.                             *)
AddsCollateral(cfg, new) == \A v \in Users : cfg[v].collateral \subseteq new[v].collateral
DropsCollateral(cfg, new, u, a) ==
  /\ \A v \in Users \ {u} : new[v] = cfg[v]
  /\ new[u].collateral = cfg[u].collateral \ {a}

LEMMA CollateralSwitched ==
  ASSUME NEW cfg \in [Users -> UserConfiguration], NEW u \in Users, NEW a \in Assets
  PROVE  /\ AddsCollateral(cfg, SetUsingAsCollateral(cfg, u, a, TRUE))
         /\ DropsCollateral(cfg, SetUsingAsCollateral(cfg, u, a, FALSE), u, a)
BY DEF SetUsingAsCollateral, UserConfiguration, AddsCollateral, DropsCollateral

(* A deposit takes from nobody.                                            *)
LEMMA DepositHealth ==
  ASSUME Inv, NEW a \in Assets, NEW x \in Amounts, NEW u \in Users, Deposit(a, x, u)
  PROVE  TermsStand /\ StayHealthy
<1> DEFINE r == reserves[a]
           accrued == UpdateState(r, now)
           paid    == Receive(UpdateInterestRates(accrued, x, 0), x)
           n       == MintAToken(paid, u, x)
<1>1. /\ now \in Nat /\ x \in Nat /\ u \in Accounts /\ WellFormed(r, now)
      /\ CanUpdateInterestRates(accrued, x, 0)
      /\ reserves' = [reserves EXCEPT ![a] = n]
      /\ price' = price /\ now' = now
      /\ \/ usersConfig' = SetUsingAsCollateral(usersConfig, u, a, TRUE)
         \/ usersConfig' = usersConfig
      /\ usersConfig \in [Users -> UserConfiguration]
  BY AmountTypes DEF Inv, TypeOK, AllWellFormed, Deposit, Accounts
<1>2. TermsKept(r, n, now)
  <2> HIDE DEF r
  <2>1. KeepsClock(accrued, n)
    BY <1>1, DepositClock
  <2> HIDE DEF n
  <2> QED
    BY <1>1, <2>1, SettledTerms
<1> HIDE DEF n
<1>3. TermsStand
  BY <1>1, <1>2, OneReserveTerms DEF r
<1>4. Inv' /\ NoneLose(Users) /\ NoneGain /\ KeepsBorrowing(usersConfig, usersConfig')
  BY DepositStep
<1>5. \A v \in Users : usersConfig[v].collateral \subseteq usersConfig'[v].collateral
  <2>1. AddsCollateral(usersConfig, SetUsingAsCollateral(usersConfig, u, a, TRUE))
    BY <1>1, CollateralSwitched
  <2>2. AddsCollateral(usersConfig, usersConfig')
    <3>1. AddsCollateral(usersConfig, usersConfig)
      BY DEF AddsCollateral
    <3> QED
      BY <1>1, <2>1, <3>1
  <2> QED
    BY <2>2 DEF AddsCollateral
<1>6. StayHealthy
  <2> SUFFICES ASSUME NEW v \in Users PROVE Health(v) >= WAD => HealthWithDust(v)' >= WAD
    BY DEF StayHealthy
  <2>1. \A b \in Assets : ~LosesTokens(v, b) /\ ~GainsDebt(v, b)
    BY <1>4 DEF NoneLose, NoneGain
  <2>2. usersConfig'[v].borrowing \subseteq usersConfig[v].borrowing
    BY <1>4 DEF KeepsBorrowing
  <2>3. Stands
    BY <1>1 DEF Stands
  <2> QED
    BY <1>3, <1>4, <1>5, <2>1, <2>2, <2>3, UntouchedStayHealthy
<1> QED
  BY <1>3, <1>6

(* The others, when one user's tokens of one reserve are taken.            *)
LEMMA OthersStayHealthy ==
  ASSUME Inv, Inv', Stands, TermsStand, NEW u \in Users, NEW a \in Assets, TakesOnlyFrom(u, a),
         KeepsBorrowing(usersConfig, usersConfig'), NEW v \in Users, v # u,
         usersConfig[v].collateral \subseteq usersConfig'[v].collateral
  PROVE  Health(v) >= WAD => HealthWithDust(v)' >= WAD
<1>1. \A b \in Assets : ~LosesTokens(v, b) /\ ~GainsDebt(v, b)
  BY DEF TakesOnlyFrom
<1>2. usersConfig'[v].borrowing \subseteq usersConfig[v].borrowing
  BY DEF KeepsBorrowing
<1> QED
  BY <1>1, <1>2, UntouchedStayHealthy

(* The owner, when a decrease was allowed. *)
LEMMA OwnerStaysHealthy ==
  ASSUME Inv, Inv', Stands, TermsStand, NEW u \in Users, NEW a \in Assets, TakesOnlyFrom(u, a),
         KeepsBorrowing(usersConfig, usersConfig'), NEW x \in Nat,
         BalanceDecreaseAllowed(reserves, usersConfig[u], price, a, u, x, now),
         usersConfig[u].collateral \ {a} \subseteq usersConfig'[u].collateral,
         a \in CountedCollateral(reserves, usersConfig[u]) =>
           Weights(reserves, usersConfig[u], price, u, now)[a]
             <= WeightIn(reserves', usersConfig'[u], price, u, now, a)
                  + DustWeight(reserves', usersConfig'[u], price)
                  + ((price[a] * x) \div reserves[a].configuration.unit)
                      * reserves[a].configuration.liquidationThreshold
  PROVE  Health(u) >= WAD => HealthWithDust(u)' >= WAD
<1>1. /\ Position(reserves, usersConfig[u], price, u, now)
      /\ Position(reserves', usersConfig'[u], price, u, now)
      /\ Health(u) = HealthFactorOf(reserves, usersConfig[u], price, u, now)
      /\ HealthWithDust(u)' = HealthWithDustOf(reserves', usersConfig'[u], price, u, now)
  BY PositionsNext
<1>2. TokensAreNat /\ TokensAreNat'
  BY PositionsHeld, PTL
<1>3. /\ usersConfig'[u].borrowing = usersConfig[u].borrowing
      /\ usersConfig[u] \in UserConfiguration
  BY <1>1 DEF KeepsBorrowing, Position
<1>4. \A b \in usersConfig'[u].borrowing :
        b \in usersConfig[u].borrowing /\ reserves'[b].dBalance[u] <= reserves[b].dBalance[u]
  BY <1>2, <1>3 DEF TakesOnlyFrom, GainsDebt, TokensAreNat, UserConfiguration
<1>5. \A b \in usersConfig[u].collateral \ {a} :
        /\ b \in usersConfig'[u].collateral
        /\ reserves[b].aBalance[u] <= reserves'[b].aBalance[u]
  BY <1>2, <1>3 DEF TakesOnlyFrom, LosesTokens, TokensAreNat, UserConfiguration
<1>6. WAD <= MAX_UINT
  BY PoolConstants
<1>7. SameTerms(reserves, reserves', now)
  BY DEF TermsStand
<1>8. ASSUME HealthFactorOf(reserves, usersConfig[u], price, u, now) >= WAD
      PROVE  HealthWithDustOf(reserves', usersConfig'[u], price, u, now) >= WAD
  BY <1>1, <1>4, <1>5, <1>6, <1>7, <1>8, AllowedDecrease
<1> QED
  BY <1>1, <1>8

(* A withdrawal: its decrease was allowed at the amount it burns.          *)
LEMMA WithdrawHealth ==
  ASSUME Inv, NEW u \in Users, NEW a \in Assets, NEW x \in Nat, Withdraw(u, a, x)
  PROVE  TermsStand /\ StayHealthy
<1> DEFINE r == reserves[a]
           balance == BalanceOf(r, u, now)
           taken   == IF x = MAX_UINT THEN balance ELSE x
           accrued == UpdateState(r, now)
           priced  == UpdateInterestRates(accrued, 0, taken)
           n       == BurnAToken(priced, u, taken)
           cfg     == usersConfig[u]
           new     == usersConfig'[u]
<1>1. /\ now \in Nat /\ x \in Nat /\ u \in Accounts /\ WellFormed(r, now)
      /\ CanUpdateInterestRates(accrued, 0, taken)
      /\ CanBurnAToken(priced, u, taken)
      /\ reserves' = [reserves EXCEPT ![a] = n]
      /\ price' = price /\ now' = now
      /\ usersConfig' = IF taken = balance
                        THEN SetUsingAsCollateral(usersConfig, u, a, FALSE)
                        ELSE usersConfig
      /\ usersConfig \in [Users -> UserConfiguration]
      /\ reserves \in [Assets -> Reserve]
      /\ BalanceDecreaseAllowed(reserves, usersConfig[u], price, a, u, taken, now)
  BY DEF Inv, TypeOK, AllWellFormed, Withdraw, ValidateWithdraw, Accounts
<1>2. taken \in Nat
  <2>1. balance \in Nat
    BY <1>1, BalanceIsNat
  <2> QED
    BY <1>1, <2>1
<1> HIDE DEF taken
<1>3. /\ TermsKept(r, n, now) /\ n.liquidityIndex = NormalizedIncome(r, now)
      /\ n.aBalance[u] = accrued.aBalance[u] - RayDiv(taken, n.liquidityIndex)
      /\ accrued.aBalance[u] \in Nat /\ r.aBalance[u] <= accrued.aBalance[u]
      /\ RayDiv(taken, n.liquidityIndex) <= accrued.aBalance[u]
  <2> HIDE DEF r
  <2>1. WellFormed(accrued, now) /\ accrued.aBalance[u] >= r.aBalance[u] /\ r.aBalance[u] \in Nat
    BY <1>1, UpdateStateSound, ReserveFields DEF WellFormed
  <2>2. KeepsClock(accrued, n)
        /\ n.aBalance[u] = accrued.aBalance[u] - RayDiv(taken, accrued.liquidityIndex)
    BY <1>1, <1>2, WithdrawClock
  <2>3. accrued.aBalance[u] \in Nat
    BY <1>1, <2>1, ReserveFields DEF WellFormed
  <2>4. RayDiv(taken, accrued.liquidityIndex) <= accrued.aBalance[u]
    <3>1. priced.liquidityIndex = accrued.liquidityIndex /\ priced.aBalance = accrued.aBalance
      BY <1>1, <1>2, <2>1, UpdateInterestRatesSound
    <3> HIDE DEF priced
    <3> QED
      BY <1>1, <2>3, <3>1 DEF CanBurnAToken
  <2> HIDE DEF n
  <2>5. TermsKept(r, n, now) /\ n.liquidityIndex = NormalizedIncome(r, now)
    BY <1>1, <2>2, SettledTerms
  <2>6. n.liquidityIndex = accrued.liquidityIndex
    BY <2>2 DEF KeepsClock, SameIndexes
  <2> QED
    BY <2>1, <2>2, <2>3, <2>4, <2>5, <2>6
<1> HIDE DEF n, accrued
<1>4. TermsStand
  BY <1>1, <1>3, OneReserveTerms DEF r
<1>5. Inv' /\ TakesOnlyFrom(u, a) /\ KeepsBorrowing(usersConfig, usersConfig')
  BY WithdrawStep
<1>6. /\ \A v \in Users \ {u} : usersConfig'[v] = usersConfig[v]
      /\ usersConfig[u].collateral \ {a} \subseteq usersConfig'[u].collateral
      /\ a \in usersConfig'[u].collateral => taken # balance
  <2>1. CASE taken = balance
    <3>1. usersConfig' = SetUsingAsCollateral(usersConfig, u, a, FALSE)
      BY <1>1, <2>1
    <3>2. DropsCollateral(usersConfig, usersConfig', u, a)
      BY <1>1, <3>1, CollateralSwitched
    <3> QED
      BY <3>2 DEF DropsCollateral
  <2>2. CASE taken # balance
    BY <1>1, <2>2
  <2> QED
    BY <2>1, <2>2
<1>7. Stands
  BY <1>1 DEF Stands
<1>8. a \in CountedCollateral(reserves, cfg) =>
        Weights(reserves, cfg, price, u, now)[a]
          <= WeightIn(reserves', new, price, u, now, a)
               + DustWeight(reserves', new, price)
               + ((price[a] * taken) \div reserves[a].configuration.unit)
                   * reserves[a].configuration.liquidationThreshold
  <2> SUFFICES ASSUME a \in CountedCollateral(reserves, cfg)
               PROVE  Weights(reserves, cfg, price, u, now)[a]
                        <= WeightIn(reserves', new, price, u, now, a)
                             + DustWeight(reserves', new, price)
                             + ((price[a] * taken) \div reserves[a].configuration.unit)
                                 * reserves[a].configuration.liquidationThreshold
    OBVIOUS
  <2>1. Position(reserves, cfg, price, u, now) /\ Position(reserves', new, price, u, now)
    BY <1>5, <1>7, PositionsNext
  <2>2. CASE taken = balance
    BY <2>1, <2>2, WeightOfAll
  <2>3. CASE a \in new.collateral
    <3>1. reserves'[a] = n
      BY <1>1
    <3>2. SameTerms(reserves, reserves', now)
      BY <1>4 DEF TermsStand
    <3>3. /\ reserves'[a].liquidityIndex = NormalizedIncome(reserves[a], now)
          /\ accrued.aBalance[u] \in Nat
          /\ reserves[a].aBalance[u] <= accrued.aBalance[u]
          /\ RayDiv(taken, reserves'[a].liquidityIndex) <= accrued.aBalance[u]
          /\ reserves'[a].aBalance[u]
               = accrued.aBalance[u] - RayDiv(taken, reserves'[a].liquidityIndex)
      BY <1>3, <3>1
    <3> HIDE DEF cfg, new
    <3> QED
      BY <1>2, <2>1, <2>3, <3>2, <3>3, WeightAfterBurn
  <2>4. CASE taken # balance
    <3>1. new = cfg
      BY <1>1, <2>4
    <3>2. a \in new.collateral
      BY <3>1 DEF CountedCollateral
    <3> QED
      BY <2>3, <3>2
  <2> QED
    BY <2>2, <2>4
<1>9. Health(u) >= WAD => HealthWithDust(u)' >= WAD
  BY <1>1, <1>2, <1>4, <1>5, <1>6, <1>7, <1>8, OwnerStaysHealthy
<1>10. ASSUME NEW v \in Users, v # u
       PROVE  Health(v) >= WAD => HealthWithDust(v)' >= WAD
  <2>1. usersConfig[v].collateral \subseteq usersConfig'[v].collateral
    BY <1>6, <1>10
  <2> QED
    BY <1>4, <1>5, <1>7, <1>10, <2>1, OthersStayHealthy
<1> QED
  BY <1>4, <1>9, <1>10 DEF StayHealthy

(* Dropping a flag is allowed as a withdrawal of the whole balance is.     *)
LEMMA SetUserUseReserveAsCollateralHealth ==
  ASSUME Inv, NEW u \in Users, NEW a \in Assets, NEW using \in BOOLEAN,
         SetUserUseReserveAsCollateral(u, a, using)
  PROVE  TermsStand /\ StayHealthy
<1> DEFINE x == BalanceOf(reserves[a], u, now)
<1>1. /\ now \in Nat /\ u \in Accounts /\ WellFormed(reserves[a], now)
      /\ reserves' = reserves /\ price' = price /\ now' = now
      /\ usersConfig' = SetUsingAsCollateral(usersConfig, u, a, using)
      /\ usersConfig \in [Users -> UserConfiguration]
      /\ using \/ BalanceDecreaseAllowed(reserves, usersConfig[u], price, a, u, x, now)
  BY DEF Inv, TypeOK, AllWellFormed, SetUserUseReserveAsCollateral,
         ValidateSetUseReserveAsCollateral, Accounts
<1>2. TermsStand /\ Stands
  BY <1>1, ReservesAtRest DEF Stands
<1>3. Inv'
  BY SetUserUseReserveAsCollateralStep
<1>4. TokensAreNat
  BY PositionsHeld
<1>5. \A v \in Users, b \in Assets : ~LosesTokens(v, b) /\ ~GainsDebt(v, b)
  BY <1>1, <1>4 DEF LosesTokens, GainsDebt, TokensAreNat
<1>6. TakesOnlyFrom(u, a)
  BY <1>5 DEF TakesOnlyFrom
<1>7. KeepsBorrowing(usersConfig, usersConfig')
  <2>1. \/ usersConfig' = SetUsingAsCollateral(usersConfig, u, a, TRUE)
        \/ usersConfig' = SetUsingAsCollateral(usersConfig, u, a, FALSE)
    BY <1>1
  <2> QED
    BY <1>1, <2>1, CollateralFlags
<1>8. CASE using
  <2>1. AddsCollateral(usersConfig, usersConfig')
    <3>1. usersConfig' = SetUsingAsCollateral(usersConfig, u, a, TRUE)
      BY <1>1, <1>8
    <3> QED
      BY <1>1, <3>1, CollateralSwitched
  <2> SUFFICES ASSUME NEW v \in Users PROVE Health(v) >= WAD => HealthWithDust(v)' >= WAD
    BY <1>2 DEF StayHealthy
  <2>2. /\ usersConfig[v].collateral \subseteq usersConfig'[v].collateral
        /\ usersConfig'[v].borrowing \subseteq usersConfig[v].borrowing
    BY <1>7, <2>1 DEF AddsCollateral, KeepsBorrowing
  <2> QED
    BY <1>2, <1>3, <1>5, <2>2, UntouchedStayHealthy
<1>9. CASE ~using
  <2>1. DropsCollateral(usersConfig, usersConfig', u, a)
    <3>1. usersConfig' = SetUsingAsCollateral(usersConfig, u, a, FALSE)
      BY <1>1, <1>9
    <3> QED
      BY <1>1, <3>1, CollateralSwitched
  <2>2. x \in Nat
    BY <1>1, BalanceIsNat
  <2>3. a \in CountedCollateral(reserves, usersConfig[u]) =>
          Weights(reserves, usersConfig[u], price, u, now)[a]
            <= WeightIn(reserves', usersConfig'[u], price, u, now, a)
                 + DustWeight(reserves', usersConfig'[u], price)
                 + ((price[a] * x) \div reserves[a].configuration.unit)
                     * reserves[a].configuration.liquidationThreshold
    <3>1. Position(reserves, usersConfig[u], price, u, now)
          /\ Position(reserves', usersConfig'[u], price, u, now)
      BY <1>2, <1>3, PositionsNext
    <3> QED
      BY <3>1, WeightOfAll
  <2>4. Health(u) >= WAD => HealthWithDust(u)' >= WAD
    <3>1. usersConfig[u].collateral \ {a} \subseteq usersConfig'[u].collateral
      BY <2>1 DEF DropsCollateral
    <3>2. BalanceDecreaseAllowed(reserves, usersConfig[u], price, a, u, x, now)
      BY <1>1, <1>9
    <3> HIDE DEF x
    <3> QED
      BY <1>2, <1>3, <1>6, <1>7, <2>2, <2>3, <3>1, <3>2, OwnerStaysHealthy
  <2>5. ASSUME NEW v \in Users, v # u
        PROVE  Health(v) >= WAD => HealthWithDust(v)' >= WAD
    <3>1. usersConfig[v].collateral \subseteq usersConfig'[v].collateral
      BY <2>1, <2>5 DEF DropsCollateral
    <3> QED
      BY <1>2, <1>3, <1>6, <1>7, <2>5, <3>1, OthersStayHealthy
  <2> QED
    BY <1>2, <2>4, <2>5 DEF StayHealthy
<1> QED
  BY <1>8, <1>9

(* A delegation moves nothing.                                             *)
LEMMA ApproveDelegationHealth ==
  ASSUME Inv, NEW u \in Users, NEW v \in Users, NEW a \in Assets, NEW x \in AllowanceAmounts,
         ApproveDelegation(u, v, a, x)
  PROVE  TermsStand /\ StayHealthy
<1>1. /\ reserves' = reserves /\ usersConfig' = usersConfig /\ price' = price /\ now' = now
  BY DEF ApproveDelegation
<1>2. Inv' /\ TokensAreNat
  BY ApproveDelegationStep, PositionsHeld
<1>3. TermsStand /\ Stands
  BY <1>1, ReservesAtRest DEF Stands
<1>4. \A w \in Users, b \in Assets : ~LosesTokens(w, b) /\ ~GainsDebt(w, b)
  BY <1>1, <1>2 DEF LosesTokens, GainsDebt, TokensAreNat
<1>5. ASSUME NEW w \in Users PROVE Health(w) >= WAD => HealthWithDust(w)' >= WAD
  BY <1>1, <1>2, <1>3, <1>4, UntouchedStayHealthy
<1> QED
  BY <1>3, <1>5 DEF StayHealthy

(* How a borrow or a repayment may change the flags.                       *)
BorrowingOnly(cfg, new, u, a) ==
  /\ \A v \in Users : new[v].collateral = cfg[v].collateral
  /\ \A v \in Users \ {u} : new[v] = cfg[v]
  /\ new[u].borrowing \ {a} \subseteq cfg[u].borrowing

LEMMA BorrowingSwitched ==
  ASSUME NEW cfg \in [Users -> UserConfiguration], NEW u \in Users, NEW a \in Assets
  PROVE  /\ BorrowingOnly(cfg, cfg, u, a)
         /\ BorrowingOnly(cfg, SetBorrowing(cfg, u, a, TRUE), u, a)
         /\ BorrowingOnly(cfg, SetBorrowing(cfg, u, a, FALSE), u, a)
         /\ SetBorrowing(cfg, u, a, FALSE)[u].borrowing \subseteq cfg[u].borrowing
BY DEF SetBorrowing, UserConfiguration, BorrowingOnly

(* A repayment takes from nobody and makes nobody owe.                     *)
LEMMA RepayHealth ==
  ASSUME Inv, NEW caller \in Users, NEW a \in Assets, NEW u \in Users, NEW x \in Nat,
         Repay(caller, a, u, x)
  PROVE  TermsStand /\ StayHealthy
<1> DEFINE r == reserves[a]
           debt    == DebtOf(r, u, now)
           payback == IF x < debt THEN x ELSE debt
           accrued == UpdateState(r, now)
           priced  == UpdateInterestRates(BurnDebt(accrued, u, payback), payback, 0)
           n       == Receive(priced, payback)
<1>1. /\ now \in Nat /\ WellFormed(r, now)
      /\ CanBurnDebt(accrued, u, payback)
      /\ CanUpdateInterestRates(BurnDebt(accrued, u, payback), payback, 0)
      /\ reserves' = [reserves EXCEPT ![a] = n]
      /\ price' = price /\ now' = now
      /\ \/ usersConfig' = SetBorrowing(usersConfig, u, a, FALSE)
         \/ usersConfig' = usersConfig
      /\ usersConfig \in [Users -> UserConfiguration]
  BY DEF Inv, TypeOK, AllWellFormed, Repay
<1>2. payback \in Nat
  <2>1. debt \in Nat
    BY <1>1, DebtScalesBack
  <2> QED
    BY <2>1
<1> HIDE DEF payback, debt
<1>3. TermsKept(r, n, now)
  <2> HIDE DEF r
  <2>1. KeepsClock(accrued, n)
    BY <1>1, <1>2, RepayClock
  <2> HIDE DEF n
  <2> QED
    BY <1>1, <2>1, SettledTerms
<1> HIDE DEF n
<1>4. TermsStand /\ Stands
  BY <1>1, <1>3, OneReserveTerms DEF r, Stands
<1>5. Inv' /\ NoneLose(Users) /\ NoneGain
  BY RepayStep
<1>6. BorrowingOnly(usersConfig, usersConfig', u, a)
      /\ usersConfig'[u].borrowing \subseteq usersConfig[u].borrowing
  BY <1>1, BorrowingSwitched
<1>7. ASSUME NEW v \in Users PROVE Health(v) >= WAD => HealthWithDust(v)' >= WAD
  <2>1. \A b \in Assets : ~LosesTokens(v, b) /\ ~GainsDebt(v, b)
    BY <1>5 DEF NoneLose, NoneGain
  <2>2. /\ usersConfig[v].collateral \subseteq usersConfig'[v].collateral
        /\ usersConfig'[v].borrowing \subseteq usersConfig[v].borrowing
    BY <1>6 DEF BorrowingOnly
  <2> QED
    BY <1>4, <1>5, <2>1, <2>2, UntouchedStayHealthy
<1> QED
  BY <1>4, <1>7 DEF StayHealthy

(* A borrow, or a flash loan's: the validation counts what it adds.        *)
LEMMA ExecuteBorrowHealth ==
  ASSUME Inv, ThresholdsAccepted(reserves), paused' = paused, price' = price, now' = now,
         NEW caller \in Users, NEW a \in Assets, NEW u \in Users, NEW x \in Nat \ {0},
         NEW released \in Nat, ExecuteBorrow(caller, a, u, x, released)
  PROVE  /\ TermsStand /\ StayHealthy
         /\ \E base : LoanAccepted(reserves, usersConfig[u], reserves', usersConfig'[u],
                                   price, u, now, a, base)
<1> DEFINE r == reserves[a]
           accrued == UpdateState(r, now)
           owed    == MintDebt(accrued, u, x)
           n       == Release(UpdateInterestRates(owed, 0, released), released)
           cfg     == usersConfig[u]
           new     == usersConfig'[u]
           base    == (price[a] * x) \div r.configuration.unit
<1>1. /\ now \in Nat /\ x \in Nat /\ u \in Accounts /\ WellFormed(r, now)
      /\ CanUpdateInterestRates(owed, 0, released)
      /\ reserves' = [reserves EXCEPT ![a] = n]
      /\ reserves \in [Assets -> Reserve]
      /\ \/ usersConfig' = SetBorrowing(usersConfig, u, a, TRUE)
         \/ usersConfig' = usersConfig
      /\ usersConfig \in [Users -> UserConfiguration]
      /\ ValidateBorrow(a, u, x)
  BY DEF Inv, TypeOK, AllWellFormed, ExecuteBorrow, Accounts
<1>2. /\ TermsKept(r, n, now)
      /\ n.variableBorrowIndex = NormalizedDebt(n, now) /\ n.variableBorrowIndex # 0
      /\ n.dBalance[u] = r.dBalance[u] + RayDiv(x, n.variableBorrowIndex)
  <2> HIDE DEF r
  <2>1. /\ KeepsClock(accrued, n)
        /\ n.dBalance[u] = r.dBalance[u] + RayDiv(x, accrued.variableBorrowIndex)
    BY <1>1, BorrowClock
  <2>2. accrued.variableBorrowIndex # 0
    BY <1>1, UpdateStateSound, WellFormedIndexes
  <2> HIDE DEF n
  <2>3. /\ TermsKept(r, n, now) /\ NormalizedDebt(n, now) = n.variableBorrowIndex
        /\ n.variableBorrowIndex = accrued.variableBorrowIndex
    BY <1>1, <2>1, SettledTerms
  <2> QED
    BY <2>1, <2>2, <2>3
<1> HIDE DEF n
<1>3. TermsStand /\ Stands
  BY <1>1, <1>2, OneReserveTerms DEF r, Stands
<1>4. /\ Inv'
      /\ \A b \in Assets, v \in Users :
           /\ reserves'[b].aBalance[v] >= reserves[b].aBalance[v]
           /\ v # u \/ b # a => reserves'[b].dBalance[v] = reserves[b].dBalance[v]
  BY ExecuteBorrowStep
<1>5. BorrowingOnly(usersConfig, usersConfig', u, a)
  BY <1>1, BorrowingSwitched
<1>6. TokensAreNat /\ TokensAreNat'
  BY <1>4, PositionsHeld, PTL
<1>7. ASSUME NEW v \in Users, v # u
      PROVE  Health(v) >= WAD => HealthWithDust(v)' >= WAD
  <2>1. \A b \in Assets : ~LosesTokens(v, b) /\ ~GainsDebt(v, b)
    BY <1>4, <1>6, <1>7 DEF LosesTokens, GainsDebt, TokensAreNat
  <2>2. /\ usersConfig[v].collateral \subseteq usersConfig'[v].collateral
        /\ usersConfig'[v].borrowing \subseteq usersConfig[v].borrowing
    BY <1>5, <1>7 DEF BorrowingOnly
  <2> QED
    BY <1>3, <1>4, <2>1, <2>2, UntouchedStayHealthy
<1>8. /\ HealthWithDust(u)' >= WAD
      /\ LoanAccepted(reserves, cfg, reserves', new, price, u, now, a, base)
  <2>1. /\ Position(reserves, cfg, price, u, now)
        /\ Position(reserves', new, price, u, now)
        /\ HealthWithDust(u)' = HealthWithDustOf(reserves', new, price, u, now)
    BY <1>3, <1>4, PositionsNext
  <2>2. WAD <= MAX_UINT
    BY PoolConstants
  <2>3. base \in Nat
    <3>1. price[a] \in Nat /\ r.configuration.unit \in Nat \ {0}
      BY <2>1, ConfigurationTypes DEF Position
    <3>2. price[a] * x \in Nat
      BY <1>1, <3>1, ProductMonotone
    <3> QED
      BY <3>1, <3>2, QuotientBounds
  <2>4. LET data == UserAccountData(reserves, cfg, price, u, now)
        IN  /\ data.collateral > 0 /\ data.ltv # 0
            /\ PercentDiv(data.debt + base, data.ltv) <= data.collateral
    BY <1>1 DEF ValidateBorrow, AccountData
  <2>5. /\ reserves'[a].variableBorrowIndex = NormalizedDebt(reserves'[a], now)
        /\ reserves'[a].variableBorrowIndex # 0
        /\ reserves'[a].dBalance[u]
             = reserves[a].dBalance[u] + RayDiv(x, reserves'[a].variableBorrowIndex)
    <3>1. reserves'[a] = n
      BY <1>1
    <3> QED
      BY <1>2, <3>1
  <2>6. reserves[a].dBalance[u] > 0 => a \in cfg.borrowing
    BY DEF Inv, BorrowFlagTracksDebt
  <2>7. SameTerms(reserves, reserves', now)
    BY <1>3 DEF TermsStand
  <2>8. cfg \in UserConfiguration /\ new \in UserConfiguration
    BY <2>1 DEF Position
  <2>9. \A b \in cfg.collateral :
          b \in new.collateral /\ reserves[b].aBalance[u] <= reserves'[b].aBalance[u]
    BY <1>4, <1>5, <1>6, <2>8 DEF BorrowingOnly, TokensAreNat, UserConfiguration
  <2>10. \A b \in new.borrowing \ {a} :
           b \in cfg.borrowing /\ reserves'[b].dBalance[u] <= reserves[b].dBalance[u]
    BY <1>4, <1>5, <1>6, <2>8 DEF BorrowingOnly, TokensAreNat, UserConfiguration
  <2> HIDE DEF cfg, new
  <2>11. a \in new.borrowing =>
           Debts(reserves', new, price, u, now)[a]
             <= OwedIn(reserves, cfg, price, u, now, a) + base + DustOwed(reserves', new, price)
    BY <1>1, <2>1, <2>5, <2>6, <2>7, DebtAfterMint
  <2> HIDE DEF base
  <2>12. HealthWithDustOf(reserves', new, price, u, now) >= WAD
    BY <2>1, <2>2, <2>3, <2>4, <2>7, <2>9, <2>10, <2>11, AcceptedLoan
  <2>13. LoanAccepted(reserves, cfg, reserves', new, price, u, now, a, base)
    BY <2>3, <2>4, <2>9, <2>10, <2>11 DEF LoanAccepted
  <2> QED
    BY <2>1, <2>12, <2>13
<1>9. \E k : LoanAccepted(reserves, usersConfig[u], reserves', usersConfig'[u],
                          price, u, now, a, k)
  BY <1>8
<1> QED
  BY <1>3, <1>7, <1>8, <1>9 DEF StayHealthy

(* A borrow of a user. *)
LEMMA BorrowHealth ==
  ASSUME Inv, ThresholdsAccepted(reserves),
         NEW caller \in Users, NEW a \in Assets, NEW u \in Users, NEW x \in Amounts,
         Borrow(caller, a, u, x)
  PROVE  TermsStand /\ StayHealthy
<1>1. x \in Nat \ {0} /\ x \in Nat
  BY PoolConstants
<1>2. /\ paused' = paused /\ price' = price /\ now' = now
      /\ ExecuteBorrow(caller, a, u, x, x)
  BY DEF Borrow
<1> QED
  BY <1>1, <1>2, ExecuteBorrowHealth

(* A transfer: its sender is healthy on the moved balances, and its flag   *)
(* goes only with its last token.                                          *)
LEMMA TransferHealth ==
  ASSUME Inv, NEW from \in Users, NEW to \in Users, NEW a \in Assets, NEW x \in Nat,
         Transfer(from, to, a, x)
  PROVE  TermsStand /\ StayHealthy
<1> DEFINE r == reserves[a]
           n == TransferAToken(r, from, to, x, now)
           all == from # to /\ BalanceOf(r, from, now) = x
           emptied == IF from # to /\ BalanceOf(r, from, now) = x
                      THEN SetUsingAsCollateral(usersConfig, from, a, FALSE)
                      ELSE usersConfig
<1>1. /\ now \in Nat /\ from \in Accounts /\ to \in Accounts
      /\ WellFormed(r, now) /\ usersConfig \in [Users -> UserConfiguration]
      /\ reserves \in [Assets -> Reserve]
  BY DEF Inv, TypeOK, AllWellFormed, Accounts
<1>2. /\ reserves' = [reserves EXCEPT ![a] = n]
      /\ price' = price /\ now' = now
      /\ \/ usersConfig' = SetUsingAsCollateral(emptied, to, a, TRUE)
         \/ usersConfig' = emptied
      /\ HealthFactorOf(reserves', usersConfig[from], price, from, now) >= WAD
  BY DEF Transfer, HealthFactorIn
<1>3. TermsKept(r, n, now)
  BY <1>1, TransferTerms
<1>4. all => n.aBalance[from] = 0
  BY <1>1, TransferOfAll
<1> HIDE DEF n
<1>5. TermsStand /\ Stands
  BY <1>2, <1>3, OneReserveTerms DEF Stands
<1>6. /\ Inv' /\ TakesOnlyFrom(from, a) /\ KeepsBorrowing(usersConfig, usersConfig')
  BY TransferStep
<1>7. /\ \A v \in Users \ {from} : usersConfig[v].collateral \subseteq usersConfig'[v].collateral
      /\ \A b \in usersConfig[from].collateral : b \in usersConfig'[from].collateral \/ (b = a /\ all)
  <2>1. /\ \/ DropsCollateral(usersConfig, emptied, from, a) /\ all
           \/ emptied = usersConfig
        /\ emptied \in [Users -> UserConfiguration]
    <3>1. CASE all
      <4>1. emptied = SetUsingAsCollateral(usersConfig, from, a, FALSE)
        BY <3>1
      <4>2. KeepsBorrowing(usersConfig, emptied)
        BY <1>1, <4>1, CollateralFlags
      <4> QED
        BY <1>1, <3>1, <4>1, <4>2, CollateralSwitched DEF KeepsBorrowing
    <3>2. CASE ~all
      BY <1>1, <3>2
    <3> QED
      BY <3>1, <3>2
  <2> HIDE DEF emptied, all
  <2>2. AddsCollateral(emptied, usersConfig')
    <3>1. CASE usersConfig' = SetUsingAsCollateral(emptied, to, a, TRUE)
      BY <2>1, <3>1, CollateralSwitched
    <3>2. CASE usersConfig' = emptied
      BY <3>2 DEF AddsCollateral
    <3> QED
      BY <1>2, <3>1, <3>2
  <2>3. CASE DropsCollateral(usersConfig, emptied, from, a) /\ all
    <3>1. /\ \A v \in Users \ {from} : emptied[v] = usersConfig[v]
          /\ emptied[from].collateral = usersConfig[from].collateral \ {a}
      BY <2>3 DEF DropsCollateral
    <3> QED
      BY <2>2, <2>3, <3>1 DEF AddsCollateral
  <2>4. CASE emptied = usersConfig
    BY <2>2, <2>4 DEF AddsCollateral
  <2> QED
    BY <2>1, <2>3, <2>4
<1> HIDE DEF emptied
<1>8. ASSUME NEW v \in Users, v # from
      PROVE  Health(v) >= WAD => HealthWithDust(v)' >= WAD
  <2>1. usersConfig[v].collateral \subseteq usersConfig'[v].collateral
    BY <1>7, <1>8
  <2> QED
    BY <1>5, <1>6, <1>8, <2>1, OthersStayHealthy
<1>9. HealthWithDust(from)' >= WAD
  <2> DEFINE cfg == usersConfig[from]
             new == usersConfig'[from]
  <2>1. /\ Position(reserves, cfg, price, from, now)
        /\ Position(reserves', new, price, from, now)
        /\ HealthWithDust(from)' = HealthWithDustOf(reserves', new, price, from, now)
    BY <1>5, <1>6, PositionsNext
  <2>2. Position(reserves', cfg, price, from, now)
    BY <2>1 DEF Position
  <2>3. new.borrowing = cfg.borrowing
    BY <1>6 DEF KeepsBorrowing
  <2>4. WAD <= MAX_UINT
    BY PoolConstants
  <2>5. reserves'[a] = n
    BY <1>1, <1>2
  <2>6. \A b \in cfg.collateral :
          b \in new.collateral \/ (b = a /\ reserves'[b].aBalance[from] = 0)
    BY <1>4, <1>7, <2>5
  <2>7. HealthFactorOf(reserves', cfg, price, from, now) >= WAD
    BY <1>2
  <2> HIDE DEF cfg, new, r
  <2>8. HealthWithDustOf(reserves', new, price, from, now) >= WAD
    BY <2>1, <2>2, <2>3, <2>4, <2>6, <2>7, EmptiedIsHealthy
  <2> QED
    BY <2>1, <2>8
<1> QED
  BY <1>5, <1>8, <1>9 DEF StayHealthy

(* The reserves halfway through a call still stand on the same terms.      *)
OnTerms(R) == AllWellFormed(R, now) /\ SameTerms(reserves, R, now)

(* One reserve after the other.                                            *)
LEMMA OneMoreTerms ==
  ASSUME Inv, NEW R, OnTerms(R), NEW a \in Assets, NEW n, WellFormed(n, now),
         TermsKept(R[a], n, now)
  PROVE  OnTerms([R EXCEPT ![a] = n])
<1> DEFINE S == [R EXCEPT ![a] = n]
<1>1. now \in Nat /\ AllWellFormed(R, now) /\ AllWellFormed(reserves, now)
  BY DEF OnTerms, Inv, TypeOK
<1>2. /\ AllWellFormed(S, now) /\ S[a] = n
      /\ \A b \in Assets \ {a} : S[b] = R[b]
  BY <1>1, ReplaceReserve
<1> HIDE DEF S
<1>3. \A b \in Assets :
        /\ NormalizedDebt(reserves[b], now) \in Nat
        /\ NormalizedDebt(R[b], now) \in Nat /\ NormalizedDebt(S[b], now) \in Nat
  BY <1>1, <1>2, DebtIsAtLeastAccrued DEF AllWellFormed
<1>4. \A b \in Assets : TermsKept(reserves[b], R[b], now)
  BY DEF OnTerms, SameTerms, TermsKept
<1>5. ASSUME NEW b \in Assets PROVE TermsKept(reserves[b], S[b], now)
  <2>1. CASE b = a
    BY <1>2, <1>3, <1>4, <2>1, TermsTransitive
  <2>2. CASE b # a
    BY <1>2, <1>4, <2>2
  <2> QED
    BY <2>1, <2>2
<1> QED
  BY <1>2, <1>5 DEF OnTerms, SameTerms, TermsKept, S

(* What a liquidation does to the reserves leaves every term as it was.    *)
LEMMA LiquidationTerms ==
  ASSUME Inv, NEW l \in Users, NEW c \in Assets, NEW d \in Assets, NEW u \in Users,
         NEW x \in Amounts \cup {MAX_UINT}, NEW receiveAToken \in BOOLEAN,
         LiquidationCall(l, c, d, u, x, receiveAToken)
  PROVE  TermsStand
<1> DEFINE taken    == Liquidation(c, d, u, x).seized
           repaid   == Liquidation(c, d, u, x).repaid
           accrued  == UpdateState(reserves[d], now)
           burned   == BurnDebt(accrued, u, repaid)
           priced   == UpdateInterestRates(burned, repaid, 0)
           settled  == [reserves EXCEPT ![d] = priced]
           cAccrued == UpdateState(settled[c], now)
           cPriced  == UpdateInterestRates(cAccrued, 0, taken)
           moved    == IF receiveAToken
                       THEN TransferAToken(settled[c], u, l, taken, now)
                       ELSE BurnAToken(cPriced, u, taken)
           seized   == [settled EXCEPT ![c] = moved]
<1>1. /\ now \in Nat /\ x \in Nat /\ u \in Accounts /\ l \in Accounts
      /\ AllWellFormed(reserves, now) /\ WellFormed(reserves[d], now)
      /\ taken \in Nat /\ repaid \in Nat
  BY AmountTypes, LiquidationTypes DEF Inv, TypeOK, AllWellFormed, Accounts
<1>2. /\ CanBurnDebt(accrued, u, repaid)
      /\ CanUpdateInterestRates(burned, repaid, 0)
      /\ IF receiveAToken
         THEN CanTransferAToken(settled[c], u, taken, now)
         ELSE CanUpdateInterestRates(cAccrued, 0, taken) /\ CanBurnAToken(cPriced, u, taken)
      /\ reserves' = [seized EXCEPT ![d] = Receive(seized[d], repaid)]
  BY DEF LiquidationCall
<1> HIDE DEF taken, repaid
<1>3. OnTerms(reserves)
  <2>1. \A a \in Assets : TermsKept(reserves[a], reserves[a], now)
    BY <1>1, SameTermsAtRest DEF AllWellFormed
  <2> QED
    BY <1>1, <2>1 DEF OnTerms, SameTerms, TermsKept
<1>4. WellFormed(priced, now) /\ TermsKept(reserves[d], priced, now)
  <2>1. WellFormed(priced, now) /\ KeepsClock(accrued, priced)
    BY <1>1, <1>2, RepayClock
  <2> HIDE DEF priced
  <2> QED
    BY <1>1, <2>1, SettledTerms
<1> HIDE DEF priced
<1>5. OnTerms(settled)
  BY <1>3, <1>4, OneMoreTerms
<1> HIDE DEF settled
<1>6. WellFormed(settled[c], now)
  BY <1>5 DEF OnTerms, AllWellFormed
<1>7. WellFormed(moved, now) /\ TermsKept(settled[c], moved, now)
  <2>1. CASE receiveAToken
    <3>1. moved = TransferAToken(settled[c], u, l, taken, now)
          /\ CanTransferAToken(settled[c], u, taken, now)
      BY <1>2, <2>1
    <3> HIDE DEF moved
    <3> QED
      BY <1>1, <1>6, <3>1, SeizureTerms
  <2>2. CASE ~receiveAToken
    <3>1. moved = BurnAToken(cPriced, u, taken)
          /\ CanUpdateInterestRates(cAccrued, 0, taken) /\ CanBurnAToken(cPriced, u, taken)
      BY <1>2, <2>2
    <3> HIDE DEF moved
    <3> QED
      BY <1>1, <1>6, <3>1, SeizureTerms
  <2> QED
    BY <2>1, <2>2
<1> HIDE DEF moved
<1>8. OnTerms(seized)
  BY <1>5, <1>7, OneMoreTerms
<1> HIDE DEF seized
<1>9. WellFormed(Receive(seized[d], repaid), now)
      /\ TermsKept(seized[d], Receive(seized[d], repaid), now)
  <2>1. WellFormed(seized[d], now)
    BY <1>8 DEF OnTerms, AllWellFormed
  <2> QED
    BY <1>1, <2>1, CashMoves, PaymentTerms
<1>10. OnTerms([seized EXCEPT ![d] = Receive(seized[d], repaid)])
  BY <1>8, <1>9, OneMoreTerms
<1> QED
  BY <1>2, <1>10 DEF OnTerms, TermsStand

(* A liquidation takes from an unhealthy position only.                    *)
LEMMA LiquidationHealth ==
  ASSUME Inv, NEW l \in Users, NEW c \in Assets, NEW d \in Assets, NEW u \in Users,
         NEW x \in Amounts \cup {MAX_UINT}, NEW receiveAToken \in BOOLEAN,
         LiquidationCall(l, c, d, u, x, receiveAToken)
  PROVE  TermsStand /\ StayHealthy
<1> DEFINE rewarded == IF receiveAToken
                            /\ BalanceOf([reserves EXCEPT ![d] =
                                 UpdateInterestRates(
                                   BurnDebt(UpdateState(reserves[d], now), u,
                                            Liquidation(c, d, u, x).repaid),
                                   Liquidation(c, d, u, x).repaid, 0)][c], l, now) = 0
                       THEN SetUsingAsCollateral(usersConfig, l, c, TRUE)
                       ELSE usersConfig
<1>1. /\ price' = price /\ now' = now
      /\ usersConfig \in [Users -> UserConfiguration]
      /\ \/ usersConfig' = SetUsingAsCollateral(rewarded, u, c, FALSE)
         \/ usersConfig' = rewarded
  BY DEF Inv, TypeOK, LiquidationCall
<1>2. TermsStand /\ Stands
  BY <1>1, LiquidationTerms DEF Stands
<1>3. /\ Inv' /\ TakesOnlyFrom(u, c) /\ Health(u) < WAD
      /\ KeepsBorrowing(usersConfig, usersConfig')
  BY LiquidationCallStep
<1>4. AddsCollateral(usersConfig, rewarded) /\ rewarded \in [Users -> UserConfiguration]
  <2>1. \/ rewarded = SetUsingAsCollateral(usersConfig, l, c, TRUE)
        \/ rewarded = usersConfig
    OBVIOUS
  <2> HIDE DEF rewarded
  <2>2. CASE rewarded = SetUsingAsCollateral(usersConfig, l, c, TRUE)
    BY <1>1, <2>2, CollateralSwitched, CollateralFlags DEF KeepsBorrowing
  <2>3. CASE rewarded = usersConfig
    BY <1>1, <2>3 DEF AddsCollateral
  <2> QED
    BY <2>1, <2>2, <2>3
<1> HIDE DEF rewarded
<1>5. \A v \in Users \ {u} : rewarded[v].collateral \subseteq usersConfig'[v].collateral
  <2>1. CASE usersConfig' = SetUsingAsCollateral(rewarded, u, c, FALSE)
    <3>1. DropsCollateral(rewarded, SetUsingAsCollateral(rewarded, u, c, FALSE), u, c)
      BY <1>4, CollateralSwitched
    <3>2. \A v \in Users \ {u} : SetUsingAsCollateral(rewarded, u, c, FALSE)[v] = rewarded[v]
      BY <3>1 DEF DropsCollateral
    <3> QED
      BY <2>1, <3>2
  <2>2. CASE usersConfig' = rewarded
    BY <2>2
  <2> QED
    BY <1>1, <2>1, <2>2
<1>6. ASSUME NEW v \in Users, v # u
      PROVE  Health(v) >= WAD => HealthWithDust(v)' >= WAD
  <2>1. usersConfig[v].collateral \subseteq usersConfig'[v].collateral
    BY <1>4, <1>5, <1>6 DEF AddsCollateral
  <2> QED
    BY <1>2, <1>3, <1>6, <2>1, OthersStayHealthy
<1>7. ~(Health(u) >= WAD)
  <2>1. Health(u) \in Int
    <3>1. Position(reserves, usersConfig[u], price, u, now)
      BY PositionsHeld DEF Positions
    <3>2. Health(u) = HealthFactorOf(reserves, usersConfig[u], price, u, now)
      BY HealthForms
    <3> QED
      BY <3>1, <3>2, HealthIsNat, PoolConstants
  <2> QED
    BY <1>3, <2>1, ScalesPositive
<1> QED
  BY <1>2, <1>6, <1>7 DEF StayHealthy

(* The pool's own calls change no configuration.                           *)
AsListed == \A a \in Assets : reserves[a].configuration = Configurations[a]

(* So what the configurator accepted at listing stays accepted.            *)
LEMMA ThresholdsStand == Inv /\ AsListed => ThresholdsAccepted(reserves)
<1> SUFFICES ASSUME Inv, AsListed, NEW a \in Assets
             PROVE  /\ reserves[a].configuration.ltv
                         <= reserves[a].configuration.liquidationThreshold
                    /\ reserves[a].configuration.liquidationThreshold <= PERCENTAGE_FACTOR
  BY DEF ThresholdsAccepted
<1> DEFINE k == Configurations[a]
<1>1. k \in Configuration /\ reserves[a].configuration = k
  BY PoolConstants DEF AsListed
<1>2. /\ k.ltv <= k.liquidationThreshold
      /\ k.liquidationThreshold # 0 =>
           /\ k.liquidationBonus > PERCENTAGE_FACTOR
           /\ PercentMul(k.liquidationThreshold, k.liquidationBonus) <= PERCENTAGE_FACTOR
  BY CollateralParametersAccepted
<1>3. k.liquidationThreshold \in Nat /\ k.liquidationBonus \in Nat
  BY <1>1 DEF Configuration
<1> HIDE DEF k
<1>4. CASE k.liquidationThreshold = 0
  BY <1>1, <1>2, <1>4, ScalesPositive
<1>5. CASE k.liquidationThreshold # 0
  BY <1>1, <1>2, <1>3, <1>5, ThresholdWithBonus
<1> QED
  BY <1>4, <1>5

(* Every call keeps the terms and everybody's health.                      *)
LEMMA CallHealth ==
  ASSUME Inv, ThresholdsAccepted(reserves), Call
  PROVE  TermsStand /\ StayHealthy
<1>1. ASSUME NEW a \in Assets, NEW x \in Amounts, NEW u \in Users, Deposit(a, x, u)
      PROVE  TermsStand /\ StayHealthy
  BY <1>1, DepositHealth
<1>2. ASSUME NEW u \in Users, NEW a \in Assets, NEW x \in Amounts \cup {MAX_UINT},
             Withdraw(u, a, x)
      PROVE  TermsStand /\ StayHealthy
  BY <1>2, AmountTypes, WithdrawHealth
<1>3. ASSUME NEW caller \in Users, NEW a \in Assets, NEW u \in Users, NEW x \in Amounts,
             Borrow(caller, a, u, x)
      PROVE  TermsStand /\ StayHealthy
  BY <1>3, BorrowHealth
<1>4. ASSUME NEW u \in Users, NEW v \in Users, NEW a \in Assets, NEW x \in AllowanceAmounts,
             ApproveDelegation(u, v, a, x)
      PROVE  TermsStand /\ StayHealthy
  BY <1>4, ApproveDelegationHealth
<1>5. ASSUME NEW caller \in Users, NEW a \in Assets, NEW u \in Users,
             NEW x \in Amounts \cup {MAX_UINT}, Repay(caller, a, u, x)
      PROVE  TermsStand /\ StayHealthy
  BY <1>5, AmountTypes, RepayHealth
<1>6. ASSUME NEW u \in Users, NEW a \in Assets, NEW using \in BOOLEAN,
             SetUserUseReserveAsCollateral(u, a, using)
      PROVE  TermsStand /\ StayHealthy
  BY <1>6, SetUserUseReserveAsCollateralHealth
<1>7. ASSUME NEW l \in Users, NEW c \in Assets, NEW d \in Assets, NEW u \in Users,
             NEW x \in Amounts \cup {MAX_UINT}, NEW b \in BOOLEAN,
             LiquidationCall(l, c, d, u, x, b)
      PROVE  TermsStand /\ StayHealthy
  BY <1>7, LiquidationHealth
<1>8. ASSUME NEW from \in Users, NEW to \in Users, NEW a \in Assets, NEW x \in Amounts,
             Transfer(from, to, a, x)
      PROVE  TermsStand /\ StayHealthy
  BY <1>8, AmountTypes, TransferHealth
<1> QED
  BY <1>1, <1>2, <1>3, <1>4, <1>5, <1>6, <1>7, <1>8 DEF Call

(* Nobody touched: the same position, with dust in its favour.             *)
LEMMA RestHealth ==
  ASSUME Inv, Inv', Stands, reserves' = reserves, usersConfig' = usersConfig
  PROVE  StayHealthy
<1>1. TermsStand
  BY ReservesAtRest
<1>2. TokensAreNat
  BY PositionsHeld
<1>3. \A v \in Users, b \in Assets : ~LosesTokens(v, b) /\ ~GainsDebt(v, b)
  BY <1>2 DEF LosesTokens, GainsDebt, TokensAreNat
<1> SUFFICES ASSUME NEW v \in Users PROVE Health(v) >= WAD => HealthWithDust(v)' >= WAD
  BY DEF StayHealthy
<1>4. /\ usersConfig[v].collateral \subseteq usersConfig'[v].collateral
      /\ usersConfig'[v].borrowing \subseteq usersConfig[v].borrowing
  OBVIOUS
<1> QED
  BY <1>1, <1>3, <1>4, UntouchedStayHealthy

(* Every step does.                                                        *)
LEMMA StepHealth ==
  ASSUME Inv, Inv', AsListed, [Next]_vars
  PROVE  AsListed' /\ (Stands => StayHealthy)
<1>1. CASE Call
  <2>1. TermsStand /\ StayHealthy
    BY <1>1, ThresholdsStand, CallHealth
  <2> QED
    BY <2>1 DEF TermsStand, SameTerms, AsListed
<1>2. CASE Environment \/ UNCHANGED vars
  <2>1. reserves' = reserves /\ usersConfig' = usersConfig
    <3>1. \A a \in Assets, p \in Prices :
            SetPrice(a, p) => reserves' = reserves /\ usersConfig' = usersConfig
      BY DEF SetPrice
    <3>2. Tick => reserves' = reserves /\ usersConfig' = usersConfig
      BY DEF Tick
    <3>3. UNCHANGED vars => reserves' = reserves /\ usersConfig' = usersConfig
      BY DEF vars
    <3> QED
      BY <1>2, <3>1, <3>2, <3>3 DEF Environment
  <2> QED
    BY <2>1, RestHealth DEF AsListed
<1> QED
  BY <1>1, <1>2 DEF Next

(* No call of the pool, by its owner or by anybody else, makes a healthy   *)
(* position liquidatable, beyond rounding.                                 *)
THEOREM HealthyPositionsStayHealthy == Spec => NobodyMadeUnhealthy
<1>1. Init => AsListed
  BY DEF Init, AsListed, InitReserve
<1>2. Inv /\ Inv' /\ AsListed /\ [Next]_vars => AsListed'
  BY StepHealth
<1>3. Spec => []AsListed
  BY <1>1, <1>2, Invariance, PTL DEF Spec
<1>4. Inv /\ Inv' /\ AsListed /\ [Next]_vars =>
        (now' = now /\ price' = price =>
           \A u \in Users : Health(u) >= WAD => HealthWithDust(u)' >= WAD)
  BY StepHealth DEF Stands, StayHealthy
<1> QED
  BY <1>3, <1>4, Invariance, PTL DEF Spec, NobodyMadeUnhealthy

-----------------------------------------------------------------------------
(* The liquidation bonus. Only a borrow makes anybody owe more.            *)

(* The terms of LoansCoverBonus, as functions of the state.                *)
BonusForms ==
  \A v \in Users :
    /\ ValueNetOfBonus(v) = NetWorth(reserves, usersConfig[v], price, v, now)
    /\ AccountData(reserves, v).debt = UserAccountData(reserves, usersConfig[v], price, v, now).debt
    /\ DebtDust(v) = DustOwed(reserves, usersConfig[v], price)

LEMMA BonusFormsHold == BonusForms
<1> SUFFICES ASSUME NEW v \in Users
             PROVE  /\ ValueNetOfBonus(v) = NetWorth(reserves, usersConfig[v], price, v, now)
                    /\ AccountData(reserves, v).debt
                         = UserAccountData(reserves, usersConfig[v], price, v, now).debt
                    /\ DebtDust(v) = DustOwed(reserves, usersConfig[v], price)
  BY DEF BonusForms
<1> DEFINE q == NetValues(reserves, usersConfig[v], price, v, now)
           A == CountedCollateral(reserves, usersConfig[v])
<1>1. ValueNetOfBonus(v) = SumFunction(q)
  BY Zenon DEF ValueNetOfBonus, NetValues
<1>2. DOMAIN q = A
  BY DEF NetValues
<1>3. SumFunction(q) = Total(q, DOMAIN q)
  BY SumIsTotal
<1>4. NetWorth(reserves, usersConfig[v], price, v, now) = Total(q, A)
  BY DEF NetWorth
<1>5. ValueNetOfBonus(v) = NetWorth(reserves, usersConfig[v], price, v, now)
  BY ONLY <1>1, <1>2, <1>3, <1>4, Zenon
<1>6. AccountData(reserves, v).debt = UserAccountData(reserves, usersConfig[v], price, v, now).debt
  BY DEF AccountData
<1> QED
  BY <1>5, <1>6, HealthForms

LEMMA BonusesStand == AsListed => BonusesAccepted(reserves)
BY CollateralParametersAccepted DEF AsListed, BonusesAccepted

(* LoansCoverBonus, of one user.                                           *)
CoversBonus(u) ==
  AccountData(reserves, u).debt'
    <= (PercentMul(ValueNetOfBonus(u), PERCENTAGE_FACTOR + 1) + DebtDust(u))'
         + Cardinality(Assets)

(* A borrow: only the borrower's debt grows, and what it owes is covered.  *)
LEMMA BorrowCoversBonus ==
  ASSUME Inv, Inv', AsListed, AsListed',
         NEW caller \in Users, NEW a \in Assets, NEW u \in Users, NEW x \in Amounts,
         Borrow(caller, a, u, x), NEW v \in Users, NEW b \in Assets, GainsDebt(v, b)
  PROVE  CoversBonus(v)
<1>1. x \in Nat \ {0} /\ x \in Nat
  BY PoolConstants
<1>2. /\ paused' = paused /\ price' = price /\ now' = now
      /\ ExecuteBorrow(caller, a, u, x, x)
  BY DEF Borrow
<1>3. ThresholdsAccepted(reserves)
  BY ThresholdsStand
<1>4. v = u
  <2>1. v # u => reserves'[b].dBalance[v] = reserves[b].dBalance[v]
    BY <1>1, <1>2, ExecuteBorrowStep
  <2>2. TokensAreNat
    BY PositionsHeld
  <2> QED
    BY <2>1, <2>2 DEF GainsDebt, TokensAreNat
<1> DEFINE cfg == usersConfig[u]
           new == usersConfig'[u]
<1>5. /\ SameTerms(reserves, reserves', now)
      /\ \E base : LoanAccepted(reserves, cfg, reserves', new, price, u, now, a, base)
  BY <1>1, <1>2, <1>3, ExecuteBorrowHealth DEF TermsStand
<1>6. BonusesAccepted(reserves')
  <2>1. (AsListed => BonusesAccepted(reserves))'
    BY BonusesStand, PTL
  <2> QED
    BY <2>1
<1>7. /\ Position(reserves, cfg, price, u, now)
      /\ Position(reserves', new, price, u, now)
  <2>1. Stands
    BY <1>2 DEF Stands
  <2> QED
    BY <2>1, PositionsNext
<1>8. /\ ValueNetOfBonus(u)' = NetWorth(reserves', new, price, u, now)
      /\ AccountData(reserves, u).debt' = UserAccountData(reserves', new, price, u, now).debt
      /\ DebtDust(u)' = DustOwed(reserves', new, price)
  <2>1. BonusForms'
    BY BonusFormsHold, PTL
  <2> QED
    BY <1>2, <2>1 DEF BonusForms
<1> HIDE DEF cfg, new
<1>9. UserAccountData(reserves', new, price, u, now).debt
        <= PercentMul(NetWorth(reserves', new, price, u, now), PERCENTAGE_FACTOR + 1)
             + DustOwed(reserves', new, price) + Cardinality(Assets)
  BY <1>3, <1>5, <1>6, <1>7, PoolConstants, AcceptedLoanCoversBonus
<1> QED
  BY <1>4, <1>8, <1>9 DEF CoversBonus

(* Nobody gets debt but by a borrow.                                       *)
LEMMA OnlyBorrowsGain ==
  ASSUME Inv, [Next]_vars, NEW v \in Users, NEW b \in Assets, GainsDebt(v, b)
  PROVE  \E caller \in Users, a \in Assets, u \in Users, x \in Amounts : Borrow(caller, a, u, x)
<1>1. ASSUME NEW a \in Assets, NEW x \in Amounts, NEW u \in Users, Deposit(a, x, u)
      PROVE  FALSE
  BY <1>1, DepositStep DEF NoneGain
<1>2. ASSUME NEW u \in Users, NEW a \in Assets, NEW x \in Amounts \cup {MAX_UINT},
             Withdraw(u, a, x)
      PROVE  FALSE
  BY <1>2, AmountTypes, WithdrawStep DEF TakesOnlyFrom
<1>3. ASSUME NEW caller \in Users, NEW a \in Assets, NEW u \in Users,
             NEW x \in Amounts \cup {MAX_UINT}, Repay(caller, a, u, x)
      PROVE  FALSE
  BY <1>3, AmountTypes, RepayStep DEF NoneGain
<1>4. ASSUME NEW l \in Users, NEW c \in Assets, NEW d \in Assets, NEW u \in Users,
             NEW x \in Amounts \cup {MAX_UINT}, NEW r \in BOOLEAN,
             LiquidationCall(l, c, d, u, x, r)
      PROVE  FALSE
  BY <1>4, LiquidationCallStep DEF TakesOnlyFrom
<1>5. ASSUME NEW from \in Users, NEW to \in Users, NEW a \in Assets, NEW x \in Amounts,
             Transfer(from, to, a, x)
      PROVE  FALSE
  BY <1>5, AmountTypes, TransferStep DEF TakesOnlyFrom
<1>6. reserves' # reserves
  <2>1. TokensAreNat
    BY PositionsHeld
  <2> QED
    BY <2>1 DEF GainsDebt, TokensAreNat
<1>7. /\ \A u, a, using : SetUserUseReserveAsCollateral(u, a, using) => reserves' = reserves
      /\ \A u, w, a, x : ApproveDelegation(u, w, a, x) => reserves' = reserves
      /\ \A a, p : SetPrice(a, p) => reserves' = reserves
      /\ Tick => reserves' = reserves
      /\ UNCHANGED vars => reserves' = reserves
  BY DEF SetUserUseReserveAsCollateral, ApproveDelegation, SetPrice, Tick, vars
<1> QED
  BY <1>1, <1>2, <1>3, <1>4, <1>5, <1>6, <1>7 DEF Next, Call, Environment

(* Every loan leaves the collateral, net of the liquidation bonus, worth   *)
(* the debt: what the configurator bounds threshold times bonus for.       *)
THEOREM EveryLoanCoversTheBonus == Spec => LoansCoverBonus
<1>1. Init => AsListed
  BY DEF Init, AsListed, InitReserve
<1>2. Inv /\ Inv' /\ AsListed /\ [Next]_vars => AsListed'
  BY StepHealth
<1>3. Spec => []AsListed
  BY <1>1, <1>2, Invariance, PTL DEF Spec
<1>4. Inv /\ Inv' /\ AsListed /\ AsListed' /\ [Next]_vars =>
        \A u \in Users :
          (\E a \in Assets : GainsDebt(u, a)) =>
             AccountData(reserves, u).debt'
               <= (PercentMul(ValueNetOfBonus(u), PERCENTAGE_FACTOR + 1) + DebtDust(u))'
                    + Cardinality(Assets)
  <2> SUFFICES ASSUME Inv, Inv', AsListed, AsListed', [Next]_vars,
                      NEW u \in Users, NEW a \in Assets, GainsDebt(u, a)
               PROVE  CoversBonus(u)
    BY DEF CoversBonus
  <2>1. PICK caller \in Users, b \in Assets, w \in Users, x \in Amounts : Borrow(caller, b, w, x)
    BY OnlyBorrowsGain
  <2> QED
    BY <2>1, BorrowCoversBonus
<1> QED
  BY <1>3, <1>4, Invariance, PTL DEF Spec, LoansCoverBonus

-----------------------------------------------------------------------------
(* The interest of one unit of time, reserve by reserve and at last of the *)
(* pool.                                                                   *)

(* The dust of a unit of time, as a function of a reserve: j is the income *)
(* index, c the claims, v what backs them, g what they are ahead of it.    *)
WholeUnits(j, c, v, g, br, lr) ==
  (j + 2 * c + 4 * v) \div RAY + UnitInterest(v \div RAY + 1, br) + UnitInterest(g + 1, lr)

UnitDust(r, t) ==
  LET claims    == RayMul(r.aSupply, r.liquidityIndex)
      backing   == r.cash + RayMul(r.dSupply, r.variableBorrowIndex)
      shortfall == IF claims > backing THEN claims - backing ELSE 0
  IN  6 + WholeUnits(NormalizedIncome(r, t + 1), claims, backing, shortfall,
                     r.borrowRate, r.liquidityRate)

(* Interest in whole units covers what is left of a ray of them.           *)
LEMMA WholeUnitsAreNat ==
  ASSUME NEW j \in Nat, NEW c \in Nat, NEW v \in Nat, NEW g \in Nat,
         NEW br \in Nat, NEW lr \in Nat
  PROVE  /\ WholeUnits(j, c, v, g, br, lr) \in Nat
         /\ j \div RAY \in Nat /\ j \div RAY <= WholeUnits(j, c, v, g, br, lr)
<1> DEFINE n == j + 2 * c + 4 * v
           E == RAY * SECONDS_PER_YEAR
           h == v \div RAY + 1
           a == h * br
           b == (g + 1) * lr
<1>1. RAY \in Nat \ {0} /\ E \in Nat \ {0}
  BY ScalesPositive
<1>2. n \in Nat /\ j <= n
  OBVIOUS
<1>3. h \in Nat
  BY <1>1, QuotientBounds
<1>4. a \in Nat /\ b \in Nat
  BY <1>3
<1> HIDE DEF n, a, b, E, h
<1>5. n \div RAY \in Nat /\ a \div E \in Nat /\ b \div E \in Nat /\ j \div RAY \in Nat
  BY <1>1, <1>2, <1>4, QuotientBounds
<1>6. j \div RAY <= n \div RAY
  <2> DEFINE p == j \div RAY
  <2>1. p \in Nat /\ p * RAY <= j
    BY <1>1, QuotientBounds
  <2> HIDE DEF p
  <2>2. p * RAY <= n
    <3> DEFINE z == p * RAY
    <3>1. z \in Nat /\ z <= j
      BY <1>1, <2>1
    <3> HIDE DEF z
    <3>2. z <= n
      BY <1>2, <3>1
    <3> QED
      BY <3>2 DEF z
  <2>3. p <= n \div RAY
    BY <1>1, <1>2, <2>1, <2>2, QuotientAtLeast
  <2> QED
    BY <2>3 DEF p
<1> DEFINE q1 == n \div RAY
           q2 == a \div E
           q3 == b \div E
<1>7. WholeUnits(j, c, v, g, br, lr) = q1 + q2 + q3
  BY DEF n, a, b, E, h, WholeUnits, UnitInterest
<1> HIDE DEF q1, q2, q3
<1>8. q1 \in Nat /\ q2 \in Nat /\ q3 \in Nat /\ j \div RAY <= q1
  BY <1>5, <1>6 DEF q1, q2, q3
<1> QED
  BY <1>5, <1>7, <1>8

(* A unit of time while nobody's deposit earns interest it could lose.     *)
LEMMA TreasuryOnly ==
  ASSUME NEW x \in Int, NEW j \in Nat, NEW kF \in Nat,
         2 * (RAY * (PERCENTAGE_FACTOR * x))
           <= 2 * (PERCENTAGE_FACTOR * 0) - 2 * (RAY * kF)
                + 2 * (PERCENTAGE_FACTOR * j) + 4 * (RAY * PERCENTAGE_FACTOR)
  PROVE  x <= 3 + j \div RAY
<1> DEFINE R == RAY
           P == PERCENTAGE_FACTOR
           q == j \div R
           rx == R * x
           rk == R * kF
<1>1. R \in Nat \ {0} /\ P \in Nat \ {0}
  BY ScalesPositive
<1>2. q \in Nat /\ j < q * R + R
  BY <1>1, QuotientBounds
<1> HIDE DEF q
<1>3. 2 * (R * (P * x)) <= 2 * (P * 0) - 2 * rk + 2 * (P * j) + 4 * (R * P)
  OBVIOUS
<1>4. rx \in Int /\ rk \in Nat /\ R * (P * x) = P * rx /\ P * 0 = 0 /\ R * P = P * R
  BY <1>1
<1>5. P * rx <= P * (j + 2 * R)
  <2> DEFINE a == P * rx
             b == P * j
             c == P * R
  <2>1. a \in Int /\ b \in Nat /\ c \in Nat /\ P * (j + 2 * R) = b + 2 * c
    BY <1>1, <1>4
  <2>2. 2 * a <= 2 * 0 - 2 * rk + 2 * b + 4 * c
    BY <1>3, <1>4
  <2> HIDE DEF a, b, c, rk, rx
  <2>3. a <= b + 2 * c
    BY <1>4, <2>1, <2>2
  <2> QED
    BY <2>1, <2>3 DEF a
<1>6. rx <= j + 2 * R
  <2>1. j + 2 * R \in Int
    BY <1>1
  <2> HIDE DEF rx, R, P
  <2> QED
    BY <1>1, <1>4, <1>5, <2>1, FactorCancels
<1>7. R * x < R * (3 + q)
  <2> DEFINE a == q * R
  <2>1. a \in Nat /\ R * (3 + q) = 3 * R + a /\ j < a + R
    BY <1>1, <1>2
  <2> HIDE DEF a, rx
  <2>2. rx < 3 * R + a
    BY <1>1, <1>4, <1>6, <2>1
  <2> QED
    BY <2>1, <2>2 DEF rx
<1>8. ~(x > 3 + q)
  <2> DEFINE y == 3 + q
  <2>1. y \in Nat
    BY <1>2
  <2> HIDE DEF y
  <2>2. x > y => R * x > R * y
    BY <1>1, <2>1
  <2>3. R * x \in Int /\ R * y \in Int
    BY <1>1, <2>1
  <2> QED
    BY <1>7, <2>2, <2>3 DEF y
<1> QED
  BY <1>2, <1>8 DEF q

LEMMA UnitIsBacked ==
  ASSUME NEW r, NEW t \in Nat, WellFormed(r, t), PricedIfHeld(r),
         r.dSupply > 0 => r.configuration.reserveFactor <= PERCENTAGE_FACTOR
  PROVE  Gap(UpdateState(r, t + 1)) <= Gap(UpdateState(r, t)) + UnitDust(r, t)
<1> DEFINE n == t - r.lastUpdate
           i == UpdateIndexes(r, t).liquidityIndex
           j == UpdateIndexes(r, t + 1).liquidityIndex
           e == AccruedDebt(r, t)
           f == AccruedDebt(r, t + 1)
           s == r.aSupply
           share == r.configuration.reserveFactor
           lr == r.liquidityRate
           br == r.borrowRate
           c == RayMul(s, r.liquidityIndex)
           d == RayMul(r.dSupply, r.variableBorrowIndex)
           v == r.cash + d
           g == IF c > v THEN c - v ELSE 0
           old == Gap(UpdateState(r, t))
           new == Gap(UpdateState(r, t + 1))
           q == WholeUnits(j, c, v, g, br, lr)
           k == PERCENTAGE_FACTOR - share
           x == new - old
<1>1. /\ r \in Reserve /\ n \in Nat /\ t + 1 \in Nat /\ WellFormed(r, t + 1)
      /\ s \in Nat /\ share \in Nat /\ lr \in Nat /\ br \in Nat /\ r.cash \in Nat
      /\ r.dSupply \in Nat /\ r.strategy \in Strategy
      /\ r.liquidityIndex \in Nat /\ r.liquidityIndex >= RAY
      /\ r.variableBorrowIndex \in Nat /\ r.variableBorrowIndex >= RAY
  <2>1. r \in Reserve /\ r.lastUpdate <= t /\ r.lastUpdate \in Nat
    BY ReserveFields DEF WellFormed
  <2>2. n \in Nat /\ t + 1 \in Nat /\ r.lastUpdate <= t + 1
    BY <2>1
  <2> QED
    BY <2>1, <2>2, ReserveFields DEF WellFormed
<1>2. (t + 1) - r.lastUpdate = n + 1
  BY <1>1, ReserveFields
<1>3. /\ i \in Nat \ {0} /\ j \in Nat \ {0} /\ e \in Nat /\ f \in Nat /\ d \in Nat
      /\ old \in Int /\ new \in Int
  <2>1. old \in Int /\ new \in Int
    BY <1>1, Settling
  <2> QED
    BY <1>1, <2>1, SettledGap
<1>4. c \in Nat /\ v \in Nat /\ d <= v /\ g \in Nat /\ c <= v + g /\ x \in Int
  <2>1. c \in Nat
    BY <1>1, RayMulIsNat
  <2> HIDE DEF c, d, old, new
  <2> QED
    BY <1>1, <1>3, <2>1
<1>5. UnitDust(r, t) = 6 + q
  BY <1>1, IncomeIsAccrued DEF UnitDust
<1>6. q \in Nat /\ j \div RAY \in Nat /\ j \div RAY <= q
  <2>1. j \in Nat /\ c \in Nat /\ v \in Nat /\ g \in Nat /\ br \in Nat /\ lr \in Nat
    BY <1>1, <1>3, <1>4
  <2> HIDE DEF c, v, g, j, lr, br
  <2>2. WholeUnits(j, c, v, g, br, lr) \in Nat
    BY <2>1, WholeUnitsAreNat
  <2>3. j \div RAY \in Nat
    BY <2>1, ScalesPositive, QuotientBounds
  <2>4. j \div RAY <= WholeUnits(j, c, v, g, br, lr)
    BY <2>1, WholeUnitsAreNat
  <2> QED
    BY <2>2, <2>3, <2>4
<1> SUFFICES x <= 6 + q
  <2> DEFINE z == UnitDust(r, t)
  <2>1. x <= z => new <= old + z
    <3>1. z \in Int
      BY <1>5, <1>6
    <3> HIDE DEF z, new, old
    <3> QED
      BY <1>3, <3>1
  <2> QED
    BY <1>5, <2>1
<1>7. i <= j /\ e <= f
        => 2 * (RAY * (PERCENTAGE_FACTOR * x))
             <= 2 * (PERCENTAGE_FACTOR * (s * (j - i))) - 2 * (RAY * (k * (f - e)))
                  + 2 * (PERCENTAGE_FACTOR * j) + 4 * (RAY * PERCENTAGE_FACTOR)
  BY UnitMovesGap
<1>8. lr > 0 => /\ i = RayMul(LinearInterest(lr, n), r.liquidityIndex)
                /\ j = RayMul(LinearInterest(lr, n + 1), r.liquidityIndex)
                /\ r.dSupply # 0 =>
                     /\ e = RayMul(r.dSupply,
                              RayMul(CompoundedInterest(br, n), r.variableBorrowIndex))
                     /\ f = RayMul(r.dSupply,
                              RayMul(CompoundedInterest(br, n + 1), r.variableBorrowIndex))
  BY <1>1, <1>2, EarningIndexes
<1>9. i <= j
  <2>1. CASE lr = 0
    <3>1. i = r.liquidityIndex /\ j = r.liquidityIndex
      BY <1>1, <2>1, StandingIndexes
    <3> QED
      BY <1>1, <3>1
  <2>2. CASE lr > 0
    <3>1. RayMul(LinearInterest(lr, n), r.liquidityIndex)
            <= RayMul(LinearInterest(lr, n + 1), r.liquidityIndex)
      <4> HIDE DEF lr, n
      <4> QED
        BY <1>1, IncomeOfAUnit
    <3> QED
      BY <1>8, <2>2, <3>1
  <2> QED
    BY <1>1, <2>1, <2>2
<1>10. e <= f
  <2>1. CASE lr = 0 \/ r.dSupply = 0
    <3>1. e = d /\ f = d
      BY <1>1, <2>1, StandingIndexes
    <3> QED
      BY <1>3, <3>1
  <2>2. CASE lr > 0 /\ r.dSupply # 0
    <3>1. r.dSupply \in Nat \ {0}
      BY <1>1, <2>2
    <3>2. RayMul(r.dSupply, RayMul(CompoundedInterest(br, n), r.variableBorrowIndex))
            <= RayMul(r.dSupply, RayMul(CompoundedInterest(br, n + 1), r.variableBorrowIndex))
      <4> HIDE DEF br, n
      <4> QED
        BY <1>1, <3>1, ChargeOfAUnit
    <3> QED
      BY <1>8, <2>2, <3>2
  <2> QED
    BY <1>1, <2>1, <2>2
<1>11. CASE s = 0
  <2> DEFINE F == f - e
  <2>1. F \in Nat /\ k \in Int
    BY <1>1, <1>3, <1>10, ScalesPositive
  <2>2. k * F \in Nat
    <3>1. CASE r.dSupply = 0
      <4>1. e = d /\ f = d
        BY <1>1, <3>1, StandingIndexes
      <4>2. F = 0
        BY <1>3, <4>1
      <4> HIDE DEF F, k
      <4> QED
        BY <2>1, <4>2
    <3>2. CASE r.dSupply > 0
      <4>1. k \in Nat
        BY <1>1, <3>2, ScalesPositive
      <4> HIDE DEF F, k
      <4> QED
        BY <2>1, <4>1
    <3> QED
      BY <1>1, <3>1, <3>2
  <2>3. s * (j - i) = 0
    BY <1>3, <1>11
  <2> DEFINE kF == k * F
  <2>4. 2 * (RAY * (PERCENTAGE_FACTOR * x))
          <= 2 * (PERCENTAGE_FACTOR * 0) - 2 * (RAY * kF)
               + 2 * (PERCENTAGE_FACTOR * j) + 4 * (RAY * PERCENTAGE_FACTOR)
    BY <1>7, <1>9, <1>10, <2>3
  <2> HIDE DEF kF, x, j
  <2>5. x <= 3 + j \div RAY
    BY <1>3, <1>4, <2>2, <2>4, TreasuryOnly DEF kF
  <2> HIDE DEF q
  <2> QED
    BY <1>4, <1>6, <2>5
<1>12. CASE s > 0 /\ (r.dSupply = 0 \/ lr = 0)
  <2>1. lr = 0
    <3> SUFFICES ASSUME r.dSupply = 0 PROVE lr = 0
      BY <1>12
    <3>1. d = 0
      <4>1. 0 * r.variableBorrowIndex = 0
        BY <1>1
      <4>2. RAY \div 2 \in Nat /\ RAY \div 2 < RAY
        BY ScalesPositive, QuotientBounds
      <4>3. (0 + RAY \div 2) \div RAY = 0
        BY <4>2, ScalesPositive, QuotientIs
      <4> QED
        BY <4>1, <4>3 DEF RayMul
    <3>2. lr = LiquidityRate(r.strategy, r.cash, 0, share)
      BY <1>12, <3>1 DEF PricedIfHeld, Priced
    <3>3. LiquidityRate(r.strategy, r.cash, 0, share) = PercentMul(RayMul(0, 0), k)
      BY DEF LiquidityRate, OverallBorrowRate, UtilizationRate
    <3>4. RayMul(0, 0) = 0
      <4>1. RAY \div 2 \in Nat /\ RAY \div 2 < RAY
        BY ScalesPositive, QuotientBounds
      <4>2. (0 * 0 + RAY \div 2) \div RAY = 0
        BY <4>1, ScalesPositive, QuotientIs
      <4> QED
        BY <4>2 DEF RayMul
    <3>5. PercentMul(0, k) = 0
      <4>1. PERCENTAGE_FACTOR \div 2 \in Nat /\ PERCENTAGE_FACTOR \div 2 < PERCENTAGE_FACTOR
        BY ScalesPositive, QuotientBounds
      <4>2. 0 * k = 0
        BY <1>1, ScalesPositive
      <4>3. (0 + PERCENTAGE_FACTOR \div 2) \div PERCENTAGE_FACTOR = 0
        BY <4>1, ScalesPositive, QuotientIs
      <4> QED
        BY <4>2, <4>3 DEF PercentMul
    <3> QED
      BY <3>2, <3>3, <3>4, <3>5
  <2>2. i = r.liquidityIndex /\ j = r.liquidityIndex /\ e = d /\ f = d
    BY <1>1, <2>1, StandingIndexes
  <2>3. new = old
    BY <1>1, <2>2, SettledGap
  <2> HIDE DEF new, old, q
  <2> QED
    BY <1>3, <1>6, <2>3
<1>13. CASE s > 0 /\ r.dSupply # 0 /\ lr > 0
  <2> DEFINE F == f - e
             J == s * (j - i)
             y == RayMul(OverallBorrowRate(d, br), UtilizationRate(r.cash, d))
  <2>1. F \in Nat /\ J \in Nat /\ k \in Nat /\ k <= PERCENTAGE_FACTOR
    <3>1. k \in Nat /\ k <= PERCENTAGE_FACTOR
      BY <1>1, <1>13, ScalesPositive
    <3>2. F \in Nat /\ j - i \in Nat
      BY <1>3, <1>9, <1>10
    <3> QED
      BY <1>1, <3>1, <3>2
  <2>2. SECONDS_PER_YEAR * (2 * J) <= lr * (2 * c + 1) + SECONDS_PER_YEAR * (4 * c + 1)
    BY <1>1, <1>8, <1>13, IncomeOfAUnit
  <2>3. r.dSupply \in Nat \ {0}
    BY <1>1, <1>13
  <2>4. /\ d \in Nat \ {0}
        /\ br * (2 * d - 1)
             <= SECONDS_PER_YEAR * (2 * (RAY * F)) + SECONDS_PER_YEAR * (4 * d + 2 * RAY)
    BY <1>1, <1>8, <1>13, <2>3, ChargeOfAUnit
  <2>5. lr = PercentMul(y, k)
    <3>1. Priced(r)
      BY <1>13 DEF PricedIfHeld
    <3> QED
      BY <3>1 DEF Priced, LiquidityRate
  <2>6. 4 * (RAY * (PERCENTAGE_FACTOR * (lr * (2 * v))))
          <= 8 * (RAY * (k * (d * br)))
               + PERCENTAGE_FACTOR * (4 * (RAY * RAY) + 4 * (RAY * d) + 4 * (v * br)
                                        + 10 * (v * RAY) + 2 * v)
    <3> HIDE DEF lr, br, d, k
    <3> QED
      BY <1>1, <2>1, <2>4, <2>5, IncomeRateBound
  <2>7. 2 * (RAY * (PERCENTAGE_FACTOR * x))
          <= 2 * (PERCENTAGE_FACTOR * J) - 2 * (RAY * (k * F))
               + 2 * (PERCENTAGE_FACTOR * j) + 4 * (RAY * PERCENTAGE_FACTOR)
    BY <1>7, <1>9, <1>10
  <2> HIDE DEF x, J, F, j, c, d, v, g, lr, br, k
  <2>8. 8 * (RAY * RAY * SECONDS_PER_YEAR * x)
          <= 4 * (RAY * RAY) + 4 * (RAY * d) + 4 * (v * br) + 10 * (v * RAY) + 2 * v
               + 4 * (RAY * (lr * (2 * g + 1)))
               + 4 * (RAY * SECONDS_PER_YEAR * (4 * c + 1))
               + 4 * (RAY * SECONDS_PER_YEAR * (4 * d + 2 * RAY)) + 4 * (RAY * br)
               + 8 * (RAY * SECONDS_PER_YEAR * j) + 16 * (RAY * RAY * SECONDS_PER_YEAR)
    BY <1>1, <1>3, <1>4, <2>1, <2>2, <2>4, <2>6, <2>7, PartsAddUp
  <2>9. x <= 6 + (j + 2 * c + 4 * v) \div RAY
               + ((v \div RAY + 1) * br) \div (RAY * SECONDS_PER_YEAR)
               + ((g + 1) * lr) \div (RAY * SECONDS_PER_YEAR)
    BY <1>1, <1>3, <1>4, <2>8, InWholeUnits
  <2> QED
    <3>1. q = (j + 2 * c + 4 * v) \div RAY
               + ((v \div RAY + 1) * br) \div (RAY * SECONDS_PER_YEAR)
               + ((g + 1) * lr) \div (RAY * SECONDS_PER_YEAR)
      BY DEF WholeUnits, UnitInterest
    <3> DEFINE q1 == (j + 2 * c + 4 * v) \div RAY
               q2 == ((v \div RAY + 1) * br) \div (RAY * SECONDS_PER_YEAR)
               q3 == ((g + 1) * lr) \div (RAY * SECONDS_PER_YEAR)
    <3>2. q = q1 + q2 + q3 /\ x <= 6 + q1 + q2 + q3
      BY <2>9, <3>1
    <3>3. q1 \in Nat /\ q2 \in Nat /\ q3 \in Nat
      <4> DEFINE u == v \div RAY + 1
                 E == RAY * SECONDS_PER_YEAR
                 a == j + 2 * c + 4 * v
                 b == u * br
                 z == (g + 1) * lr
      <4>1. E \in Nat \ {0} /\ RAY \in Nat \ {0} /\ a \in Nat /\ u \in Nat
        <5>1. j \in Nat
          BY <1>3
        <5> QED
          BY <1>4, <5>1, ScalesPositive, QuotientBounds
      <4>2. b \in Nat /\ z \in Nat
        <5>1. br \in Nat /\ lr \in Nat
          BY <1>1 DEF br, lr
        <5> HIDE DEF u
        <5> QED
          BY <1>4, <4>1, <5>1
      <4> HIDE DEF E, a, b, z
      <4>3. a \div RAY \in Nat /\ b \div E \in Nat /\ z \div E \in Nat
        BY <4>1, <4>2, QuotientBounds
      <4> QED
        BY <4>3 DEF E, a, b, z
    <3> HIDE DEF q, q1, q2, q3
    <3> QED
      BY <1>4, <3>2, <3>3
<1> QED
  BY <1>1, <1>11, <1>12, <1>13

(* Whoever lent a reserve out had rates computed for it, which a reserve   *)
(* factor above 100% makes revert.                                         *)
ShareFits ==
  \A a \in Assets : (\E u \in Users : reserves[a].dBalance[u] > 0)
                      => reserves[a].configuration.reserveFactor <= PERCENTAGE_FACTOR

LEMMA StepShareFits ==
  ASSUME Inv, Inv', AsListed, ShareFits, [Next]_vars
  PROVE  ShareFits'
<1> SUFFICES ASSUME NEW a \in Assets, NEW u \in Users, reserves'[a].dBalance[u] > 0
             PROVE  reserves'[a].configuration.reserveFactor <= PERCENTAGE_FACTOR
  BY DEF ShareFits
<1>1. reserves'[a].configuration = reserves[a].configuration
  BY StepHealth DEF AsListed
<1>2. CASE reserves[a].dBalance[u] > 0
  BY <1>1, <1>2 DEF ShareFits
<1>3. CASE ~(reserves[a].dBalance[u] > 0)
  <2>1. GainsDebt(u, a)
    <3>1. TokensAreNat
      BY PositionsHeld
    <3> QED
      BY <1>3, <3>1 DEF GainsDebt, TokensAreNat
  <2>2. PICK caller \in Users, b \in Assets, w \in Users, x \in Amounts : Borrow(caller, b, w, x)
    BY <2>1, OnlyBorrowsGain
  <2> DEFINE accrued == UpdateState(reserves[b], now)
             owed    == MintDebt(accrued, w, x)
             lent    == Release(UpdateInterestRates(owed, 0, x), x)
  <2>3. CanUpdateInterestRates(owed, 0, x) /\ reserves' = [reserves EXCEPT ![b] = lent]
    BY <2>2 DEF Borrow, ExecuteBorrow
  <2>4. b = a
    <3>1. b # a => reserves'[a] = reserves[a]
      <4> HIDE DEF lent
      <4> QED
        BY <2>3 DEF Inv, TypeOK
    <3> QED
      BY <1>3, <3>1
  <2>5. owed.configuration = reserves[b].configuration
    <3>1. now \in Nat /\ WellFormed(reserves[b], now) /\ x \in Nat
      BY AmountTypes DEF Inv, TypeOK, AllWellFormed
    <3>2. accrued \in Reserve /\ accrued.configuration = reserves[b].configuration
      BY <3>1, UpdateStateSound DEF SamePositions, WellFormed
    <3> HIDE DEF accrued
    <3> QED
      BY <3>2 DEF MintDebt, Reserve
  <2> QED
    BY <1>1, <2>3, <2>4, <2>5 DEF CanUpdateInterestRates
<1> QED
  BY <1>2, <1>3

LEMMA ShareFitsWherever ==
  ASSUME Inv, BooksBalance, ShareFits, NEW a \in Assets, reserves[a].dSupply > 0
  PROVE  reserves[a].configuration.reserveFactor <= PERCENTAGE_FACTOR
<1> DEFINE b == reserves[a].dBalance
<1>1. b \in [Users -> Nat]
  BY ReserveFields DEF Inv, AllWellFormed, WellFormed
<1>2. reserves[a].dSupply = Total(b, Users)
  BY DEF BooksBalance, Balanced
<1>3. \E u \in Users : b[u] > 0
  <2> SUFFICES ASSUME \A u \in Users : b[u] = 0 PROVE FALSE
    BY <1>1
  <2>1. Total(b, Users) = 0
    BY FinitelyManyUsers, TotalOfZeros
  <2> QED
    BY <1>2, <2>1
<1> QED
  BY <1>3 DEF ShareFits

LEMMA OnlyTickPasses ==
  ASSUME [Next]_vars, now' # now
  PROVE  Tick
<1>1. ASSUME NEW a, NEW x, NEW u, Deposit(a, x, u)
      PROVE  now' = now
  BY <1>1 DEF Deposit
<1>2. ASSUME NEW u, NEW a, NEW x, Withdraw(u, a, x)
      PROVE  now' = now
  BY <1>2 DEF Withdraw
<1>3. ASSUME NEW caller, NEW a, NEW u, NEW x, Borrow(caller, a, u, x)
      PROVE  now' = now
  BY <1>3 DEF Borrow
<1>4. ASSUME NEW u, NEW v, NEW a, NEW x, ApproveDelegation(u, v, a, x)
      PROVE  now' = now
  BY <1>4 DEF ApproveDelegation
<1>5. ASSUME NEW caller, NEW a, NEW u, NEW x, Repay(caller, a, u, x)
      PROVE  now' = now
  BY <1>5 DEF Repay
<1>6. ASSUME NEW u, NEW a, NEW using, SetUserUseReserveAsCollateral(u, a, using)
      PROVE  now' = now
  BY <1>6 DEF SetUserUseReserveAsCollateral
<1>7. ASSUME NEW l, NEW c, NEW d, NEW u, NEW x, NEW b, LiquidationCall(l, c, d, u, x, b)
      PROVE  now' = now
  BY <1>7 DEF LiquidationCall
<1>8. ASSUME NEW from, NEW to, NEW a, NEW x, Transfer(from, to, a, x)
      PROVE  now' = now
  BY <1>8 DEF Transfer
<1>9. ASSUME NEW a, NEW p, SetPrice(a, p)
      PROVE  now' = now
  BY <1>9 DEF SetPrice
<1>10. UNCHANGED vars => now' = now
  BY DEF vars
<1> QED
  BY <1>1, <1>2, <1>3, <1>4, <1>5, <1>6, <1>7, <1>8, <1>9, <1>10 DEF Next, Call, Environment

(* The terms of InterestIsBacked, as functions of a reserve. *)
DustAsBooked == \A a \in Assets : InterestDust(a) = UnitDust(reserves[a], now)

LEMMA DustIsBooked == DustAsBooked
<1> SUFFICES ASSUME NEW a \in Assets PROVE InterestDust(a) = UnitDust(reserves[a], now)
  BY DEF DustAsBooked
<1> QED
  BY DEF InterestDust, UnitDust, WholeUnits

(* As long as the stored rates are those of the liquidity the reserve has, *)
(* no unit of time credits the depositors and the treasury with more than  *)
(* it charges the borrowers: what rounding can misplace is bounded, and    *)
(* what claims already ahead of their backing earn is named.               *)
THEOREM InterestIsPaidFor == Spec /\ [][~SelfLiquidation]_vars => InterestIsBacked
<1>1. Init => AsListed /\ ShareFits
  <2>1. Init => ShareFits
    <3> SUFFICES ASSUME Init, NEW a \in Assets, NEW u \in Users
                 PROVE  ~(reserves[a].dBalance[u] > 0)
      BY DEF ShareFits
    <3> QED
      BY DEF Init, InitReserve
  <2>2. Init => AsListed
    BY DEF Init, AsListed, InitReserve
  <2> QED
    BY <2>1, <2>2
<1>2. Inv /\ Inv' /\ AsListed /\ ShareFits /\ [Next]_vars => AsListed' /\ ShareFits'
  BY StepHealth, StepShareFits
<1>3. Spec => [](AsListed /\ ShareFits)
  BY <1>1, <1>2, Invariance, PTL DEF Spec
<1>4. Inv /\ BooksBalance /\ AsListed /\ ShareFits /\ RatesReflectLiquidity
        /\ AsBooked /\ AsBooked' /\ [Next]_vars
        => [now' # now => \A a \in Assets : Deficit(a)' <= Deficit(a) + InterestDust(a)]_vars
  <2> SUFFICES ASSUME Inv, BooksBalance, ShareFits, RatesReflectLiquidity, AsBooked, AsBooked',
                      [Next]_vars, now' # now, NEW a \in Assets
               PROVE  Deficit(a)' <= Deficit(a) + InterestDust(a)
    OBVIOUS
  <2> DEFINE r == reserves[a]
  <2>1. Tick
    BY OnlyTickPasses
  <2>2. reserves' = reserves /\ now' = now + 1
    BY <2>1 DEF Tick
  <2>3. now \in Nat /\ WellFormed(r, now)
    BY DEF Inv, TypeOK, AllWellFormed
  <2>4. PricedIfHeld(r)
    BY RatesMeanPriced DEF Inv
  <2>5. r.dSupply > 0 => r.configuration.reserveFactor <= PERCENTAGE_FACTOR
    BY ShareFitsWherever
  <2>6. Deficit(a) = Gap(UpdateState(r, now)) /\ Deficit(a)' = Gap(UpdateState(r, now + 1))
    BY <2>2 DEF AsBooked, Settled
  <2>7. InterestDust(a) = UnitDust(r, now)
    BY DustIsBooked DEF DustAsBooked
  <2> HIDE DEF r
  <2>8. Gap(UpdateState(r, now + 1)) <= Gap(UpdateState(r, now)) + UnitDust(r, now)
    BY <2>3, <2>4, <2>5, UnitIsBacked
  <2> QED
    BY <2>6, <2>7, <2>8
<1>5. Inv => AsBooked
  BY DeficitIsGap
<1>6. TotalsMatchBalances <=> BooksBalance
  BY BalancedBooks
<1>7. Spec => []BooksBalance
  BY <1>6, SuppliesAreTheSums, PTL
<1> QED
  BY <1>3, <1>4, <1>5, <1>7, Invariance, RatesAreThoseOfTheLiquidity, PTL
    DEF Spec, InterestIsBacked
=============================================================================
