------------------------- MODULE NativeGatewayProofs -------------------------
(***************************************************************************)
(* What holds of the pool and of the gateway's own balances although users *)
(* come through the gateway and a withdrawal takes two calls of the pool,  *)
(* the second of which may revert: for both gateways, any users, reserves  *)
(* and amounts.                                                            *)
(***************************************************************************)
EXTENDS NativeGateway, LendingPoolProofs

(* The gateway never borrows and lets nobody borrow on its behalf, so it   *)
(* cannot be liquidated and nobody but itself moves its aTokens.           *)
OwesNothing(cfg) == cfg[Gateway].borrowing = {}
LendsNoCredit    == \A a \in Assets, v \in Users : borrowAllowance[a][Gateway][v] = 0

(* What a revert puts back.                                                *)
SavedSound ==
  /\ AllWellFormed(saved.reserves, now)
  /\ saved.usersConfig \in [Users -> UserConfiguration]
  /\ \A u \in Users, a \in Assets :
       saved.reserves[a].dBalance[u] > 0 => a \in saved.usersConfig[u].borrowing
  /\ \A a \in Assets : Balanced(saved.reserves[a])
  /\ OwesNothing(saved.usersConfig)

(* Between the two calls the gateway has what it had and, scaled, what it  *)
(* is to withdraw; of a whole balance nothing has stayed behind.           *)
Passing ==
  LET r == reserves[Wrapped]
      scaled == RayDiv(withdrawal.amount, NormalizedIncome(r, now))
  IN  /\ withdrawal.caller \in Callers /\ withdrawal.amount \in Nat
      /\ r.aBalance[Gateway] = saved.reserves[Wrapped].aBalance[Gateway] + scaled
      /\ withdrawal.whole =>
           /\ r.aBalance[withdrawal.caller] = 0
           /\ withdrawal.amount = RayMul(scaled, NormalizedIncome(r, now))

GatewayInv ==
  /\ Inv /\ BooksBalance
  /\ wrapped \in Nat
  /\ OwesNothing(usersConfig) /\ LendsNoCredit
  /\ ~Idle => SavedSound /\ Passing

-----------------------------------------------------------------------------
(* What a call has to show while no withdrawal is under way.               *)
LEMMA BetweenWithdrawals ==
  ASSUME GatewayInv, Inv', BooksKept, OwesNothing(usersConfig)', LendsNoCredit',
         wrapped' \in Nat, Idle'
  PROVE  GatewayInv'
BY DEF GatewayInv, BooksBalance, BooksKept, KeepsBooks, BooksMoveBy

LEMMA StillOwesNothing ==
  ASSUME GatewayInv,
         \/ KeepsBorrowing(usersConfig, usersConfig')
         \/ \E u \in Users, a \in Assets :
              SwitchesBorrowing(usersConfig, usersConfig', u, a, FALSE)
         \/ \E u \in Callers, a \in Assets :
              SwitchesBorrowing(usersConfig, usersConfig', u, a, TRUE)
  PROVE  OwesNothing(usersConfig)'
<1>1. Gateway \in Users /\ usersConfig[Gateway].borrowing = {}
  BY GatewayConstants DEF GatewayInv, OwesNothing
<1>2. CASE KeepsBorrowing(usersConfig, usersConfig')
  BY <1>1, <1>2 DEF KeepsBorrowing, OwesNothing
<1>3. ASSUME NEW u \in Users, NEW a \in Assets,
             \/ SwitchesBorrowing(usersConfig, usersConfig', u, a, FALSE)
             \/ u # Gateway /\ SwitchesBorrowing(usersConfig, usersConfig', u, a, TRUE)
      PROVE  OwesNothing(usersConfig)'
  <2>1. usersConfig' \in [Users -> UserConfiguration]
    BY <1>3 DEF SwitchesBorrowing
  <2>2. usersConfig'[Gateway].borrowing \subseteq Assets
    BY <1>1, <2>1 DEF UserConfiguration
  <2>3. \A b \in Assets : b \notin usersConfig'[Gateway].borrowing
    BY <1>1, <1>3 DEF SwitchesBorrowing
  <2> QED
    BY <2>2, <2>3 DEF OwesNothing
<1> QED
  BY <1>2, <1>3 DEF Callers

(* Who has borrowed nothing has the greatest health factor there is: the   *)
(* sum of its debts is over no reserve.                                    *)
LEMMA GatewayIsHealthy ==
  ASSUME GatewayInv
  PROVE  ~(Health(Gateway) < WAD)
<1>1. usersConfig[Gateway].borrowing = {}
  BY DEF GatewayInv, OwesNothing
<1>2. AccountData(reserves, Gateway).debt
        = OwedOf(reserves, usersConfig[Gateway], price, Gateway, now)
  BY AccountSums DEF AccountData
<1>3. OwedOf(reserves, usersConfig[Gateway], price, Gateway, now) = 0
  BY <1>1, TotalOfNone DEF OwedOf
<1>4. Health(Gateway) = MAX_UINT
  BY <1>2, <1>3 DEF Health, HealthFactorIn, HealthFactorOf, AccountData, HealthFactor
<1> QED
  BY <1>4, PoolConstants, ScalesPositive

-----------------------------------------------------------------------------
(* The calls of the pool, whoever makes them but the gateway as a debtor.  *)
Kept ==
  /\ Inv' /\ BooksKept
  /\ OwesNothing(usersConfig)' /\ LendsNoCredit'

LEMMA DepositKept ==
  ASSUME GatewayInv, NEW a \in Assets, NEW x \in Amounts, NEW u \in Users, Deposit(a, x, u)
  PROVE  Kept /\ NoneLose({Gateway})
<1>1. Inv /\ Gateway \in Users /\ borrowAllowance' = borrowAllowance
  BY GatewayConstants DEF GatewayInv, Deposit
<1>2. Inv' /\ NoneLose(Users) /\ KeepsBorrowing(usersConfig, usersConfig')
  BY <1>1, DepositStep
<1>3. BooksKept
  BY <1>1, DepositKeepsAccounts
<1>4. OwesNothing(usersConfig)' /\ LendsNoCredit'
  BY <1>1, <1>2, StillOwesNothing DEF GatewayInv, LendsNoCredit
<1> QED
  BY <1>1, <1>2, <1>3, <1>4 DEF Kept, NoneLose

LEMMA WithdrawKept ==
  ASSUME GatewayInv, NEW u \in Users, NEW a \in Assets, NEW x \in Nat, Withdraw(u, a, x)
  PROVE  Kept /\ (u # Gateway => NoneLose({Gateway}))
<1>1. Inv /\ Gateway \in Users /\ borrowAllowance' = borrowAllowance
  BY GatewayConstants DEF GatewayInv, Withdraw
<1>2. Inv' /\ TakesOnlyFrom(u, a) /\ KeepsBorrowing(usersConfig, usersConfig')
  BY <1>1, WithdrawStep
<1>3. BooksKept
  BY <1>1, WithdrawKeepsAccounts
<1>4. OwesNothing(usersConfig)' /\ LendsNoCredit'
  BY <1>1, <1>2, StillOwesNothing DEF GatewayInv, LendsNoCredit
<1> QED
  BY <1>1, <1>2, <1>3, <1>4 DEF Kept, NoneLose, TakesOnlyFrom

LEMMA TransferKept ==
  ASSUME GatewayInv, NEW from \in Users, NEW to \in Users, NEW a \in Assets, NEW x \in Nat,
         Transfer(from, to, a, x)
  PROVE  Kept /\ (from # Gateway => NoneLose({Gateway}))
<1>1. Inv /\ Gateway \in Users /\ borrowAllowance' = borrowAllowance
  BY GatewayConstants DEF GatewayInv, Transfer
<1>2. Inv' /\ TakesOnlyFrom(from, a) /\ KeepsBorrowing(usersConfig, usersConfig')
  BY <1>1, TransferStep
<1>3. BooksKept
  BY <1>1, TransferKeepsAccounts
<1>4. OwesNothing(usersConfig)' /\ LendsNoCredit'
  BY <1>1, <1>2, StillOwesNothing DEF GatewayInv, LendsNoCredit
<1> QED
  BY <1>1, <1>2, <1>3, <1>4 DEF Kept, NoneLose, TakesOnlyFrom

(* A delegate cannot borrow on the gateway's behalf for want of credit.    *)
LEMMA BorrowKept ==
  ASSUME GatewayInv, NEW caller \in Users, NEW a \in Assets, NEW u \in Users,
         NEW x \in Amounts, Borrow(caller, a, u, x), caller # Gateway \/ u # Gateway
  PROVE  Kept /\ NoneLose({Gateway})
<1>1. /\ Inv /\ Gateway \in Users /\ x \in Nat \ {0}
      /\ borrowAllowance \in [Assets -> [Users -> [Users -> Nat]]]
      /\ usersConfig \in [Users -> UserConfiguration]
  BY GatewayConstants, PoolConstants DEF GatewayInv, Inv, TypeOK
<1>2. /\ caller # u => x <= borrowAllowance[a][u][caller]
      /\ usersConfig' = usersConfig \/ usersConfig' = SetBorrowing(usersConfig, u, a, TRUE)
      /\ borrowAllowance' = IF caller # u
                            THEN [borrowAllowance EXCEPT
                                    ![a][u][caller] = borrowAllowance[a][u][caller] - x]
                            ELSE borrowAllowance
  BY DEF Borrow, ExecuteBorrow
<1>3. u # Gateway
  <2> SUFFICES ASSUME u = Gateway PROVE FALSE
    OBVIOUS
  <2>1. x <= borrowAllowance[a][Gateway][caller] /\ borrowAllowance[a][Gateway][caller] = 0
    BY <1>2 DEF GatewayInv, LendsNoCredit
  <2> QED
    BY <1>1, <2>1
<1>4. Inv' /\ NoneLose(Users)
  BY <1>1, BorrowStep
<1>5. BooksKept
  BY <1>1, BorrowKeepsAccounts
<1>6. LendsNoCredit'
  BY <1>1, <1>2, <1>3 DEF GatewayInv, LendsNoCredit
<1>7. OwesNothing(usersConfig)'
  BY <1>1, <1>2, <1>3, CollateralFlags, BorrowingFlags, StillOwesNothing DEF Callers
<1> QED
  BY <1>1, <1>4, <1>5, <1>6, <1>7 DEF Kept, NoneLose

LEMMA RepayKept ==
  ASSUME GatewayInv, NEW caller \in Users, NEW a \in Assets, NEW u \in Users, NEW x \in Nat,
         Repay(caller, a, u, x)
  PROVE  Kept /\ NoneLose({Gateway})
<1>1. /\ Inv /\ Gateway \in Users /\ usersConfig \in [Users -> UserConfiguration]
      /\ borrowAllowance' = borrowAllowance
      /\ usersConfig' = usersConfig \/ usersConfig' = SetBorrowing(usersConfig, u, a, FALSE)
  BY GatewayConstants DEF GatewayInv, Inv, TypeOK, Repay
<1>2. Inv' /\ NoneLose(Users)
  BY <1>1, RepayStep
<1>3. BooksKept
  BY <1>1, RepayKeepsAccounts
<1>4. OwesNothing(usersConfig)' /\ LendsNoCredit'
  BY <1>1, CollateralFlags, BorrowingFlags, StillOwesNothing DEF GatewayInv, LendsNoCredit
<1> QED
  BY <1>1, <1>2, <1>3, <1>4 DEF Kept, NoneLose

(* Only an unhealthy position is seized, and the gateway's is not.         *)
LEMMA LiquidationKept ==
  ASSUME GatewayInv, NEW l \in Users, NEW c \in Assets, NEW d \in Assets, NEW u \in Users,
         NEW x \in Amounts \cup {MAX_UINT}, NEW b \in BOOLEAN,
         LiquidationCall(l, c, d, u, x, b)
  PROVE  Kept /\ NoneLose({Gateway})
<1>1. Inv /\ Gateway \in Users /\ borrowAllowance' = borrowAllowance
  BY GatewayConstants DEF GatewayInv, LiquidationCall
<1>2. /\ Inv' /\ TakesOnlyFrom(u, c) /\ Health(u) < WAD
      /\ KeepsBorrowing(usersConfig, usersConfig')
  BY <1>1, LiquidationCallStep
<1>3. u # Gateway
  BY <1>2, GatewayIsHealthy
<1>4. BooksKept
  <2>1. LiquidationCall(l, c, d, u, x, b) => Call
    BY DEF Call
  <2> QED
    BY <1>1, <2>1, EveryCallKeepsAccounts
<1>5. OwesNothing(usersConfig)' /\ LendsNoCredit'
  BY <1>1, <1>2, StillOwesNothing DEF GatewayInv, LendsNoCredit
<1> QED
  BY <1>1, <1>2, <1>3, <1>4, <1>5 DEF Kept, NoneLose, TakesOnlyFrom

(* Steps of the pool that leave its reserves alone.                        *)
LEMMA ReservesStandKept ==
  ASSUME GatewayInv, [Next]_vars, reserves' = reserves,
         \/ KeepsBorrowing(usersConfig, usersConfig')
         \/ usersConfig' = usersConfig,
         \/ \E u \in Callers, v \in Users, a \in Assets, x \in AllowanceAmounts :
              borrowAllowance' = [borrowAllowance EXCEPT ![a][u][v] = x]
         \/ borrowAllowance' = borrowAllowance
  PROVE  Kept /\ NoneLose({Gateway})
<1>1. /\ Inv /\ Gateway \in Users /\ usersConfig \in [Users -> UserConfiguration]
      /\ borrowAllowance \in [Assets -> [Users -> [Users -> Nat]]]
  BY GatewayConstants DEF GatewayInv, Inv, TypeOK
<1>2. Inv'
  BY <1>1, EveryStep
<1>3. BooksKept
  BY <1>1, StandingAccounts
<1>4. OwesNothing(usersConfig)'
  BY StillOwesNothing DEF GatewayInv, OwesNothing
<1>5. LendsNoCredit'
  <2>1. CASE borrowAllowance' = borrowAllowance
    BY <2>1 DEF GatewayInv, LendsNoCredit
  <2>2. ASSUME NEW u \in Callers, NEW v \in Users, NEW a \in Assets, NEW x,
               borrowAllowance' = [borrowAllowance EXCEPT ![a][u][v] = x]
        PROVE  LendsNoCredit'
    <3>1. u # Gateway /\ u \in Users
      BY DEF Callers
    <3>2. \A b \in Assets : borrowAllowance'[b][Gateway] = borrowAllowance[b][Gateway]
      BY <1>1, <2>2, <3>1
    <3> QED
      BY <3>2 DEF GatewayInv, LendsNoCredit
  <2> QED
    BY <2>1, <2>2
<1>6. NoneLose({Gateway})
  <2>1. \A a \in Assets : reserves[a].aBalance[Gateway] \in Nat
    BY <1>1, ReserveFields DEF Inv, AllWellFormed, Accounts
  <2> QED
    BY <2>1 DEF NoneLose, LosesTokens
<1> QED
  BY <1>2, <1>3, <1>4, <1>5, <1>6 DEF Kept

LEMMA PoolStepKept ==
  ASSUME GatewayInv, PoolCall \/ Environment
  PROVE  Kept /\ NoneLose({Gateway})
<1>1. ASSUME NEW a \in Assets, NEW x \in Amounts, NEW u \in Users, Deposit(a, x, u)
      PROVE  Kept /\ NoneLose({Gateway})
  BY <1>1, DepositKept
<1>2. ASSUME NEW u \in Callers, NEW a \in Assets, NEW x \in Amounts \cup {MAX_UINT},
             Withdraw(u, a, x)
      PROVE  Kept /\ NoneLose({Gateway})
  BY <1>2, AmountTypes, WithdrawKept DEF Callers
<1>3. ASSUME NEW caller \in Callers, NEW a \in Assets, NEW u \in Users, NEW x \in Amounts,
             Borrow(caller, a, u, x)
      PROVE  Kept /\ NoneLose({Gateway})
  BY <1>3, BorrowKept DEF Callers
<1>4. ASSUME NEW caller \in Callers, NEW a \in Assets, NEW u \in Users,
             NEW x \in Amounts \cup {MAX_UINT}, Repay(caller, a, u, x)
      PROVE  Kept /\ NoneLose({Gateway})
  BY <1>4, AmountTypes, RepayKept DEF Callers
<1>5. ASSUME NEW l \in Callers, NEW c \in Assets, NEW d \in Assets, NEW u \in Users,
             NEW x \in Amounts \cup {MAX_UINT}, NEW b \in BOOLEAN,
             LiquidationCall(l, c, d, u, x, b)
      PROVE  Kept /\ NoneLose({Gateway})
  BY <1>5, LiquidationKept DEF Callers
<1>6. ASSUME NEW from \in Callers, NEW to \in Users, NEW a \in Assets, NEW x \in Amounts,
             Transfer(from, to, a, x)
      PROVE  Kept /\ NoneLose({Gateway})
  BY <1>6, AmountTypes, TransferKept DEF Callers
<1>7. ASSUME NEW u \in Callers, NEW v \in Users, NEW a \in Assets,
             NEW x \in AllowanceAmounts, ApproveDelegation(u, v, a, x)
      PROVE  Kept /\ NoneLose({Gateway})
  <2>1. Call
    BY <1>7 DEF Call, Callers
  <2> QED
    BY <1>7, <2>1, ReservesStandKept DEF Next, ApproveDelegation
<1>8. ASSUME NEW u \in Callers, NEW a \in Assets, NEW using \in BOOLEAN,
             SetUserUseReserveAsCollateral(u, a, using)
      PROVE  Kept /\ NoneLose({Gateway})
  <2>1. Call /\ u \in Users
    BY <1>8 DEF Call, Callers
  <2>2. KeepsBorrowing(usersConfig, usersConfig')
    BY <1>8, <2>1, CollateralFlags
       DEF SetUserUseReserveAsCollateral, GatewayInv, Inv, TypeOK
  <2> QED
    BY <1>8, <2>1, <2>2, ReservesStandKept DEF Next, SetUserUseReserveAsCollateral
<1>9. CASE Environment
  BY <1>9, ReservesStandKept DEF Next, Environment, SetPrice, Tick
<1> QED
  BY <1>1, <1>2, <1>3, <1>4, <1>5, <1>6, <1>7, <1>8, <1>9 DEF PoolCall

-----------------------------------------------------------------------------
(* The gateway. *)

(* No account has type(uint256).max aTokens.                               *)
BalancesFit == \A u \in Users : BalanceOf(reserves[Wrapped], u, now) < MAX_UINT

TokensStay == reserves'[Wrapped].aBalance[Gateway] >= ReservesBefore[Wrapped].aBalance[Gateway]

(* What every step of the gateway's specification does.                    *)
GatewayKept ==
  /\ GatewayInv'
  /\ Idle' /\ Kind = "WHBAR" => wrapped' >= wrapped \/ recoverWrapped
  /\ Idle' /\ withdrawal.amount # MAX_UINT =>
       TokensStay \/ \E to \in Callers : recoverATokens(to)
  /\ BalancesFit /\ withdrawal.amount # MAX_UINT => withdrawal'.amount # MAX_UINT

(* Enough for a step that no withdrawal is part of.                        *)
LEMMA SingleCall ==
  ASSUME GatewayInv, Idle, withdrawal' = withdrawal, Kept, wrapped' \in Nat,
         Kind = "WHBAR" => wrapped' >= wrapped \/ recoverWrapped,
         NoneLose({Gateway}) \/ \E to \in Callers : recoverATokens(to)
  PROVE  GatewayKept
<1>1. GatewayInv'
  BY BetweenWithdrawals DEF Kept, Idle
<1>2. NoneLose({Gateway}) => TokensStay
  <2>1. /\ reserves[Wrapped].aBalance[Gateway] \in Nat
        /\ reserves'[Wrapped].aBalance[Gateway] \in Nat
    BY <1>1, GatewayConstants, ReserveFields DEF GatewayInv, Inv, AllWellFormed, Accounts
  <2> QED
    BY <2>1, GatewayConstants DEF NoneLose, LosesTokens, TokensStay, ReservesBefore
<1> QED
  BY <1>1, <1>2 DEF GatewayKept

LEMMA DepositNativeStep ==
  ASSUME GatewayInv, NEW caller \in Callers, NEW x \in Amounts, NEW u \in Users,
         depositNative(caller, x, u)
  PROVE  GatewayKept
<1>1. /\ Idle /\ withdrawal' = withdrawal /\ wrapped' = wrapped /\ wrapped \in Nat
      /\ Deposit(Wrapped, x, u)
  BY DEF depositNative, GatewayInv
<1>2. Kept /\ NoneLose({Gateway})
  BY <1>1, GatewayConstants, DepositKept
<1> QED
  BY <1>1, <1>2, SingleCall

LEMMA BorrowNativeStep ==
  ASSUME GatewayInv, NEW caller \in Callers, NEW x \in Amounts, borrowNative(caller, x)
  PROVE  GatewayKept
<1>1. /\ Idle /\ withdrawal' = withdrawal /\ wrapped' = wrapped /\ wrapped \in Nat
      /\ Borrow(Gateway, Wrapped, caller, x)
      /\ caller \in Users /\ caller # Gateway
  BY DEF borrowNative, GatewayInv, Callers
<1>2. Kept /\ NoneLose({Gateway})
  BY <1>1, GatewayConstants, BorrowKept
<1> QED
  BY <1>1, <1>2, SingleCall

(* WHBARGateway wraps what the pool pulls; WETHGateway may spend what      *)
(* strayed to it.                                                          *)
LEMMA RepayNativeStep ==
  ASSUME GatewayInv, NEW caller \in Callers, NEW u \in Users,
         NEW x \in Amounts \cup {MAX_UINT}, NEW value \in Amounts,
         repayNative(caller, x, value, u)
  PROVE  GatewayKept
<1> DEFINE debt    == DebtOf(reserves[Wrapped], u, now)
           payback == paybackAmount(u, x)
           request == repayRequest(payback, value)
           taken   == pulled(u, request)
<1>1. /\ Idle /\ withdrawal' = withdrawal /\ wrapped \in Nat
      /\ taken <= wrapped + payback
      /\ Repay(Gateway, Wrapped, u, request)
      /\ wrapped' = wrapped + payback - taken
  BY DEF repayNative, GatewayInv
<1>2. x \in Nat /\ value \in Nat
  BY AmountTypes
<1>3. debt \in Nat
  <2>1. now \in Nat /\ WellFormed(reserves[Wrapped], now)
    BY GatewayConstants DEF GatewayInv, Inv, TypeOK, AllWellFormed
  <2> QED
    BY <2>1, DebtScalesBack
<1>4. payback = IF x < debt THEN x ELSE debt
  BY DEF paybackAmount
<1>5. taken = IF request < debt THEN request ELSE debt
  BY DEF pulled
<1>6. request = IF Kind = "WETH" THEN value ELSE payback
  BY DEF repayRequest
<1> HIDE DEF debt, payback, request, taken
<1>7. payback \in Nat /\ request \in Nat /\ taken \in Nat
  BY <1>2, <1>3, <1>4, <1>5, <1>6
<1>8. wrapped' \in Nat
  BY <1>1, <1>7
<1>9. Kind = "WHBAR" => wrapped' = wrapped
  <2> SUFFICES ASSUME Kind = "WHBAR" PROVE wrapped' = wrapped
    OBVIOUS
  <2>1. taken = payback
    BY <1>2, <1>3, <1>4, <1>5, <1>6
  <2> QED
    BY <1>1, <1>7, <2>1
<1>10. Kept /\ NoneLose({Gateway})
  BY <1>1, <1>7, GatewayConstants, RepayKept
<1> QED
  BY <1>1, <1>8, <1>9, <1>10, SingleCall

(* A transfer moves the scaled amount, whole from who has no more.         *)
LEMMA TransferredAmounts ==
  ASSUME NEW r, NEW t \in Nat, WellFormed(r, t), NEW from \in Users, NEW to \in Users,
         from # to, NEW x \in Nat, CanTransferAToken(r, from, x, t)
  PROVE  LET n == TransferAToken(r, from, to, x, t)
             scaled == RayDiv(x, NormalizedIncome(r, t))
         IN  /\ scaled \in Nat
             /\ NormalizedIncome(n, t) = NormalizedIncome(r, t)
             /\ n.aBalance[to] = r.aBalance[to] + scaled
             /\ x = BalanceOf(r, from, t) =>
                  /\ n.aBalance[from] = 0
                  /\ x = RayMul(scaled, NormalizedIncome(r, t))
<1> DEFINE i == NormalizedIncome(r, t)
           scaled == RayDiv(x, i)
           n == TransferAToken(r, from, to, x, t)
           less == [r.aBalance EXCEPT ![from] = r.aBalance[from] - scaled]
<1>1. /\ r \in Reserve /\ r.aBalance \in [Accounts -> Nat]
      /\ from \in Accounts /\ to \in Accounts
  BY ReserveFields DEF WellFormed, Accounts
<1>2. i \in Nat /\ i >= RAY /\ i \in Nat \ {0}
  BY IncomeIsAccrued, ScalesPositive
<1>3. n = [r EXCEPT !.aBalance = [less EXCEPT ![to] = less[to] + scaled]]
  BY DEF TransferAToken
<1>4. BalanceOf(r, from, t) = RayMul(r.aBalance[from], i)
  BY DEF BalanceOf
<1> HIDE DEF i
<1>5. scaled \in Nat
  BY <1>2, RayDivIsNat
<1>6. x = BalanceOf(r, from, t) => scaled = r.aBalance[from]
  BY <1>1, <1>2, <1>4, RoundTrip
<1> HIDE DEF scaled, n
<1>7. less \in [Accounts -> Int] /\ less[from] = r.aBalance[from] - scaled
      /\ less[to] = r.aBalance[to]
  BY <1>1, <1>5
<1> HIDE DEF less
<1>8. n.aBalance = [less EXCEPT ![to] = less[to] + scaled]
  BY <1>1, <1>3 DEF Reserve
<1>9. n.aBalance[to] = r.aBalance[to] + scaled /\ n.aBalance[from] = r.aBalance[from] - scaled
  BY <1>1, <1>7, <1>8
<1>10. NormalizedIncome(n, t) = i
  <2>1. /\ n.lastUpdate = r.lastUpdate /\ n.liquidityIndex = r.liquidityIndex
        /\ n.liquidityRate = r.liquidityRate
    BY <1>1, <1>3 DEF Reserve
  <2> QED
    BY <2>1 DEF NormalizedIncome, i
<1>11. x = BalanceOf(r, from, t) => n.aBalance[from] = 0 /\ x = RayMul(scaled, i)
  BY <1>1, <1>4, <1>5, <1>6, <1>9
<1> QED
  BY <1>5, <1>9, <1>10, <1>11 DEF i, scaled, n

LEMMA WithdrawNativeStep ==
  ASSUME GatewayInv, NEW caller \in Callers, NEW to \in Callers,
         NEW x \in Amounts \cup {MAX_UINT}, withdrawNative(caller, x, to)
  PROVE  GatewayKept
<1> DEFINE r       == reserves[Wrapped]
           balance == BalanceOf(r, caller, now)
           taken   == IF x = MAX_UINT THEN balance ELSE x
           n       == TransferAToken(r, caller, Gateway, taken, now)
<1>1. /\ Idle
      /\ Transfer(caller, Gateway, Wrapped, taken)
      /\ withdrawal' = [caller |-> caller, whole |-> x = MAX_UINT, amount |-> taken, to |-> to]
      /\ saved' = [reserves |-> reserves, usersConfig |-> usersConfig,
                   aAllowance |-> aAllowance]
      /\ wrapped' = wrapped /\ wrapped \in Nat
  BY DEF withdrawNative, GatewayInv
<1>2. /\ Inv /\ BooksBalance /\ now \in Nat /\ WellFormed(r, now) /\ x \in Nat
      /\ caller \in Users /\ Gateway \in Users /\ caller # Gateway
      /\ caller \in Accounts /\ Wrapped \in Assets
  BY AmountTypes, GatewayConstants DEF GatewayInv, Inv, TypeOK, AllWellFormed, Callers, Accounts
<1>3. taken \in Nat
  <2>1. balance \in Nat
    BY <1>2, BalanceIsNat
  <2> QED
    BY <1>2, <2>1
<1>4. /\ CanTransferAToken(r, caller, taken, now)
      /\ reserves' = [reserves EXCEPT ![Wrapped] = n]
      /\ now' = now
  BY <1>1 DEF Transfer
<1>5. x = MAX_UINT => taken = balance
  OBVIOUS
<1>6. BalancesFit => taken # MAX_UINT
  BY <1>2 DEF BalancesFit
<1>7. ~Idle'
  BY <1>1, <1>2 DEF Idle, NoWithdrawal
<1> HIDE DEF taken
<1>8. Kept
  BY <1>1, <1>2, <1>3, TransferKept
<1>9. /\ NormalizedIncome(n, now) = NormalizedIncome(r, now)
      /\ n.aBalance[Gateway] = r.aBalance[Gateway] + RayDiv(taken, NormalizedIncome(r, now))
      /\ taken = balance =>
           /\ n.aBalance[caller] = 0
           /\ taken = RayMul(RayDiv(taken, NormalizedIncome(r, now)), NormalizedIncome(r, now))
  BY <1>2, <1>3, <1>4, TransferredAmounts
<1>10. reserves'[Wrapped] = n
  BY <1>2, <1>4 DEF Inv, AllWellFormed
<1> HIDE DEF n, balance
<1>11. SavedSound'
  <2>1. /\ AllWellFormed(reserves, now) /\ usersConfig \in [Users -> UserConfiguration]
        /\ \A u \in Users, a \in Assets :
             reserves[a].dBalance[u] > 0 => a \in usersConfig[u].borrowing
        /\ \A a \in Assets : Balanced(reserves[a])
        /\ OwesNothing(usersConfig)
    BY <1>2 DEF GatewayInv, Inv, TypeOK, BorrowFlagTracksDebt, BooksBalance
  <2>2. saved'.reserves = reserves /\ saved'.usersConfig = usersConfig
    BY <1>1
  <2> QED
    BY <1>4, <2>1, <2>2 DEF SavedSound
<1>12. Passing'
  <2>1. /\ withdrawal'.caller = caller /\ withdrawal'.amount = taken
        /\ withdrawal'.whole = (x = MAX_UINT)
        /\ saved'.reserves[Wrapped] = r
    BY <1>1
  <2> QED
    BY <1>3, <1>4, <1>5, <1>9, <1>10, <2>1 DEF Passing
<1>13. GatewayInv'
  BY <1>1, <1>2, <1>8, <1>11, <1>12
     DEF GatewayInv, Kept, BooksBalance, BooksKept, KeepsBooks, BooksMoveBy
<1>14. withdrawal'.amount = taken
  BY <1>1
<1> QED
  BY <1>6, <1>7, <1>13, <1>14 DEF GatewayKept

(* What the transfer brought, the withdrawal burns, unless the amount is   *)
(* read as the request for everything the gateway has.                     *)
LEMMA WithdrawFromPoolStep ==
  ASSUME GatewayInv, withdrawFromPool
  PROVE  GatewayKept
<1> DEFINE r       == reserves[Wrapped]
           x       == withdrawal.amount
           accrued == UpdateState(r, now)
           priced  == UpdateInterestRates(accrued, 0, x)
           n       == BurnAToken(priced, Gateway, x)
           i       == NormalizedIncome(r, now)
<1>1. /\ ~Idle /\ SavedSound /\ Passing /\ Inv /\ wrapped \in Nat
      /\ Withdraw(Gateway, Wrapped, x)
      /\ withdrawal' = NoWithdrawal /\ wrapped' = wrapped
  BY DEF withdrawFromPool, GatewayInv
<1>2. /\ x \in Nat /\ now \in Nat /\ WellFormed(r, now) /\ Gateway \in Users
      /\ Gateway \in Accounts /\ Wrapped \in Assets
      /\ r.aBalance[Gateway] = saved.reserves[Wrapped].aBalance[Gateway] + RayDiv(x, i)
  BY <1>1, GatewayConstants DEF Inv, TypeOK, AllWellFormed, Passing, Accounts
<1>3. Kept
  BY <1>1, <1>2, WithdrawKept
<1>4. Idle'
  BY <1>1 DEF Idle
<1>5. x # MAX_UINT =>
        /\ CanUpdateInterestRates(accrued, 0, x)
        /\ CanBurnAToken(priced, Gateway, x)
        /\ reserves' = [reserves EXCEPT ![Wrapped] = n]
  BY <1>1 DEF Withdraw
<1>6. /\ WellFormed(accrued, now) /\ accrued.liquidityIndex = i
      /\ accrued.aBalance[Gateway] >= r.aBalance[Gateway]
  BY <1>2, UpdateStateSound, IncomeIsAccrued
<1> HIDE DEF accrued
<1>7. x # MAX_UINT => TokensStay
  <2> SUFFICES ASSUME x # MAX_UINT PROVE TokensStay
    OBVIOUS
  <2>1. /\ WellFormed(priced, now) /\ priced.liquidityIndex = i
        /\ priced.aBalance = accrued.aBalance
    BY <1>2, <1>5, <1>6, UpdateInterestRatesSound
  <2> HIDE DEF priced, x, i
  <2>2. priced \in Reserve /\ priced.aBalance \in [Accounts -> Nat] /\ RayDiv(x, i) \in Nat
    BY <1>2, <2>1, ReserveFields, ScaledIsNat DEF WellFormed
  <2>3. n.aBalance = [priced.aBalance EXCEPT
                        ![Gateway] = priced.aBalance[Gateway] - RayDiv(x, i)]
    BY <2>1, <2>2 DEF BurnAToken, Reserve
  <2> HIDE DEF n
  <2>4. n.aBalance[Gateway] = priced.aBalance[Gateway] - RayDiv(x, i)
    BY <1>2, <2>2, <2>3
  <2>5. reserves'[Wrapped] = n
    BY <1>1, <1>2, <1>5 DEF Inv, AllWellFormed
  <2>6. /\ r.aBalance[Gateway] \in Nat /\ accrued.aBalance[Gateway] \in Nat
        /\ saved.reserves[Wrapped].aBalance[Gateway] \in Nat
    BY <1>1, <1>2, <1>6, ReserveFields DEF WellFormed, SavedSound, AllWellFormed
  <2>7. n.aBalance[Gateway] >= saved.reserves[Wrapped].aBalance[Gateway]
    BY <1>2, <1>6, <2>1, <2>2, <2>4, <2>6
  <2> QED
    BY <1>1, <2>5, <2>7 DEF TokensStay, ReservesBefore
<1>8. GatewayInv'
  BY <1>1, <1>3, <1>4, BetweenWithdrawals DEF Kept
<1>9. withdrawal'.amount # MAX_UINT /\ wrapped' >= wrapped
  BY <1>1, PoolConstants DEF NoWithdrawal
<1> QED
  BY <1>7, <1>8, <1>9 DEF GatewayKept

LEMMA RevertWithdrawalStep ==
  ASSUME GatewayInv, revertWithdrawal
  PROVE  GatewayKept
<1>1. /\ ~Idle /\ SavedSound /\ wrapped' = wrapped /\ wrapped \in Nat
      /\ withdrawal' = NoWithdrawal
      /\ reserves' = saved.reserves /\ usersConfig' = saved.usersConfig
      /\ borrowAllowance' = borrowAllowance
      /\ now' = now /\ paused' = paused /\ price' = price
  BY DEF revertWithdrawal, GatewayInv
<1>2. /\ paused' \in BOOLEAN /\ price' \in [Assets -> Nat \ {0}] /\ now' \in Nat
      /\ borrowAllowance' \in [Assets -> [Users -> [Users -> Nat]]]
  BY <1>1 DEF GatewayInv, Inv, TypeOK
<1>3. AllWellFormed(reserves', now') /\ usersConfig' \in [Users -> UserConfiguration]
  BY <1>1 DEF SavedSound
<1>4. BorrowFlagTracksDebt'
  BY <1>1 DEF SavedSound, BorrowFlagTracksDebt
<1>5. Inv'
  BY <1>2, <1>3, <1>4 DEF Inv, TypeOK, AllWellFormed
<1>6. BooksBalance' /\ OwesNothing(usersConfig)' /\ LendsNoCredit'
  BY <1>1 DEF SavedSound, BooksBalance, OwesNothing, GatewayInv, LendsNoCredit
<1>7. Idle'
  BY <1>1 DEF Idle
<1>8. GatewayInv'
  BY <1>1, <1>5, <1>6, <1>7 DEF GatewayInv
<1>9. TokensStay
  <2>1. reserves'[Wrapped].aBalance[Gateway] \in Nat
    BY <1>3, GatewayConstants, ReserveFields DEF AllWellFormed, Accounts
  <2> QED
    BY <1>1, <2>1 DEF TokensStay, ReservesBefore
<1>10. withdrawal'.amount # MAX_UINT /\ wrapped' >= wrapped
  BY <1>1, PoolConstants DEF NoWithdrawal
<1> QED
  BY <1>8, <1>9, <1>10 DEF GatewayKept

(* Steps that leave the pool alone.                                        *)
LEMMA OwnStep ==
  ASSUME GatewayInv, Idle, UNCHANGED <<vars, withdrawal>>, wrapped' \in Nat,
         wrapped' >= wrapped \/ recoverWrapped
  PROVE  GatewayKept
<1>1. Kept /\ NoneLose({Gateway})
  BY ReservesStandKept DEF vars
<1> QED
  BY <1>1, SingleCall

(* The owner takes out aTokens that strayed to the gateway.                *)
LEMMA RecoverATokensStep ==
  ASSUME GatewayInv, NEW to \in Callers, recoverATokens(to)
  PROVE  GatewayKept
<1> DEFINE x == BalanceOf(reserves[Wrapped], Gateway, now)
<1>1. /\ Idle /\ withdrawal' = withdrawal /\ wrapped' = wrapped /\ wrapped \in Nat
      /\ Transfer(Gateway, to, Wrapped, x)
      /\ to \in Users /\ Gateway \in Users /\ Wrapped \in Assets
  BY GatewayConstants DEF recoverATokens, GatewayInv, Callers
<1>2. x \in Nat
  <2>1. now \in Nat /\ WellFormed(reserves[Wrapped], now) /\ Gateway \in Accounts
    BY <1>1 DEF GatewayInv, Inv, TypeOK, AllWellFormed, Accounts
  <2> QED
    BY <2>1, BalanceIsNat
<1> HIDE DEF x
<1>3. Kept
  BY <1>1, <1>2, TransferKept
<1> QED
  BY <1>1, <1>3, SingleCall

LEMMA EveryGatewayStep ==
  ASSUME GatewayInv, [GatewayNext]_gatewayVars
  PROVE  GatewayKept
<1>1. wrapped \in Nat
  BY DEF GatewayInv
<1>2. CASE authorizeLendingPool
  BY <1>1, <1>2, OwnStep DEF authorizeLendingPool
<1>3. CASE GatewayCall
  BY <1>3, DepositNativeStep, WithdrawNativeStep, WithdrawFromPoolStep, RevertWithdrawalStep,
     RepayNativeStep, BorrowNativeStep DEF GatewayCall
<1>4. ASSUME NEW u \in Callers, NEW x \in AllowanceAmounts, approveGateway(u, x)
      PROVE  GatewayKept
  BY <1>1, <1>4, OwnStep DEF approveGateway
<1>5. ASSUME NEW x \in Amounts, sendWrapped(x)
      PROVE  GatewayKept
  <2>1. wrapped' = wrapped + x /\ x \in Nat
    BY <1>5, AmountTypes DEF sendWrapped
  <2> QED
    BY <1>1, <1>5, <2>1, OwnStep DEF sendWrapped
<1>6. CASE recoverWrapped
  BY <1>6, OwnStep DEF recoverWrapped
<1>7. ASSUME NEW to \in Callers, recoverATokens(to)
      PROVE  GatewayKept
  BY <1>7, RecoverATokensStep
<1>8. CASE PoolStep
  <2>1. /\ Idle /\ withdrawal' = withdrawal /\ wrapped' = wrapped
        /\ PoolCall \/ Environment
    BY <1>8 DEF PoolStep
  <2>2. Kept /\ NoneLose({Gateway})
    BY <2>1, PoolStepKept
  <2> QED
    BY <1>1, <2>1, <2>2, SingleCall
<1>9. CASE UNCHANGED gatewayVars
  <2>1. /\ GatewayInv' /\ withdrawal' = withdrawal /\ reserves' = reserves
        /\ wrapped' = wrapped
    <3>1. UNCHANGED vars /\ UNCHANGED <<withdrawal, saved, wrapped>>
      BY <1>9 DEF gatewayVars
    <3>2. Inv'
      BY <3>1, StutterStep DEF GatewayInv
    <3> QED
      BY <3>1, <3>2
         DEF GatewayInv, BooksBalance, OwesNothing, LendsNoCredit, Idle, SavedSound, Passing, vars
  <2>2. Idle' => TokensStay
    <3>1. reserves[Wrapped].aBalance[Gateway] \in Nat
      BY GatewayConstants, ReserveFields DEF GatewayInv, Inv, AllWellFormed, Accounts
    <3> QED
      BY <2>1, <3>1 DEF TokensStay, ReservesBefore, Idle
  <2> QED
    BY <1>1, <2>1, <2>2 DEF GatewayKept
<1> QED
  BY <1>2, <1>3, <1>4, <1>5, <1>6, <1>7, <1>8, <1>9 DEF GatewayNext

-----------------------------------------------------------------------------
LEMMA GatewayInitSound == GatewayInit => GatewayInv /\ withdrawal.amount # MAX_UINT
<1> SUFFICES ASSUME GatewayInit PROVE GatewayInv /\ withdrawal.amount # MAX_UINT
  OBVIOUS
<1>1. Init /\ Idle /\ wrapped = 0 /\ withdrawal.amount = 0
  BY DEF GatewayInit, Idle, NoWithdrawal
<1>2. Inv /\ BooksBalance
  BY <1>1, InitInv, InitBalanced
<1>3. OwesNothing(usersConfig) /\ LendsNoCredit
  BY <1>1, GatewayConstants DEF Init, OwesNothing, LendsNoCredit
<1> QED
  BY <1>1, <1>2, <1>3, PoolConstants DEF GatewayInv

LEMMA GatewayInvariance == GatewaySpec => []GatewayInv
<1>1. GatewayInit => GatewayInv
  BY GatewayInitSound
<1>2. GatewayInv /\ [GatewayNext]_gatewayVars => GatewayInv'
  BY EveryGatewayStep DEF GatewayKept
<1> QED
  BY <1>1, <1>2, PTL DEF GatewaySpec

(* What holds of the pool holds of it too while users come through a       *)
(* gateway, between the two calls of a withdrawal and after a revert:      *)
(* types, borrowing flags, sums of the balances, withdrawal and repayment  *)
(* in full.                                                                *)
THEOREM GatewaysKeepTheInvariants ==
  GatewaySpec => [](/\ TypeOK /\ BorrowFlagTracksDebt /\ TotalsMatchBalances
                    /\ WithdrawableInFull /\ RepayableWhileEarning)
<1>1. GatewayInv =>
        /\ TypeOK /\ BorrowFlagTracksDebt /\ TotalsMatchBalances
        /\ WithdrawableInFull /\ RepayableWhileEarning
  BY DepositorsCanLeave, BorrowersCanClear, BalancedBooks DEF GatewayInv, Inv
<1> QED
  BY <1>1, GatewayInvariance, PTL

LEMMA PassingIsCovered == GatewayInv => WholeBalanceWithdrawable
<1> SUFFICES ASSUME GatewayInv, ~Idle, withdrawal.whole
             PROVE  /\ reserves[Wrapped].aBalance[withdrawal.caller] = 0
                    /\ withdrawal.amount <= BalanceOf(reserves[Wrapped], Gateway, now)
  BY DEF WholeBalanceWithdrawable
<1> DEFINE r      == reserves[Wrapped]
           i      == NormalizedIncome(r, now)
           old    == saved.reserves[Wrapped].aBalance[Gateway]
           scaled == RayDiv(withdrawal.amount, i)
<1>1. /\ withdrawal.amount \in Nat /\ r.aBalance[Gateway] = old + scaled
      /\ r.aBalance[withdrawal.caller] = 0 /\ withdrawal.amount = RayMul(scaled, i)
  BY DEF GatewayInv, Passing
<1>2. i \in Nat /\ i \in Nat \ {0}
  <2>1. now \in Nat /\ WellFormed(r, now)
    BY GatewayConstants DEF GatewayInv, Inv, TypeOK, AllWellFormed
  <2> QED
    BY <2>1, IncomeIsAccrued, ScalesPositive
<1>3. old \in Nat
  BY GatewayConstants, ReserveFields DEF GatewayInv, SavedSound, AllWellFormed, Accounts
<1>4. scaled \in Nat
  BY <1>1, <1>2, RayDivIsNat
<1>5. BalanceOf(r, Gateway, now) = RayMul(old + scaled, i)
  BY <1>1 DEF BalanceOf
<1> HIDE DEF i, old, scaled
<1>6. scaled <= old + scaled /\ old + scaled \in Nat
  BY <1>3, <1>4
<1>7. RayMul(scaled, i) <= RayMul(old + scaled, i)
  BY <1>2, <1>4, <1>6, RayMulMonotone
<1> QED
  BY <1>1, <1>5, <1>7

(* Whoever asks a gateway for type(uint256).max leaves nothing behind, and *)
(* the gateway can withdraw all it was handed: the scaled amount that went *)
(* to it is the caller's whole balance, and is worth what was asked.       *)
THEOREM WholeBalancesPassThrough == GatewaySpec => []WholeBalanceWithdrawable
BY PassingIsCovered, GatewayInvariance, PTL

(* WHBARGateway spends no coins and no aTokens that strayed to it on any   *)
(* user's behalf: it wraps what the pool pulls, and a withdrawal burns the *)
(* scaled amount the transfer brought, also when it is reverted.  That no  *)
(* account has 2^256 - 1 aTokens, which Withdraw would take for a request  *)
(* of everything, is a hypothesis.  Of WETHGateway it does not hold.       *)
THEOREM StrayCoinsAreKept ==
  ASSUME Kind = "WHBAR"
  PROVE  GatewaySpec /\ []BalancesFit => StrayStays
<1> DEFINE Fits == withdrawal.amount # MAX_UINT
           Stays == Idle' =>
                      /\ wrapped' >= wrapped \/ recoverWrapped
                      /\ \/ reserves'[Wrapped].aBalance[Gateway]
                              >= ReservesBefore[Wrapped].aBalance[Gateway]
                         \/ \E to \in Callers : recoverATokens(to)
<1>1. GatewayInit => Fits
  BY GatewayInitSound
<1>2. GatewayInv /\ BalancesFit /\ Fits /\ [GatewayNext]_gatewayVars => Fits'
  BY EveryGatewayStep DEF GatewayKept
<1>3. GatewayInv /\ Fits /\ [GatewayNext]_gatewayVars => [Stays]_gatewayVars
  BY EveryGatewayStep DEF GatewayKept, TokensStay
<1> QED
  BY <1>1, <1>2, <1>3, GatewayInvariance, PTL DEF GatewaySpec, StrayStays

-----------------------------------------------------------------------------
(* Par.  Everything is compared settled, as Worth is. *)

(* What settling r mints to the treasury. *)
Minted(r, t) ==
  LET n == UpdateIndexes(r, t)
  IN  IF r.configuration.reserveFactor = 0
      THEN 0
      ELSE RayDiv(AmountToTreasury(r, n), n.liquidityIndex)

LEMMA SettledBalances ==
  ASSUME NEW r, NEW t \in Nat, WellFormed(r, t)
  PROVE  /\ Minted(r, t) \in Nat
         /\ UpdateState(r, t).aBalance
              = [r.aBalance EXCEPT ![Treasury] = r.aBalance[Treasury] + Minted(r, t)]
<1> DEFINE n == UpdateIndexes(r, t)
           k == RayDiv(AmountToTreasury(r, n), n.liquidityIndex)
<1>1. /\ r \in Reserve /\ WellFormed(n, t) /\ IndexesGrow(r, n)
      /\ n.aBalance = r.aBalance
  BY UpdateIndexesSound DEF WellFormed
<1>2. Minted(r, t) = IF r.configuration.reserveFactor = 0 THEN 0 ELSE k
  BY DEF Minted
<1>3. UpdateState(r, t) = MintToTreasury(r, n)
  BY DEF UpdateState
<1> HIDE DEF n
<1>4. n \in Reserve /\ n.liquidityIndex \in Nat \ {0} /\ Treasury \in Accounts
  BY <1>1, WellFormedIndexes DEF WellFormed, Accounts
<1>5. k \in Nat
  BY <1>1, <1>4, AmountToTreasuryIsNat, RayDivIsNat
<1>6. UpdateState(r, t) = IF r.configuration.reserveFactor = 0
                          THEN n
                          ELSE [n EXCEPT !.aBalance = [n.aBalance EXCEPT
                                                         ![Treasury] = n.aBalance[Treasury] + k],
                                         !.aSupply = n.aSupply + k]
  BY <1>3, <1>4 DEF MintToTreasury, Reserve
<1> HIDE DEF k
<1>7. n.aBalance \in [Accounts -> Nat]
  BY <1>4, ReserveFields
<1>8. [n.aBalance EXCEPT ![Treasury] = n.aBalance[Treasury] + 0] = n.aBalance
  BY <1>4, <1>7
<1>9. CASE r.configuration.reserveFactor = 0
  BY <1>1, <1>2, <1>6, <1>8, <1>9
<1>10. CASE r.configuration.reserveFactor # 0
  <2>1. UpdateState(r, t).aBalance
          = [n.aBalance EXCEPT ![Treasury] = n.aBalance[Treasury] + k]
    BY <1>4, <1>6, <1>10 DEF Reserve
  <2> QED
    BY <1>1, <1>2, <1>5, <1>10, <2>1
<1> QED
  BY <1>9, <1>10

(* The treasury's share does not depend on who holds the aTokens.          *)
LEMMA MintedWhoeverHolds ==
  ASSUME NEW r \in Reserve, NEW t \in Nat, NEW b
  PROVE  LET m == [r EXCEPT !.aBalance = b]
         IN  /\ Minted(m, t) = Minted(r, t)
             /\ UpdateIndexes(m, t).liquidityIndex = UpdateIndexes(r, t).liquidityIndex
             /\ UpdateIndexes(m, t).variableBorrowIndex = UpdateIndexes(r, t).variableBorrowIndex
<1> DEFINE m == [r EXCEPT !.aBalance = b]
           u == UpdateIndexes(r, t)
           v == UpdateIndexes(m, t)
<1>1. /\ m.liquidityRate = r.liquidityRate /\ m.borrowRate = r.borrowRate
      /\ m.liquidityIndex = r.liquidityIndex
      /\ m.variableBorrowIndex = r.variableBorrowIndex
      /\ m.lastUpdate = r.lastUpdate /\ m.dSupply = r.dSupply
      /\ m.configuration = r.configuration /\ m.aBalance = b
  BY DEF Reserve
<1>2. v = [u EXCEPT !.aBalance = b]
  BY <1>1 DEF UpdateIndexes, Reserve
<1>3. v.liquidityIndex = u.liquidityIndex /\ v.variableBorrowIndex = u.variableBorrowIndex
  BY <1>2 DEF UpdateIndexes, Reserve
<1> HIDE DEF m, u, v
<1>4. AmountToTreasury(m, v) = AmountToTreasury(r, u)
  BY <1>1, <1>3 DEF AmountToTreasury
<1>5. Minted(m, t) = Minted(r, t)
  BY <1>1, <1>3, <1>4 DEF Minted, u, v
<1> QED
  BY <1>3, <1>5 DEF m, u, v

(* A transfer and the accrual commute.                                     *)
LEMMA TransferSettles ==
  ASSUME NEW r, NEW t \in Nat, WellFormed(r, t), NEW from \in Accounts, NEW to \in Accounts,
         from # to, NEW x \in Nat, CanTransferAToken(r, from, x, t)
  PROVE  LET s == UpdateState(r, t)
             z == UpdateState(TransferAToken(r, from, to, x, t), t)
             scaled == RayDiv(x, s.liquidityIndex)
         IN  /\ WellFormed(z, t) /\ SameIndexes(s, z) /\ z.dBalance = s.dBalance
             /\ scaled \in Nat /\ scaled <= s.aBalance[from]
             /\ z.aBalance[from] = s.aBalance[from] - scaled
             /\ z.aBalance[to] = s.aBalance[to] + scaled
             /\ \A v \in Accounts \ {from, to} : z.aBalance[v] = s.aBalance[v]
<1> DEFINE s == UpdateState(r, t)
           m == TransferAToken(r, from, to, x, t)
           z == UpdateState(m, t)
           scaled == RayDiv(x, s.liquidityIndex)
           less == [r.aBalance EXCEPT ![from] = r.aBalance[from] - scaled]
           b == [less EXCEPT ![to] = less[to] + scaled]
           k == Minted(r, t)
<1>1. /\ r \in Reserve /\ r.aBalance \in [Accounts -> Nat] /\ Treasury \in Accounts
  BY ReserveFields DEF WellFormed, Accounts
<1>2. /\ NormalizedIncome(r, t) = s.liquidityIndex
      /\ s.liquidityIndex = UpdateIndexes(r, t).liquidityIndex
      /\ s.variableBorrowIndex = UpdateIndexes(r, t).variableBorrowIndex
      /\ s.liquidityIndex \in Nat \ {0}
      /\ SamePositions(r, s)
  BY IncomeIsAccrued, UpdateStateSound, WellFormedIndexes
<1>3. m = [r EXCEPT !.aBalance = b]
  BY <1>2 DEF TransferAToken
<1>4. scaled <= r.aBalance[from]
  BY <1>2 DEF CanTransferAToken
<1>5. WellFormed(m, t)
  BY TransferATokenSound
<1>6. /\ z.liquidityIndex = UpdateIndexes(m, t).liquidityIndex
      /\ z.variableBorrowIndex = UpdateIndexes(m, t).variableBorrowIndex
      /\ WellFormed(z, t) /\ SamePositions(m, z)
  BY <1>5, UpdateStateSound
<1>7. /\ k \in Nat
      /\ s.aBalance = [r.aBalance EXCEPT ![Treasury] = r.aBalance[Treasury] + k]
      /\ z.aBalance = [m.aBalance EXCEPT ![Treasury] = m.aBalance[Treasury] + Minted(m, t)]
  BY <1>5, SettledBalances
<1> HIDE DEF s, z
<1>8. scaled \in Nat
  BY <1>2, RayDivIsNat
<1> HIDE DEF scaled, k, b
<1>9. /\ m.aBalance = b /\ m.dBalance = r.dBalance
  BY <1>1, <1>3 DEF Reserve
<1>10. /\ Minted(m, t) = k
       /\ UpdateIndexes(m, t).liquidityIndex = UpdateIndexes(r, t).liquidityIndex
       /\ UpdateIndexes(m, t).variableBorrowIndex = UpdateIndexes(r, t).variableBorrowIndex
  BY <1>1, <1>3, MintedWhoeverHolds DEF k
<1> HIDE DEF m
<1>11. SameIndexes(s, z) /\ z.dBalance = s.dBalance
  BY <1>2, <1>6, <1>9, <1>10 DEF SameIndexes, SamePositions
<1>12. /\ less \in [Accounts -> Nat] /\ less[from] = r.aBalance[from] - scaled
       /\ \A v \in Accounts \ {from} : less[v] = r.aBalance[v]
  BY <1>1, <1>4, <1>8
<1> HIDE DEF less
<1>13. /\ b \in [Accounts -> Nat] /\ b[to] = r.aBalance[to] + scaled
       /\ b[from] = r.aBalance[from] - scaled
       /\ \A v \in Accounts \ {from, to} : b[v] = r.aBalance[v]
  BY <1>8, <1>12 DEF b
<1>14. z.aBalance = [b EXCEPT ![Treasury] = b[Treasury] + k]
  BY <1>7, <1>9, <1>10
<1>15. \A v \in Accounts : /\ s.aBalance[v] = r.aBalance[v] + (IF v = Treasury THEN k ELSE 0)
                           /\ z.aBalance[v] = b[v] + (IF v = Treasury THEN k ELSE 0)
                           /\ r.aBalance[v] \in Nat /\ b[v] \in Nat
  <2> TAKE v \in Accounts
  <2>1. r.aBalance[v] \in Nat /\ b[v] \in Nat
    BY <1>1, <1>13
  <2>2. CASE v = Treasury
    BY <1>1, <1>7, <1>13, <1>14, <2>1, <2>2
  <2>3. CASE v # Treasury
    <3>1. s.aBalance[v] = r.aBalance[v] /\ z.aBalance[v] = b[v]
      BY <1>1, <1>7, <1>13, <1>14, <2>3
    <3> QED
      BY <2>1, <2>3, <3>1
  <2> QED
    BY <2>2, <2>3
<1> DEFINE e(v) == IF v = Treasury THEN k ELSE 0
<1>16. \A v \in Accounts : e(v) \in Nat
  BY <1>7
<1>17. \A v \in Accounts : /\ s.aBalance[v] = r.aBalance[v] + e(v)
                           /\ z.aBalance[v] = b[v] + e(v)
  BY <1>15
<1> HIDE DEF e
<1>18. /\ z.aBalance[from] = s.aBalance[from] - scaled
       /\ z.aBalance[to] = s.aBalance[to] + scaled
       /\ scaled <= s.aBalance[from]
       /\ \A v \in Accounts \ {from, to} : z.aBalance[v] = s.aBalance[v]
  <2>1. ASSUME NEW v \in Accounts \ {from, to}
        PROVE  z.aBalance[v] = s.aBalance[v]
    <3>1. z.aBalance[v] = b[v] + e(v) /\ s.aBalance[v] = r.aBalance[v] + e(v)
      BY <1>17
    <3>2. b[v] = r.aBalance[v]
      BY <1>13
    <3> QED
      BY <3>1, <3>2
  <2>2. /\ z.aBalance[from] = b[from] + e(from) /\ s.aBalance[from] = r.aBalance[from] + e(from)
        /\ z.aBalance[to] = b[to] + e(to) /\ s.aBalance[to] = r.aBalance[to] + e(to)
        /\ e(from) \in Nat /\ e(to) \in Nat
        /\ r.aBalance[from] \in Nat /\ r.aBalance[to] \in Nat
    BY <1>15, <1>16, <1>17
  <2> QED
    BY <1>4, <1>8, <1>13, <2>1, <2>2
<1> QED
  BY <1>6, <1>8, <1>11, <1>18 DEF s, z, m, scaled

(* What u has in a settled reserve. *)
WorthIn(s, u) ==
  RayMul(s.aBalance[u], s.liquidityIndex) - RayMul(s.dBalance[u], s.variableBorrowIndex)

LEMMA WorthIsInt ==
  ASSUME NEW s, NEW t, WellFormed(s, t), NEW u \in Users
  PROVE  /\ WorthIn(s, u) \in Int
         /\ RayMul(s.aBalance[u], s.liquidityIndex) \in Nat
         /\ RayMul(s.dBalance[u], s.variableBorrowIndex) \in Nat
         /\ s.aBalance[u] \in Nat /\ s.dBalance[u] \in Nat
<1>1. /\ s.aBalance[u] \in Nat /\ s.dBalance[u] \in Nat
      /\ s.liquidityIndex \in Nat /\ s.variableBorrowIndex \in Nat
  BY ReserveFields DEF WellFormed, Accounts
<1>2. /\ RayMul(s.aBalance[u], s.liquidityIndex) \in Nat
      /\ RayMul(s.dBalance[u], s.variableBorrowIndex) \in Nat
  BY <1>1, RayMulIsNat
<1> QED
  BY <1>1, <1>2 DEF WorthIn

LEMMA WorthWhenSettled ==
  ASSUME NEW r, NEW t \in Nat, WellFormed(r, t), NEW u \in Users
  PROVE  LET s == UpdateState(r, t)
         IN  BalanceOf(s, u, t) - DebtOf(s, u, t) = WorthIn(s, u)
<1>1. UpdateState(r, t).lastUpdate = t
  BY UpdateStateSound
<1> QED
  BY <1>1 DEF BalanceOf, DebtOf, NormalizedIncome, NormalizedDebt, WorthIn

(* Coins that move at c and a worth that moves at v add up to both.        *)
LEMMA GainsAddUp ==
  ASSUME NEW D \in [Users -> Int], NEW c \in Users, NEW v \in Users, NEW k \in Int,
         \A u \in Users \ {v} : D[u] = 0
  PROVE  LET gained == [u \in Users |-> [NoCoins EXCEPT ![c] = k][u] + D[u]]
         IN  SumFunction(gained) = k + D[v]
<1> DEFINE coins == [NoCoins EXCEPT ![c] = k]
           gained == [u \in Users |-> coins[u] + D[u]]
<1>1. NoCoins \in [Users -> Int] /\ Total(NoCoins, Users) = 0
  <2>1. /\ NoCoins = [u \in Users |-> 0]
        /\ \A u \in Users : NoCoins[u] = 0
    BY DEF NoCoins
  <2> QED
    BY <2>1, FinitelyManyUsers, TotalOfZeros DEF NoCoins
<1>2. /\ coins \in [Users -> Int] /\ coins[c] = k /\ NoCoins[c] = 0
      /\ \A u \in Users \ {c} : coins[u] = NoCoins[u]
  BY DEF NoCoins
<1> HIDE DEF coins
<1>3. /\ gained \in [Users -> Int] /\ gained[v] = coins[v] + D[v]
      /\ \A u \in Users \ {v} : gained[u] = coins[u]
  BY <1>2
<1>4. DOMAIN gained = Users
  OBVIOUS
<1> HIDE DEF gained
<1>5. Total(coins, Users) = Total(NoCoins, Users) + (coins[c] - NoCoins[c])
  BY <1>1, <1>2, FinitelyManyUsers, TotalChanges
<1>6. Total(gained, Users) = Total(coins, Users) + (gained[v] - coins[v])
  <2>1. /\ gained \in [Users -> Int] /\ coins \in [Users -> Int]
        /\ \A u \in Users \ {v} : gained[u] = coins[u]
    BY <1>2, <1>3
  <2> QED
    BY ONLY v \in Users, <2>1, FinitelyManyUsers, TotalChanges
<1>7. Total(gained, Users) = k + D[v]
  <2>1. coins[v] \in Int /\ D[v] \in Int
    BY <1>2
  <2>2. Total(coins, Users) = k
    BY <1>1, <1>2, <1>5
  <2>3. gained[v] - coins[v] = D[v]
    BY <1>3, <2>1
  <2> QED
    BY <1>6, <2>2, <2>3
<1>8. SumFunction(gained) = Total(gained, Users)
  BY <1>3, <1>4, FinitelyManyUsers, SumIsTotal
<1> QED
  BY <1>7, <1>8 DEF gained, coins

(* A reserve that was s, settled at t, and in which only v's worth has     *)
(* moved, by k.                                                            *)
MovesWorth(s, n, t, v, k) ==
  /\ WellFormed(n, t) /\ n.lastUpdate = t /\ SameIndexes(s, n)
  /\ \A u \in Users \ {v} : n.aBalance[u] = s.aBalance[u] /\ n.dBalance[u] = s.dBalance[u]
  /\ WorthIn(n, v) - WorthIn(s, v) - k \in -Dust(s) .. Dust(s)

(* aTokens that were minted for x, or burned.                              *)
LEMMA TokensMoveWorth ==
  ASSUME NEW s, NEW n, NEW t \in Nat, WellFormed(s, t), WellFormed(n, t), n.lastUpdate = t,
         SameIndexes(s, n), NEW v \in Users, NEW x \in Nat, NEW scaled,
         scaled = RayDiv(x, s.liquidityIndex),
         n.dBalance = s.dBalance,
         \A u \in Users \ {v} : n.aBalance[u] = s.aBalance[u]
  PROVE  /\ n.aBalance[v] = s.aBalance[v] + scaled => MovesWorth(s, n, t, v, x)
         /\ n.aBalance[v] = s.aBalance[v] - scaled /\ scaled <= s.aBalance[v]
              => MovesWorth(s, n, t, v, -x)
<1> DEFINE i == s.liquidityIndex
           h == HalfUnit(i)
           before == RayMul(s.aBalance[v], i)
           after  == RayMul(n.aBalance[v], i)
           owed   == RayMul(s.dBalance[v], s.variableBorrowIndex)
<1>1. /\ i \in Nat \ {0} /\ s.aBalance[v] \in Nat
      /\ before \in Nat /\ owed \in Nat /\ after \in Nat
      /\ h \in Nat /\ Dust(s) \in Nat /\ h <= Dust(s)
  <2>1. RayMul(n.aBalance[v], n.liquidityIndex) \in Nat
    BY WorthIsInt
  <2> QED
    BY <2>1, WellFormedIndexes, WorthIsInt, DustCovers DEF SameIndexes
<1>2. WorthIn(s, v) = before - owed /\ WorthIn(n, v) = after - owed
  BY DEF WorthIn, SameIndexes
<1>3. ASSUME n.aBalance[v] = s.aBalance[v] + scaled
      PROVE  WorthIn(n, v) - WorthIn(s, v) - x \in -Dust(s) .. Dust(s)
  <2>1. after <= before + x + h /\ after >= before + x - h
    BY <1>1, <1>3, ScaledIsWorthAmount
  <2> HIDE DEF after, before, owed, h
  <2> QED
    BY <1>1, <1>2, <2>1
<1>4. ASSUME n.aBalance[v] = s.aBalance[v] - scaled, scaled <= s.aBalance[v]
      PROVE  WorthIn(n, v) - WorthIn(s, v) - (-x) \in -Dust(s) .. Dust(s)
  <2>1. after <= before - x + h /\ after >= before - x - h
    BY <1>1, <1>4, AmountIsWorthScaled
  <2> HIDE DEF after, before, owed, h
  <2> QED
    BY <1>1, <1>2, <2>1
<1> QED
  BY <1>3, <1>4 DEF MovesWorth

(* The same for debts. *)
LEMMA DebtsMoveWorth ==
  ASSUME NEW s, NEW n, NEW t \in Nat, WellFormed(s, t), WellFormed(n, t), n.lastUpdate = t,
         SameIndexes(s, n), NEW v \in Users, NEW x \in Nat, NEW scaled,
         scaled = RayDiv(x, s.variableBorrowIndex),
         n.aBalance = s.aBalance,
         \A u \in Users \ {v} : n.dBalance[u] = s.dBalance[u]
  PROVE  /\ n.dBalance[v] = s.dBalance[v] + scaled => MovesWorth(s, n, t, v, -x)
         /\ n.dBalance[v] = s.dBalance[v] - scaled /\ scaled <= s.dBalance[v]
              => MovesWorth(s, n, t, v, x)
<1> DEFINE i == s.variableBorrowIndex
           h == HalfUnit(i)
           before == RayMul(s.dBalance[v], i)
           after  == RayMul(n.dBalance[v], i)
           held   == RayMul(s.aBalance[v], s.liquidityIndex)
<1>1. /\ i \in Nat \ {0} /\ s.dBalance[v] \in Nat
      /\ before \in Nat /\ held \in Nat /\ after \in Nat
      /\ h \in Nat /\ Dust(s) \in Nat /\ h <= Dust(s)
  <2>1. RayMul(n.dBalance[v], n.variableBorrowIndex) \in Nat
    BY WorthIsInt
  <2> QED
    BY <2>1, WellFormedIndexes, WorthIsInt, DustCovers DEF SameIndexes
<1>2. WorthIn(s, v) = held - before /\ WorthIn(n, v) = held - after
  BY DEF WorthIn, SameIndexes
<1>3. ASSUME n.dBalance[v] = s.dBalance[v] + scaled
      PROVE  WorthIn(n, v) - WorthIn(s, v) - (-x) \in -Dust(s) .. Dust(s)
  <2>1. after <= before + x + h /\ after >= before + x - h
    BY <1>1, <1>3, ScaledIsWorthAmount
  <2> HIDE DEF after, before, held, h
  <2> QED
    BY <1>1, <1>2, <2>1
<1>4. ASSUME n.dBalance[v] = s.dBalance[v] - scaled, scaled <= s.dBalance[v]
      PROVE  WorthIn(n, v) - WorthIn(s, v) - x \in -Dust(s) .. Dust(s)
  <2>1. after <= before - x + h /\ after >= before - x - h
    BY <1>1, <1>4, AmountIsWorthScaled
  <2> HIDE DEF after, before, held, h
  <2> QED
    BY <1>1, <1>2, <2>1
<1> QED
  BY <1>3, <1>4 DEF MovesWorth

LEMMA DepositWorth ==
  ASSUME NEW r, NEW t \in Nat, WellFormed(r, t), NEW u \in Users, NEW x \in Nat,
         CanUpdateInterestRates(UpdateState(r, t), x, 0)
  PROVE  LET s == UpdateState(r, t)
         IN  MovesWorth(s, MintAToken(Receive(UpdateInterestRates(s, x, 0), x), u, x), t, u, x)
<1> DEFINE s == UpdateState(r, t)
           p == UpdateInterestRates(s, x, 0)
           c == Receive(p, x)
           n == MintAToken(c, u, x)
           scaled == RayDiv(x, s.liquidityIndex)
<1>1. WellFormed(s, t) /\ s.lastUpdate = t /\ u \in Accounts
  BY Settling DEF Accounts
<1> HIDE DEF s
<1>2. /\ WellFormed(p, t) /\ p.lastUpdate = t /\ SameIndexes(s, p)
      /\ p.aBalance = s.aBalance /\ p.dBalance = s.dBalance
  BY <1>1, UpdateInterestRatesSound, PricingKeepsBooks DEF s, SameIndexes, SamePositions
<1> HIDE DEF p
<1>3. /\ WellFormed(c, t) /\ c.lastUpdate = t /\ SameIndexes(s, c)
      /\ c.aBalance = s.aBalance /\ c.dBalance = s.dBalance
  BY <1>2, CashMoves, CashMovesGap DEF SameIndexes, SameDebts
<1> HIDE DEF c
<1>4. WellFormed(n, t) /\ SameIndexes(s, n) /\ n.dBalance = s.dBalance
  BY <1>1, <1>3, MintATokenSound DEF SameIndexes, SameDebts
<1>5. /\ n.lastUpdate = t
      /\ n.aBalance = [s.aBalance EXCEPT ![u] = s.aBalance[u] + scaled]
  BY <1>3 DEF MintAToken, WellFormed, Reserve, SameIndexes
<1> HIDE DEF n, scaled
<1>6. /\ n.aBalance[u] = s.aBalance[u] + scaled
      /\ \A v \in Users \ {u} : n.aBalance[v] = s.aBalance[v]
  BY <1>1, <1>5, ReserveFields DEF WellFormed, Accounts
<1>7. MovesWorth(s, n, t, u, x)
  BY <1>1, <1>4, <1>5, <1>6, TokensMoveWorth DEF scaled
<1> QED
  BY <1>7 DEF n, c, p, s

LEMMA BorrowWorth ==
  ASSUME NEW r, NEW t \in Nat, WellFormed(r, t), NEW u \in Users, NEW x \in Nat,
         CanUpdateInterestRates(MintDebt(UpdateState(r, t), u, x), 0, x)
  PROVE  LET s == UpdateState(r, t)
         IN  MovesWorth(s, Release(UpdateInterestRates(MintDebt(s, u, x), 0, x), x), t, u, -x)
<1> DEFINE s == UpdateState(r, t)
           d == MintDebt(s, u, x)
           p == UpdateInterestRates(d, 0, x)
           n == Release(p, x)
           scaled == RayDiv(x, s.variableBorrowIndex)
<1>1. WellFormed(s, t) /\ s.lastUpdate = t
  BY Settling
<1>0. CanUpdateInterestRates(d, 0, x)
  OBVIOUS
<1> HIDE DEF s
<1>2. WellFormed(d, t) /\ SameIndexes(s, d) /\ d.aBalance = s.aBalance
  BY <1>1, MintDebtSound
<1>3. /\ d.lastUpdate = t
      /\ d.dBalance = [s.dBalance EXCEPT ![u] = s.dBalance[u] + scaled]
  BY <1>1 DEF MintDebt, WellFormed, Reserve
<1> HIDE DEF d, scaled
<1>4. /\ WellFormed(p, t) /\ p.lastUpdate = t /\ SameIndexes(s, p)
      /\ p.aBalance = s.aBalance /\ p.dBalance = d.dBalance
  BY <1>0, <1>2, <1>3, UpdateInterestRatesSound, PricingKeepsBooks DEF SameIndexes, SamePositions
<1>5. x <= p.cash
  <2>1. x <= d.cash + 0 /\ d.cash \in Nat
    BY <1>0, <1>2, ReserveFields DEF CanUpdateInterestRates, WellFormed
  <2>2. p.cash = d.cash
    BY <1>0, <1>2, UpdateInterestRatesSound DEF SamePositions
  <2> QED
    BY <2>1, <2>2
<1> HIDE DEF p
<1>6. /\ WellFormed(n, t) /\ SameIndexes(s, n)
      /\ n.aBalance = s.aBalance /\ n.dBalance = d.dBalance
  BY <1>4, <1>5, CashMoves DEF SameIndexes, SameDebts
<1>7. n.lastUpdate = t
  BY <1>4 DEF Release, WellFormed, Reserve
<1> HIDE DEF n
<1>8. /\ n.dBalance[u] = s.dBalance[u] + scaled
      /\ \A v \in Users \ {u} : n.dBalance[v] = s.dBalance[v]
  BY <1>1, <1>3, <1>6, ReserveFields DEF WellFormed
<1>9. MovesWorth(s, n, t, u, -x)
  BY <1>1, <1>6, <1>7, <1>8, DebtsMoveWorth DEF scaled
<1> QED
  BY <1>9 DEF n, p, d, s

LEMMA RepayWorth ==
  ASSUME NEW r, NEW t \in Nat, WellFormed(r, t), NEW u \in Users, NEW x \in Nat,
         CanBurnDebt(UpdateState(r, t), u, x),
         CanUpdateInterestRates(BurnDebt(UpdateState(r, t), u, x), x, 0)
  PROVE  LET s == UpdateState(r, t)
         IN  MovesWorth(s, Receive(UpdateInterestRates(BurnDebt(s, u, x), x, 0), x), t, u, x)
<1> DEFINE s == UpdateState(r, t)
           d == BurnDebt(s, u, x)
           p == UpdateInterestRates(d, x, 0)
           n == Receive(p, x)
           scaled == RayDiv(x, s.variableBorrowIndex)
<1>1. WellFormed(s, t) /\ s.lastUpdate = t
  BY Settling
<1>0. CanUpdateInterestRates(d, x, 0) /\ CanBurnDebt(s, u, x)
  OBVIOUS
<1> HIDE DEF s
<1>2. WellFormed(d, t) /\ SameIndexes(s, d) /\ d.aBalance = s.aBalance
  BY <1>0, <1>1, BurnDebtSound
<1>3. /\ d.lastUpdate = t
      /\ d.dBalance = [s.dBalance EXCEPT ![u] = s.dBalance[u] - scaled]
  BY <1>1 DEF BurnDebt, WellFormed, Reserve
<1> HIDE DEF d, scaled
<1>4. /\ WellFormed(p, t) /\ p.lastUpdate = t /\ SameIndexes(s, p)
      /\ p.aBalance = s.aBalance /\ p.dBalance = d.dBalance
  BY <1>0, <1>2, <1>3, UpdateInterestRatesSound, PricingKeepsBooks DEF SameIndexes, SamePositions
<1> HIDE DEF p
<1>5. /\ WellFormed(n, t) /\ n.lastUpdate = t /\ SameIndexes(s, n)
      /\ n.aBalance = s.aBalance /\ n.dBalance = d.dBalance
  BY <1>4, CashMoves, CashMovesGap DEF SameIndexes, SameDebts
<1> HIDE DEF n
<1>6. /\ n.dBalance[u] = s.dBalance[u] - scaled
      /\ \A v \in Users \ {u} : n.dBalance[v] = s.dBalance[v]
  BY <1>1, <1>3, <1>5, ReserveFields DEF WellFormed
<1>7. scaled <= s.dBalance[u]
  <2>1. scaled \in 1 .. s.dBalance[u] /\ s.dBalance[u] \in Nat
    BY <1>0, <1>1, ReserveFields DEF CanBurnDebt, WellFormed, scaled
  <2> QED
    BY <2>1
<1>8. MovesWorth(s, n, t, u, x)
  BY <1>1, <1>5, <1>6, <1>7, DebtsMoveWorth DEF scaled
<1> QED
  BY <1>8 DEF n, p, d, s

(* Both halves of a withdrawal move the worth of whose aTokens came.       *)
LEMMA WithdrawalWorth ==
  ASSUME NEW r, NEW t \in Nat, WellFormed(r, t), NEW from \in Users, NEW to \in Users,
         from # to, NEW x \in Nat, CanTransferAToken(r, from, x, t),
         NEW z, z = UpdateState(TransferAToken(r, from, to, x, t), t),
         CanUpdateInterestRates(z, 0, x), CanBurnAToken(UpdateInterestRates(z, 0, x), to, x)
  PROVE  LET s == UpdateState(r, t)
         IN  /\ MovesWorth(s, BurnAToken(UpdateInterestRates(z, 0, x), to, x), t, from, -x)
             /\ Dust(z) = Dust(s)
<1> DEFINE s == UpdateState(r, t)
           p == UpdateInterestRates(z, 0, x)
           n == BurnAToken(p, to, x)
           scaled == RayDiv(x, s.liquidityIndex)
<1>1. WellFormed(s, t) /\ from \in Accounts /\ to \in Accounts
  BY Settling DEF Accounts
<1>2. /\ WellFormed(z, t) /\ SameIndexes(s, z) /\ z.dBalance = s.dBalance
      /\ scaled \in Nat /\ scaled <= s.aBalance[from]
      /\ z.aBalance[from] = s.aBalance[from] - scaled
      /\ z.aBalance[to] = s.aBalance[to] + scaled
      /\ \A v \in Accounts \ {from, to} : z.aBalance[v] = s.aBalance[v]
  BY <1>1, TransferSettles
<1>3. z.lastUpdate = t
  BY TransferATokenSound, UpdateStateSound, <1>1
<1> HIDE DEF s
<1>4. /\ WellFormed(p, t) /\ p.lastUpdate = t /\ SameIndexes(s, p)
      /\ p.aBalance = z.aBalance /\ p.dBalance = s.dBalance
  BY <1>2, <1>3, UpdateInterestRatesSound, PricingKeepsBooks DEF SameIndexes, SamePositions
<1>5. CanBurnAToken(p, to, x)
  OBVIOUS
<1> HIDE DEF p
<1>6. WellFormed(n, t) /\ SameIndexes(s, n) /\ n.dBalance = s.dBalance
  BY <1>1, <1>4, <1>5, BurnATokenSound DEF SameIndexes, SameDebts
<1>7. /\ n.lastUpdate = t
      /\ n.aBalance = [z.aBalance EXCEPT ![to] = z.aBalance[to] - scaled]
  BY <1>4 DEF BurnAToken, WellFormed, Reserve, SameIndexes
<1> HIDE DEF n, scaled
<1>8. z.aBalance \in [Accounts -> Nat] /\ s.aBalance[to] \in Nat
  BY <1>1, <1>2, ReserveFields DEF WellFormed
<1>9. n.aBalance[from] = s.aBalance[from] - scaled
  BY <1>1, <1>2, <1>7, <1>8
<1>10. n.aBalance[to] = s.aBalance[to]
  BY <1>1, <1>2, <1>7, <1>8
<1>11. \A v \in Users \ {from} : n.aBalance[v] = s.aBalance[v]
  BY <1>2, <1>7, <1>8, <1>10 DEF Accounts
<1>12. MovesWorth(s, n, t, from, -x)
  BY <1>1, <1>2, <1>6, <1>7, <1>9, <1>11, TokensMoveWorth DEF scaled
<1>13. Dust(z) = Dust(s)
  BY <1>2 DEF Dust, SameIndexes
<1> QED
  BY <1>12, <1>13 DEF n, p, s

(* Between the two calls of a withdrawal the reserve is as the transfer    *)
(* left it, and what a revert restores is what the transfer found.         *)
Handed ==
  LET r == saved.reserves[Wrapped]
      x == withdrawal.amount
  IN  ~Idle =>
        /\ withdrawal.to \in Callers
        /\ CanTransferAToken(r, withdrawal.caller, x, now)
        /\ reserves[Wrapped] = TransferAToken(r, withdrawal.caller, Gateway, x, now)

AtPar ==
  Idle' /\ native' # NoCoins =>
    LET gained == [u \in Users |-> native'[u] + Worth(reserves[Wrapped], u)'
                                    - Worth(ReservesBefore[Wrapped], u)]
        change == SumFunction(gained) + wrapped' - wrapped
    IN  change \in -RoundingDust(Wrapped) .. RoundingDust(Wrapped)

(* A step that moves the worth of one account, and pays with coins.        *)
LEMMA MovedAtPar ==
  ASSUME GatewayInv, wrapped' \in Nat, now' = now,
         NEW c \in Users, NEW v \in Users, NEW k \in Int, NEW x \in Int,
         native' = [NoCoins EXCEPT ![c] = k], k + x + wrapped' - wrapped = 0,
         NEW r, r = ReservesBefore[Wrapped], WellFormed(r, now),
         MovesWorth(UpdateState(r, now), reserves'[Wrapped], now, v, x),
         RoundingDust(Wrapped) = Dust(UpdateState(r, now))
  PROVE  AtPar
<1> DEFINE s == UpdateState(r, now)
           n == reserves'[Wrapped]
           D == [u \in Users |-> WorthIn(n, u) - WorthIn(s, u)]
           gained == [u \in Users |-> native'[u] + Worth(reserves[Wrapped], u)'
                                       - Worth(ReservesBefore[Wrapped], u)]
           total == SumFunction(gained)
<1>1. now \in Nat /\ wrapped \in Nat
  BY DEF GatewayInv, Inv, TypeOK
<1>2. WellFormed(s, now) /\ Dust(s) \in Nat
  BY <1>1, Settling, DustCovers
<1>3. /\ WellFormed(n, now) /\ n.lastUpdate = now
      /\ \A u \in Users \ {v} : n.aBalance[u] = s.aBalance[u] /\ n.dBalance[u] = s.dBalance[u]
      /\ SameIndexes(s, n)
      /\ WorthIn(n, v) - WorthIn(s, v) - x \in -Dust(s) .. Dust(s)
  BY DEF MovesWorth
<1>4. \A u \in Users : Worth(ReservesBefore[Wrapped], u) = WorthIn(s, u)
  BY <1>1, WorthWhenSettled DEF Worth
<1>5. \A u \in Users : Worth(reserves[Wrapped], u)' = WorthIn(n, u)
  <2>1. UpdateState(n, now) = n
    BY <1>1, <1>3, SettledIsStable
  <2>2. \A u \in Users :
          BalanceOf(UpdateState(n, now), u, now) - DebtOf(UpdateState(n, now), u, now)
            = WorthIn(UpdateState(n, now), u)
    BY <1>1, <1>3, WorthWhenSettled
  <2>3. \A u \in Users :
          Worth(reserves[Wrapped], u)'
            = BalanceOf(UpdateState(n, now), u, now) - DebtOf(UpdateState(n, now), u, now)
    BY DEF Worth
  <2> QED
    BY <2>1, <2>2, <2>3
<1> HIDE DEF s, n
<1>6. \A u \in Users : WorthIn(n, u) \in Int /\ WorthIn(s, u) \in Int
  BY <1>2, <1>3, WorthIsInt
<1>7. \A u \in Users \ {v} : WorthIn(n, u) = WorthIn(s, u)
  BY <1>3 DEF WorthIn, SameIndexes
<1>8. /\ D \in [Users -> Int] /\ D[v] = WorthIn(n, v) - WorthIn(s, v)
      /\ \A u \in Users \ {v} : D[u] = 0
  BY <1>6, <1>7
<1>9. gained = [u \in Users |-> [NoCoins EXCEPT ![c] = k][u] + D[u]]
  <2>1. \A u \in Users : native'[u] \in Int /\ native'[u] = [NoCoins EXCEPT ![c] = k][u]
    BY DEF NoCoins
  <2>2. \A u \in Users :
          native'[u] + Worth(reserves[Wrapped], u)' - Worth(ReservesBefore[Wrapped], u)
            = [NoCoins EXCEPT ![c] = k][u] + D[u]
    BY <1>4, <1>5, <1>6, <2>1
  <2> QED
    BY <2>2
<1> HIDE DEF D, gained
<1>10. total = k + D[v]
  BY <1>8, <1>9, GainsAddUp
<1> HIDE DEF total
<1>11. total + wrapped' - wrapped \in -Dust(s) .. Dust(s)
  <2>1. D[v] \in Int /\ D[v] - x \in -Dust(s) .. Dust(s)
    BY <1>3, <1>6, <1>8
  <2> DEFINE g == D[v]
             d == wrapped' - wrapped
  <2>2. d \in Int /\ k + x + d = 0 /\ total + wrapped' - wrapped = total + d
    <3>1. d \in Int
      BY <1>1
    <3>2. k + x + d = 0
      OBVIOUS
    <3>3. total + wrapped' - wrapped = total + d
      OBVIOUS
    <3> QED
      BY <3>1, <3>2, <3>3
  <2>3. total = k + g /\ g \in Int
    BY <1>10, <2>1
  <2> HIDE DEF g, d
  <2>4. total + d = g - x
    BY <2>2, <2>3
  <2> QED
    BY <2>1, <2>2, <2>4 DEF g
<1>12. total + wrapped' - wrapped \in -RoundingDust(Wrapped) .. RoundingDust(Wrapped)
  BY <1>11 DEF s
<1> QED
  BY <1>12 DEF AtPar, total, gained

-----------------------------------------------------------------------------
(* The calls that pay, or are paid.  Those of one step first. *)

LEMMA StandsBefore ==
  ASSUME GatewayInv, Idle
  PROVE  /\ reserves[Wrapped] = ReservesBefore[Wrapped]
         /\ WellFormed(reserves[Wrapped], now) /\ now \in Nat
         /\ RoundingDust(Wrapped) = Dust(UpdateState(reserves[Wrapped], now))
         /\ wrapped \in Nat /\ DOMAIN reserves = Assets /\ Wrapped \in Assets
<1>1. AsBooked
  BY DeficitIsGap DEF GatewayInv
<1> QED
  BY <1>1, GatewayConstants DEF GatewayInv, Inv, TypeOK, AllWellFormed, AsBooked, Settled,
     ReservesBefore

LEMMA DepositNativeAtPar ==
  ASSUME GatewayInv, NEW caller \in Callers, NEW x \in Amounts, NEW u \in Users,
         depositNative(caller, x, u)
  PROVE  AtPar
<1> DEFINE r == reserves[Wrapped]
           s == UpdateState(r, now)
           n == MintAToken(Receive(UpdateInterestRates(s, x, 0), x), u, x)
<1>1. /\ Idle /\ Deposit(Wrapped, x, u)
      /\ native' = [NoCoins EXCEPT ![caller] = -x] /\ wrapped' = wrapped
  BY DEF depositNative, Pays
<1>2. /\ r = ReservesBefore[Wrapped] /\ WellFormed(r, now) /\ now \in Nat
      /\ RoundingDust(Wrapped) = Dust(s)
      /\ wrapped \in Nat /\ DOMAIN reserves = Assets /\ Wrapped \in Assets
  BY <1>1, StandsBefore
<1>3. x \in Nat /\ caller \in Users
  BY AmountTypes DEF Callers
<1>4. /\ CanUpdateInterestRates(s, x, 0) /\ now' = now
      /\ reserves' = [reserves EXCEPT ![Wrapped] = n]
  BY <1>1 DEF Deposit
<1>5. MovesWorth(s, n, now, u, x)
  BY <1>2, <1>3, <1>4, DepositWorth
<1>6. reserves'[Wrapped] = n
  BY <1>2, <1>4
<1> HIDE DEF n, s
<1>7. -x + x + wrapped' - wrapped = 0 /\ -x \in Int /\ x \in Int
  BY <1>1, <1>2, <1>3
<1> QED
  BY <1>1, <1>2, <1>3, <1>4, <1>5, <1>6, <1>7, MovedAtPar DEF s

LEMMA BorrowNativeAtPar ==
  ASSUME GatewayInv, NEW caller \in Callers, NEW x \in Amounts, borrowNative(caller, x)
  PROVE  AtPar
<1> DEFINE r == reserves[Wrapped]
           s == UpdateState(r, now)
           d == MintDebt(s, caller, x)
           n == Release(UpdateInterestRates(d, 0, x), x)
<1>1. /\ Idle /\ Borrow(Gateway, Wrapped, caller, x)
      /\ native' = [NoCoins EXCEPT ![caller] = x] /\ wrapped' = wrapped
  BY DEF borrowNative, Gets
<1>2. /\ r = ReservesBefore[Wrapped] /\ WellFormed(r, now) /\ now \in Nat
      /\ RoundingDust(Wrapped) = Dust(s)
      /\ wrapped \in Nat /\ DOMAIN reserves = Assets /\ Wrapped \in Assets
  BY <1>1, StandsBefore
<1>3. x \in Nat /\ caller \in Users
  BY AmountTypes DEF Callers
<1>4. /\ CanUpdateInterestRates(d, 0, x) /\ now' = now
      /\ reserves' = [reserves EXCEPT ![Wrapped] = n]
  BY <1>1 DEF Borrow, ExecuteBorrow
<1>5. MovesWorth(s, n, now, caller, -x)
  BY <1>2, <1>3, <1>4, BorrowWorth
<1>6. reserves'[Wrapped] = n
  BY <1>2, <1>4
<1> HIDE DEF n, s
<1>7. x + (-x) + wrapped' - wrapped = 0 /\ -x \in Int /\ x \in Int
  BY <1>1, <1>2, <1>3
<1> QED
  BY <1>1, <1>2, <1>3, <1>4, <1>5, <1>6, <1>7, MovedAtPar DEF s

(* What is not pulled is kept by the gateway: the caller pays the payback. *)
LEMMA RepayNativeAtPar ==
  ASSUME GatewayInv, NEW caller \in Callers, NEW u \in Users,
         NEW x \in Amounts \cup {MAX_UINT}, NEW value \in Amounts,
         repayNative(caller, x, value, u)
  PROVE  AtPar
<1> DEFINE r       == reserves[Wrapped]
           s       == UpdateState(r, now)
           debt    == DebtOf(r, u, now)
           payback == paybackAmount(u, x)
           request == repayRequest(payback, value)
           taken   == pulled(u, request)
           d       == BurnDebt(s, u, taken)
           n       == Receive(UpdateInterestRates(d, taken, 0), taken)
<1>1. /\ Idle /\ Repay(Gateway, Wrapped, u, request)
      /\ native' = [NoCoins EXCEPT ![caller] = -payback]
      /\ taken <= wrapped + payback
      /\ wrapped' = wrapped + payback - taken
  BY DEF repayNative, Pays
<1>2. /\ r = ReservesBefore[Wrapped] /\ WellFormed(r, now) /\ now \in Nat
      /\ RoundingDust(Wrapped) = Dust(s)
      /\ wrapped \in Nat /\ DOMAIN reserves = Assets /\ Wrapped \in Assets
  BY <1>1, StandsBefore
<1>3. x \in Nat /\ value \in Nat /\ caller \in Users
  BY AmountTypes DEF Callers
<1>4. debt \in Nat
  BY <1>2, DebtScalesBack
<1>5. taken = IF request < debt THEN request ELSE debt
  BY DEF pulled
<1>6. /\ CanBurnDebt(s, u, taken) /\ CanUpdateInterestRates(d, taken, 0) /\ now' = now
      /\ reserves' = [reserves EXCEPT ![Wrapped] = n]
  BY <1>1 DEF Repay, pulled
<1>7. payback \in Nat /\ taken \in Nat
  <2>1. payback = IF x < debt THEN x ELSE debt
    BY DEF paybackAmount
  <2>2. request = IF Kind = "WETH" THEN value ELSE payback
    BY DEF repayRequest
  <2> HIDE DEF payback, request, taken, debt
  <2> QED
    BY <1>3, <1>4, <1>5, <2>1, <2>2
<1> HIDE DEF payback, request, taken, debt
<1>8. MovesWorth(s, n, now, u, taken)
  BY <1>2, <1>6, <1>7, RepayWorth
<1>9. reserves'[Wrapped] = n
  BY <1>2, <1>6
<1> HIDE DEF n, s
<1>10. /\ -payback + taken + wrapped' - wrapped = 0 /\ -payback \in Int /\ taken \in Int
       /\ wrapped' \in Nat
  BY <1>1, <1>2, <1>7
<1> QED
  BY <1>1, <1>2, <1>3, <1>6, <1>8, <1>9, <1>10, MovedAtPar DEF s

LEMMA WithdrawFromPoolAtPar ==
  ASSUME GatewayInv, Handed, withdrawal.amount # MAX_UINT, withdrawFromPool
  PROVE  AtPar
<1> DEFINE r    == saved.reserves[Wrapped]
           from == withdrawal.caller
           x    == withdrawal.amount
           m    == TransferAToken(r, from, Gateway, x, now)
           z    == UpdateState(m, now)
           p    == UpdateInterestRates(z, 0, x)
           n    == BurnAToken(p, Gateway, x)
<1>1. /\ ~Idle /\ SavedSound /\ Passing /\ Inv /\ wrapped \in Nat
      /\ Withdraw(Gateway, Wrapped, x)
      /\ native' = [NoCoins EXCEPT ![withdrawal.to] = x] /\ wrapped' = wrapped
  BY DEF withdrawFromPool, GatewayInv, Gets
<1>2. /\ withdrawal.to \in Callers /\ CanTransferAToken(r, from, x, now)
      /\ reserves[Wrapped] = m
  BY <1>1 DEF Handed
<1>3. /\ from \in Users /\ from # Gateway /\ Gateway \in Users /\ x \in Nat
      /\ withdrawal.to \in Users /\ Wrapped \in Assets /\ now \in Nat
      /\ DOMAIN reserves = Assets
  BY <1>1, <1>2, GatewayConstants DEF Passing, Callers, Inv, TypeOK, AllWellFormed
<1>4. r = ReservesBefore[Wrapped] /\ WellFormed(r, now)
  BY <1>1, <1>3 DEF ReservesBefore, SavedSound, AllWellFormed
<1> HIDE DEF r, from, x
<1>5. /\ CanUpdateInterestRates(z, 0, x) /\ CanBurnAToken(p, Gateway, x) /\ now' = now
      /\ reserves' = [reserves EXCEPT ![Wrapped] = n]
  BY <1>1, <1>2 DEF Withdraw, x
<1>6. MovesWorth(UpdateState(r, now), n, now, from, -x) /\ Dust(z) = Dust(UpdateState(r, now))
  BY <1>2, <1>3, <1>4, <1>5, WithdrawalWorth
<1>7. reserves'[Wrapped] = n
  BY <1>3, <1>5
<1>8. RoundingDust(Wrapped) = Dust(z)
  <2>1. AsBooked
    BY <1>1, DeficitIsGap
  <2> QED
    BY <1>2, <1>3, <2>1 DEF AsBooked, Settled
<1> HIDE DEF n, z
<1>9. x + (-x) + wrapped' - wrapped = 0 /\ -x \in Int /\ x \in Int /\ wrapped' \in Nat
  BY <1>1, <1>3
<1>10. native' = [NoCoins EXCEPT ![withdrawal.to] = x]
  BY <1>1 DEF x
<1> QED
  BY <1>3, <1>4, <1>5, <1>6, <1>7, <1>8, <1>9, <1>10, MovedAtPar

(* Every other step brings nobody coins.                                   *)
LEMMA EveryStepAtPar ==
  ASSUME GatewayInv, Handed, withdrawal.amount # MAX_UINT, GatewayNext
  PROVE  AtPar
<1>1. CASE GatewayCall
  <2>1. ASSUME withdrawFromPool PROVE AtPar
    BY <2>1, WithdrawFromPoolAtPar
  <2>2. ASSUME revertWithdrawal PROVE AtPar
    BY <2>2 DEF revertWithdrawal, NoNative, AtPar
  <2>3. ASSUME NEW caller \in Callers, NEW to \in Callers, NEW x \in Amounts \cup {MAX_UINT},
               withdrawNative(caller, x, to)
        PROVE  AtPar
    BY <2>3 DEF withdrawNative, NoNative, AtPar
  <2> QED
    BY <1>1, <2>1, <2>2, <2>3, DepositNativeAtPar, RepayNativeAtPar, BorrowNativeAtPar
       DEF GatewayCall
<1>2. ASSUME NoNative PROVE AtPar
  BY <1>2 DEF NoNative, AtPar
<1>3. authorizeLendingPool => NoNative
  BY DEF authorizeLendingPool
<1>4. \A u \in Callers, x \in AllowanceAmounts : approveGateway(u, x) => NoNative
  BY DEF approveGateway
<1>5. \A x \in Amounts : sendWrapped(x) => NoNative
  BY DEF sendWrapped
<1>6. recoverWrapped => NoNative
  BY DEF recoverWrapped
<1>7. \A to \in Callers : recoverATokens(to) => NoNative
  BY DEF recoverATokens
<1>8. PoolStep => NoNative
  BY DEF PoolStep
<1> QED
  BY <1>1, <1>2, <1>3, <1>4, <1>5, <1>6, <1>7, <1>8 DEF GatewayNext

(* Only the first half of a withdrawal leaves one under way.               *)
LEMMA StepHanded ==
  ASSUME GatewayInv, Handed, [GatewayNext]_gatewayVars
  PROVE  Handed'
<1>1. ASSUME NEW caller \in Callers, NEW to \in Callers, NEW x \in Amounts \cup {MAX_UINT},
             withdrawNative(caller, x, to)
      PROVE  Handed'
  <2> DEFINE r     == reserves[Wrapped]
             taken == IF x = MAX_UINT THEN BalanceOf(r, caller, now) ELSE x
             n     == TransferAToken(r, caller, Gateway, taken, now)
  <2>1. /\ Transfer(caller, Gateway, Wrapped, taken)
        /\ withdrawal' = [caller |-> caller, whole |-> x = MAX_UINT, amount |-> taken, to |-> to]
        /\ saved' = [reserves |-> reserves, usersConfig |-> usersConfig,
                     aAllowance |-> aAllowance]
    BY <1>1 DEF withdrawNative
  <2> HIDE DEF taken
  <2>2. /\ CanTransferAToken(r, caller, taken, now) /\ now' = now
        /\ reserves' = [reserves EXCEPT ![Wrapped] = n]
    BY <2>1 DEF Transfer
  <2>3. reserves'[Wrapped] = n
    BY <2>2, GatewayConstants DEF GatewayInv, Inv, TypeOK, AllWellFormed
  <2>4. /\ withdrawal'.caller = caller /\ withdrawal'.amount = taken /\ withdrawal'.to = to
        /\ saved'.reserves[Wrapped] = r
    BY <2>1
  <2> QED
    BY <2>2, <2>3, <2>4 DEF Handed
<1>2. ASSUME Idle' PROVE Handed'
  BY <1>2 DEF Handed, Idle
<1>3. CASE UNCHANGED gatewayVars
  BY <1>3 DEF gatewayVars, vars, Handed, Idle
<1>4. ASSUME Idle, withdrawal' = withdrawal PROVE Handed'
  BY <1>2, <1>4 DEF Idle
<1>5. authorizeLendingPool => Idle /\ withdrawal' = withdrawal
  BY DEF authorizeLendingPool
<1>6. \A u \in Callers, x \in AllowanceAmounts :
        approveGateway(u, x) => Idle /\ withdrawal' = withdrawal
  BY DEF approveGateway
<1>7. \A x \in Amounts : sendWrapped(x) => Idle /\ withdrawal' = withdrawal
  BY DEF sendWrapped
<1>8. recoverWrapped => Idle /\ withdrawal' = withdrawal
  BY DEF recoverWrapped
<1>9. \A to \in Callers : recoverATokens(to) => Idle /\ withdrawal' = withdrawal
  BY DEF recoverATokens
<1>10. PoolStep => Idle /\ withdrawal' = withdrawal
  BY DEF PoolStep
<1>11. CASE GatewayCall
  <2>1. \A caller \in Callers, x \in Amounts, u \in Users :
          depositNative(caller, x, u) => Idle /\ withdrawal' = withdrawal
    BY DEF depositNative
  <2>2. \A caller \in Callers, u \in Users, x \in Amounts \cup {MAX_UINT}, value \in Amounts :
          repayNative(caller, x, value, u) => Idle /\ withdrawal' = withdrawal
    BY DEF repayNative
  <2>3. \A caller \in Callers, x \in Amounts :
          borrowNative(caller, x) => Idle /\ withdrawal' = withdrawal
    BY DEF borrowNative
  <2>4. withdrawFromPool \/ revertWithdrawal => Idle'
    BY DEF withdrawFromPool, revertWithdrawal, Idle
  <2> QED
    BY <1>1, <1>2, <1>4, <1>11, <2>1, <2>2, <2>3, <2>4 DEF GatewayCall
<1> QED
  BY <1>3, <1>4, <1>5, <1>6, <1>7, <1>8, <1>9, <1>10, <1>11 DEF GatewayNext

(* Coins and positions pass through either gateway at par: a deposit, a    *)
(* loan, a repayment with its refund, and a withdrawal as a whole move in  *)
(* the settled positions of all users, and in what the gateway keeps, what *)
(* they move in coins, to within the rounding of one operation; a reverted *)
(* withdrawal moves nothing.  The inductive invariant adds that between    *)
(* the two calls the reserve is the saved one after the transfer.  No      *)
(* account has 2^256 - 1 aTokens, as above.                                *)
THEOREM CoinsPassAtPar == GatewaySpec /\ []BalancesFit => NativeAtPar
<1> DEFINE Fits == withdrawal.amount # MAX_UINT
<1>1. GatewayInit => Fits /\ Handed
  BY GatewayInitSound DEF GatewayInit, Handed, Idle
<1>2. GatewayInv /\ BalancesFit /\ Fits /\ [GatewayNext]_gatewayVars => Fits'
  BY EveryGatewayStep DEF GatewayKept
<1>3. GatewayInv /\ Handed /\ [GatewayNext]_gatewayVars => Handed'
  BY StepHanded
<1>4. GatewayInv /\ Handed /\ Fits /\ [GatewayNext]_gatewayVars => [AtPar]_gatewayVars
  BY EveryStepAtPar
<1> QED
  BY <1>1, <1>2, <1>3, <1>4, GatewayInvariance, PTL DEF GatewaySpec, NativeAtPar, AtPar
=============================================================================
