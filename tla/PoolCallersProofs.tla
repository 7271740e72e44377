------------------------- MODULE PoolCallersProofs --------------------------
(***************************************************************************)
(* The pool with those who call it from outside a user's own account.      *)
(*                                                                         *)
(* First flash loans: what holds of the pool although a loan is not one    *)
(* step, whatever its receiver calls back, whatever it leaves unpaid, for  *)
(* any loans and any premium.  Then the administrators: what they cannot   *)
(* do to the positions of a live pool, and what nobody can do to a frozen  *)
(* reserve, for any parameters they set.                                   *)
(***************************************************************************)
EXTENDS FlashLoan, LendingPoolConfigurator, LendingPoolProofs

(* The storage a revert puts back is as good as any the pool can have.     *)
SavedSound ==
  /\ saved = [reserves |-> saved.reserves, usersConfig |-> saved.usersConfig,
              borrowAllowance |-> saved.borrowAllowance]
  /\ AllWellFormed(saved.reserves, now)
  /\ saved.usersConfig \in [Users -> UserConfiguration]
  /\ saved.borrowAllowance \in [Assets -> [Users -> [Users -> Nat]]]
  /\ \A u \in Users, a \in Assets :
       saved.reserves[a].dBalance[u] > 0 => a \in saved.usersConfig[u].borrowing

OpenLoan == [phase : {"callback", "settle"}, caller : Users, onBehalfOf : Users,
             left : Seq(Loan) \ {<<>>}]

FlashInv ==
  /\ Inv
  /\ flash # NoFlashLoan => flash \in OpenLoan /\ SavedSound

(* The books balance, those a revert puts back too. *)
FlashBooks ==
  /\ BooksBalance
  /\ flash # NoFlashLoan => \A a \in Assets : Balanced(saved.reserves[a])

(* A reserve is priced unless some of it is still lent.                    *)
LoanLeft(a) == flash # NoFlashLoan /\ \E i \in DOMAIN flash.left : flash.left[i].asset = a

FlashRates ==
  /\ \A a \in Assets : LoanLeft(a) \/ PricedIfHeld(reserves[a])
  /\ flash # NoFlashLoan => \A a \in Assets : PricedIfHeld(saved.reserves[a])

FlashKept ==
  /\ FlashInv'
  /\ FlashBooks => FlashBooks'
  /\ FlashRates /\ [~SelfLiquidation]_vars => FlashRates'

-----------------------------------------------------------------------------
(* What is lent of an asset is an amount, and none where nothing is asked. *)
LEMMA LentIsNat ==
  ASSUME NEW loans \in Seq(Loan), NEW a
  PROVE  /\ LentOf(loans, a) \in Nat
         /\ (\A i \in DOMAIN loans : loans[i].asset # a) => LentOf(loans, a) = 0
<1> DEFINE amounts == [i \in DOMAIN loans |-> loans[i].amount]
           S == {i \in DOMAIN loans : loans[i].asset = a}
<1>1. LentOf(loans, a) = Total(amounts, S)
  BY DEF LentOf, SumFunctionOnSet, FoldFunctionOnSet, Total, MapThenSumSet
<1>2. IsFiniteSet(S)
  <2>1. IsFiniteSet(1 .. Len(loans)) /\ S \in SUBSET (1 .. Len(loans))
    BY FS_Interval
  <2> HIDE DEF S
  <2> QED
    BY <2>1, FS_Subset
<1>3. \A i \in S : amounts[i] \in Nat
  <2>1. \A i \in DOMAIN loans : loans[i] \in Loan
    OBVIOUS
  <2>2. \A l \in Loan : l.amount \in Nat
    BY DEF Loan
  <2> QED
    BY <2>1, <2>2
<1>4. (\A i \in DOMAIN loans : loans[i].asset # a) => \A i \in S : amounts[i] = 0
  OBVIOUS
<1> HIDE DEF amounts, S
<1> QED
  BY <1>1, <1>2, <1>3, <1>4, TotalBounds, TotalOfZeros

(* A sum along other indexes. *)
LEMMA TotalShifts ==
  ASSUME NEW S \in SUBSET Nat, IsFiniteSet(S), NEW U, IsFiniteSet(U),
         NEW f, NEW g, \A i \in S : i + 1 \in U /\ g[i] \in Nat /\ f[i + 1] = g[i]
  PROVE  Total(f, {i + 1 : i \in S}) = Total(g, S)
<1> DEFINE up(s) == {i + 1 : i \in s}
           P == {s \in SUBSET S : Total(f, up(s)) = Total(g, s)}
<1>1. up({}) = {}
  OBVIOUS
<1>2. {} \in P
  BY <1>1, TotalOfNone
<1>3. ASSUME NEW s \in SUBSET S, s # {}, s \ {First(s)} \in P
      PROVE  s \in P
  <2> DEFINE z == First(s)
             t == s \ {z}
  <2>1. z \in s
    BY <1>3, FirstIsMember
  <2>2. Total(f, up(t)) = Total(g, t)
    BY <1>3
  <2> HIDE DEF z, P
  <2>3. z \in Nat /\ f[z + 1] = g[z] /\ s \subseteq Nat
    BY <2>1
  <2>4. up(s) \ {z + 1} = up(t) /\ z + 1 \in up(s)
    BY <2>1, <2>3
  <2>5. up(s) \in SUBSET U /\ \A k \in up(s) : f[k] \in Nat
    OBVIOUS
  <2> HIDE DEF up
  <2>6. Total(f, up(s)) = f[z + 1] + Total(f, up(t))
    <3>1. IsFiniteSet(up(s))
      BY <2>5, FS_Subset
    <3>2. Total(f, up(s)) = f[z + 1] + Total(f, up(s) \ {z + 1})
      BY <2>4, <2>5, <3>1, TotalWithout
    <3> QED
      BY <2>4, <3>2
  <2>7. Total(g, s) = g[z] + Total(g, t)
    <3>1. IsFiniteSet(s) /\ \A i \in s : g[i] \in Nat
      BY FS_Subset
    <3> QED
      BY <2>1, <3>1, TotalWithout
  <2> QED
    BY <2>2, <2>3, <2>6, <2>7 DEF P
<1>4. SUBSET S \subseteq P
  <2> HIDE DEF P
  <2> QED
    BY <1>2, <1>3, SubsetInduction
<1> QED
  BY <1>4

(* Settling a loan leaves what the rest of them lent. *)
LEMMA LentOfRest ==
  ASSUME NEW loans \in Seq(Loan) \ {<<>>}, NEW a
  PROVE  LentOf(loans, a) = LentOf(Tail(loans), a)
                            + (IF Head(loans).asset = a THEN Head(loans).amount ELSE 0)
<1> DEFINE rest == Tail(loans)
           f == [i \in DOMAIN loans |-> loans[i].amount]
           g == [i \in DOMAIN rest |-> rest[i].amount]
           S == {i \in DOMAIN loans : loans[i].asset = a}
           T == {i \in DOMAIN rest : rest[i].asset = a}
           up == {i + 1 : i \in T}
<1>1. LentOf(loans, a) = Total(f, S) /\ LentOf(rest, a) = Total(g, T)
  BY DEF LentOf, SumFunctionOnSet, FoldFunctionOnSet, Total, MapThenSumSet
<1>2. /\ rest \in Seq(Loan) /\ Len(rest) = Len(loans) - 1 /\ Len(loans) \in Nat \ {0}
      /\ DOMAIN rest = 1 .. Len(rest) /\ DOMAIN loans = 1 .. Len(loans)
      /\ \A i \in DOMAIN rest : rest[i] = loans[i + 1]
      /\ Head(loans) = loans[1]
  OBVIOUS
<1>3. \A i \in DOMAIN loans : loans[i].amount \in Nat
  <2>1. \A i \in DOMAIN loans : loans[i] \in Loan
    OBVIOUS
  <2>2. \A l \in Loan : l.amount \in Nat
    BY DEF Loan
  <2> QED
    BY <2>1, <2>2
<1> HIDE DEF rest
<1>4. \A i \in T : /\ i \in Nat /\ i + 1 \in DOMAIN loans /\ g[i] \in Nat /\ f[i + 1] = g[i]
  BY <1>2, <1>3
<1>5. S \ {1} = up
  <2>1. ASSUME NEW k \in S \ {1} PROVE k \in up
    <3>1. k - 1 \in DOMAIN rest /\ (k - 1) + 1 = k
      BY <1>2
    <3>2. rest[k - 1] = loans[k]
      BY <1>2, <3>1
    <3>3. k - 1 \in T
      BY <3>1, <3>2
    <3> QED
      BY <3>1, <3>3
  <2>2. ASSUME NEW i \in T PROVE i + 1 \in S \ {1}
    BY <1>2
  <2> HIDE DEF S, T
  <2> QED
    BY <2>1, <2>2
<1>6. IsFiniteSet(S) /\ IsFiniteSet(T) /\ IsFiniteSet(DOMAIN loans)
  <2>1. IsFiniteSet(1 .. Len(loans)) /\ IsFiniteSet(1 .. Len(rest))
    BY <1>2, FS_Interval
  <2>2. S \subseteq 1 .. Len(loans) /\ T \subseteq 1 .. Len(rest)
    BY <1>2
  <2> HIDE DEF S, T
  <2> QED
    BY <1>2, <2>1, <2>2, FS_Subset
<1>7. Total(f, up) = Total(g, T)
  <2>1. T \in SUBSET Nat
    BY <1>4
  <2> HIDE DEF T, f, g
  <2> QED
    BY <1>4, <1>6, <2>1, TotalShifts
<1>8. Total(g, T) \in Nat
  <2> HIDE DEF T, g
  <2> QED
    BY <1>4, <1>6, TotalBounds
<1>9. CASE Head(loans).asset = a
  <2>1. 1 \in S /\ \A i \in S : f[i] \in Nat
    BY <1>2, <1>3, <1>9
  <2>2. f[1] = Head(loans).amount /\ f[1] \in Nat
    BY <1>2, <1>3
  <2> HIDE DEF f, S, up
  <2>3. Total(f, S) = f[1] + Total(f, S \ {1})
    BY <1>6, <2>1, TotalWithout
  <2>4. LentOf(loans, a) = Head(loans).amount + LentOf(rest, a)
    BY <1>1, <1>5, <1>7, <2>2, <2>3
  <2>5. LentOf(rest, a) \in Nat /\ Head(loans).amount \in Nat
    BY <1>1, <1>8, <2>2
  <2> QED
    BY <1>9, <2>4, <2>5 DEF rest
<1>10. CASE Head(loans).asset # a
  <2>1. S \ {1} = S
    BY <1>2, <1>10
  <2> HIDE DEF f, g, S, T, up
  <2>2. LentOf(loans, a) = LentOf(rest, a) /\ LentOf(rest, a) \in Nat
    BY <1>1, <1>5, <1>7, <1>8, <2>1
  <2> QED
    BY <1>10, <2>2 DEF rest
<1> QED
  BY <1>9, <1>10

(* Handing nothing out changes nothing. *)
LEMMA ReleaseNothing ==
  ASSUME NEW r \in Reserve
  PROVE  Release(r, 0) = r
<1>1. r.cash - 0 = r.cash
  BY ReserveFields
<1> QED
  BY <1>1 DEF Release, Reserve

(* Handing out and the accrual commute. *)
LEMMA LendingSettles ==
  ASSUME NEW r \in Reserve, NEW t, NEW x
  PROVE  UpdateState(Release(r, x), t) = Release(UpdateState(r, t), x)
<1> DEFINE m == Release(r, x)
           u == UpdateIndexes(r, t)
           v == UpdateIndexes(m, t)
<1>1. /\ m.liquidityRate = r.liquidityRate /\ m.borrowRate = r.borrowRate
      /\ m.liquidityIndex = r.liquidityIndex
      /\ m.variableBorrowIndex = r.variableBorrowIndex
      /\ m.lastUpdate = r.lastUpdate /\ m.dSupply = r.dSupply
      /\ m.configuration = r.configuration
  BY DEF Release, Reserve
<1>2. v = [u EXCEPT !.cash = u.cash - x]
  BY <1>1 DEF UpdateIndexes, Release, Reserve
<1>3. /\ v.liquidityIndex = u.liquidityIndex /\ v.variableBorrowIndex = u.variableBorrowIndex
      /\ v.aBalance = u.aBalance /\ v.aSupply = u.aSupply /\ v.cash = u.cash - x
  BY <1>2 DEF UpdateIndexes, Reserve
<1>4. u = [u EXCEPT !.liquidityIndex = u.liquidityIndex]
  BY DEF UpdateIndexes, Reserve
<1> HIDE DEF m, u, v
<1>5. AmountToTreasury(m, v) = AmountToTreasury(r, u)
  BY <1>1, <1>3 DEF AmountToTreasury
<1> DEFINE scaled == RayDiv(AmountToTreasury(r, u), u.liquidityIndex)
<1> HIDE DEF scaled
<1>6. MintToTreasury(r, u) = IF r.configuration.reserveFactor = 0 THEN u
        ELSE [u EXCEPT !.aBalance[Treasury] = @ + scaled, !.aSupply = @ + scaled]
  BY DEF MintToTreasury, scaled
<1>7. MintToTreasury(m, v) = IF r.configuration.reserveFactor = 0 THEN v
        ELSE [v EXCEPT !.aBalance[Treasury] = @ + scaled, !.aSupply = @ + scaled]
  BY <1>1, <1>3, <1>5 DEF MintToTreasury, scaled
<1>8. MintToTreasury(m, v) = Release(MintToTreasury(r, u), x)
  BY <1>2, <1>3, <1>6, <1>7 DEF Release
<1> QED
  BY <1>8 DEF UpdateState, m, u, v

(* No transaction moves time or prices, or pauses the pool. *)
Timeless == now' = now /\ price' = price /\ paused' = paused

LEMMA CallsTakeNoTime == Call => Timeless
<1>1. \A a, x, u : Deposit(a, x, u) => Timeless
  BY DEF Deposit, Timeless
<1>2. \A u, a, x : Withdraw(u, a, x) => Timeless
  BY DEF Withdraw, Timeless
<1>3. \A v, a, u, x : Borrow(v, a, u, x) => Timeless
  BY DEF Borrow, Timeless
<1>4. \A u, v, a, x : ApproveDelegation(u, v, a, x) => Timeless
  BY DEF ApproveDelegation, Timeless
<1>5. \A v, a, u, x : Repay(v, a, u, x) => Timeless
  BY DEF Repay, Timeless
<1>6. \A u, a, x : SetUserUseReserveAsCollateral(u, a, x) => Timeless
  BY DEF SetUserUseReserveAsCollateral, Timeless
<1>7. \A l, c, d, u, x, b : LiquidationCall(l, c, d, u, x, b) => Timeless
  BY DEF LiquidationCall, Timeless
<1>8. \A u, v, a, x : Transfer(u, v, a, x) => Timeless
  BY DEF Transfer, Timeless
<1> QED
  BY <1>1, <1>2, <1>3, <1>4, <1>5, <1>6, <1>7, <1>8 DEF Call

(* The quotient a premium p on claims c makes, in rays. *)
LEMMA PremiumQuotient ==
  ASSUME NEW p \in Nat, NEW c \in Nat \ {0}
  PROVE  LET q == RayDiv(WadToRay(p), WadToRay(c))
         IN  q \in Nat /\ 2 * (q * c) <= 2 * (p * RAY) + c
<1> DEFINE W == WAD_RAY_RATIO
           d == c * W
           m == p * W
           h == d \div 2
           q == RayDiv(WadToRay(p), WadToRay(c))
<1>1. W \in Nat \ {0} /\ RAY \in Nat \ {0}
  BY ScalesPositive
<1> HIDE DEF W
<1>2. d \in Nat \ {0} /\ m \in Nat
  BY <1>1
<1>3. h \in Nat /\ 2 * h <= d
  <2> HIDE DEF d
  <2> QED BY <1>2, QuotientBounds
<1>4. m * RAY + h \in Nat
  <2> HIDE DEF m, h
  <2> QED BY <1>1, <1>2, <1>3
<1>5. q = (m * RAY + h) \div d
  BY DEF RayDiv, WadToRay, W
<1>6. q \in Nat /\ q * d <= m * RAY + h
  <2> HIDE DEF m, h, d, q
  <2> QED BY <1>2, <1>4, <1>5, QuotientBounds
<1>7. 2 * (q * d) <= 2 * (m * RAY) + d
  <2> HIDE DEF m, h, d, q
  <2>1. q * d \in Nat /\ m * RAY \in Nat
    BY <1>1, <1>2, <1>6
  <2> QED BY <1>2, <1>3, <1>6, <2>1
<1> HIDE DEF q, h
<1>8. q * d = W * (q * c) /\ m * RAY = W * (p * RAY) /\ d = W * c
  BY <1>1, <1>6
<1>9. q * c \in Nat /\ p * RAY \in Nat
  BY <1>1, <1>6
<1> DEFINE x == q * c
           y == p * RAY
<1>10. W * (2 * x) <= W * (2 * y + c)
  <2> HIDE DEF x, y
  <2>1. W * (2 * x) = 2 * (W * x) /\ W * (2 * y + c) = 2 * (W * y) + W * c
    BY <1>1, <1>9 DEF x, y
  <2>2. 2 * (W * x) <= 2 * (W * y) + W * c
    <3> HIDE DEF d, m
    <3> QED BY <1>7, <1>8 DEF x, y
  <2> QED BY <2>1, <2>2
<1>11. 2 * x \in Int /\ 2 * y + c \in Int
  <2> HIDE DEF x, y
  <2> QED BY <1>9 DEF x, y
<1>12. 2 * x <= 2 * y + c
  <2> HIDE DEF x, y
  <2> QED BY <1>1, <1>10, <1>11, FactorCancels
<1> HIDE DEF d, m, x, y
<1>13. 2 * (q * c) <= 2 * (p * RAY) + c
  BY <1>12 DEF x, y
<1> QED
  BY <1>6, <1>13 DEF q

(* Paid through the index, a premium adds itself to the claims and no more *)
(* than what the index rounds: half a unit of it on each scaled unit, half *)
(* a ray of the quotient, which is a share of the premium where claims are *)
(* few.                                                                    *)
LEMMA PremiumRounds ==
  ASSUME NEW s \in Nat, NEW i \in Nat, i >= RAY, NEW p \in Nat, RayMul(s, i) # 0
  PROVE  LET c == RayMul(s, i)
             j == RayMul(RAY + RayDiv(WadToRay(p), WadToRay(c)), i)
         IN  RayMul(s, j) <= c + p + (c \div RAY + p \div (c + 1) + 2)
<1> DEFINE c == RayMul(s, i)
           q == RayDiv(WadToRay(p), WadToRay(c))
           f == RAY + q
           j == RayMul(f, i)
           n == RayMul(s, j)
           a == c \div RAY
           b == p \div (c + 1)
<1>1. RAY \in Nat \ {0}
  BY ScalesPositive
<1>2. /\ c \in Nat \ {0}
      /\ 2 * (s * i) <= 2 * (c * RAY) + RAY
  BY RayMulBounds
<1> HIDE DEF c
<1>3. q \in Nat /\ 2 * (q * c) <= 2 * (p * RAY) + c
  BY <1>2, PremiumQuotient
<1> HIDE DEF q
<1>4. f \in Nat
  BY <1>1, <1>3
<1> HIDE DEF f
<1>5. j \in Nat /\ 2 * (j * RAY) <= 2 * (f * i) + RAY
  BY <1>4, RayMulBounds
<1> HIDE DEF j
<1>6. n \in Nat /\ 2 * (n * RAY) <= 2 * (s * j) + RAY
  BY <1>5, RayMulBounds
<1> HIDE DEF n
<1>7. a \in Nat /\ c < a * RAY + RAY
  BY <1>1, <1>2, QuotientBounds DEF a
<1>0. c + 1 \in Nat \ {0}
  BY <1>2
<1> HIDE DEF a
<1>8. b \in Nat /\ p < b * (c + 1) + (c + 1)
  <2> DEFINE d == c + 1
  <2> HIDE DEF d
  <2>1. p \div d \in Nat /\ p < (p \div d) * d + d
    BY <1>0, QuotientBounds DEF d
  <2> QED
    BY <2>1 DEF b, d
<1> HIDE DEF b
(* The scaled supply is at most the claims. *)
<1>9. s <= c
  <2>1. s * RAY <= s * i
    BY <1>1
  <2>2. s * RAY \in Nat /\ s * i \in Nat /\ c * RAY \in Nat
    BY <1>1, <1>2
  <2> DEFINE u == s * RAY
             v == s * i
             w == c * RAY
  <2>3. 2 * u < 2 * w + RAY
    <3> HIDE DEF u, v, w
    <3> QED BY <1>1, <1>2, <2>1, <2>2 DEF u, v, w
  <2>4. RAY * (2 * s) = 2 * u /\ RAY * (2 * c + 1) = 2 * w + RAY
    BY <1>1, <1>2
  <2>5. RAY * (2 * s) <= RAY * (2 * c + 1)
    <3> HIDE DEF u, w
    <3> QED BY <1>1, <2>2, <2>3, <2>4 DEF u, w
  <2>6. 2 * s <= 2 * c + 1
    BY <1>1, <1>2, <2>5, FactorCancels
  <2> QED
    BY <1>2, <2>6
(* The new claims, in rays. *)
<1>10. 2 * (n * RAY) <= f * (2 * c + 1) + c + RAY
  <2> DEFINE m == s * i
             g == f * m
             k == s * j
             w == c * RAY
             z == n * RAY
  <2>0. m \in Nat /\ k \in Nat /\ w \in Nat /\ z \in Nat /\ f * (2 * c + 1) \in Nat
    BY <1>1, <1>2, <1>4, <1>5, <1>6
  <2>1. s * (2 * (j * RAY)) <= s * (2 * (f * i) + RAY)
    BY <1>1, <1>4, <1>5
  <2>2. s * (2 * (j * RAY)) = RAY * (2 * k)
    BY <1>1, <1>5
  <2>3. s * (2 * (f * i) + RAY) = f * (2 * m) + RAY * s
    BY <1>1, <1>4
  <2>4. f * (2 * m) <= f * (2 * w + RAY)
    <3>1. 2 * m <= 2 * w + RAY /\ 2 * m \in Nat /\ 2 * w + RAY \in Nat
      <4> HIDE DEF m, w
      <4> QED BY <1>1, <1>2, <2>0 DEF m, w
    <3> DEFINE y1 == 2 * m
               y2 == 2 * w + RAY
    <3> HIDE DEF y1, y2
    <3>2. f * y1 <= f * y2
      BY <1>4, <3>1 DEF y1, y2
    <3> QED BY <3>2 DEF y1, y2
  <2>5. f * (2 * w + RAY) = RAY * (f * (2 * c + 1))
    BY <1>1, <1>2, <1>4
  <2>6. RAY * s <= RAY * c
    BY <1>1, <1>2, <1>9
  <2>7. RAY * (2 * k) <= RAY * (f * (2 * c + 1)) + RAY * c
    <3> DEFINE e1 == RAY * (2 * k)
               e2 == f * (2 * m)
               e3 == RAY * s
               e4 == RAY * (f * (2 * c + 1))
               e5 == RAY * c
    <3>1. e1 <= e2 + e3 /\ e2 <= e4 /\ e3 <= e5
      <4> HIDE DEF m, k, w
      <4> QED BY <2>1, <2>2, <2>3, <2>4, <2>5, <2>6
    <3>2. e1 \in Int /\ e2 \in Int /\ e3 \in Int /\ e4 \in Int /\ e5 \in Int
      <4> HIDE DEF m, k, w
      <4> QED BY <1>1, <1>2, <1>4, <2>0
    <3> HIDE DEF e1, e2, e3, e4, e5
    <3>3. e1 <= e4 + e5
      BY <3>1, <3>2
    <3> QED
      BY <3>3 DEF e1, e4, e5
  <2> DEFINE y == f * (2 * c + 1)
  <2>8. RAY * (2 * k) <= RAY * (y + c)
    <3> HIDE DEF y, k
    <3>1. RAY * (y + c) = RAY * y + RAY * c
      BY <1>1, <1>2, <2>0 DEF y
    <3> QED BY <2>7, <3>1 DEF y
  <2>9. 2 * k <= y + c
    <3> HIDE DEF y, k
    <3> QED BY <1>1, <1>2, <2>0, <2>8, FactorCancels DEF y
  <2> HIDE DEF y, k, z
  <2>10. 2 * z <= 2 * k + RAY
    BY <1>6 DEF z, k
  <2>11. 2 * z <= y + c + RAY
    BY <1>1, <1>2, <2>0, <2>9, <2>10 DEF y
  <2> QED
    BY <2>11 DEF z, y
(* Half a ray of the quotient, in rays. *)
<1>11. q <= 2 * (b * RAY) + RAY
  <2>1. p <= 2 * (b * c) + c
    <3>1. b * (c + 1) = b * c + b /\ b <= b * c /\ b * c \in Nat
      BY <1>2, <1>8
    <3> DEFINE e == b * c
    <3> HIDE DEF e
    <3>2. p <= e + b + c
      BY <1>2, <1>8, <3>1 DEF e
    <3>3. p <= 2 * e + c
      BY <1>2, <1>8, <3>1, <3>2 DEF e
    <3> QED BY <3>3 DEF e
  <2> DEFINE e == 2 * (b * c) + c
  <2>2. e \in Nat
    BY <1>2, <1>8
  <2>3. p * RAY <= e * RAY
    <3> HIDE DEF e
    <3> QED BY <1>1, <2>1, <2>2 DEF e
  <2>4. 2 * (e * RAY) + c = c * (2 * (2 * (b * RAY) + RAY) + 1)
    BY <1>1, <1>2, <1>8
  <2>5. 2 * (q * c) = c * (2 * q)
    BY <1>2, <1>3
  <2>6. c * (2 * q) <= c * (2 * (2 * (b * RAY) + RAY) + 1)
    <3> DEFINE e1 == p * RAY
               e2 == e * RAY
               e3 == q * c
    <3>1. e1 \in Nat /\ e2 \in Nat /\ e3 \in Nat
      BY <1>1, <1>2, <1>3, <2>2
    <3>2. 2 * e3 <= 2 * e1 + c /\ e1 <= e2
      <4> HIDE DEF e
      <4> QED BY <1>3, <2>3
    <3> HIDE DEF e1, e2, e3
    <3>3. 2 * e3 <= 2 * e2 + c
      BY <1>2, <3>1, <3>2
    <3> QED
      BY <2>4, <2>5, <3>3 DEF e2, e3
  <2> DEFINE t == 2 * (b * RAY) + RAY
  <2>7. t \in Nat
    BY <1>1, <1>8
  <2> HIDE DEF t
  <2>8. c * (2 * q) <= c * (2 * t + 1)
    BY <2>6 DEF t
  <2>9. 2 * q <= 2 * t + 1
    BY <1>2, <1>3, <2>7, <2>8, FactorCancels
  <2>10. q <= t
    BY <1>3, <2>7, <2>9
  <2> QED BY <2>10 DEF t
(* Together. *)
<1>12. RAY * (2 * n) < RAY * (2 * (c + p + a + b) + 5)
  <2> DEFINE z  == n * RAY
             cr == c * RAY
             qc == q * c
             pr == p * RAY
             ar == a * RAY
             br == b * RAY
  <2>1. /\ z \in Nat /\ cr \in Nat /\ qc \in Nat /\ pr \in Nat /\ ar \in Nat /\ br \in Nat
        /\ n \in Nat /\ c \in Nat /\ q \in Nat /\ RAY \in Nat
    BY <1>1, <1>2, <1>3, <1>6, <1>7, <1>8
  <2>2. f * (2 * c + 1) = 2 * cr + RAY + 2 * qc + q
    BY <1>1, <1>2, <1>3 DEF f
  <2>3. RAY * (2 * n) = 2 * z
    BY <1>1, <1>6
  <2>4. RAY * (2 * (c + p + a + b) + 5) = 2 * cr + 2 * pr + 2 * ar + 2 * br + 5 * RAY
    BY <1>1, <1>2, <1>7, <1>8
  <2>5. /\ 2 * z <= f * (2 * c + 1) + c + RAY
        /\ 2 * qc <= 2 * pr + c
        /\ c < ar + RAY
        /\ q <= 2 * br + RAY
    BY <1>10, <1>3, <1>7, <1>11
  <2> HIDE DEF z, cr, qc, pr, ar, br
  <2>6. 2 * z < 2 * cr + 2 * pr + 2 * ar + 2 * br + 5 * RAY
    BY ONLY <2>1, <2>2, <2>5
  <2> QED
    BY <2>3, <2>4, <2>6
<1>13. n <= c + p + (a + b + 2)
  <2> DEFINE y == c + p + a + b
  <2>1. y \in Nat /\ 2 * n \in Nat /\ 2 * y + 5 \in Nat
    BY <1>2, <1>6, <1>7, <1>8
  <2>2. ~(2 * y + 5 <= 2 * n)
    <3>1. 2 * y + 5 <= 2 * n => RAY * (2 * y + 5) <= RAY * (2 * n)
      BY <1>1, <2>1
    <3>2. RAY * (2 * n) \in Int /\ RAY * (2 * y + 5) \in Int
      BY <1>1, <2>1
    <3> QED BY <1>12, <3>1, <3>2
  <2> HIDE DEF y
  <2>3. n <= y + 2
    BY <1>6, <2>1, <2>2
  <2> QED BY <1>2, <1>7, <1>8, <2>3 DEF y
<1> QED
  BY <1>13 DEF n, j, f, q, c, a, b

(* The premium credited, the money back: a well-formed, priced reserve.    *)
LEMMA CumulateSound ==
  ASSUME NEW r, NEW t \in Nat, WellFormed(r, t), NEW total \in Nat, NEW x \in Nat,
         CanCumulate(total)
  PROVE  LET n == CumulateToLiquidityIndex(r, total, x)
         IN  /\ WellFormed(n, t) /\ n.lastUpdate = r.lastUpdate
             /\ SamePositions(r, n) /\ n.aBalance = r.aBalance /\ n.aSupply = r.aSupply
<1> DEFINE f == RAY + RayDiv(WadToRay(x), WadToRay(total))
           i == RayMul(f, r.liquidityIndex)
<1>1. r \in Reserve /\ r.liquidityIndex \in Nat /\ RAY \in Nat
  BY ReserveFields, ScalesPositive DEF WellFormed
<1>2. WadToRay(x) \in Nat /\ WadToRay(total) \in Nat \ {0}
  <2>1. total \in Nat \ {0} /\ WAD_RAY_RATIO \in Nat \ {0}
    BY ScalesPositive DEF CanCumulate
  <2>2. total * WAD_RAY_RATIO \in Nat \ {0} /\ x * WAD_RAY_RATIO \in Nat
    BY <2>1, ProductIsPositive, ProductIsNat
  <2> QED
    BY <2>2 DEF WadToRay
<1>3. RayDiv(WadToRay(x), WadToRay(total)) \in Nat
  BY <1>2, RayDivIsNat
<1>4. f \in Nat /\ f >= RAY
  BY <1>1, <1>3
<1> HIDE DEF f
<1>5. i \in Nat /\ i >= r.liquidityIndex
  BY <1>1, <1>4, RayMulIsNat, RayMulGrows
<1>6. CumulateToLiquidityIndex(r, total, x) = [r EXCEPT !.liquidityIndex = i]
  BY <1>1 DEF CumulateToLiquidityIndex, f, Reserve
<1> HIDE DEF i
<1> QED
  BY <1>1, <1>5, <1>6 DEF WellFormed, SamePositions, Reserve

(* A premium of x on claims c adds itself to them, and this much. *)
PremiumRounding(x, c) == c \div RAY + x \div (c + 1) + 2

LEMMA PremiumRoundingIsNat ==
  ASSUME NEW x \in Nat, NEW c \in Nat
  PROVE  PremiumRounding(x, c) \in Nat
<1> DEFINE d == c + 1
<1>1. d \in Nat \ {0} /\ RAY \in Nat \ {0}
  BY ScalesPositive
<1> HIDE DEF d
<1>2. c \div RAY \in Nat /\ x \div d \in Nat
  BY <1>1, QuotientBounds
<1> QED
  BY <1>2 DEF PremiumRounding, d

LEMMA CumulateBooks ==
  ASSUME NEW r, NEW t \in Nat, WellFormed(r, t), NEW x \in Nat, NEW total,
         total = RayMul(r.aSupply, r.liquidityIndex), CanCumulate(total)
  PROVE  LET n == CumulateToLiquidityIndex(r, total, x)
         IN  Gap(n) <= Gap(r) + x + PremiumRounding(x, total)
<1> DEFINE i == RayMul(RAY + RayDiv(WadToRay(x), WadToRay(total)), r.liquidityIndex)
           n == CumulateToLiquidityIndex(r, total, x)
           c == RayMul(r.aSupply, i)
           d == RayMul(r.dSupply, r.variableBorrowIndex)
           e == PremiumRounding(x, total)
<1>1. /\ r.aSupply \in Nat /\ r.dSupply \in Nat /\ r.cash \in Nat
      /\ r.liquidityIndex \in Nat /\ r.variableBorrowIndex \in Nat
      /\ r.liquidityIndex >= RAY /\ RAY \in Nat \ {0}
  BY ReserveFields, ScalesPositive DEF WellFormed
<1>2. total \in Nat \ {0} /\ d \in Nat
  BY <1>1, RayMulIsNat DEF CanCumulate
<1>3. e \in Nat
  BY <1>2, PremiumRoundingIsNat
<1>4. c <= total + x + e
  BY <1>1, <1>2, PremiumRounds DEF PremiumRounding
<1>5. i \in Nat
  <2>1. RayDiv(WadToRay(x), WadToRay(total)) \in Nat
    BY <1>2, PremiumQuotient
  <2>2. RAY + RayDiv(WadToRay(x), WadToRay(total)) \in Nat
    BY <1>1, <2>1
  <2> QED
    BY <1>1, <2>2, RayMulIsNat
<1> HIDE DEF i, e
<1>6. c \in Nat
  BY <1>1, <1>5, RayMulIsNat
<1>7. n = [r EXCEPT !.liquidityIndex = i]
  BY DEF CumulateToLiquidityIndex, i, WellFormed, Reserve
<1>8. Gap(n) = c - r.cash - d
  <2>1. /\ n.aSupply = r.aSupply /\ n.liquidityIndex = i /\ n.cash = r.cash
        /\ n.dSupply = r.dSupply /\ n.variableBorrowIndex = r.variableBorrowIndex
    BY <1>7 DEF WellFormed, Reserve
  <2> QED
    BY <2>1 DEF Gap
<1>9. Gap(r) = total - r.cash - d
  BY DEF Gap
<1> HIDE DEF n, c, d
<1>10. c - r.cash - d <= (total - r.cash - d) + x + e
  BY <1>1, <1>2, <1>3, <1>4, <1>6
<1> QED
  BY <1>8, <1>9, <1>10 DEF n, e

LEMMA ReturnedSound ==
  ASSUME Inv, NEW a \in Assets, NEW x \in Nat,
         CanCumulate(TotalSupply(UpdateState(reserves[a], now), now)),
         CanUpdateInterestRates(reserves[a], x + Premium(x), 0)
  PROVE  LET n == Returned(reserves[a], x)
         IN  /\ WellFormed(n, now) /\ n.lastUpdate = now /\ Priced(n)
             /\ Balanced(reserves[a]) => Balanced(n)
             /\ n.dBalance = reserves[a].dBalance
             /\ Gap(n) <= Gap(Settled(a)) - x + PremiumRounding(Premium(x), Claims(a))
<1> DEFINE r      == reserves[a]
           s      == UpdateState(r, now)
           total  == TotalSupply(s, now)
           back   == x + Premium(x)
           fee    == Premium(x)
           earned == CumulateToLiquidityIndex(s, total, fee)
           p      == UpdateInterestRates(earned, back, 0)
           n      == Receive(p, back)
<1>1. now \in Nat /\ WellFormed(r, now)
  BY DEF Inv, TypeOK, AllWellFormed
<1>2. fee \in Nat /\ back \in Nat
  <2>1. x * FLASHLOAN_PREMIUM_TOTAL \in Nat
    BY FlashLoanConstants, ProductIsNat
  <2>2. Premium(x) \in Nat
    BY <2>1, QuotientBounds DEF Premium
  <2> QED
    BY <2>2
<1>0. CanCumulate(total) /\ CanUpdateInterestRates(r, back, 0)
  OBVIOUS
<1> HIDE DEF r, back, fee
<1>3. /\ WellFormed(s, now) /\ s.lastUpdate = now /\ SamePositions(r, s)
      /\ Balanced(r) => Balanced(s)
  BY <1>1, Settling, UpdateStateSound
<1>14. Settled(a) = s /\ Claims(a) = total
  BY DEF Settled, Claims, r
<1> HIDE DEF s
<1>15. total = RayMul(s.aSupply, s.liquidityIndex)
  BY <1>3 DEF TotalSupply, NormalizedIncome
<1>4. total \in Nat
  <2>1. s.aSupply \in Nat /\ NormalizedIncome(s, now) \in Nat
    BY <1>1, <1>3, IncomeIsAccrued, ReserveFields DEF WellFormed
  <2> QED
    BY <2>1, RayMulIsNat DEF TotalSupply
<1> HIDE DEF total
<1>5. /\ WellFormed(earned, now) /\ earned.lastUpdate = s.lastUpdate
      /\ SamePositions(s, earned) /\ earned.aBalance = s.aBalance /\ earned.aSupply = s.aSupply
  BY ONLY <1>0, <1>1, <1>2, <1>3, <1>4, CumulateSound
<1>16. Gap(earned) <= Gap(s) + fee + PremiumRounding(fee, total)
  BY ONLY <1>0, <1>1, <1>2, <1>3, <1>15, CumulateBooks
<1> HIDE DEF earned
<1>6. CanUpdateInterestRates(earned, back, 0)
  BY <1>0, <1>3, <1>5 DEF CanUpdateInterestRates, SamePositions
<1>7. /\ WellFormed(p, now) /\ SamePositions(earned, p)
      /\ p.aBalance = earned.aBalance /\ p.aSupply = earned.aSupply
      /\ SameIndexes(earned, p)
  BY <1>1, <1>2, <1>5, <1>6, UpdateInterestRatesSound DEF SameIndexes
<1>17. p.lastUpdate = now
  BY <1>3, <1>5 DEF UpdateInterestRates, WellFormed, Reserve
<1>8. Priced(n)
  BY <1>1, <1>2, <1>5, <1>6, PaymentIsTold
<1> HIDE DEF p
<1>9. /\ WellFormed(n, now) /\ SameDebts(p, n)
      /\ Balanced(p) => Balanced(n)
      /\ Gap(n) = Gap(p) - back /\ n.lastUpdate = now
  BY <1>1, <1>2, <1>7, <1>17, CashMoves, CashMovesGap
<1> HIDE DEF n
<1>10. Balanced(s) => Balanced(p)
  BY <1>5, <1>7 DEF Balanced, SamePositions
<1>11. n.dBalance = r.dBalance
  BY <1>3, <1>5, <1>7, <1>9 DEF SamePositions, SameDebts
<1>18. Gap(n) <= Gap(s) - x + PremiumRounding(fee, total)
  <2>1. Gap(p) = Gap(earned)
    BY <1>7 DEF Gap, SamePositions, SameIndexes
  <2>2. Gap(s) \in Int /\ Gap(p) \in Int
    BY <1>3, <1>7, GapIsInt
  <2>3. PremiumRounding(fee, total) \in Nat
    BY <1>2, <1>4, PremiumRoundingIsNat
  <2>4. back = x + fee
    BY DEF back, fee
  <2> DEFINE e == PremiumRounding(fee, total)
             gs == Gap(s)
             gp == Gap(p)
  <2>5. gp <= gs + fee + e /\ gs \in Int /\ gp \in Int /\ e \in Nat
    BY <1>16, <2>1, <2>2, <2>3
  <2> HIDE DEF e, gs, gp
  <2>6. gp - back <= gs - x + e
    BY <1>2, <2>4, <2>5
  <2> QED
    BY <1>9, <2>6 DEF e, gs, gp
<1>12. /\ WellFormed(n, now) /\ n.lastUpdate = now /\ Priced(n)
       /\ (Balanced(r) => Balanced(n)) /\ n.dBalance = r.dBalance
       /\ Gap(n) <= Gap(Settled(a)) - x + PremiumRounding(fee, Claims(a))
  BY <1>3, <1>8, <1>9, <1>10, <1>11, <1>14, <1>18
<1>13. Returned(reserves[a], x) = n
  BY DEF Returned, n, p, earned, total, fee, s, back, r
<1> QED
  BY <1>12, <1>13 DEF r, fee

-----------------------------------------------------------------------------
(* One lemma per action. *)

LEMMA FlashLendStep ==
  ASSUME FlashInv, NEW caller \in Users, NEW u \in Users, NEW loans \in Batches,
         FlashLend(caller, u, loans)
  PROVE  FlashKept
<1>1. /\ loans \in Seq(Loan) \ {<<>>} /\ now \in Nat /\ now' = now
      /\ Inv /\ reserves \in [Assets -> Reserve]
      /\ flash = NoFlashLoan
      /\ reserves' = [a \in Assets |-> Release(reserves[a], LentOf(loans, a))]
      /\ flash' = [phase |-> "callback", caller |-> caller, onBehalfOf |-> u, left |-> loans]
      /\ saved' = Storage
  BY FlashLoanConstants DEF FlashInv, FlashLend, Inv, TypeOK, AllWellFormed
<1>2. \A a \in Assets : LentOf(loans, a) \in Nat /\ LentOf(loans, a) <= reserves[a].cash
  BY <1>1, LentIsNat DEF FlashLend
<1>3. \A a \in Assets :
        /\ WellFormed(reserves'[a], now)
        /\ reserves'[a].dBalance = reserves[a].dBalance
        /\ Balanced(reserves[a]) => Balanced(reserves'[a])
  <2> SUFFICES ASSUME NEW a \in Assets
               PROVE  LET n == Release(reserves[a], LentOf(loans, a))
                      IN  /\ WellFormed(n, now) /\ n.dBalance = reserves[a].dBalance
                          /\ Balanced(reserves[a]) => Balanced(n)
    BY <1>1
  <2>1. WellFormed(reserves[a], now)
    BY <1>1 DEF Inv, AllWellFormed
  <2> QED
    BY <1>1, <1>2, <2>1, CashMoves, CashMovesGap DEF SameDebts
<1>4. AllWellFormed(reserves', now)
  <2>1. \A a \in Assets : reserves'[a] \in Reserve
    BY <1>3 DEF WellFormed
  <2>2. reserves' \in [Assets -> Reserve]
    BY <1>1, <2>1
  <2> QED
    BY <1>3, <2>2 DEF AllWellFormed
<1>5. Inv'
  <2>1. /\ usersConfig' = usersConfig /\ borrowAllowance' = borrowAllowance
        /\ paused' = paused /\ price' = price
    BY DEF FlashLend
  <2>2. /\ borrowAllowance' \in [Assets -> [Users -> [Users -> Nat]]]
        /\ usersConfig' \in [Users -> UserConfiguration]
    BY <1>1, <2>1 DEF Inv, TypeOK
  <2>3. \A v \in Users, a \in Assets : reserves[a].dBalance[v] \in Nat
    BY <1>1, ReserveFields
  <2>4. \A v \in Users, a \in Assets :
          /\ reserves'[a].dBalance[v] <= reserves[a].dBalance[v]
          /\ a \in usersConfig[v].borrowing => a \in usersConfig'[v].borrowing
    BY <1>3, <2>1, <2>3
  <2> QED
    BY <1>1, <1>4, <2>1, <2>2, <2>4, InvKept
<1>6. flash' \in OpenLoan
  BY <1>1 DEF OpenLoan
<1>7. saved'.reserves = reserves /\ SavedSound'
  <2>1. /\ saved'.reserves = reserves /\ saved'.usersConfig = usersConfig
        /\ saved'.borrowAllowance = borrowAllowance
    BY <1>1 DEF Storage
  <2>2. saved' = [reserves |-> saved'.reserves, usersConfig |-> saved'.usersConfig,
                  borrowAllowance |-> saved'.borrowAllowance]
    BY <1>1 DEF Storage
  <2> QED
    BY <1>1, <2>1, <2>2 DEF SavedSound, Inv, TypeOK, BorrowFlagTracksDebt
<1>8. FlashBooks => FlashBooks'
  BY <1>3, <1>7 DEF FlashBooks, BooksBalance
<1>9. FlashRates => FlashRates'
  <2> SUFFICES ASSUME FlashRates PROVE FlashRates'
    OBVIOUS
  <2>1. \A a \in Assets : PricedIfHeld(reserves[a])
    BY <1>1 DEF FlashRates, LoanLeft
  <2>2. ASSUME NEW a \in Assets, ~(\E i \in DOMAIN loans : loans[i].asset = a)
        PROVE  reserves'[a] = reserves[a]
    <3>1. LentOf(loans, a) = 0
      BY <1>1, <2>2, LentIsNat
    <3> QED
      BY <1>1, <3>1, ReleaseNothing
  <2>3. flash' # NoFlashLoan /\ flash'.left = loans
    BY <1>1 DEF NoFlashLoan
  <2> QED
    BY <1>7, <2>1, <2>2, <2>3 DEF FlashRates, LoanLeft
<1> QED
  BY <1>5, <1>6, <1>7, <1>8, <1>9 DEF FlashKept, FlashInv

(* A transaction, in the callback or between two flash loans.              *)
LEMMA PoolStep ==
  ASSUME FlashInv, [Next]_vars, flash # NoFlashLoan => now' = now,
         flash' = flash, saved' = saved
  PROVE  FlashKept
<1>1. Inv'
  BY EveryStep DEF FlashInv
<1>2. flash' # NoFlashLoan => flash' \in OpenLoan /\ SavedSound'
  BY DEF FlashInv, SavedSound
<1>3. BooksKept
  BY EveryStepKeepsAccounts DEF FlashInv
<1>4. FlashBooks => FlashBooks'
  BY <1>3 DEF FlashBooks, BooksBalance, BooksKept, KeepsBooks, BooksMoveBy
<1>5. FlashRates /\ [~SelfLiquidation]_vars => FlashRates'
  BY StepKeepsPrices DEF FlashInv, FlashRates, LoanLeft, PricesKept
<1> QED
  BY <1>1, <1>2, <1>4, <1>5 DEF FlashKept, FlashInv

(* The batch after one loan is settled. *)
LEMMA NextLoanStep ==
  ASSUME FlashInv, NEW mode, NextLoan(mode), now' = now
  PROVE  /\ flash # NoFlashLoan /\ flash \in OpenLoan
         /\ Head(flash.left) \in Loan
         /\ flash' # NoFlashLoan =>
              flash' \in OpenLoan /\ saved' = saved /\ SavedSound'
         /\ \A a : LoanLeft(a) => LoanLeft(a)' \/ a = Head(flash.left).asset
<1> DEFINE left == flash.left
<1>1. /\ flash # NoFlashLoan /\ flash \in OpenLoan /\ SavedSound
      /\ left \in Seq(Loan) \ {<<>>}
  BY DEF NextLoan, FlashInv, NoFlashLoan, OpenLoan
<1>2. Head(left) \in Loan /\ Len(left) \in Nat \ {0}
  BY <1>1
<1>3. CASE Len(left) = 1
  <2>1. flash' = NoFlashLoan
    BY <1>3 DEF NextLoan, AfterFirst
  <2>2. \A i \in DOMAIN left : left[i] = Head(left)
    <3> HIDE DEF left
    <3> QED
      BY <1>1, <1>3
  <2> QED
    BY <1>1, <1>2, <2>1, <2>2 DEF LoanLeft
<1>4. CASE Len(left) # 1
  <2>1. flash' = [flash EXCEPT !.left = Tail(left)] /\ saved' = saved
    BY <1>4 DEF NextLoan, AfterFirst
  <2>2. /\ Tail(left) \in Seq(Loan) \ {<<>>}
        /\ \A i \in DOMAIN left : i # 1 => /\ i - 1 \in DOMAIN Tail(left)
                                           /\ Tail(left)[i - 1] = left[i]
        /\ left[1] = Head(left)
    <3> HIDE DEF left
    <3>1. Tail(left) \in Seq(Loan) /\ Len(Tail(left)) = Len(left) - 1
      BY <1>1
    <3>2. Tail(left) # <<>>
      BY <1>2, <1>4, <3>1
    <3> QED
      BY <1>1, <3>1, <3>2
  <2>3. flash' \in OpenLoan /\ flash'.left = Tail(left) /\ flash' # NoFlashLoan
    <3>1. flash'.phase = flash.phase /\ flash.phase \in {"callback", "settle"}
      BY <1>1, <2>1 DEF OpenLoan
    <3> QED
      BY <1>1, <2>1, <2>2, <3>1 DEF OpenLoan, NoFlashLoan
  <2>4. SavedSound'
    BY <1>1, <2>1 DEF SavedSound
  <2>5. \A a : LoanLeft(a) => LoanLeft(a)' \/ a = Head(left).asset
    <3> SUFFICES ASSUME NEW a, NEW i \in DOMAIN left, left[i].asset = a
                 PROVE  LoanLeft(a)' \/ a = Head(left).asset
      BY DEF LoanLeft
    <3>1. CASE i = 1
      BY <2>2, <3>1
    <3>2. CASE i # 1
      BY <2>2, <2>3, <3>2 DEF LoanLeft
    <3> QED
      BY <3>1, <3>2
  <2> QED
    BY <1>1, <1>2, <2>1, <2>3, <2>4, <2>5
<1> QED
  BY <1>3, <1>4

(* What a settlement that leaves asset a as n comes to.                    *)
LEMMA SettleStep ==
  ASSUME FlashInv, NEW mode, NextLoan(mode), now' = now, Inv',
         NEW n, reserves' = [reserves EXCEPT ![Head(flash.left).asset] = n],
         Priced(n), Balanced(reserves[Head(flash.left).asset]) => Balanced(n)
  PROVE  FlashKept
<1> DEFINE a == Head(flash.left).asset
<1>1. /\ flash # NoFlashLoan /\ a \in Assets
      /\ flash' # NoFlashLoan => flash' \in OpenLoan /\ saved' = saved /\ SavedSound'
      /\ \A b : LoanLeft(b) => LoanLeft(b)' \/ b = a
  BY NextLoanStep DEF Loan
<1>2. \A b \in Assets : reserves'[b] = IF b = a THEN n ELSE reserves[b]
  BY DEF FlashInv, Inv, AllWellFormed
<1> HIDE DEF a
<1>3. FlashBooks => FlashBooks'
  BY <1>1, <1>2 DEF FlashBooks, BooksBalance, a
<1>4. FlashRates => FlashRates'
  <2> SUFFICES ASSUME FlashRates PROVE FlashRates'
    OBVIOUS
  <2>1. \A b \in Assets : LoanLeft(b)' \/ PricedIfHeld(reserves'[b])
    BY <1>1, <1>2 DEF FlashRates, PricedIfHeld
  <2> QED
    BY <1>1, <2>1 DEF FlashRates
<1> QED
  BY <1>1, <1>3, <1>4 DEF FlashKept, FlashInv

LEMMA SettleWithReturnStep ==
  ASSUME FlashInv, SettleWithReturn
  PROVE  FlashKept /\ \A u \in Users, a \in Assets : ~GainsDebt(u, a)
<1> DEFINE a == Head(flash.left).asset
           x == Head(flash.left).amount
           n == Returned(reserves[a], x)
<1>1. /\ NextLoan("none") /\ now' = now
      /\ CanCumulate(TotalSupply(UpdateState(reserves[a], now), now))
      /\ CanUpdateInterestRates(reserves[a], x + Premium(x), 0)
      /\ reserves' = [reserves EXCEPT ![a] = Returned(reserves[a], x)]
      /\ usersConfig' = usersConfig /\ borrowAllowance' = borrowAllowance
      /\ paused' = paused /\ price' = price
  BY DEF SettleWithReturn
<1>2. a \in Assets /\ x \in Nat /\ Inv
  BY <1>1, NextLoanStep DEF Loan, FlashInv
<1>3. /\ WellFormed(n, now) /\ Priced(n)
      /\ Balanced(reserves[a]) => Balanced(n)
      /\ n.dBalance = reserves[a].dBalance
  <2> HIDE DEF a, x
  <2> QED
    BY <1>1, <1>2, ReturnedSound
<1> HIDE DEF n
<1>4. reserves' = [reserves EXCEPT ![a] = n]
  BY <1>1 DEF n
<1>5. /\ AllWellFormed(reserves', now)
      /\ \A b \in Assets : reserves'[b].dBalance = reserves[b].dBalance
  <2> HIDE DEF a
  <2>1. AllWellFormed(reserves, now) /\ now \in Nat
    BY <1>2 DEF Inv, TypeOK
  <2>2. AllWellFormed([reserves EXCEPT ![a] = n], now)
    BY <1>2, <1>3, <2>1, ReplaceReserve
  <2> QED
    BY <1>2, <1>3, <1>4, <2>1, <2>2 DEF AllWellFormed
<1>6. \A v \in Users, b \in Assets : reserves[b].dBalance[v] \in Nat
  BY <1>2, ReserveFields DEF Inv, AllWellFormed
<1>7. Inv'
  <2>1. /\ borrowAllowance' \in [Assets -> [Users -> [Users -> Nat]]]
        /\ usersConfig' \in [Users -> UserConfiguration]
    BY <1>1, <1>2 DEF Inv, TypeOK
  <2>2. \A v \in Users, b \in Assets :
          /\ reserves'[b].dBalance[v] <= reserves[b].dBalance[v]
          /\ b \in usersConfig[v].borrowing => b \in usersConfig'[v].borrowing
    BY <1>1, <1>5, <1>6
  <2> HIDE DEF a, x
  <2> QED
    BY <1>1, <1>2, <1>5, <2>1, <2>2, InvKept
<1>8. FlashKept
  BY <1>1, <1>3, <1>4, <1>7, SettleStep
<1>9. \A u \in Users, b \in Assets : ~GainsDebt(u, b)
  BY <1>5, <1>6 DEF GainsDebt
<1> QED
  BY <1>8, <1>9

LEMMA SettleWithDebtStep ==
  ASSUME FlashInv, SettleWithDebt
  PROVE  FlashKept
<1> DEFINE a == Head(flash.left).asset
           x == Head(flash.left).amount
<1>1. /\ NextLoan("variable") /\ now' = now /\ paused' = paused /\ price' = price
      /\ ExecuteBorrow(flash.caller, a, flash.onBehalfOf, x, 0)
  BY DEF SettleWithDebt
<1>2. /\ a \in Assets /\ x \in Nat /\ Inv
      /\ flash.caller \in Users /\ flash.onBehalfOf \in Users
  BY <1>1, NextLoanStep DEF Loan, FlashInv, OpenLoan
<1>3. x # 0
  BY <1>1 DEF ExecuteBorrow, ValidateBorrow
<1>4. Inv'
  <2> HIDE DEF a, x
  <2> QED
    BY <1>1, <1>2, <1>3, ExecuteBorrowStep
<1>5. /\ reserves' = [reserves EXCEPT ![a] = reserves'[a]]
      /\ Priced(reserves'[a])
      /\ BooksMoveBy(reserves[a], reserves'[a], now, 0 - x)
  <2> HIDE DEF a, x
  <2> QED
    BY <1>1, <1>2, ExecuteBorrowKeepsAccounts
<1> QED
  BY <1>1, <1>4, <1>5, SettleStep DEF BooksMoveBy

LEMMA FlashRevertStep ==
  ASSUME FlashInv, FlashRevert
  PROVE  FlashKept
<1>1. /\ SavedSound /\ flash # NoFlashLoan /\ flash' = NoFlashLoan
      /\ reserves' = saved.reserves /\ usersConfig' = saved.usersConfig
      /\ borrowAllowance' = saved.borrowAllowance
      /\ now' = now /\ paused' = paused /\ price' = price
  BY DEF FlashInv, FlashRevert
<1>2. Inv'
  <2>1. paused' \in BOOLEAN /\ price' \in [Assets -> Nat \ {0}] /\ now' \in Nat
    BY <1>1 DEF FlashInv, Inv, TypeOK
  <2> QED
    BY <1>1, <2>1 DEF SavedSound, AllWellFormed, Inv, TypeOK, BorrowFlagTracksDebt
<1>3. FlashBooks => FlashBooks'
  BY <1>1 DEF FlashBooks, BooksBalance
<1>4. FlashRates => FlashRates'
  BY <1>1 DEF FlashRates
<1> QED
  BY <1>1, <1>2, <1>3, <1>4 DEF FlashKept, FlashInv

LEMMA EveryFlashStep ==
  ASSUME FlashInv, [FlashNext]_flashVars
  PROVE  FlashKept
<1>1. ASSUME NEW caller \in Users, NEW u \in Users, NEW b \in Batches, FlashLend(caller, u, b)
      PROVE  FlashKept
  BY <1>1, FlashLendStep
<1>2. CASE Callback
  BY <1>2, CallsTakeNoTime, PoolStep DEF Callback, Timeless, Next
<1>3. CASE CallbackReturns
  <2>1. /\ flash # NoFlashLoan /\ flash \in OpenLoan /\ vars' = vars /\ saved' = saved
        /\ flash' = [flash EXCEPT !.phase = "settle"]
    BY <1>3 DEF CallbackReturns, NoFlashLoan, FlashInv
  <2>2. flash' \in OpenLoan /\ flash'.left = flash.left /\ flash' # NoFlashLoan
    BY <2>1 DEF OpenLoan, NoFlashLoan
  <2>3. Inv' /\ SavedSound'
    BY <2>1, EveryStep DEF FlashInv, SavedSound, vars
  <2> QED
    BY <2>1, <2>2, <2>3
       DEF FlashKept, FlashInv, FlashBooks, BooksBalance, FlashRates, LoanLeft, vars
<1>4. CASE SettleWithReturn
  BY <1>4, SettleWithReturnStep
<1>5. CASE SettleWithDebt
  BY <1>5, SettleWithDebtStep
<1>6. CASE FlashRevert
  BY <1>6, FlashRevertStep
<1>7. CASE BetweenTransactions
  BY <1>7, PoolStep DEF BetweenTransactions
<1>8. CASE UNCHANGED flashVars
  BY <1>8, PoolStep DEF flashVars, vars
<1> QED
  BY <1>1, <1>2, <1>3, <1>4, <1>5, <1>6, <1>7, <1>8 DEF FlashNext

-----------------------------------------------------------------------------
LEMMA FlashInitSound == FlashInit => FlashInv /\ FlashBooks /\ FlashRates
<1> SUFFICES ASSUME FlashInit PROVE FlashInv /\ FlashBooks /\ FlashRates
  OBVIOUS
<1>1. Init /\ flash = NoFlashLoan
  BY DEF FlashInit
<1>2. Inv /\ BooksBalance /\ RatesReflectLiquidity
  BY <1>1, InitInv, InitBalanced, InitPriced
<1>3. \A a \in Assets : PricedIfHeld(reserves[a])
  BY <1>2, RatesMeanPriced DEF Inv
<1> QED
  BY <1>1, <1>2, <1>3 DEF FlashInv, FlashBooks, FlashRates

LEMMA FlashInvariance == FlashSpec => [](FlashInv /\ FlashBooks)
<1>1. FlashInit => FlashInv /\ FlashBooks
  BY FlashInitSound
<1>2. FlashInv /\ FlashBooks /\ [FlashNext]_flashVars => FlashInv' /\ FlashBooks'
  BY EveryFlashStep DEF FlashKept
<1> QED
  BY <1>1, <1>2, PTL DEF FlashSpec

(* Nothing a receiver does in the callback, and no revert afterwards,      *)
(* breaks what holds of the pool without flash loans: the types, the       *)
(* borrowing flags, the sums of the balances, the exact withdrawal and     *)
(* repayment in full.                                                      *)
THEOREM FlashLoansKeepTheInvariants ==
  FlashSpec => [](/\ TypeOK /\ BorrowFlagTracksDebt /\ TotalsMatchBalances
                  /\ WithdrawableInFull /\ RepayableWhileEarning)
<1>1. FlashInv /\ FlashBooks =>
        /\ TypeOK /\ BorrowFlagTracksDebt /\ TotalsMatchBalances
        /\ WithdrawableInFull /\ RepayableWhileEarning
  BY DepositorsCanLeave, BorrowersCanClear, BalancedBooks DEF FlashInv, FlashBooks, Inv
<1> QED
  BY <1>1, FlashInvariance, PTL

(* While a loan is out the pool computes rates for a liquidity it does not *)
(* have, and anybody may store them by a call in the callback; when the    *)
(* last loan is settled, or the transaction undone, the stored rates are   *)
(* those of the real liquidity again.  As without flash loans, except for  *)
(* a liquidation of a reserve's debt out of the same reserve.              *)
THEOREM RatesAreRightAfterwards ==
  FlashSpec /\ [][~SelfLiquidation]_vars => []RatesReflectLiquidityAfterwards
<1>1. FlashInit => FlashRates
  BY FlashInitSound
<1>2. FlashInv /\ FlashRates /\ [FlashNext]_flashVars /\ [~SelfLiquidation]_vars => FlashRates'
  BY EveryFlashStep DEF FlashKept
<1>3. FlashInv /\ FlashRates => RatesReflectLiquidityAfterwards
  <2> SUFFICES ASSUME FlashInv, FlashRates, flash = NoFlashLoan PROVE RatesReflectLiquidity
    BY DEF RatesReflectLiquidityAfterwards
  <2> QED
    BY RatesMeanPriced DEF FlashInv, Inv, FlashRates, LoanLeft
<1> QED
  BY <1>1, <1>2, <1>3, FlashInvariance, PTL DEF FlashSpec

-----------------------------------------------------------------------------
(* Where the value goes. *)

(* What the open loan still has out, whichever settlement is next.         *)
LEMMA OutstandingIsNat ==
  ASSUME FlashInv, NEW a
  PROVE  Outstanding(a) \in Nat
BY LentIsNat DEF FlashInv, OpenLoan, Outstanding

LEMMA OutstandingShrinks ==
  ASSUME FlashInv, NEW mode, NextLoan(mode), NEW a
  PROVE  /\ Outstanding(a)' \in Nat
         /\ Outstanding(a) = Outstanding(a)'
              + (IF Head(flash.left).asset = a THEN Head(flash.left).amount ELSE 0)
<1>1. flash # NoFlashLoan /\ flash.left \in Seq(Loan) \ {<<>>} /\ flash \in OpenLoan
  BY DEF NextLoan, FlashInv, NoFlashLoan, OpenLoan
<1>2. Outstanding(a) = LentOf(Tail(flash.left), a)
        + (IF Head(flash.left).asset = a THEN Head(flash.left).amount ELSE 0)
  BY <1>1, LentOfRest DEF Outstanding
<1>3. /\ Tail(flash.left) \in Seq(Loan) /\ LentOf(Tail(flash.left), a) \in Nat
      /\ Len(flash.left) = 1 => \A i \in DOMAIN Tail(flash.left) : FALSE
  <2> DEFINE left == flash.left
  <2>1. left \in Seq(Loan) \ {<<>>}
    BY <1>1
  <2> HIDE DEF left
  <2>2. /\ Tail(left) \in Seq(Loan)
        /\ Len(left) = 1 => \A i \in DOMAIN Tail(left) : FALSE
    <3>1. /\ Tail(left) \in Seq(Loan) /\ Len(Tail(left)) = Len(left) - 1
          /\ DOMAIN Tail(left) = 1 .. Len(Tail(left))
      BY <2>1
    <3>2. 1 .. (1 - 1) = {}
      OBVIOUS
    <3> QED
      BY <3>1, <3>2
  <2>3. LentOf(Tail(left), a) \in Nat
    <3> DEFINE rest == Tail(left)
    <3>1. rest \in Seq(Loan)
      BY <2>2
    <3> HIDE DEF rest
    <3>2. LentOf(rest, a) \in Nat
      BY <3>1, LentIsNat
    <3> QED
      BY <3>2 DEF rest
  <2> QED
    BY <2>2, <2>3 DEF left
<1>4. CASE Len(flash.left) = 1
  <2>1. flash' = NoFlashLoan
    BY <1>4 DEF NextLoan, AfterFirst
  <2>2. \A i \in DOMAIN Tail(flash.left) : FALSE
    BY <1>3, <1>4
  <2>3. LentOf(Tail(flash.left), a) = 0
    BY <1>3, <2>2, LentIsNat
  <2> QED
    BY <1>2, <2>1, <2>3 DEF Outstanding
<1>5. CASE Len(flash.left) # 1
  <2>1. flash' = [flash EXCEPT !.left = Tail(flash.left)]
    BY <1>5 DEF NextLoan, AfterFirst
  <2>2. flash'.left = Tail(flash.left) /\ flash' # NoFlashLoan
    <3>1. flash'.phase = flash.phase /\ flash.phase \in {"callback", "settle"}
      BY <1>1, <2>1 DEF OpenLoan
    <3> QED
      BY <1>1, <2>1, <3>1 DEF OpenLoan, NoFlashLoan
  <2> QED
    BY <1>2, <1>3, <2>2 DEF Outstanding
<1> QED
  BY <1>4, <1>5

(* What is missing from asset a and not out on loan.                       *)
Missing(a) == Gap(UpdateState(reserves[a], now)) - Outstanding(a)

LEMMA PremiumAndClaims ==
  ASSUME Inv, NEW a \in Assets, NEW x \in Nat
  PROVE  Premium(x) \in Nat /\ Claims(a) \in Nat
<1> DEFINE s == Settled(a)
<1>1. now \in Nat /\ WellFormed(reserves[a], now)
  BY DEF Inv, TypeOK, AllWellFormed
<1>2. WellFormed(s, now)
  BY <1>1, Settling DEF Settled
<1>3. s.aSupply \in Nat /\ NormalizedIncome(s, now) \in Nat
  BY <1>1, <1>2, IncomeIsAccrued, ReserveFields DEF WellFormed
<1>4. Claims(a) \in Nat
  BY <1>3, RayMulIsNat DEF Claims, TotalSupply
<1>5. x * FLASHLOAN_PREMIUM_TOTAL \in Nat
  BY FlashLoanConstants, ProductIsNat
<1> QED
  BY <1>4, <1>5, QuotientBounds DEF Premium

LEMMA Missings ==
  ASSUME FlashInv, NEW a \in Assets
  PROVE  /\ WellFormed(reserves[a], now) /\ now \in Nat /\ reserves[a] \in Reserve
         /\ Gap(Settled(a)) \in Int /\ Dust(Settled(a)) \in Nat
         /\ Outstanding(a) \in Nat /\ PremiumDust(a) \in Nat
<1>1. now \in Nat /\ WellFormed(reserves[a], now)
  BY DEF FlashInv, Inv, TypeOK, AllWellFormed
<1>2. Gap(Settled(a)) \in Int /\ Dust(Settled(a)) \in Nat
  BY <1>1, Settling, DustCovers DEF Settled
<1>3. Claims(a) \in Nat /\ \A x \in Nat : Premium(x) \in Nat
  BY PremiumAndClaims DEF FlashInv
<1>4. PremiumDust(a) \in Nat
  <2> DEFINE loan == Head(flash.left)
             d == Claims(a) + 1
  <2>1. CASE flash.phase = "settle"
    <3>1. flash \in OpenLoan
      BY <2>1 DEF FlashInv, NoFlashLoan
    <3>2. loan.amount \in Nat
      <4> DEFINE left == flash.left
      <4>1. left \in Seq(Loan) \ {<<>>}
        BY <3>1 DEF OpenLoan
      <4> HIDE DEF left
      <4>2. Head(left) \in Loan
        BY <4>1
      <4> QED
        BY <4>2 DEF left, Loan
    <3>4. Premium(loan.amount) \in Nat
      BY <1>3, <3>2
    <3>5. Claims(a) \div RAY \in Nat
      BY <1>3, ScalesPositive, QuotientBounds
    <3>6. d \in Nat \ {0}
      BY <1>3
    <3> HIDE DEF d
    <3>7. Premium(loan.amount) \div d \in Nat
      BY <3>4, <3>6, QuotientBounds
    <3> QED
      BY <3>5, <3>7 DEF PremiumDust, d
  <2>2. CASE flash.phase # "settle"
    BY <2>2 DEF PremiumDust
  <2> QED
    BY <2>1, <2>2
<1> QED
  BY <1>1, <1>2, <1>4, OutstandingIsNat DEF WellFormed

(* The money a loan takes out is what the pool is owed for it.             *)
LEMMA LendingKeepsValue ==
  ASSUME FlashInv, NEW caller \in Users, NEW u \in Users, NEW loans \in Batches,
         FlashLend(caller, u, loans), NEW a \in Assets
  PROVE  Missing(a)' = Missing(a)
<1> DEFINE lent == LentOf(loans, a)
           s == UpdateState(reserves[a], now)
<1>1. /\ loans \in Seq(Loan) /\ now' = now /\ flash = NoFlashLoan
      /\ reserves'[a] = Release(reserves[a], lent) /\ flash'.left = loans
      /\ flash'.phase = "callback"
  BY FlashLoanConstants DEF FlashLend
<1>2. lent \in Nat
  BY <1>1, LentIsNat
<1>3. Outstanding(a) = 0 /\ Outstanding(a)' = lent
  BY <1>1 DEF Outstanding, NoFlashLoan
<1>4. WellFormed(s, now) /\ Gap(s) \in Int
  BY Missings, Settling
<1>5. UpdateState(reserves'[a], now) = Release(s, lent)
  BY <1>1, Missings, LendingSettles
<1> HIDE DEF s, lent
<1>6. Gap(UpdateState(reserves'[a], now)) = Gap(s) + lent
  BY <1>2, <1>4, <1>5, CashMovesGap
<1>7. Missing(a)' = (Gap(s) + lent) - lent
  BY <1>1, <1>3, <1>6 DEF Missing
<1> QED
  BY <1>2, <1>3, <1>4, <1>7 DEF Missing, s

(* A settlement that pays for what is not out any more.                    *)
LEMMA SettlementKeepsValue ==
  ASSUME FlashInv, NEW mode, NextLoan(mode), now' = now, NEW extra \in Nat,
         LET b == Head(flash.left).asset
             s == UpdateState(reserves[b], now)
         IN  /\ reserves' = [reserves EXCEPT ![b] = reserves'[b]]
             /\ Gap(UpdateState(reserves'[b], now)) \in Int
             /\ Gap(UpdateState(reserves'[b], now)) <= Gap(s) - Head(flash.left).amount + extra,
         NEW a \in Assets
  PROVE  Missing(a)' <= Missing(a) + (IF Head(flash.left).asset = a THEN extra ELSE 0)
<1> DEFINE b == Head(flash.left).asset
           x == Head(flash.left).amount
           g == Gap(UpdateState(reserves[a], now))
           h == Gap(UpdateState(reserves'[a], now))
           o == Outstanding(a)'
<1>1. o \in Nat /\ Outstanding(a) = o + (IF b = a THEN x ELSE 0)
  BY OutstandingShrinks
<1>2. x \in Nat /\ b \in Assets
  BY NextLoanStep DEF Loan
<1>3. g \in Int
  BY Missings DEF Settled
<1>4. Missing(a)' = h - o /\ Missing(a) = g - Outstanding(a)
  BY DEF Missing
<1>5. CASE b = a
  <2>1. h \in Int /\ h <= g - x + extra
    BY <1>5
  <2>2. Outstanding(a) = o + x
    BY <1>1, <1>5
  <2> HIDE DEF g, h, o, x, b
  <2>3. h - o <= (g - (o + x)) + extra
    BY <1>1, <1>2, <1>3, <2>1
  <2> QED
    BY <1>4, <1>5, <2>2, <2>3 DEF b
<1>6. CASE b # a
  <2>1. reserves'[a] = reserves[a]
    BY <1>2, <1>6, Missings DEF FlashInv, Inv, AllWellFormed
  <2>2. h = g
    BY <2>1
  <2>3. Outstanding(a) = o
    BY <1>1, <1>6
  <2> HIDE DEF g, h, o, b
  <2> QED
    BY <1>1, <1>3, <1>4, <1>6, <2>2, <2>3 DEF b
<1> QED
  BY <1>5, <1>6

SoundReserves ==
  \A a \in Assets : WellFormed(reserves[a], now) /\ Gap(UpdateState(reserves[a], now)) \in Int

LEMMA SoundAtAnyTime == FlashInv => SoundReserves
<1> SUFFICES ASSUME FlashInv, NEW a \in Assets
             PROVE  WellFormed(reserves[a], now) /\ Gap(UpdateState(reserves[a], now)) \in Int
  BY DEF SoundReserves
<1> QED
  BY Missings DEF Settled

LEMMA EveryFlashStepKeepsValue ==
  ASSUME FlashInv, FlashInv', [FlashNext]_flashVars, now' = now, ~Undone, NEW a \in Assets
  PROVE  Missing(a)' <= Missing(a) + Dust(Settled(a)) + PremiumDust(a)
<1>1. Missing(a) \in Int /\ Dust(Settled(a)) \in Nat /\ PremiumDust(a) \in Nat
  BY Missings DEF Missing, Settled
<1>2. CASE Missing(a)' = Missing(a)
  BY <1>1, <1>2
<1>0. /\ \A b \in Assets : (WellFormed(reserves[b], now))'
      /\ \A b \in Assets : Gap(UpdateState(reserves'[b], now)) \in Int
  <2>1. SoundReserves'
    BY SoundAtAnyTime, PTL
  <2> QED
    BY <2>1 DEF SoundReserves
(* A transaction of anybody, or nothing. *)
<1>3. CASE [Next]_vars /\ Outstanding(a)' = Outstanding(a)
  <2> DEFINE s == Settled(a)
             n == UpdateState(reserves'[a], now)
  <2>1. Gap(n) <= Gap(s) + 0 + Dust(s)
    BY <1>3, EveryStepKeepsAccounts DEF FlashInv, BooksKept, KeepsBooks, BooksMoveBy, Settled
  <2>2. Gap(n) \in Int
    BY <1>0
  <2>3. Missing(a)' = Gap(n) - Outstanding(a) /\ Missing(a) = Gap(s) - Outstanding(a)
    BY <1>3 DEF Missing, Settled
  <2> HIDE DEF n, s
  <2>4. Gap(n) <= Gap(s) + Dust(Settled(a)) /\ Gap(s) \in Int /\ Outstanding(a) \in Nat
    BY <1>1, <2>1, Missings DEF s
  <2> QED
    BY <1>1, <2>2, <2>3, <2>4
<1>4. ASSUME NEW caller \in Users, NEW u \in Users, NEW loans \in Batches,
             FlashLend(caller, u, loans)
      PROVE  Missing(a)' = Missing(a)
  BY <1>4, LendingKeepsValue
<1>5. Callback => [Next]_vars /\ Outstanding(a)' = Outstanding(a)
  BY DEF Callback, Next, Outstanding
<1>6. BetweenTransactions => [Next]_vars /\ Outstanding(a)' = Outstanding(a)
  BY DEF BetweenTransactions, Outstanding
<1>7. UNCHANGED flashVars => [Next]_vars /\ Outstanding(a)' = Outstanding(a)
  BY DEF flashVars, Outstanding
<1>8. CallbackReturns => [Next]_vars /\ Outstanding(a)' = Outstanding(a)
  <2> SUFFICES ASSUME CallbackReturns PROVE Outstanding(a)' = Outstanding(a)
    BY DEF CallbackReturns
  <2>1. /\ flash # NoFlashLoan /\ flash \in OpenLoan
        /\ flash' = [flash EXCEPT !.phase = "settle"]
    BY DEF CallbackReturns, NoFlashLoan, FlashInv
  <2>2. flash'.left = flash.left /\ flash' # NoFlashLoan
    BY <2>1 DEF OpenLoan, NoFlashLoan
  <2> QED
    BY <2>1, <2>2 DEF Outstanding
<1>9. CASE SettleWithReturn
  <2> DEFINE b == Head(flash.left).asset
             x == Head(flash.left).amount
             n == Returned(reserves[b], x)
             e == PremiumRounding(Premium(x), Claims(b))
  <2>1. /\ NextLoan("none") /\ flash.phase = "settle" /\ Head(flash.left).mode = "none"
        /\ CanCumulate(TotalSupply(UpdateState(reserves[b], now), now))
        /\ CanUpdateInterestRates(reserves[b], x + Premium(x), 0)
        /\ reserves' = [reserves EXCEPT ![b] = n]
    BY <1>9 DEF SettleWithReturn, NextLoan
  <2>2. b \in Assets /\ x \in Nat /\ Inv
    BY <2>1, NextLoanStep DEF Loan, FlashInv
  <2>3. /\ WellFormed(n, now) /\ n.lastUpdate = now
        /\ Gap(n) <= Gap(Settled(b)) - x + e
    <3> HIDE DEF b, x
    <3> QED
      BY <2>1, <2>2, ReturnedSound
  <2> HIDE DEF n
  <2>4. reserves'[b] = n /\ reserves' = [reserves EXCEPT ![b] = reserves'[b]]
    BY <2>1, <2>2 DEF Inv, AllWellFormed
  <2>5. UpdateState(reserves'[b], now) = n /\ Gap(n) \in Int
    BY <2>2, <2>3, <2>4, Missings, SettledIsStable, GapIsInt
  <2>6. b = a => PremiumDust(a) + 2 = e /\ Dust(Settled(a)) >= 2
    <3> SUFFICES ASSUME b = a PROVE PremiumDust(a) + 2 = e /\ Dust(Settled(a)) >= 2
      OBVIOUS
    <3>1. PremiumDust(a) = Claims(a) \div RAY + Premium(x) \div (Claims(a) + 1)
      BY <2>1 DEF PremiumDust
    <3>2. Dust(Settled(a)) >= 2
      <4> DEFINE s == Settled(a)
      <4>1. s.liquidityIndex + s.variableBorrowIndex \in Nat /\ 2 * RAY \in Nat \ {0}
        BY Missings, Settling, ReserveFields, ScalesPositive DEF Settled, WellFormed
      <4> HIDE DEF s
      <4>2. (s.liquidityIndex + s.variableBorrowIndex) \div (2 * RAY) \in Nat
        BY <4>1, QuotientBounds
      <4> QED
        BY <4>2 DEF Dust, s
    <3> QED
      BY <3>1, <3>2 DEF PremiumRounding
  <2>7. e \in Nat
    <3>1. Premium(x) \in Nat /\ Claims(b) \in Nat
      BY <2>2, PremiumAndClaims
    <3> QED
      BY <3>1, PremiumRoundingIsNat
  <2>8. Missing(a)' <= Missing(a) + (IF b = a THEN e ELSE 0)
    <3> HIDE DEF e
    <3> QED
      BY <2>1, <2>3, <2>4, <2>5, <2>7, SettlementKeepsValue DEF Settled
  <2>9. Missing(a)' \in Int
    BY <1>0, OutstandingShrinks, <2>1 DEF Missing
  <2> HIDE DEF b, e
  <2>10. CASE b = a
    BY <1>1, <2>6, <2>8, <2>9, <2>10
  <2>11. CASE b # a
    BY <1>1, <2>8, <2>9, <2>11
  <2> QED
    BY <2>10, <2>11
<1>10. CASE SettleWithDebt
  <2> DEFINE b == Head(flash.left).asset
             x == Head(flash.left).amount
             e == Dust(Settled(b))
  <2>1. /\ NextLoan("variable")
        /\ ExecuteBorrow(flash.caller, b, flash.onBehalfOf, x, 0)
    BY <1>10 DEF SettleWithDebt
  <2>2. /\ b \in Assets /\ x \in Nat /\ Inv
        /\ flash.caller \in Users /\ flash.onBehalfOf \in Users
    BY <2>1, NextLoanStep DEF Loan, FlashInv, OpenLoan
  <2>3. /\ reserves' = [reserves EXCEPT ![b] = reserves'[b]]
        /\ BooksMoveBy(reserves[b], reserves'[b], now, 0 - x)
    <3> HIDE DEF b, x
    <3> QED
      BY <2>1, <2>2, ExecuteBorrowKeepsAccounts
  <2>4. e \in Nat /\ Gap(Settled(b)) \in Int
    BY <2>2, Missings
  <2>5. Gap(UpdateState(reserves'[b], now)) <= Gap(Settled(b)) - x + e
    <3> DEFINE h == Gap(UpdateState(reserves'[b], now))
               g == Gap(Settled(b))
    <3>1. h <= g + (0 - x) + e
      BY <2>3 DEF BooksMoveBy, Settled
    <3>2. h \in Int
      BY <1>0, <2>2
    <3> HIDE DEF h, g, e, x
    <3> QED
      BY <2>2, <2>4, <3>1, <3>2 DEF h, g
  <2>6. Missing(a)' <= Missing(a) + (IF b = a THEN e ELSE 0)
    <3> HIDE DEF e
    <3> QED
      BY <1>0, <2>1, <2>2, <2>3, <2>4, <2>5, SettlementKeepsValue DEF Settled
  <2>9. Missing(a)' \in Int
    BY <1>0, OutstandingShrinks, <2>1 DEF Missing
  <2> HIDE DEF b
  <2>10. CASE b = a
    BY <1>1, <2>6, <2>9, <2>10
  <2>11. CASE b # a
    BY <1>1, <2>6, <2>9, <2>11
  <2> QED
    BY <2>10, <2>11
<1>11. ~FlashRevert
  <2> SUFFICES ASSUME FlashRevert PROVE FALSE
    OBVIOUS
  <2>1. Storage' = saved
    BY DEF FlashRevert, Storage, FlashInv, SavedSound
  <2> QED
    BY <2>1 DEF FlashRevert, Undone
<1> QED
  BY <1>2, <1>3, <1>4, <1>5, <1>6, <1>7, <1>8, <1>9, <1>10, <1>11 DEF FlashNext

(* Whatever a receiver calls back, whichever loans it pays and whichever   *)
(* it leaves as debt, the depositors' claims grow on what backs them by no *)
(* more than the premium that came in and what one operation rounds.       *)
THEOREM FlashLoansAreFair == FlashSpec => FlashConservesValue
<1>1. FlashInv /\ FlashInv' /\ AsBooked /\ AsBooked' /\ [FlashNext]_flashVars
        => [now' = now /\ ~Undone =>
              \A a \in Assets :
                FlashDeficit(a)' <= FlashDeficit(a) + RoundingDust(a) + PremiumDust(a)]_flashVars
  <2> SUFFICES ASSUME FlashInv, FlashInv', AsBooked, AsBooked', [FlashNext]_flashVars,
                      now' = now, ~Undone, NEW a \in Assets
               PROVE  FlashDeficit(a)' <= FlashDeficit(a) + RoundingDust(a) + PremiumDust(a)
    OBVIOUS
  <2>1. Missing(a)' <= Missing(a) + Dust(Settled(a)) + PremiumDust(a)
    BY EveryFlashStepKeepsValue
  <2>2. FlashDeficit(a) = Missing(a) /\ RoundingDust(a) = Dust(Settled(a))
    BY DEF AsBooked, FlashDeficit, Missing, Settled
  <2>3. FlashDeficit(a)' = Missing(a)'
    BY DEF AsBooked, FlashDeficit, Missing, Settled
  <2> QED
    BY <2>1, <2>2, <2>3
<1>2. FlashInv => AsBooked
  BY DeficitIsGap DEF FlashInv
<1> QED
  BY <1>1, <1>2, FlashInvariance, PTL DEF FlashSpec, FlashConservesValue

-----------------------------------------------------------------------------
(* Whose debt grows. *)

(* The debt of a borrow is what is asked, scaled, and the delegate pays it *)
(* out of its delegation.                                                  *)
LEMMA BorrowedIsPaidFor ==
  ASSUME Inv, Inv', NEW caller \in Users, NEW a \in Assets, NEW u \in Users, NEW x \in Nat \ {0},
         NEW released \in Nat, ExecuteBorrow(caller, a, u, x, released), caller # u
  PROVE  DelegationPaysFor(caller, a, u)
<1> DEFINE s == UpdateState(reserves[a], now)
           d == MintDebt(s, u, x)
           p == UpdateInterestRates(d, 0, released)
           n == Release(p, released)
<1>1. /\ now \in Nat /\ WellFormed(reserves[a], now)
      /\ CanUpdateInterestRates(d, 0, released)
      /\ reserves' = [reserves EXCEPT ![a] = n]
      /\ reserves \in [Assets -> Reserve]
  BY DEF Inv, TypeOK, AllWellFormed, ExecuteBorrow
<1>2. borrowAllowance' = [borrowAllowance EXCEPT ![a][u][caller] = borrowAllowance[a][u][caller] - x]
  BY DEF ExecuteBorrow
<1>3. WellFormed(s, now) /\ s.dBalance = reserves[a].dBalance
  BY <1>1, UpdateStateSound DEF SamePositions
<1> HIDE DEF s
<1>4. RayDiv(x, s.variableBorrowIndex) \in Nat /\ s.dBalance[u] \in Nat
  BY <1>3, ScaledIsNat, ReserveFields, <1>1 DEF WellFormed
<1>5. /\ WellFormed(d, now) /\ d.variableBorrowIndex = s.variableBorrowIndex
      /\ d.dBalance[u] = s.dBalance[u] + RayDiv(x, s.variableBorrowIndex)
  <2>1. WellFormed(d, now) /\ SameIndexes(s, d)
    BY <1>1, <1>3, MintDebtSound
  <2>2. d.dBalance[u] = s.dBalance[u] + RayDiv(x, s.variableBorrowIndex)
    <3>1. s \in Reserve /\ s.dBalance \in [Users -> Nat]
      BY <1>3, ReserveFields DEF WellFormed
    <3> QED
      BY <3>1 DEF MintDebt, Reserve
  <2> QED
    BY <2>1, <2>2 DEF SameIndexes
<1> HIDE DEF d
<1>6. /\ WellFormed(p, now) /\ p.variableBorrowIndex = d.variableBorrowIndex
      /\ p.dBalance = d.dBalance
  BY <1>1, <1>5, UpdateInterestRatesSound DEF SamePositions
<1> HIDE DEF p
<1>7. n.variableBorrowIndex = p.variableBorrowIndex /\ n.dBalance = p.dBalance
  BY <1>6 DEF Release, WellFormed, Reserve
<1> HIDE DEF n
<1>8. reserves'[a] = n
  BY <1>1
<1>9. RayDiv(x, reserves'[a].variableBorrowIndex)
        = reserves'[a].dBalance[u] - reserves[a].dBalance[u]
  BY <1>3, <1>4, <1>5, <1>6, <1>7, <1>8
<1>10. borrowAllowance[a][u][caller] - borrowAllowance'[a][u][caller] = x
  <2>1. /\ borrowAllowance \in [Assets -> [Users -> [Users -> Nat]]]
        /\ borrowAllowance[a][u][caller] \in Nat
    BY DEF Inv, TypeOK
  <2>2. borrowAllowance'[a][u][caller] = borrowAllowance[a][u][caller] - x
    BY <1>2, <2>1
  <2> QED
    BY <2>1, <2>2
<1> QED
  BY <1>9, <1>10 DEF DelegationPaysFor

(* Consent as DebtIsConsented asks for it. *)
Consented(u, a) ==
  \/ \E x \in Amounts : Borrow(u, a, u, x)
  \/ \E v \in Users \ {u} : DelegationPaysFor(v, a, u)

(* Where no allowance is spent nobody but the borrower makes its debt.     *)
LEMMA NoneSpent ==
  ASSUME Inv, ByConsent, borrowAllowance' = borrowAllowance, NEW u \in Users, NEW a \in Assets,
         GainsDebt(u, a)
  PROVE  Consented(u, a)
<1>1. \A v \in Users : borrowAllowance[a][u][v] \in Nat
  BY DEF Inv, TypeOK
<1>2. ~DelegateSpends(u, a)
  BY <1>1 DEF DelegateSpends
<1> QED
  BY <1>2 DEF ByConsent, Consented

LEMMA BorrowIsConsented ==
  ASSUME Inv, Inv', ByConsent, NEW caller \in Users, NEW b \in Assets, NEW v \in Users,
         NEW x \in Amounts, Borrow(caller, b, v, x),
         NEW u \in Users, NEW a \in Assets, GainsDebt(u, a)
  PROVE  Consented(u, a)
<1>1. ExecuteBorrow(caller, b, v, x, x) /\ x \in Nat \ {0}
      /\ paused' = paused /\ price' = price /\ now' = now
  BY PoolConstants DEF Borrow
<1>2. u = v /\ a = b
  <2>1. v # u \/ b # a => reserves'[a].dBalance[u] = reserves[a].dBalance[u]
    BY <1>1, ExecuteBorrowStep
  <2>2. reserves[a].dBalance[u] \in Nat
    BY ReserveFields DEF Inv, AllWellFormed
  <2> QED
    BY <2>1, <2>2 DEF GainsDebt
<1>3. CASE caller = u
  BY <1>2, <1>3 DEF Consented
<1>4. CASE caller # u
  <2>1. DelegationPaysFor(caller, a, u)
    BY <1>1, <1>2, <1>4, BorrowedIsPaidFor
  <2> QED
    BY <1>4, <2>1 DEF Consented
<1> QED
  BY <1>3, <1>4

LEMMA EveryCallIsConsented ==
  ASSUME Inv, [Next]_vars, NEW u \in Users, NEW a \in Assets, GainsDebt(u, a)
  PROVE  Consented(u, a)
<1>1. Inv' /\ ByConsent
  BY EveryStep
<1>2. CASE borrowAllowance' = borrowAllowance
  BY <1>1, <1>2, NoneSpent
<1>3. CASE reserves' = reserves
  <2>1. reserves[a].dBalance[u] \in Nat
    BY ReserveFields DEF Inv, AllWellFormed
  <2> QED
    BY <1>3, <2>1 DEF GainsDebt
<1>4. CASE \E caller \in Users, b \in Assets, v \in Users, x \in Amounts :
             Borrow(caller, b, v, x)
  BY <1>1, <1>4, BorrowIsConsented
<1>5. CASE \E v, w \in Users, b \in Assets, x \in AllowanceAmounts : ApproveDelegation(v, w, b, x)
  BY <1>3, <1>5 DEF ApproveDelegation
<1>6. ASSUME NEW b \in Assets, NEW x \in Amounts, NEW v \in Users, Deposit(b, x, v)
      PROVE  borrowAllowance' = borrowAllowance
  BY <1>6 DEF Deposit
<1>7. ASSUME NEW v \in Users, NEW b \in Assets, NEW x \in Amounts \cup {MAX_UINT},
             Withdraw(v, b, x)
      PROVE  borrowAllowance' = borrowAllowance
  BY <1>7 DEF Withdraw
<1>8. ASSUME NEW caller \in Users, NEW b \in Assets, NEW v \in Users,
             NEW x \in Amounts \cup {MAX_UINT}, Repay(caller, b, v, x)
      PROVE  borrowAllowance' = borrowAllowance
  BY <1>8 DEF Repay
<1>9. ASSUME NEW v \in Users, NEW b \in Assets, NEW using \in BOOLEAN,
             SetUserUseReserveAsCollateral(v, b, using)
      PROVE  borrowAllowance' = borrowAllowance
  BY <1>9 DEF SetUserUseReserveAsCollateral
<1>10. ASSUME NEW l \in Users, NEW c \in Assets, NEW d \in Assets, NEW v \in Users,
              NEW x \in Amounts \cup {MAX_UINT}, NEW b \in BOOLEAN,
              LiquidationCall(l, c, d, v, x, b)
       PROVE  borrowAllowance' = borrowAllowance
  BY <1>10 DEF LiquidationCall
<1>11. ASSUME NEW from \in Users, NEW to \in Users, NEW b \in Assets, NEW x \in Amounts,
              Transfer(from, to, b, x)
       PROVE  borrowAllowance' = borrowAllowance
  BY <1>11 DEF Transfer
<1>12. CASE Call
  BY <1>2, <1>4, <1>5, <1>6, <1>7, <1>8, <1>9, <1>10, <1>11, <1>12 DEF Call
<1>13. CASE Environment
  BY <1>3, <1>13 DEF Environment, SetPrice, Tick
<1>14. CASE UNCHANGED vars
  BY <1>3, <1>14 DEF vars
<1> QED
  BY <1>12, <1>13, <1>14 DEF Next

LEMMA SettledDebtIsConsented ==
  ASSUME FlashInv, FlashInv', SettleWithDebt, NEW u \in Users, NEW a \in Assets, GainsDebt(u, a)
  PROVE  \/ flash.phase = "settle" /\ flash.caller = u /\ flash.onBehalfOf = u
         \/ Consented(u, a)
<1> DEFINE b == Head(flash.left).asset
           x == Head(flash.left).amount
           caller == flash.caller
           v == flash.onBehalfOf
<1>1. /\ NextLoan("variable") /\ now' = now /\ paused' = paused /\ price' = price
      /\ ExecuteBorrow(caller, b, v, x, 0) /\ flash.phase = "settle"
  BY DEF SettleWithDebt, NextLoan
<1>2. b \in Assets /\ x \in Nat /\ Inv /\ Inv' /\ caller \in Users /\ v \in Users
  BY <1>1, NextLoanStep DEF Loan, FlashInv, OpenLoan
<1>3. x # 0
  BY <1>1 DEF ExecuteBorrow, ValidateBorrow
<1> HIDE DEF b, x, caller, v
<1>4. u = v /\ a = b
  <2>1. v # u \/ b # a => reserves'[a].dBalance[u] = reserves[a].dBalance[u]
    BY <1>1, <1>2, <1>3, ExecuteBorrowStep
  <2>2. reserves[a].dBalance[u] \in Nat
    BY <1>2, ReserveFields DEF Inv, AllWellFormed
  <2> QED
    BY <2>1, <2>2 DEF GainsDebt
<1>5. CASE caller = u
  BY <1>1, <1>4, <1>5 DEF caller, v
<1>6. CASE caller # u
  <2>1. DelegationPaysFor(caller, a, u)
    BY <1>1, <1>2, <1>3, <1>4, <1>6, BorrowedIsPaidFor
  <2> QED
    BY <1>2, <1>6, <2>1 DEF Consented
<1> QED
  BY <1>5, <1>6

(* A debt, also one made of an unpaid loan and also one made from inside a *)
(* callback, is the borrower's own or spends a delegation to the one who   *)
(* makes it, to the unit: nobody can be made to owe by a flash loan.       *)
THEOREM NobodyOwesUnasked == FlashSpec => DebtIsConsented
<1> DEFINE P == ~Undone =>
                  \A u \in Users, a \in Assets :
                    GainsDebt(u, a) =>
                      \/ flash.phase = "settle" /\ flash.caller = u /\ flash.onBehalfOf = u
                      \/ \E x \in Amounts : Borrow(u, a, u, x)
                      \/ \E v \in Users \ {u} : DelegationPaysFor(v, a, u)
<1>1. ASSUME FlashInv, [FlashNext]_flashVars PROVE P
  <2> SUFFICES ASSUME ~Undone, NEW u \in Users, NEW a \in Assets, GainsDebt(u, a)
               PROVE  \/ flash.phase = "settle" /\ flash.caller = u /\ flash.onBehalfOf = u
                      \/ Consented(u, a)
    BY DEF Consented
  <2>1. FlashInv' /\ Inv /\ reserves[a].dBalance[u] \in Nat
    BY <1>1, EveryFlashStep, ReserveFields DEF FlashKept, FlashInv, Inv, AllWellFormed
  <2>2. CASE [Next]_vars
    BY <2>1, <2>2, EveryCallIsConsented
  <2>3. ASSUME NEW caller \in Users, NEW v \in Users, NEW b \in Batches, FlashLend(caller, v, b)
        PROVE  FALSE
    <3>1. reserves'[a] = Release(reserves[a], LentOf(b, a))
      BY <2>3 DEF FlashLend
    <3>2. reserves'[a].dBalance = reserves[a].dBalance
      BY <2>1, <3>1 DEF Release, Inv, AllWellFormed, Reserve
    <3> QED
      BY <2>1, <3>2 DEF GainsDebt
  <2>4. CASE SettleWithReturn
    BY <1>1, <2>4, SettleWithReturnStep
  <2>5. CASE SettleWithDebt
    BY <1>1, <2>1, <2>5, SettledDebtIsConsented
  <2>6. CASE FlashRevert
    <3>1. Storage' = saved
      BY <1>1, <2>6 DEF FlashRevert, Storage, FlashInv, SavedSound
    <3> QED
      BY <2>6, <3>1 DEF FlashRevert, Undone
  <2>7. Callback => [Next]_vars
    BY DEF Callback, Next
  <2>8. CallbackReturns => [Next]_vars
    BY DEF CallbackReturns
  <2>9. BetweenTransactions => [Next]_vars
    BY DEF BetweenTransactions
  <2>10. UNCHANGED flashVars => [Next]_vars
    BY DEF flashVars
  <2> QED
    BY <1>1, <2>2, <2>3, <2>4, <2>5, <2>6, <2>7, <2>8, <2>9, <2>10 DEF FlashNext
<1>2. FlashInv /\ [FlashNext]_flashVars => P
  BY <1>1
<1> QED
  BY <1>2, FlashInvariance, PTL DEF FlashSpec, DebtIsConsented

-----------------------------------------------------------------------------
(* n is r with another configuration or strategy. *)
Reconfigured(r, n) ==
  /\ \/ \E c \in Configuration : n = [r EXCEPT !.configuration = c]
     \/ \E s \in Strategy : n = [r EXCEPT !.strategy = s]

(* What every step of an administrator comes to. *)
AdministersOnly ==
  /\ UNCHANGED_POSITIONS
  /\ \/ \E a \in Assets, n \in Reserve :
          /\ Reconfigured(reserves[a], n)
          /\ reserves' = [reserves EXCEPT ![a] = n]
          /\ UNCHANGED paused
     \/ reserves' = reserves /\ paused' \in BOOLEAN

-----------------------------------------------------------------------------
LEMMA ReconfiguredSound ==
  ASSUME NEW r, NEW t, WellFormed(r, t), NEW n, Reconfigured(r, n)
  PROVE  /\ WellFormed(n, t)
         /\ n.aBalance = r.aBalance /\ n.dBalance = r.dBalance
         /\ n.aSupply = r.aSupply /\ n.dSupply = r.dSupply
         /\ n.liquidityIndex = r.liquidityIndex
         /\ n.variableBorrowIndex = r.variableBorrowIndex
<1>1. CASE \E c \in Configuration : n = [r EXCEPT !.configuration = c]
  BY <1>1 DEF WellFormed, Reserve
<1>2. CASE \E s \in Strategy : n = [r EXCEPT !.strategy = s]
  BY <1>2 DEF WellFormed, Reserve
<1> QED
  BY <1>1, <1>2 DEF Reconfigured

LEMMA SetConfigurationAdministers ==
  ASSUME Inv, NEW a \in Assets, NEW c \in Configuration, SetConfiguration(a, c)
  PROVE  AdministersOnly
<1> DEFINE n == [reserves[a] EXCEPT !.configuration = c]
<1>1. reserves \in [Assets -> Reserve] /\ WellFormed(reserves[a], now)
  BY DEF Inv, AllWellFormed
<1>2. Reconfigured(reserves[a], n)
  BY DEF Reconfigured
<1>3. n \in Reserve
  BY <1>1, <1>2, ReconfiguredSound DEF WellFormed
<1>4. reserves' = [reserves EXCEPT ![a] = n]
  BY <1>1 DEF SetConfiguration
<1> HIDE DEF n
<1> QED
  BY <1>2, <1>3, <1>4 DEF AdministersOnly, SetConfiguration

(* Every value the configurator writes is one the pool can hold.           *)
LEMMA AdministerSound ==
  ASSUME Inv, Administer
  PROVE  AdministersOnly
<1>0. \A a \in Assets : reserves[a] \in Reserve /\ reserves[a].configuration \in Configuration
  BY ReserveFields DEF Inv, AllWellFormed
<1>1. ASSUME NEW a \in Assets, NEW x \in BOOLEAN,
             \/ SetConfiguration(a, [reserves[a].configuration EXCEPT !.borrowingEnabled = x])
             \/ SetConfiguration(a, [reserves[a].configuration EXCEPT !.active = x])
             \/ SetConfiguration(a, [reserves[a].configuration EXCEPT !.frozen = x])
      PROVE  AdministersOnly
  <2>1. /\ [reserves[a].configuration EXCEPT !.borrowingEnabled = x] \in Configuration
        /\ [reserves[a].configuration EXCEPT !.active = x] \in Configuration
        /\ [reserves[a].configuration EXCEPT !.frozen = x] \in Configuration
    BY <1>0 DEF Configuration
  <2> QED
    BY <1>1, <2>1, SetConfigurationAdministers
<1>2. ASSUME NEW a \in Assets, NEW x \in Nat,
             \/ SetConfiguration(a, [reserves[a].configuration EXCEPT !.reserveFactor = x])
             \/ SetConfiguration(a, [reserves[a].configuration EXCEPT !.borrowCap = x])
             \/ SetConfiguration(a, [reserves[a].configuration EXCEPT !.supplyCap = x])
      PROVE  AdministersOnly
  <2>1. /\ [reserves[a].configuration EXCEPT !.reserveFactor = x] \in Configuration
        /\ [reserves[a].configuration EXCEPT !.borrowCap = x] \in Configuration
        /\ [reserves[a].configuration EXCEPT !.supplyCap = x] \in Configuration
    BY <1>0 DEF Configuration
  <2> QED
    BY <1>2, <2>1, SetConfigurationAdministers
<1>3. ASSUME NEW a \in Assets, NEW p \in CollateralParameters, ConfigureReserveAsCollateral(a, p)
      PROVE  AdministersOnly
  <2> DEFINE c == [reserves[a].configuration EXCEPT
                     !.ltv = p.ltv,
                     !.liquidationThreshold = p.liquidationThreshold,
                     !.liquidationBonus = p.liquidationBonus]
  <2>1. p \in [ltv : Nat, liquidationThreshold : Nat, liquidationBonus : Nat]
    BY ConfiguratorConstants
  <2>2. c \in Configuration
    BY <1>0, <2>1 DEF Configuration
  <2>3. SetConfiguration(a, c)
    BY <1>3 DEF ConfigureReserveAsCollateral
  <2> HIDE DEF c
  <2> QED
    BY <2>2, <2>3, SetConfigurationAdministers
<1>4. ASSUME NEW a \in Assets, NEW s \in NewStrategies,
             SetReserveInterestRateStrategyAddress(a, s)
      PROVE  AdministersOnly
  <2> DEFINE n == [reserves[a] EXCEPT !.strategy = s]
  <2>1. s \in Strategy /\ WellFormed(reserves[a], now) /\ reserves \in [Assets -> Reserve]
    BY ConfiguratorConstants DEF Inv, AllWellFormed
  <2>2. Reconfigured(reserves[a], n)
    BY <2>1 DEF Reconfigured
  <2>3. n \in Reserve
    BY <2>1, <2>2, ReconfiguredSound DEF WellFormed
  <2>4. reserves' = [reserves EXCEPT ![a] = n]
    BY <1>4, <2>1 DEF SetReserveInterestRateStrategyAddress
  <2> HIDE DEF n
  <2> QED
    BY <1>4, <2>2, <2>3, <2>4 DEF AdministersOnly, SetReserveInterestRateStrategyAddress
<1>5. ASSUME NEW val \in BOOLEAN, SetPoolPause(val)
      PROVE  AdministersOnly
  BY <1>5 DEF SetPoolPause, AdministersOnly
<1>6. CASE \E a \in Assets : \/ EnableBorrowingOnReserve(a) \/ DisableBorrowingOnReserve(a)
                            \/ ActivateReserve(a) \/ DeactivateReserve(a)
                            \/ FreezeReserve(a) \/ UnfreezeReserve(a)
  <2>1. TRUE \in BOOLEAN /\ FALSE \in BOOLEAN
    OBVIOUS
  <2> QED
    BY <1>1, <1>6, <2>1 DEF EnableBorrowingOnReserve, DisableBorrowingOnReserve,
       ActivateReserve, DeactivateReserve, FreezeReserve, UnfreezeReserve
<1>7. CASE \/ \E a \in Assets, f \in ReserveFactors : SetReserveFactor(a, f)
           \/ \E a \in Assets, cap \in BorrowCaps : SetBorrowCap(a, cap)
           \/ \E a \in Assets, cap \in SupplyCaps : SetSupplyCap(a, cap)
  BY <1>2, <1>7, ConfiguratorConstants DEF SetReserveFactor, SetBorrowCap, SetSupplyCap
<1> QED
  BY <1>3, <1>4, <1>5, <1>6, <1>7 DEF Administer

(* The holdings of every reserve, and what they are worth, stand.           *)
HoldingsStand ==
  \A a \in Assets :
    /\ reserves'[a].aBalance = reserves[a].aBalance
    /\ reserves'[a].dBalance = reserves[a].dBalance
    /\ reserves'[a].aSupply = reserves[a].aSupply
    /\ reserves'[a].dSupply = reserves[a].dSupply
    /\ reserves'[a].liquidityIndex = reserves[a].liquidityIndex
    /\ reserves'[a].variableBorrowIndex = reserves[a].variableBorrowIndex

LEMMA AdministerStep ==
  ASSUME Inv, AdministersOnly
  PROVE  Inv' /\ NoIndexShrinks /\ ByConsent /\ HoldingsStand
<1>0. AllWellFormed(reserves, now) /\ now \in Nat /\ paused \in BOOLEAN
  BY DEF Inv, TypeOK
<1>1. AllWellFormed(reserves', now) /\ paused' \in BOOLEAN /\ HoldingsStand
  <2>1. CASE reserves' = reserves /\ paused' \in BOOLEAN
    BY <1>0, <2>1 DEF HoldingsStand
  <2>2. ASSUME NEW a \in Assets, NEW n \in Reserve, Reconfigured(reserves[a], n),
               reserves' = [reserves EXCEPT ![a] = n], paused' = paused
        PROVE  AllWellFormed(reserves', now) /\ paused' \in BOOLEAN /\ HoldingsStand
    <3>1. WellFormed(reserves[a], now)
      BY <1>0 DEF AllWellFormed
    <3>2. /\ WellFormed(n, now)
          /\ n.aBalance = reserves[a].aBalance /\ n.dBalance = reserves[a].dBalance
          /\ n.aSupply = reserves[a].aSupply /\ n.dSupply = reserves[a].dSupply
          /\ n.liquidityIndex = reserves[a].liquidityIndex
          /\ n.variableBorrowIndex = reserves[a].variableBorrowIndex
      BY <2>2, <3>1, ReconfiguredSound
    <3>3. /\ AllWellFormed(reserves', now) /\ reserves'[a] = n
          /\ \A b \in Assets \ {a} : reserves'[b] = reserves[b]
      <4> DEFINE S == [reserves EXCEPT ![a] = n]
      <4>1. /\ AllWellFormed(S, now) /\ S[a] = n
            /\ \A b \in Assets \ {a} : S[b] = reserves[b]
        BY <1>0, <3>2, ReplaceReserve
      <4>2. reserves' = S
        BY <2>2
      <4> QED
        BY <4>1, <4>2
    <3>4. HoldingsStand
      BY <3>2, <3>3 DEF HoldingsStand
    <3>5. paused' \in BOOLEAN
      BY <1>0, <2>2
    <3> QED
      BY <3>3, <3>4, <3>5
  <2> QED
    BY <2>1, <2>2 DEF AdministersOnly
<1>2. /\ usersConfig' = usersConfig /\ borrowAllowance' = borrowAllowance
      /\ price' = price /\ now' = now
  BY DEF AdministersOnly, UNCHANGED_POSITIONS
<1>3. TypeOK'
  BY <1>1, <1>2 DEF Inv, TypeOK, AllWellFormed
<1>4. BorrowFlagTracksDebt'
  BY <1>1, <1>2 DEF Inv, BorrowFlagTracksDebt, HoldingsStand
<1>5. Inv'
  BY <1>1, <1>2, <1>3, <1>4 DEF Inv
<1>6. NoIndexShrinks /\ ByConsent
  <2>1. \A a \in Assets :
          /\ reserves[a].liquidityIndex \in Nat /\ reserves[a].variableBorrowIndex \in Nat
          /\ \A u \in Users : reserves[a].aBalance[u] \in Nat /\ reserves[a].dBalance[u] \in Nat
    BY ReserveFields DEF Inv, AllWellFormed, Accounts
  <2>2. NoIndexShrinks
    BY <1>1, <2>1 DEF NoIndexShrinks, HoldingsStand
  <2>3. ByConsent
    BY <1>1, <2>1, NothingTaken DEF HoldingsStand
  <2> QED
    BY <2>2, <2>3
<1> QED
  BY <1>1, <1>5, <1>6

LEMMA ConfiguratorStep ==
  Inv /\ [ConfiguratorNext]_vars => Inv' /\ NoIndexShrinks /\ ByConsent
BY EveryStep, AdministerSound, AdministerStep DEF ConfiguratorNext

LEMMA ConfiguratorInvariance == ConfiguratorSpec => []Inv
<1>1. Init => Inv
  BY InitInv
<1>2. Inv /\ [ConfiguratorNext]_vars => Inv'
  BY ConfiguratorStep
<1> QED
  BY <1>1, <1>2, PTL DEF ConfiguratorSpec

(* Whatever the administrators do between the calls of the users, every    *)
(* debt still counts and every depositor can withdraw all of its balance.  *)
THEOREM PositionsOutliveAdministration ==
  ConfiguratorSpec => [](TypeOK /\ BorrowFlagTracksDebt /\ WithdrawableInFull)
<1>1. Inv => TypeOK /\ BorrowFlagTracksDebt
  BY DEF Inv
<1>2. Inv => WithdrawableInFull
  BY DepositorsCanLeave
<1> QED
  BY <1>1, <1>2, ConfiguratorInvariance, PTL

(* Nor can an administrator take aTokens from a user or give it debt, or   *)
(* make an index smaller: not by any parameter, pause or freeze.           *)
THEOREM AdministrationTakesNothing ==
  ConfiguratorSpec => IndexesMonotone /\ HealthyAreLeftAlone
<1>1. Inv /\ [ConfiguratorNext]_vars => NoIndexShrinks
  BY ConfiguratorStep
<1>2. Inv /\ [ConfiguratorNext]_vars => ByConsent
  BY ConfiguratorStep
<1> QED
  BY <1>1, <1>2, ConfiguratorInvariance, PTL
     DEF ConfiguratorSpec, IndexesMonotone, HealthyAreLeftAlone

-----------------------------------------------------------------------------
(* A frozen reserve. *)

(* What users hold of the aToken.                                          *)
HeldByUsers(r) == r.aSupply - r.aBalance[Treasury]

(* No more debt, and no more deposits of users.                            *)
Shrinks(r, n) == n.dSupply <= r.dSupply /\ HeldByUsers(n) <= HeldByUsers(r)

LEMMA ShrinksTransitive ==
  ASSUME NEW r \in Reserve, NEW m \in Reserve, NEW n \in Reserve, Shrinks(r, m), Shrinks(m, n)
  PROVE  Shrinks(r, n)
<1>1. /\ r.dSupply \in Nat /\ m.dSupply \in Nat /\ n.dSupply \in Nat
      /\ HeldByUsers(r) \in Int /\ HeldByUsers(m) \in Int /\ HeldByUsers(n) \in Int
  BY ReserveFields DEF HeldByUsers, Accounts
<1> HIDE DEF HeldByUsers
<1> QED
  BY <1>1 DEF Shrinks

LEMMA SameHoldingsShrink ==
  ASSUME NEW r \in Reserve, NEW n, n.dSupply = r.dSupply,
         n.aSupply = r.aSupply, n.aBalance = r.aBalance
  PROVE  Shrinks(r, n)
<1>1. r.dSupply \in Nat /\ HeldByUsers(r) \in Int
  BY ReserveFields DEF HeldByUsers, Accounts
<1> QED
  BY <1>1 DEF Shrinks, HeldByUsers

(* The accrual mints to the treasury alone.                                *)
LEMMA AccrualShrinks ==
  ASSUME NEW r, NEW t \in Nat, WellFormed(r, t)
  PROVE  Shrinks(r, UpdateState(r, t))
<1> DEFINE n == UpdateIndexes(r, t)
           scaled == RayDiv(AmountToTreasury(r, n), n.liquidityIndex)
           b == [n.aBalance EXCEPT ![Treasury] = n.aBalance[Treasury] + scaled]
           m == MintToTreasury(r, n)
<1>1. /\ r \in Reserve /\ n \in Reserve /\ WellFormed(n, t)
      /\ IndexesGrow(r, n) /\ n.dSupply = r.dSupply
      /\ n.aBalance = r.aBalance /\ n.aSupply = r.aSupply
  BY UpdateIndexesSound DEF WellFormed, SamePositions
<1> HIDE DEF n
<1>2. scaled \in Nat
  BY <1>1, AmountToTreasuryIsNat, RayDivIsNat, ReserveFields, ScalesPositive DEF WellFormed
<1>3. m = IF r.configuration.reserveFactor = 0
          THEN n
          ELSE [n EXCEPT !.aBalance = b, !.aSupply = n.aSupply + scaled]
  BY <1>1 DEF MintToTreasury, Reserve
<1> HIDE DEF scaled
<1>4. /\ r.dSupply \in Nat /\ r.aSupply \in Nat /\ r.aBalance \in [Accounts -> Nat]
      /\ Treasury \in Accounts
  BY <1>1, ReserveFields DEF Accounts
<1>5. b[Treasury] = r.aBalance[Treasury] + scaled
  BY <1>1, <1>4
<1> HIDE DEF b, m
<1>6. Shrinks(r, m)
  <2>1. CASE m = n
    BY <1>1, <2>1, SameHoldingsShrink
  <2>2. CASE m = [n EXCEPT !.aBalance = b, !.aSupply = n.aSupply + scaled]
    <3>1. /\ m.dSupply = r.dSupply
          /\ m.aSupply = r.aSupply + scaled
          /\ m.aBalance[Treasury] = r.aBalance[Treasury] + scaled
      BY <1>1, <1>5, <2>2 DEF Reserve
    <3>2. r.aBalance[Treasury] \in Nat
      BY <1>4
    <3> QED
      BY <1>2, <1>4, <3>1, <3>2 DEF Shrinks, HeldByUsers
  <2> QED
    BY <1>3, <2>1, <2>2
<1> QED
  BY <1>6 DEF UpdateState, m, n

(* Burning and moving aTokens of users, and burning debt.                  *)
LEMMA BurningShrinks ==
  ASSUME NEW r, NEW t \in Nat, WellFormed(r, t), NEW u \in Accounts, u # Treasury, NEW x \in Nat
  PROVE  Shrinks(r, BurnAToken(r, u, x))
<1> DEFINE scaled == RayDiv(x, r.liquidityIndex)
           b == [r.aBalance EXCEPT ![u] = r.aBalance[u] - scaled]
           n == BurnAToken(r, u, x)
<1>1. /\ r \in Reserve /\ scaled \in Nat /\ r.dSupply \in Nat /\ r.aSupply \in Nat
      /\ r.aBalance \in [Accounts -> Nat] /\ Treasury \in Accounts
  BY ScaledIsNat, ReserveFields DEF WellFormed, Accounts
<1>2. n = [r EXCEPT !.aBalance = b, !.aSupply = r.aSupply - scaled, !.cash = r.cash - x]
  BY <1>1 DEF BurnAToken, Reserve
<1>3. b[Treasury] = r.aBalance[Treasury] /\ r.aBalance[Treasury] \in Nat
  BY <1>1
<1> HIDE DEF scaled, b, n
<1>4. /\ n.dSupply = r.dSupply /\ n.aSupply = r.aSupply - scaled
      /\ n.aBalance[Treasury] = r.aBalance[Treasury]
  BY <1>1, <1>2, <1>3 DEF Reserve
<1>5. Shrinks(r, n)
  BY <1>1, <1>3, <1>4 DEF Shrinks, HeldByUsers
<1> QED
  BY <1>5 DEF n

LEMMA TransferShrinks ==
  ASSUME NEW r \in Reserve, NEW u \in Accounts, u # Treasury,
         NEW v \in Accounts, v # Treasury, NEW x, NEW t
  PROVE  Shrinks(r, TransferAToken(r, u, v, x, t))
<1> DEFINE scaled == RayDiv(x, NormalizedIncome(r, t))
           less == [r.aBalance EXCEPT ![u] = r.aBalance[u] - scaled]
           b == [less EXCEPT ![v] = less[v] + scaled]
           n == TransferAToken(r, u, v, x, t)
<1>1. /\ r.dSupply \in Nat /\ r.aSupply \in Nat
      /\ r.aBalance \in [Accounts -> Nat] /\ Treasury \in Accounts
  BY ReserveFields DEF Accounts
<1>2. n = [r EXCEPT !.aBalance = b]
  BY <1>1 DEF TransferAToken, Reserve
<1>3. b[Treasury] = r.aBalance[Treasury] /\ r.aBalance[Treasury] \in Nat
  BY <1>1
<1> HIDE DEF b, n
<1>4. /\ n.dSupply = r.dSupply /\ n.aSupply = r.aSupply
      /\ n.aBalance[Treasury] = r.aBalance[Treasury]
  BY <1>2, <1>3 DEF Reserve
<1>5. Shrinks(r, n)
  BY <1>1, <1>3, <1>4 DEF Shrinks, HeldByUsers
<1> QED
  BY <1>5 DEF n

LEMMA BurningDebtShrinks ==
  ASSUME NEW r, NEW t \in Nat, WellFormed(r, t), NEW u \in Users, NEW x \in Nat
  PROVE  Shrinks(r, BurnDebt(r, u, x))
<1> DEFINE scaled == RayDiv(x, r.variableBorrowIndex)
           n == BurnDebt(r, u, x)
<1>1. /\ r \in Reserve /\ scaled \in Nat /\ r.dSupply \in Nat
      /\ HeldByUsers(r) \in Int
  BY ScaledIsNat, ReserveFields DEF WellFormed, HeldByUsers, Accounts
<1>2. /\ n.dSupply = r.dSupply - scaled
      /\ n.aSupply = r.aSupply /\ n.aBalance = r.aBalance
  BY <1>1 DEF BurnDebt, Reserve
<1> HIDE DEF scaled, n
<1>3. Shrinks(r, n)
  BY <1>1, <1>2 DEF Shrinks, HeldByUsers
<1> QED
  BY <1>3 DEF n

LEMMA PricingAndCashShrink ==
  ASSUME NEW r \in Reserve, NEW x, NEW y
  PROVE  /\ Shrinks(r, UpdateInterestRates(r, x, y))
         /\ Shrinks(r, Receive(r, x))
<1>1. /\ UpdateInterestRates(r, x, y).dSupply = r.dSupply
      /\ UpdateInterestRates(r, x, y).aSupply = r.aSupply
      /\ UpdateInterestRates(r, x, y).aBalance = r.aBalance
      /\ Receive(r, x).dSupply = r.dSupply
      /\ Receive(r, x).aSupply = r.aSupply
      /\ Receive(r, x).aBalance = r.aBalance
  BY DEF UpdateInterestRates, Receive, Reserve
<1> QED
  BY <1>1, SameHoldingsShrink

(* A step of the pool on one reserve.                                      *)
LEMMA OneReserveShrinks ==
  ASSUME Inv, NEW a \in Assets, NEW n,
         reserves[a].configuration.frozen => Shrinks(reserves[a], n),
         reserves' = [reserves EXCEPT ![a] = n]
  PROVE  \A b \in Assets : reserves[b].configuration.frozen => Shrinks(reserves[b], reserves'[b])
<1>1. \A b \in Assets : reserves'[b] = IF b = a THEN n ELSE reserves[b]
  BY DEF Inv, AllWellFormed
<1>2. \A b \in Assets : Shrinks(reserves[b], reserves[b])
  BY SameHoldingsShrink DEF Inv, AllWellFormed
<1> QED
  BY <1>1, <1>2

FrozenShrink ==
  \A a \in Assets : reserves[a].configuration.frozen => Shrinks(reserves[a], reserves'[a])

LEMMA WithdrawShrinks ==
  ASSUME Inv, Treasury \notin Users,
         NEW u \in Users, NEW a \in Assets, NEW x \in Amounts \cup {MAX_UINT},
         Withdraw(u, a, x)
  PROVE  FrozenShrink
<1> DEFINE balance == BalanceOf(reserves[a], u, now)
           taken   == IF x = MAX_UINT THEN balance ELSE x
           accrued == UpdateState(reserves[a], now)
           priced  == UpdateInterestRates(accrued, 0, taken)
           n       == BurnAToken(priced, u, taken)
<1>1. /\ now \in Nat /\ x \in Nat /\ u \in Accounts /\ WellFormed(reserves[a], now)
      /\ CanUpdateInterestRates(accrued, 0, taken)
      /\ CanBurnAToken(priced, u, taken)
      /\ reserves' = [reserves EXCEPT ![a] = n]
  BY AmountTypes DEF Inv, TypeOK, AllWellFormed, Withdraw, Accounts
<1>2. taken \in Nat
  <2>1. balance \in Nat
    BY <1>1, BalanceIsNat
  <2> QED
    BY <1>1, <2>1
<1>3. WellFormed(accrued, now) /\ Shrinks(reserves[a], accrued)
  BY <1>1, UpdateStateSound, AccrualShrinks
<1> HIDE DEF accrued, taken
<1>4. WellFormed(priced, now) /\ Shrinks(accrued, priced)
  BY <1>1, <1>2, <1>3, UpdateInterestRatesSound, PricingAndCashShrink DEF WellFormed
<1> HIDE DEF priced
<1>5. WellFormed(n, now) /\ Shrinks(priced, n)
  BY <1>1, <1>2, <1>4, BurnATokenSound, BurningShrinks
<1> HIDE DEF n
<1>6. Shrinks(reserves[a], n)
  <2>1. Shrinks(reserves[a], priced)
    BY <1>1, <1>3, <1>4, ShrinksTransitive DEF WellFormed
  <2> QED
    BY <1>1, <1>4, <1>5, <2>1, ShrinksTransitive DEF WellFormed
<1> QED
  BY <1>1, <1>6, OneReserveShrinks DEF FrozenShrink

LEMMA RepayShrinks ==
  ASSUME Inv, NEW caller \in Users, NEW a \in Assets, NEW u \in Users,
         NEW x \in Amounts \cup {MAX_UINT}, Repay(caller, a, u, x)
  PROVE  FrozenShrink
<1> DEFINE debt    == DebtOf(reserves[a], u, now)
           payback == IF x < debt THEN x ELSE debt
           accrued == UpdateState(reserves[a], now)
           burned  == BurnDebt(accrued, u, payback)
           priced  == UpdateInterestRates(burned, payback, 0)
           n       == Receive(priced, payback)
<1>1. /\ now \in Nat /\ x \in Nat /\ WellFormed(reserves[a], now)
      /\ CanBurnDebt(accrued, u, payback)
      /\ CanUpdateInterestRates(burned, payback, 0)
      /\ reserves' = [reserves EXCEPT ![a] = n]
  BY AmountTypes DEF Inv, TypeOK, AllWellFormed, Repay
<1>2. payback \in Nat
  <2>1. debt \in Nat
    BY <1>1, DebtScalesBack
  <2> QED
    BY <1>1, <2>1
<1>3. WellFormed(accrued, now) /\ Shrinks(reserves[a], accrued)
  BY <1>1, UpdateStateSound, AccrualShrinks
<1> HIDE DEF accrued, payback
<1>4. WellFormed(burned, now) /\ Shrinks(accrued, burned)
  BY <1>1, <1>2, <1>3, BurnDebtSound, BurningDebtShrinks
<1> HIDE DEF burned
<1>5. WellFormed(priced, now) /\ Shrinks(burned, priced)
  BY <1>1, <1>2, <1>4, UpdateInterestRatesSound, PricingAndCashShrink DEF WellFormed
<1> HIDE DEF priced
<1>6. WellFormed(n, now) /\ Shrinks(priced, n)
  BY <1>2, <1>5, <1>1, CashMoves, PricingAndCashShrink DEF WellFormed
<1> HIDE DEF n
<1>7. Shrinks(reserves[a], n)
  <2>1. Shrinks(reserves[a], burned)
    BY <1>1, <1>3, <1>4, ShrinksTransitive DEF WellFormed
  <2>2. Shrinks(reserves[a], priced)
    BY <1>1, <1>4, <1>5, <2>1, ShrinksTransitive DEF WellFormed
  <2> QED
    BY <1>1, <1>5, <1>6, <2>2, ShrinksTransitive DEF WellFormed
<1> QED
  BY <1>1, <1>7, OneReserveShrinks DEF FrozenShrink

LEMMA TransferStepShrinks ==
  ASSUME Inv, Treasury \notin Users,
         NEW from \in Users, NEW to \in Users, NEW a \in Assets, NEW x \in Amounts,
         Transfer(from, to, a, x)
  PROVE  FrozenShrink
<1> DEFINE n == TransferAToken(reserves[a], from, to, x, now)
<1>1. /\ reserves[a] \in Reserve /\ from \in Accounts /\ to \in Accounts
      /\ from # Treasury /\ to # Treasury
      /\ reserves' = [reserves EXCEPT ![a] = n]
  BY DEF Inv, AllWellFormed, Transfer, Accounts
<1>2. Shrinks(reserves[a], n)
  BY <1>1, TransferShrinks
<1> HIDE DEF n
<1> QED
  BY <1>1, <1>2, OneReserveShrinks DEF FrozenShrink

(* No deposit and no borrow is made on a frozen reserve.                   *)
LEMMA DepositShrinks ==
  ASSUME Inv, NEW a \in Assets, NEW x \in Amounts, NEW u \in Users, Deposit(a, x, u)
  PROVE  FrozenShrink
<1> DEFINE paid == Receive(UpdateInterestRates(UpdateState(reserves[a], now), x, 0), x)
           n == MintAToken(paid, u, x)
<1>1. reserves' = [reserves EXCEPT ![a] = n] /\ ~reserves[a].configuration.frozen
  BY DEF Deposit, ValidateDeposit
<1> HIDE DEF n
<1> QED
  BY <1>1, OneReserveShrinks DEF FrozenShrink

LEMMA BorrowShrinks ==
  ASSUME Inv, NEW caller \in Users, NEW a \in Assets, NEW u \in Users, NEW x \in Amounts,
         Borrow(caller, a, u, x)
  PROVE  FrozenShrink
<1> DEFINE owed == MintDebt(UpdateState(reserves[a], now), u, x)
           n == Release(UpdateInterestRates(owed, 0, x), x)
<1>1. reserves' = [reserves EXCEPT ![a] = n] /\ ~reserves[a].configuration.frozen
  BY DEF Borrow, ExecuteBorrow, ValidateBorrow
<1> HIDE DEF n
<1> QED
  BY <1>1, OneReserveShrinks DEF FrozenShrink

(* The reserves on the way of a liquidation.                               *)
AllShrink(R) ==
  AllWellFormed(R, now) /\ \A b \in Assets : Shrinks(reserves[b], R[b])

LEMMA OneMoreShrinks ==
  ASSUME Inv, NEW R, AllShrink(R), NEW a \in Assets, NEW n, WellFormed(n, now), Shrinks(R[a], n)
  PROVE  AllShrink([R EXCEPT ![a] = n])
<1> DEFINE S == [R EXCEPT ![a] = n]
<1>1. AllWellFormed(R, now) /\ now \in Nat
  BY DEF Inv, TypeOK, AllShrink
<1>2. /\ AllWellFormed(S, now) /\ S[a] = n
      /\ \A b \in Assets \ {a} : S[b] = R[b]
  BY <1>1, ReplaceReserve
<1>3. reserves[a] \in Reserve /\ R[a] \in Reserve /\ n \in Reserve
  BY <1>1 DEF Inv, AllWellFormed, WellFormed
<1>4. Shrinks(reserves[a], n)
  BY <1>3, ShrinksTransitive DEF AllShrink
<1> HIDE DEF S
<1>5. \A b \in Assets : Shrinks(reserves[b], S[b])
  BY <1>2, <1>4 DEF AllShrink
<1> QED
  BY <1>2, <1>5 DEF AllShrink, S

LEMMA LiquidationShrinks ==
  ASSUME Inv, Treasury \notin Users,
         NEW l \in Users, NEW c \in Assets, NEW d \in Assets, NEW u \in Users,
         NEW x \in Amounts \cup {MAX_UINT}, NEW receiveAToken \in BOOLEAN,
         LiquidationCall(l, c, d, u, x, receiveAToken)
  PROVE  FrozenShrink
<1> DEFINE taken    == Liquidation(c, d, u, x).seized
           repaid   == Liquidation(c, d, u, x).repaid
           accrued  == UpdateState(reserves[d], now)
           burned   == BurnDebt(accrued, u, repaid)
           priced   == UpdateInterestRates(burned, repaid, 0)
           settled  == [reserves EXCEPT ![d] = priced]
           cAccrued == UpdateState(settled[c], now)
           cPriced  == UpdateInterestRates(cAccrued, 0, taken)
           moved    == IF receiveAToken
                       THEN TransferAToken(settled[c], u, l, taken, now)
                       ELSE BurnAToken(cPriced, u, taken)
           seized   == [settled EXCEPT ![c] = moved]
<1>0. /\ now \in Nat /\ x \in Nat /\ u \in Accounts /\ l \in Accounts
      /\ u # Treasury /\ l # Treasury
      /\ AllWellFormed(reserves, now) /\ WellFormed(reserves[d], now)
      /\ taken \in Nat /\ repaid \in Nat
  BY AmountTypes, LiquidationTypes DEF Inv, TypeOK, AllWellFormed, Accounts
<1>1. /\ CanBurnDebt(accrued, u, repaid)
      /\ CanUpdateInterestRates(burned, repaid, 0)
      /\ IF receiveAToken
         THEN CanTransferAToken(settled[c], u, taken, now)
         ELSE CanUpdateInterestRates(cAccrued, 0, taken) /\ CanBurnAToken(cPriced, u, taken)
      /\ reserves' = [seized EXCEPT ![d] = Receive(seized[d], repaid)]
  BY DEF LiquidationCall
<1> HIDE DEF taken, repaid
<1>2. AllShrink(reserves)
  BY <1>0, SameHoldingsShrink DEF AllShrink, AllWellFormed
<1>3. AllShrink(settled)
  <2>1. WellFormed(accrued, now) /\ Shrinks(reserves[d], accrued)
    BY <1>0, UpdateStateSound, AccrualShrinks
  <2> HIDE DEF accrued
  <2>2. WellFormed(burned, now) /\ Shrinks(accrued, burned)
    BY <1>0, <1>1, <2>1, BurnDebtSound, BurningDebtShrinks
  <2> HIDE DEF burned
  <2>3. WellFormed(priced, now) /\ Shrinks(burned, priced)
    BY <1>0, <1>1, <2>2, UpdateInterestRatesSound, PricingAndCashShrink DEF WellFormed
  <2> HIDE DEF priced
  <2>4. Shrinks(reserves[d], priced)
    <3>1. Shrinks(reserves[d], burned)
      BY <1>0, <2>1, <2>2, ShrinksTransitive DEF WellFormed
    <3> QED
      BY <1>0, <2>2, <2>3, <3>1, ShrinksTransitive DEF WellFormed
  <2> QED
    BY <1>2, <2>3, <2>4, OneMoreShrinks
<1> HIDE DEF settled
<1>4. WellFormed(settled[c], now) /\ settled[c] \in Reserve
  BY <1>3 DEF AllShrink, AllWellFormed
<1>5. WellFormed(moved, now) /\ Shrinks(settled[c], moved)
  <2>1. CASE receiveAToken
    <3>1. moved = TransferAToken(settled[c], u, l, taken, now)
          /\ CanTransferAToken(settled[c], u, taken, now)
      BY <1>1, <2>1
    <3> HIDE DEF moved
    <3> QED
      BY <1>0, <1>4, <3>1, TransferATokenSound, TransferShrinks
  <2>2. CASE ~receiveAToken
    <3>1. moved = BurnAToken(cPriced, u, taken)
      BY <2>2
    <3>2. CanUpdateInterestRates(cAccrued, 0, taken) /\ CanBurnAToken(cPriced, u, taken)
      BY <1>1, <2>2
    <3> HIDE DEF moved
    <3>3. WellFormed(cAccrued, now) /\ Shrinks(settled[c], cAccrued)
      BY <1>0, <1>4, UpdateStateSound, AccrualShrinks
    <3> HIDE DEF cAccrued
    <3>4. WellFormed(cPriced, now) /\ Shrinks(cAccrued, cPriced)
      BY <1>0, <3>2, <3>3, UpdateInterestRatesSound, PricingAndCashShrink DEF WellFormed
    <3> HIDE DEF cPriced
    <3>5. WellFormed(moved, now) /\ Shrinks(cPriced, moved)
      BY <1>0, <3>1, <3>2, <3>4, BurnATokenSound, BurningShrinks
    <3>6. Shrinks(settled[c], cPriced)
      BY <1>4, <3>3, <3>4, ShrinksTransitive DEF WellFormed
    <3> QED
      BY <1>4, <3>4, <3>5, <3>6, ShrinksTransitive DEF WellFormed
  <2> QED
    BY <2>1, <2>2
<1> HIDE DEF moved
<1>6. AllShrink(seized)
  BY <1>3, <1>5, OneMoreShrinks
<1> HIDE DEF seized
<1>7. AllShrink(reserves')
  <2> DEFINE n == Receive(seized[d], repaid)
  <2>1. WellFormed(seized[d], now) /\ seized[d] \in Reserve
    BY <1>6 DEF AllShrink, AllWellFormed
  <2>2. WellFormed(n, now) /\ Shrinks(seized[d], n)
    BY <1>0, <2>1, CashMoves, PricingAndCashShrink
  <2> HIDE DEF n
  <2>3. AllShrink([seized EXCEPT ![d] = n])
    BY <1>6, <2>2, OneMoreShrinks
  <2> QED
    BY <1>1, <2>3 DEF n
<1> QED
  BY <1>7 DEF AllShrink, FrozenShrink

LEMMA HoldingsStandShrink ==
  ASSUME Inv, HoldingsStand
  PROVE  FrozenShrink
BY SameHoldingsShrink DEF Inv, AllWellFormed, HoldingsStand, FrozenShrink

LEMMA ReservesStandShrink ==
  ASSUME Inv, reserves' = reserves
  PROVE  FrozenShrink
BY HoldingsStandShrink DEF HoldingsStand

LEMMA EveryStepShrinks ==
  Treasury \notin Users /\ Inv /\ [ConfiguratorNext]_vars => FrozenShrink
<1> SUFFICES ASSUME Treasury \notin Users, Inv, [ConfiguratorNext]_vars PROVE FrozenShrink
  OBVIOUS
<1>1. ASSUME NEW a \in Assets, NEW x \in Amounts, NEW u \in Users, Deposit(a, x, u)
      PROVE  FrozenShrink
  BY <1>1, DepositShrinks
<1>2. ASSUME NEW u \in Users, NEW a \in Assets, NEW x \in Amounts \cup {MAX_UINT},
             Withdraw(u, a, x)
      PROVE  FrozenShrink
  BY <1>2, WithdrawShrinks
<1>3. ASSUME NEW caller \in Users, NEW a \in Assets, NEW u \in Users, NEW x \in Amounts,
             Borrow(caller, a, u, x)
      PROVE  FrozenShrink
  BY <1>3, BorrowShrinks
<1>4. ASSUME NEW u \in Users, NEW v \in Users, NEW a \in Assets, NEW x \in AllowanceAmounts,
             ApproveDelegation(u, v, a, x)
      PROVE  FrozenShrink
  BY <1>4, ReservesStandShrink DEF ApproveDelegation
<1>5. ASSUME NEW caller \in Users, NEW a \in Assets, NEW u \in Users,
             NEW x \in Amounts \cup {MAX_UINT}, Repay(caller, a, u, x)
      PROVE  FrozenShrink
  BY <1>5, RepayShrinks
<1>6. ASSUME NEW u \in Users, NEW a \in Assets, NEW using \in BOOLEAN,
             SetUserUseReserveAsCollateral(u, a, using)
      PROVE  FrozenShrink
  BY <1>6, ReservesStandShrink DEF SetUserUseReserveAsCollateral
<1>7. ASSUME NEW l \in Users, NEW c \in Assets, NEW d \in Assets, NEW u \in Users,
             NEW x \in Amounts \cup {MAX_UINT}, NEW b \in BOOLEAN,
             LiquidationCall(l, c, d, u, x, b)
      PROVE  FrozenShrink
  BY <1>7, LiquidationShrinks
<1>8. ASSUME NEW from \in Users, NEW to \in Users, NEW a \in Assets, NEW x \in Amounts,
             Transfer(from, to, a, x)
      PROVE  FrozenShrink
  BY <1>8, TransferStepShrinks
<1>9. CASE Call
  <2>1. CASE \/ \E a \in Assets, x \in Amounts, u \in Users : Deposit(a, x, u)
             \/ \E u \in Users, a \in Assets, x \in Amounts \cup {MAX_UINT} : Withdraw(u, a, x)
             \/ \E caller \in Users, a \in Assets, u \in Users, x \in Amounts :
                  Borrow(caller, a, u, x)
    BY <1>1, <1>2, <1>3, <2>1
  <2>2. CASE \E u, v \in Users, a \in Assets, x \in AllowanceAmounts :
               ApproveDelegation(u, v, a, x)
    BY <1>4, <2>2
  <2>3. CASE \E caller \in Users, a \in Assets, u \in Users, x \in Amounts \cup {MAX_UINT} :
               Repay(caller, a, u, x)
    BY <1>5, <2>3
  <2>4. CASE \E u \in Users, a \in Assets, using \in BOOLEAN :
               SetUserUseReserveAsCollateral(u, a, using)
    BY <1>6, <2>4
  <2>5. CASE \E l \in Users, c, d \in Assets, u \in Users, x \in Amounts \cup {MAX_UINT},
                b \in BOOLEAN : LiquidationCall(l, c, d, u, x, b)
    BY <1>7, <2>5
  <2>6. CASE \E from, to \in Users, a \in Assets, x \in Amounts : Transfer(from, to, a, x)
    BY <1>8, <2>6
  <2> QED
    BY <1>9, <2>1, <2>2, <2>3, <2>4, <2>5, <2>6 DEF Call
<1>10. CASE Environment
  BY <1>10, ReservesStandShrink DEF Environment, SetPrice, Tick
<1>11. CASE Administer
  <2>1. AdministersOnly
    BY <1>11, AdministerSound
  <2>2. HoldingsStand
    BY <2>1, AdministerStep
  <2> QED
    BY <2>2, HoldingsStandShrink
<1>12. CASE UNCHANGED vars
  BY <1>12, ReservesStandShrink DEF vars
<1> QED
  BY <1>9, <1>10, <1>11, <1>12 DEF Next, ConfiguratorNext

(* Freezing a reserve holds against everybody: whatever users, liquidators *)
(* and administrators do, in whatever order, neither the debt of a frozen  *)
(* reserve nor what its users hold of it grows by any step.                *)
THEOREM FreezingHolds ==
  Treasury \notin Users /\ ConfiguratorSpec => FrozenOnlyShrinks
<1> SUFFICES ASSUME Treasury \notin Users PROVE ConfiguratorSpec => FrozenOnlyShrinks
  OBVIOUS
<1> DEFINE P == \A a \in Assets :
                  reserves[a].configuration.frozen =>
                    /\ reserves'[a].dSupply <= reserves[a].dSupply
                    /\ reserves'[a].aSupply - reserves'[a].aBalance[Treasury]
                         <= reserves[a].aSupply - reserves[a].aBalance[Treasury]
<1>1. Inv /\ [ConfiguratorNext]_vars => P
  BY EveryStepShrinks DEF FrozenShrink, Shrinks, HeldByUsers
<1> QED
  BY <1>1, ConfiguratorInvariance, PTL DEF ConfiguratorSpec, FrozenOnlyShrinks

-----------------------------------------------------------------------------
(* What changing a configuration moves. *)

(* Only the administrators change a configuration: every operation of a    *)
(* reserve keeps it.                                                       *)
Configured(r, c) == "configuration" \in DOMAIN r /\ r.configuration = c

LEMMA OperationsKeepConfiguration ==
  ASSUME NEW r, NEW c, Configured(r, c), NEW u, NEW v, NEW x, NEW y, NEW t
  PROVE  /\ Configured(UpdateState(r, t), c)
         /\ Configured(UpdateInterestRates(r, x, y), c)
         /\ Configured(MintAToken(r, u, x), c)
         /\ Configured(BurnAToken(r, u, x), c)
         /\ Configured(TransferAToken(r, u, v, x, t), c)
         /\ Configured(MintDebt(r, u, x), c)
         /\ Configured(BurnDebt(r, u, x), c)
         /\ Configured(Receive(r, x), c)
         /\ Configured(Release(r, x), c)
<1>1. Configured(UpdateState(r, t), c)
  <2>1. Configured(UpdateIndexes(r, t), c)
    BY DEF Configured, UpdateIndexes
  <2>2. \A n : Configured(n, c) => Configured(MintToTreasury(r, n), c)
    BY DEF Configured, MintToTreasury
  <2> QED
    BY <2>1, <2>2 DEF UpdateState
<1>2. Configured(UpdateInterestRates(r, x, y), c)
  BY DEF Configured, UpdateInterestRates
<1>3. Configured(MintAToken(r, u, x), c) /\ Configured(BurnAToken(r, u, x), c)
  BY DEF Configured, MintAToken, BurnAToken
<1>4. Configured(TransferAToken(r, u, v, x, t), c)
  BY DEF Configured, TransferAToken
<1>5. Configured(MintDebt(r, u, x), c) /\ Configured(BurnDebt(r, u, x), c)
  BY DEF Configured, MintDebt, BurnDebt
<1>6. Configured(Receive(r, x), c) /\ Configured(Release(r, x), c)
  BY DEF Configured, Receive, Release
<1> QED
  BY <1>1, <1>2, <1>3, <1>4, <1>5, <1>6

ConfigurationsStand ==
  \A a \in Assets : reserves'[a].configuration = reserves[a].configuration

LEMMA ReserveIsConfigured ==
  ASSUME NEW r \in Reserve
  PROVE  Configured(r, r.configuration)
BY DEF Configured, Reserve

LEMMA OneReserveConfigured ==
  ASSUME Inv, NEW a \in Assets, NEW n, Configured(n, reserves[a].configuration),
         reserves' = [reserves EXCEPT ![a] = n]
  PROVE  ConfigurationsStand
<1>1. \A b \in Assets : reserves'[b] = IF b = a THEN n ELSE reserves[b]
  BY DEF Inv, AllWellFormed
<1> QED
  BY <1>1 DEF ConfigurationsStand, Configured

LEMMA CallsKeepConfigurations ==
  ASSUME Inv, Call
  PROVE  ConfigurationsStand
<1>0. \A a \in Assets : Configured(reserves[a], reserves[a].configuration)
  BY ReserveIsConfigured DEF Inv, AllWellFormed
<1>1. ASSUME NEW a \in Assets, NEW x \in Amounts, NEW u \in Users, Deposit(a, x, u)
      PROVE  ConfigurationsStand
  <2> DEFINE s == UpdateState(reserves[a], now)
             p == UpdateInterestRates(s, x, 0)
             q == Receive(p, x)
             n == MintAToken(q, u, x)
  <2>1. reserves' = [reserves EXCEPT ![a] = n]
    BY <1>1 DEF Deposit
  <2>2. Configured(s, reserves[a].configuration)
    BY <1>0, OperationsKeepConfiguration
  <2>3. Configured(p, reserves[a].configuration)
    BY <2>2, OperationsKeepConfiguration
  <2>4. Configured(q, reserves[a].configuration)
    BY <2>3, OperationsKeepConfiguration
  <2>5. Configured(n, reserves[a].configuration)
    BY <2>4, OperationsKeepConfiguration
  <2> HIDE DEF n
  <2> QED
    BY <2>1, <2>5, OneReserveConfigured
<1>2. ASSUME NEW u \in Users, NEW a \in Assets, NEW x \in Amounts \cup {MAX_UINT},
             Withdraw(u, a, x)
      PROVE  ConfigurationsStand
  <2> DEFINE taken == IF x = MAX_UINT THEN BalanceOf(reserves[a], u, now) ELSE x
             s == UpdateState(reserves[a], now)
             p == UpdateInterestRates(s, 0, taken)
             n == BurnAToken(p, u, taken)
  <2>1. reserves' = [reserves EXCEPT ![a] = n]
    BY <1>2 DEF Withdraw
  <2>2. Configured(s, reserves[a].configuration)
    BY <1>0, OperationsKeepConfiguration
  <2>3. Configured(p, reserves[a].configuration)
    BY <2>2, OperationsKeepConfiguration
  <2>4. Configured(n, reserves[a].configuration)
    BY <2>3, OperationsKeepConfiguration
  <2> HIDE DEF n
  <2> QED
    BY <2>1, <2>4, OneReserveConfigured
<1>3. ASSUME NEW v \in Users, NEW a \in Assets, NEW u \in Users, NEW x \in Amounts,
             Borrow(v, a, u, x)
      PROVE  ConfigurationsStand
  <2> DEFINE s == UpdateState(reserves[a], now)
             m == MintDebt(s, u, x)
             p == UpdateInterestRates(m, 0, x)
             n == Release(p, x)
  <2>1. reserves' = [reserves EXCEPT ![a] = n]
    BY <1>3 DEF Borrow, ExecuteBorrow
  <2>2. Configured(s, reserves[a].configuration)
    BY <1>0, OperationsKeepConfiguration
  <2>3. Configured(m, reserves[a].configuration)
    BY <2>2, OperationsKeepConfiguration
  <2>4. Configured(p, reserves[a].configuration)
    BY <2>3, OperationsKeepConfiguration
  <2>5. Configured(n, reserves[a].configuration)
    BY <2>4, OperationsKeepConfiguration
  <2> HIDE DEF n
  <2> QED
    BY <2>1, <2>5, OneReserveConfigured
<1>4. ASSUME NEW u \in Users, NEW v \in Users, NEW a \in Assets, NEW x \in AllowanceAmounts,
             ApproveDelegation(u, v, a, x)
      PROVE  ConfigurationsStand
  BY <1>4 DEF ApproveDelegation, ConfigurationsStand
<1>5. ASSUME NEW v \in Users, NEW a \in Assets, NEW u \in Users,
             NEW x \in Amounts \cup {MAX_UINT}, Repay(v, a, u, x)
      PROVE  ConfigurationsStand
  <2> DEFINE debt    == DebtOf(reserves[a], u, now)
             payback == IF x < debt THEN x ELSE debt
             s == UpdateState(reserves[a], now)
             m == BurnDebt(s, u, payback)
             p == UpdateInterestRates(m, payback, 0)
             n == Receive(p, payback)
  <2>1. reserves' = [reserves EXCEPT ![a] = n]
    BY <1>5 DEF Repay
  <2>2. Configured(s, reserves[a].configuration)
    BY <1>0, OperationsKeepConfiguration
  <2>3. Configured(m, reserves[a].configuration)
    BY <2>2, OperationsKeepConfiguration
  <2>4. Configured(p, reserves[a].configuration)
    BY <2>3, OperationsKeepConfiguration
  <2>5. Configured(n, reserves[a].configuration)
    BY <2>4, OperationsKeepConfiguration
  <2> HIDE DEF n
  <2> QED
    BY <2>1, <2>5, OneReserveConfigured
<1>6. ASSUME NEW u \in Users, NEW a \in Assets, NEW using \in BOOLEAN,
             SetUserUseReserveAsCollateral(u, a, using)
      PROVE  ConfigurationsStand
  BY <1>6 DEF SetUserUseReserveAsCollateral, ConfigurationsStand
<1>7. ASSUME NEW l \in Users, NEW c \in Assets, NEW d \in Assets, NEW u \in Users,
             NEW x \in Amounts \cup {MAX_UINT}, NEW b \in BOOLEAN,
             LiquidationCall(l, c, d, u, x, b)
      PROVE  ConfigurationsStand
  <2> DEFINE k        == Liquidation(c, d, u, x)
             s        == UpdateState(reserves[d], now)
             m        == BurnDebt(s, u, k.repaid)
             p        == UpdateInterestRates(m, k.repaid, 0)
             settled  == [reserves EXCEPT ![d] = p]
             cAccrued == UpdateState(settled[c], now)
             cPriced  == UpdateInterestRates(cAccrued, 0, k.seized)
             moved    == IF b THEN TransferAToken(settled[c], u, l, k.seized, now)
                              ELSE BurnAToken(cPriced, u, k.seized)
             seized   == [settled EXCEPT ![c] = moved]
             n        == Receive(seized[d], k.repaid)
  <2>1. reserves' = [seized EXCEPT ![d] = n]
    BY <1>7 DEF LiquidationCall
  <2>2. Configured(s, reserves[d].configuration)
    BY <1>0, OperationsKeepConfiguration
  <2>3. Configured(m, reserves[d].configuration)
    BY <2>2, OperationsKeepConfiguration
  <2>4. Configured(p, reserves[d].configuration)
    BY <2>3, OperationsKeepConfiguration
  <2> HIDE DEF p
  <2>5. /\ DOMAIN settled = Assets
        /\ \A e \in Assets : settled[e] = IF e = d THEN p ELSE reserves[e]
    BY DEF Inv, AllWellFormed
  <2>6. Configured(settled[c], reserves[c].configuration)
    BY <1>0, <2>4, <2>5
  <2>7. Configured(cAccrued, reserves[c].configuration)
    BY <2>6, OperationsKeepConfiguration
  <2>8. Configured(cPriced, reserves[c].configuration)
    BY <2>7, OperationsKeepConfiguration
  <2>9. Configured(moved, reserves[c].configuration)
    BY <2>6, <2>8, OperationsKeepConfiguration
  <2> HIDE DEF settled, moved
  <2>10. /\ DOMAIN seized = Assets
         /\ \A e \in Assets : seized[e] = IF e = c THEN moved ELSE settled[e]
    BY <2>5
  <2>11. \A e \in Assets : Configured(seized[e], reserves[e].configuration)
    BY <1>0, <2>4, <2>5, <2>9, <2>10
  <2>12. Configured(n, reserves[d].configuration)
    BY <2>11, OperationsKeepConfiguration
  <2> HIDE DEF seized, n
  <2>13. \A e \in Assets : reserves'[e] = IF e = d THEN n ELSE seized[e]
    BY <2>1, <2>10
  <2> QED
    BY <2>11, <2>12, <2>13 DEF ConfigurationsStand, Configured
<1>8. ASSUME NEW from \in Users, NEW to \in Users, NEW a \in Assets, NEW x \in Amounts,
             Transfer(from, to, a, x)
      PROVE  ConfigurationsStand
  <2> DEFINE n == TransferAToken(reserves[a], from, to, x, now)
  <2>1. reserves' = [reserves EXCEPT ![a] = n]
    BY <1>8 DEF Transfer
  <2>2. Configured(n, reserves[a].configuration)
    BY <1>0, OperationsKeepConfiguration
  <2> HIDE DEF n
  <2> QED
    BY <2>1, <2>2, OneReserveConfigured
<1> QED
  BY <1>1, <1>2, <1>3, <1>4, <1>5, <1>6, <1>7, <1>8 DEF Call

(* The reserve r before and the reserve n after its configuration changed, *)
(* both settled at t.                                                      *)
LEMMA ReconfiguringMovesShare ==
  ASSUME NEW r, NEW t \in Nat, WellFormed(r, t), NEW c \in Configuration,
         NEW n, n = [r EXCEPT !.configuration = c]
  PROVE  LET s       == UpdateState(r, t)
             m       == UpdateState(n, t)
             pending == RayMul(r.dSupply, s.variableBorrowIndex)
                          - RayMul(r.dSupply, r.variableBorrowIndex)
             old     == r.configuration.reserveFactor
             new     == c.reserveFactor
             change  == IF new > old THEN new - old ELSE old - new
             moved   == PercentMul(pending, change) + (s.liquidityIndex \div RAY + 3)
         IN  moved \in Nat /\ Gap(m) - Gap(s) \in -moved .. moved
<1> DEFINE u       == UpdateIndexes(r, t)
           v       == UpdateIndexes(n, t)
           s       == UpdateState(r, t)
           m       == UpdateState(n, t)
           pending == RayMul(r.dSupply, s.variableBorrowIndex)
                        - RayMul(r.dSupply, r.variableBorrowIndex)
           old     == r.configuration.reserveFactor
           new     == c.reserveFactor
           change  == IF new > old THEN new - old ELSE old - new
           share   == PercentMul(pending, change)
           i       == u.liquidityIndex
           slack   == i \div RAY
           x       == PercentMul(pending, old)
           y       == PercentMul(pending, new)
           sWorth  == RayMul(r.aSupply + RayDiv(x, i), i)
           mWorth  == RayMul(r.aSupply + RayDiv(y, i), i)
           debt    == RayMul(r.dSupply, s.variableBorrowIndex)
<1>1. /\ r \in Reserve /\ n \in Reserve /\ WellFormed(n, t)
      /\ n.dSupply = r.dSupply /\ n.aSupply = r.aSupply /\ n.cash = r.cash
      /\ n.variableBorrowIndex = r.variableBorrowIndex
      /\ n.configuration = c
  BY DEF WellFormed, Reserve
<1>2. v = [u EXCEPT !.configuration = c]
  BY <1>1 DEF UpdateIndexes, Reserve
<1>3. /\ u \in Reserve /\ i \in Nat \ {0} /\ IndexesGrow(r, u) /\ u.dSupply = r.dSupply
  <2>1. WellFormed(u, t) /\ IndexesGrow(r, u) /\ SamePositions(r, u)
    BY UpdateIndexesSound
  <2> HIDE DEF u
  <2>2. u \in Reserve /\ u.liquidityIndex \in Nat /\ u.liquidityIndex >= RAY
    BY <2>1, ReserveFields DEF WellFormed
  <2> QED
    BY <2>1, <2>2, ScalesPositive DEF SamePositions
<1> HIDE DEF u, v
<1>4. v.liquidityIndex = i /\ v.variableBorrowIndex = u.variableBorrowIndex
  BY <1>2, <1>3 DEF Reserve
<1>5. /\ s.aSupply = r.aSupply + RayDiv(AmountToTreasury(r, u), i)
      /\ s.liquidityIndex = i /\ s.variableBorrowIndex = u.variableBorrowIndex
      /\ s.dSupply = r.dSupply /\ s.cash = r.cash
  BY SettledReserve DEF u
<1>6. /\ m.aSupply = r.aSupply + RayDiv(AmountToTreasury(n, v), i)
      /\ m.liquidityIndex = i /\ m.variableBorrowIndex = u.variableBorrowIndex
      /\ m.dSupply = r.dSupply /\ m.cash = r.cash
  <2>1. /\ m.aSupply = n.aSupply + RayDiv(AmountToTreasury(n, v), v.liquidityIndex)
        /\ m.liquidityIndex = v.liquidityIndex
        /\ m.variableBorrowIndex = v.variableBorrowIndex
        /\ m.dSupply = n.dSupply /\ m.cash = n.cash
    BY <1>1, SettledReserve DEF v
  <2> QED
    BY <1>1, <1>4, <2>1
<1>7. AmountToTreasury(r, u) = x /\ AmountToTreasury(n, v) = y
  BY <1>1, <1>4, <1>5 DEF AmountToTreasury
<1>8. pending \in Nat /\ debt \in Nat /\ r.cash \in Nat /\ r.aSupply \in Nat
  <2>1. /\ r.dSupply \in Nat /\ r.variableBorrowIndex \in Nat /\ s.variableBorrowIndex \in Nat
        /\ r.variableBorrowIndex <= s.variableBorrowIndex
        /\ r.cash \in Nat /\ r.aSupply \in Nat
    BY <1>1, <1>3, <1>5, ReserveFields DEF IndexesGrow
  <2>2. /\ RayMul(r.dSupply, s.variableBorrowIndex) \in Nat
        /\ RayMul(r.dSupply, r.variableBorrowIndex) \in Nat
        /\ RayMul(r.dSupply, r.variableBorrowIndex) <= RayMul(r.dSupply, s.variableBorrowIndex)
    BY <2>1, RayMulIsNat, RayMulMonotone
  <2> QED
    BY <2>1, <2>2
<1>9. old \in Nat /\ new \in Nat /\ change \in Nat
  <2>1. old \in Nat /\ new \in Nat
    BY <1>1, ReserveFields
  <2> QED
    BY <2>1
<1> HIDE DEF pending, s, m
<1>10. /\ x \in Nat /\ y \in Nat /\ share \in Nat
       /\ x <= y + (share + 1) /\ y <= x + (share + 1)
  <2>1. x \in Nat /\ y \in Nat /\ share \in Nat
    BY <1>8, <1>9, PercentMulIsNat
  <2>2. CASE new > old
    <3>1. x <= y /\ y <= x + PercentMul(pending, new - old) + 1
      BY <1>8, <1>9, <2>2, SharesDiffer
    <3>2. change = new - old
      BY <2>2
    <3> QED
      BY <2>1, <3>1, <3>2
  <2>3. CASE ~(new > old)
    <3>1. y <= x /\ x <= y + PercentMul(pending, old - new) + 1
      BY <1>8, <1>9, <2>3, SharesDiffer
    <3>2. change = old - new
      BY <2>3
    <3> QED
      BY <2>1, <3>1, <3>2
  <2> QED
    BY <2>2, <2>3
<1> HIDE DEF share, x, y, i, change, old, new
<1>11. /\ mWorth <= sWorth + (share + 1) + slack + 2
       /\ sWorth <= mWorth + (share + 1) + slack + 2
       /\ slack \in Nat /\ mWorth \in Nat /\ sWorth \in Nat
  <2>1. share + 1 \in Nat
    BY <1>10
  <2>2. /\ mWorth <= sWorth + (share + 1) + slack + 2
        /\ sWorth <= mWorth + (share + 1) + slack + 2
    BY <1>3, <1>8, <1>10, <2>1, MintsDiffer
  <2>3. RayDiv(x, i) \in Nat /\ RayDiv(y, i) \in Nat
    BY <1>3, <1>10, RayDivIsNat
  <2>4. r.aSupply + RayDiv(x, i) \in Nat /\ r.aSupply + RayDiv(y, i) \in Nat
    BY <1>8, <2>3
  <2> QED
    BY <1>3, <2>2, <2>4, RayMulIsNat, ScalesPositive, QuotientBounds
<1>12. Gap(s) = sWorth - r.cash - debt /\ Gap(m) = mWorth - r.cash - debt
  BY <1>5, <1>6, <1>7 DEF Gap
<1> HIDE DEF sWorth, mWorth, slack, debt
<1>13. share + (slack + 3) \in Nat
       /\ Gap(m) - Gap(s) \in -(share + (slack + 3)) .. (share + (slack + 3))
  BY <1>8, <1>10, <1>11, <1>12
<1> QED
  BY <1>5, <1>13 DEF pending, s, m, share, slack, i, change, old, new

(* What an administrator's call leaves of a reserve. *)
LEMMA OneReconfigured ==
  ASSUME Inv, AdministersOnly, NEW a \in Assets,
         reserves'[a].configuration # reserves[a].configuration
  PROVE  \E c \in Configuration : reserves'[a] = [reserves[a] EXCEPT !.configuration = c]
<1>1. reserves \in [Assets -> Reserve]
  BY DEF Inv, AllWellFormed
<1>2. PICK b \in Assets, n \in Reserve :
        Reconfigured(reserves[b], n) /\ reserves' = [reserves EXCEPT ![b] = n]
  BY DEF AdministersOnly
<1>3. b = a /\ reserves'[a] = n
  BY <1>1, <1>2
<1>4. ASSUME NEW s \in Strategy, n = [reserves[a] EXCEPT !.strategy = s]
      PROVE  FALSE
  <2>1. n.configuration = reserves[a].configuration
    BY <1>1, <1>4 DEF Reserve
  <2> QED
    BY <1>3, <2>1
<1> QED
  BY <1>2, <1>3, <1>4 DEF Reconfigured

(* The share that changes hands.                                           *)
MovesOnlyShare ==
  \A a \in Assets :
    reserves'[a].configuration # reserves[a].configuration =>
      LET moved == PercentMul(InterestPending(a), ShareChange(a)) + ShareDust(a)
          after == UpdateState(reserves'[a], now)
      IN  moved \in Nat /\ now' = now /\ Gap(after) - Gap(Settled(a)) \in -moved .. moved

LEMMA EveryStepMovesOnlyShare ==
  ASSUME Inv, [ConfiguratorNext]_vars
  PROVE  MovesOnlyShare
<1>1. CASE Call
  BY <1>1, CallsKeepConfigurations DEF ConfigurationsStand, MovesOnlyShare
<1>2. CASE reserves' = reserves
  BY <1>2 DEF MovesOnlyShare
<1>3. CASE Administer
  <2> SUFFICES ASSUME NEW a \in Assets,
                      reserves'[a].configuration # reserves[a].configuration
               PROVE  LET moved == PercentMul(InterestPending(a), ShareChange(a)) + ShareDust(a)
                          after == UpdateState(reserves'[a], now)
                      IN  /\ moved \in Nat /\ now' = now
                          /\ Gap(after) - Gap(Settled(a)) \in -moved .. moved
    BY DEF MovesOnlyShare
  <2>1. AdministersOnly /\ now \in Nat /\ WellFormed(reserves[a], now)
    BY <1>3, AdministerSound DEF Inv, TypeOK, AllWellFormed
  <2>2. PICK c \in Configuration : reserves'[a] = [reserves[a] EXCEPT !.configuration = c]
    BY <2>1, OneReconfigured
  <2>3. reserves'[a].configuration = c
    BY <2>1, <2>2 DEF WellFormed, Reserve
  <2>4. now' = now
    BY <2>1 DEF AdministersOnly, UNCHANGED_POSITIONS
  <2> QED
    BY <2>1, <2>2, <2>3, <2>4, ReconfiguringMovesShare
       DEF InterestPending, ShareChange, ShareDust, Settled
<1> QED
  BY <1>1, <1>2, <1>3 DEF ConfiguratorNext, Next, Environment, SetPrice, Tick, vars

(* All an administrator's call ever moves between depositors, borrowers    *)
(* and treasury is the changed share of the interest not yet accrued: not  *)
(* by any parameters, and whatever the users did before.                   *)
THEOREM AdministrationMovesOnlyShare == ConfiguratorSpec => AdminMovesOnlyShareChange
<1>1. Inv /\ AsBooked /\ AsBooked' /\ [ConfiguratorNext]_vars
        => [\A a \in Assets :
              reserves'[a].configuration # reserves[a].configuration =>
                LET moved == PercentMul(InterestPending(a), ShareChange(a)) + ShareDust(a)
                IN  Deficit(a)' - Deficit(a) \in -moved .. moved]_vars
  <2> SUFFICES ASSUME Inv, AsBooked, AsBooked', [ConfiguratorNext]_vars, NEW a \in Assets,
                      reserves'[a].configuration # reserves[a].configuration
               PROVE  LET moved == PercentMul(InterestPending(a), ShareChange(a)) + ShareDust(a)
                      IN  Deficit(a)' - Deficit(a) \in -moved .. moved
    OBVIOUS
  <2> DEFINE moved == PercentMul(InterestPending(a), ShareChange(a)) + ShareDust(a)
             after == UpdateState(reserves'[a], now)
  <2>1. now' = now /\ Gap(after) - Gap(Settled(a)) \in -moved .. moved
    BY EveryStepMovesOnlyShare DEF MovesOnlyShare
  <2>2. Deficit(a) = Gap(Settled(a)) /\ Deficit(a)' = Gap(after)
    BY <2>1 DEF AsBooked, Settled
  <2> QED
    BY <2>1, <2>2
<1>2. Inv => AsBooked
  BY DeficitIsGap
<1> QED
  BY <1>1, <1>2, ConfiguratorInvariance, PTL DEF ConfiguratorSpec, AdminMovesOnlyShareChange

(* The books still balance. *)
LEMMA AdministersBalanced ==
  ASSUME Inv, BooksBalance, [ConfiguratorNext]_vars
  PROVE  BooksBalance'
<1>1. CASE [Next]_vars
  BY <1>1, StepBalanced
<1>2. CASE Administer
  BY <1>2, AdministerSound, AdministerStep DEF HoldingsStand, BooksBalance, Balanced
<1> QED
  BY <1>1, <1>2 DEF ConfiguratorNext

(* Whatever the administrators do between users' calls, no aToken and no   *)
(* debt token appears or vanishes, and every earning reserve's            *)
(* borrowers can still clear all they owe.                                 *)
THEOREM AdministrationKeepsTheBooks ==
  ConfiguratorSpec => [](TotalsMatchBalances /\ RepayableWhileEarning)
<1>1. Init => BooksBalance
  BY InitBalanced
<1>2. Inv /\ BooksBalance /\ [ConfiguratorNext]_vars => BooksBalance'
  BY AdministersBalanced
<1>3. TotalsMatchBalances <=> BooksBalance
  BY BalancedBooks
<1>4. Inv /\ BooksBalance => RepayableWhileEarning
  BY BorrowersCanClear
<1> QED
  BY <1>1, <1>2, <1>3, <1>4, ConfiguratorInvariance, PTL DEF ConfiguratorSpec
=============================================================================
