------------------------- MODULE ReserveLogicProofs -------------------------
(***************************************************************************)
(* First what the fixed-point operators return and preserve, for every     *)
(* scale, and what the sum over a finite set of accounts is: the fold's    *)
(* defining equation, by induction over the subsets, and the rest from it. *)
(* Then the reserve: every operation leaves a well-formed one, and what it *)
(* does to indexes, balances and books, for all users, amounts, rates and  *)
(* times.  Last GenericLogic: what a position is worth, weighs and owes,   *)
(* and which changes of its tokens and flags leave a healthy one healthy.  *)
(***************************************************************************)
EXTENDS GenericLogic, FiniteSetsExt, FiniteSetTheorems, WellFoundedInduction, TLAPS

(* The quotient of naturals, by its two bounds.                            *)
LEMMA QuotientBounds ==
  ASSUME NEW x \in Nat, NEW d \in Nat \ {0}
  PROVE  /\ x \div d \in Nat
         /\ (x \div d) * d <= x
         /\ x < (x \div d) * d + d
PROOF OBVIOUS

(* Products of naturals are natural and monotone.                          *)
LEMMA ProductMonotone ==
  ASSUME NEW a \in Nat, NEW b \in Nat, NEW c \in Nat, b <= c
  PROVE  a * b \in Nat /\ a * c \in Nat /\ a * b <= a * c
PROOF OBVIOUS

(* A quotient is at least q when q times the divisor fits.                 *)
LEMMA QuotientAtLeast ==
  ASSUME NEW x \in Nat, NEW d \in Nat \ {0}, NEW q \in Nat, q * d <= x
  PROVE  q <= x \div d
PROOF OBVIOUS

(* ... and exactly q when one more does not.                               *)
LEMMA QuotientIs ==
  ASSUME NEW x \in Nat, NEW d \in Nat \ {0}, NEW q \in Nat,
         q * d <= x, x < q * d + d
  PROVE  x \div d = q
PROOF OBVIOUS
-----------------------------------------------------------------------------
LEMMA RayMulIsNat ==
  ASSUME NEW a \in Nat, NEW b \in Nat
  PROVE  RayMul(a, b) \in Nat
<1>1. a * b + RAY \div 2 \in Nat
  BY ScalesPositive, QuotientBounds, ProductMonotone
<1> QED
  BY <1>1, ScalesPositive, QuotientBounds DEF RayMul

LEMMA RayDivIsNat ==
  ASSUME NEW a \in Nat, NEW b \in Nat \ {0}
  PROVE  RayDiv(a, b) \in Nat
<1>1. a * RAY + b \div 2 \in Nat
  BY ScalesPositive, QuotientBounds, ProductMonotone
<1> QED
  BY <1>1, QuotientBounds DEF RayDiv

LEMMA PercentMulIsNat ==
  ASSUME NEW a \in Nat, NEW b \in Nat
  PROVE  PercentMul(a, b) \in Nat
<1>1. a * b + PERCENTAGE_FACTOR \div 2 \in Nat
  BY ScalesPositive, QuotientBounds, ProductMonotone
<1> QED
  BY <1>1, ScalesPositive, QuotientBounds DEF PercentMul

LEMMA PercentDivIsNat ==
  ASSUME NEW a \in Nat, NEW b \in Nat \ {0}
  PROVE  PercentDiv(a, b) \in Nat
<1>1. a * PERCENTAGE_FACTOR + b \div 2 \in Nat
  BY ScalesPositive, QuotientBounds, ProductMonotone
<1> QED
  BY <1>1, QuotientBounds DEF PercentDiv

(* Multiplying by one changes nothing. *)
LEMMA RayMulByOne ==
  ASSUME NEW a \in Nat
  PROVE  RayMul(RAY, a) = a
<1>1. RAY \div 2 \in Nat /\ RAY \div 2 < RAY
  BY ScalesPositive, QuotientBounds
<1>2. RAY * a = a * RAY /\ a * RAY \in Nat
  BY ScalesPositive
<1> QED
  BY <1>1, <1>2, ScalesPositive, QuotientIs DEF RayMul

(* Multiplication is monotone in its first argument, so multiplying by at  *)
(* least one does not shrink.                                              *)
LEMMA RayMulMonotone ==
  ASSUME NEW a \in Nat, NEW b \in Nat, NEW c \in Nat, b <= c
  PROVE  RayMul(a, b) <= RayMul(a, c) /\ RayMul(b, a) <= RayMul(c, a)
<1> DEFINE half == RAY \div 2
<1>1. half \in Nat
  BY ScalesPositive, QuotientBounds
<1>2. a * b \in Nat /\ a * c \in Nat /\ a * b <= a * c
  BY ProductMonotone
<1>3. b * a = a * b /\ c * a = a * c
  OBVIOUS
<1> DEFINE q == (a * b + half) \div RAY
<1>4. q \in Nat /\ q * RAY <= a * b + half
  BY <1>1, <1>2, ScalesPositive, QuotientBounds
<1>5. q <= (a * c + half) \div RAY
  <2>1. q * RAY <= a * c + half
    BY <1>1, <1>2, <1>4, ScalesPositive
  <2>2. a * c + half \in Nat
    BY <1>1, <1>2
  <2> HIDE DEF q
  <2> QED
    BY <1>4, <2>1, <2>2, ScalesPositive, QuotientAtLeast
<1> QED
  BY <1>3, <1>5 DEF RayMul

LEMMA RayMulGrows ==
  ASSUME NEW a \in Nat, NEW f \in Nat, f >= RAY
  PROVE  RayMul(f, a) >= a
<1>1. RayMul(f, a) \in Nat /\ RayMul(RAY, a) \in Nat
  BY ScalesPositive, RayMulIsNat
<1>2. RayMul(RAY, a) <= RayMul(f, a)
  BY ScalesPositive, RayMulMonotone
<1> QED
  BY <1>1, <1>2, RayMulByOne

-----------------------------------------------------------------------------
(* The round trip every full withdrawal and repayment takes: what a scaled *)
(* balance is worth, scaled again at the same index, is that balance.      *)
LEMMA RoundTrip ==
  ASSUME NEW s \in Nat, NEW i \in Nat, i >= RAY
  PROVE  RayDiv(RayMul(s, i), i) = s
<1> DEFINE m == RayMul(s, i)
           hr == RAY \div 2
           hi == i \div 2
<1>1. /\ i \in Nat \ {0}
      /\ RAY \in Nat \ {0}
  BY ScalesPositive
<1>2. /\ hr \in Nat /\ hi \in Nat
      /\ 2 * hr <= RAY /\ RAY <= 2 * hr + 1
      /\ 2 * hi <= i /\ i <= 2 * hi + 1
  BY <1>1, QuotientBounds
<1>3. s * i \in Nat
  BY ProductMonotone
<1>4. m \in Nat /\ m * RAY <= s * i + hr /\ s * i + hr < m * RAY + RAY
  BY <1>1, <1>2, <1>3, QuotientBounds DEF RayMul
<1>5. CASE i = RAY
  <2>1. m = s
    BY <1>5, <1>1, <1>2, <1>3, QuotientIs DEF RayMul
  <2>2. s * RAY + hr < s * RAY + RAY /\ s * RAY <= s * RAY + hr /\ s * RAY \in Nat
    BY <1>1, <1>2
  <2> QED
    BY <1>5, <2>1, <2>2, <1>1, <1>2, QuotientIs DEF RayDiv
<1>6. CASE i > RAY
  <2> DEFINE n == m * RAY
  <2>1. n \in Nat
    BY <1>1, <1>4
  <2>2. s * i <= n + hi /\ n + hi < s * i + i
    <3> DEFINE p == s * i
    <3>1. p \in Nat /\ n <= p + hr /\ p + hr < n + RAY
      BY <1>3, <1>4
    <3> HIDE DEF n, p, hr, hi, m
    <3>2. p <= n + hi /\ n + hi < p + i
      BY <3>1, <2>1, <1>1, <1>2, <1>6
    <3> QED
      BY <3>2 DEF p
  <2>3. n + hi \in Nat
    BY <2>1, <1>2
  <2>4. (n + hi) \div i = s
    <3> HIDE DEF n, hi
    <3> QED
      BY <2>2, <2>3, <1>1, QuotientIs
  <2> QED
    BY <2>4 DEF RayDiv
<1> QED
  BY <1>1, <1>5, <1>6

(* Scaling an amount is monotone in it. *)
LEMMA RayDivMonotone ==
  ASSUME NEW a \in Nat, NEW b \in Nat, NEW i \in Nat \ {0}, a <= b
  PROVE  RayDiv(a, i) <= RayDiv(b, i)
<1> DEFINE hi == i \div 2
           q  == (a * RAY + hi) \div i
<1>1. hi \in Nat
  BY QuotientBounds
<1>2. a * RAY \in Nat /\ b * RAY \in Nat /\ a * RAY <= b * RAY
  BY ScalesPositive, ProductMonotone
<1>3. q \in Nat /\ q * i <= a * RAY + hi
  <2>1. a * RAY + hi \in Nat
    BY <1>1, <1>2
  <2> HIDE DEF hi
  <2> QED
    BY <2>1, QuotientBounds
<1>4. q * i <= b * RAY + hi /\ b * RAY + hi \in Nat
  BY <1>1, <1>2, <1>3
<1>5. q <= (b * RAY + hi) \div i
  <2> HIDE DEF q
  <2> QED
    BY <1>3, <1>4, QuotientAtLeast
<1> QED
  BY <1>5 DEF RayDiv

-----------------------------------------------------------------------------
(* The factors an index is multiplied by are at least one.                 *)
LEMMA LinearInterestAtLeastOne ==
  ASSUME NEW rate \in Nat, NEW elapsed \in Nat
  PROVE  LinearInterest(rate, elapsed) \in Nat /\ LinearInterest(rate, elapsed) >= RAY
<1>1. (rate * elapsed) \div SECONDS_PER_YEAR \in Nat
  BY ScalesPositive, ProductMonotone, QuotientBounds
<1> QED
  BY <1>1, ScalesPositive DEF LinearInterest

LEMMA NoIncomeNoInterest ==
  ASSUME NEW elapsed \in Nat
  PROVE  LinearInterest(0, elapsed) = RAY
<1>1. 0 * elapsed = 0
  OBVIOUS
<1>2. 0 \div SECONDS_PER_YEAR = 0
  BY ScalesPositive, QuotientIs
<1> QED
  BY <1>1, <1>2, ScalesPositive DEF LinearInterest

LEMMA CompoundedInterestAtLeastOne ==
  ASSUME NEW rate \in Nat, NEW elapsed \in Nat
  PROVE  /\ CompoundedInterest(rate, elapsed) \in Nat
         /\ CompoundedInterest(rate, elapsed) >= RAY
<1>1. CASE elapsed = 0
  BY <1>1, ScalesPositive DEF CompoundedInterest
<1>2. CASE elapsed # 0
  <2> DEFINE e1 == elapsed - 1
             e2 == IF elapsed > 2 THEN elapsed - 2 ELSE 0
             r  == rate \div SECONDS_PER_YEAR
             p2 == RayMul(r, r)
             p3 == RayMul(p2, r)
  <2>1. e1 \in Nat /\ e2 \in Nat
    BY <1>2
  <2>2. r \in Nat
    BY ScalesPositive, QuotientBounds
  <2>3. p2 \in Nat
    BY <2>2, RayMulIsNat
  <2>4. p3 \in Nat
    BY <2>2, <2>3, RayMulIsNat
  <2>5. r * elapsed \in Nat
    BY <2>2, ProductMonotone
  <2> HIDE DEF e1, e2, r, p2, p3
  <2>6. (elapsed * e1 * p2) \div 2 \in Nat
    BY <2>1, <2>3, ProductMonotone, QuotientBounds
  <2>7. (elapsed * e1 * e2 * p3) \div 6 \in Nat
    BY <2>1, <2>4, ProductMonotone, QuotientBounds
  <2>8. CompoundedInterest(rate, elapsed)
          = RAY + r * elapsed + (elapsed * e1 * p2) \div 2 + (elapsed * e1 * e2 * p3) \div 6
    BY <1>2 DEF CompoundedInterest, e1, e2, r, p2, p3
  <2> QED
    BY <2>5, <2>6, <2>7, <2>8, ScalesPositive
<1> QED
  BY <1>1, <1>2
-----------------------------------------------------------------------------
(* Rounding. *)

(* What one mint or burn at the index i can be off by. *)
HalfUnit(i) == i \div (2 * RAY) + 1

LEMMA HalfUnitIsNat ==
  ASSUME NEW i \in Nat
  PROVE  HalfUnit(i) \in Nat
<1>1. 2 * RAY \in Nat \ {0}
  BY ScalesPositive
<1>2. i \div (2 * RAY) \in Nat
  BY <1>1, QuotientBounds
<1> QED
  BY <1>2 DEF HalfUnit

(* A difference is within half a unit when its ray is within half of i.    *)
LEMMA WithinHalfUnit ==
  ASSUME NEW i \in Nat, NEW k \in Int, k * RAY < RAY + i \div 2 + 1
  PROVE  k <= HalfUnit(i)
<1> DEFINE hi == i \div 2
<1>1. hi \in Nat /\ 2 * hi <= i
  BY QuotientBounds
<1>2. RAY \in Nat \ {0} /\ 2 * RAY \in Nat \ {0}
  BY ScalesPositive
<1>3. CASE k <= 1
  BY <1>3, HalfUnitIsNat, <1>2, QuotientBounds DEF HalfUnit
<1>4. CASE k > 1
  <2> DEFINE j == k - 1
  <2>1. j \in Nat /\ k = j + 1
    BY <1>4
  <2>2. k * RAY = j * RAY + RAY /\ j * RAY \in Nat
    BY <2>1, <1>2
  <2>3. j * RAY <= hi
    <3> HIDE DEF j, hi
    <3>1. j * RAY + RAY < RAY + hi + 1
      BY <2>2 DEF hi
    <3> QED
      BY <3>1, <2>2, <1>1, <1>2
  <2>4. j * (2 * RAY) = 2 * (j * RAY)
    BY <2>1, <1>2
  <2>5. j * (2 * RAY) <= i
    <3> HIDE DEF j, hi
    <3> QED
      BY <2>2, <2>3, <2>4, <1>1
  <2>6. j <= i \div (2 * RAY)
    <3> HIDE DEF j
    <3> QED
      BY <2>1, <2>5, <1>2, QuotientAtLeast
  <2>7. i \div (2 * RAY) \in Nat
    BY <1>2, QuotientBounds
  <2> QED
    BY <2>1, <2>6, <2>7 DEF HalfUnit
<1> QED
  BY <1>3, <1>4

(* What an amount adds to the worth of a scaled balance is the amount, to  *)
(* within half a unit.                                                     *)
LEMMA ScaledIsWorthAmount ==
  ASSUME NEW s \in Nat, NEW x \in Nat, NEW i \in Nat \ {0}
  PROVE  /\ RayMul(s + RayDiv(x, i), i) <= RayMul(s, i) + x + HalfUnit(i)
         /\ RayMul(s + RayDiv(x, i), i) >= RayMul(s, i) + x - HalfUnit(i)
<1> DEFINE q == RayDiv(x, i)
           m == RayMul(s, i)
           n == RayMul(s + q, i)
           hr == RAY \div 2
           hi == i \div 2
<1>1. RAY \in Nat \ {0} /\ hr \in Nat /\ hi \in Nat /\ i <= 2 * hi + 1
  BY ScalesPositive, QuotientBounds
<1>2. q \in Nat /\ q * i <= x * RAY + hi /\ x * RAY + hi < q * i + i
  BY <1>1, RayDivIsNat, QuotientBounds DEF RayDiv
<1> HIDE DEF q
<1>3. m \in Nat /\ m * RAY <= s * i + hr /\ s * i + hr < m * RAY + RAY
  <2>1. s * i + hr \in Nat
    BY <1>1, ProductMonotone
  <2> QED
    BY <1>1, <2>1, QuotientBounds DEF RayMul
<1>4. n \in Nat /\ n * RAY <= (s + q) * i + hr /\ (s + q) * i + hr < n * RAY + RAY
  <2>1. (s + q) * i + hr \in Nat
    BY <1>1, <1>2, ProductMonotone
  <2> QED
    BY <1>1, <2>1, QuotientBounds DEF RayMul
<1>5. /\ (s + q) * i = s * i + q * i
      /\ s * i \in Nat /\ q * i \in Nat /\ x * RAY \in Nat
      /\ m * RAY \in Nat /\ n * RAY \in Nat
  BY <1>1, <1>2, <1>3, <1>4
<1> HIDE DEF m, n, hi, hr
<1>6. n - m - x <= HalfUnit(i)
  <2>1. (n - m - x) * RAY = n * RAY - m * RAY - x * RAY
    BY <1>1, <1>3, <1>4
  <2>2. n * RAY - m * RAY - x * RAY < RAY + hi + 1
    BY <1>1, <1>2, <1>3, <1>4, <1>5
  <2>3. n - m - x \in Int
    BY <1>3, <1>4
  <2> QED
    BY <2>1, <2>2, <2>3, WithinHalfUnit DEF hi
<1>7. m + x - n <= HalfUnit(i)
  <2>1. (m + x - n) * RAY = m * RAY + x * RAY - n * RAY
    BY <1>1, <1>3, <1>4
  <2>2. m * RAY + x * RAY - n * RAY < RAY + hi + 1
    BY <1>1, <1>2, <1>3, <1>4, <1>5
  <2>3. m + x - n \in Int
    BY <1>3, <1>4
  <2> QED
    BY <2>1, <2>2, <2>3, WithinHalfUnit DEF hi
<1>8. HalfUnit(i) \in Nat
  BY HalfUnitIsNat
<1> QED
  BY <1>3, <1>4, <1>6, <1>7, <1>8 DEF m, n, q

(* ... and what it takes away. *)
LEMMA AmountIsWorthScaled ==
  ASSUME NEW s \in Nat, NEW x \in Nat, NEW i \in Nat \ {0}, RayDiv(x, i) <= s
  PROVE  /\ RayMul(s - RayDiv(x, i), i) <= RayMul(s, i) - x + HalfUnit(i)
         /\ RayMul(s - RayDiv(x, i), i) >= RayMul(s, i) - x - HalfUnit(i)
<1> DEFINE q == RayDiv(x, i)
           p == s - q
<1>1. q \in Nat /\ p \in Nat /\ p + q = s
  BY RayDivIsNat
<1>2. RayMul(p, i) \in Nat /\ RayMul(s, i) \in Nat /\ HalfUnit(i) \in Nat
  BY <1>1, RayMulIsNat, HalfUnitIsNat
<1>3. /\ RayMul(s, i) <= RayMul(p, i) + x + HalfUnit(i)
      /\ RayMul(s, i) >= RayMul(p, i) + x - HalfUnit(i)
  <2> HIDE DEF p
  <2> QED
    BY <1>1, ScaledIsWorthAmount DEF q
<1> QED
  BY <1>2, <1>3

(* Half a unit of each of two indexes is within the rounding of a call.    *)
LEMMA TwoHalfUnits ==
  ASSUME NEW i \in Nat, NEW j \in Nat
  PROVE  HalfUnit(i) + HalfUnit(j) <= (i + j) \div (2 * RAY) + 2
<1> DEFINE d == 2 * RAY
           a == i \div d
           b == j \div d
<1>1. d \in Nat \ {0}
  BY ScalesPositive
<1> HIDE DEF d
<1>2. a \in Nat /\ a * d <= i /\ b \in Nat /\ b * d <= j
  BY <1>1, QuotientBounds
<1> HIDE DEF a, b
<1>3. (a + b) * d = a * d + b * d /\ a * d \in Nat /\ b * d \in Nat /\ a + b \in Nat
  BY <1>1, <1>2
<1>4. (a + b) * d <= i + j
  BY <1>2, <1>3
<1>5. a + b <= (i + j) \div d /\ (i + j) \div d \in Nat
  BY <1>1, <1>3, <1>4, QuotientAtLeast, QuotientBounds
<1> QED
  BY <1>2, <1>5 DEF HalfUnit, a, b, d

-----------------------------------------------------------------------------
(* Nothing accrues in no time, and nothing comes of nothing. *)
LEMMA NoTimeNoInterest ==
  ASSUME NEW rate \in Nat
  PROVE  LinearInterest(rate, 0) = RAY /\ CompoundedInterest(rate, 0) = RAY
<1>1. rate * 0 = 0
  OBVIOUS
<1>2. 0 \div SECONDS_PER_YEAR = 0
  BY ScalesPositive, QuotientIs
<1> QED
  BY <1>1, <1>2, ScalesPositive DEF LinearInterest, CompoundedInterest

LEMMA NothingScaled ==
  ASSUME NEW i \in Nat \ {0}
  PROVE  RayDiv(0, i) = 0
<1>1. i \div 2 \in Nat /\ i \div 2 < i
  BY QuotientBounds
<1>2. 0 * RAY = 0
  BY ScalesPositive
<1>3. (i \div 2) \div i = 0
  BY <1>1, QuotientIs
<1> QED
  BY <1>1, <1>2, <1>3 DEF RayDiv

LEMMA NothingOfNothing ==
  ASSUME NEW f \in Nat
  PROVE  PercentMul(0, f) = 0
<1>1. PERCENTAGE_FACTOR \div 2 \in Nat /\ PERCENTAGE_FACTOR \div 2 < PERCENTAGE_FACTOR
  BY ScalesPositive, QuotientBounds
<1>2. 0 * f = 0
  OBVIOUS
<1>3. (PERCENTAGE_FACTOR \div 2) \div PERCENTAGE_FACTOR = 0
  BY <1>1, ScalesPositive, QuotientIs
<1> QED
  BY <1>1, <1>2, <1>3 DEF PercentMul

(* One mint at the index i more or less. *)
LEMMA TwoRoundings ==
  ASSUME NEW i \in Nat
  PROVE  HalfUnit(i) + HalfUnit(i) <= i \div RAY + 2 /\ i \div RAY \in Nat
<1> DEFINE j == i \div (2 * RAY)
<1>1. RAY \in Nat \ {0} /\ 2 * RAY \in Nat \ {0}
  BY ScalesPositive
<1>2. j \in Nat /\ j * (2 * RAY) <= i
  BY <1>1, QuotientBounds
<1>3. HalfUnit(i) = j + 1
  BY DEF HalfUnit
<1> HIDE DEF j
<1>4. j * (2 * RAY) = (j + j) * RAY
  BY <1>1, <1>2
<1>5. j + j <= i \div RAY
  BY <1>1, <1>2, <1>4, QuotientAtLeast
<1> QED
  BY <1>1, <1>2, <1>3, <1>5, QuotientBounds

(* A share of p, and the share by which it differs from another. *)
LEMMA SharesDiffer ==
  ASSUME NEW p \in Nat, NEW f \in Nat, NEW g \in Nat, f <= g
  PROVE  /\ PercentMul(p, f) <= PercentMul(p, g)
         /\ PercentMul(p, g) <= PercentMul(p, f) + PercentMul(p, g - f) + 1
<1> DEFINE F == PERCENTAGE_FACTOR
           h == F \div 2
           e == g - f
           q == PercentMul(p, f)
           r == PercentMul(p, g)
           d == PercentMul(p, e)
           a == p * f
           b == p * e
<1>1. F \in Nat \ {0} /\ h \in Nat /\ e \in Nat /\ g = f + e
  BY ScalesPositive, QuotientBounds
<1>2. a \in Nat /\ b \in Nat /\ p * g = a + b
  <2> HIDE DEF e
  <2> QED
    BY <1>1
<1>3. /\ q \in Nat /\ q * F <= a + h /\ a + h < q * F + F
      /\ r \in Nat /\ r * F <= a + b + h /\ a + b + h < r * F + F
      /\ d \in Nat /\ d * F <= b + h /\ b + h < d * F + F
  <2>1. a + h \in Nat /\ a + b + h \in Nat /\ b + h \in Nat
    BY <1>1, <1>2
  <2>2. q = (a + h) \div F /\ r = (a + b + h) \div F /\ d = (b + h) \div F
    BY <1>2 DEF PercentMul
  <2> HIDE DEF F, h, a, b, q, r, d, e
  <2> QED
    BY <1>1, <2>1, <2>2, QuotientBounds
<1> HIDE DEF F, h, a, b, q, r, d, e
<1>4. q <= r
  <2> SUFFICES ASSUME q > r PROVE FALSE
    BY <1>3
  <2>1. r + 1 <= q /\ (r + 1) * F <= q * F
    BY <1>1, <1>3
  <2>2. (r + 1) * F = r * F + F /\ r * F \in Nat /\ q * F \in Nat
    BY <1>1, <1>3
  <2> QED
    BY <1>1, <1>2, <1>3, <2>1, <2>2
<1>5. r <= q + d + 1
  <2> SUFFICES ASSUME r > q + d + 1 PROVE FALSE
    BY <1>3
  <2>1. q + d + 2 <= r /\ (q + d + 2) * F <= r * F
    BY <1>1, <1>3
  <2>2. (q + d + 2) * F = q * F + d * F + F + F
    BY <1>1, <1>3
  <2>3. r * F \in Nat /\ q * F \in Nat /\ d * F \in Nat
    BY <1>1, <1>3
  <2> QED
    BY <1>1, <1>2, <1>3, <2>1, <2>2, <2>3
<1> QED
  BY <1>4, <1>5 DEF q, r, d, e

LEMMA ShareOfNone ==
  ASSUME NEW x \in Int
  PROVE  PercentMul(x, 0) = 0
<1>1. PERCENTAGE_FACTOR \div 2 \in Nat /\ PERCENTAGE_FACTOR \div 2 < PERCENTAGE_FACTOR
  BY ScalesPositive, QuotientBounds
<1>2. x * 0 = 0
  OBVIOUS
<1>3. (PERCENTAGE_FACTOR \div 2) \div PERCENTAGE_FACTOR = 0
  BY <1>1, ScalesPositive, QuotientIs
<1> QED
  BY <1>1, <1>2, <1>3 DEF PercentMul

(* The worth of two mints on the same supply differs as the amounts do. *)
LEMMA MintsDiffer ==
  ASSUME NEW s \in Nat, NEW x \in Nat, NEW y \in Nat, NEW i \in Nat \ {0},
         NEW m \in Nat, x <= y + m
  PROVE  RayMul(s + RayDiv(x, i), i) <= RayMul(s + RayDiv(y, i), i) + m + (i \div RAY) + 2
<1> DEFINE p == RayMul(s + RayDiv(x, i), i)
           q == RayMul(s + RayDiv(y, i), i)
           w == RayMul(s, i)
           h == HalfUnit(i)
<1>1. p \in Nat /\ q \in Nat /\ w \in Nat /\ h \in Nat
  <2>1. RayDiv(x, i) \in Nat /\ RayDiv(y, i) \in Nat
    BY RayDivIsNat
  <2>2. s + RayDiv(x, i) \in Nat /\ s + RayDiv(y, i) \in Nat
    BY <2>1
  <2> QED
    BY <2>2, RayMulIsNat, HalfUnitIsNat
<1>2. p <= w + x + h /\ q >= w + y - h
  BY ScaledIsWorthAmount
<1>3. h + h <= i \div RAY + 2 /\ i \div RAY \in Nat
  BY TwoRoundings
<1> HIDE DEF p, q, w, h
<1>4. p <= q + m + (i \div RAY) + 2
  BY <1>1, <1>2, <1>3
<1> QED
  BY <1>4 DEF p, q

-----------------------------------------------------------------------------
(* Sums. *)

(* The member a fold over s takes out first. *)
First(s) == CHOOSE z \in s : TRUE

(* The equation MapThenSumSet takes its partial sums from. *)
PartialSums(f, S, h) ==
  h = [s \in SUBSET S |-> IF s = {} THEN 0 ELSE f[First(s)] + h[s \ {First(s)}]]

(* The sum of f over S, as the model writes it. *)
Total(f, S) == LET at(x) == f[x] IN MapThenSumSet(at, S)

(* Naturals have a least one, so there is induction without an operator.  *)
Less == {ss \in Nat \X Nat : ss[1] < ss[2]}

LEMMA LessWF == IsWellFoundedOn(Less, Nat)
<1>1. OpToRel(<, Nat) = Less
  BY DEF OpToRel, Less
<1> QED
  BY <1>1, NatLessThanWellFounded

LEMMA LeastNatural ==
  ASSUME NEW T, T \subseteq Nat, T # {}
  PROVE  \E n \in T : \A m \in T : n <= m
<1>1. \E n \in T : \A m \in T : <<m, n>> \notin Less
  BY LessWF, WFMin
<1>2. \A m, n \in Nat : <<m, n>> \notin Less => n <= m
  BY DEF Less
<1> QED
  BY <1>1, <1>2

-----------------------------------------------------------------------------
LEMMA FirstIsMember ==
  ASSUME NEW s, s # {}
  PROVE  First(s) \in s
BY DEF First

LEMMA SubsetsOf ==
  ASSUME NEW S, IsFiniteSet(S), NEW s \in SUBSET S
  PROVE  /\ IsFiniteSet(s) /\ Cardinality(s) \in Nat /\ Cardinality(s) <= Cardinality(S)
         /\ s # {} => /\ s \ {First(s)} \in SUBSET S
                      /\ Cardinality(s \ {First(s)}) = Cardinality(s) - 1
                      /\ Cardinality(s) > 0
<1>1. IsFiniteSet(s) /\ Cardinality(s) \in Nat /\ Cardinality(s) <= Cardinality(S)
  BY FS_Subset, FS_CardinalityType
<1>2. ASSUME s # {}
      PROVE  /\ s \ {First(s)} \in SUBSET S
             /\ Cardinality(s \ {First(s)}) = Cardinality(s) - 1
             /\ Cardinality(s) > 0
  <2>1. First(s) \in s
    BY <1>2, FirstIsMember
  <2>2. Cardinality(s \ {First(s)}) = Cardinality(s) - 1
    BY <1>1, <2>1, FS_RemoveElement
  <2>3. IsFiniteSet(s \ {First(s)}) /\ Cardinality(s \ {First(s)}) \in Nat
    BY <1>1, FS_Subset, FS_CardinalityType
  <2> QED
    BY <1>1, <2>2, <2>3
<1> QED
  BY <1>1, <1>2

(* Induction over the subsets of a finite set. *)
LEMMA SubsetInduction ==
  ASSUME NEW S, IsFiniteSet(S), NEW P, {} \in P,
         \A s \in SUBSET S : s # {} /\ s \ {First(s)} \in P => s \in P
  PROVE  SUBSET S \subseteq P
<1> DEFINE T == {Cardinality(s) : s \in (SUBSET S) \ P}
<1> SUFFICES ASSUME T # {} PROVE FALSE
  OBVIOUS
<1>1. T \subseteq Nat
  <2>1. \A s \in SUBSET S : Cardinality(s) \in Nat
    BY SubsetsOf
  <2> QED
    BY <2>1
<1>2. PICK n \in T : \A m \in T : n <= m
  <2> HIDE DEF T
  <2> QED
    BY <1>1, LeastNatural
<1>3. PICK s \in (SUBSET S) \ P : Cardinality(s) = n
  BY <1>2
<1>4. s # {}
  BY <1>3
<1>5. /\ s \ {First(s)} \in SUBSET S /\ Cardinality(s) \in Nat
      /\ Cardinality(s \ {First(s)}) = Cardinality(s) - 1
  BY <1>3, <1>4, SubsetsOf
<1>6. s \ {First(s)} \notin P
  BY <1>3, <1>4
<1>7. Cardinality(s \ {First(s)}) \in T
  BY <1>5, <1>6
<1>8. n <= Cardinality(s) - 1
  BY <1>2, <1>5, <1>7
<1> QED
  BY <1>3, <1>5, <1>8

(* Partial sums over the subsets of at most n members. *)
SumsUpTo(f, S, n, h) ==
  h = [s \in {t \in SUBSET S : Cardinality(t) <= n} |->
         IF s = {} THEN 0 ELSE f[First(s)] + h[s \ {First(s)}]]

LEMMA SumsUpToExist ==
  ASSUME NEW S, IsFiniteSet(S), NEW f, NEW n \in Nat
  PROVE  \E h : SumsUpTo(f, S, n, h)
<1> DEFINE T == {m \in Nat : ~ \E h : SumsUpTo(f, S, m, h)}
<1> SUFFICES ASSUME T # {} PROVE FALSE
  OBVIOUS
<1>1. PICK k \in T : \A m \in T : k <= m
  <2>1. T \subseteq Nat
    OBVIOUS
  <2> HIDE DEF T
  <2> QED
    BY <2>1, LeastNatural
<1>2. k # 0
  <2> SUFFICES ASSUME k = 0 PROVE FALSE
    OBVIOUS
  <2> DEFINE h == [s \in {t \in SUBSET S : Cardinality(t) <= 0} |-> 0]
  <2>1. \A s \in SUBSET S : Cardinality(s) <= 0 => s = {}
    <3>1. \A s \in SUBSET S : s # {} => Cardinality(s) \in Nat /\ Cardinality(s) > 0
      BY SubsetsOf
    <3>2. \A m \in Nat : m > 0 => ~(m <= 0)
      OBVIOUS
    <3> QED
      BY <3>1, <3>2
  <2>2. h = [s \in {t \in SUBSET S : Cardinality(t) <= 0} |->
               IF s = {} THEN 0 ELSE f[First(s)] + h[s \ {First(s)}]]
    BY <2>1
  <2> HIDE DEF h
  <2>3. SumsUpTo(f, S, 0, h)
    BY <2>2 DEF SumsUpTo
  <2> QED
    BY <1>1, <2>3
<1>3. k \in Nat /\ k - 1 \in Nat /\ k - 1 \notin T
  BY <1>1, <1>2
<1>4. PICK g : SumsUpTo(f, S, k - 1, g)
  BY <1>3
<1> DEFINE Low  == {t \in SUBSET S : Cardinality(t) <= k - 1}
           High == {t \in SUBSET S : Cardinality(t) <= k}
           h    == [s \in High |-> IF s = {} THEN 0 ELSE f[First(s)] + g[s \ {First(s)}]]
<1>5. \A s \in Low : g[s] = IF s = {} THEN 0 ELSE f[First(s)] + g[s \ {First(s)}]
  BY <1>4 DEF SumsUpTo
<1>6. Low \subseteq High
  <2>1. \A t \in SUBSET S : Cardinality(t) \in Nat
    BY SubsetsOf
  <2>2. \A m \in Nat : m <= k - 1 => m <= k
    BY <1>3
  <2> QED
    BY <2>1, <2>2
<1>7. \A s \in Low : h[s] = g[s]
  BY <1>5, <1>6
<1>8. \A s \in High : s # {} => s \ {First(s)} \in Low
  BY <1>3, SubsetsOf
<1>9. h = [s \in High |-> IF s = {} THEN 0 ELSE f[First(s)] + h[s \ {First(s)}]]
  <2> HIDE DEF Low, High
  <2>1. \A s \in High : (IF s = {} THEN 0 ELSE f[First(s)] + g[s \ {First(s)}])
                         = (IF s = {} THEN 0 ELSE f[First(s)] + h[s \ {First(s)}])
    <3> HIDE DEF h
    <3> QED
      BY <1>7, <1>8
  <2> QED
    BY <2>1
<1>10. SumsUpTo(f, S, k, h)
  BY <1>9 DEF SumsUpTo
<1> QED
  BY <1>1, <1>10

LEMMA PartialSumsExist ==
  ASSUME NEW S, IsFiniteSet(S), NEW f
  PROVE  \E h : PartialSums(f, S, h)
<1> DEFINE n == Cardinality(S)
<1>1. n \in Nat
  BY FS_CardinalityType
<1>2. PICK h : SumsUpTo(f, S, n, h)
  BY <1>1, SumsUpToExist
<1>3. {t \in SUBSET S : Cardinality(t) <= n} = SUBSET S
  BY SubsetsOf
<1> QED
  BY <1>2, <1>3 DEF SumsUpTo, PartialSums

(* The sum is the last of its partial sums. *)
LEMMA TotalIsPartialSum ==
  ASSUME NEW S, IsFiniteSet(S), NEW f
  PROVE  \E h : PartialSums(f, S, h) /\ Total(f, S) = h[S]
<1> DEFINE iter == CHOOSE h : PartialSums(f, S, h)
<1>1. PartialSums(f, S, iter)
  BY PartialSumsExist
<1>2. Total(f, S) = iter[S]
  BY DEF Total, MapThenSumSet, MapThenFoldSet, PartialSums, First
<1> QED
  BY <1>1, <1>2

LEMMA PartialSumEquation ==
  ASSUME NEW S, NEW f, NEW h, PartialSums(f, S, h)
  PROVE  /\ h[{}] = 0
         /\ \A s \in SUBSET S : s # {} => h[s] = f[First(s)] + h[s \ {First(s)}]
BY DEF PartialSums

LEMMA TotalOfNone ==
  ASSUME NEW f
  PROVE  Total(f, {}) = 0
<1>1. IsFiniteSet({})
  BY FS_EmptySet
<1>2. PICK h : PartialSums(f, {}, h) /\ Total(f, {}) = h[{}]
  BY <1>1, TotalIsPartialSum
<1> QED
  BY <1>2, PartialSumEquation

(* A sum of naturals is a natural, and at least each of them.              *)
LEMMA TotalBounds ==
  ASSUME NEW S, IsFiniteSet(S), NEW f, \A x \in S : f[x] \in Nat
  PROVE  /\ Total(f, S) \in Nat
         /\ \A x \in S : f[x] <= Total(f, S)
<1>1. PICK h : PartialSums(f, S, h) /\ Total(f, S) = h[S]
  BY TotalIsPartialSum
<1> DEFINE P == {s \in SUBSET S : h[s] \in Nat /\ \A x \in s : f[x] <= h[s]}
<1>2. {} \in P
  BY <1>1, PartialSumEquation
<1>3. ASSUME NEW s \in SUBSET S, s # {}, s \ {First(s)} \in P
      PROVE  s \in P
  <2> DEFINE z == First(s)
             t == s \ {z}
  <2>1. z \in s /\ f[z] \in Nat
    BY <1>3, FirstIsMember
  <2>2. h[s] = f[z] + h[t]
    <3>1. \A q \in SUBSET S : q # {} => h[q] = f[First(q)] + h[q \ {First(q)}]
      BY ONLY <1>1, PartialSumEquation
    <3> HIDE DEF P
    <3> QED
      BY ONLY <1>3, <3>1, s \in SUBSET S
  <2>3. h[t] \in Nat /\ \A x \in t : f[x] <= h[t]
    BY <1>3
  <2>4. h[s] \in Nat /\ f[z] <= h[s] /\ h[t] <= h[s]
    BY <2>1, <2>2, <2>3
  <2>5. \A x \in s : f[x] <= h[s]
    <3> TAKE x \in s
    <3>1. f[x] \in Nat
      OBVIOUS
    <3>2. x = z \/ x \in t
      OBVIOUS
    <3> HIDE DEF z, t
    <3> QED
      BY <2>3, <2>4, <3>1, <3>2
  <2> QED
    BY <2>4, <2>5
<1>4. S \in P
  <2> HIDE DEF P
  <2> QED
    BY <1>2, <1>3, SubsetInduction
<1> QED
  BY <1>1, <1>4

(* Zeros sum up to zero. *)
LEMMA TotalOfZeros ==
  ASSUME NEW S, IsFiniteSet(S), NEW f, \A x \in S : f[x] = 0
  PROVE  Total(f, S) = 0
<1>1. PICK h : PartialSums(f, S, h) /\ Total(f, S) = h[S]
  BY TotalIsPartialSum
<1> DEFINE P == {s \in SUBSET S : h[s] = 0}
<1>2. {} \in P
  BY <1>1, PartialSumEquation
<1>3. ASSUME NEW s \in SUBSET S, s # {}, s \ {First(s)} \in P
      PROVE  s \in P
  <2>1. f[First(s)] = 0
    BY <1>3, FirstIsMember
  <2>2. h[s] = f[First(s)] + h[s \ {First(s)}]
    BY <1>1, <1>3, PartialSumEquation
  <2> QED
    BY <1>3, <2>1, <2>2
<1>4. S \in P
  <2> HIDE DEF P
  <2> QED
    BY <1>2, <1>3, SubsetInduction
<1> QED
  BY <1>4, <1>1

(* Induction from all the smaller subsets.                                *)
LEMMA StrongSubsetInduction ==
  ASSUME NEW S, IsFiniteSet(S), NEW P,
         \A s \in SUBSET S : (\A q \in SUBSET s : q # s => q \in P) => s \in P
  PROVE  SUBSET S \subseteq P
<1> DEFINE T == {Cardinality(s) : s \in (SUBSET S) \ P}
<1> SUFFICES ASSUME T # {} PROVE FALSE
  OBVIOUS
<1>1. T \subseteq Nat
  <2>1. \A s \in SUBSET S : Cardinality(s) \in Nat
    BY SubsetsOf
  <2> QED
    BY <2>1
<1>2. PICK n \in T : \A m \in T : n <= m
  <2> HIDE DEF T
  <2> QED
    BY <1>1, LeastNatural
<1>3. PICK s \in (SUBSET S) \ P : Cardinality(s) = n
  BY <1>2
<1>4. PICK q \in SUBSET s : q # s /\ q \notin P
  BY <1>3
<1>5. Cardinality(q) \in Nat /\ Cardinality(s) \in Nat /\ Cardinality(q) < Cardinality(s)
  <2>1. IsFiniteSet(s)
    BY <1>3, FS_Subset
  <2>2. IsFiniteSet(q) /\ Cardinality(q) <= Cardinality(s) /\ Cardinality(q) # Cardinality(s)
    BY <1>4, <2>1, FS_Subset
  <2> QED
    BY <2>1, <2>2, FS_CardinalityType
<1>6. Cardinality(q) \in T
  BY <1>3, <1>4
<1> QED
  BY <1>2, <1>3, <1>5, <1>6

(* Partial sums over a set are those over a subset.                       *)
LEMMA TotalOfFirst ==
  ASSUME NEW S, IsFiniteSet(S), S # {}, NEW f
  PROVE  Total(f, S) = f[First(S)] + Total(f, S \ {First(S)})
<1> DEFINE T == S \ {First(S)}
<1>1. PICK h : PartialSums(f, S, h) /\ Total(f, S) = h[S]
  BY TotalIsPartialSum
<1>2. IsFiniteSet(T) /\ T \in SUBSET S
  BY FS_Subset
<1> HIDE DEF T
<1>3. PICK k : PartialSums(f, T, k) /\ Total(f, T) = k[T]
  BY <1>2, TotalIsPartialSum
<1> DEFINE P == {s \in SUBSET T : h[s] = k[s]}
<1>4. {} \in P
  <2>1. h[{}] = 0
    BY ONLY <1>1, PartialSumEquation
  <2>2. k[{}] = 0
    BY ONLY <1>3, PartialSumEquation
  <2> QED
    BY <2>1, <2>2
<1>5. ASSUME NEW s \in SUBSET T, s # {}, s \ {First(s)} \in P
      PROVE  s \in P
  <2>1. h[s] = f[First(s)] + h[s \ {First(s)}]
    <3>1. s \in SUBSET S
      BY <1>2
    <3>2. \A q \in SUBSET S : q # {} => h[q] = f[First(q)] + h[q \ {First(q)}]
      BY ONLY <1>1, PartialSumEquation
    <3> HIDE DEF P
    <3> QED
      BY ONLY <1>5, <3>1, <3>2
  <2>2. k[s] = f[First(s)] + k[s \ {First(s)}]
    <3>1. \A q \in SUBSET T : q # {} => k[q] = f[First(q)] + k[q \ {First(q)}]
      BY ONLY <1>3, PartialSumEquation
    <3> HIDE DEF P
    <3> QED
      BY ONLY <1>5, <3>1, s \in SUBSET T
  <2> QED
    BY <1>5, <2>1, <2>2
<1>6. T \in P
  <2> HIDE DEF P
  <2> QED
    BY <1>2, <1>4, <1>5, SubsetInduction
<1>7. h[S] = f[First(S)] + h[T]
  <2>1. S \in SUBSET S
    OBVIOUS
  <2> QED
    BY ONLY <1>1, <2>1, S # {}, PartialSumEquation DEF T
<1> QED
  BY <1>1, <1>3, <1>6, <1>7 DEF T

(* Any member may be taken out first.                                     *)
LEMMA TotalWithout ==
  ASSUME NEW S, IsFiniteSet(S), NEW f, \A x \in S : f[x] \in Nat, NEW z \in S
  PROVE  /\ Total(f, S \ {z}) \in Nat
         /\ Total(f, S) = f[z] + Total(f, S \ {z})
<1> DEFINE P == {s \in SUBSET S : \A x \in s : Total(f, s) = f[x] + Total(f, s \ {x})}
<1>1. \A s \in SUBSET S : IsFiniteSet(s) /\ Total(f, s) \in Nat
  BY FS_Subset, TotalBounds
<1>2. ASSUME NEW s \in SUBSET S, \A q \in SUBSET s : q # s => q \in P
      PROVE  s \in P
  <2> SUFFICES ASSUME NEW x \in s PROVE Total(f, s) = f[x] + Total(f, s \ {x})
    OBVIOUS
  <2> DEFINE w == First(s)
             t == s \ {w}
             r == s \ {x}
             q == s \ {w, x}
  <2>1. w \in s
    BY FirstIsMember
  <2>2. Total(f, s) = f[w] + Total(f, t)
    BY <1>1, TotalOfFirst
  <2> HIDE DEF w
  <2>3. CASE w = x
    BY <2>2, <2>3
  <2>4. CASE w # x
    <3>1. t \in P /\ r \in P
      <4>1. t \in SUBSET s /\ t # s /\ r \in SUBSET s /\ r # s
        BY <2>1
      <4> HIDE DEF P, t, r
      <4> QED
        BY <1>2, <4>1
    <3>2. x \in t /\ w \in r /\ t \ {x} = q /\ r \ {w} = q
      BY <2>1, <2>4
    <3>3. Total(f, t) = f[x] + Total(f, q)
      BY <3>1, <3>2
    <3>4. Total(f, r) = f[w] + Total(f, q)
      BY <3>1, <3>2
    <3>5. f[w] \in Nat /\ f[x] \in Nat /\ Total(f, q) \in Nat
      BY <1>1, <2>1
    <3> HIDE DEF t, r, q, P
    <3>6. Total(f, s) = f[x] + Total(f, r)
      BY ONLY <2>2, <3>3, <3>4, <3>5
    <3> QED
      BY <3>6 DEF r
  <2> QED
    BY <2>3, <2>4
<1>3. S \in P
  <2> HIDE DEF P
  <2> QED
    BY <1>2, StrongSubsetInduction
<1>4. S \ {z} \in SUBSET S
  OBVIOUS
<1> QED
  BY <1>1, <1>3, <1>4

(* A sum whose members count for no less in another is no more.            *)
LEMMA TotalMonotone ==
  ASSUME NEW T, IsFiniteSet(T), NEW S, IsFiniteSet(S), NEW f, NEW g,
         \A x \in S : g[x] \in Nat,
         \A x \in T : f[x] \in Nat /\ (f[x] = 0 \/ (x \in S /\ f[x] <= g[x]))
  PROVE  Total(f, T) <= Total(g, S)
<1> DEFINE U == S \cup T
           P == {s \in SUBSET U : Total(f, s \cap T) <= Total(g, s \cap S)}
<1>1. \A s \in SUBSET S : IsFiniteSet(s) /\ Total(g, s) \in Nat
  BY FS_Subset, TotalBounds
<1>2. \A s \in SUBSET T : IsFiniteSet(s) /\ Total(f, s) \in Nat
  BY FS_Subset, TotalBounds
<1>3. {} \in P
  <2>1. {} \cap T = {} /\ {} \cap S = {}
    OBVIOUS
  <2> QED
    BY <2>1, TotalOfNone
<1>4. ASSUME NEW s \in SUBSET U, s # {}, s \ {First(s)} \in P
      PROVE  s \in P
  <2> DEFINE z == First(s)
             t == s \ {z}
             a == s \cap T
             b == s \cap S
             c == t \cap T
             d == t \cap S
  <2>1. z \in s
    BY <1>4, FirstIsMember
  <2>2. Total(f, c) <= Total(g, d)
    BY <1>4
  <2> HIDE DEF z
  <2>3. /\ IsFiniteSet(a) /\ Total(f, c) \in Nat /\ \A x \in a : f[x] \in Nat
        /\ IsFiniteSet(b) /\ Total(g, d) \in Nat /\ \A x \in b : g[x] \in Nat
    <3>1. a \in SUBSET T /\ c \in SUBSET T /\ b \in SUBSET S /\ d \in SUBSET S
      OBVIOUS
    <3> HIDE DEF a, b, c, d
    <3> QED
      BY <1>1, <1>2, <3>1
  <2>4. z \in T => f[z] \in Nat /\ Total(f, a) = f[z] + Total(f, c)
    <3> SUFFICES ASSUME z \in T PROVE f[z] \in Nat /\ Total(f, a) = f[z] + Total(f, c)
      OBVIOUS
    <3>1. z \in a /\ a \ {z} = c
      BY <2>1
    <3> HIDE DEF a, c
    <3> QED
      BY <2>3, <3>1, TotalWithout
  <2>5. z \in S => g[z] \in Nat /\ Total(g, b) = g[z] + Total(g, d)
    <3> SUFFICES ASSUME z \in S PROVE g[z] \in Nat /\ Total(g, b) = g[z] + Total(g, d)
      OBVIOUS
    <3>1. z \in b /\ b \ {z} = d
      BY <2>1
    <3> HIDE DEF b, d
    <3> QED
      BY <2>3, <3>1, TotalWithout
  <2>6. z \notin T => Total(f, a) = Total(f, c)
    <3>1. z \notin T => a = c
      OBVIOUS
    <3> HIDE DEF a, c
    <3> QED
      BY ONLY <3>1, Zenon
  <2>7. z \notin S => Total(g, b) = Total(g, d)
    <3>1. z \notin S => b = d
      OBVIOUS
    <3> HIDE DEF b, d
    <3> QED
      BY ONLY <3>1, Zenon
  <2>8. z \in T => f[z] = 0 \/ (z \in S /\ f[z] <= g[z])
    OBVIOUS
  <2>9. Total(f, a) <= Total(g, b)
    <3> HIDE DEF a, b, c, d
    <3> QED
      BY ONLY <2>2, <2>3, <2>4, <2>5, <2>6, <2>7, <2>8
  <2> QED
    BY <2>9
<1>5. U \in P
  <2>1. IsFiniteSet(U)
    BY FS_Union
  <2> HIDE DEF P, U
  <2> QED
    BY <1>3, <1>4, <2>1, SubsetInduction
<1>6. U \cap T = T /\ U \cap S = S
  OBVIOUS
<1>7. Total(f, U \cap T) = Total(f, T) /\ Total(g, U \cap S) = Total(g, S)
  BY ONLY <1>6, Zenon
<1> QED
  BY <1>5, <1>7

(* What holds of each member with a factor and a slack holds of the sums.  *)
LEMMA TotalsCompare ==
  ASSUME NEW S, IsFiniteSet(S), NEW f, NEW g, NEW a \in Nat, NEW b \in Nat, NEW c \in Nat,
         \A x \in S : f[x] \in Nat /\ g[x] \in Nat /\ a * f[x] <= b * g[x] + c
  PROVE  a * Total(f, S) <= b * Total(g, S) + c * Cardinality(S)
<1> DEFINE P == {s \in SUBSET S : a * Total(f, s) <= b * Total(g, s) + c * Cardinality(s)}
<1>1. \A s \in SUBSET S : /\ IsFiniteSet(s) /\ Cardinality(s) \in Nat
                          /\ Total(f, s) \in Nat /\ Total(g, s) \in Nat
  BY FS_Subset, TotalBounds, FS_CardinalityType
<1>2. {} \in P
  <2>1. Total(f, {}) = 0 /\ Total(g, {}) = 0 /\ Cardinality({}) = 0
    BY TotalOfNone, FS_EmptySet
  <2> QED
    BY <2>1
<1>3. ASSUME NEW s \in SUBSET S, s # {}, s \ {First(s)} \in P
      PROVE  s \in P
  <2> DEFINE z == First(s)
             t == s \ {z}
  <2>1. z \in s /\ z \in S
    BY <1>3, FirstIsMember
  <2>2. Total(f, s) = f[z] + Total(f, t) /\ Total(g, s) = g[z] + Total(g, t)
    BY <1>1, <1>3, TotalOfFirst
  <2>3. a * Total(f, t) <= b * Total(g, t) + c * Cardinality(t)
    BY <1>3
  <2> HIDE DEF z
  <2>4. Cardinality(s) = Cardinality(t) + 1
    BY <1>1, <2>1, FS_RemoveElement
  <2>5. /\ f[z] \in Nat /\ g[z] \in Nat /\ a * f[z] <= b * g[z] + c
        /\ Total(f, t) \in Nat /\ Total(g, t) \in Nat /\ Cardinality(t) \in Nat
    BY <1>1, <2>1
  <2> HIDE DEF t
  <2>6. /\ a * (f[z] + Total(f, t)) = a * f[z] + a * Total(f, t)
        /\ b * (g[z] + Total(g, t)) = b * g[z] + b * Total(g, t)
        /\ c * (Cardinality(t) + 1) = c * Cardinality(t) + c
    BY ONLY <2>5, a \in Nat, b \in Nat, c \in Nat
  <2>7. /\ a * f[z] \in Nat /\ a * Total(f, t) \in Nat /\ b * g[z] \in Nat
        /\ b * Total(g, t) \in Nat /\ c * Cardinality(t) \in Nat
    BY ONLY <2>5, a \in Nat, b \in Nat, c \in Nat
  <2>8. a * Total(f, s) <= b * Total(g, s) + c * Cardinality(s)
    BY ONLY <2>2, <2>3, <2>4, <2>5, <2>6, <2>7, c \in Nat
  <2> QED
    BY <2>8
<1>4. S \in P
  <2> HIDE DEF P
  <2> QED
    BY <1>2, <1>3, SubsetInduction
<1> QED
  BY <1>4

(* A change of one member changes the sum by as much.                      *)
LEMMA TotalChanges ==
  ASSUME NEW S, IsFiniteSet(S), NEW f \in [S -> Int], NEW g \in [S -> Int], NEW x \in S,
         \A y \in S \ {x} : g[y] = f[y]
  PROVE  /\ Total(f, S) \in Int
         /\ Total(g, S) = Total(f, S) + (g[x] - f[x])
<1>1. PICK hf : PartialSums(f, S, hf) /\ Total(f, S) = hf[S]
  BY TotalIsPartialSum
<1>2. PICK hg : PartialSums(g, S, hg) /\ Total(g, S) = hg[S]
  BY TotalIsPartialSum
<1> DEFINE change(s) == IF x \in s THEN g[x] - f[x] ELSE 0
           P == {s \in SUBSET S : hf[s] \in Int /\ hg[s] = hf[s] + change(s)}
<1>3. {} \in P
  BY <1>1, <1>2, PartialSumEquation
<1>4. ASSUME NEW s \in SUBSET S, s # {}, s \ {First(s)} \in P
      PROVE  s \in P
  <2> DEFINE z == First(s)
             t == s \ {z}
  <2>1. z \in s /\ f[z] \in Int /\ g[z] \in Int /\ f[x] \in Int /\ g[x] \in Int
    BY <1>4, FirstIsMember
  <2>2. hf[s] = f[z] + hf[t] /\ hg[s] = g[z] + hg[t]
    <3> HIDE DEF P
    <3>1. hf[s] = f[z] + hf[t]
      BY <1>1, <1>4, PartialSumEquation
    <3>2. hg[s] = g[z] + hg[t]
      BY <1>2, <1>4, PartialSumEquation
    <3> QED
      BY <3>1, <3>2
  <2>3. hf[t] \in Int /\ hg[t] = hf[t] + change(t)
    BY <1>4
  <2>4. hf[s] \in Int
    BY <2>1, <2>2, <2>3
  <2>5. CASE z = x
    <3>1. x \in s /\ x \notin t
      BY <2>1, <2>5
    <3>2. hg[t] = hf[t]
      BY <2>3, <3>1
    <3>3. hg[s] = hf[s] + (g[x] - f[x])
      <4> HIDE DEF z, t
      <4> QED
        BY <2>1, <2>2, <2>3, <2>5, <3>2
    <3> QED
      BY <2>4, <3>1, <3>3
  <2>6. CASE z # x
    <3>1. x \in s <=> x \in t
      BY <2>6
    <3>2. g[z] = f[z]
      BY <2>1, <2>6
    <3>3. change(s) = change(t) /\ change(t) \in Int
      <4> HIDE DEF z, t
      <4> QED
        BY <2>1, <3>1
    <3>4. hg[s] = hf[s] + change(s)
      <4> HIDE DEF z, t, change
      <4> QED
        BY <2>1, <2>2, <2>3, <3>2, <3>3
    <3> QED
      BY <2>4, <3>4
  <2> QED
    BY <2>5, <2>6
<1>5. S \in P
  <2> HIDE DEF P
  <2> QED
    BY <1>3, <1>4, SubsetInduction
<1> QED
  BY <1>1, <1>2, <1>5

(* The same for a balance that is moved. *)
LEMMA BalanceMoves ==
  ASSUME NEW S, IsFiniteSet(S), NEW f \in [S -> Nat], NEW x \in S, NEW k \in Int,
         f[x] + k \in Nat
  PROVE  LET g == [f EXCEPT ![x] = f[x] + k]
         IN  g \in [S -> Nat] /\ Total(g, S) = Total(f, S) + k
<1> DEFINE g == [f EXCEPT ![x] = f[x] + k]
<1>1. /\ g \in [S -> Nat] /\ g[x] = f[x] + k
      /\ \A y \in S \ {x} : g[y] = f[y]
  OBVIOUS
<1> HIDE DEF g
<1>2. f \in [S -> Int] /\ g \in [S -> Int]
  BY <1>1
<1>3. Total(f, S) \in Int /\ Total(g, S) = Total(f, S) + (g[x] - f[x])
  BY <1>1, <1>2, TotalChanges
<1>4. f[x] \in Nat /\ g[x] - f[x] = k
  BY <1>1
<1> QED
  BY <1>1, <1>3, <1>4 DEF g

(* ... and for one that is moved to another, or to itself. *)
LEMMA BalanceTransfers ==
  ASSUME NEW S, IsFiniteSet(S), NEW f \in [S -> Nat], NEW x \in S, NEW y \in S,
         NEW k \in Nat, k <= f[x]
  PROVE  LET less == [f EXCEPT ![x] = f[x] - k]
             g == [less EXCEPT ![y] = less[y] + k]
         IN  Total(g, S) = Total(f, S)
<1> DEFINE less == [f EXCEPT ![x] = f[x] - k]
           g == [less EXCEPT ![y] = less[y] + k]
<1>1. f[x] \in Nat /\ f[x] - k \in Nat
  OBVIOUS
<1>2. less \in [S -> Nat] /\ less[x] = f[x] - k /\ \A z \in S \ {x} : less[z] = f[z]
  BY <1>1
<1> HIDE DEF less
<1>3. g \in [S -> Nat] /\ g[y] = less[y] + k /\ \A z \in S \ {y} : g[z] = less[z]
  BY <1>2
<1> HIDE DEF g
<1>4. f \in [S -> Int] /\ less \in [S -> Int] /\ g \in [S -> Int]
  BY <1>2, <1>3
<1>5. Total(f, S) \in Int /\ Total(less, S) = Total(f, S) + (less[x] - f[x])
  BY <1>2, <1>4, TotalChanges
<1>6. Total(less, S) \in Int /\ Total(g, S) = Total(less, S) + (g[y] - less[y])
  BY <1>3, <1>4, TotalChanges
<1>7. less[x] - f[x] = -k /\ less[y] \in Nat
  BY <1>1, <1>2
<1>8. g[y] - less[y] = k
  BY <1>3, <1>7
<1>9. Total(g, S) = Total(f, S)
  BY <1>5, <1>6, <1>7, <1>8
<1> QED
  BY <1>9 DEF g, less
-----------------------------------------------------------------------------
(* The reserve. *)

(* The types alone are not inductive: RayDiv by an index is a natural only *)
(* because indexes start at one ray and never shrink, and an index is not  *)
(* shrunk only because no reserve was updated in the future.               *)
WellFormed(r, t) ==
  /\ r \in Reserve
  /\ r.liquidityIndex >= RAY
  /\ r.variableBorrowIndex >= RAY
  /\ r.lastUpdate <= t

(* What no accrual touches. *)
SamePositions(r, n) ==
  /\ n.dBalance = r.dBalance /\ n.dSupply = r.dSupply /\ n.cash = r.cash
  /\ n.configuration = r.configuration /\ n.strategy = r.strategy

(* Indexes at least as large. *)
IndexesGrow(r, n) ==
  /\ n.liquidityIndex >= r.liquidityIndex
  /\ n.variableBorrowIndex >= r.variableBorrowIndex

-----------------------------------------------------------------------------
LEMMA ReserveFields ==
  ASSUME NEW r \in Reserve
  PROVE  /\ r.configuration \in Configuration /\ r.strategy \in Strategy
         /\ r.liquidityIndex \in Nat /\ r.variableBorrowIndex \in Nat
         /\ r.liquidityRate \in Nat /\ r.borrowRate \in Nat /\ r.lastUpdate \in Nat
         /\ r.aBalance \in [Accounts -> Nat] /\ r.aSupply \in Nat
         /\ r.dBalance \in [Users -> Nat] /\ r.dSupply \in Nat /\ r.cash \in Nat
         /\ r.configuration.reserveFactor \in Nat
BY DEF Reserve, Configuration

LEMMA InitReserveWellFormed ==
  ASSUME NEW c \in Configuration, NEW s \in Strategy
  PROVE  WellFormed(InitReserve(c, s), 0)
BY ScalesPositive DEF WellFormed, InitReserve, Reserve

-----------------------------------------------------------------------------
(* Accrual. *)

LEMMA UpdateIndexesSound ==
  ASSUME NEW r, NEW t \in Nat, WellFormed(r, t)
  PROVE  LET n == UpdateIndexes(r, t)
         IN  /\ WellFormed(n, t) /\ n.lastUpdate = t
             /\ IndexesGrow(r, n) /\ SamePositions(r, n)
             /\ n.aBalance = r.aBalance /\ n.aSupply = r.aSupply
             /\ n.liquidityRate = r.liquidityRate
<1> DEFINE elapsed == t - r.lastUpdate
           li == RayMul(LinearInterest(r.liquidityRate, elapsed), r.liquidityIndex)
           vi == RayMul(CompoundedInterest(r.borrowRate, elapsed), r.variableBorrowIndex)
           n  == UpdateIndexes(r, t)
<1>1. r \in Reserve /\ elapsed \in Nat
  BY ReserveFields DEF WellFormed
<1>2. li \in Nat /\ li >= r.liquidityIndex
  BY <1>1, ReserveFields, LinearInterestAtLeastOne, RayMulIsNat, RayMulGrows
<1>3. vi \in Nat /\ vi >= r.variableBorrowIndex
  BY <1>1, ReserveFields, CompoundedInterestAtLeastOne, RayMulIsNat, RayMulGrows
<1>4. n = [r EXCEPT !.liquidityIndex = IF r.liquidityRate > 0 THEN li ELSE @,
                    !.variableBorrowIndex =
                       IF r.liquidityRate > 0 /\ r.dSupply # 0 THEN vi ELSE @,
                    !.lastUpdate = t]
  BY DEF UpdateIndexes
<1> HIDE DEF elapsed, li, vi, n
<1>5. n \in Reserve /\ n.lastUpdate = t /\ SamePositions(r, n)
      /\ n.aBalance = r.aBalance /\ n.aSupply = r.aSupply /\ n.liquidityRate = r.liquidityRate
  BY <1>1, <1>2, <1>3, <1>4 DEF Reserve, SamePositions
<1>6. IndexesGrow(r, n)
  BY <1>1, <1>2, <1>3, <1>4, ReserveFields DEF IndexesGrow, Reserve
<1>7. WellFormed(n, t)
  BY <1>1, <1>5, <1>6, ReserveFields, ScalesPositive DEF WellFormed, IndexesGrow
<1> QED
  BY <1>5, <1>6, <1>7 DEF n

(* The income views read is the income the next accrual will store.        *)
LEMMA IncomeIsAccrued ==
  ASSUME NEW r, NEW t \in Nat, WellFormed(r, t)
  PROVE  /\ NormalizedIncome(r, t) = UpdateIndexes(r, t).liquidityIndex
         /\ NormalizedIncome(r, t) \in Nat
         /\ NormalizedIncome(r, t) >= RAY
<1> DEFINE elapsed == t - r.lastUpdate
<1>1. r \in Reserve /\ elapsed \in Nat
  BY ReserveFields DEF WellFormed
<1>2. UpdateIndexes(r, t).liquidityIndex
        = IF r.liquidityRate > 0
          THEN RayMul(LinearInterest(r.liquidityRate, elapsed), r.liquidityIndex)
          ELSE r.liquidityIndex
  BY <1>1 DEF UpdateIndexes, Reserve
<1>3. elapsed = 0 =>
        RayMul(LinearInterest(r.liquidityRate, elapsed), r.liquidityIndex) = r.liquidityIndex
  <2>1. SUFFICES ASSUME elapsed = 0 PROVE LinearInterest(r.liquidityRate, 0) = RAY
    BY <1>1, ReserveFields, RayMulByOne
  <2>2. r.liquidityRate * 0 = 0 /\ 0 \div SECONDS_PER_YEAR = 0
    BY <1>1, ReserveFields, ScalesPositive, QuotientIs
  <2> QED
    BY <2>2, ScalesPositive DEF LinearInterest
<1>4. r.liquidityRate = 0 =>
        RayMul(LinearInterest(r.liquidityRate, elapsed), r.liquidityIndex) = r.liquidityIndex
  BY <1>1, ReserveFields, NoIncomeNoInterest, RayMulByOne
<1>5. r.lastUpdate = t <=> elapsed = 0
  BY <1>1, ReserveFields
<1>6. NormalizedIncome(r, t) = UpdateIndexes(r, t).liquidityIndex
  BY <1>1, <1>2, <1>3, <1>4, <1>5, ReserveFields DEF NormalizedIncome
<1> QED
  BY <1>6, UpdateIndexesSound, ReserveFields DEF WellFormed

(* The debt views read is never less than what the next accrual stores: it *)
(* is more while the borrow index stands still.                            *)
LEMMA DebtIsAtLeastAccrued ==
  ASSUME NEW r, NEW t \in Nat, WellFormed(r, t)
  PROVE  /\ NormalizedDebt(r, t) \in Nat
         /\ NormalizedDebt(r, t) >= UpdateIndexes(r, t).variableBorrowIndex
         /\ NormalizedDebt(r, t) >= RAY
<1> DEFINE elapsed == t - r.lastUpdate
           vi == RayMul(CompoundedInterest(r.borrowRate, elapsed), r.variableBorrowIndex)
<1>1. r \in Reserve /\ elapsed \in Nat
  BY ReserveFields DEF WellFormed
<1>2. vi \in Nat /\ vi >= r.variableBorrowIndex
  BY <1>1, ReserveFields, CompoundedInterestAtLeastOne, RayMulIsNat, RayMulGrows
<1>3. UpdateIndexes(r, t).variableBorrowIndex
        = IF r.liquidityRate > 0 /\ r.dSupply # 0 THEN vi ELSE r.variableBorrowIndex
  BY <1>1 DEF UpdateIndexes, Reserve
<1>4. elapsed = 0 => vi = r.variableBorrowIndex
  BY <1>1, ReserveFields, RayMulByOne DEF CompoundedInterest
<1>5. r.lastUpdate = t <=> elapsed = 0
  BY <1>1, ReserveFields
<1>6. NormalizedDebt(r, t) = vi
  BY <1>4, <1>5 DEF NormalizedDebt
<1> HIDE DEF vi
<1> QED
  BY <1>1, <1>2, <1>3, <1>6, ReserveFields, ScalesPositive DEF WellFormed

(* The treasury's share of the interest is never negative, and minting it  *)
(* touches no other balance.                                               *)
LEMMA AmountToTreasuryIsNat ==
  ASSUME NEW r \in Reserve, NEW n \in Reserve, IndexesGrow(r, n)
  PROVE  AmountToTreasury(r, n) \in Nat
<1> DEFINE before == RayMul(r.dSupply, r.variableBorrowIndex)
           after  == RayMul(r.dSupply, n.variableBorrowIndex)
<1>1. before \in Nat /\ after \in Nat /\ before <= after
  BY ReserveFields, RayMulIsNat, RayMulMonotone DEF IndexesGrow
<1>2. after - before \in Nat
  BY <1>1
<1> HIDE DEF before, after
<1> QED
  BY <1>2, ReserveFields, PercentMulIsNat DEF AmountToTreasury, before, after

LEMMA MintToTreasurySound ==
  ASSUME NEW r \in Reserve, NEW n, NEW t \in Nat, WellFormed(n, t), IndexesGrow(r, n)
  PROVE  LET m == MintToTreasury(r, n)
         IN  /\ WellFormed(m, t) /\ SamePositions(n, m)
             /\ m.lastUpdate = n.lastUpdate
             /\ m.liquidityIndex = n.liquidityIndex
             /\ m.variableBorrowIndex = n.variableBorrowIndex
             /\ \A u \in Accounts : m.aBalance[u] >= n.aBalance[u]
             /\ \A u \in Accounts \ {Treasury} : m.aBalance[u] = n.aBalance[u]
<1> DEFINE scaled == RayDiv(AmountToTreasury(r, n), n.liquidityIndex)
           m == MintToTreasury(r, n)
<1>1. n \in Reserve /\ n.liquidityIndex \in Nat \ {0}
  BY ReserveFields, ScalesPositive DEF WellFormed
<1>2. scaled \in Nat
  BY <1>1, AmountToTreasuryIsNat, RayDivIsNat
<1>3. Treasury \in Accounts
  BY DEF Accounts
<1> DEFINE b == [n.aBalance EXCEPT ![Treasury] = n.aBalance[Treasury] + scaled]
<1>4. m = IF r.configuration.reserveFactor = 0
          THEN n
          ELSE [n EXCEPT !.aBalance = b, !.aSupply = n.aSupply + scaled]
  BY <1>1 DEF MintToTreasury, Reserve
<1> HIDE DEF scaled
<1>b. /\ b \in [Accounts -> Nat] /\ n.aSupply + scaled \in Nat
      /\ \A u \in Accounts : b[u] >= n.aBalance[u]
      /\ \A u \in Accounts \ {Treasury} : b[u] = n.aBalance[u]
  BY <1>1, <1>2, <1>3, ReserveFields
<1> HIDE DEF m, b
<1>5. m \in Reserve /\ SamePositions(n, m)
      /\ m.lastUpdate = n.lastUpdate
      /\ m.liquidityIndex = n.liquidityIndex
      /\ m.variableBorrowIndex = n.variableBorrowIndex
  BY <1>1, <1>4, <1>b DEF Reserve, SamePositions
<1>6. \A u \in Accounts : m.aBalance[u] >= n.aBalance[u]
  BY <1>1, <1>4, <1>b, ReserveFields DEF Reserve
<1>7. \A u \in Accounts \ {Treasury} : m.aBalance[u] = n.aBalance[u]
  BY <1>1, <1>4, <1>b DEF Reserve
<1> QED
  BY <1>5, <1>6, <1>7 DEF WellFormed, m

LEMMA UpdateStateSound ==
  ASSUME NEW r, NEW t \in Nat, WellFormed(r, t)
  PROVE  LET m == UpdateState(r, t)
         IN  /\ WellFormed(m, t) /\ SamePositions(r, m) /\ IndexesGrow(r, m)
             /\ m.lastUpdate = t
             /\ m.liquidityIndex = UpdateIndexes(r, t).liquidityIndex
             /\ m.variableBorrowIndex = UpdateIndexes(r, t).variableBorrowIndex
             /\ \A u \in Accounts : m.aBalance[u] >= r.aBalance[u]
             /\ \A u \in Accounts \ {Treasury} : m.aBalance[u] = r.aBalance[u]
<1> DEFINE n == UpdateIndexes(r, t)
           m == MintToTreasury(r, n)
<1>1. /\ r \in Reserve
      /\ WellFormed(n, t) /\ n.lastUpdate = t /\ IndexesGrow(r, n) /\ SamePositions(r, n)
      /\ n.aBalance = r.aBalance
  BY UpdateIndexesSound DEF WellFormed
<1> HIDE DEF n
<1>2. /\ WellFormed(m, t) /\ SamePositions(n, m)
      /\ m.lastUpdate = n.lastUpdate
      /\ m.liquidityIndex = n.liquidityIndex
      /\ m.variableBorrowIndex = n.variableBorrowIndex
      /\ \A u \in Accounts : m.aBalance[u] >= n.aBalance[u]
      /\ \A u \in Accounts \ {Treasury} : m.aBalance[u] = n.aBalance[u]
  BY <1>1, MintToTreasurySound
<1> HIDE DEF m
<1>3. SamePositions(r, m) /\ IndexesGrow(r, m)
  BY <1>1, <1>2 DEF SamePositions, IndexesGrow
<1>4. m = UpdateState(r, t)
  BY DEF UpdateState, m, n
<1> QED
  BY <1>1, <1>2, <1>3, <1>4 DEF n

-----------------------------------------------------------------------------
(* Rates. *)

LEMMA UtilizationRateIsNat ==
  ASSUME NEW l \in Nat, NEW d \in Nat
  PROVE  UtilizationRate(l, d) \in Nat
<1>1. d # 0 => RayDiv(d, l + d) \in Nat
  BY RayDivIsNat
<1> QED
  BY <1>1 DEF UtilizationRate

LEMMA VariableBorrowRateIsNat ==
  ASSUME NEW s \in Strategy, NEW u \in Nat
  PROVE  VariableBorrowRate(s, u) \in Nat
<1>1. s.optimal \in Nat \ {0} /\ s.optimal < RAY
      /\ s.base \in Nat /\ s.slope1 \in Nat /\ s.slope2 \in Nat
  BY ScalesPositive DEF Strategy
<1>2. CASE u > s.optimal
  <2>1. u - s.optimal \in Nat /\ RAY - s.optimal \in Nat \ {0}
    BY <1>1, <1>2, ScalesPositive
  <2>2. RayMul(s.slope2, RayDiv(u - s.optimal, RAY - s.optimal)) \in Nat
    BY <1>1, <2>1, RayDivIsNat, RayMulIsNat
  <2> QED
    BY <1>1, <1>2, <2>2 DEF VariableBorrowRate
<1>3. CASE ~(u > s.optimal)
  <2>1. RayDiv(RayMul(u, s.slope1), s.optimal) \in Nat
    BY <1>1, RayDivIsNat, RayMulIsNat
  <2> QED
    BY <1>1, <1>3, <2>1 DEF VariableBorrowRate
<1> QED
  BY <1>2, <1>3

LEMMA LiquidityRateIsNat ==
  ASSUME NEW s \in Strategy, NEW l \in Nat, NEW d \in Nat,
         NEW f \in Nat, f <= PERCENTAGE_FACTOR
  PROVE  LiquidityRate(s, l, d, f) \in Nat
<1> DEFINE u == UtilizationRate(l, d)
           v == VariableBorrowRate(s, u)
           o == OverallBorrowRate(d, v)
<1>1. u \in Nat /\ v \in Nat
  BY UtilizationRateIsNat, VariableBorrowRateIsNat
<1>2. o \in Nat
  <2> HIDE DEF u, v
  <2>1. CASE d = 0
    BY <2>1 DEF OverallBorrowRate
  <2>2. CASE d # 0
    <3>1. WadToRay(d) \in Nat \ {0}
      BY <2>2, ScalesPositive DEF WadToRay
    <3> QED
      BY <1>1, <2>2, <3>1, RayMulIsNat, RayDivIsNat DEF OverallBorrowRate
  <2> QED
    BY <2>1, <2>2
<1>3. PERCENTAGE_FACTOR - f \in Nat
  BY ScalesPositive
<1> HIDE DEF u, v, o
<1>4. PercentMul(RayMul(o, u), PERCENTAGE_FACTOR - f) \in Nat
  BY <1>1, <1>2, <1>3, RayMulIsNat, PercentMulIsNat
<1> QED
  BY <1>4 DEF LiquidityRate, u, v, o

(* updateInterestRates changes the two rates and nothing else. *)
LEMMA UpdateInterestRatesSound ==
  ASSUME NEW r, NEW t \in Nat, WellFormed(r, t),
         NEW added \in Nat, NEW taken \in Nat, CanUpdateInterestRates(r, added, taken)
  PROVE  LET n == UpdateInterestRates(r, added, taken)
         IN  /\ WellFormed(n, t) /\ SamePositions(r, n)
             /\ n.liquidityIndex = r.liquidityIndex
             /\ n.variableBorrowIndex = r.variableBorrowIndex
             /\ n.aBalance = r.aBalance /\ n.aSupply = r.aSupply
<1> DEFINE l == r.cash + added - taken
           d == RayMul(r.dSupply, r.variableBorrowIndex)
           br == VariableBorrowRate(r.strategy, UtilizationRate(l, d))
           lr == LiquidityRate(r.strategy, l, d, r.configuration.reserveFactor)
<1>1. r \in Reserve
  BY DEF WellFormed
<1>2. l \in Nat
  BY <1>1, ReserveFields DEF CanUpdateInterestRates
<1>3. d \in Nat
  BY <1>1, ReserveFields, RayMulIsNat
<1>4. UpdateInterestRates(r, added, taken)
        = [r EXCEPT !.borrowRate = br, !.liquidityRate = lr]
  BY DEF UpdateInterestRates
<1> HIDE DEF l, d
<1>5. br \in Nat
  BY <1>1, <1>2, <1>3, ReserveFields, UtilizationRateIsNat, VariableBorrowRateIsNat
<1>6. lr \in Nat
  BY <1>1, <1>2, <1>3, ReserveFields, LiquidityRateIsNat DEF CanUpdateInterestRates
<1> HIDE DEF br, lr
<1>7. UpdateInterestRates(r, added, taken) \in Reserve
  BY <1>1, <1>4, <1>5, <1>6 DEF Reserve
<1> QED
  BY <1>1, <1>4, <1>7 DEF WellFormed, SamePositions, Reserve

-----------------------------------------------------------------------------
(* The tokens.  None of their operations moves an index.                   *)

SameIndexes(r, n) ==
  /\ n.liquidityIndex = r.liquidityIndex
  /\ n.variableBorrowIndex = r.variableBorrowIndex

SameDebts(r, n) == n.dBalance = r.dBalance /\ n.dSupply = r.dSupply

LEMMA WellFormedIndexes ==
  ASSUME NEW r, NEW t \in Nat, WellFormed(r, t)
  PROVE  /\ r \in Reserve
         /\ r.liquidityIndex \in Nat \ {0} /\ r.variableBorrowIndex \in Nat \ {0}
<1>1. r \in Reserve /\ r.liquidityIndex >= RAY /\ r.variableBorrowIndex >= RAY
  BY DEF WellFormed
<1>2. r.liquidityIndex \in Nat /\ r.variableBorrowIndex \in Nat
  BY <1>1, ReserveFields
<1> QED
  BY <1>1, <1>2, ScalesPositive

LEMMA ScaledIsNat ==
  ASSUME NEW r, NEW t \in Nat, WellFormed(r, t), NEW x \in Nat
  PROVE  RayDiv(x, r.liquidityIndex) \in Nat /\ RayDiv(x, r.variableBorrowIndex) \in Nat
BY WellFormedIndexes, RayDivIsNat

LEMMA MintATokenSound ==
  ASSUME NEW r, NEW t \in Nat, WellFormed(r, t), NEW u \in Accounts, NEW x \in Nat
  PROVE  LET n == MintAToken(r, u, x)
         IN  /\ WellFormed(n, t) /\ SameIndexes(r, n) /\ SameDebts(r, n)
             /\ \A v \in Accounts : n.aBalance[v] >= r.aBalance[v]
<1> DEFINE scaled == RayDiv(x, r.liquidityIndex)
           b == [r.aBalance EXCEPT ![u] = r.aBalance[u] + scaled]
           n == MintAToken(r, u, x)
<1>1. r \in Reserve /\ scaled \in Nat
  BY ScaledIsNat DEF WellFormed
<1>2. n = [r EXCEPT !.aBalance = b, !.aSupply = r.aSupply + scaled]
  BY <1>1 DEF MintAToken, Reserve
<1> HIDE DEF scaled
<1>3. /\ b \in [Accounts -> Nat] /\ r.aSupply + scaled \in Nat
      /\ \A v \in Accounts : b[v] >= r.aBalance[v]
  BY <1>1, ReserveFields
<1> HIDE DEF b, n
<1>4. n \in Reserve /\ SameIndexes(r, n) /\ SameDebts(r, n) /\ n.lastUpdate = r.lastUpdate
      /\ n.aBalance = b
  BY <1>1, <1>2, <1>3 DEF Reserve, SameIndexes, SameDebts
<1> QED
  BY <1>3, <1>4 DEF WellFormed, SameIndexes, n

LEMMA BurnATokenSound ==
  ASSUME NEW r, NEW t \in Nat, WellFormed(r, t), NEW u \in Accounts, NEW x \in Nat,
         CanBurnAToken(r, u, x)
  PROVE  LET n == BurnAToken(r, u, x)
         IN  /\ WellFormed(n, t) /\ SameIndexes(r, n) /\ SameDebts(r, n)
             /\ \A v \in Accounts \ {u} : n.aBalance[v] = r.aBalance[v]
<1> DEFINE scaled == RayDiv(x, r.liquidityIndex)
           b == [r.aBalance EXCEPT ![u] = r.aBalance[u] - scaled]
           n == BurnAToken(r, u, x)
<1>1. r \in Reserve /\ scaled \in Nat
  BY ScaledIsNat DEF WellFormed
<1>2. n = [r EXCEPT !.aBalance = b, !.aSupply = r.aSupply - scaled, !.cash = r.cash - x]
  BY <1>1 DEF BurnAToken, Reserve
<1>3. r.aBalance[u] - scaled \in Nat /\ r.aSupply - scaled \in Nat /\ r.cash - x \in Nat
  BY <1>1, ReserveFields DEF CanBurnAToken
<1> HIDE DEF scaled
<1>4. /\ b \in [Accounts -> Nat]
      /\ \A v \in Accounts \ {u} : b[v] = r.aBalance[v]
  BY <1>1, <1>3, ReserveFields
<1> HIDE DEF b, n
<1>5. n \in Reserve /\ SameIndexes(r, n) /\ SameDebts(r, n) /\ n.lastUpdate = r.lastUpdate
      /\ n.aBalance = b
  BY <1>1, <1>2, <1>3, <1>4 DEF Reserve, SameIndexes, SameDebts
<1> QED
  BY <1>4, <1>5 DEF WellFormed, SameIndexes, n

LEMMA TransferATokenSound ==
  ASSUME NEW r, NEW t \in Nat, WellFormed(r, t),
         NEW from \in Accounts, NEW to \in Accounts, NEW x \in Nat,
         CanTransferAToken(r, from, x, t)
  PROVE  LET n == TransferAToken(r, from, to, x, t)
         IN  /\ WellFormed(n, t) /\ SameIndexes(r, n) /\ SameDebts(r, n)
             /\ \A v \in Accounts \ {from} : n.aBalance[v] >= r.aBalance[v]
<1> DEFINE scaled == RayDiv(x, NormalizedIncome(r, t))
           less == [r.aBalance EXCEPT ![from] = r.aBalance[from] - scaled]
           b == [less EXCEPT ![to] = less[to] + scaled]
           n == TransferAToken(r, from, to, x, t)
<1>1. r \in Reserve
  BY DEF WellFormed
<1>2. NormalizedIncome(r, t) \in Nat \ {0}
  BY IncomeIsAccrued, ScalesPositive
<1>3. scaled \in Nat /\ r.aBalance[from] - scaled \in Nat
  BY <1>1, <1>2, RayDivIsNat, ReserveFields DEF CanTransferAToken
<1>4. n = [r EXCEPT !.aBalance = b]
  BY <1>1 DEF TransferAToken, Reserve
<1> HIDE DEF scaled
<1>5. /\ less \in [Accounts -> Nat]
      /\ \A v \in Accounts \ {from} : less[v] = r.aBalance[v]
  BY <1>1, <1>3, ReserveFields
<1> HIDE DEF less
<1>6. /\ b \in [Accounts -> Nat]
      /\ \A v \in Accounts \ {from} : b[v] >= r.aBalance[v]
  BY <1>1, <1>3, <1>5, ReserveFields
<1> HIDE DEF b, n
<1>7. n \in Reserve /\ SameIndexes(r, n) /\ SameDebts(r, n) /\ n.lastUpdate = r.lastUpdate
      /\ n.aBalance = b
  BY <1>1, <1>4, <1>6 DEF Reserve, SameIndexes, SameDebts
<1> QED
  BY <1>6, <1>7 DEF WellFormed, SameIndexes, n

LEMMA MintDebtSound ==
  ASSUME NEW r, NEW t \in Nat, WellFormed(r, t), NEW u \in Users, NEW x \in Nat
  PROVE  LET n == MintDebt(r, u, x)
         IN  /\ WellFormed(n, t) /\ SameIndexes(r, n) /\ n.aBalance = r.aBalance
             /\ n.cash = r.cash
             /\ \A v \in Users \ {u} : n.dBalance[v] = r.dBalance[v]
<1> DEFINE scaled == RayDiv(x, r.variableBorrowIndex)
           b == [r.dBalance EXCEPT ![u] = r.dBalance[u] + scaled]
           n == MintDebt(r, u, x)
<1>1. r \in Reserve /\ scaled \in Nat
  BY ScaledIsNat DEF WellFormed
<1>2. n = [r EXCEPT !.dBalance = b, !.dSupply = r.dSupply + scaled]
  BY <1>1 DEF MintDebt, Reserve
<1> HIDE DEF scaled
<1>3. /\ b \in [Users -> Nat] /\ r.dSupply + scaled \in Nat
      /\ \A v \in Users \ {u} : b[v] = r.dBalance[v]
  BY <1>1, ReserveFields
<1> HIDE DEF b, n
<1>4. n \in Reserve /\ SameIndexes(r, n) /\ n.lastUpdate = r.lastUpdate
      /\ n.aBalance = r.aBalance /\ n.cash = r.cash /\ n.dBalance = b
  BY <1>1, <1>2, <1>3 DEF Reserve, SameIndexes
<1> QED
  BY <1>3, <1>4 DEF WellFormed, SameIndexes, n

LEMMA BurnDebtSound ==
  ASSUME NEW r, NEW t \in Nat, WellFormed(r, t), NEW u \in Users, NEW x \in Nat,
         CanBurnDebt(r, u, x)
  PROVE  LET n == BurnDebt(r, u, x)
         IN  /\ WellFormed(n, t) /\ SameIndexes(r, n) /\ n.aBalance = r.aBalance
             /\ n.cash = r.cash
             /\ n.dBalance[u] = r.dBalance[u] - RayDiv(x, r.variableBorrowIndex)
             /\ \A v \in Users : n.dBalance[v] <= r.dBalance[v]
<1> DEFINE scaled == RayDiv(x, r.variableBorrowIndex)
           b == [r.dBalance EXCEPT ![u] = r.dBalance[u] - scaled]
           n == BurnDebt(r, u, x)
<1>1. r \in Reserve /\ scaled \in Nat
  BY ScaledIsNat DEF WellFormed
<1>2. n = [r EXCEPT !.dBalance = b, !.dSupply = r.dSupply - scaled]
  BY <1>1 DEF BurnDebt, Reserve
<1>3. r.dBalance[u] - scaled \in Nat /\ r.dSupply - scaled \in Nat
  BY <1>1, ReserveFields DEF CanBurnDebt
<1> HIDE DEF scaled
<1>4. /\ b \in [Users -> Nat] /\ b[u] = r.dBalance[u] - scaled
      /\ \A v \in Users : b[v] <= r.dBalance[v]
  BY <1>1, <1>3, ReserveFields
<1> HIDE DEF b, n
<1>5. n \in Reserve /\ SameIndexes(r, n) /\ n.lastUpdate = r.lastUpdate
      /\ n.aBalance = r.aBalance /\ n.cash = r.cash /\ n.dBalance = b
  BY <1>1, <1>2, <1>3, <1>4 DEF Reserve, SameIndexes
<1> QED
  BY <1>4, <1>5 DEF WellFormed, SameIndexes, n, scaled

LEMMA CashMoves ==
  ASSUME NEW r, NEW t \in Nat, WellFormed(r, t), NEW x \in Nat
  PROVE  /\ WellFormed(Receive(r, x), t) /\ SameIndexes(r, Receive(r, x))
         /\ SameDebts(r, Receive(r, x)) /\ Receive(r, x).aBalance = r.aBalance
         /\ x <= r.cash =>
              /\ WellFormed(Release(r, x), t) /\ SameIndexes(r, Release(r, x))
              /\ SameDebts(r, Release(r, x)) /\ Release(r, x).aBalance = r.aBalance
<1>1. r \in Reserve /\ r.cash + x \in Nat /\ (x <= r.cash => r.cash - x \in Nat)
  BY ReserveFields DEF WellFormed
<1>2. Receive(r, x) \in Reserve /\ (x <= r.cash => Release(r, x) \in Reserve)
  BY <1>1 DEF Receive, Release, Reserve
<1> QED
  BY <1>1, <1>2 DEF WellFormed, SameIndexes, SameDebts, Receive, Release, Reserve

-----------------------------------------------------------------------------
(* Scaling back what the views report. *)

(* A full withdrawal burns the whole scaled balance.                       *)
LEMMA BalanceScalesBack ==
  ASSUME NEW r, NEW t \in Nat, WellFormed(r, t), NEW u \in Accounts
  PROVE  RayDiv(BalanceOf(r, u, t), UpdateState(r, t).liquidityIndex) = r.aBalance[u]
<1>1. r.aBalance[u] \in Nat
  BY ReserveFields DEF WellFormed
<1>2. UpdateState(r, t).liquidityIndex = NormalizedIncome(r, t)
  BY UpdateStateSound, IncomeIsAccrued
<1> QED
  BY <1>1, <1>2, IncomeIsAccrued, RoundTrip DEF BalanceOf

(* A full repayment burns at least the whole scaled debt.                  *)
LEMMA DebtScalesBack ==
  ASSUME NEW r, NEW t \in Nat, WellFormed(r, t), NEW u \in Users
  PROVE  /\ DebtOf(r, u, t) \in Nat
         /\ RayDiv(DebtOf(r, u, t), UpdateState(r, t).variableBorrowIndex) \in Nat
         /\ RayDiv(DebtOf(r, u, t), UpdateState(r, t).variableBorrowIndex) >= r.dBalance[u]
<1> DEFINE s == r.dBalance[u]
           i == UpdateState(r, t).variableBorrowIndex
           d == NormalizedDebt(r, t)
<1>1. s \in Nat
  BY ReserveFields DEF WellFormed
<1>2. i \in Nat /\ i >= RAY /\ i # 0
  BY UpdateStateSound, ReserveFields, ScalesPositive DEF WellFormed
<1>3. d \in Nat /\ d >= i
  BY DebtIsAtLeastAccrued, UpdateStateSound
<1> HIDE DEF s, i, d
<1>4. /\ RayMul(s, i) \in Nat /\ RayMul(s, d) \in Nat
      /\ RayMul(s, i) <= RayMul(s, d)
  BY <1>1, <1>2, <1>3, RayMulIsNat, RayMulMonotone
<1>5. /\ RayDiv(RayMul(s, i), i) = s
      /\ RayDiv(RayMul(s, d), i) \in Nat
      /\ RayDiv(RayMul(s, i), i) <= RayDiv(RayMul(s, d), i)
  BY <1>1, <1>2, <1>4, RoundTrip, RayDivIsNat, RayDivMonotone
<1> QED
  BY <1>1, <1>4, <1>5 DEF DebtOf, s, i, d

-----------------------------------------------------------------------------
(* The books of a reserve: its supplies are the sums of its balances, and  *)
(* the gap is what its depositors can claim beyond the money and the debts *)
(* that back the claims, at its own indexes.                               *)

Balanced(r) ==
  /\ r.aSupply = Total(r.aBalance, Accounts)
  /\ r.dSupply = Total(r.dBalance, Users)

Gap(r) ==
  RayMul(r.aSupply, r.liquidityIndex) - r.cash - RayMul(r.dSupply, r.variableBorrowIndex)

LEMMA FinitelyManyAccounts == IsFiniteSet(Accounts)
BY FinitelyManyUsers, FS_AddElement DEF Accounts

LEMMA GapIsInt ==
  ASSUME NEW r, NEW t, WellFormed(r, t)
  PROVE  Gap(r) \in Int
<1>1. /\ RayMul(r.aSupply, r.liquidityIndex) \in Nat
      /\ RayMul(r.dSupply, r.variableBorrowIndex) \in Nat
      /\ r.cash \in Nat
  BY ReserveFields, RayMulIsNat DEF WellFormed
<1> QED
  BY <1>1 DEF Gap

(* The treasury's share is minted to it and to the supply. *)
LEMMA AccrualKeepsBooks ==
  ASSUME NEW r, NEW t \in Nat, WellFormed(r, t), Balanced(r)
  PROVE  Balanced(UpdateState(r, t))
<1> DEFINE n == UpdateIndexes(r, t)
           scaled == RayDiv(AmountToTreasury(r, n), n.liquidityIndex)
           b == [n.aBalance EXCEPT ![Treasury] = n.aBalance[Treasury] + scaled]
           m == UpdateState(r, t)
<1>1. /\ r \in Reserve /\ WellFormed(n, t) /\ IndexesGrow(r, n) /\ SamePositions(r, n)
      /\ n.aBalance = r.aBalance /\ n.aSupply = r.aSupply
  BY UpdateIndexesSound DEF WellFormed
<1>2. Balanced(n)
  BY <1>1 DEF Balanced, SamePositions
<1>3. m = MintToTreasury(r, n)
  BY DEF UpdateState
<1> HIDE DEF n
<1>4. n \in Reserve /\ n.liquidityIndex \in Nat \ {0} /\ Treasury \in Accounts
  BY <1>1, ReserveFields, ScalesPositive DEF WellFormed, Accounts
<1>5. scaled \in Nat
  BY <1>1, <1>4, AmountToTreasuryIsNat, RayDivIsNat
<1>6. m = IF r.configuration.reserveFactor = 0
          THEN n
          ELSE [n EXCEPT !.aBalance = b, !.aSupply = n.aSupply + scaled]
  BY <1>3, <1>4 DEF MintToTreasury, Reserve
<1> HIDE DEF scaled, m
<1>7. Total(b, Accounts) = Total(n.aBalance, Accounts) + scaled
  <2>1. n.aBalance \in [Accounts -> Nat] /\ n.aBalance[Treasury] + scaled \in Nat
    BY <1>4, <1>5, ReserveFields
  <2> QED
    BY <1>4, <1>5, <2>1, FinitelyManyAccounts, BalanceMoves
<1> HIDE DEF b
<1>8. CASE r.configuration.reserveFactor = 0
  BY <1>2, <1>6, <1>8 DEF m
<1>9. CASE r.configuration.reserveFactor # 0
  <2>1. m = [n EXCEPT !.aBalance = b, !.aSupply = n.aSupply + scaled]
    BY <1>6, <1>9
  <2>2. /\ m.aBalance = b /\ m.aSupply = n.aSupply + scaled
        /\ m.dBalance = n.dBalance /\ m.dSupply = n.dSupply
    BY <1>4, <2>1 DEF Reserve
  <2>3. Balanced(m)
    BY <1>2, <1>7, <2>2 DEF Balanced
  <2> QED
    BY <2>3 DEF m
<1> QED
  BY <1>8, <1>9

(* What settling r mints to the treasury. *)
LEMMA SettledReserve ==
  ASSUME NEW r, NEW t \in Nat, WellFormed(r, t)
  PROVE  LET u == UpdateIndexes(r, t)
             s == UpdateState(r, t)
         IN  /\ s.aSupply = r.aSupply + RayDiv(AmountToTreasury(r, u), u.liquidityIndex)
             /\ s.liquidityIndex = u.liquidityIndex
             /\ s.variableBorrowIndex = u.variableBorrowIndex
             /\ s.dSupply = r.dSupply /\ s.cash = r.cash
<1> DEFINE u == UpdateIndexes(r, t)
           scaled == RayDiv(AmountToTreasury(r, u), u.liquidityIndex)
           s == UpdateState(r, t)
<1>1. /\ r \in Reserve /\ u \in Reserve /\ u.liquidityIndex \in Nat \ {0}
      /\ u.aSupply = r.aSupply /\ u.dSupply = r.dSupply /\ u.cash = r.cash
      /\ AmountToTreasury(r, u) \in Nat
  <2>1. WellFormed(u, t) /\ IndexesGrow(r, u) /\ SamePositions(r, u) /\ u.aSupply = r.aSupply
    BY UpdateIndexesSound
  <2>2. r \in Reserve /\ u \in Reserve
    BY <2>1 DEF WellFormed
  <2> HIDE DEF u
  <2> QED
    BY <2>1, <2>2, ReserveFields, ScalesPositive, AmountToTreasuryIsNat DEF WellFormed, SamePositions
<1>2. scaled \in Nat
  BY <1>1, RayDivIsNat
<1>3. s = MintToTreasury(r, u)
  BY DEF UpdateState
<1> HIDE DEF u
<1>4. CASE r.configuration.reserveFactor = 0
  <2>1. s = u
    BY <1>3, <1>4 DEF MintToTreasury
  <2>2. RayMul(r.dSupply, u.variableBorrowIndex) - RayMul(r.dSupply, r.variableBorrowIndex) \in Int
    <3>1. /\ r.dSupply \in Nat /\ u.variableBorrowIndex \in Nat
          /\ r.variableBorrowIndex \in Nat
      BY <1>1, ReserveFields
    <3>2. /\ RayMul(r.dSupply, u.variableBorrowIndex) \in Nat
          /\ RayMul(r.dSupply, r.variableBorrowIndex) \in Nat
      BY <3>1, RayMulIsNat
    <3> QED
      BY <3>2
  <2>3. AmountToTreasury(r, u) = 0
    BY <1>4, <2>2, ShareOfNone DEF AmountToTreasury
  <2>4. scaled = 0
    BY <1>1, <2>3, NothingScaled
  <2> QED
    BY <1>1, <2>1, <2>4, ReserveFields DEF u
<1>5. CASE r.configuration.reserveFactor # 0
  <2> DEFINE b == [u.aBalance EXCEPT ![Treasury] = @ + scaled]
  <2>1. s = [u EXCEPT !.aBalance = b, !.aSupply = u.aSupply + scaled]
    BY <1>1, <1>3, <1>5 DEF MintToTreasury, Reserve
  <2> HIDE DEF b, scaled, s
  <2>2. /\ s.aSupply = r.aSupply + scaled
        /\ s.liquidityIndex = u.liquidityIndex /\ s.variableBorrowIndex = u.variableBorrowIndex
        /\ s.dSupply = r.dSupply /\ s.cash = r.cash
    BY <1>1, <2>1 DEF Reserve
  <2> QED
    BY <2>2 DEF u, scaled, s
<1> QED
  BY <1>4, <1>5

(* A reserve settled at t is what it was when settled at t again.          *)
LEMMA SettledIsStable ==
  ASSUME NEW r, NEW t \in Nat, WellFormed(r, t), r.lastUpdate = t
  PROVE  UpdateState(r, t) = r
<1> DEFINE n == UpdateIndexes(r, t)
<1>1. r \in Reserve /\ r.liquidityIndex \in Nat \ {0} /\ r.variableBorrowIndex \in Nat
  BY ReserveFields, ScalesPositive DEF WellFormed
<1>2. /\ LinearInterest(r.liquidityRate, t - r.lastUpdate) = RAY
      /\ CompoundedInterest(r.borrowRate, t - r.lastUpdate) = RAY
  <2>1. t - r.lastUpdate = 0
    OBVIOUS
  <2> QED
    BY <1>1, <2>1, ReserveFields, NoTimeNoInterest
<1>3. /\ RayMul(RAY, r.liquidityIndex) = r.liquidityIndex
      /\ RayMul(RAY, r.variableBorrowIndex) = r.variableBorrowIndex
  BY <1>1, RayMulByOne
<1>4. n = r
  BY <1>1, <1>2, <1>3 DEF UpdateIndexes, Reserve
<1>5. UpdateState(r, t) = MintToTreasury(r, r)
  BY <1>4 DEF UpdateState
<1>6. AmountToTreasury(r, r) = 0
  <2>1. RayMul(r.dSupply, r.variableBorrowIndex) \in Nat
    BY <1>1, ReserveFields, RayMulIsNat
  <2>2. RayMul(r.dSupply, r.variableBorrowIndex) - RayMul(r.dSupply, r.variableBorrowIndex) = 0
    BY <2>1
  <2> QED
    BY <1>1, <2>2, ReserveFields, NothingOfNothing DEF AmountToTreasury
<1>7. RayDiv(AmountToTreasury(r, r), r.liquidityIndex) = 0
  BY <1>1, <1>6, NothingScaled
<1>8. /\ [r.aBalance EXCEPT ![Treasury] = r.aBalance[Treasury] + 0] = r.aBalance
      /\ r.aSupply + 0 = r.aSupply
  BY <1>1, ReserveFields DEF Accounts
<1>9. MintToTreasury(r, r) = r
  BY <1>1, <1>7, <1>8 DEF MintToTreasury, Reserve
<1> QED
  BY <1>5, <1>9

LEMMA MintATokenKeepsBooks ==
  ASSUME NEW r, NEW t \in Nat, WellFormed(r, t), NEW u \in Accounts, NEW x \in Nat
  PROVE  LET n == MintAToken(r, u, x)
         IN  /\ Balanced(r) => Balanced(n)
             /\ Gap(n) <= Gap(r) + x + HalfUnit(r.liquidityIndex)
<1> DEFINE scaled == RayDiv(x, r.liquidityIndex)
           b == [r.aBalance EXCEPT ![u] = r.aBalance[u] + scaled]
           n == MintAToken(r, u, x)
<1>1. /\ r \in Reserve /\ scaled \in Nat
      /\ r.liquidityIndex \in Nat \ {0}
  BY ScaledIsNat, WellFormedIndexes
<1>2. n = [r EXCEPT !.aBalance = b, !.aSupply = r.aSupply + scaled]
  BY <1>1 DEF MintAToken, Reserve
<1>3. /\ n.aBalance = b /\ n.aSupply = r.aSupply + scaled
      /\ n.dBalance = r.dBalance /\ n.dSupply = r.dSupply /\ n.cash = r.cash
      /\ n.liquidityIndex = r.liquidityIndex
      /\ n.variableBorrowIndex = r.variableBorrowIndex
  <2> HIDE DEF scaled, b, n
  <2> QED
    BY <1>1, <1>2 DEF Reserve
<1> HIDE DEF n
<1>4. Total(b, Accounts) = Total(r.aBalance, Accounts) + scaled
  <2>1. r.aBalance \in [Accounts -> Nat] /\ r.aBalance[u] + scaled \in Nat
    BY <1>1, ReserveFields
  <2> HIDE DEF scaled
  <2> QED
    BY <1>1, <2>1, FinitelyManyAccounts, BalanceMoves
<1> HIDE DEF b
<1>5. Balanced(r) => Balanced(n)
  BY <1>3, <1>4 DEF Balanced
<1>6. RayMul(r.aSupply + scaled, r.liquidityIndex)
        <= RayMul(r.aSupply, r.liquidityIndex) + x + HalfUnit(r.liquidityIndex)
  BY <1>1, ReserveFields, ScaledIsWorthAmount
<1>7. /\ RayMul(r.aSupply + scaled, r.liquidityIndex) \in Nat
      /\ RayMul(r.aSupply, r.liquidityIndex) \in Nat
      /\ RayMul(r.dSupply, r.variableBorrowIndex) \in Nat
      /\ r.cash \in Nat /\ HalfUnit(r.liquidityIndex) \in Nat
  <2>1. r.aSupply + scaled \in Nat
    BY <1>1, ReserveFields
  <2> HIDE DEF scaled
  <2> QED
    BY <1>1, <2>1, ReserveFields, RayMulIsNat, HalfUnitIsNat
<1> HIDE DEF scaled
<1>8. Gap(n) <= Gap(r) + x + HalfUnit(r.liquidityIndex)
  BY <1>3, <1>6, <1>7 DEF Gap
<1> QED
  BY <1>5, <1>8 DEF n

(* What is burned is paid out: only the rounding of the burn is left.      *)
LEMMA BurnATokenKeepsBooks ==
  ASSUME NEW r, NEW t \in Nat, WellFormed(r, t), NEW u \in Accounts, NEW x \in Nat,
         CanBurnAToken(r, u, x)
  PROVE  LET n == BurnAToken(r, u, x)
         IN  /\ Balanced(r) => Balanced(n)
             /\ Gap(n) <= Gap(r) + HalfUnit(r.liquidityIndex)
<1> DEFINE scaled == RayDiv(x, r.liquidityIndex)
           b == [r.aBalance EXCEPT ![u] = r.aBalance[u] - scaled]
           n == BurnAToken(r, u, x)
<1>1. /\ r \in Reserve /\ scaled \in Nat
      /\ r.liquidityIndex \in Nat \ {0}
      /\ scaled <= r.aBalance[u] /\ scaled <= r.aSupply /\ x <= r.cash
  BY ScaledIsNat, WellFormedIndexes DEF CanBurnAToken
<1>2. n = [r EXCEPT !.aBalance = b, !.aSupply = r.aSupply - scaled, !.cash = r.cash - x]
  BY <1>1 DEF BurnAToken, Reserve
<1>3. /\ n.aBalance = b /\ n.aSupply = r.aSupply - scaled
      /\ n.dBalance = r.dBalance /\ n.dSupply = r.dSupply /\ n.cash = r.cash - x
      /\ n.liquidityIndex = r.liquidityIndex
      /\ n.variableBorrowIndex = r.variableBorrowIndex
  <2> HIDE DEF scaled, b, n
  <2> QED
    BY <1>1, <1>2 DEF Reserve
<1> HIDE DEF n
<1>4. Total(b, Accounts) = Total(r.aBalance, Accounts) + (-scaled) /\ r.aSupply \in Nat
  <2>1. /\ r.aBalance \in [Accounts -> Nat] /\ -scaled \in Int
        /\ r.aBalance[u] + (-scaled) \in Nat
        /\ r.aBalance[u] - scaled = r.aBalance[u] + (-scaled)
    <3>1. r.aBalance \in [Accounts -> Nat] /\ r.aBalance[u] \in Nat
      BY <1>1, ReserveFields
    <3> HIDE DEF scaled
    <3> QED
      BY <1>1, <3>1
  <2>2. b = [r.aBalance EXCEPT ![u] = r.aBalance[u] + (-scaled)]
    BY <2>1
  <2> HIDE DEF scaled, b
  <2> QED
    BY <1>1, <2>1, <2>2, ReserveFields, FinitelyManyAccounts, BalanceMoves
<1> HIDE DEF b
<1>5. Balanced(r) => Balanced(n)
  <2> SUFFICES ASSUME Balanced(r) PROVE Balanced(n)
    OBVIOUS
  <2>1. r.aSupply - scaled = r.aSupply + (-scaled)
    <3> HIDE DEF scaled
    <3> QED
      BY <1>1, <1>4
  <2> HIDE DEF scaled
  <2> QED
    BY <1>3, <1>4, <2>1 DEF Balanced
<1>6. RayMul(r.aSupply - scaled, r.liquidityIndex)
        <= RayMul(r.aSupply, r.liquidityIndex) - x + HalfUnit(r.liquidityIndex)
  BY <1>1, ReserveFields, AmountIsWorthScaled
<1>7. /\ RayMul(r.aSupply - scaled, r.liquidityIndex) \in Nat
      /\ RayMul(r.aSupply, r.liquidityIndex) \in Nat
      /\ RayMul(r.dSupply, r.variableBorrowIndex) \in Nat
      /\ r.cash \in Nat /\ HalfUnit(r.liquidityIndex) \in Nat
  <2> HIDE DEF scaled
  <2>1. r.aSupply - scaled \in Nat
    BY <1>1, <1>4
  <2> QED
    BY <1>1, <2>1, ReserveFields, RayMulIsNat, HalfUnitIsNat
<1> HIDE DEF scaled
<1>8. Gap(n) <= Gap(r) + HalfUnit(r.liquidityIndex)
  BY <1>3, <1>6, <1>7 DEF Gap
<1> QED
  BY <1>5, <1>8 DEF n

LEMMA MintDebtKeepsBooks ==
  ASSUME NEW r, NEW t \in Nat, WellFormed(r, t), NEW u \in Users, NEW x \in Nat
  PROVE  LET n == MintDebt(r, u, x)
         IN  /\ Balanced(r) => Balanced(n)
             /\ Gap(n) <= Gap(r) - x + HalfUnit(r.variableBorrowIndex)
<1> DEFINE scaled == RayDiv(x, r.variableBorrowIndex)
           b == [r.dBalance EXCEPT ![u] = r.dBalance[u] + scaled]
           n == MintDebt(r, u, x)
<1>1. /\ r \in Reserve /\ scaled \in Nat
      /\ r.variableBorrowIndex \in Nat \ {0}
  BY ScaledIsNat, WellFormedIndexes
<1>2. n = [r EXCEPT !.dBalance = b, !.dSupply = r.dSupply + scaled]
  BY <1>1 DEF MintDebt, Reserve
<1>3. /\ n.dBalance = b /\ n.dSupply = r.dSupply + scaled
      /\ n.aBalance = r.aBalance /\ n.aSupply = r.aSupply /\ n.cash = r.cash
      /\ n.liquidityIndex = r.liquidityIndex
      /\ n.variableBorrowIndex = r.variableBorrowIndex
  <2> HIDE DEF scaled, b, n
  <2> QED
    BY <1>1, <1>2 DEF Reserve
<1> HIDE DEF n
<1>4. Total(b, Users) = Total(r.dBalance, Users) + scaled
  <2>1. r.dBalance \in [Users -> Nat] /\ r.dBalance[u] + scaled \in Nat
    BY <1>1, ReserveFields
  <2> HIDE DEF scaled
  <2> QED
    BY <1>1, <2>1, FinitelyManyUsers, BalanceMoves
<1> HIDE DEF b
<1>5. Balanced(r) => Balanced(n)
  BY <1>3, <1>4 DEF Balanced
<1>6. RayMul(r.dSupply + scaled, r.variableBorrowIndex)
        >= RayMul(r.dSupply, r.variableBorrowIndex) + x - HalfUnit(r.variableBorrowIndex)
  BY <1>1, ReserveFields, ScaledIsWorthAmount
<1>7. /\ RayMul(r.dSupply + scaled, r.variableBorrowIndex) \in Nat
      /\ RayMul(r.dSupply, r.variableBorrowIndex) \in Nat
      /\ RayMul(r.aSupply, r.liquidityIndex) \in Nat
      /\ r.cash \in Nat /\ HalfUnit(r.variableBorrowIndex) \in Nat
  <2>1. r.dSupply + scaled \in Nat
    BY <1>1, ReserveFields
  <2> HIDE DEF scaled
  <2> QED
    BY <1>1, <2>1, ReserveFields, RayMulIsNat, HalfUnitIsNat
<1> HIDE DEF scaled
<1>8. Gap(n) <= Gap(r) - x + HalfUnit(r.variableBorrowIndex)
  BY <1>3, <1>6, <1>7 DEF Gap
<1> QED
  BY <1>5, <1>8 DEF n

LEMMA BurnDebtKeepsBooks ==
  ASSUME NEW r, NEW t \in Nat, WellFormed(r, t), NEW u \in Users, NEW x \in Nat,
         CanBurnDebt(r, u, x)
  PROVE  LET n == BurnDebt(r, u, x)
         IN  /\ Balanced(r) => Balanced(n)
             /\ Gap(n) <= Gap(r) + x + HalfUnit(r.variableBorrowIndex)
<1> DEFINE scaled == RayDiv(x, r.variableBorrowIndex)
           b == [r.dBalance EXCEPT ![u] = r.dBalance[u] - scaled]
           n == BurnDebt(r, u, x)
<1>1. /\ r \in Reserve /\ scaled \in Nat
      /\ r.variableBorrowIndex \in Nat \ {0}
      /\ scaled <= r.dBalance[u] /\ scaled <= r.dSupply
  BY ScaledIsNat, WellFormedIndexes DEF CanBurnDebt
<1>2. n = [r EXCEPT !.dBalance = b, !.dSupply = r.dSupply - scaled]
  BY <1>1 DEF BurnDebt, Reserve
<1>3. /\ n.dBalance = b /\ n.dSupply = r.dSupply - scaled
      /\ n.aBalance = r.aBalance /\ n.aSupply = r.aSupply /\ n.cash = r.cash
      /\ n.liquidityIndex = r.liquidityIndex
      /\ n.variableBorrowIndex = r.variableBorrowIndex
  <2> HIDE DEF scaled, b, n
  <2> QED
    BY <1>1, <1>2 DEF Reserve
<1> HIDE DEF n
<1>4. Total(b, Users) = Total(r.dBalance, Users) + (-scaled) /\ r.dSupply \in Nat
  <2>1. /\ r.dBalance \in [Users -> Nat] /\ -scaled \in Int
        /\ r.dBalance[u] + (-scaled) \in Nat
        /\ r.dBalance[u] - scaled = r.dBalance[u] + (-scaled)
    <3>1. r.dBalance \in [Users -> Nat] /\ r.dBalance[u] \in Nat
      BY <1>1, ReserveFields
    <3> HIDE DEF scaled
    <3> QED
      BY <1>1, <3>1
  <2>2. b = [r.dBalance EXCEPT ![u] = r.dBalance[u] + (-scaled)]
    BY <2>1
  <2> HIDE DEF scaled, b
  <2> QED
    BY <1>1, <2>1, <2>2, ReserveFields, FinitelyManyUsers, BalanceMoves
<1> HIDE DEF b
<1>5. Balanced(r) => Balanced(n)
  <2> SUFFICES ASSUME Balanced(r) PROVE Balanced(n)
    OBVIOUS
  <2>1. r.dSupply - scaled = r.dSupply + (-scaled)
    <3> HIDE DEF scaled
    <3> QED
      BY <1>1, <1>4
  <2> HIDE DEF scaled
  <2> QED
    BY <1>3, <1>4, <2>1 DEF Balanced
<1>6. RayMul(r.dSupply - scaled, r.variableBorrowIndex)
        >= RayMul(r.dSupply, r.variableBorrowIndex) - x - HalfUnit(r.variableBorrowIndex)
  BY <1>1, ReserveFields, AmountIsWorthScaled
<1>7. /\ RayMul(r.dSupply - scaled, r.variableBorrowIndex) \in Nat
      /\ RayMul(r.dSupply, r.variableBorrowIndex) \in Nat
      /\ RayMul(r.aSupply, r.liquidityIndex) \in Nat
      /\ r.cash \in Nat /\ HalfUnit(r.variableBorrowIndex) \in Nat
  <2> HIDE DEF scaled
  <2>1. r.dSupply - scaled \in Nat
    BY <1>1, <1>4
  <2> QED
    BY <1>1, <2>1, ReserveFields, RayMulIsNat, HalfUnitIsNat
<1> HIDE DEF scaled
<1>8. Gap(n) <= Gap(r) + x + HalfUnit(r.variableBorrowIndex)
  BY <1>3, <1>6, <1>7 DEF Gap
<1> QED
  BY <1>5, <1>8 DEF n

(* A transfer moves one balance to another, also onto itself, and neither  *)
(* the supplies nor what they are worth.                                   *)
LEMMA TransferATokenKeepsBooks ==
  ASSUME NEW r, NEW t \in Nat, WellFormed(r, t),
         NEW from \in Accounts, NEW to \in Accounts, NEW x \in Nat,
         CanTransferAToken(r, from, x, t)
  PROVE  LET n == TransferAToken(r, from, to, x, t)
         IN  /\ Balanced(r) => Balanced(n)
             /\ Gap(n) = Gap(r)
             /\ Gap(UpdateState(n, t)) = Gap(UpdateState(r, t))
<1> DEFINE scaled == RayDiv(x, NormalizedIncome(r, t))
           less == [r.aBalance EXCEPT ![from] = r.aBalance[from] - scaled]
           b == [less EXCEPT ![to] = less[to] + scaled]
           n == TransferAToken(r, from, to, x, t)
<1>1. r \in Reserve
  BY DEF WellFormed
<1>2. NormalizedIncome(r, t) \in Nat \ {0}
  BY IncomeIsAccrued, ScalesPositive
<1>3. scaled \in Nat /\ r.aBalance[from] - scaled \in Nat /\ r.aBalance \in [Accounts -> Nat]
  BY <1>1, <1>2, RayDivIsNat, ReserveFields DEF CanTransferAToken
<1>4. n = [r EXCEPT !.aBalance = b]
  BY <1>1 DEF TransferAToken, Reserve
<1>5. Total(b, Accounts) = Total(r.aBalance, Accounts)
  <2>1. scaled <= r.aBalance[from]
    BY DEF CanTransferAToken
  <2> HIDE DEF scaled
  <2> QED
    BY <1>3, <2>1, FinitelyManyAccounts, BalanceTransfers
<1> HIDE DEF scaled, less, b, n
<1>6. /\ n.aBalance = b /\ n.aSupply = r.aSupply
      /\ n.dBalance = r.dBalance /\ n.dSupply = r.dSupply /\ n.cash = r.cash
      /\ n.liquidityIndex = r.liquidityIndex
      /\ n.variableBorrowIndex = r.variableBorrowIndex
      /\ n.liquidityRate = r.liquidityRate /\ n.borrowRate = r.borrowRate
      /\ n.lastUpdate = r.lastUpdate /\ n.configuration = r.configuration
  BY <1>1, <1>4 DEF Reserve
<1>7. Balanced(r) => Balanced(n)
  BY <1>5, <1>6 DEF Balanced
<1>8. Gap(n) = Gap(r)
  BY <1>6 DEF Gap
<1>9. /\ UpdateState(n, t).aSupply = UpdateState(r, t).aSupply
      /\ UpdateState(n, t).liquidityIndex = UpdateState(r, t).liquidityIndex
      /\ UpdateState(n, t).variableBorrowIndex = UpdateState(r, t).variableBorrowIndex
      /\ UpdateState(n, t).dSupply = UpdateState(r, t).dSupply
      /\ UpdateState(n, t).cash = UpdateState(r, t).cash
  <2> DEFINE p == UpdateIndexes(n, t)
             q == UpdateIndexes(r, t)
  <2>0. WellFormed(n, t)
    BY TransferATokenSound DEF n
  <2>1. p \in Reserve /\ q \in Reserve /\ n \in Reserve
    BY <2>0, UpdateIndexesSound DEF WellFormed
  <2>2. /\ p.liquidityIndex = q.liquidityIndex
        /\ p.variableBorrowIndex = q.variableBorrowIndex
        /\ p.aSupply = q.aSupply /\ p.dSupply = q.dSupply /\ p.cash = q.cash
    BY <1>1, <1>6, <2>1 DEF UpdateIndexes, Reserve
  <2> HIDE DEF p, q
  <2>3. AmountToTreasury(n, p) = AmountToTreasury(r, q)
    BY <1>6, <2>2 DEF AmountToTreasury
  <2>4. /\ MintToTreasury(n, p).aSupply = MintToTreasury(r, q).aSupply
        /\ MintToTreasury(n, p).liquidityIndex = MintToTreasury(r, q).liquidityIndex
        /\ MintToTreasury(n, p).variableBorrowIndex = MintToTreasury(r, q).variableBorrowIndex
        /\ MintToTreasury(n, p).dSupply = MintToTreasury(r, q).dSupply
        /\ MintToTreasury(n, p).cash = MintToTreasury(r, q).cash
    BY <1>6, <2>1, <2>2, <2>3 DEF MintToTreasury, Reserve
  <2> QED
    BY <2>4 DEF UpdateState, p, q
<1>10. Gap(UpdateState(n, t)) = Gap(UpdateState(r, t))
  BY <1>9 DEF Gap
<1> QED
  BY <1>7, <1>8, <1>10 DEF n

(* New rates touch no book. *)
LEMMA PricingKeepsBooks ==
  ASSUME NEW r, NEW t \in Nat, WellFormed(r, t),
         NEW added \in Nat, NEW taken \in Nat, CanUpdateInterestRates(r, added, taken)
  PROVE  LET n == UpdateInterestRates(r, added, taken)
         IN  /\ Balanced(r) => Balanced(n)
             /\ Gap(n) = Gap(r) /\ n.lastUpdate = r.lastUpdate
<1> DEFINE n == UpdateInterestRates(r, added, taken)
<1>1. /\ SamePositions(r, n) /\ n.liquidityIndex = r.liquidityIndex
      /\ n.variableBorrowIndex = r.variableBorrowIndex
      /\ n.aBalance = r.aBalance /\ n.aSupply = r.aSupply
  BY UpdateInterestRatesSound
<1>2. n.lastUpdate = r.lastUpdate
  BY DEF UpdateInterestRates, WellFormed, Reserve
<1> HIDE DEF n
<1>3. /\ Balanced(r) => Balanced(n)
      /\ Gap(n) = Gap(r) /\ n.lastUpdate = r.lastUpdate
  BY <1>1, <1>2 DEF Balanced, Gap, SamePositions
<1> QED
  BY <1>3 DEF n

(* Money moves the gap by its amount. *)
LEMMA CashMovesGap ==
  ASSUME NEW r, NEW t, WellFormed(r, t), NEW x \in Nat
  PROVE  /\ Balanced(r) => Balanced(Receive(r, x)) /\ Balanced(Release(r, x))
         /\ Gap(Receive(r, x)) = Gap(r) - x
         /\ Gap(Release(r, x)) = Gap(r) + x
         /\ Receive(r, x).lastUpdate = r.lastUpdate
         /\ Release(r, x).lastUpdate = r.lastUpdate
<1> DEFINE n == Receive(r, x)
           m == Release(r, x)
<1>1. r \in Reserve
  BY DEF WellFormed
<1>2. /\ n.aBalance = r.aBalance /\ n.aSupply = r.aSupply
      /\ n.dBalance = r.dBalance /\ n.dSupply = r.dSupply /\ n.cash = r.cash + x
      /\ n.liquidityIndex = r.liquidityIndex /\ n.lastUpdate = r.lastUpdate
      /\ n.variableBorrowIndex = r.variableBorrowIndex
  BY <1>1 DEF Receive, Reserve
<1>3. /\ m.aBalance = r.aBalance /\ m.aSupply = r.aSupply
      /\ m.dBalance = r.dBalance /\ m.dSupply = r.dSupply /\ m.cash = r.cash - x
      /\ m.liquidityIndex = r.liquidityIndex /\ m.lastUpdate = r.lastUpdate
      /\ m.variableBorrowIndex = r.variableBorrowIndex
  BY <1>1 DEF Release, Reserve
<1> HIDE DEF n, m
<1>4. /\ RayMul(r.aSupply, r.liquidityIndex) \in Nat
      /\ RayMul(r.dSupply, r.variableBorrowIndex) \in Nat
      /\ r.cash \in Nat
  BY <1>1, ReserveFields, RayMulIsNat
<1>5. Gap(n) = Gap(r) - x /\ Gap(m) = Gap(r) + x
  BY <1>2, <1>3, <1>4 DEF Gap
<1>6. Balanced(r) => Balanced(n) /\ Balanced(m)
  BY <1>2, <1>3 DEF Balanced
<1> QED
  BY <1>2, <1>3, <1>5, <1>6 DEF n, m

-----------------------------------------------------------------------------
(* What the health factor is computed from: rounded ratios, averages,      *)
(* percentages, and one more fact about sums.                              *)

(* Quotients by the same divisor compare as what is divided.               *)
LEMMA QuotientMonotone ==
  ASSUME NEW x \in Nat, NEW y \in Nat, NEW d \in Nat \ {0}, x <= y
  PROVE  x \div d \in Nat /\ y \div d \in Nat /\ x \div d <= y \div d
OBVIOUS

(* Sums of quotients. *)
LEMMA ThreeQuotients ==
  ASSUME NEW x \in Nat, NEW y \in Nat, NEW z \in Nat, NEW w \in Nat, NEW d \in Nat \ {0},
         w <= x + y + z
  PROVE  w \div d <= (x \div d) + (y \div d) + (z \div d) + 2
<1>1. /\ x \div d \in Nat /\ x < (x \div d) * d + d
      /\ y \div d \in Nat /\ y < (y \div d) * d + d
      /\ z \div d \in Nat /\ z < (z \div d) * d + d
      /\ w \div d \in Nat /\ (w \div d) * d <= w
  BY QuotientBounds
<1> DEFINE p == x \div d
           q == y \div d
           r == z \div d
           s == w \div d
<1>2. p \in Nat /\ q \in Nat /\ r \in Nat /\ s \in Nat
      /\ x < p * d + d /\ y < q * d + d /\ z < r * d + d /\ s * d <= w
  BY <1>1
<1> HIDE DEF p, q, r, s
<1>3. s * d < (p + q + r + 3) * d
  <2>1. (p + q + r + 3) * d = p * d + q * d + r * d + 3 * d
    BY <1>2
  <2>2. p * d \in Nat /\ q * d \in Nat /\ r * d \in Nat /\ s * d \in Nat
    BY <1>2
  <2> QED
    BY <1>2, <2>1, <2>2
<1>4. s < p + q + r + 3
  <2> SUFFICES ASSUME p + q + r + 3 <= s PROVE FALSE
    BY <1>2
  <2>1. p + q + r + 3 \in Nat
    BY <1>2
  <2>2. d * (p + q + r + 3) <= d * s
    BY <1>2, <2>1, ProductMonotone
  <2>3. d * (p + q + r + 3) = (p + q + r + 3) * d /\ d * s = s * d
    BY <1>2
  <2>4. s * d \in Nat /\ (p + q + r + 3) * d \in Nat
    BY <1>2, <2>1
  <2> QED
    BY <1>3, <2>2, <2>3, <2>4
<1> QED
  BY <1>2, <1>4 DEF p, q, r, s

(* A weight k (value times threshold, in percents) covers a debt e.        *)
Covers(k, e) == e = 0 \/ WadDiv(PercentMul(k, 1), e) >= WAD

(* The rounded ratio is one when the exact one is, to half a unit.         *)
LEMMA WadDivAtLeastOne ==
  ASSUME NEW p \in Nat, NEW e \in Nat \ {0}
  PROVE  WadDiv(p, e) >= WAD <=> p * WAD + e \div 2 >= WAD * e
<1> DEFINE n == p * WAD + e \div 2
<1>1. WAD \in Nat /\ n \in Nat /\ WAD * e \in Nat
  BY ScalesPositive
<1>2. WadDiv(p, e) = n \div e
  BY DEF WadDiv
<1> HIDE DEF n
<1>3. n >= WAD * e => n \div e >= WAD
  BY <1>1, QuotientAtLeast
<1>4. n \div e >= WAD => n >= WAD * e
  <2>1. n \div e \in Nat /\ (n \div e) * e <= n
    BY <1>1, QuotientBounds
  <2>2. n \div e >= WAD => WAD * e <= (n \div e) * e
    BY <1>1, <2>1, ProductMonotone
  <2> QED
    BY <1>1, <2>1, <2>2
<1> QED
  BY <1>2, <1>3, <1>4 DEF n

(* More weight and less debt still cover.                                  *)
LEMMA CoversMonotone ==
  ASSUME NEW k \in Nat, NEW m \in Nat, NEW e \in Nat, NEW f \in Nat, k <= m, f <= e, Covers(k, e)
  PROVE  Covers(m, f)
<1>1. CASE f = 0
  BY <1>1 DEF Covers
<1>2. CASE f # 0
  <2> DEFINE p == PercentMul(k, 1)
             q == PercentMul(m, 1)
  <2>1. e \in Nat \ {0} /\ f \in Nat \ {0}
    BY <1>2
  <2>2. p \in Nat /\ q \in Nat /\ p <= q
    <3>1. PERCENTAGE_FACTOR \in Nat \ {0}
      BY ScalesPositive
    <3>2. k * 1 + PERCENTAGE_FACTOR \div 2 <= m * 1 + PERCENTAGE_FACTOR \div 2
      BY <3>1
    <3> QED
      BY <3>1, <3>2, QuotientMonotone DEF PercentMul
  <2>3. WadDiv(p, e) >= WAD
    BY <2>1 DEF Covers
  <2> HIDE DEF p, q
  <2>4. p * WAD + e \div 2 >= WAD * e
    BY <2>1, <2>2, <2>3, WadDivAtLeastOne
  <2>5. WAD \in Nat \ {0}
    BY ScalesPositive
  <2>6. p * WAD <= q * WAD /\ p * WAD \in Nat /\ q * WAD \in Nat
    BY <2>2, <2>5
  <2>7. WAD * e - WAD * f >= e - f
    <3>1. WAD * (e - f) >= e - f
      BY <2>5
    <3>2. WAD * (e - f) = WAD * e - WAD * f
      BY <2>5
    <3> QED
      BY <3>1, <3>2
  <2>8. e \div 2 - f \div 2 <= e - f
    OBVIOUS
  <2>9. q * WAD + f \div 2 >= WAD * f
    <3> DEFINE we == WAD * e
               wf == WAD * f
               pw == p * WAD
               qw == q * WAD
    <3>1. we \in Nat /\ wf \in Nat /\ pw \in Nat /\ qw \in Nat
      BY <2>2, <2>5
    <3>2. pw + e \div 2 >= we /\ pw <= qw /\ we - wf >= e - f
      BY <2>4, <2>6, <2>7
    <3> HIDE DEF we, wf, pw, qw
    <3>3. qw + f \div 2 >= wf
      BY <3>1, <3>2, <2>8
    <3> QED
      BY <3>3 DEF qw, wf
  <2>10. WadDiv(q, f) >= WAD
    BY <2>1, <2>2, <2>9, WadDivAtLeastOne
  <2> QED
    BY <2>10 DEF Covers, q
<1> QED
  BY <1>1, <1>2

(* A bound on the products is enough for the rounded ratio.                *)
LEMMA CoversByProduct ==
  ASSUME NEW k \in Nat, NEW e \in Nat,
         e * PERCENTAGE_FACTOR <= k + PERCENTAGE_FACTOR \div 2
  PROVE  Covers(k, e)
<1> DEFINE m == PercentMul(k, 1)
<1>1. PERCENTAGE_FACTOR \in Nat \ {0} /\ WAD \in Nat \ {0}
  BY ScalesPositive
<1>2. m \in Nat /\ e <= m
  <2>1. k * 1 + PERCENTAGE_FACTOR \div 2 \in Nat /\ k * 1 = k
    BY <1>1
  <2>2. m = (k * 1 + PERCENTAGE_FACTOR \div 2) \div PERCENTAGE_FACTOR
    BY DEF PercentMul
  <2> HIDE DEF m
  <2> QED
    BY <1>1, <2>1, <2>2, QuotientAtLeast, QuotientBounds
<1> HIDE DEF m
<1>3. WAD * e <= WAD * m /\ WAD * e \in Nat /\ WAD * m \in Nat
  BY <1>1, <1>2, ProductMonotone
<1>4. m * WAD = WAD * m
  BY <1>1, <1>2
<1>5. e # 0 => m * WAD + e \div 2 >= WAD * e
  BY <1>3, <1>4
<1>6. e # 0 => WadDiv(m, e) >= WAD
  BY <1>2, <1>5, WadDivAtLeastOne
<1> QED
  BY <1>6 DEF Covers, m

(* The average threshold loses less than a hundredth of a percent.         *)
LEMMA AverageBounds ==
  ASSUME NEW c \in Nat, NEW w \in Nat, c = 0 => w = 0
  PROVE  /\ AverageOf(c, w) \in Nat
         /\ c * AverageOf(c, w) <= w
         /\ w <= c * (AverageOf(c, w) + 1)
         /\ c > 0 => w < c * (AverageOf(c, w) + 1)
<1>1. CASE c = 0
  BY <1>1 DEF AverageOf
<1>2. CASE c # 0
  <2> DEFINE q == w \div c
  <2>1. q \in Nat /\ q * c <= w /\ w < q * c + c
    BY <1>2, QuotientBounds
  <2>2. AverageOf(c, w) = q
    BY <1>2 DEF AverageOf
  <2> HIDE DEF q
  <2>3. c * q = q * c /\ c * (q + 1) = q * c + c
    BY <2>1
  <2> QED
    BY <2>1, <2>2, <2>3
<1> QED
  BY <1>1, <1>2

(* The configurator's bound on threshold times bonus bounds the threshold. *)
LEMMA ThresholdWithBonus ==
  ASSUME NEW h \in Nat, NEW b \in Nat, b > PERCENTAGE_FACTOR, PercentMul(h, b) <= PERCENTAGE_FACTOR
  PROVE  h <= PERCENTAGE_FACTOR
<1> DEFINE p == PERCENTAGE_FACTOR
<1>1. p \in Nat \ {0}
  BY ScalesPositive
<1>2. h * p \in Nat /\ h * b \in Nat /\ h * p <= h * b
  BY <1>1, ProductMonotone
<1>3. h * p <= h * b + p \div 2 /\ h * b + p \div 2 \in Nat
  BY <1>1, <1>2
<1>4. h <= PercentMul(h, b)
  BY <1>1, <1>3, QuotientAtLeast DEF PercentMul
<1>5. PercentMul(h, b) \in Nat
  BY PercentMulIsNat
<1> QED
  BY <1>1, <1>4, <1>5

(* What the borrow's validation accepts, the thresholds cover.             *)
LEMMA LoanIsCovered ==
  ASSUME NEW c \in Nat \ {0}, NEW n \in Nat, NEW e \in Nat, NEW w \in Nat,
         n <= w, n <= PERCENTAGE_FACTOR * c,
         n \div c # 0, PercentDiv(e, n \div c) <= c
  PROVE  e * PERCENTAGE_FACTOR <= w + PERCENTAGE_FACTOR \div 2
<1> DEFINE p == PERCENTAGE_FACTOR
           l == n \div c
           ep == e * p
           top == ep + l \div 2
           q == top \div l
<1>1. p \in Nat \ {0}
  BY ScalesPositive
<1>2. l \in Nat \ {0} /\ l * c <= n
  BY QuotientBounds
<1>3. ep \in Nat
  BY <1>1, ProductMonotone
<1>4. top \in Nat
  BY <1>2, <1>3
<1>5. q <= c
  BY DEF PercentDiv
<1> HIDE DEF l
<1>6. l <= p
  <2>1. n < (p + 1) * c
    <3>1. p * c \in Nat /\ (p + 1) * c = p * c + c
      BY <1>1
    <3> QED
      BY <3>1
  <2>2. l * c < (p + 1) * c
    <3>1. l * c \in Nat /\ (p + 1) * c \in Nat
      BY <1>1, <1>2
    <3> QED
      BY <3>1, <1>2, <2>1
  <2>3. l < p + 1
    <3> SUFFICES ASSUME p + 1 <= l PROVE FALSE
      BY <1>1, <1>2
    <3>1. c * (p + 1) <= c * l
      BY <1>1, <1>2, ProductMonotone
    <3>2. c * (p + 1) = (p + 1) * c /\ c * l = l * c
      BY <1>1, <1>2
    <3>3. l * c \in Nat /\ (p + 1) * c \in Nat
      BY <1>1, <1>2
    <3> QED
      BY <2>2, <3>1, <3>2, <3>3
  <2> QED
    BY <1>1, <1>2, <2>3
<1>7. q \in Nat /\ top < q * l + l
  <2> HIDE DEF top
  <2> QED
    BY <1>2, <1>4, QuotientBounds
<1> HIDE DEF q
<1>8. q * l <= l * c /\ q * l \in Nat /\ l * c \in Nat
  <2>1. l * q <= l * c /\ l * q \in Nat /\ l * c \in Nat
    BY <1>2, <1>5, <1>7, ProductMonotone
  <2>2. l * q = q * l
    BY <1>2, <1>7
  <2> QED
    BY <2>1, <2>2
<1> HIDE DEF ep
<1>9. ep <= w + p \div 2
  <2> DEFINE lc == l * c
             ql == q * l
  <2>1. lc \in Nat /\ ql \in Nat /\ ql <= lc /\ lc <= n /\ ep + l \div 2 < ql + l
    BY <1>2, <1>7, <1>8
  <2> HIDE DEF lc, ql, p
  <2> QED
    BY <1>1, <1>2, <1>3, <1>6, <2>1
<1> QED
  BY <1>9 DEF ep

(* The threshold of an asset times the bonus of its liquidators.           *)
LEMMA WeightOfOneNetOfBonus ==
  ASSUME NEW v \in Nat, NEW h \in Nat \ {0}, NEW b \in Nat, b > PERCENTAGE_FACTOR,
         PercentMul(h, b) <= PERCENTAGE_FACTOR
  PROVE  v * h <= (PERCENTAGE_FACTOR + 1) * PercentDiv(v, b) + PERCENTAGE_FACTOR
<1> DEFINE p == PERCENTAGE_FACTOR
           q == PercentDiv(v, b)
           hb == h * b
           vp == v * p
           vh == v * h
           k == b - b \div 2 - 1
           x == (p + 1) * q + p
<1>1. p \in Nat \ {0} /\ b \in Nat \ {0}
  BY ScalesPositive
<1>2. q \in Nat /\ hb \in Nat /\ vp \in Nat /\ vh \in Nat
  BY <1>1, PercentDivIsNat, ProductMonotone
<1>3. hb < p * (p + 1)
  <2> DEFINE m == PercentMul(h, b)
             half == p \div 2
  <2>1. half \in Nat /\ hb + half \in Nat
    BY <1>1, <1>2, QuotientBounds
  <2>2. m \in Nat /\ m <= p
    BY PercentMulIsNat
  <2>3. hb + half < m * p + p
    BY <1>1, <2>1, QuotientBounds DEF PercentMul
  <2> HIDE DEF m, half, hb, p
  <2>4. p * m <= p * p /\ p * m \in Nat /\ p * p \in Nat /\ m * p = p * m
    BY <1>1, <2>2, ProductMonotone
  <2>5. p * (p + 1) = p * p + p
    BY <1>1
  <2> QED
    BY ONLY <1>1, <1>2, <2>1, <2>3, <2>4, <2>5
<1>4. vp <= q * b + k /\ k \in Nat /\ 2 * k <= b
  <2> DEFINE half == b \div 2
  <2>1. half \in Nat /\ half * 2 <= b /\ b < half * 2 + 2
    BY <1>1, QuotientBounds
  <2>2. vp + half \in Nat
    BY <1>2, <2>1
  <2>3. vp + half < q * b + b
    BY <1>1, <2>2, QuotientBounds DEF PercentDiv
  <2>4. q * b \in Nat
    BY <1>1, <1>2, ProductMonotone
  <2> HIDE DEF q, vp, half
  <2>5. b - half - 1 \in Nat /\ 2 * (b - half - 1) <= b /\ vp <= q * b + (b - half - 1)
    BY ONLY <1>1, <1>2, <2>1, <2>3, <2>4
  <2> QED
    BY <2>5 DEF half
<1> HIDE DEF q, k
<1>5. h * vp <= h * (q * b + k)
  <2> HIDE DEF vp
  <2>1. q * b + k \in Nat
    BY <1>1, <1>2, <1>4, ProductMonotone
  <2> QED
    BY <1>2, <1>4, <2>1, ProductMonotone
<1>6. h * vp = vh * p /\ h * (q * b + k) = q * hb + h * k
  BY <1>1, <1>2, <1>4
<1>7. h * k <= p * p
  <2>1. h * (2 * k) <= hb /\ h * (2 * k) \in Nat
    BY <1>1, <1>4, ProductMonotone
  <2>2. h * (2 * k) = 2 * (h * k) /\ h * k \in Nat
    BY <1>4
  <2>3. p * (p + 1) = p * p + p /\ p * 1 <= p * p /\ p * p \in Nat
    BY <1>1, ProductMonotone
  <2> HIDE DEF hb
  <2> QED
    BY ONLY <1>1, <1>2, <1>3, <2>1, <2>2, <2>3
<1>8. q * hb <= q * (p * (p + 1))
  <2>1. p * (p + 1) \in Nat
    BY <1>1
  <2> HIDE DEF hb
  <2> QED
    BY <1>2, <1>3, <2>1, ProductMonotone
<1>9. q * (p * (p + 1)) + p * p = x * p /\ x \in Nat
  <2>1. (p + 1) * q \in Nat /\ x \in Nat
    BY <1>1, <1>2, ProductMonotone
  <2>2. x * p = ((p + 1) * q) * p + p * p
    BY <1>1, <2>1
  <2>3. ((p + 1) * q) * p = q * (p * (p + 1))
    BY <1>1, <1>2
  <2> QED
    BY <2>1, <2>2, <2>3
<1>10. vh * p <= x * p
  <2> DEFINE top == q * (p * (p + 1))
             low == q * hb
             side == h * k
             square == p * p
  <2>1. /\ low \in Nat /\ side \in Nat /\ top \in Nat /\ square \in Nat
        /\ vh * p \in Nat /\ x * p \in Nat
    BY <1>1, <1>2, <1>4, <1>9, ProductMonotone
  <2>2. vh * p <= low + side
    BY <1>5, <1>6
  <2>3. low <= top /\ side <= square /\ top + square = x * p
    BY <1>7, <1>8, <1>9
  <2> HIDE DEF top, low, side, square
  <2> QED
    BY ONLY <2>1, <2>2, <2>3
<1> HIDE DEF x, vh
<1>11. vh <= x
  <2> SUFFICES ASSUME ~(vh <= x) PROVE FALSE
    OBVIOUS
  <2>1. x + 1 <= vh
    BY <1>2, <1>9
  <2>2. p * (x + 1) <= p * vh /\ p * (x + 1) = x * p + p /\ p * vh = vh * p /\ x * p \in Nat
        /\ vh * p \in Nat
    BY <1>1, <1>2, <1>9, <2>1, ProductMonotone
  <2> QED
    BY <1>1, <1>10, <2>2
<1> QED
  BY <1>11 DEF x, vh, q

(* The percentage the tolerance of LoansCoverBonus is stated with.         *)
LEMMA CoveredByPercent ==
  ASSUME NEW e \in Nat, NEW n \in Nat, NEW m \in Nat,
         e * PERCENTAGE_FACTOR
           <= (PERCENTAGE_FACTOR + 1) * n + PERCENTAGE_FACTOR * m + PERCENTAGE_FACTOR \div 2
  PROVE  /\ PercentMul(n, PERCENTAGE_FACTOR + 1) \in Nat
         /\ e <= PercentMul(n, PERCENTAGE_FACTOR + 1) + m
<1> DEFINE p == PERCENTAGE_FACTOR
           half == p \div 2
           top == n * (p + 1) + half
           q == top \div p
           pn == (p + 1) * n
           k == q + m + 1
<1>1. p \in Nat \ {0} /\ half \in Nat
  BY ScalesPositive, QuotientBounds
<1>2. pn \in Nat /\ top \in Nat /\ n * (p + 1) = pn
  BY <1>1, ProductMonotone
<1>3. q \in Nat /\ top < q * p + p
  <2> HIDE DEF top
  <2> QED
    BY <1>1, <1>2, QuotientBounds
<1>4. e * p <= pn + p * m + half
  OBVIOUS
<1>5. PercentMul(n, p + 1) = q
  BY DEF PercentMul
<1>6. top = pn + half
  BY <1>2
<1> HIDE DEF p, half, pn, q, top
<1>7. p * k = q * p + p * m + p /\ q * p \in Nat /\ p * m \in Nat /\ k \in Nat
  BY <1>1, <1>3, ProductMonotone
<1>8. e * p < p * k
  BY ONLY <1>1, <1>2, <1>3, <1>4, <1>6, <1>7
<1> HIDE DEF k
<1>9. e < k
  <2> SUFFICES ASSUME ~(e < k) PROVE FALSE
    OBVIOUS
  <2>1. p * k <= p * e /\ p * k \in Nat /\ p * e \in Nat
    BY <1>1, <1>7, ProductMonotone
  <2>2. p * e = e * p
    BY <1>1
  <2> QED
    BY <1>8, <2>1, <2>2
<1>10. e <= q + m
  BY <1>3, <1>9 DEF k
<1> QED
  BY <1>3, <1>5, <1>10 DEF p

(* As TotalMonotone, but for one member that may count for k more.         *)
LEMMA TotalMonotoneBut ==
  ASSUME NEW T, IsFiniteSet(T), NEW S, IsFiniteSet(S), NEW f, NEW g, NEW z, NEW k \in Nat,
         \A x \in S : g[x] \in Nat,
         \A x \in T : f[x] \in Nat,
         \A x \in T \ {z} : f[x] = 0 \/ (x \in S /\ f[x] <= g[x]),
         z \in T => f[z] <= (IF z \in S THEN g[z] ELSE 0) + k
  PROVE  Total(f, T) <= Total(g, S) + k
<1>1. IsFiniteSet(T \ {z}) /\ IsFiniteSet(S \ {z})
  BY FS_Difference
<1>2. Total(f, T \ {z}) <= Total(g, S \ {z})
  <2>1. \A x \in S \ {z} : g[x] \in Nat
    OBVIOUS
  <2>2. \A x \in T \ {z} : f[x] \in Nat /\ (f[x] = 0 \/ (x \in S \ {z} /\ f[x] <= g[x]))
    OBVIOUS
  <2> QED
    BY <1>1, <2>1, <2>2, TotalMonotone
<1>3. Total(f, T) \in Nat /\ Total(g, S) \in Nat /\ Total(f, T \ {z}) \in Nat
      /\ Total(g, S \ {z}) \in Nat
  BY <1>1, TotalBounds
<1>4. Total(f, T) <= Total(f, T \ {z}) + (IF z \in T THEN f[z] ELSE 0)
  <2>1. CASE z \in T
    BY <2>1, <1>3, TotalWithout
  <2>2. CASE z \notin T
    <3>1. T \ {z} = T
      BY <2>2
    <3> QED
      BY <2>2, <3>1, <1>3
  <2> QED
    BY <2>1, <2>2
<1>5. Total(g, S \ {z}) + (IF z \in S THEN g[z] ELSE 0) <= Total(g, S)
  <2>1. CASE z \in S
    BY <2>1, <1>3, TotalWithout
  <2>2. CASE z \notin S
    <3>1. S \ {z} = S
      BY <2>2
    <3> QED
      BY <2>2, <3>1, <1>3
  <2> QED
    BY <2>1, <2>2
<1>6. z \in T => f[z] \in Nat
  OBVIOUS
<1>7. z \in S => g[z] \in Nat
  OBVIOUS
<1> QED
  BY ONLY <1>2, <1>3, <1>4, <1>5, <1>6, <1>7, k \in Nat,
          z \in T => f[z] <= (IF z \in S THEN g[z] ELSE 0) + k

-----------------------------------------------------------------------------
(* The terms of a reserve: its configuration and its normalized indexes.   *)
(* No operation changes them but by letting the debt index, which is       *)
(* compounded, fall back to the simple interest that is charged.           *)

(* One reserve: what each call of the pool leaves of its terms.            *)
TermsKept(r, n, t) ==
  /\ n.configuration = r.configuration
  /\ NormalizedIncome(n, t) = NormalizedIncome(r, t)
  /\ NormalizedDebt(n, t) <= NormalizedDebt(r, t)

(* The indexes and their date stand.                                       *)
KeepsClock(r, n) ==
  /\ n.configuration = r.configuration /\ n.lastUpdate = r.lastUpdate
  /\ SameIndexes(r, n)

(* None of these operations moves an index or its date.                    *)
LEMMA ClockKept ==
  ASSUME NEW r \in Reserve, NEW u, NEW x, NEW y
  PROVE  /\ KeepsClock(r, Receive(r, x)) /\ KeepsClock(r, Release(r, x))
         /\ KeepsClock(r, MintAToken(r, u, x)) /\ KeepsClock(r, BurnAToken(r, u, x))
         /\ KeepsClock(r, MintDebt(r, u, x)) /\ KeepsClock(r, BurnDebt(r, u, x))
         /\ KeepsClock(r, UpdateInterestRates(r, x, y))
BY DEF KeepsClock, SameIndexes, Reserve, Receive, Release, MintAToken, BurnAToken, MintDebt,
       BurnDebt, UpdateInterestRates

LEMMA ClockTransitive ==
  ASSUME NEW r, NEW m, NEW n, KeepsClock(r, m), KeepsClock(m, n)
  PROVE  KeepsClock(r, n)
BY DEF KeepsClock, SameIndexes

LEMMA TermsTransitive ==
  ASSUME NEW r, NEW m, NEW n, NEW t, TermsKept(r, m, t), TermsKept(m, n, t),
         NormalizedDebt(r, t) \in Nat, NormalizedDebt(m, t) \in Nat, NormalizedDebt(n, t) \in Nat
  PROVE  TermsKept(r, n, t)
BY DEF TermsKept

(* A reserve brought up to date is worth what it was worth before.         *)
LEMMA SettledTerms ==
  ASSUME NEW r, NEW t \in Nat, WellFormed(r, t), NEW n, KeepsClock(UpdateState(r, t), n)
  PROVE  /\ TermsKept(r, n, t)
         /\ n.lastUpdate = t
         /\ n.liquidityIndex = NormalizedIncome(r, t)
         /\ NormalizedDebt(n, t) = n.variableBorrowIndex
         /\ n.variableBorrowIndex = UpdateState(r, t).variableBorrowIndex
<1> DEFINE s == UpdateState(r, t)
           m == UpdateIndexes(r, t)
<1>1. /\ s.configuration = r.configuration /\ s.lastUpdate = t
      /\ s.liquidityIndex = m.liquidityIndex
      /\ s.variableBorrowIndex = m.variableBorrowIndex
  BY UpdateStateSound DEF SamePositions
<1>2. /\ NormalizedIncome(r, t) = m.liquidityIndex
      /\ NormalizedDebt(r, t) >= m.variableBorrowIndex
      /\ NormalizedDebt(r, t) \in Nat
  BY IncomeIsAccrued, DebtIsAtLeastAccrued
<1>3. m.variableBorrowIndex \in Nat
  BY UpdateIndexesSound, ReserveFields DEF WellFormed
<1> HIDE DEF s, m
<1>4. /\ n.configuration = r.configuration /\ n.lastUpdate = t
      /\ n.liquidityIndex = m.liquidityIndex
      /\ n.variableBorrowIndex = m.variableBorrowIndex
      /\ n.variableBorrowIndex = s.variableBorrowIndex
  BY <1>1 DEF KeepsClock, SameIndexes, s
<1>5. NormalizedIncome(n, t) = n.liquidityIndex /\ NormalizedDebt(n, t) = n.variableBorrowIndex
  BY <1>4 DEF NormalizedIncome, NormalizedDebt
<1> QED
  BY <1>2, <1>3, <1>4, <1>5 DEF TermsKept, s

LEMMA SameTermsAtRest ==
  ASSUME NEW r, NEW t \in Nat, WellFormed(r, t)
  PROVE  TermsKept(r, r, t)
<1>1. NormalizedDebt(r, t) \in Nat
  BY DebtIsAtLeastAccrued
<1> QED
  BY <1>1 DEF TermsKept

(* A transfer of aTokens leaves the terms as they were ...                 *)
LEMMA TransferTerms ==
  ASSUME NEW r, NEW t \in Nat, WellFormed(r, t), NEW from, NEW to, NEW x
  PROVE  TermsKept(r, TransferAToken(r, from, to, x, t), t)
<1> DEFINE n == TransferAToken(r, from, to, x, t)
<1>1. /\ n.configuration = r.configuration /\ n.lastUpdate = r.lastUpdate
      /\ n.liquidityIndex = r.liquidityIndex /\ n.variableBorrowIndex = r.variableBorrowIndex
      /\ n.liquidityRate = r.liquidityRate /\ n.borrowRate = r.borrowRate
  BY DEF TransferAToken, WellFormed, Reserve
<1> HIDE DEF n
<1>2. NormalizedIncome(n, t) = NormalizedIncome(r, t) /\ NormalizedDebt(n, t) = NormalizedDebt(r, t)
  BY <1>1 DEF NormalizedIncome, NormalizedDebt
<1>3. NormalizedDebt(r, t) \in Nat
  BY DebtIsAtLeastAccrued
<1> QED
  BY <1>1, <1>2, <1>3 DEF TermsKept, n

(* ... and so does a payment.                                              *)
LEMMA PaymentTerms ==
  ASSUME NEW r, NEW t \in Nat, WellFormed(r, t), NEW x
  PROVE  TermsKept(r, Receive(r, x), t)
<1> DEFINE n == Receive(r, x)
<1>1. /\ n.configuration = r.configuration /\ n.lastUpdate = r.lastUpdate
      /\ n.liquidityIndex = r.liquidityIndex /\ n.variableBorrowIndex = r.variableBorrowIndex
      /\ n.liquidityRate = r.liquidityRate /\ n.borrowRate = r.borrowRate
  BY DEF Receive, WellFormed, Reserve
<1> HIDE DEF n
<1>2. NormalizedIncome(n, t) = NormalizedIncome(r, t) /\ NormalizedDebt(n, t) = NormalizedDebt(r, t)
  BY <1>1 DEF NormalizedIncome, NormalizedDebt
<1>3. NormalizedDebt(r, t) \in Nat
  BY DebtIsAtLeastAccrued
<1> QED
  BY <1>1, <1>2, <1>3 DEF TermsKept, n

(* The operations of a deposit, after updateState, move no index ...       *)
LEMMA DepositClock ==
  ASSUME NEW r, NEW t \in Nat, WellFormed(r, t), NEW u \in Accounts, NEW x \in Nat,
         CanUpdateInterestRates(UpdateState(r, t), x, 0)
  PROVE  KeepsClock(UpdateState(r, t),
                    MintAToken(Receive(UpdateInterestRates(UpdateState(r, t), x, 0), x), u, x))
<1> DEFINE s == UpdateState(r, t)
           p == UpdateInterestRates(s, x, 0)
           m == Receive(p, x)
<1>1. WellFormed(s, t)
  BY UpdateStateSound
<1> HIDE DEF s
<1>2. WellFormed(p, t)
  BY <1>1, UpdateInterestRatesSound DEF s
<1>3. KeepsClock(s, p)
  BY <1>1, ClockKept DEF WellFormed
<1> HIDE DEF p
<1>4. WellFormed(m, t)
  BY <1>2, CashMoves
<1>5. KeepsClock(p, m)
  BY <1>2, ClockKept DEF WellFormed
<1> HIDE DEF m
<1>6. KeepsClock(m, MintAToken(m, u, x))
  BY <1>4, ClockKept DEF WellFormed
<1>7. KeepsClock(s, MintAToken(m, u, x))
  BY ONLY <1>3, <1>5, <1>6, ClockTransitive
<1> QED
  BY <1>7 DEF m, p, s

(* ... nor do those of a withdrawal, which burns what it takes, scaled ... *)
LEMMA WithdrawClock ==
  ASSUME NEW r, NEW t \in Nat, WellFormed(r, t), NEW u \in Accounts, NEW x \in Nat,
         CanUpdateInterestRates(UpdateState(r, t), 0, x)
  PROVE  LET n == BurnAToken(UpdateInterestRates(UpdateState(r, t), 0, x), u, x)
         IN  /\ KeepsClock(UpdateState(r, t), n)
             /\ n.aBalance[u] = UpdateState(r, t).aBalance[u]
                                  - RayDiv(x, UpdateState(r, t).liquidityIndex)
<1> DEFINE s == UpdateState(r, t)
           p == UpdateInterestRates(s, 0, x)
           n == BurnAToken(p, u, x)
<1>1. WellFormed(s, t)
  BY UpdateStateSound
<1> HIDE DEF s
<1>2. WellFormed(p, t) /\ p.aBalance = s.aBalance /\ p.liquidityIndex = s.liquidityIndex
  BY <1>1, UpdateInterestRatesSound DEF s
<1>3. KeepsClock(s, p)
  BY <1>1, ClockKept DEF WellFormed
<1> HIDE DEF p
<1>4. KeepsClock(p, n)
  BY <1>2, ClockKept DEF WellFormed
<1>5. n.aBalance[u] = p.aBalance[u] - RayDiv(x, p.liquidityIndex)
  <2>1. p.aBalance \in [Accounts -> Nat] /\ p \in Reserve
    BY <1>2, ReserveFields DEF WellFormed
  <2>2. n.aBalance = [p.aBalance EXCEPT ![u] = p.aBalance[u] - RayDiv(x, p.liquidityIndex)]
    BY <2>1 DEF BurnAToken, Reserve
  <2> QED
    BY <2>1, <2>2
<1>6. KeepsClock(s, n)
  BY ONLY <1>3, <1>4, ClockTransitive
<1> QED
  BY <1>2, <1>5, <1>6 DEF n, p, s

(* ... nor those of a borrow, which mints what it takes, scaled ...        *)
LEMMA BorrowClock ==
  ASSUME NEW r, NEW t \in Nat, WellFormed(r, t), NEW u \in Users, NEW x \in Nat,
         NEW released \in Nat,
         CanUpdateInterestRates(MintDebt(UpdateState(r, t), u, x), 0, released)
  PROVE  LET owed == MintDebt(UpdateState(r, t), u, x)
             n    == Release(UpdateInterestRates(owed, 0, released), released)
         IN  /\ KeepsClock(UpdateState(r, t), n)
             /\ n.dBalance[u] = r.dBalance[u] + RayDiv(x, UpdateState(r, t).variableBorrowIndex)
<1> DEFINE s == UpdateState(r, t)
           m == MintDebt(s, u, x)
           p == UpdateInterestRates(m, 0, released)
           n == Release(p, released)
<1>1. WellFormed(s, t) /\ s.dBalance = r.dBalance
  BY UpdateStateSound DEF SamePositions
<1> HIDE DEF s
<1>2. WellFormed(m, t)
  BY <1>1, MintDebtSound
<1>3. KeepsClock(s, m)
  BY <1>1, ClockKept DEF WellFormed
<1>4. m.dBalance[u] = s.dBalance[u] + RayDiv(x, s.variableBorrowIndex)
  <2>1. s.dBalance \in [Users -> Nat] /\ s \in Reserve
    BY <1>1, ReserveFields DEF WellFormed
  <2>2. m.dBalance = [s.dBalance EXCEPT ![u] = s.dBalance[u] + RayDiv(x, s.variableBorrowIndex)]
    BY <2>1 DEF MintDebt, Reserve
  <2> QED
    BY <2>1, <2>2
<1>5. CanUpdateInterestRates(m, 0, released)
  BY DEF s
<1> HIDE DEF m
<1>6. WellFormed(p, t) /\ p.dBalance = m.dBalance
  BY <1>2, <1>5, UpdateInterestRatesSound DEF SamePositions
<1>7. KeepsClock(m, p)
  BY <1>2, ClockKept DEF WellFormed
<1> HIDE DEF p
<1>8. KeepsClock(p, n) /\ n.dBalance = p.dBalance
  <2>1. p \in Reserve
    BY <1>6 DEF WellFormed
  <2>2. n.dBalance = p.dBalance
    BY <2>1 DEF Release, Reserve
  <2> QED
    BY <2>1, <2>2, ClockKept
<1>9. KeepsClock(s, n)
  BY ONLY <1>3, <1>7, <1>8, ClockTransitive
<1> QED
  BY <1>1, <1>4, <1>6, <1>8, <1>9 DEF n, p, m, s

(* ... nor those of a repayment.                                           *)
LEMMA RepayClock ==
  ASSUME NEW r, NEW t \in Nat, WellFormed(r, t), NEW u \in Users, NEW x \in Nat,
         CanBurnDebt(UpdateState(r, t), u, x),
         CanUpdateInterestRates(BurnDebt(UpdateState(r, t), u, x), x, 0)
  PROVE  LET p == UpdateInterestRates(BurnDebt(UpdateState(r, t), u, x), x, 0)
         IN  /\ KeepsClock(UpdateState(r, t), p) /\ WellFormed(p, t)
             /\ KeepsClock(UpdateState(r, t), Receive(p, x))
<1> DEFINE s == UpdateState(r, t)
           m == BurnDebt(s, u, x)
           p == UpdateInterestRates(m, x, 0)
<1>1. WellFormed(s, t) /\ CanBurnDebt(s, u, x)
  BY UpdateStateSound
<1> HIDE DEF s
<1>2. WellFormed(m, t)
  BY <1>1, BurnDebtSound
<1>3. KeepsClock(s, m)
  BY <1>1, ClockKept DEF WellFormed
<1>4. CanUpdateInterestRates(m, x, 0)
  BY DEF s
<1> HIDE DEF m
<1>5. WellFormed(p, t)
  BY <1>2, <1>4, UpdateInterestRatesSound
<1>6. KeepsClock(m, p)
  BY <1>2, ClockKept DEF WellFormed
<1> HIDE DEF p
<1>7. KeepsClock(p, Receive(p, x))
  BY <1>5, ClockKept DEF WellFormed
<1>8. KeepsClock(s, p) /\ KeepsClock(s, Receive(p, x))
  BY ONLY <1>3, <1>6, <1>7, ClockTransitive
<1> QED
  BY <1>5, <1>8 DEF p, m, s

(* The collateral a liquidation takes: moved or burned.                    *)
LEMMA SeizureTerms ==
  ASSUME NEW r, NEW t \in Nat, WellFormed(r, t), NEW u \in Accounts, NEW l \in Accounts,
         NEW y \in Nat
  PROVE  /\ CanTransferAToken(r, u, y, t) =>
              LET n == TransferAToken(r, u, l, y, t)
              IN  WellFormed(n, t) /\ TermsKept(r, n, t)
         /\ LET s == UpdateState(r, t)
                p == UpdateInterestRates(s, 0, y)
                n == BurnAToken(p, u, y)
            IN  CanUpdateInterestRates(s, 0, y) /\ CanBurnAToken(p, u, y) =>
                  WellFormed(n, t) /\ TermsKept(r, n, t)
<1>1. ASSUME CanTransferAToken(r, u, y, t)
      PROVE  LET n == TransferAToken(r, u, l, y, t)
             IN  WellFormed(n, t) /\ TermsKept(r, n, t)
  BY <1>1, TransferATokenSound, TransferTerms
<1> DEFINE s == UpdateState(r, t)
           p == UpdateInterestRates(s, 0, y)
           n == BurnAToken(p, u, y)
<1>2. ASSUME CanUpdateInterestRates(s, 0, y), CanBurnAToken(p, u, y)
      PROVE  WellFormed(n, t) /\ TermsKept(r, n, t)
  <2>1. WellFormed(s, t)
    BY UpdateStateSound
  <2>2. WellFormed(p, t)
    <3> HIDE DEF s
    <3> QED
      BY <1>2, <2>1, UpdateInterestRatesSound
  <2>3. KeepsClock(s, n)
    BY <1>2, WithdrawClock
  <2>4. WellFormed(n, t)
    <3> HIDE DEF p, s
    <3> QED
      BY <1>2, <2>2, BurnATokenSound
  <2>5. TermsKept(r, n, t)
    <3> HIDE DEF n
    <3> QED
      BY <2>3, SettledTerms DEF s
  <2> QED
    BY <2>4, <2>5
<1> QED
  BY <1>1, <1>2

(* A transfer of all of a balance leaves nothing behind.                   *)
LEMMA TransferOfAll ==
  ASSUME NEW r, NEW t \in Nat, WellFormed(r, t),
         NEW from \in Accounts, NEW to \in Accounts, from # to
  PROVE  TransferAToken(r, from, to, BalanceOf(r, from, t), t).aBalance[from] = 0
<1> DEFINE scaled == RayDiv(BalanceOf(r, from, t), NormalizedIncome(r, t))
           b == [r.aBalance EXCEPT ![from] = r.aBalance[from] - scaled]
           c == [b EXCEPT ![to] = b[to] + scaled]
           n == TransferAToken(r, from, to, BalanceOf(r, from, t), t)
<1>1. r \in Reserve /\ r.aBalance \in [Accounts -> Nat]
  BY ReserveFields DEF WellFormed
<1>2. scaled = r.aBalance[from]
  <2>1. UpdateState(r, t).liquidityIndex = NormalizedIncome(r, t)
    BY UpdateStateSound, IncomeIsAccrued
  <2> QED
    BY <2>1, BalanceScalesBack
<1>3. n.aBalance = c
  BY <1>1 DEF TransferAToken, Reserve
<1> HIDE DEF scaled, n
<1>4. c[from] = r.aBalance[from] - scaled
  BY <1>1
<1>5. r.aBalance[from] \in Nat
  BY <1>1
<1> QED
  BY <1>2, <1>3, <1>4, <1>5 DEF n

-----------------------------------------------------------------------------
(* The value of a position: its collateral, what may be borrowed against   *)
(* it, its weight (collateral times threshold) and its debt, as sums.      *)

(* All the reserves of a pool.                                            *)
AllWellFormed(R, t) ==
  /\ R \in [Assets -> Reserve]
  /\ \A a \in Assets : WellFormed(R[a], t)

Values(R, cfg, P, u, t) ==
  [a \in CountedCollateral(R, cfg) |-> CollateralInBase(R, P, a, u, t)]
LoanValues(R, cfg, P, u, t) ==
  [a \in CountedCollateral(R, cfg) |-> CollateralInBase(R, P, a, u, t) * R[a].configuration.ltv]
Weights(R, cfg, P, u, t) ==
  [a \in CountedCollateral(R, cfg) |->
     CollateralInBase(R, P, a, u, t) * R[a].configuration.liquidationThreshold]
Debts(R, cfg, P, u, t) == [a \in cfg.borrowing |-> DebtInBase(R, P, a, u, t)]
WorthOf(R, cfg, P, u, t)   == Total(Values(R, cfg, P, u, t), CountedCollateral(R, cfg))
LendingOf(R, cfg, P, u, t) == Total(LoanValues(R, cfg, P, u, t), CountedCollateral(R, cfg))
WeightOf(R, cfg, P, u, t)  == Total(Weights(R, cfg, P, u, t), CountedCollateral(R, cfg))
OwedOf(R, cfg, P, u, t)    == Total(Debts(R, cfg, P, u, t), cfg.borrowing)

(* The fold of GenericLogic is that sum.                                   *)
LEMMA SumIsTotal ==
  ASSUME NEW f
  PROVE  SumFunction(f) = Total(f, DOMAIN f)
BY DEF SumFunction, SumFunctionOnSet, FoldFunctionOnSet, Total, MapThenSumSet, MapThenFoldSet

(* What calculateUserAccountData returns, as sums and averages.            *)
LEMMA AccountSums ==
  ASSUME NEW R, NEW cfg, NEW P, NEW u, NEW t
  PROVE  LET data == UserAccountData(R, cfg, P, u, t)
         IN  /\ data.collateral = WorthOf(R, cfg, P, u, t)
             /\ data.debt = OwedOf(R, cfg, P, u, t)
             /\ data.ltv = AverageOf(data.collateral, LendingOf(R, cfg, P, u, t))
             /\ data.liquidationThreshold = AverageOf(data.collateral, WeightOf(R, cfg, P, u, t))
<1> DEFINE A == CountedCollateral(R, cfg)
           v == Values(R, cfg, P, u, t)
           l == LoanValues(R, cfg, P, u, t)
           w == Weights(R, cfg, P, u, t)
           d == Debts(R, cfg, P, u, t)
           data == UserAccountData(R, cfg, P, u, t)
<1>1. /\ DOMAIN v = A /\ DOMAIN l = A /\ DOMAIN w = A /\ DOMAIN d = cfg.borrowing
  BY DEF Values, LoanValues, Weights, Debts
<1>2. /\ v = [a \in A |-> CollateralInBase(R, P, a, u, t)]
      /\ l = [a \in A |-> v[a] * R[a].configuration.ltv]
      /\ w = [a \in A |-> v[a] * R[a].configuration.liquidationThreshold]
      /\ d = [a \in cfg.borrowing |-> DebtInBase(R, P, a, u, t)]
  BY DEF Values, LoanValues, Weights, Debts
<1>3. data = [collateral |-> SumFunction(v), debt |-> SumFunction(d),
              ltv |-> AverageOf(SumFunction(v), SumFunction(l)),
              liquidationThreshold |-> AverageOf(SumFunction(v), SumFunction(w))]
  BY <1>2, Zenon DEF UserAccountData
<1>4. SumFunction(v) = Total(v, A) /\ SumFunction(l) = Total(l, A) /\ SumFunction(w) = Total(w, A)
      /\ SumFunction(d) = Total(d, cfg.borrowing)
  <2> HIDE DEF v, l, w, d, A
  <2>1. SumFunction(v) = Total(v, DOMAIN v) /\ SumFunction(l) = Total(l, DOMAIN l)
        /\ SumFunction(w) = Total(w, DOMAIN w) /\ SumFunction(d) = Total(d, DOMAIN d)
    BY SumIsTotal
  <2> QED
    BY <2>1, <1>1, Zenon
<1> HIDE DEF data
<1>5. /\ data.collateral = SumFunction(v) /\ data.debt = SumFunction(d)
      /\ data.ltv = AverageOf(SumFunction(v), SumFunction(l))
      /\ data.liquidationThreshold = AverageOf(SumFunction(v), SumFunction(w))
  BY <1>3, Zenon
<1> QED
  BY <1>4, <1>5, Zenon DEF WorthOf, LendingOf, WeightOf, OwedOf, data

(* A user's position in a well-formed market. *)
Position(R, cfg, P, u, t) ==
  /\ AllWellFormed(R, t)
  /\ cfg \in UserConfiguration
  /\ P \in [Assets -> Nat \ {0}]
  /\ u \in Users
  /\ t \in Nat

(* The fields of a configuration that a valuation reads.                   *)
LEMMA ConfigurationTypes ==
  ASSUME NEW R, NEW t, AllWellFormed(R, t), NEW a \in Assets
  PROVE  /\ R[a].configuration.unit \in Nat \ {0}
         /\ R[a].configuration.ltv \in Nat
         /\ R[a].configuration.liquidationThreshold \in Nat
<1>1. R[a] \in Reserve
  BY DEF AllWellFormed
<1>2. R[a].configuration \in Configuration
  BY <1>1, ReserveFields
<1> QED
  BY <1>2 DEF Configuration

(* Everything a valuation multiplies and divides is a natural number.      *)
LEMMA TermsAreNat ==
  ASSUME NEW R, NEW cfg, NEW P, NEW u, NEW t, Position(R, cfg, P, u, t), NEW a \in Assets
  PROVE  /\ NormalizedIncome(R[a], t) \in Nat /\ NormalizedIncome(R[a], t) >= RAY
         /\ NormalizedDebt(R[a], t) \in Nat
         /\ R[a].aBalance[u] \in Nat /\ R[a].dBalance[u] \in Nat
         /\ BalanceOf(R[a], u, t) \in Nat /\ DebtOf(R[a], u, t) \in Nat
         /\ P[a] \in Nat
         /\ CollateralInBase(R, P, a, u, t) \in Nat
         /\ DebtInBase(R, P, a, u, t) \in Nat
<1>1. WellFormed(R[a], t) /\ R[a] \in Reserve /\ t \in Nat /\ u \in Users /\ u \in Accounts
  BY DEF Position, AllWellFormed, Accounts
<1>2. /\ NormalizedIncome(R[a], t) \in Nat /\ NormalizedIncome(R[a], t) >= RAY
      /\ NormalizedDebt(R[a], t) \in Nat
  BY <1>1, IncomeIsAccrued, DebtIsAtLeastAccrued
<1>3. R[a].aBalance[u] \in Nat /\ R[a].dBalance[u] \in Nat
  <2>1. R[a].aBalance \in [Accounts -> Nat] /\ R[a].dBalance \in [Users -> Nat]
    BY <1>1, ReserveFields
  <2> QED
    BY <2>1, <1>1
<1>4. BalanceOf(R[a], u, t) \in Nat /\ DebtOf(R[a], u, t) \in Nat
  BY <1>2, <1>3, RayMulIsNat DEF BalanceOf, DebtOf
<1>5. P[a] \in Nat
  BY DEF Position
<1>6. R[a].configuration.unit \in Nat \ {0}
  BY ConfigurationTypes DEF Position
<1>7. P[a] * BalanceOf(R[a], u, t) \in Nat /\ P[a] * DebtOf(R[a], u, t) \in Nat
  BY <1>4, <1>5, ProductMonotone
<1>8. CollateralInBase(R, P, a, u, t) \in Nat /\ DebtInBase(R, P, a, u, t) \in Nat
  BY <1>6, <1>7, QuotientBounds DEF CollateralInBase, DebtInBase
<1> QED
  BY <1>2, <1>3, <1>4, <1>5, <1>8

(* The assets a position counts, and owes, are finitely many.              *)
LEMMA CountedAreAssets ==
  ASSUME NEW R, NEW cfg \in UserConfiguration
  PROVE  /\ CountedCollateral(R, cfg) \in SUBSET Assets /\ IsFiniteSet(CountedCollateral(R, cfg))
         /\ cfg.borrowing \in SUBSET Assets /\ IsFiniteSet(cfg.borrowing)
<1>1. CountedCollateral(R, cfg) \in SUBSET Assets /\ cfg.borrowing \in SUBSET Assets
  BY DEF CountedCollateral, UserConfiguration
<1> QED
  BY <1>1, FinitelyManyAssets, FS_Subset

(* The terms of the sums of a position.                                    *)
LEMMA PositionTerms ==
  ASSUME NEW R, NEW cfg, NEW P, NEW u, NEW t, Position(R, cfg, P, u, t)
  PROVE  /\ \A a \in CountedCollateral(R, cfg) :
              /\ Values(R, cfg, P, u, t)[a] \in Nat
              /\ Values(R, cfg, P, u, t)[a] = CollateralInBase(R, P, a, u, t)
              /\ LoanValues(R, cfg, P, u, t)[a] \in Nat
              /\ LoanValues(R, cfg, P, u, t)[a]
                   = CollateralInBase(R, P, a, u, t) * R[a].configuration.ltv
              /\ Weights(R, cfg, P, u, t)[a] \in Nat
              /\ Weights(R, cfg, P, u, t)[a]
                   = CollateralInBase(R, P, a, u, t) * R[a].configuration.liquidationThreshold
         /\ \A a \in cfg.borrowing :
              /\ Debts(R, cfg, P, u, t)[a] \in Nat
              /\ Debts(R, cfg, P, u, t)[a] = DebtInBase(R, P, a, u, t)
<1>1. CountedCollateral(R, cfg) \in SUBSET Assets /\ cfg.borrowing \in SUBSET Assets
  BY CountedAreAssets DEF Position
<1>2. ASSUME NEW a \in CountedCollateral(R, cfg)
      PROVE  /\ Values(R, cfg, P, u, t)[a] \in Nat
             /\ Values(R, cfg, P, u, t)[a] = CollateralInBase(R, P, a, u, t)
             /\ LoanValues(R, cfg, P, u, t)[a] \in Nat
             /\ LoanValues(R, cfg, P, u, t)[a]
                  = CollateralInBase(R, P, a, u, t) * R[a].configuration.ltv
             /\ Weights(R, cfg, P, u, t)[a] \in Nat
             /\ Weights(R, cfg, P, u, t)[a]
                  = CollateralInBase(R, P, a, u, t) * R[a].configuration.liquidationThreshold
  <2>1. a \in Assets
    BY <1>1
  <2>2. /\ CollateralInBase(R, P, a, u, t) \in Nat /\ R[a].configuration.ltv \in Nat
        /\ R[a].configuration.liquidationThreshold \in Nat
    BY <2>1, TermsAreNat, ConfigurationTypes DEF Position
  <2>3. /\ CollateralInBase(R, P, a, u, t) * R[a].configuration.ltv \in Nat
        /\ CollateralInBase(R, P, a, u, t) * R[a].configuration.liquidationThreshold \in Nat
    BY <2>2, ProductMonotone
  <2> QED
    BY <2>2, <2>3 DEF Values, LoanValues, Weights
<1>3. ASSUME NEW a \in cfg.borrowing
      PROVE  /\ Debts(R, cfg, P, u, t)[a] \in Nat
             /\ Debts(R, cfg, P, u, t)[a] = DebtInBase(R, P, a, u, t)
  <2>1. a \in Assets
    BY <1>1
  <2> QED
    BY <2>1, TermsAreNat DEF Debts
<1> QED
  BY <1>2, <1>3

(* The sums of a position are natural numbers.                             *)
LEMMA PositionSums ==
  ASSUME NEW R, NEW cfg, NEW P, NEW u, NEW t, Position(R, cfg, P, u, t)
  PROVE  /\ WorthOf(R, cfg, P, u, t) \in Nat /\ LendingOf(R, cfg, P, u, t) \in Nat
         /\ WeightOf(R, cfg, P, u, t) \in Nat /\ OwedOf(R, cfg, P, u, t) \in Nat
         /\ WorthOf(R, cfg, P, u, t) = 0 =>
              WeightOf(R, cfg, P, u, t) = 0 /\ LendingOf(R, cfg, P, u, t) = 0
<1> DEFINE A == CountedCollateral(R, cfg)
           v == Values(R, cfg, P, u, t)
           l == LoanValues(R, cfg, P, u, t)
           w == Weights(R, cfg, P, u, t)
           d == Debts(R, cfg, P, u, t)
<1>1. IsFiniteSet(A) /\ IsFiniteSet(cfg.borrowing) /\ A \in SUBSET Assets
  BY CountedAreAssets DEF Position
<1>2. /\ \A a \in A : v[a] \in Nat
      /\ \A a \in A : l[a] \in Nat
      /\ \A a \in A : w[a] \in Nat
      /\ \A a \in cfg.borrowing : d[a] \in Nat
  BY PositionTerms
<1>3. WorthOf(R, cfg, P, u, t) = Total(v, A) /\ LendingOf(R, cfg, P, u, t) = Total(l, A)
      /\ WeightOf(R, cfg, P, u, t) = Total(w, A) /\ OwedOf(R, cfg, P, u, t) = Total(d, cfg.borrowing)
  BY DEF WorthOf, LendingOf, WeightOf, OwedOf
<1>4. \A a \in A : v[a] = 0 => l[a] = 0 /\ w[a] = 0
  <2> SUFFICES ASSUME NEW a \in A, v[a] = 0
               PROVE  l[a] = 0 /\ w[a] = 0
    OBVIOUS
  <2>1. /\ R[a].configuration.ltv \in Nat
        /\ R[a].configuration.liquidationThreshold \in Nat
    BY <1>1, ConfigurationTypes DEF Position
  <2>2. CollateralInBase(R, P, a, u, t) = 0
    BY PositionTerms
  <2>3. l[a] = 0 * R[a].configuration.ltv /\ w[a] = 0 * R[a].configuration.liquidationThreshold
    BY <2>2, PositionTerms
  <2> QED
    BY <2>1, <2>3
<1> HIDE DEF A, v, l, w, d
<1>5. Total(v, A) \in Nat /\ Total(l, A) \in Nat /\ Total(w, A) \in Nat
      /\ Total(d, cfg.borrowing) \in Nat
  BY <1>1, <1>2, TotalBounds
<1>6. ASSUME Total(v, A) = 0
      PROVE  Total(w, A) = 0 /\ Total(l, A) = 0
  <2>1. \A a \in A : v[a] <= Total(v, A)
    BY <1>1, <1>2, TotalBounds
  <2>2. \A a \in A : v[a] = 0
    BY <2>1, <1>2, <1>6
  <2>3. (\A a \in A : l[a] = 0) /\ (\A a \in A : w[a] = 0)
    BY <2>2, <1>4
  <2> QED
    BY <1>1, <2>3, TotalOfZeros
<1> QED
  BY <1>3, <1>5, <1>6

(* The health factor is a number.                                          *)
LEMMA HealthIsNat ==
  ASSUME NEW R, NEW cfg, NEW P, NEW u, NEW t, Position(R, cfg, P, u, t), MAX_UINT \in Nat
  PROVE  HealthFactorOf(R, cfg, P, u, t) \in Nat
<1> DEFINE data == UserAccountData(R, cfg, P, u, t)
           c == data.collateral
           h == data.liquidationThreshold
           d == data.debt
           w == WeightOf(R, cfg, P, u, t)
<1>1. c = WorthOf(R, cfg, P, u, t) /\ d = OwedOf(R, cfg, P, u, t) /\ h = AverageOf(c, w)
  BY AccountSums
<1>2. c \in Nat /\ d \in Nat /\ w \in Nat /\ (c = 0 => w = 0)
  BY <1>1, PositionSums
<1>3. HealthFactorOf(R, cfg, P, u, t) = HealthFactor(c, d, h)
  BY DEF HealthFactorOf
<1> HIDE DEF data, w, c, h, d
<1>4. h \in Nat
  BY <1>1, <1>2, AverageBounds
<1>5. PercentMul(c, h) \in Nat
  BY <1>2, <1>4, PercentMulIsNat
<1>7. CASE d = 0
  BY <1>3, <1>7 DEF HealthFactor
<1>8. CASE d # 0
  <2> DEFINE v == PercentMul(c, h)
  <2>1. v * WAD \in Nat /\ d \div 2 \in Nat
    BY <1>2, <1>5, ScalesPositive, QuotientBounds
  <2>2. v * WAD + d \div 2 \in Nat
    BY <2>1
  <2>3. (v * WAD + d \div 2) \div d \in Nat
    BY <1>2, <1>8, <2>2, QuotientBounds
  <2> QED
    BY <1>3, <1>8, <2>3 DEF HealthFactor, WadDiv
<1> QED
  BY <1>7, <1>8

(* A health factor of one means that the weight covers the debt.           *)
LEMMA HealthyIsCovered ==
  ASSUME NEW R, NEW cfg, NEW P, NEW u, NEW t, Position(R, cfg, P, u, t),
         HealthFactorOf(R, cfg, P, u, t) >= WAD
  PROVE  Covers(WeightOf(R, cfg, P, u, t), OwedOf(R, cfg, P, u, t))
<1> DEFINE data == UserAccountData(R, cfg, P, u, t)
           c == data.collateral
           h == data.liquidationThreshold
           e == data.debt
           w == WeightOf(R, cfg, P, u, t)
<1>1. c = WorthOf(R, cfg, P, u, t) /\ e = OwedOf(R, cfg, P, u, t) /\ h = AverageOf(c, w)
  BY AccountSums
<1>2. HealthFactor(c, e, h) >= WAD
  BY DEF HealthFactorOf
<1> HIDE DEF data
<1>3. c \in Nat /\ e \in Nat /\ w \in Nat /\ (c = 0 => w = 0)
  BY <1>1, PositionSums
<1> HIDE DEF c, h, e, w
<1>4. h \in Nat /\ c * h <= w
  BY <1>1, <1>3, AverageBounds
<1>5. Covers(c * h, e)
  <2>1. PercentMul(c, h) = PercentMul(c * h, 1)
    <3>1. c * h \in Nat
      BY <1>3, <1>4, ProductMonotone
    <3>2. (c * h) * 1 = c * h
      BY <3>1
    <3> QED
      BY <3>2 DEF PercentMul
  <2> QED
    BY <2>1, <1>2 DEF HealthFactor, Covers
<1>6. c * h \in Nat
  BY <1>3, <1>4, ProductMonotone
<1>7. Covers(w, e)
  BY <1>3, <1>4, <1>5, <1>6, CoversMonotone
<1> QED
  BY <1>1, <1>7 DEF w

(* No token, no value.                                                     *)
LEMMA NoTokensNoWorth ==
  ASSUME NEW R, NEW cfg, NEW P, NEW u, NEW t, Position(R, cfg, P, u, t),
         NEW a \in CountedCollateral(R, cfg), R[a].aBalance[u] = 0
  PROVE  Weights(R, cfg, P, u, t)[a] = 0
<1> DEFINE i == NormalizedIncome(R[a], t)
           unit == R[a].configuration.unit
           th == R[a].configuration.liquidationThreshold
<1>1. a \in Assets
  BY CountedAreAssets DEF Position
<1>2. i \in Nat /\ P[a] \in Nat /\ unit \in Nat \ {0} /\ th \in Nat
  BY <1>1, TermsAreNat, ConfigurationTypes DEF Position
<1>3. RAY \in Nat \ {0}
  BY ScalesPositive
<1>4. BalanceOf(R[a], u, t) = RayMul(0, i)
  BY DEF BalanceOf
<1>5. Weights(R, cfg, P, u, t)[a] = ((P[a] * BalanceOf(R[a], u, t)) \div unit) * th
  BY PositionTerms DEF CollateralInBase
<1> HIDE DEF i, unit, th
<1>6. RayMul(0, i) = 0
  <2>1. 0 * i = 0 /\ RAY \div 2 \in Nat /\ RAY \div 2 < RAY
    BY <1>2, <1>3, QuotientBounds
  <2>2. (RAY \div 2) \div RAY = 0
    BY <1>3, <2>1, QuotientIs
  <2> QED
    BY <2>1, <2>2 DEF RayMul
<1>7. P[a] * BalanceOf(R[a], u, t) = 0
  BY <1>2, <1>4, <1>6
<1>8. 0 \div unit = 0
  BY <1>2, QuotientIs
<1> QED
  BY <1>2, <1>5, <1>7, <1>8

-----------------------------------------------------------------------------
(* Health and dust. Rounding can take from each token one unit scaled, one *)
(* when it is read, and one at the quotient by its decimals.               *)

(* The dust of one token: PoolProperties.DustWorth for given reserves.     *)
DustAt(R, P, a, index) ==
  (P[a] * (index \div (2 * RAY) + 1)) \div R[a].configuration.unit + 2
DebtDusts(R, cfg, P) ==
  [a \in cfg.borrowing |-> DustAt(R, P, a, R[a].variableBorrowIndex)]
CollateralDusts(R, cfg, P) ==
  [a \in CountedCollateral(R, cfg) |->
     DustAt(R, P, a, R[a].liquidityIndex) * R[a].configuration.liquidationThreshold]
DustOwed(R, cfg, P)   == Total(DebtDusts(R, cfg, P), cfg.borrowing)
DustWeight(R, cfg, P) == Total(CollateralDusts(R, cfg, P), CountedCollateral(R, cfg))

(* PoolProperties.HealthWithDust for given reserves and flags.             *)
HealthWithDustOf(R, cfg, P, u, t) ==
  LET data     == UserAccountData(R, cfg, P, u, t)
      weighted == data.collateral * (data.liquidationThreshold + 1) + DustWeight(R, cfg, P)
      owed     == data.debt - DustOwed(R, cfg, P)
  IN  HealthFactor(weighted, IF owed > 0 THEN owed ELSE 0, 1)

(* Dust is a natural number, and covers each of its terms.                 *)
LEMMA DustTypes ==
  ASSUME NEW R, NEW cfg, NEW P, NEW u, NEW t, Position(R, cfg, P, u, t)
  PROVE  /\ \A a \in Assets :
              /\ DustAt(R, P, a, R[a].variableBorrowIndex) \in Nat
              /\ DustAt(R, P, a, R[a].liquidityIndex) \in Nat
         /\ DustOwed(R, cfg, P) \in Nat
         /\ \A a \in cfg.borrowing :
              DustAt(R, P, a, R[a].variableBorrowIndex) <= DustOwed(R, cfg, P)
         /\ DustWeight(R, cfg, P) \in Nat
         /\ \A a \in CountedCollateral(R, cfg) :
              DustAt(R, P, a, R[a].liquidityIndex) * R[a].configuration.liquidationThreshold
                <= DustWeight(R, cfg, P)
<1>1. ASSUME NEW a \in Assets, NEW i \in Nat
      PROVE  DustAt(R, P, a, i) \in Nat
  <2>1. P[a] \in Nat /\ R[a].configuration.unit \in Nat \ {0}
    BY ConfigurationTypes DEF Position
  <2>2. HalfUnit(i) \in Nat
    BY HalfUnitIsNat
  <2>3. P[a] * HalfUnit(i) \in Nat
    BY <2>1, <2>2, ProductMonotone
  <2>4. DustAt(R, P, a, i) = (P[a] * HalfUnit(i)) \div R[a].configuration.unit + 2
    BY DEF DustAt, HalfUnit
  <2> QED
    BY <2>1, <2>3, <2>4, QuotientBounds
<1>2. \A a \in Assets : R[a].variableBorrowIndex \in Nat /\ R[a].liquidityIndex \in Nat
  BY ReserveFields DEF Position, AllWellFormed, WellFormed
<1>3. \A a \in Assets :
        /\ DustAt(R, P, a, R[a].variableBorrowIndex) \in Nat
        /\ DustAt(R, P, a, R[a].liquidityIndex) \in Nat
  BY <1>1, <1>2
<1>4. /\ CountedCollateral(R, cfg) \in SUBSET Assets /\ IsFiniteSet(CountedCollateral(R, cfg))
      /\ cfg.borrowing \in SUBSET Assets /\ IsFiniteSet(cfg.borrowing)
  BY CountedAreAssets DEF Position
<1>5. \A a \in cfg.borrowing :
        /\ DebtDusts(R, cfg, P)[a] = DustAt(R, P, a, R[a].variableBorrowIndex)
        /\ DebtDusts(R, cfg, P)[a] \in Nat
  BY <1>3, <1>4 DEF DebtDusts
<1>6. \A a \in CountedCollateral(R, cfg) :
        /\ CollateralDusts(R, cfg, P)[a]
             = DustAt(R, P, a, R[a].liquidityIndex) * R[a].configuration.liquidationThreshold
        /\ CollateralDusts(R, cfg, P)[a] \in Nat
  <2> SUFFICES ASSUME NEW a \in CountedCollateral(R, cfg)
               PROVE  /\ CollateralDusts(R, cfg, P)[a]
                           = DustAt(R, P, a, R[a].liquidityIndex)
                               * R[a].configuration.liquidationThreshold
                      /\ CollateralDusts(R, cfg, P)[a] \in Nat
    OBVIOUS
  <2>1. R[a].configuration.liquidationThreshold \in Nat
    BY <1>4, ConfigurationTypes DEF Position
  <2>2. DustAt(R, P, a, R[a].liquidityIndex) * R[a].configuration.liquidationThreshold \in Nat
    BY <2>1, <1>3, <1>4, ProductMonotone
  <2> QED
    BY <2>2 DEF CollateralDusts
<1>7. DustOwed(R, cfg, P) \in Nat
      /\ \A a \in cfg.borrowing : DebtDusts(R, cfg, P)[a] <= DustOwed(R, cfg, P)
  BY <1>4, <1>5, TotalBounds DEF DustOwed
<1>8. DustWeight(R, cfg, P) \in Nat
      /\ \A a \in CountedCollateral(R, cfg) :
           CollateralDusts(R, cfg, P)[a] <= DustWeight(R, cfg, P)
  BY <1>4, <1>6, TotalBounds DEF DustWeight
<1>9. \A a \in cfg.borrowing :
        DustAt(R, P, a, R[a].variableBorrowIndex) <= DustOwed(R, cfg, P)
  BY <1>5, <1>7
<1>10. \A a \in CountedCollateral(R, cfg) :
         DustAt(R, P, a, R[a].liquidityIndex) * R[a].configuration.liquidationThreshold
           <= DustWeight(R, cfg, P)
  BY <1>6, <1>8
<1> QED
  BY <1>3, <1>7, <1>8, <1>9, <1>10

(* The dust of a position, as sums.                                        *)
LEMMA DustSums ==
  ASSUME NEW R, NEW cfg, NEW P
  PROVE  /\ SumFunction(DebtDusts(R, cfg, P)) = DustOwed(R, cfg, P)
         /\ SumFunction(CollateralDusts(R, cfg, P)) = DustWeight(R, cfg, P)
<1>1. /\ DOMAIN DebtDusts(R, cfg, P) = cfg.borrowing
      /\ DOMAIN CollateralDusts(R, cfg, P) = CountedCollateral(R, cfg)
  BY DEF DebtDusts, CollateralDusts
<1>2. /\ SumFunction(DebtDusts(R, cfg, P)) = Total(DebtDusts(R, cfg, P), DOMAIN DebtDusts(R, cfg, P))
      /\ SumFunction(CollateralDusts(R, cfg, P))
           = Total(CollateralDusts(R, cfg, P), DOMAIN CollateralDusts(R, cfg, P))
  BY SumIsTotal
<1> QED
  BY ONLY <1>1, <1>2, Zenon DEF DustOwed, DustWeight

(* Covered up to the dust is healthy with the dust.                        *)
LEMMA CoveredIsHealthy ==
  ASSUME NEW R, NEW cfg, NEW P, NEW u, NEW t, Position(R, cfg, P, u, t),
         WAD <= MAX_UINT, NEW k \in Nat, NEW e \in Nat, Covers(k, e),
         LET c == WorthOf(R, cfg, P, u, t)
         IN  k <= c * (AverageOf(c, WeightOf(R, cfg, P, u, t)) + 1) + DustWeight(R, cfg, P),
         OwedOf(R, cfg, P, u, t) <= e + DustOwed(R, cfg, P)
  PROVE  HealthWithDustOf(R, cfg, P, u, t) >= WAD
<1> DEFINE data == UserAccountData(R, cfg, P, u, t)
           c == WorthOf(R, cfg, P, u, t)
           w == WeightOf(R, cfg, P, u, t)
           h == AverageOf(c, w)
           d == OwedOf(R, cfg, P, u, t)
           dw == DustWeight(R, cfg, P)
           do == DustOwed(R, cfg, P)
           less == IF d - do > 0 THEN d - do ELSE 0
           m == c * (h + 1) + dw
<1>1. data.collateral = c /\ data.debt = d /\ data.liquidationThreshold = h
  BY AccountSums
<1>2. HealthWithDustOf(R, cfg, P, u, t) = HealthFactor(m, less, 1)
  <2> HIDE DEF data, c, w, h, d, dw, do
  <2> QED
    BY <1>1, Zenon DEF HealthWithDustOf, data, dw, do
<1>3. c \in Nat /\ w \in Nat /\ d \in Nat /\ dw \in Nat /\ do \in Nat /\ (c = 0 => w = 0)
  BY PositionSums, DustTypes
<1>4. h \in Nat
  BY <1>3, AverageBounds
<1>5. k <= m /\ d <= e + do
  OBVIOUS
<1> HIDE DEF data, c, w, h, d, dw, do
<1>6. c * (h + 1) \in Nat
  BY <1>3, <1>4, ProductMonotone
<1>7. less \in Nat /\ less <= e /\ m \in Nat
  BY <1>3, <1>5, <1>6
<1> HIDE DEF less, m
<1>8. Covers(m, less)
  BY <1>5, <1>7, CoversMonotone
<1>9. HealthFactor(m, less, 1) >= WAD
  BY <1>8 DEF HealthFactor, Covers
<1> QED
  BY <1>2, <1>9

(* The reserves after a call that does not let time pass.                  *)
SameTerms(R, S, t) ==
  \A a \in Assets :
    /\ S[a].configuration = R[a].configuration
    /\ NormalizedIncome(S[a], t) = NormalizedIncome(R[a], t)
    /\ NormalizedDebt(S[a], t) <= NormalizedDebt(R[a], t)

(* On the same terms, more aTokens are worth more, and less debt less.     *)
LEMMA MoreTokensAreWorthMore ==
  ASSUME NEW R, NEW cfg, NEW S, NEW new, NEW P, NEW u, NEW t,
         Position(R, cfg, P, u, t), Position(S, new, P, u, t), SameTerms(R, S, t),
         NEW a \in Assets
  PROVE  /\ R[a].aBalance[u] <= S[a].aBalance[u] =>
              CollateralInBase(R, P, a, u, t) <= CollateralInBase(S, P, a, u, t)
         /\ S[a].dBalance[u] <= R[a].dBalance[u] =>
              DebtInBase(S, P, a, u, t) <= DebtInBase(R, P, a, u, t)
<1> DEFINE i == NormalizedIncome(R[a], t)
           d == NormalizedDebt(R[a], t)
           e == NormalizedDebt(S[a], t)
           unit == R[a].configuration.unit
<1>1. /\ R[a].aBalance[u] \in Nat /\ R[a].dBalance[u] \in Nat
      /\ S[a].aBalance[u] \in Nat /\ S[a].dBalance[u] \in Nat
      /\ i \in Nat /\ d \in Nat /\ e \in Nat /\ P[a] \in Nat
      /\ BalanceOf(R[a], u, t) \in Nat /\ DebtOf(R[a], u, t) \in Nat
      /\ BalanceOf(S[a], u, t) \in Nat /\ DebtOf(S[a], u, t) \in Nat
  BY TermsAreNat
<1>2. NormalizedIncome(S[a], t) = i /\ e <= d /\ S[a].configuration.unit = unit
  BY DEF SameTerms
<1>3. unit \in Nat \ {0}
  BY ConfigurationTypes DEF Position
<1> HIDE DEF i, d, e, unit
<1>4. ASSUME R[a].aBalance[u] <= S[a].aBalance[u]
      PROVE  CollateralInBase(R, P, a, u, t) <= CollateralInBase(S, P, a, u, t)
  <2>1. BalanceOf(R[a], u, t) <= BalanceOf(S[a], u, t)
    BY <1>1, <1>2, <1>4, RayMulMonotone DEF BalanceOf, i
  <2>2. /\ P[a] * BalanceOf(R[a], u, t) \in Nat /\ P[a] * BalanceOf(S[a], u, t) \in Nat
        /\ P[a] * BalanceOf(R[a], u, t) <= P[a] * BalanceOf(S[a], u, t)
    BY <1>1, <2>1, ProductMonotone
  <2>3. (P[a] * BalanceOf(R[a], u, t)) \div unit <= (P[a] * BalanceOf(S[a], u, t)) \div unit
    BY <1>3, <2>2, QuotientMonotone
  <2> QED
    BY <1>2, <2>3 DEF CollateralInBase, unit
<1>5. ASSUME S[a].dBalance[u] <= R[a].dBalance[u]
      PROVE  DebtInBase(S, P, a, u, t) <= DebtInBase(R, P, a, u, t)
  <2>1. /\ RayMul(S[a].dBalance[u], e) <= RayMul(R[a].dBalance[u], e)
        /\ RayMul(R[a].dBalance[u], e) <= RayMul(R[a].dBalance[u], d)
        /\ RayMul(R[a].dBalance[u], e) \in Nat
    BY <1>1, <1>2, <1>5, RayMulMonotone, RayMulIsNat
  <2>2. DebtOf(S[a], u, t) = RayMul(S[a].dBalance[u], e)
        /\ DebtOf(R[a], u, t) = RayMul(R[a].dBalance[u], d)
    BY DEF DebtOf, d, e
  <2>3. DebtOf(S[a], u, t) <= DebtOf(R[a], u, t)
    BY <1>1, <2>1, <2>2
  <2>4. /\ P[a] * DebtOf(R[a], u, t) \in Nat /\ P[a] * DebtOf(S[a], u, t) \in Nat
        /\ P[a] * DebtOf(S[a], u, t) <= P[a] * DebtOf(R[a], u, t)
    BY <1>1, <2>3, ProductMonotone
  <2>5. (P[a] * DebtOf(S[a], u, t)) \div unit <= (P[a] * DebtOf(R[a], u, t)) \div unit
    BY <1>3, <2>4, QuotientMonotone
  <2> QED
    BY <1>2, <2>5 DEF DebtInBase, unit
<1> QED
  BY <1>4, <1>5

(* What counts afterwards of one asset's weight, or counted before of what *)
(* is owed in it.                                                          *)
WeightIn(R, cfg, P, u, t, a) ==
  IF a \in CountedCollateral(R, cfg) THEN Weights(R, cfg, P, u, t)[a] ELSE 0
OwedIn(R, cfg, P, u, t, a) ==
  IF a \in cfg.borrowing THEN Debts(R, cfg, P, u, t)[a] ELSE 0

(* The weight is kept, up to the slack k at one asset z.                   *)
LEMMA WeightKept ==
  ASSUME NEW R, NEW cfg, NEW S, NEW new, NEW P, NEW u, NEW t,
         Position(R, cfg, P, u, t), Position(S, new, P, u, t), SameTerms(R, S, t),
         NEW z, NEW k \in Nat,
         \A a \in CountedCollateral(R, cfg) :
           \/ a \in new.collateral /\ R[a].aBalance[u] <= S[a].aBalance[u]
           \/ a = z /\ Weights(R, cfg, P, u, t)[a] <= WeightIn(S, new, P, u, t, a) + k
  PROVE  WeightOf(R, cfg, P, u, t) <= WeightOf(S, new, P, u, t) + k
<1> DEFINE A == CountedCollateral(R, cfg)
           B == CountedCollateral(S, new)
           f == Weights(R, cfg, P, u, t)
           g == Weights(S, new, P, u, t)
<1>1. IsFiniteSet(A) /\ A \in SUBSET Assets /\ IsFiniteSet(B)
  BY CountedAreAssets DEF Position
<1>2. (\A a \in A : f[a] \in Nat) /\ (\A a \in B : g[a] \in Nat)
  BY PositionTerms
<1>3. ASSUME NEW a \in A, a \in new.collateral, R[a].aBalance[u] <= S[a].aBalance[u]
      PROVE  a \in B /\ f[a] <= g[a]
  <2>1. a \in Assets
    BY <1>1
  <2>2. S[a].configuration = R[a].configuration
    BY <2>1 DEF SameTerms
  <2>3. a \in B
    BY <1>3, <2>2 DEF CountedCollateral
  <2>4. CollateralInBase(R, P, a, u, t) <= CollateralInBase(S, P, a, u, t)
    BY <1>3, <2>1, MoreTokensAreWorthMore
  <2>5. /\ CollateralInBase(R, P, a, u, t) \in Nat /\ CollateralInBase(S, P, a, u, t) \in Nat
        /\ R[a].configuration.liquidationThreshold \in Nat
    BY <2>1, TermsAreNat, ConfigurationTypes DEF Position
  <2>6. CollateralInBase(R, P, a, u, t) * R[a].configuration.liquidationThreshold
          <= CollateralInBase(S, P, a, u, t) * R[a].configuration.liquidationThreshold
    BY <2>4, <2>5
  <2>7. /\ f[a] = CollateralInBase(R, P, a, u, t) * R[a].configuration.liquidationThreshold
        /\ g[a] = CollateralInBase(S, P, a, u, t) * S[a].configuration.liquidationThreshold
    BY <2>3, PositionTerms
  <2> QED
    BY <2>2, <2>3, <2>6, <2>7
<1>4. \A a \in A \ {z} : a \in B /\ f[a] <= g[a]
  BY <1>3
<1>5. ASSUME z \in A
      PROVE  f[z] <= (IF z \in B THEN g[z] ELSE 0) + k
  <2>1. CASE z \in new.collateral /\ R[z].aBalance[u] <= S[z].aBalance[u]
    <3>1. z \in B /\ f[z] <= g[z]
      BY <1>3, <1>5, <2>1
    <3> QED
      BY <3>1, <1>2, <1>5
  <2>2. CASE f[z] <= WeightIn(S, new, P, u, t, z) + k
    BY <2>2, <1>5 DEF WeightIn
  <2> QED
    BY <1>5, <2>1, <2>2
<1>6. WeightOf(R, cfg, P, u, t) = Total(f, A) /\ WeightOf(S, new, P, u, t) = Total(g, B)
  BY DEF WeightOf
<1> HIDE DEF A, B, f, g
<1>7. Total(f, A) <= Total(g, B) + k
  BY <1>1, <1>2, <1>4, <1>5, TotalMonotoneBut
<1> QED
  BY <1>6, <1>7

(* The debt is no more, up to the slack k at one asset z.                  *)
LEMMA OwedKept ==
  ASSUME NEW R, NEW cfg, NEW S, NEW new, NEW P, NEW u, NEW t,
         Position(R, cfg, P, u, t), Position(S, new, P, u, t), SameTerms(R, S, t),
         NEW z, NEW k \in Nat,
         \A a \in new.borrowing :
           \/ a \in cfg.borrowing /\ S[a].dBalance[u] <= R[a].dBalance[u]
           \/ a = z /\ Debts(S, new, P, u, t)[a] <= OwedIn(R, cfg, P, u, t, a) + k
  PROVE  OwedOf(S, new, P, u, t) <= OwedOf(R, cfg, P, u, t) + k
<1> DEFINE A == new.borrowing
           B == cfg.borrowing
           f == Debts(S, new, P, u, t)
           g == Debts(R, cfg, P, u, t)
<1>1. IsFiniteSet(A) /\ A \in SUBSET Assets /\ IsFiniteSet(B)
  BY CountedAreAssets DEF Position
<1>2. (\A a \in A : f[a] \in Nat) /\ (\A a \in B : g[a] \in Nat)
  BY PositionTerms
<1>3. ASSUME NEW a \in A, a \in B, S[a].dBalance[u] <= R[a].dBalance[u]
      PROVE  f[a] <= g[a]
  <2>1. a \in Assets
    BY <1>1
  <2>2. DebtInBase(S, P, a, u, t) <= DebtInBase(R, P, a, u, t)
    BY <1>3, <2>1, MoreTokensAreWorthMore
  <2>3. f[a] = DebtInBase(S, P, a, u, t) /\ g[a] = DebtInBase(R, P, a, u, t)
    BY <1>3, PositionTerms
  <2> QED
    BY <2>2, <2>3
<1>4. \A a \in A \ {z} : a \in B /\ f[a] <= g[a]
  BY <1>3
<1>5. ASSUME z \in A
      PROVE  f[z] <= (IF z \in B THEN g[z] ELSE 0) + k
  <2>1. CASE z \in B /\ S[z].dBalance[u] <= R[z].dBalance[u]
    <3>1. f[z] <= g[z]
      BY <1>3, <1>5, <2>1
    <3> QED
      BY <3>1, <1>2, <1>5, <2>1
  <2>2. CASE f[z] <= OwedIn(R, cfg, P, u, t, z) + k
    BY <2>2, <1>5 DEF OwedIn
  <2> QED
    BY <1>5, <2>1, <2>2
<1>6. OwedOf(S, new, P, u, t) = Total(f, A) /\ OwedOf(R, cfg, P, u, t) = Total(g, B)
  BY DEF OwedOf
<1> HIDE DEF A, B, f, g
<1>7. Total(f, A) <= Total(g, B) + k
  BY <1>1, <1>2, <1>4, <1>5, TotalMonotoneBut
<1> QED
  BY <1>6, <1>7

(* The lower bound CoveredIsHealthy asks for. *)
LEMMA WeightIsCounted ==
  ASSUME NEW R, NEW cfg, NEW P, NEW u, NEW t, Position(R, cfg, P, u, t),
         NEW k \in Nat, k <= WeightOf(R, cfg, P, u, t) + DustWeight(R, cfg, P)
  PROVE  LET c == WorthOf(R, cfg, P, u, t)
         IN  k <= c * (AverageOf(c, WeightOf(R, cfg, P, u, t)) + 1) + DustWeight(R, cfg, P)
<1> DEFINE c == WorthOf(R, cfg, P, u, t)
           w == WeightOf(R, cfg, P, u, t)
           h == AverageOf(c, w)
           dw == DustWeight(R, cfg, P)
<1>1. c \in Nat /\ w \in Nat /\ dw \in Nat /\ (c = 0 => w = 0)
  BY PositionSums, DustTypes
<1>2. k <= w + dw
  OBVIOUS
<1> HIDE DEF c, w, dw
<1>3. h \in Nat /\ w <= c * (h + 1)
  BY <1>1, AverageBounds
<1>4. c * (h + 1) \in Nat
  BY <1>1, <1>3, ProductMonotone
<1> HIDE DEF h
<1>5. k <= c * (h + 1) + dw
  BY <1>1, <1>2, <1>3, <1>4
<1> QED
  BY <1>5 DEF c, w, h, dw

(* The same with the weight itself for the rounded average.                *)
LEMMA EnoughWeight ==
  ASSUME NEW R, NEW cfg, NEW P, NEW u, NEW t, Position(R, cfg, P, u, t), WAD <= MAX_UINT,
         NEW k \in Nat, NEW e \in Nat, Covers(k, e),
         k <= WeightOf(R, cfg, P, u, t) + DustWeight(R, cfg, P),
         OwedOf(R, cfg, P, u, t) <= e + DustOwed(R, cfg, P)
  PROVE  HealthWithDustOf(R, cfg, P, u, t) >= WAD
BY WeightIsCounted, CoveredIsHealthy

-----------------------------------------------------------------------------
(* What a call may do to a healthy position: leave it no worse, decrease   *)
(* its collateral as balanceDecreaseAllowed allows, or borrow within its   *)
(* loan to value.                                                          *)

(* Another's call leaves this user's position no worse.                    *)
NoWorse(R, cfg, S, new, u) ==
  /\ \A a \in cfg.collateral : a \in new.collateral /\ R[a].aBalance[u] <= S[a].aBalance[u]
  /\ \A a \in new.borrowing : a \in cfg.borrowing /\ S[a].dBalance[u] <= R[a].dBalance[u]

(* Who keeps its tokens and flags, and owes no more, stays healthy.        *)
LEMMA NoWorseIsHealthy ==
  ASSUME NEW R, NEW cfg, NEW S, NEW new, NEW P, NEW u, NEW t,
         Position(R, cfg, P, u, t), Position(S, new, P, u, t), SameTerms(R, S, t),
         WAD <= MAX_UINT, NoWorse(R, cfg, S, new, u),
         HealthFactorOf(R, cfg, P, u, t) >= WAD
  PROVE  HealthWithDustOf(S, new, P, u, t) >= WAD
<1> DEFINE w == WeightOf(R, cfg, P, u, t)
           v == WeightOf(S, new, P, u, t)
           d == OwedOf(R, cfg, P, u, t)
           e == OwedOf(S, new, P, u, t)
<1>1. Covers(w, d)
  BY HealthyIsCovered
<1>2. w \in Nat /\ v \in Nat /\ d \in Nat /\ e \in Nat
      /\ DustWeight(S, new, P) \in Nat /\ DustOwed(S, new, P) \in Nat
  BY PositionSums, DustTypes
<1>3. w <= v + 0
  <2>1. \A a \in CountedCollateral(R, cfg) : a \in cfg.collateral
    BY DEF CountedCollateral
  <2>2. \A a \in CountedCollateral(R, cfg) :
          a \in new.collateral /\ R[a].aBalance[u] <= S[a].aBalance[u]
    BY <2>1 DEF NoWorse
  <2> QED
    BY <2>2, WeightKept
<1>4. e <= d + 0
  BY OwedKept DEF NoWorse
<1> HIDE DEF w, v, d, e
<1>5. w <= v + DustWeight(S, new, P) /\ e <= d + DustOwed(S, new, P)
  BY <1>2, <1>3, <1>4
<1> QED
  BY <1>1, <1>2, <1>5, EnoughWeight DEF w, v, d, e

(* A decrease the validation allowed. *)
LEMMA AllowedDecrease ==
  ASSUME NEW R, NEW cfg, NEW S, NEW new, NEW P, NEW u, NEW t,
         Position(R, cfg, P, u, t), Position(S, new, P, u, t), SameTerms(R, S, t),
         WAD <= MAX_UINT, HealthFactorOf(R, cfg, P, u, t) >= WAD,
         NEW a \in Assets, NEW x \in Nat, BalanceDecreaseAllowed(R, cfg, P, a, u, x, t),
         \A b \in new.borrowing : b \in cfg.borrowing /\ S[b].dBalance[u] <= R[b].dBalance[u],
         \A b \in cfg.collateral \ {a} :
           b \in new.collateral /\ R[b].aBalance[u] <= S[b].aBalance[u],
         a \in CountedCollateral(R, cfg) =>
           Weights(R, cfg, P, u, t)[a]
             <= WeightIn(S, new, P, u, t, a) + DustWeight(S, new, P)
                  + ((P[a] * x) \div R[a].configuration.unit)
                      * R[a].configuration.liquidationThreshold
  PROVE  HealthWithDustOf(S, new, P, u, t) >= WAD
<1> DEFINE data == UserAccountData(R, cfg, P, u, t)
           c == data.collateral
           h == data.liquidationThreshold
           w == WeightOf(R, cfg, P, u, t)
           d == data.debt
           e == OwedOf(S, new, P, u, t)
           v == WeightOf(S, new, P, u, t)
           dw == DustWeight(S, new, P)
           do == DustOwed(S, new, P)
           th == R[a].configuration.liquidationThreshold
           dec == (P[a] * x) \div R[a].configuration.unit
           left == c - dec
           rest == c * h - dec * th
<1>1. c = WorthOf(R, cfg, P, u, t) /\ d = OwedOf(R, cfg, P, u, t) /\ h = AverageOf(c, w)
  BY AccountSums
<1>2. /\ c \in Nat /\ d \in Nat /\ w \in Nat /\ e \in Nat /\ v \in Nat /\ (c = 0 => w = 0)
      /\ dw \in Nat /\ do \in Nat
  <2>1. /\ WorthOf(R, cfg, P, u, t) \in Nat /\ OwedOf(R, cfg, P, u, t) \in Nat
        /\ w \in Nat /\ (WorthOf(R, cfg, P, u, t) = 0 => w = 0)
    BY PositionSums
  <2>2. e \in Nat /\ v \in Nat
    BY PositionSums
  <2>3. dw \in Nat /\ do \in Nat
    BY DustTypes
  <2> QED
    BY <1>1, <2>1, <2>2, <2>3
<1>3. th \in Nat /\ dec \in Nat /\ dec * th \in Nat
  <2>1. th \in Nat /\ P[a] \in Nat /\ R[a].configuration.unit \in Nat \ {0}
    BY ConfigurationTypes DEF Position
  <2>2. P[a] * x \in Nat
    BY <2>1, ProductMonotone
  <2>3. dec \in Nat
    BY <2>1, <2>2, QuotientBounds
  <2> QED
    BY <2>1, <2>3, ProductMonotone
<1>4. e <= d
  <2>1. e <= OwedOf(R, cfg, P, u, t) + 0
    BY OwedKept
  <2> QED
    BY <2>1, <1>1, <1>2
<1>5. CASE a \notin CountedCollateral(R, cfg)
  <2>1. \A b \in CountedCollateral(R, cfg) :
          b \in new.collateral /\ R[b].aBalance[u] <= S[b].aBalance[u]
    BY <1>5 DEF CountedCollateral
  <2>2. w <= v + 0
    BY <2>1, WeightKept
  <2>3. Covers(w, d)
    BY <1>1, HealthyIsCovered
  <2> HIDE DEF data, c, h, w, d, e, v, dw, do, th, dec
  <2>4. w <= v + dw /\ e <= d + do
    BY <1>2, <1>4, <2>2
  <2> QED
    BY <1>2, <2>3, <2>4, EnoughWeight DEF w, e, v, dw, do
<1>6. CASE d = 0
  <2>1. Covers(0, 0)
    BY DEF Covers
  <2> HIDE DEF data, c, h, w, d, e, v, dw, do, th, dec
  <2>2. 0 <= v + dw /\ e <= 0 + do
    BY <1>2, <1>4, <1>6
  <2> QED
    BY <2>1, <2>2, EnoughWeight DEF e, v, dw, do
<1>7. CASE a \in CountedCollateral(R, cfg) /\ d # 0
  <2>1. cfg.borrowing # {}
    <3>1. d # 0 /\ OwedOf(R, cfg, P, u, t) = Total(Debts(R, cfg, P, u, t), cfg.borrowing)
      BY <1>7 DEF OwedOf
    <3>2. Total(Debts(R, cfg, P, u, t), {}) = 0
      BY TotalOfNone
    <3> HIDE DEF d
    <3> QED
      BY <1>1, <3>1, <3>2
  <2>2. a \in cfg.collateral /\ th # 0
    BY <1>7 DEF CountedCollateral
  <2>3. left > 0 /\ rest >= 0 /\ HealthFactor(left, d, rest \div left) >= WAD
    <3> HIDE DEF data
    <3>1. \/ cfg.borrowing = {} \/ a \notin cfg.collateral
          \/ th = 0
          \/ d = 0
          \/ left > 0 /\ rest >= 0 /\ HealthFactor(left, d, rest \div left) >= WAD
      BY DEF BalanceDecreaseAllowed, data
    <3> QED
      BY <1>7, <2>1, <2>2, <3>1
  <2>4. w <= v + (dw + dec * th)
    <3>1. dw + dec * th \in Nat
      BY <1>2, <1>3
    <3>2. Weights(R, cfg, P, u, t)[a] <= WeightIn(S, new, P, u, t, a) + (dw + dec * th)
      <4>1. WeightIn(S, new, P, u, t, a) \in Nat
        BY PositionTerms DEF WeightIn
      <4>2. Weights(R, cfg, P, u, t)[a] <= WeightIn(S, new, P, u, t, a) + dw + dec * th
        BY <1>7
      <4>3. Weights(R, cfg, P, u, t)[a] \in Nat
        BY <1>7, PositionTerms
      <4> HIDE DEF dw, dec, th
      <4> QED
        BY <4>1, <4>2, <4>3, <1>2, <1>3
    <3>3. \A b \in CountedCollateral(R, cfg) :
            \/ b \in new.collateral /\ R[b].aBalance[u] <= S[b].aBalance[u]
            \/ b = a /\ Weights(R, cfg, P, u, t)[b]
                          <= WeightIn(S, new, P, u, t, b) + (dw + dec * th)
      BY <3>2 DEF CountedCollateral
    <3> HIDE DEF dw, dec, th
    <3> QED
      BY <3>1, <3>3, WeightKept
  <2> HIDE DEF data, w, v, e, dw, do, th, dec
  <2> HIDE DEF c, d, h
  <2>5. h \in Nat /\ c * h <= w /\ c * h \in Nat
    <3>1. h \in Nat /\ c * h <= w
      BY <1>1, <1>2, AverageBounds
    <3> QED
      BY <3>1, <1>2, ProductMonotone
  <2>6. left \in Nat \ {0} /\ rest \in Nat
    BY <1>2, <1>3, <2>3, <2>5
  <2>7. rest <= v + dw
    BY <1>2, <1>3, <2>4, <2>5
  <2> HIDE DEF left, rest
  <2> DEFINE q == rest \div left
             k == left * q
  <2>8. q \in Nat /\ k \in Nat /\ k <= rest
    <3>1. q \in Nat /\ q * left <= rest
      BY <2>6, QuotientBounds
    <3> HIDE DEF q
    <3>2. left * q = q * left /\ left * q \in Nat
      BY <3>1, <2>6
    <3> QED
      BY <3>1, <3>2
  <2>9. Covers(k, d)
    <3>1. WadDiv(PercentMul(left, q), d) >= WAD
      BY <1>7, <2>3 DEF HealthFactor
    <3> HIDE DEF q
    <3>2. k * 1 = k
      BY <2>8
    <3>3. PercentMul(left, q) = PercentMul(k, 1)
      BY <3>2 DEF PercentMul
    <3> QED
      BY <3>1, <3>3 DEF Covers
  <2> HIDE DEF q, k
  <2>10. k <= v + dw /\ e <= d + do
    BY <1>2, <1>4, <2>6, <2>7, <2>8
  <2> QED
    BY <1>2, <2>8, <2>9, <2>10, EnoughWeight DEF v, e, dw, do
<1> QED
  BY <1>5, <1>6, <1>7

(* A burn of x takes from the collateral what x is worth, and dust.        *)
LEMMA WeightAfterBurn ==
  ASSUME NEW R, NEW cfg, NEW S, NEW new, NEW P, NEW u, NEW t,
         Position(R, cfg, P, u, t), Position(S, new, P, u, t), SameTerms(R, S, t),
         NEW a \in Assets, NEW x \in Nat, NEW s \in Nat,
         S[a].liquidityIndex = NormalizedIncome(R[a], t),
         R[a].aBalance[u] <= s, RayDiv(x, S[a].liquidityIndex) <= s,
         S[a].aBalance[u] = s - RayDiv(x, S[a].liquidityIndex),
         a \in CountedCollateral(R, cfg), a \in new.collateral
  PROVE  Weights(R, cfg, P, u, t)[a]
           <= WeightIn(S, new, P, u, t, a) + DustWeight(S, new, P)
                + ((P[a] * x) \div R[a].configuration.unit)
                    * R[a].configuration.liquidationThreshold
<1> DEFINE i == S[a].liquidityIndex
           unit == R[a].configuration.unit
           th == R[a].configuration.liquidationThreshold
           before == BalanceOf(R[a], u, t)
           after == BalanceOf(S[a], u, t)
           half == HalfUnit(i)
           vb == CollateralInBase(R, P, a, u, t)
           va == CollateralInBase(S, P, a, u, t)
           dec == (P[a] * x) \div unit
           dust == DustAt(S, P, a, i)
           dw == DustWeight(S, new, P)
<1>1. /\ i \in Nat /\ i >= RAY /\ NormalizedIncome(S[a], t) = i
      /\ R[a].aBalance[u] \in Nat /\ S[a].aBalance[u] \in Nat
      /\ before \in Nat /\ after \in Nat /\ P[a] \in Nat /\ vb \in Nat /\ va \in Nat
  BY TermsAreNat DEF SameTerms
<1>2. unit \in Nat \ {0} /\ th \in Nat /\ S[a].configuration = R[a].configuration
  BY ConfigurationTypes DEF Position, SameTerms
<1>3. RAY \in Nat \ {0} /\ i \in Nat \ {0}
  BY <1>1, ScalesPositive
<1>4. half \in Nat
  BY <1>1, HalfUnitIsNat
<1>5. before <= after + x + half
  <2>1. RayMul(s - RayDiv(x, i), i) >= RayMul(s, i) - x - half
    BY <1>3, AmountIsWorthScaled
  <2>2. RayMul(R[a].aBalance[u], i) <= RayMul(s, i)
    BY <1>1, RayMulMonotone
  <2>3. before = RayMul(R[a].aBalance[u], i) /\ after = RayMul(s - RayDiv(x, i), i)
    BY <1>1 DEF BalanceOf
  <2>4. RayMul(s, i) \in Nat
    BY <1>1, RayMulIsNat
  <2> HIDE DEF before, after, half, i
  <2> QED
    BY <1>1, <1>4, <2>1, <2>2, <2>3, <2>4
<1>6. vb = (P[a] * before) \div unit /\ va = (P[a] * after) \div unit
  BY <1>2 DEF CollateralInBase
<1>7. dust = (P[a] * half) \div unit + 2
  BY <1>2 DEF DustAt, HalfUnit
<1>8. dust \in Nat
  BY DustTypes
<1>9. a \in CountedCollateral(S, new)
  BY <1>2 DEF CountedCollateral
<1>10. dust * th <= dw /\ dw \in Nat
  <2>1. dust * S[a].configuration.liquidationThreshold <= dw /\ dw \in Nat
    BY <1>9, DustTypes
  <2> QED
    BY <1>2, <2>1
<1>11. /\ WeightIn(S, new, P, u, t, a) = va * th
       /\ Weights(R, cfg, P, u, t)[a] = vb * th
  <2>1. /\ Weights(S, new, P, u, t)[a] = va * S[a].configuration.liquidationThreshold
        /\ Weights(R, cfg, P, u, t)[a] = vb * th
    BY <1>9, PositionTerms
  <2> QED
    BY <1>2, <1>9, <2>1 DEF WeightIn
<1> HIDE DEF i, unit, th, before, after, half, vb, va, dust, dw
<1>12. vb <= va + dec + dust /\ dec \in Nat
  <2> DEFINE pb == P[a] * before
             pa == P[a] * after
             px == P[a] * x
             ph == P[a] * half
  <2>1. pb \in Nat /\ pa \in Nat /\ px \in Nat /\ ph \in Nat
    BY <1>1, <1>4, ProductMonotone
  <2>2. pb <= pa + px + ph
    <3>1. after + x + half \in Nat
      BY <1>1, <1>4
    <3>2. P[a] * before <= P[a] * (after + x + half)
      BY <1>1, <1>5, <3>1, ProductMonotone
    <3>3. P[a] * (after + x + half) = P[a] * after + P[a] * x + P[a] * half
      BY <1>1, <1>4
    <3> QED
      BY <3>2, <3>3
  <2>3. vb = pb \div unit /\ va = pa \div unit /\ dust = ph \div unit + 2
    BY <1>6, <1>7
  <2>4. dec = px \div unit
    OBVIOUS
  <2> HIDE DEF pb, pa, px, ph, dec
  <2>5. pb \div unit <= (pa \div unit) + (px \div unit) + (ph \div unit) + 2
    BY <1>2, <2>1, <2>2, ThreeQuotients
  <2>6. px \div unit \in Nat /\ ph \div unit \in Nat
    BY <1>2, <2>1, QuotientBounds
  <2> QED
    BY <1>1, <2>3, <2>4, <2>5, <2>6
<1> HIDE DEF dec
<1>13. vb * th <= va * th + dw + dec * th
  <2>1. va + dec + dust \in Nat
    BY <1>1, <1>8, <1>12
  <2>2. th * vb <= th * (va + dec + dust)
    BY <1>1, <1>2, <1>12, <2>1, ProductMonotone
  <2>3. th * (va + dec + dust) = va * th + dec * th + dust * th /\ th * vb = vb * th
    BY <1>1, <1>2, <1>8, <1>12
  <2>4. va * th \in Nat /\ dec * th \in Nat /\ dust * th \in Nat /\ vb * th \in Nat
    BY <1>1, <1>2, <1>8, <1>12, ProductMonotone
  <2> QED
    BY <1>10, <2>2, <2>3, <2>4
<1> QED
  BY <1>11, <1>13 DEF dw, dec, unit, th

(* All of it is worth all of its weight. *)
LEMMA WeightOfAll ==
  ASSUME NEW R, NEW cfg, NEW S, NEW new, NEW P, NEW u, NEW t,
         Position(R, cfg, P, u, t), Position(S, new, P, u, t),
         NEW a \in Assets, a \in CountedCollateral(R, cfg)
  PROVE  Weights(R, cfg, P, u, t)[a]
           <= WeightIn(S, new, P, u, t, a) + DustWeight(S, new, P)
                + ((P[a] * BalanceOf(R[a], u, t)) \div R[a].configuration.unit)
                    * R[a].configuration.liquidationThreshold
<1> DEFINE w == Weights(R, cfg, P, u, t)[a]
           all == ((P[a] * BalanceOf(R[a], u, t)) \div R[a].configuration.unit)
                    * R[a].configuration.liquidationThreshold
<1>1. w = all /\ w \in Nat
  BY PositionTerms DEF CollateralInBase
<1>2. WeightIn(S, new, P, u, t, a) \in Nat
  BY PositionTerms DEF WeightIn
<1>3. DustWeight(S, new, P) \in Nat
  BY DustTypes
<1> HIDE DEF w, all
<1>4. w <= WeightIn(S, new, P, u, t, a) + DustWeight(S, new, P) + all
  BY <1>1, <1>2, <1>3
<1> QED
  BY <1>4 DEF w, all

(* Dropping the flag of a reserve that no token is left in harms nobody.   *)
LEMMA EmptiedIsHealthy ==
  ASSUME NEW S, NEW cfg, NEW new, NEW P, NEW u, NEW t,
         Position(S, cfg, P, u, t), Position(S, new, P, u, t),
         WAD <= MAX_UINT, HealthFactorOf(S, cfg, P, u, t) >= WAD,
         new.borrowing = cfg.borrowing, NEW z \in Assets,
         \A a \in cfg.collateral : a \in new.collateral \/ (a = z /\ S[a].aBalance[u] = 0)
  PROVE  HealthWithDustOf(S, new, P, u, t) >= WAD
<1> DEFINE w == WeightOf(S, cfg, P, u, t)
           v == WeightOf(S, new, P, u, t)
           d == OwedOf(S, cfg, P, u, t)
           e == OwedOf(S, new, P, u, t)
<1>1. Covers(w, d)
  BY HealthyIsCovered
<1>2. /\ w \in Nat /\ v \in Nat /\ d \in Nat /\ e \in Nat
      /\ DustWeight(S, new, P) \in Nat /\ DustOwed(S, new, P) \in Nat
  BY PositionSums, DustTypes
<1>3. \A a \in Assets :
        /\ S[a].aBalance[u] \in Nat /\ S[a].dBalance[u] \in Nat
        /\ NormalizedDebt(S[a], t) \in Nat
  BY TermsAreNat
<1>4. SameTerms(S, S, t)
  BY <1>3 DEF SameTerms
<1>5. cfg.collateral \subseteq Assets /\ cfg.borrowing \subseteq Assets
  BY DEF Position, UserConfiguration
<1>6. w <= v + 0
  <2>1. \A a \in CountedCollateral(S, cfg) :
          \/ a \in new.collateral /\ S[a].aBalance[u] <= S[a].aBalance[u]
          \/ a = z /\ Weights(S, cfg, P, u, t)[a] <= WeightIn(S, new, P, u, t, a) + 0
    <3> SUFFICES ASSUME NEW a \in CountedCollateral(S, cfg), a \notin new.collateral
                 PROVE  a = z /\ Weights(S, cfg, P, u, t)[a] <= WeightIn(S, new, P, u, t, a) + 0
      BY <1>3, <1>5 DEF CountedCollateral
    <3>1. a = z /\ S[a].aBalance[u] = 0
      BY DEF CountedCollateral
    <3>2. Weights(S, cfg, P, u, t)[a] = 0
      BY <3>1, NoTokensNoWorth
    <3>3. WeightIn(S, new, P, u, t, a) = 0
      BY DEF WeightIn, CountedCollateral
    <3> QED
      BY <3>1, <3>2, <3>3
  <2> QED
    BY <1>4, <2>1, WeightKept
<1>7. e <= d + 0
  <2>1. \A a \in new.borrowing : a \in cfg.borrowing /\ S[a].dBalance[u] <= S[a].dBalance[u]
    BY <1>3, <1>5
  <2> QED
    BY <1>4, <2>1, OwedKept
<1> HIDE DEF w, v, d, e
<1>8. w <= v + DustWeight(S, new, P) /\ e <= d + DustOwed(S, new, P)
  BY <1>2, <1>6, <1>7
<1> QED
  BY <1>1, <1>2, <1>8, EnoughWeight DEF w, v, d, e

(* A mint of x of debt adds what x is worth, and dust.                     *)
LEMMA DebtAfterMint ==
  ASSUME NEW R, NEW cfg, NEW S, NEW new, NEW P, NEW u, NEW t,
         Position(R, cfg, P, u, t), Position(S, new, P, u, t), SameTerms(R, S, t),
         NEW a \in Assets, NEW x \in Nat,
         S[a].variableBorrowIndex = NormalizedDebt(S[a], t), S[a].variableBorrowIndex # 0,
         S[a].dBalance[u] = R[a].dBalance[u] + RayDiv(x, S[a].variableBorrowIndex),
         a \in new.borrowing, R[a].dBalance[u] > 0 => a \in cfg.borrowing
  PROVE  Debts(S, new, P, u, t)[a]
           <= OwedIn(R, cfg, P, u, t, a) + ((P[a] * x) \div R[a].configuration.unit)
                + DustOwed(S, new, P)
<1> DEFINE i == S[a].variableBorrowIndex
           unit == R[a].configuration.unit
           before == DebtOf(R[a], u, t)
           after == DebtOf(S[a], u, t)
           half == HalfUnit(i)
           vb == DebtInBase(R, P, a, u, t)
           va == DebtInBase(S, P, a, u, t)
           inc == (P[a] * x) \div unit
           dust == DustAt(S, P, a, i)
           do == DustOwed(S, new, P)
<1>1. /\ i \in Nat \ {0} /\ NormalizedDebt(S[a], t) = i
      /\ NormalizedDebt(R[a], t) \in Nat /\ i <= NormalizedDebt(R[a], t)
      /\ R[a].dBalance[u] \in Nat /\ S[a].dBalance[u] \in Nat
      /\ before \in Nat /\ after \in Nat /\ P[a] \in Nat /\ vb \in Nat /\ va \in Nat
  BY TermsAreNat DEF SameTerms
<1>2. unit \in Nat \ {0} /\ S[a].configuration = R[a].configuration
  BY ConfigurationTypes DEF Position, SameTerms
<1>3. half \in Nat
  BY <1>1, HalfUnitIsNat
<1>4. after <= before + x + half
  <2>1. RayMul(R[a].dBalance[u] + RayDiv(x, i), i) <= RayMul(R[a].dBalance[u], i) + x + half
    BY <1>1, ScaledIsWorthAmount
  <2>2. RayMul(R[a].dBalance[u], i) <= RayMul(R[a].dBalance[u], NormalizedDebt(R[a], t))
    BY <1>1, RayMulMonotone
  <2>3. /\ after = RayMul(R[a].dBalance[u] + RayDiv(x, i), i)
        /\ before = RayMul(R[a].dBalance[u], NormalizedDebt(R[a], t))
    BY <1>1 DEF DebtOf
  <2>4. RayMul(R[a].dBalance[u], i) \in Nat
    BY <1>1, RayMulIsNat
  <2> HIDE DEF before, after, half, i
  <2> QED
    BY <1>1, <1>3, <2>1, <2>2, <2>3, <2>4
<1>5. vb = (P[a] * before) \div unit /\ va = (P[a] * after) \div unit
  BY <1>2 DEF DebtInBase
<1>6. dust = (P[a] * half) \div unit + 2
  BY <1>2 DEF DustAt, HalfUnit
<1>7. dust <= do /\ do \in Nat /\ dust \in Nat
  BY DustTypes
<1>8. Debts(S, new, P, u, t)[a] = va
  BY PositionTerms
<1>9. OwedIn(R, cfg, P, u, t, a) = vb
  <2>1. CASE a \in cfg.borrowing
    BY <2>1, PositionTerms DEF OwedIn
  <2>2. CASE a \notin cfg.borrowing
    <3>1. R[a].dBalance[u] = 0
      BY <1>1, <2>2
    <3>2. before = 0
      <4>1. before = RayMul(0, NormalizedDebt(R[a], t))
        BY <3>1 DEF DebtOf
      <4>2. 0 * NormalizedDebt(R[a], t) = 0
        BY <1>1
      <4> HIDE DEF before
      <4> QED
        BY <4>1, <4>2, ScalesPositive DEF RayMul
    <3> HIDE DEF before, vb, unit
    <3>3. vb = 0
      <4>1. P[a] * before = 0
        BY <1>1, <3>2
      <4> QED
        BY <1>2, <1>5, <4>1
    <3> QED
      BY <2>2, <3>3 DEF OwedIn
  <2> QED
    BY <2>1, <2>2
<1> HIDE DEF i, unit, before, after, half, vb, va, dust, do
<1>10. va <= vb + inc + dust /\ inc \in Nat
  <2> DEFINE pb == P[a] * before
             pa == P[a] * after
             px == P[a] * x
             ph == P[a] * half
  <2>1. pb \in Nat /\ pa \in Nat /\ px \in Nat /\ ph \in Nat
    BY <1>1, <1>3, ProductMonotone
  <2>2. pa <= pb + px + ph
    <3>1. before + x + half \in Nat
      BY <1>1, <1>3
    <3>2. P[a] * after <= P[a] * (before + x + half)
      BY <1>1, <1>4, <3>1, ProductMonotone
    <3>3. P[a] * (before + x + half) = P[a] * before + P[a] * x + P[a] * half
      BY <1>1, <1>3
    <3> QED
      BY <3>2, <3>3
  <2>3. vb = pb \div unit /\ va = pa \div unit /\ dust = ph \div unit + 2
    BY <1>5, <1>6
  <2>4. inc = px \div unit
    OBVIOUS
  <2> HIDE DEF pb, pa, px, ph, inc
  <2>5. pa \div unit <= (pb \div unit) + (px \div unit) + (ph \div unit) + 2
    BY <1>2, <2>1, <2>2, ThreeQuotients
  <2>6. px \div unit \in Nat /\ ph \div unit \in Nat
    BY <1>2, <2>1, QuotientBounds
  <2> QED
    BY <1>1, <2>3, <2>4, <2>5, <2>6
<1> HIDE DEF inc
<1>11. va <= vb + inc + do
  BY <1>1, <1>7, <1>10
<1> QED
  BY <1>8, <1>9, <1>11 DEF inc, unit, do

(* What configureReserveAsCollateral leaves.                               *)
ThresholdsAccepted(R) ==
  \A a \in Assets :
    /\ R[a].configuration.ltv <= R[a].configuration.liquidationThreshold
    /\ R[a].configuration.liquidationThreshold <= PERCENTAGE_FACTOR

(* What a position may borrow is less than its weight and its worth.       *)
LEMMA LoanToValueBounds ==
  ASSUME NEW R, NEW cfg, NEW P, NEW u, NEW t, Position(R, cfg, P, u, t), ThresholdsAccepted(R)
  PROVE  /\ LendingOf(R, cfg, P, u, t) <= WeightOf(R, cfg, P, u, t)
         /\ LendingOf(R, cfg, P, u, t) <= PERCENTAGE_FACTOR * WorthOf(R, cfg, P, u, t)
<1> DEFINE A == CountedCollateral(R, cfg)
           v == Values(R, cfg, P, u, t)
           l == LoanValues(R, cfg, P, u, t)
           w == Weights(R, cfg, P, u, t)
<1>1. IsFiniteSet(A) /\ A \in SUBSET Assets
  BY CountedAreAssets DEF Position
<1>2. PERCENTAGE_FACTOR \in Nat
  BY ScalesPositive
<1>3. ASSUME NEW a \in A
      PROVE  /\ v[a] \in Nat /\ l[a] \in Nat /\ w[a] \in Nat
             /\ l[a] <= w[a] /\ l[a] <= PERCENTAGE_FACTOR * v[a]
  <2> DEFINE c == CollateralInBase(R, P, a, u, t)
             x == R[a].configuration.ltv
             h == R[a].configuration.liquidationThreshold
  <2>1. a \in Assets
    BY <1>1
  <2>2. c \in Nat /\ x \in Nat /\ h \in Nat /\ x <= h /\ h <= PERCENTAGE_FACTOR
    BY <2>1, TermsAreNat, ConfigurationTypes DEF Position, ThresholdsAccepted
  <2>3. v[a] = c /\ l[a] = c * x /\ w[a] = c * h
    BY PositionTerms
  <2> HIDE DEF v, l, w, c, x, h
  <2>4. c * x \in Nat /\ c * h \in Nat /\ c * x <= c * h
    BY <2>2, ProductMonotone
  <2>5. x <= PERCENTAGE_FACTOR
    BY <2>2, <1>2
  <2>6. c * x <= c * PERCENTAGE_FACTOR
    BY <2>2, <2>5, <1>2, ProductMonotone
  <2>7. c * PERCENTAGE_FACTOR = PERCENTAGE_FACTOR * c
    BY <2>2, <1>2
  <2> QED
    BY <2>2, <2>3, <2>4, <2>6, <2>7
<1>4. WorthOf(R, cfg, P, u, t) = Total(v, A) /\ LendingOf(R, cfg, P, u, t) = Total(l, A)
      /\ WeightOf(R, cfg, P, u, t) = Total(w, A)
  BY DEF WorthOf, LendingOf, WeightOf
<1> HIDE DEF A, v, l, w
<1>5. Total(l, A) <= Total(w, A)
  BY <1>1, <1>3, TotalMonotone
<1>6. Total(l, A) <= PERCENTAGE_FACTOR * Total(v, A)
  <2>1. \A a \in A : l[a] \in Nat /\ v[a] \in Nat /\ 1 * l[a] <= PERCENTAGE_FACTOR * v[a] + 0
    <3> SUFFICES ASSUME NEW a \in A
                 PROVE  l[a] \in Nat /\ v[a] \in Nat /\ 1 * l[a] <= PERCENTAGE_FACTOR * v[a] + 0
      OBVIOUS
    <3>1. PERCENTAGE_FACTOR * v[a] \in Nat
      BY <1>2, <1>3, ProductMonotone
    <3> QED
      BY <1>3, <3>1
  <2>2. 1 * Total(l, A) <= PERCENTAGE_FACTOR * Total(v, A) + 0 * Cardinality(A)
    BY <1>1, <1>2, <2>1, TotalsCompare
  <2>3. Total(l, A) \in Nat /\ Total(v, A) \in Nat /\ Cardinality(A) \in Nat
    BY <1>1, <1>3, TotalBounds, FS_CardinalityType
  <2>4. PERCENTAGE_FACTOR * Total(v, A) \in Nat
    BY <1>2, <2>3, ProductMonotone
  <2> QED
    BY <2>2, <2>3, <2>4
<1> QED
  BY <1>4, <1>5, <1>6

(* A borrow the validation accepted. *)
LEMMA AcceptedLoan ==
  ASSUME NEW R, NEW cfg, NEW S, NEW new, NEW P, NEW u, NEW t,
         Position(R, cfg, P, u, t), Position(S, new, P, u, t), SameTerms(R, S, t),
         ThresholdsAccepted(R), WAD <= MAX_UINT, NEW a \in Assets, NEW base \in Nat,
         LET data == UserAccountData(R, cfg, P, u, t)
         IN  /\ data.collateral > 0 /\ data.ltv # 0
             /\ PercentDiv(data.debt + base, data.ltv) <= data.collateral,
         \A b \in cfg.collateral : b \in new.collateral /\ R[b].aBalance[u] <= S[b].aBalance[u],
         \A b \in new.borrowing \ {a} : b \in cfg.borrowing /\ S[b].dBalance[u] <= R[b].dBalance[u],
         a \in new.borrowing =>
           Debts(S, new, P, u, t)[a]
             <= OwedIn(R, cfg, P, u, t, a) + base + DustOwed(S, new, P)
  PROVE  /\ HealthWithDustOf(S, new, P, u, t) >= WAD
         /\ OwedOf(S, new, P, u, t) <= OwedOf(R, cfg, P, u, t) + base + DustOwed(S, new, P)
         /\ (OwedOf(R, cfg, P, u, t) + base) * PERCENTAGE_FACTOR
              <= WeightOf(S, new, P, u, t) + PERCENTAGE_FACTOR \div 2
<1> DEFINE data == UserAccountData(R, cfg, P, u, t)
           c == WorthOf(R, cfg, P, u, t)
           n == LendingOf(R, cfg, P, u, t)
           w == WeightOf(R, cfg, P, u, t)
           v == WeightOf(S, new, P, u, t)
           d == OwedOf(R, cfg, P, u, t)
           e == OwedOf(S, new, P, u, t)
           dw == DustWeight(S, new, P)
           do == DustOwed(S, new, P)
<1>1. /\ data.collateral = c /\ data.debt = d /\ data.ltv = AverageOf(c, n)
  BY AccountSums
<1>2. /\ c \in Nat /\ n \in Nat /\ w \in Nat /\ v \in Nat /\ d \in Nat /\ e \in Nat
      /\ dw \in Nat /\ do \in Nat
  BY PositionSums, DustTypes
<1>3. w <= v + 0
  <2>1. \A b \in CountedCollateral(R, cfg) :
          b \in new.collateral /\ R[b].aBalance[u] <= S[b].aBalance[u]
    BY DEF CountedCollateral
  <2> QED
    BY <2>1, WeightKept
<1>4. e <= d + (base + do)
  <2>1. base + do \in Nat
    BY <1>2
  <2>2. a \in new.borrowing =>
          Debts(S, new, P, u, t)[a] <= OwedIn(R, cfg, P, u, t, a) + (base + do)
    <3>1. OwedIn(R, cfg, P, u, t, a) \in Nat
      BY PositionTerms DEF OwedIn
    <3>2. a \in new.borrowing => Debts(S, new, P, u, t)[a] \in Nat
      BY PositionTerms
    <3>3. a \in new.borrowing =>
            Debts(S, new, P, u, t)[a] <= OwedIn(R, cfg, P, u, t, a) + base + do
      OBVIOUS
    <3> HIDE DEF do
    <3> QED
      BY <1>2, <3>1, <3>2, <3>3
  <2>3. \A b \in new.borrowing :
          \/ b \in cfg.borrowing /\ S[b].dBalance[u] <= R[b].dBalance[u]
          \/ b = a /\ Debts(S, new, P, u, t)[b] <= OwedIn(R, cfg, P, u, t, b) + (base + do)
    BY <2>2
  <2> HIDE DEF do
  <2> QED
    BY <2>1, <2>3, OwedKept
<1>5. c > 0 /\ AverageOf(c, n) # 0 /\ PercentDiv(d + base, AverageOf(c, n)) <= c
  <2>1. data.collateral > 0 /\ data.ltv # 0
        /\ PercentDiv(data.debt + base, data.ltv) <= data.collateral
    OBVIOUS
  <2> HIDE DEF data, c, d, n
  <2> QED
    BY <1>1, <2>1
<1>6. n <= w /\ n <= PERCENTAGE_FACTOR * c
  BY LoanToValueBounds
<1> HIDE DEF data, c, n, w, v, d, e, dw, do
<1>7. AverageOf(c, n) = n \div c
  BY <1>5 DEF AverageOf
<1>8. (d + base) * PERCENTAGE_FACTOR <= w + PERCENTAGE_FACTOR \div 2
  <2>1. c \in Nat \ {0} /\ d + base \in Nat
    BY <1>2, <1>5
  <2> QED
    BY <1>2, <1>5, <1>6, <1>7, <2>1, LoanIsCovered
<1>9. Covers(w, d + base)
  <2>1. d + base \in Nat
    BY <1>2
  <2> QED
    BY <1>2, <1>8, <2>1, CoversByProduct
<1>10. w <= v + dw /\ e <= (d + base) + do /\ d + base \in Nat
  BY <1>2, <1>3, <1>4
<1>11. HealthWithDustOf(S, new, P, u, t) >= WAD
  BY <1>2, <1>9, <1>10, EnoughWeight DEF v, e, dw, do
<1>12. (d + base) * PERCENTAGE_FACTOR <= v + PERCENTAGE_FACTOR \div 2
  <2>1. PERCENTAGE_FACTOR \in Nat /\ PERCENTAGE_FACTOR \div 2 \in Nat
    BY ScalesPositive, QuotientBounds
  <2>2. (d + base) * PERCENTAGE_FACTOR \in Nat
    BY <1>10, <2>1, ProductMonotone
  <2> QED
    BY <1>2, <1>3, <1>8, <2>1, <2>2
<1>13. e <= d + base + do
  BY <1>10, <1>2
<1> QED
  BY ONLY <1>11, <1>12, <1>13 DEF e, d, do, v

(* What a liquidator would pay for each collateral.                        *)
NetValues(R, cfg, P, u, t) ==
  [a \in CountedCollateral(R, cfg) |->
     PercentDiv(CollateralInBase(R, P, a, u, t), R[a].configuration.liquidationBonus)]
NetWorth(R, cfg, P, u, t) == Total(NetValues(R, cfg, P, u, t), CountedCollateral(R, cfg))

(* What configureReserveAsCollateral leaves of the bonus.                  *)
BonusesAccepted(R) ==
  \A a \in Assets :
    R[a].configuration.liquidationThreshold # 0 =>
      /\ R[a].configuration.liquidationBonus > PERCENTAGE_FACTOR
      /\ PercentMul(R[a].configuration.liquidationThreshold, R[a].configuration.liquidationBonus)
           <= PERCENTAGE_FACTOR

(* The weight of a position is covered by what liquidators would pay.      *)
LEMMA WeightNetOfBonus ==
  ASSUME NEW R, NEW cfg, NEW P, NEW u, NEW t, Position(R, cfg, P, u, t), BonusesAccepted(R)
  PROVE  /\ NetWorth(R, cfg, P, u, t) \in Nat
         /\ WeightOf(R, cfg, P, u, t)
              <= (PERCENTAGE_FACTOR + 1) * NetWorth(R, cfg, P, u, t)
                   + PERCENTAGE_FACTOR * Cardinality(Assets)
<1> DEFINE A == CountedCollateral(R, cfg)
           w == Weights(R, cfg, P, u, t)
           q == NetValues(R, cfg, P, u, t)
           p == PERCENTAGE_FACTOR
<1>1. IsFiniteSet(A) /\ A \in SUBSET Assets
  BY CountedAreAssets DEF Position
<1>2. p \in Nat \ {0} /\ p + 1 \in Nat
  BY ScalesPositive
<1>3. ASSUME NEW a \in A
      PROVE  w[a] \in Nat /\ q[a] \in Nat /\ 1 * w[a] <= (p + 1) * q[a] + p
  <2> DEFINE c == CollateralInBase(R, P, a, u, t)
             h == R[a].configuration.liquidationThreshold
             b == R[a].configuration.liquidationBonus
  <2>1. a \in Assets
    BY <1>1
  <2>2. c \in Nat /\ h \in Nat /\ h # 0
    BY <2>1, TermsAreNat, ConfigurationTypes DEF Position, CountedCollateral
  <2>3. b \in Nat
    <3>1. R[a] \in Reserve
      BY <2>1 DEF Position, AllWellFormed, WellFormed
    <3> QED
      BY <3>1 DEF Reserve, Configuration
  <2>4. b > p /\ PercentMul(h, b) <= p
    BY <2>1, <2>2 DEF BonusesAccepted
  <2>5. w[a] = c * h /\ q[a] = PercentDiv(c, b)
    BY PositionTerms DEF NetValues
  <2> HIDE DEF w, q, c, h, b
  <2>6. c * h <= (p + 1) * PercentDiv(c, b) + p
    BY <2>2, <2>3, <2>4, WeightOfOneNetOfBonus
  <2>7. PercentDiv(c, b) \in Nat /\ c * h \in Nat
    BY <1>2, <2>2, <2>3, <2>4, PercentDivIsNat, ProductMonotone
  <2> HIDE DEF p
  <2> QED
    BY <2>5, <2>6, <2>7
<1>4. WeightOf(R, cfg, P, u, t) = Total(w, A) /\ NetWorth(R, cfg, P, u, t) = Total(q, A)
  BY DEF WeightOf, NetWorth
<1> HIDE DEF A, w, q, p
<1>5. 1 * Total(w, A) <= (p + 1) * Total(q, A) + p * Cardinality(A)
  BY <1>1, <1>2, <1>3, TotalsCompare
<1>6. Total(w, A) \in Nat /\ Total(q, A) \in Nat
  BY <1>1, <1>3, TotalBounds
<1>7. p * Cardinality(A) <= p * Cardinality(Assets)
      /\ p * Cardinality(A) \in Nat /\ p * Cardinality(Assets) \in Nat
  <2>1. /\ Cardinality(A) \in Nat /\ Cardinality(Assets) \in Nat
        /\ Cardinality(A) <= Cardinality(Assets)
    BY <1>1, FinitelyManyAssets, FS_CardinalityType, FS_Subset
  <2> QED
    BY <1>2, <2>1, ProductMonotone
<1>8. (p + 1) * Total(q, A) \in Nat
  BY <1>2, <1>6, ProductMonotone
<1>9. Total(w, A) <= (p + 1) * Total(q, A) + p * Cardinality(Assets)
  BY ONLY <1>5, <1>6, <1>7, <1>8
<1> QED
  BY <1>4, <1>6, <1>9 DEF p

(* The loan is covered, and so is what u owes already.                     *)
(* What a borrow checks and does: base is what it adds to the debt.        *)
LoanAccepted(R, cfg, S, new, P, u, t, a, base) ==
  /\ base \in Nat
  /\ LET data == UserAccountData(R, cfg, P, u, t)
     IN  /\ data.collateral > 0 /\ data.ltv # 0
         /\ PercentDiv(data.debt + base, data.ltv) <= data.collateral
  /\ \A b \in cfg.collateral : b \in new.collateral /\ R[b].aBalance[u] <= S[b].aBalance[u]
  /\ \A b \in new.borrowing \ {a} : b \in cfg.borrowing /\ S[b].dBalance[u] <= R[b].dBalance[u]
  /\ a \in new.borrowing =>
       Debts(S, new, P, u, t)[a] <= OwedIn(R, cfg, P, u, t, a) + base + DustOwed(S, new, P)

(* An accepted loan is paid for by the collateral net of the bonus.        *)
LEMMA AcceptedLoanCoversBonus ==
  ASSUME NEW R, NEW cfg, NEW S, NEW new, NEW P, NEW u, NEW t,
         Position(R, cfg, P, u, t), Position(S, new, P, u, t), SameTerms(R, S, t),
         ThresholdsAccepted(R), BonusesAccepted(S), WAD <= MAX_UINT, NEW a \in Assets, NEW base,
         LoanAccepted(R, cfg, S, new, P, u, t, a, base)
  PROVE  UserAccountData(S, new, P, u, t).debt
           <= PercentMul(NetWorth(S, new, P, u, t), PERCENTAGE_FACTOR + 1)
                + DustOwed(S, new, P) + Cardinality(Assets)
<1> DEFINE d == OwedOf(R, cfg, P, u, t)
           e == OwedOf(S, new, P, u, t)
           v == WeightOf(S, new, P, u, t)
           n == NetWorth(S, new, P, u, t)
           m == Cardinality(Assets)
           do == DustOwed(S, new, P)
           p == PERCENTAGE_FACTOR
<1>1. UserAccountData(S, new, P, u, t).debt = e
  BY AccountSums
<1>2. /\ e <= d + base + do
      /\ (d + base) * p <= v + p \div 2
  <2>1. base \in Nat
    BY DEF LoanAccepted
  <2>2. LET data == UserAccountData(R, cfg, P, u, t)
        IN  /\ data.collateral > 0 /\ data.ltv # 0
            /\ PercentDiv(data.debt + base, data.ltv) <= data.collateral
    BY DEF LoanAccepted
  <2>3. /\ \A b \in cfg.collateral :
             b \in new.collateral /\ R[b].aBalance[u] <= S[b].aBalance[u]
        /\ \A b \in new.borrowing \ {a} :
             b \in cfg.borrowing /\ S[b].dBalance[u] <= R[b].dBalance[u]
    BY DEF LoanAccepted
  <2>4. a \in new.borrowing =>
          Debts(S, new, P, u, t)[a] <= OwedIn(R, cfg, P, u, t, a) + base + DustOwed(S, new, P)
    BY DEF LoanAccepted
  <2> QED
    BY <2>1, <2>2, <2>3, <2>4, AcceptedLoan
<1>3. n \in Nat /\ v <= (p + 1) * n + p * m
  BY WeightNetOfBonus
<1>4. d \in Nat /\ e \in Nat /\ v \in Nat /\ do \in Nat /\ base \in Nat /\ m \in Nat
  BY PositionSums, DustTypes, FinitelyManyAssets, FS_CardinalityType DEF LoanAccepted
<1> HIDE DEF d, e, v, n, m, do
<1>5. d + base <= PercentMul(n, p + 1) + m /\ PercentMul(n, p + 1) \in Nat
  <2>1. p \in Nat /\ p \div 2 \in Nat
    BY ScalesPositive, QuotientBounds
  <2>2. d + base \in Nat
    BY <1>4
  <2>3. (d + base) * p \in Nat /\ (p + 1) * n \in Nat /\ p * m \in Nat
    BY <1>3, <1>4, <2>1, <2>2, ProductMonotone
  <2>4. (d + base) * p <= (p + 1) * n + p * m + p \div 2
    BY ONLY <1>2, <1>3, <1>4, <2>1, <2>3
  <2> QED
    BY <1>3, <1>4, <2>2, <2>4, CoveredByPercent
<1>6. e <= PercentMul(n, p + 1) + do + m
  BY ONLY <1>2, <1>4, <1>5
<1> QED
  BY <1>1, <1>6 DEF e, n, m, do

-----------------------------------------------------------------------------
(* The interest of one unit of time: what it adds to the claims, what it   *)
(* adds to the debts, and what rounding leaves between the two.            *)

LEMMA FactorCancels ==
  ASSUME NEW k \in Nat \ {0}, NEW x \in Int, NEW y \in Int, k * x <= k * y
  PROVE  x <= y
<1>1. x > y => k * x > k * y
  OBVIOUS
<1> QED
  BY <1>1

(* A quotient rounded half up is within half of the exact one.             *)
LEMMA HalfUpBounds ==
  ASSUME NEW x \in Nat, NEW d \in Nat \ {0}
  PROVE  LET q == (x + d \div 2) \div d
         IN  /\ q \in Nat
             /\ 2 * (q * d) <= 2 * x + d
             /\ 2 * x <= 2 * (q * d) + d
<1> DEFINE h == d \div 2
           q == (x + h) \div d
<1>1. h \in Nat /\ 2 * h <= d /\ d < 2 * h + 2
  BY QuotientBounds
<1> HIDE DEF h
<1>2. x + h \in Nat
  BY <1>1
<1>3. q \in Nat /\ q * d <= x + h /\ x + h < q * d + d
  BY <1>2, QuotientBounds
<1> DEFINE m == q * d
<1>4. m \in Nat
  BY <1>3
<1>5. m <= x + h /\ x + h < m + d
  BY <1>3
<1> HIDE DEF m
<1>6. 2 * m <= 2 * x + d /\ 2 * x <= 2 * m + d
  BY <1>1, <1>4, <1>5
<1> QED
  BY <1>3, <1>6 DEF h, m

LEMMA RayMulBounds ==
  ASSUME NEW s \in Nat, NEW i \in Nat
  PROVE  LET c == RayMul(s, i)
         IN  /\ c \in Nat
             /\ 2 * (s * i) <= 2 * (c * RAY) + RAY
             /\ 2 * (c * RAY) <= 2 * (s * i) + RAY
<1>1. s * i \in Nat
  OBVIOUS
<1> QED
  BY <1>1, ScalesPositive, HalfUpBounds DEF RayMul

LEMMA RayDivBounds ==
  ASSUME NEW a \in Nat, NEW b \in Nat \ {0}
  PROVE  LET q == RayDiv(a, b)
         IN  /\ q \in Nat
             /\ 2 * (a * RAY) <= 2 * (q * b) + b
             /\ 2 * (q * b) <= 2 * (a * RAY) + b
<1>1. a * RAY \in Nat
  BY ScalesPositive
<1> QED
  BY <1>1, HalfUpBounds DEF RayDiv

LEMMA PercentMulBounds ==
  ASSUME NEW a \in Nat, NEW f \in Nat
  PROVE  LET q == PercentMul(a, f)
         IN  /\ q \in Nat
             /\ 2 * (a * f) <= 2 * (q * PERCENTAGE_FACTOR) + PERCENTAGE_FACTOR
             /\ 2 * (q * PERCENTAGE_FACTOR) <= 2 * (a * f) + PERCENTAGE_FACTOR
<1>1. a * f \in Nat
  OBVIOUS
<1> QED
  BY <1>1, ScalesPositive, HalfUpBounds DEF PercentMul

(* What a mint makes the claims, in half units of rays. *)
LEMMA MintWorth ==
  ASSUME NEW s \in Nat, NEW x \in Nat, NEW i \in Nat \ {0}
  PROVE  LET n == RayMul(s + RayDiv(x, i), i)
         IN  /\ n \in Nat
             /\ 2 * (n * RAY) <= 2 * (s * i) + 2 * (x * RAY) + i + RAY
             /\ 2 * (s * i) + 2 * (x * RAY) <= 2 * (n * RAY) + i + RAY
<1> DEFINE q == RayDiv(x, i)
           n == RayMul(s + q, i)
           si == s * i
           qi == q * i
           xr == x * RAY
           nr == n * RAY
<1>1. q \in Nat /\ 2 * xr <= 2 * qi + i /\ 2 * qi <= 2 * xr + i
  BY RayDivBounds
<1> HIDE DEF q
<1>2. s + q \in Nat
  BY <1>1
<1>3. n \in Nat /\ 2 * ((s + q) * i) <= 2 * nr + RAY /\ 2 * nr <= 2 * ((s + q) * i) + RAY
  BY <1>2, RayMulBounds
<1> HIDE DEF n
<1>4. (s + q) * i = si + qi
  BY <1>1
<1>5. si \in Nat /\ qi \in Nat /\ xr \in Nat /\ nr \in Nat
  BY <1>1, <1>3, ScalesPositive
<1> HIDE DEF si, qi, xr, nr
<1>6. 2 * nr <= 2 * si + 2 * xr + i + RAY /\ 2 * si + 2 * xr <= 2 * nr + i + RAY
  BY <1>1, <1>3, <1>4, <1>5, ScalesPositive
<1> QED
  BY <1>3, <1>6 DEF n, q, si, xr, nr

(* The gap between claims and debts over an accrual that takes the income  *)
(* index from i to j and the debt from e to f, of the debt d last settled. *)
LEMMA AccrualGap ==
  ASSUME NEW s \in Nat, NEW i \in Nat \ {0}, NEW j \in Nat \ {0}, i <= j,
         NEW d \in Nat, NEW e \in Nat, NEW f \in Nat, d <= e, e <= f, NEW share \in Nat
  PROVE  LET a == RayMul(s + RayDiv(PercentMul(e - d, share), i), i)
             b == RayMul(s + RayDiv(PercentMul(f - d, share), j), j)
             P == PERCENTAGE_FACTOR
         IN  2 * (RAY * (P * ((b - f) - (a - e))))
               <= 2 * (P * (s * (j - i))) - 2 * (RAY * ((P - share) * (f - e)))
                    + 2 * (P * j) + 4 * (RAY * P)
<1> DEFINE P == PERCENTAGE_FACTOR
           x == PercentMul(e - d, share)
           y == PercentMul(f - d, share)
           a == RayMul(s + RayDiv(x, i), i)
           b == RayMul(s + RayDiv(y, j), j)
<1>1. P \in Nat \ {0} /\ RAY \in Nat \ {0} /\ e - d \in Nat /\ f - d \in Nat
  BY ScalesPositive
<1>2. x \in Nat /\ y \in Nat
      /\ 2 * ((e - d) * share) <= 2 * (x * P) + P
      /\ 2 * (y * P) <= 2 * ((f - d) * share) + P
  BY <1>1, PercentMulBounds
<1> HIDE DEF x, y
<1>3. a \in Nat /\ 2 * (s * i) + 2 * (x * RAY) <= 2 * (a * RAY) + i + RAY
  BY <1>2, MintWorth
<1>4. b \in Nat /\ 2 * (b * RAY) <= 2 * (s * j) + 2 * (y * RAY) + j + RAY
  BY <1>2, MintWorth
<1> HIDE DEF a, b
<1> DEFINE D == b - a
           Z == y - x
           F == f - e
           J == s * (j - i)
<1>5. D \in Int /\ Z \in Int /\ F \in Nat /\ J \in Nat
  BY <1>1, <1>2, <1>3, <1>4
<1>6. 2 * (RAY * D) <= 2 * J + 2 * (RAY * Z) + 2 * j + 2 * RAY
  <2> DEFINE ar == a * RAY
             br == b * RAY
             xr == x * RAY
             yr == y * RAY
             si == s * i
             sj == s * j
  <2>1. /\ ar \in Nat /\ br \in Nat /\ xr \in Nat /\ yr \in Nat /\ si \in Nat /\ sj \in Nat
        /\ RAY * D = br - ar /\ RAY * Z = yr - xr /\ J = sj - si
    BY <1>1, <1>2, <1>3, <1>4
  <2>2. 2 * si + 2 * xr <= 2 * ar + i + RAY /\ 2 * br <= 2 * sj + 2 * yr + j + RAY
    BY <1>3, <1>4
  <2> HIDE DEF ar, br, xr, yr, si, sj, D, Z, J
  <2> QED
    BY <1>1, <1>5, <2>1, <2>2
<1>7. P * Z <= share * F + P
  <2> DEFINE px == P * x
             py == P * y
             u == (e - d) * share
             w == (f - d) * share
  <2>1. /\ px \in Nat /\ py \in Nat /\ u \in Nat /\ w \in Nat
        /\ P * Z = py - px /\ share * F = w - u /\ x * P = px /\ y * P = py
    BY <1>1, <1>2
  <2>2. 2 * u <= 2 * px + P /\ 2 * py <= 2 * w + P
    BY <1>2, <2>1
  <2> HIDE DEF px, py, u, w, Z, F, P
  <2> QED
    BY <1>1, <1>5, <2>1, <2>2
<1> HIDE DEF Z, J, P
<1>8. 2 * (RAY * (P * D)) <= 2 * (P * J) + 2 * (RAY * (share * F)) + 2 * (P * j) + 4 * (RAY * P)
  <2> DEFINE rd == RAY * D
             rz == RAY * Z
             pz == P * Z
             sf == share * F
  <2>1. rd \in Int /\ rz \in Int /\ pz \in Int /\ sf \in Nat
    BY <1>1, <1>5
  <2>2. P * (2 * rd) <= P * (2 * J + 2 * rz + 2 * j + 2 * RAY)
    <3>1. 2 * rd <= 2 * J + 2 * rz + 2 * j + 2 * RAY
      BY <1>6
    <3> DEFINE l == 2 * rd
               m == 2 * J + 2 * rz + 2 * j + 2 * RAY
    <3>2. l \in Int /\ m \in Int /\ l <= m
      BY <1>1, <1>5, <2>1, <3>1
    <3> HIDE DEF l, m
    <3>3. P * l <= P * m
      BY <1>1, <3>2
    <3> QED
      BY <3>3 DEF l, m
  <2>3. RAY * pz <= RAY * (sf + P)
    <3> DEFINE m == sf + P
    <3>1. m \in Int /\ pz <= m
      BY <1>1, <1>7, <2>1
    <3> HIDE DEF m, pz
    <3>2. RAY * pz <= RAY * m
      BY <1>1, <2>1, <3>1
    <3> QED
      BY <3>2 DEF m
  <2>4. /\ P * (2 * rd) = 2 * (RAY * (P * D))
        /\ P * (2 * J + 2 * rz + 2 * j + 2 * RAY)
             = 2 * (P * J) + 2 * (RAY * pz) + 2 * (P * j) + 2 * (RAY * P)
        /\ RAY * (sf + P) = RAY * sf + RAY * P
    BY <1>1, <1>5, <2>1
  <2> DEFINE A == RAY * (P * D)
             B == P * J
             G == RAY * pz
             H == P * j
             I == RAY * P
             K == RAY * sf
  <2>5. A \in Int /\ B \in Nat /\ G \in Int /\ H \in Nat /\ I \in Nat /\ K \in Nat
    BY <1>1, <1>5, <2>1
  <2>6. 2 * A <= 2 * B + 2 * G + 2 * H + 2 * I /\ G <= K + I
    BY <2>2, <2>3, <2>4
  <2> HIDE DEF A, B, G, H, I, K
  <2>7. 2 * A <= 2 * B + 2 * K + 2 * H + 4 * I
    BY <2>5, <2>6
  <2> QED
    BY <2>7 DEF A, B, K, H, I
<1>9. (b - f) - (a - e) = D - F
  BY <1>3, <1>4
<1>10. /\ RAY * (P * (D - F)) = RAY * (P * D) - RAY * (P * F)
       /\ RAY * ((P - share) * F) = RAY * (P * F) - RAY * (share * F)
  BY <1>1, <1>5
<1> HIDE DEF D, F
<1>11. /\ RAY * (P * D) \in Int /\ RAY * (P * F) \in Int /\ RAY * (share * F) \in Int
       /\ P * J \in Int /\ P * j \in Int /\ RAY * P \in Int
  BY <1>1, <1>5
<1>12. 2 * (RAY * (P * (D - F)))
         <= 2 * (P * J) - 2 * (RAY * ((P - share) * F)) + 2 * (P * j) + 4 * (RAY * P)
  BY <1>8, <1>10, <1>11
<1> QED
  BY <1>9, <1>12 DEF F, J, P, a, b, x, y

(* One more unit of simple interest adds the rate, rounded. *)
LEMMA LinearStep ==
  ASSUME NEW rate \in Nat, NEW n \in Nat
  PROVE  /\ LinearInterest(rate, n) \in Nat /\ LinearInterest(rate, n + 1) \in Nat
         /\ LinearInterest(rate, n + 1) >= LinearInterest(rate, n)
         /\ SECONDS_PER_YEAR * (LinearInterest(rate, n + 1) - LinearInterest(rate, n))
              <= rate + SECONDS_PER_YEAR
<1> DEFINE Y == SECONDS_PER_YEAR
           x == rate * n
           z == rate * (n + 1)
           p == x \div Y
           q == z \div Y
<1>1. Y \in Nat \ {0} /\ x \in Nat /\ z \in Nat /\ z = x + rate
  BY ScalesPositive
<1>2. LinearInterest(rate, n) = RAY + p /\ LinearInterest(rate, n + 1) = RAY + q
  BY DEF LinearInterest
<1> HIDE DEF Y, x, z
<1>3. p \in Nat /\ p * Y <= x /\ x < p * Y + Y
  BY <1>1, QuotientBounds
<1>4. q \in Nat /\ q * Y <= z /\ z < q * Y + Y
  BY <1>1, QuotientBounds
<1> HIDE DEF p, q
<1> DEFINE py == p * Y
           qy == q * Y
<1>5. py \in Nat /\ qy \in Nat /\ Y * (q - p) = qy - py
  BY <1>1, <1>3, <1>4
<1>6. qy <= z /\ x < py + Y /\ py <= x /\ z < qy + Y
  BY <1>3, <1>4
<1> HIDE DEF py, qy
<1>7. qy - py <= rate + Y
  BY <1>1, <1>5, <1>6
<1>8. q >= p
  <2>1. Y * p < Y * (q + 1)
    <3>1. Y * p = py /\ Y * (q + 1) = qy + Y
      BY <1>1, <1>3, <1>4 DEF py, qy
    <3> QED
      BY <1>1, <1>5, <1>6, <3>1
  <2>2. ~(p >= q + 1)
    <3>1. p >= q + 1 => Y * p >= Y * (q + 1)
      BY <1>1, <1>3, <1>4
    <3>2. Y * p \in Nat /\ Y * (q + 1) \in Nat
      BY <1>1, <1>3, <1>4
    <3> HIDE DEF py, qy
    <3> QED
      BY <2>1, <3>1, <3>2
  <2> QED
    BY <1>3, <1>4, <2>2
<1>9. (RAY + q) - (RAY + p) = q - p
  BY <1>3, <1>4, ScalesPositive
<1> QED
  BY <1>2, <1>3, <1>4, <1>5, <1>7, <1>8, <1>9, ScalesPositive DEF Y

(* One more unit of compounded interest adds the truncated rate at least. *)
LEMMA CompoundedStep ==
  ASSUME NEW rate \in Nat, NEW n \in Nat
  PROVE  /\ CompoundedInterest(rate, n) \in Nat /\ CompoundedInterest(rate, n + 1) \in Nat
         /\ CompoundedInterest(rate, n + 1)
              >= CompoundedInterest(rate, n) + (rate \div SECONDS_PER_YEAR)
<1> DEFINE r == rate \div SECONDS_PER_YEAR
           b == RayMul(r, r)
           c == RayMul(b, r)
<1>1. r \in Nat /\ RAY \in Nat
  BY ScalesPositive, QuotientBounds
<1>2. b \in Nat
  BY <1>1, RayMulIsNat
<1>3. c \in Nat
  BY <1>1, <1>2, RayMulIsNat
<1>4. CompoundedInterest(rate, n) \in Nat /\ CompoundedInterest(rate, n + 1) \in Nat
  <2>1. n + 1 \in Nat
    OBVIOUS
  <2> QED
    BY <2>1, CompoundedInterestAtLeastOne
<1> DEFINE two(e) == IF e > 2 THEN e - 2 ELSE 0
           second(e) == e * (e - 1) * b
           third(e) == e * (e - 1) * two(e) * c
<1>5. ASSUME NEW e \in Nat \ {0}
      PROVE  CompoundedInterest(rate, e) = RAY + r * e + second(e) \div 2 + third(e) \div 6
  BY <1>5 DEF CompoundedInterest
<1>6. ASSUME NEW e \in Nat \ {0}
      PROVE  second(e) \in Nat /\ third(e) \in Nat
  BY <1>2, <1>3
<1>7. n + 1 \in Nat \ {0}
  OBVIOUS
<1>8. CASE n = 0
  <2>1. CompoundedInterest(rate, n) = RAY
    BY <1>8 DEF CompoundedInterest
  <2>2. r * (n + 1) = r
    BY <1>1, <1>8
  <2>3. second(n + 1) \div 2 \in Nat /\ third(n + 1) \div 6 \in Nat
    <3> DEFINE s1 == second(n + 1)
               t1 == third(n + 1)
    <3>1. s1 \in Nat /\ t1 \in Nat
      BY <1>6, <1>7
    <3> HIDE DEF s1, t1
    <3>2. s1 \div 2 \in Nat /\ t1 \div 6 \in Nat
      BY <3>1
    <3> QED
      BY <3>2 DEF s1, t1
  <2>4. CompoundedInterest(rate, n + 1) = RAY + r * (n + 1) + second(n + 1) \div 2 + third(n + 1) \div 6
    BY <1>5, <1>7
  <2> DEFINE u == second(n + 1) \div 2
             v == third(n + 1) \div 6
  <2> HIDE DEF u, v
  <2>5. CompoundedInterest(rate, n + 1) = RAY + r + u + v /\ u \in Nat /\ v \in Nat
    BY <2>2, <2>3, <2>4 DEF u, v
  <2> HIDE DEF r
  <2> QED
    BY <1>1, <1>4, <2>1, <2>5 DEF r
<1>9. CASE n # 0
  <2>1. n \in Nat \ {0}
    BY <1>9
  <2>2. second(n) <= second(n + 1) /\ third(n) <= third(n + 1)
    <3> DEFINE p == n * (n - 1)
               q == (n + 1) * n
    <3>1. p \in Nat /\ q \in Nat /\ p <= q
      BY <2>1
    <3>2. two(n) \in Nat /\ two(n + 1) \in Nat /\ two(n) <= two(n + 1)
      BY <2>1
    <3>3. second(n) = p * b /\ second(n + 1) = q * b
          /\ third(n) = p * two(n) * c /\ third(n + 1) = q * two(n + 1) * c
      BY <2>1
    <3> HIDE DEF p, q, two
    <3>4. p * b <= q * b
      BY <1>2, <3>1
    <3>5. p * two(n) <= q * two(n + 1) /\ p * two(n) \in Nat /\ q * two(n + 1) \in Nat
      <4> DEFINE x == two(n)
                 y == two(n + 1)
      <4>1. x \in Nat /\ y \in Nat /\ x <= y
        BY <3>2
      <4> HIDE DEF x, y
      <4>2. p * x <= p * y /\ p * y <= q * y /\ p * x \in Nat /\ q * y \in Nat /\ p * y \in Nat
        BY <3>1, <4>1
      <4>3. p * x <= q * y
        BY <4>2
      <4> QED
        BY <4>2, <4>3 DEF x, y
    <3> DEFINE x == p * two(n)
               y == q * two(n + 1)
    <3>6. x \in Nat /\ y \in Nat /\ x <= y
      BY <3>5
    <3> HIDE DEF x, y
    <3>7. x * c <= y * c
      BY <1>3, <3>6
    <3> QED
      BY <3>3, <3>4, <3>7 DEF x, y
  <2> DEFINE s0 == second(n)
             s1 == second(n + 1)
             t0 == third(n)
             t1 == third(n + 1)
             u0 == s0 \div 2
             u1 == s1 \div 2
             v0 == t0 \div 6
             v1 == t1 \div 6
  <2>3. /\ CompoundedInterest(rate, n) = RAY + r * n + u0 + v0
        /\ CompoundedInterest(rate, n + 1) = RAY + r * (n + 1) + u1 + v1
    BY <1>5, <1>7, <2>1
  <2>4. s0 \in Nat /\ s1 \in Nat /\ t0 \in Nat /\ t1 \in Nat /\ s0 <= s1 /\ t0 <= t1
    BY <1>6, <1>7, <2>1, <2>2
  <2> HIDE DEF s0, s1, t0, t1
  <2>5. u0 \in Nat /\ u1 \in Nat /\ v0 \in Nat /\ v1 \in Nat /\ u0 <= u1 /\ v0 <= v1
    BY <2>4
  <2> HIDE DEF u0, u1, v0, v1, r
  <2> DEFINE m == r * n
  <2>6. r * (n + 1) = m + r /\ m \in Nat
    BY <1>1
  <2> HIDE DEF m
  <2>7. RAY + m + u0 + v0 + r <= RAY + (m + r) + u1 + v1
    BY <1>1, <2>5, <2>6
  <2>8. r * n = m
    BY DEF m
  <2> QED
    BY <1>4, <2>3, <2>6, <2>7, <2>8 DEF r
<1> QED
  BY <1>8, <1>9

(* What one more unit adds to the claims of the depositors.                *)
LEMMA IncomeOfAUnit ==
  ASSUME NEW s \in Nat, NEW l \in Nat, l >= RAY, NEW rate \in Nat, NEW n \in Nat
  PROVE  LET c == RayMul(s, l)
             i == RayMul(LinearInterest(rate, n), l)
             j == RayMul(LinearInterest(rate, n + 1), l)
         IN  /\ i \in Nat /\ j \in Nat /\ i <= j
             /\ SECONDS_PER_YEAR * (2 * (s * (j - i)))
                  <= rate * (2 * c + 1) + SECONDS_PER_YEAR * (4 * c + 1)
<1> DEFINE Y == SECONDS_PER_YEAR
           f == LinearInterest(rate, n)
           g == LinearInterest(rate, n + 1)
           c == RayMul(s, l)
           i == RayMul(f, l)
           j == RayMul(g, l)
<1>1. Y \in Nat \ {0} /\ RAY \in Nat \ {0}
  BY ScalesPositive
<1>2. f \in Nat /\ g \in Nat /\ f <= g /\ Y * (g - f) <= rate + Y
  BY LinearStep
<1> HIDE DEF f, g, Y
<1>3. /\ i \in Nat /\ j \in Nat /\ i <= j
      /\ 2 * (f * l) <= 2 * (i * RAY) + RAY
      /\ 2 * (j * RAY) <= 2 * (g * l) + RAY
  BY <1>2, RayMulBounds, RayMulMonotone
<1>4. /\ c \in Nat
      /\ 2 * (s * l) <= 2 * (c * RAY) + RAY
      /\ s <= c
  <2>1. RayMul(l, s) >= s
    BY RayMulGrows
  <2>2. s * l = l * s
    OBVIOUS
  <2>3. RayMul(l, s) = c
    BY <2>2 DEF RayMul
  <2> QED
    BY <2>1, <2>3, RayMulBounds
<1> HIDE DEF c, i, j
<1> DEFINE k == j - i
           h == g - f
           sl == s * l
<1>5. k \in Nat /\ h \in Nat /\ sl \in Nat
  BY <1>2, <1>3
<1>6. RAY * k <= h * l + RAY
  <2> DEFINE fl == f * l
             gl == g * l
             ir == i * RAY
             jr == j * RAY
  <2>1. /\ fl \in Nat /\ gl \in Nat /\ ir \in Nat /\ jr \in Nat
        /\ RAY * k = jr - ir /\ h * l = gl - fl
    BY <1>1, <1>2, <1>3
  <2>2. 2 * fl <= 2 * ir + RAY /\ 2 * jr <= 2 * gl + RAY
    BY <1>3
  <2> HIDE DEF fl, gl, ir, jr, k, h
  <2> QED
    BY <1>1, <1>5, <2>1, <2>2
<1>7. Y * h <= rate + Y
  BY <1>2
<1> HIDE DEF k, h
<1>8. s * (RAY * k) <= s * (h * l + RAY)
  <2> DEFINE p == RAY * k
             q == h * l + RAY
  <2>1. p \in Nat /\ q \in Nat /\ p <= q
    BY <1>1, <1>5, <1>6
  <2> HIDE DEF p, q
  <2>2. s * p <= s * q
    BY <2>1
  <2> QED
    BY <2>2 DEF p, q
<1>9. RAY * (Y * (2 * (s * k))) <= (2 * sl) * (Y * h) + 2 * (Y * (s * RAY))
  <2> DEFINE p == s * (RAY * k)
             q == s * (h * l + RAY)
  <2>1. p \in Nat /\ q \in Nat /\ p <= q
    BY <1>1, <1>5, <1>8
  <2>2. /\ RAY * (Y * (2 * (s * k))) = (2 * Y) * p
        /\ (2 * sl) * (Y * h) + 2 * (Y * (s * RAY)) = (2 * Y) * q
    BY <1>1, <1>5
  <2> HIDE DEF p, q, sl
  <2>3. (2 * Y) * p <= (2 * Y) * q
    BY <1>1, <2>1
  <2> QED
    BY <2>2, <2>3
<1> HIDE DEF sl
<1>10. (2 * sl) * (Y * h) <= (2 * (c * RAY) + RAY) * (rate + Y)
  <2> DEFINE p == 2 * sl
             q == 2 * (c * RAY) + RAY
             u == Y * h
             v == rate + Y
  <2>1. p \in Nat /\ q \in Nat /\ p <= q /\ u \in Nat /\ v \in Nat /\ u <= v
    BY <1>1, <1>4, <1>5, <1>7 DEF sl
  <2> HIDE DEF p, q, u, v
  <2>2. p * u <= q * u /\ q * u <= q * v /\ p * u \in Nat /\ q * u \in Nat /\ q * v \in Nat
    BY <2>1
  <2>3. p * u <= q * v
    BY <2>2
  <2> QED
    BY <2>3 DEF p, q, u, v
<1>11. RAY * (Y * (2 * (s * k))) <= RAY * (rate * (2 * c + 1) + Y * (4 * c + 1))
  <2> DEFINE a == RAY * (Y * (2 * (s * k)))
             p == (2 * sl) * (Y * h)
             q == (2 * (c * RAY) + RAY) * (rate + Y)
             u == Y * (s * RAY)
             v == Y * (c * RAY)
  <2>1. a \in Nat /\ p \in Nat /\ q \in Nat /\ u \in Nat /\ v \in Nat
    BY <1>1, <1>4, <1>5
  <2>2. u <= v
    <3> DEFINE y == Y * RAY
    <3>1. y \in Nat /\ u = y * s /\ v = y * c
      BY <1>1, <1>4
    <3> HIDE DEF y, u, v
    <3>2. y * s <= y * c
      BY <1>4, <3>1
    <3> QED
      BY <3>1, <3>2
  <2>3. q + 2 * v = RAY * (rate * (2 * c + 1) + Y * (4 * c + 1))
    BY <1>1, <1>4
  <2>4. a <= p + 2 * u /\ p <= q
    BY <1>9, <1>10
  <2> HIDE DEF a, p, q, u, v
  <2>5. a <= q + 2 * v
    BY <2>1, <2>2, <2>4
  <2> QED
    BY <2>3, <2>5 DEF a
<1>12. Y * (2 * (s * k)) <= rate * (2 * c + 1) + Y * (4 * c + 1)
  <2> DEFINE x == Y * (2 * (s * k))
             y == rate * (2 * c + 1) + Y * (4 * c + 1)
  <2>1. x \in Int /\ y \in Int /\ RAY * x <= RAY * y
    BY <1>1, <1>4, <1>5, <1>11
  <2> HIDE DEF x, y
  <2>2. x <= y
    BY <1>1, <2>1, FactorCancels
  <2> QED
    BY <2>2 DEF x, y
<1> QED
  BY <1>3, <1>12 DEF k, c, i, j, f, g, Y

(* What one more unit adds to what the borrowers owe.                      *)
LEMMA ChargeOfAUnit ==
  ASSUME NEW s \in Nat \ {0}, NEW l \in Nat, l >= RAY, NEW rate \in Nat, NEW n \in Nat
  PROVE  LET d == RayMul(s, l)
             e == RayMul(s, RayMul(CompoundedInterest(rate, n), l))
             f == RayMul(s, RayMul(CompoundedInterest(rate, n + 1), l))
         IN  /\ d \in Nat \ {0} /\ e \in Nat /\ f \in Nat
             /\ d <= e /\ e <= f
             /\ rate * (2 * d - 1)
                  <= SECONDS_PER_YEAR * (2 * (RAY * (f - e)))
                       + SECONDS_PER_YEAR * (4 * d + 2 * RAY)
<1> DEFINE Y == SECONDS_PER_YEAR
           r == rate \div Y
           p == CompoundedInterest(rate, n)
           q == CompoundedInterest(rate, n + 1)
           i == RayMul(p, l)
           j == RayMul(q, l)
           d == RayMul(s, l)
           e == RayMul(s, i)
           f == RayMul(s, j)
<1>1. Y \in Nat \ {0} /\ RAY \in Nat \ {0}
  BY ScalesPositive
<1>2. r \in Nat /\ rate <= r * Y + Y
  BY <1>1, QuotientBounds
<1>3. p \in Nat /\ q \in Nat /\ p >= RAY /\ q >= p + r
  BY CompoundedStep, CompoundedInterestAtLeastOne
<1> HIDE DEF p, q, r, Y
<1>4. /\ i \in Nat /\ j \in Nat
      /\ l <= i /\ i <= j
      /\ 2 * (i * RAY) <= 2 * (p * l) + RAY
      /\ 2 * (q * l) <= 2 * (j * RAY) + RAY
  <2>1. p <= q
    BY <1>2, <1>3
  <2> QED
    BY <1>3, <2>1, RayMulBounds, RayMulMonotone, RayMulGrows
<1>5. /\ d \in Nat /\ s <= d
      /\ 2 * (d * RAY) <= 2 * (s * l) + RAY
  <2>1. RayMul(l, s) >= s
    BY RayMulGrows
  <2>2. s * l = l * s
    OBVIOUS
  <2>3. RayMul(l, s) = d
    BY <2>2 DEF RayMul
  <2> QED
    BY <2>1, <2>3, RayMulBounds
<1> HIDE DEF i, j
<1>6. /\ e \in Nat /\ f \in Nat /\ d <= e /\ e <= f
      /\ 2 * (e * RAY) <= 2 * (s * i) + RAY
      /\ 2 * (s * j) <= 2 * (f * RAY) + RAY
  BY <1>4, RayMulBounds, RayMulMonotone
<1> HIDE DEF d, e, f
<1> DEFINE k == j - i
           F == f - e
           sl == s * l
<1>7. k \in Nat /\ F \in Nat /\ sl \in Nat
  BY <1>4, <1>6
<1>8. r * l <= RAY * k + RAY
  <2> DEFINE pl == p * l
             ql == q * l
             ir == i * RAY
             jr == j * RAY
             rl == r * l
  <2>1. /\ pl \in Nat /\ ql \in Nat /\ ir \in Nat /\ jr \in Nat /\ rl \in Nat
        /\ RAY * k = jr - ir
    BY <1>1, <1>2, <1>3, <1>4
  <2>2. pl + rl <= ql
    <3> DEFINE a == p + r
    <3>1. a \in Nat /\ a <= q /\ a * l = pl + rl
      BY <1>2, <1>3
    <3> HIDE DEF a, pl, rl
    <3>2. a * l <= q * l
      BY <1>3, <3>1
    <3> QED
      BY <3>1, <3>2
  <2>3. 2 * ir <= 2 * pl + RAY /\ 2 * ql <= 2 * jr + RAY
    BY <1>4
  <2> HIDE DEF pl, ql, ir, jr, rl, k
  <2>4. rl <= RAY * k + RAY
    BY <1>1, <1>7, <2>1, <2>2, <2>3
  <2> QED
    BY <2>4 DEF rl
<1>9. s * k <= RAY * F + RAY
  <2> DEFINE si == s * i
             sj == s * j
             er == e * RAY
             fr == f * RAY
  <2>1. /\ si \in Nat /\ sj \in Nat /\ er \in Nat /\ fr \in Nat
        /\ RAY * F = fr - er /\ s * k = sj - si
    BY <1>1, <1>4, <1>6
  <2>2. 2 * er <= 2 * si + RAY /\ 2 * sj <= 2 * fr + RAY
    BY <1>6
  <2> HIDE DEF si, sj, er, fr, k, F
  <2> QED
    BY <1>1, <1>7, <2>1, <2>2
<1> HIDE DEF k, F
<1>10. r * sl <= RAY * (RAY * F + RAY) + RAY * s
  <2> DEFINE x == r * l
             y == RAY * k + RAY
             u == s * k
             v == RAY * F + RAY
  <2>1. x \in Nat /\ y \in Nat /\ u \in Nat /\ v \in Nat /\ x <= y /\ u <= v
    BY <1>1, <1>2, <1>7, <1>8, <1>9
  <2>2. s * x = r * sl /\ s * y = RAY * u + RAY * s
    BY <1>1, <1>2, <1>7
  <2> HIDE DEF x, y, u, v, sl
  <2>3. s * x <= s * y /\ RAY * u <= RAY * v
    BY <1>1, <2>1
  <2>4. r * sl \in Nat /\ RAY * u \in Nat /\ RAY * v \in Nat /\ RAY * s \in Nat
    BY <1>1, <1>2, <1>7, <2>1
  <2>5. r * sl <= RAY * v + RAY * s
    BY <2>2, <2>3, <2>4
  <2> QED
    BY <2>5 DEF v
<1>11. r * (2 * d - 1) <= 2 * (RAY * F) + 2 * RAY + 2 * d
  <2> DEFINE dr == d * RAY
             w == 2 * dr - RAY
             z == 2 * sl
  <2>1. dr \in Nat /\ w \in Int /\ z \in Nat /\ 2 * dr <= 2 * sl + RAY
    BY <1>1, <1>5, <1>7
  <2>2. w <= z
    <3> HIDE DEF dr, sl
    <3> QED
      BY <1>1, <1>7, <2>1
  <2>3. RAY * (r * (2 * d - 1)) = r * w
        /\ RAY * (2 * (RAY * F) + 2 * RAY + 2 * d)
             = 2 * (RAY * (RAY * F + RAY) + RAY * s) + 2 * (RAY * (d - s))
        /\ r * z = 2 * (r * sl)
    BY <1>1, <1>2, <1>5, <1>7
  <2>4. RAY * (d - s) \in Nat
    BY <1>1, <1>5
  <2> DEFINE a == RAY * (RAY * F + RAY) + RAY * s
             g == RAY * (d - s)
             h == r * sl
  <2>5. a \in Nat /\ h \in Nat /\ g \in Nat /\ h <= a
    BY <1>1, <1>2, <1>7, <1>10, <2>4
  <2>6. r * w <= r * z
    <3> HIDE DEF w, z
    <3> QED
      BY <1>2, <2>1, <2>2
  <2>7. r * w \in Int
    BY <1>2, <2>1
  <2> DEFINE rw == r * w
             x == r * (2 * d - 1)
             y == 2 * (RAY * F) + 2 * RAY + 2 * d
  <2>8. RAY * x = rw /\ RAY * y = 2 * a + 2 * g /\ rw <= 2 * h /\ rw \in Int
    BY <2>3, <2>6, <2>7
  <2>9. x \in Int /\ y \in Int
    BY <1>1, <1>2, <1>5, <1>7
  <2> HIDE DEF a, g, h, rw, x, y
  <2>10. RAY * x <= RAY * y
    BY <2>5, <2>8
  <2>11. x <= y
    BY <1>1, <2>9, <2>10, FactorCancels
  <2> QED
    BY <2>11 DEF x, y
<1>12. rate * (2 * d - 1) <= Y * (2 * (RAY * F)) + Y * (4 * d + 2 * RAY)
  <2> DEFINE m == 2 * d - 1
             x == r * m
             y == 2 * (RAY * F) + 2 * RAY + 2 * d
  <2>1. m \in Nat /\ x \in Nat /\ y \in Nat /\ x <= y
    BY <1>1, <1>2, <1>5, <1>7, <1>11
  <2>2. rate * m <= (r * Y + Y) * m
    <3> DEFINE a == r * Y + Y
    <3>1. a \in Nat /\ rate <= a
      BY <1>1, <1>2
    <3> HIDE DEF a, m
    <3>2. rate * m <= a * m
      BY <2>1, <3>1
    <3> QED
      BY <3>2 DEF a
  <2>3. (r * Y + Y) * m = Y * x + Y * m
    <3> HIDE DEF m
    <3> QED
      BY <1>1, <1>2, <2>1
  <2>4. Y * x <= Y * y
    <3> HIDE DEF x, y
    <3> QED
      BY <1>1, <2>1
  <2>5. Y * y + Y * m + Y = Y * (2 * (RAY * F)) + Y * (4 * d + 2 * RAY)
    BY <1>1, <1>5, <1>7
  <2> DEFINE a == rate * m
             b == Y * x
             c == Y * y
             g == Y * m
  <2>6. a \in Nat /\ b \in Nat /\ c \in Nat /\ g \in Nat
    BY <1>1, <2>1
  <2>7. a <= b + g /\ b <= c /\ c + g + Y = Y * (2 * (RAY * F)) + Y * (4 * d + 2 * RAY)
    BY <2>2, <2>3, <2>4, <2>5
  <2> HIDE DEF a, b, c, g, m
  <2>8. a <= c + g + Y
    BY <1>1, <2>6, <2>7
  <2> QED
    BY <2>7, <2>8 DEF a, m
<1>13. d \in Nat \ {0}
  BY <1>5
<1> QED
  BY <1>6, <1>12, <1>13 DEF F, d, e, f, i, j, p, q, Y

(* The rate the depositors earn on everything is no more than their share  *)
(* of what the borrowers pay on the debt, up to rounding.                  *)
LEMMA IncomeRateBound ==
  ASSUME NEW cash \in Nat, NEW d \in Nat \ {0}, NEW br \in Nat, NEW k \in Nat,
         k <= PERCENTAGE_FACTOR
  PROVE  LET v == cash + d
             y == RayMul(OverallBorrowRate(d, br), UtilizationRate(cash, d))
             lr == PercentMul(y, k)
             P == PERCENTAGE_FACTOR
         IN  4 * (RAY * (P * (lr * (2 * v))))
               <= 8 * (RAY * (k * (d * br)))
                    + P * (4 * (RAY * RAY) + 4 * (RAY * d) + 4 * (v * br)
                             + 10 * (v * RAY) + 2 * v)
<1> DEFINE R == RAY
           P == PERCENTAGE_FACTOR
           W == WAD_RAY_RATIO
           v == cash + d
           w == WadToRay(d)
           m == RayMul(w, br)
           O == RayDiv(m, w)
           U == RayDiv(d, v)
           y == RayMul(O, U)
           lr == PercentMul(y, k)
<1>1. R \in Nat \ {0} /\ P \in Nat \ {0} /\ W \in Nat \ {0}
  BY ScalesPositive
<1>2. w = d * W /\ w \in Nat \ {0} /\ v \in Nat \ {0} /\ d <= v
  BY <1>1 DEF WadToRay
<1>3. OverallBorrowRate(d, br) = O /\ UtilizationRate(cash, d) = U
  BY DEF OverallBorrowRate, UtilizationRate
<1> HIDE DEF W, w, v
<1>4. m \in Nat /\ 2 * (m * R) <= 2 * (w * br) + R
  BY <1>2, RayMulBounds
<1> HIDE DEF m
<1>5. O \in Nat /\ 2 * (O * w) <= 2 * (m * R) + w
  BY <1>2, <1>4, RayDivBounds
<1>6. U \in Nat /\ 2 * (U * v) <= 2 * (d * R) + v
  BY <1>2, RayDivBounds
<1> HIDE DEF O, U
<1>7. y \in Nat /\ 2 * (y * R) <= 2 * (O * U) + R
  BY <1>5, <1>6, RayMulBounds
<1> HIDE DEF y
<1>8. lr \in Nat /\ 2 * (lr * P) <= 2 * (y * k) + P
  BY <1>7, PercentMulBounds
<1> HIDE DEF lr, R, P
<1>9. 2 * (O * w) <= 2 * (w * br) + R + w
  <2> DEFINE a == O * w
             b == m * R
             c == w * br
  <2>1. a \in Nat /\ b \in Nat /\ c \in Nat /\ 2 * a <= 2 * b + w /\ 2 * b <= 2 * c + R
    BY <1>1, <1>2, <1>4, <1>5
  <2> HIDE DEF a, b, c
  <2>2. 2 * a <= 2 * c + R + w
    BY <1>1, <1>2, <2>1
  <2> QED
    BY <2>2 DEF a, c
<1>10. 2 * (O * d) <= 2 * (d * br) + R + d
  <2> DEFINE x == 2 * (O * d)
             z == 2 * (d * br) + R + d
  <2>1. x \in Int /\ z \in Int
    BY <1>1, <1>5
  <2>2. W * x = 2 * (O * w) /\ W * z = 2 * (w * br) + W * R + w
    BY <1>1, <1>2, <1>5
  <2>3. R <= W * R /\ W * R \in Nat
    BY <1>1
  <2> DEFINE a == O * w
             b == w * br
             c == W * R
  <2>4. a \in Nat /\ b \in Nat /\ c \in Nat /\ 2 * a <= 2 * b + R + w /\ R <= c
    BY <1>1, <1>2, <1>5, <1>9, <2>3
  <2>5. W * x = 2 * a /\ W * z = 2 * b + c + w
    BY <2>2
  <2> HIDE DEF a, b, c, x, z
  <2>6. W * x <= W * z
    BY <1>1, <1>2, <2>4, <2>5
  <2>7. x <= z
    BY <1>1, <2>1, <2>6, FactorCancels
  <2> QED
    BY <2>7 DEF x, z
<1>11. 2 * O <= 2 * br + R + 1
  <2> DEFINE x == 2 * O
             z == 2 * br + R + 1
  <2>1. x \in Int /\ z \in Int
    BY <1>1, <1>5
  <2>2. d * x = 2 * (O * d) /\ d * z = 2 * (d * br) + d * R + d
    BY <1>1, <1>5
  <2>3. R <= d * R /\ d * R \in Nat
    BY <1>1
  <2> DEFINE a == O * d
             b == d * br
             c == d * R
  <2>4. a \in Nat /\ b \in Nat /\ c \in Nat /\ 2 * a <= 2 * b + R + d /\ R <= c
    BY <1>1, <1>5, <1>10, <2>3
  <2>5. d * x = 2 * a /\ d * z = 2 * b + c + d
    BY <2>2
  <2> HIDE DEF a, b, c, x, z
  <2>6. d * x <= d * z
    BY <1>1, <2>4, <2>5
  <2>7. x <= z
    BY <2>1, <2>6, FactorCancels
  <2> QED
    BY <2>7 DEF x, z
<1> DEFINE kv == k * v
           rv == R * v
           kvr == kv * R
           ky == kv * y
           ou == O * U
           ko == k * O
<1>12. kv \in Nat /\ rv \in Nat /\ kvr \in Nat /\ ky \in Nat /\ ou \in Nat /\ ko \in Nat
  BY <1>1, <1>2, <1>5, <1>6, <1>7
<1>13. (4 * rv) * (2 * (lr * P)) <= (4 * rv) * (2 * (y * k) + P)
  <2> DEFINE a == 2 * (lr * P)
             b == 2 * (y * k) + P
             c == 4 * rv
  <2>1. a \in Nat /\ b \in Nat /\ c \in Nat /\ a <= b
    BY <1>1, <1>7, <1>8, <1>12
  <2> HIDE DEF a, b, c
  <2>2. c * a <= c * b
    BY <2>1
  <2> QED
    BY <2>2 DEF a, b, c
<1>14. (4 * kv) * (2 * (y * R)) <= (4 * kv) * (2 * ou + R)
  <2> DEFINE a == 2 * (y * R)
             b == 2 * ou + R
             c == 4 * kv
  <2>1. a \in Nat /\ b \in Nat /\ c \in Nat /\ a <= b
    BY <1>1, <1>7, <1>12
  <2> HIDE DEF a, b, c
  <2>2. c * a <= c * b
    BY <2>1
  <2> QED
    BY <2>2 DEF a, b, c
<1>15. (4 * ko) * (2 * (U * v)) <= (4 * ko) * (2 * (d * R) + v)
  <2> DEFINE a == 2 * (U * v)
             b == 2 * (d * R) + v
             c == 4 * ko
  <2>1. a \in Nat /\ b \in Nat /\ c \in Nat /\ a <= b
    BY <1>1, <1>2, <1>6, <1>12
  <2> HIDE DEF a, b, c
  <2>2. c * a <= c * b
    BY <2>1
  <2> QED
    BY <2>2 DEF a, b, c
<1>16. (4 * (k * R)) * (2 * (O * d)) <= (4 * (k * R)) * (2 * (d * br) + R + d)
  <2> DEFINE a == 2 * (O * d)
             b == 2 * (d * br) + R + d
             c == 4 * (k * R)
  <2>1. a \in Nat /\ b \in Nat /\ c \in Nat /\ a <= b
    BY <1>1, <1>5, <1>10
  <2> HIDE DEF a, b, c
  <2>2. c * a <= c * b
    BY <2>1
  <2> QED
    BY <2>2 DEF a, b, c
<1>17. (2 * kv) * (2 * O) <= (2 * kv) * (2 * br + R + 1)
  <2> DEFINE a == 2 * O
             b == 2 * br + R + 1
             c == 2 * kv
  <2>1. a \in Nat /\ b \in Nat /\ c \in Nat /\ a <= b
    BY <1>1, <1>5, <1>11, <1>12
  <2> HIDE DEF a, b, c
  <2>2. c * a <= c * b
    BY <2>1
  <2> QED
    BY <2>2 DEF a, b, c
<1> DEFINE T0 == R * (P * (lr * v))
           T1 == kv * (y * R)
           T2 == kv * ou
           T3 == k * R * (O * d)
           T4 == kv * O
           T5 == k * R * (d * br)
           X1 == rv * P
           X2 == kv * R
           X3 == k * R * R
           X4 == k * R * d
           X5 == kv * br
<1>18. /\ T0 \in Nat /\ T1 \in Nat /\ T2 \in Nat /\ T3 \in Nat /\ T4 \in Nat /\ T5 \in Nat
       /\ X1 \in Nat /\ X2 \in Nat /\ X3 \in Nat /\ X4 \in Nat /\ X5 \in Nat
  <2>1. /\ lr * v \in Nat /\ y * R \in Nat /\ k * R \in Nat /\ O * d \in Nat /\ d * br \in Nat
        /\ ou \in Nat /\ rv \in Nat /\ kv \in Nat
    BY <1>1, <1>2, <1>5, <1>7, <1>8, <1>12
  <2>2. P * (lr * v) \in Nat
    BY <1>1, <2>1
  <2> HIDE DEF kv, ou, rv
  <2> QED
    BY <1>1, <1>5, <2>1, <2>2
<1>19. 8 * T0 <= 8 * T1 + 4 * X1
  <2>1. (4 * rv) * (2 * (lr * P)) = 8 * T0 /\ (4 * rv) * (2 * (y * k) + P) = 8 * T1 + 4 * X1
    BY <1>1, <1>2, <1>7, <1>8
  <2> QED
    BY <1>13, <2>1
<1>20. 8 * T1 <= 8 * T2 + 4 * X2
  <2>1. (4 * kv) * (2 * (y * R)) = 8 * T1 /\ (4 * kv) * (2 * ou + R) = 8 * T2 + 4 * X2
    <3> HIDE DEF kv, ou
    <3> QED
      BY <1>1, <1>7, <1>12
  <2> QED
    BY <1>14, <2>1
<1>21. 8 * T2 <= 8 * T3 + 4 * T4
  <2>1. (4 * ko) * (2 * (U * v)) = 8 * T2
    BY <1>2, <1>5, <1>6
  <2>2. (4 * ko) * (2 * (d * R) + v) = 8 * T3 + 4 * T4
    BY <1>1, <1>2, <1>5
  <2> QED
    BY <1>15, <2>1, <2>2
<1>22. 8 * T3 <= 8 * T5 + 4 * X3 + 4 * X4
  <2>1. (4 * (k * R)) * (2 * (O * d)) = 8 * T3
        /\ (4 * (k * R)) * (2 * (d * br) + R + d) = 8 * T5 + 4 * X3 + 4 * X4
    BY <1>1, <1>5
  <2> QED
    BY <1>16, <2>1
<1>23. 4 * T4 <= 4 * X5 + 2 * X2 + 2 * kv
  <2>1. (2 * kv) * (2 * O) = 4 * T4
        /\ (2 * kv) * (2 * br + R + 1) = 4 * X5 + 2 * X2 + 2 * kv
    <3> HIDE DEF kv
    <3> QED
      BY <1>1, <1>5, <1>12
  <2> QED
    BY <1>17, <2>1
<1> DEFINE Q1 == P * (R * R)
           Q2 == P * (R * d)
           Q3 == P * (v * br)
           Q4 == P * (v * R)
           Q5 == P * v
<1>24. /\ X3 <= Q1 /\ X4 <= Q2 /\ X5 <= Q3 /\ X2 <= Q4 /\ kv <= Q5 /\ X1 = Q4
       /\ Q1 \in Nat /\ Q2 \in Nat /\ Q3 \in Nat /\ Q4 \in Nat /\ Q5 \in Nat
  <2>1. ASSUME NEW x \in Nat PROVE k * x <= P * x /\ P * x \in Nat
    BY <1>1, <2>1 DEF P
  <2>2. R * R \in Nat /\ R * d \in Nat /\ v * br \in Nat /\ v * R \in Nat /\ v \in Nat
    BY <1>1, <1>2
  <2>3. X3 = k * (R * R) /\ X4 = k * (R * d) /\ X5 = k * (v * br) /\ X2 = k * (v * R)
    BY <1>1, <1>2
  <2>4. X1 = Q4
    BY <1>1, <1>2
  <2> QED
    BY <2>1, <2>2, <2>3, <2>4
<1> HIDE DEF T0, T1, T2, T3, T4, T5, X1, X2, X3, X4, X5
<1>25. 8 * T0 <= 8 * T5 + (4 * Q1 + 4 * Q2 + 4 * Q3 + 10 * Q4 + 2 * Q5)
  <2> HIDE DEF Q1, Q2, Q3, Q4, Q5, kv
  <2> QED
    BY <1>12, <1>18, <1>19, <1>20, <1>21, <1>22, <1>23, <1>24
<1>26. P * (4 * (R * R) + 4 * (R * d) + 4 * (v * br) + 10 * (v * R) + 2 * v)
         = 4 * Q1 + 4 * Q2 + 4 * Q3 + 10 * Q4 + 2 * Q5
  BY <1>1, <1>2
<1>27. 4 * (R * (P * (lr * (2 * v)))) = 8 * T0 /\ 8 * (R * (k * (d * br))) = 8 * T5
  <2>1. lr * (2 * v) = 2 * (lr * v) /\ lr * v \in Nat /\ d * br \in Nat
    BY <1>2, <1>8
  <2> DEFINE a == lr * v
             b == d * br
  <2>2. a \in Nat /\ b \in Nat /\ lr * (2 * v) = 2 * a
    BY <2>1
  <2>3. T0 = R * (P * a) /\ T5 = k * R * b
    BY DEF T0, T5
  <2> HIDE DEF a, b
  <2>4. 4 * (R * (P * (2 * a))) = 8 * (R * (P * a)) /\ 8 * (R * (k * b)) = 8 * (k * R * b)
    BY <1>1, <2>2
  <2> QED
    BY <2>2, <2>3, <2>4 DEF b
<1>28. 4 * (R * (P * (lr * (2 * v))))
         <= 8 * (R * (k * (d * br)))
              + P * (4 * (R * R) + 4 * (R * d) + 4 * (v * br) + 10 * (v * R) + 2 * v)
  BY <1>25, <1>26, <1>27
<1> QED
  BY <1>3, <1>28 DEF R, P, v, lr, y

(* What the parts add up to, in rays of rays of a year of percents.        *)
LEMMA PartsAddUp ==
  ASSUME NEW x \in Int, NEW J \in Nat, NEW F \in Nat, NEW j \in Nat,
         NEW c \in Nat, NEW d \in Nat \ {0}, NEW v \in Nat, NEW g \in Nat,
         NEW lr \in Nat, NEW br \in Nat, NEW k \in Nat,
         d <= v, c <= v + g, k <= PERCENTAGE_FACTOR,
         2 * (RAY * (PERCENTAGE_FACTOR * x))
           <= 2 * (PERCENTAGE_FACTOR * J) - 2 * (RAY * (k * F))
                + 2 * (PERCENTAGE_FACTOR * j) + 4 * (RAY * PERCENTAGE_FACTOR),
         SECONDS_PER_YEAR * (2 * J) <= lr * (2 * c + 1) + SECONDS_PER_YEAR * (4 * c + 1),
         br * (2 * d - 1)
           <= SECONDS_PER_YEAR * (2 * (RAY * F)) + SECONDS_PER_YEAR * (4 * d + 2 * RAY),
         4 * (RAY * (PERCENTAGE_FACTOR * (lr * (2 * v))))
           <= 8 * (RAY * (k * (d * br)))
                + PERCENTAGE_FACTOR * (4 * (RAY * RAY) + 4 * (RAY * d) + 4 * (v * br)
                                         + 10 * (v * RAY) + 2 * v)
  PROVE  LET R == RAY
             Y == SECONDS_PER_YEAR
         IN  8 * (R * R * Y * x)
               <= 4 * (R * R) + 4 * (R * d) + 4 * (v * br) + 10 * (v * R) + 2 * v
                    + 4 * (R * (lr * (2 * g + 1))) + 4 * (R * Y * (4 * c + 1))
                    + 4 * (R * Y * (4 * d + 2 * R)) + 4 * (R * br)
                    + 8 * (R * Y * j) + 16 * (R * R * Y)
<1> DEFINE R == RAY
           P == PERCENTAGE_FACTOR
           Y == SECONDS_PER_YEAR
           M == 4 * (R * R) + 4 * (R * d) + 4 * (v * br) + 10 * (v * R) + 2 * v
           I == lr * (2 * g + 1)
           C == Y * (4 * c + 1)
           D == Y * (4 * d + 2 * R)
           yj == Y * (2 * J)
           yf == Y * (2 * (R * F))
           lv == lr * (2 * v)
           db == d * br
<1>1. R \in Nat \ {0} /\ P \in Nat \ {0} /\ Y \in Nat \ {0}
  BY ScalesPositive
<1>2. /\ M \in Nat /\ I \in Nat /\ C \in Nat /\ D \in Nat /\ yj \in Nat /\ yf \in Nat
      /\ lv \in Nat /\ db \in Nat
  BY <1>1
<1>3. yj <= lv + I + C
  <2> DEFINE a == 2 * c + 1
             b == 2 * v + (2 * g + 1)
  <2>1. a \in Nat /\ b \in Nat /\ a <= b
    OBVIOUS
  <2>2. lr * a <= lr * b
    <3> HIDE DEF a, b
    <3> QED
      BY <2>1
  <2>3. lr * b = lv + I /\ lr * a \in Nat
    OBVIOUS
  <2>4. yj <= lr * a + C
    OBVIOUS
  <2> DEFINE la == lr * a
  <2>5. la \in Nat /\ la <= lv + I /\ yj <= la + C
    BY <2>2, <2>3, <2>4
  <2> HIDE DEF la, yj, lv, I, C
  <2> QED
    BY <1>2, <2>5
<1>4. 2 * db <= yf + D + br
  <2>1. br * (2 * d - 1) = 2 * db - br
    OBVIOUS
  <2>2. br * (2 * d - 1) <= yf + D
    OBVIOUS
  <2> HIDE DEF db, yf, D
  <2> QED
    BY <1>2, <2>1, <2>2
<1>5. 4 * (R * (P * lv)) <= 8 * (R * (k * db)) + P * M
  OBVIOUS
<1>6. 2 * (R * (P * x)) <= 2 * (P * J) - 2 * (R * (k * F)) + 2 * (P * j) + 4 * (R * P)
  OBVIOUS
<1>7. (4 * (R * Y)) * (2 * (R * (P * x)))
        <= (4 * (R * Y)) * (2 * (P * J) - 2 * (R * (k * F)) + 2 * (P * j) + 4 * (R * P))
  <2> DEFINE a == 2 * (R * (P * x))
             b == 2 * (P * J) - 2 * (R * (k * F)) + 2 * (P * j) + 4 * (R * P)
             z == 4 * (R * Y)
  <2>1. a \in Int /\ b \in Int /\ z \in Nat /\ a <= b
    BY <1>1, <1>6
  <2> HIDE DEF a, b, z
  <2>2. z * a <= z * b
    BY <2>1
  <2> QED
    BY <2>2 DEF a, b, z
<1> DEFINE K == P * (R * R * Y * x)
           pyj == R * (P * yj)
           kyf == R * (k * yf)
           pj == P * (R * Y * j)
           pr == P * (R * R * Y)
<1>8. 8 * K <= 4 * pyj - 4 * kyf + 8 * pj + 16 * pr
  <2>1. (4 * (R * Y)) * (2 * (R * (P * x))) = 8 * K
    BY <1>1
  <2>2. (4 * (R * Y)) * (2 * (P * J) - 2 * (R * (k * F)) + 2 * (P * j) + 4 * (R * P))
          = 4 * pyj - 4 * kyf + 8 * pj + 16 * pr
    BY <1>1
  <2> HIDE DEF K, pyj, kyf, pj, pr
  <2> QED
    BY <1>7, <2>1, <2>2
<1>9. K \in Int /\ pyj \in Nat /\ kyf \in Nat /\ pj \in Nat /\ pr \in Nat
  <2> HIDE DEF yj, yf
  <2> QED
    BY <1>1, <1>2
<1> HIDE DEF M, I, C, D, yj, yf, lv, db, R, P, Y
<1> DEFINE plv == R * (P * lv)
           pI == P * (R * I)
           pC == P * (R * C)
           kdb == R * (k * db)
           kD == k * (R * D)
           kb == k * (R * br)
           pM == P * M
           pD == P * (R * D)
           pb == P * (R * br)
<1>10. /\ plv \in Nat /\ pI \in Nat /\ pC \in Nat /\ kdb \in Nat /\ kD \in Nat /\ kb \in Nat
       /\ pM \in Nat /\ pD \in Nat /\ pb \in Nat
  BY <1>1, <1>2
<1>11. pyj <= plv + pI + pC
  <2> DEFINE b == lv + I + C
             z == R * P
  <2>1. b \in Nat /\ z \in Nat /\ yj <= b /\ pyj = z * yj /\ plv + pI + pC = z * b
    BY <1>1, <1>2, <1>3
  <2> HIDE DEF b, z, pyj, plv, pI, pC
  <2>2. z * yj <= z * b
    BY <1>2, <2>1
  <2> QED
    BY <2>1, <2>2
<1>12. 2 * kdb <= kyf + kD + kb
  <2> DEFINE a == 2 * db
             b == yf + D + br
             z == R * k
  <2>1. a \in Nat /\ b \in Nat /\ z \in Nat /\ a <= b /\ 2 * kdb = z * a /\ kyf + kD + kb = z * b
    BY <1>1, <1>2, <1>4
  <2> HIDE DEF a, b, z, kdb, kyf, kD, kb
  <2>2. z * a <= z * b
    BY <2>1
  <2> QED
    BY <2>1, <2>2
<1>13. 4 * plv <= 8 * kdb + pM
  BY <1>5
<1>14. kD <= pD /\ kb <= pb
  <2>1. ASSUME NEW z \in Nat PROVE k * z <= P * z
    BY <1>1, <2>1 DEF P
  <2>2. R * D \in Nat /\ R * br \in Nat
    BY <1>1, <1>2
  <2> QED
    BY <2>1, <2>2
<1> HIDE DEF K, pyj, kyf, pj, pr, plv, pI, pC, kdb, kD, kb, pM, pD, pb
<1>15. 8 * K <= pM + 4 * pI + 4 * pC + 4 * pD + 4 * pb + 8 * pj + 16 * pr
  BY <1>8, <1>9, <1>10, <1>11, <1>12, <1>13, <1>14
<1> DEFINE a == 8 * (R * R * Y * x)
           b == M + 4 * (R * I) + 4 * (R * C) + 4 * (R * D) + 4 * (R * br)
                  + 8 * (R * Y * j) + 16 * (R * R * Y)
<1>16. P * a = 8 * K /\ P * b = pM + 4 * pI + 4 * pC + 4 * pD + 4 * pb + 8 * pj + 16 * pr
  BY <1>1, <1>2 DEF K, pM, pI, pC, pD, pb, pj, pr
<1>17. a \in Int /\ b \in Int
  BY <1>1, <1>2
<1> HIDE DEF a, b
<1>18. a <= b
  BY <1>1, <1>15, <1>16, <1>17, FactorCancels
<1>19. R * C = R * Y * (4 * c + 1) /\ R * D = R * Y * (4 * d + 2 * R)
  BY <1>1 DEF C, D
<1> QED
  BY <1>18, <1>19 DEF a, b, M, I, R, Y

(* What a unit of time adds to the gap, in whole units.                    *)
LEMMA InWholeUnits ==
  ASSUME NEW x \in Int, NEW j \in Nat, NEW c \in Nat, NEW d \in Nat, NEW v \in Nat,
         NEW g \in Nat, NEW lr \in Nat, NEW br \in Nat, d <= v,
         8 * (RAY * RAY * SECONDS_PER_YEAR * x)
           <= 4 * (RAY * RAY) + 4 * (RAY * d) + 4 * (v * br) + 10 * (v * RAY) + 2 * v
                + 4 * (RAY * (lr * (2 * g + 1)))
                + 4 * (RAY * SECONDS_PER_YEAR * (4 * c + 1))
                + 4 * (RAY * SECONDS_PER_YEAR * (4 * d + 2 * RAY)) + 4 * (RAY * br)
                + 8 * (RAY * SECONDS_PER_YEAR * j) + 16 * (RAY * RAY * SECONDS_PER_YEAR)
  PROVE  x <= 6 + (j + 2 * c + 4 * v) \div RAY
                + ((v \div RAY + 1) * br) \div (RAY * SECONDS_PER_YEAR)
                + ((g + 1) * lr) \div (RAY * SECONDS_PER_YEAR)
<1> DEFINE R == RAY
           Y == SECONDS_PER_YEAR
           E == R * Y
           n == j + 2 * c + 4 * v
           h == v \div R + 1
           hb == h * br
           gl == (g + 1) * lr
           q1 == n \div R
           q2 == hb \div E
           q3 == gl \div E
<1>1. R \in Nat \ {0} /\ Y \in Nat \ {0} /\ E \in Nat \ {0}
  BY ScalesPositive
<1> HIDE DEF E
<1>2. h \in Nat \ {0} /\ v <= h * R
  <2> DEFINE w == v \div R
  <2>1. w \in Nat /\ v < w * R + R
    BY <1>1, QuotientBounds
  <2> HIDE DEF w
  <2>2. (w + 1) * R = w * R + R /\ w * R \in Nat
    BY <1>1, <2>1
  <2> QED
    BY <1>1, <2>1, <2>2 DEF w
<1> HIDE DEF h
<1>3. n \in Nat /\ hb \in Nat /\ gl \in Nat
  BY <1>2
<1> HIDE DEF R, Y
<1> HIDE DEF n, hb, gl
<1>4. /\ q1 \in Nat /\ n < q1 * R + R
      /\ q2 \in Nat /\ hb < q2 * E + E
      /\ q3 \in Nat /\ gl < q3 * E + E
  BY <1>1, <1>3, QuotientBounds
<1> HIDE DEF q1, q2, q3
<1> DEFINE G == R * E
<1>5. G \in Nat \ {0}
  BY <1>1
<1> DEFINE en == E * n
           rb == v * br + R * br
           rl == R * (lr * (2 * g + 1))
<1>6. en < (q1 + 1) * G
  <2>1. n < (q1 + 1) * R /\ (q1 + 1) * R \in Nat
    BY <1>1, <1>3, <1>4
  <2> DEFINE a == (q1 + 1) * R
  <2>2. a \in Nat /\ n < a /\ E * a = (q1 + 1) * G
    BY <1>1, <1>4, <2>1
  <2> HIDE DEF a, G
  <2>3. E * n < E * a
    BY <1>1, <1>3, <2>2
  <2> QED
    BY <2>2, <2>3
<1>7. rb <= 2 * ((q2 + 1) * G)
  <2>1. hb <= (q2 + 1) * E /\ (q2 + 1) * E \in Nat
    BY <1>1, <1>3, <1>4
  <2> DEFINE a == (q2 + 1) * E
  <2>2. R * hb <= R * a
    <3>1. a \in Nat /\ hb <= a
      BY <2>1
    <3> HIDE DEF a
    <3> QED
      BY <1>1, <1>3, <3>1
  <2>3. R * a = (q2 + 1) * G
    BY <1>1, <1>4
  <2>4. v + R <= 2 * (h * R) /\ h * R \in Nat
    <3>1. R <= h * R /\ h * R \in Nat
      BY <1>1, <1>2
    <3> DEFINE m == h * R
    <3>2. R <= m /\ m \in Nat /\ v <= m
      BY <1>2, <3>1
    <3> HIDE DEF m
    <3>3. v + R <= 2 * m
      BY <1>1, <3>2
    <3> QED
      BY <3>1, <3>3 DEF m
  <2>5. (v + R) * br <= (2 * (h * R)) * br
    <3> DEFINE m == 2 * (h * R)
               u == v + R
    <3>1. m \in Nat /\ u \in Nat /\ u <= m
      BY <1>1, <2>4
    <3> HIDE DEF m, u
    <3>2. u * br <= m * br
      BY <3>1
    <3> QED
      BY <3>2 DEF m, u
  <2>6. (v + R) * br = rb /\ (2 * (h * R)) * br = 2 * (R * hb)
    BY <1>1, <1>2 DEF hb
  <2>7. rb \in Nat /\ R * hb \in Nat /\ R * a \in Nat
    BY <1>1, <1>3, <2>1
  <2> DEFINE rhb == R * hb
             z == (q2 + 1) * G
  <2>8. rb <= 2 * rhb /\ rhb <= z /\ rhb \in Nat /\ z \in Nat
    BY <2>2, <2>3, <2>5, <2>6, <2>7
  <2> HIDE DEF rhb, z, rb
  <2>9. rb <= 2 * z
    BY <2>7, <2>8
  <2> QED
    BY <2>9 DEF z
<1>8. rl <= 2 * ((q3 + 1) * G)
  <2>1. gl <= (q3 + 1) * E /\ (q3 + 1) * E \in Nat
    BY <1>1, <1>3, <1>4
  <2> DEFINE a == (q3 + 1) * E
  <2>2. R * gl <= R * a
    <3>1. a \in Nat /\ gl <= a
      BY <2>1
    <3> HIDE DEF a
    <3> QED
      BY <1>1, <1>3, <3>1
  <2>3. R * a = (q3 + 1) * G
    BY <1>1, <1>4
  <2>4. 2 * (R * gl) = rl + R * lr /\ R * lr \in Nat /\ rl \in Nat
    BY <1>1 DEF gl
  <2> DEFINE rgl == R * gl
             z == (q3 + 1) * G
             y == R * lr
  <2>5. 2 * rgl = rl + y /\ y \in Nat /\ rgl <= z /\ z \in Nat /\ rgl \in Nat
    BY <1>1, <1>3, <1>4, <1>5, <2>2, <2>3, <2>4
  <2> HIDE DEF rgl, z, y, rl
  <2>6. rl <= 2 * z
    BY <2>4, <2>5
  <2> QED
    BY <2>6 DEF z
<1> DEFINE T == 4 * (R * R) + 4 * (R * d) + 4 * (v * br) + 10 * (v * R) + 2 * v
                  + 4 * (R * (lr * (2 * g + 1)))
                  + 4 * (R * Y * (4 * c + 1))
                  + 4 * (R * Y * (4 * d + 2 * R)) + 4 * (R * br)
                  + 8 * (R * Y * j) + 16 * (R * R * Y)
<1>9. T <= 32 * G + 8 * en + 4 * rb + 4 * rl
  <2> DEFINE rr == R * R
             rd == R * d
             vb == v * br
             vr == v * R
             ec == E * c
             ed == E * d
             ej == E * j
             ev == E * v
             bb == R * br
  <2>1. /\ rr \in Nat /\ rd \in Nat /\ vb \in Nat /\ vr \in Nat /\ ec \in Nat /\ ed \in Nat
        /\ ej \in Nat /\ ev \in Nat /\ bb \in Nat /\ rl \in Nat
    BY <1>1
  <2>2. R * Y * (4 * c + 1) = 4 * ec + E /\ R * Y * (4 * d + 2 * R) = 4 * ed + 2 * G
        /\ R * Y * j = ej /\ R * R * Y = G
    BY <1>1 DEF E
  <2>3. rr <= G /\ E <= G
    <3>1. rr * Y = G /\ R * E = G
      BY <1>1 DEF E
    <3>2. rr <= rr * Y
      <4> HIDE DEF rr
      <4> QED
        BY <1>1, <2>1
    <3>3. E <= R * E
      BY <1>1
    <3> QED
      BY <3>1, <3>2, <3>3
  <2>4. rd <= ev /\ vr <= ev /\ v <= ev /\ ed <= ev
    <3>1. R * v = vr /\ vr * Y = ev
      BY <1>1 DEF E
    <3>2. vr <= vr * Y
      <4> HIDE DEF vr
      <4> QED
        BY <1>1, <2>1
    <3>3. v <= ev /\ ed <= ev /\ rd <= R * v
      BY <1>1
    <3> HIDE DEF rd, vr, ev
    <3> QED
      BY <2>1, <3>1, <3>2, <3>3
  <2>5. en = ej + 2 * ec + 4 * ev
    BY <1>1 DEF n
  <2>6. T = 4 * rr + 4 * rd + 4 * vb + 10 * vr + 2 * v + 4 * rl + 4 * (4 * ec + E)
              + 4 * (4 * ed + 2 * G) + 4 * bb + 8 * ej + 16 * G
    BY <2>2
  <2>7. rb = vb + bb
    OBVIOUS
  <2> HIDE DEF rr, rd, vb, vr, ec, ed, ej, ev, bb, rl, rb, en, T, G
  <2> QED
    BY <1>1, <1>5, <2>1, <2>3, <2>4, <2>5, <2>6, <2>7
<1>10. 8 * (G * x) <= T
  <2>1. R * R * Y * x = G * x
    BY <1>1 DEF E
  <2> QED
    BY <2>1 DEF R, Y
<1> DEFINE z1 == (q1 + 1) * G
           z2 == (q2 + 1) * G
           z3 == (q3 + 1) * G
           gx == G * x
<1>11. z1 \in Nat /\ z2 \in Nat /\ z3 \in Nat /\ gx \in Int /\ en \in Nat /\ rb \in Nat /\ rl \in Nat /\ T \in Nat
  <2>1. z1 \in Nat /\ z2 \in Nat /\ z3 \in Nat /\ gx \in Int
    <3> HIDE DEF G
    <3> QED
      BY <1>4, <1>5
  <2>2. en \in Nat /\ rb \in Nat /\ rl \in Nat
    BY <1>1, <1>3
  <2>3. T \in Nat
    BY <1>1
  <2> QED
    BY <2>1, <2>2, <2>3
<1>12. gx < 4 * G + z1 + z2 + z3
  <2>1. 8 * gx <= 32 * G + 8 * en + 4 * rb + 4 * rl
    <3> HIDE DEF gx, G, en, rb, rl
    <3>1. 8 * gx <= T
      BY <1>10 DEF gx
    <3> HIDE DEF T
    <3> QED
      BY <1>5, <1>9, <1>11, <3>1
  <2>2. en < z1 /\ rb <= 2 * z2 /\ rl <= 2 * z3
    BY <1>6, <1>7, <1>8
  <2> HIDE DEF gx, G, en, rb, rl, z1, z2, z3, T
  <2> QED
    BY <1>5, <1>11, <2>1, <2>2
<1> DEFINE y == 7 + q1 + q2 + q3
<1>13. y \in Nat /\ G * y = 4 * G + z1 + z2 + z3
  <2> HIDE DEF G
  <2> QED
    BY <1>4, <1>5
<1>14. x < y
  <2>1. G * x < G * y
    BY <1>12, <1>13
  <2> HIDE DEF G, y
  <2>2. x >= y => G * x >= G * y
    BY <1>5, <1>13
  <2>3. G * x \in Int /\ G * y \in Int
    BY <1>5, <1>13
  <2> QED
    BY <1>13, <2>1, <2>2, <2>3
<1>15. x <= 6 + q1 + q2 + q3
  BY <1>4, <1>14
<1> QED
  BY <1>15 DEF q1, q2, q3, n, hb, gl, h, E, R, Y

(* What an accrual at t makes of the debt. *)
AccruedDebt(r, t) == RayMul(r.dSupply, UpdateIndexes(r, t).variableBorrowIndex)

LEMMA SettledGap ==
  ASSUME NEW r, NEW t \in Nat, WellFormed(r, t)
  PROVE  LET i == UpdateIndexes(r, t).liquidityIndex
             d == RayMul(r.dSupply, r.variableBorrowIndex)
             e == AccruedDebt(r, t)
             b == RayMul(r.aSupply
                           + RayDiv(PercentMul(e - d, r.configuration.reserveFactor), i), i)
         IN  /\ i \in Nat \ {0} /\ d \in Nat /\ e \in Nat /\ d <= e /\ b \in Nat
             /\ Gap(UpdateState(r, t)) = b - r.cash - e
<1> DEFINE n == UpdateIndexes(r, t)
           i == n.liquidityIndex
           d == RayMul(r.dSupply, r.variableBorrowIndex)
           e == AccruedDebt(r, t)
           f == r.configuration.reserveFactor
           q == RayDiv(PercentMul(e - d, f), i)
           m == UpdateState(r, t)
<1>1. r \in Reserve /\ f \in Nat /\ r.aSupply \in Nat /\ r.dSupply \in Nat /\ r.cash \in Nat
      /\ r.variableBorrowIndex \in Nat
  BY ReserveFields DEF WellFormed
<1>2. /\ WellFormed(n, t) /\ IndexesGrow(r, n) /\ SamePositions(r, n) /\ n.aSupply = r.aSupply
      /\ n.liquidityRate = r.liquidityRate
  BY UpdateIndexesSound
<1>3. i \in Nat \ {0} /\ n.variableBorrowIndex \in Nat /\ n \in Reserve
  BY <1>2, WellFormedIndexes
<1>4. d \in Nat /\ e \in Nat /\ d <= e
  BY <1>1, <1>2, <1>3, RayMulIsNat, RayMulMonotone DEF AccruedDebt, IndexesGrow
<1>5. /\ m.liquidityIndex = i /\ m.variableBorrowIndex = n.variableBorrowIndex
      /\ m.dSupply = r.dSupply /\ m.cash = r.cash
  BY UpdateStateSound DEF SamePositions
<1>6. AmountToTreasury(r, n) = PercentMul(e - d, f)
  BY DEF AmountToTreasury, AccruedDebt
<1>7. m.aSupply = r.aSupply + q /\ q \in Nat
  <2>1. PercentMul(e - d, f) \in Nat
    <3>1. e - d \in Nat
      BY <1>4
    <3> QED
      BY <1>1, <3>1, PercentMulIsNat
  <2>2. q \in Nat
    BY <1>3, <2>1, RayDivIsNat
  <2>3. m = MintToTreasury(r, n)
    BY DEF UpdateState
  <2>4. CASE f = 0
    <3>1. PercentMul(e - d, f) = 0
      BY <1>4, <2>4, ShareOfNone
    <3>2. q = 0
      BY <1>3, <3>1, NothingScaled
    <3>3. m = n
      BY <2>3, <2>4 DEF MintToTreasury
    <3> HIDE DEF m, n, q
    <3> QED
      BY <1>1, <1>2, <3>2, <3>3
  <2>5. CASE f # 0
    <3>1. m = [n EXCEPT !.aBalance[Treasury] = @ + q, !.aSupply = @ + q]
      BY <1>6, <2>3, <2>5 DEF MintToTreasury
    <3>2. m.aSupply = n.aSupply + q
      <4> HIDE DEF q, n, m
      <4> QED
        BY <1>3, <3>1 DEF Reserve
    <3> QED
      BY <1>2, <2>2, <3>2
  <2> QED
    BY <2>4, <2>5
<1> HIDE DEF q, m
<1> DEFINE b == RayMul(r.aSupply + q, i)
<1>8. b \in Nat
  <2>1. r.aSupply + q \in Nat
    BY <1>1, <1>7
  <2> QED
    BY <1>3, <2>1, RayMulIsNat
<1>9. Gap(m) = b - r.cash - e
  BY <1>5, <1>7 DEF Gap, AccruedDebt
<1> QED
  BY <1>3, <1>4, <1>8, <1>9 DEF b, q, m

(* The indexes of a reserve whose depositors earn. *)
LEMMA EarningIndexes ==
  ASSUME NEW r, NEW t \in Nat, WellFormed(r, t), r.liquidityRate > 0
  PROVE  /\ UpdateIndexes(r, t).liquidityIndex
              = RayMul(LinearInterest(r.liquidityRate, t - r.lastUpdate), r.liquidityIndex)
         /\ r.dSupply # 0 =>
              AccruedDebt(r, t)
                = RayMul(r.dSupply, RayMul(CompoundedInterest(r.borrowRate, t - r.lastUpdate),
                                           r.variableBorrowIndex))
<1>1. r \in Reserve
  BY DEF WellFormed
<1> QED
  BY <1>1 DEF UpdateIndexes, AccruedDebt, Reserve

LEMMA StandingIndexes ==
  ASSUME NEW r, NEW t \in Nat, WellFormed(r, t), r.liquidityRate = 0 \/ r.dSupply = 0
  PROVE  /\ r.liquidityRate = 0 => UpdateIndexes(r, t).liquidityIndex = r.liquidityIndex
         /\ AccruedDebt(r, t) = RayMul(r.dSupply, r.variableBorrowIndex)
<1>1. r \in Reserve /\ r.liquidityRate \in Nat
  BY ReserveFields DEF WellFormed
<1> QED
  BY <1>1 DEF UpdateIndexes, AccruedDebt, Reserve

(* One more unit of time, in terms of what the indexes move.               *)
LEMMA UnitMovesGap ==
  ASSUME NEW r, NEW t \in Nat, WellFormed(r, t)
  PROVE  LET i == UpdateIndexes(r, t).liquidityIndex
             j == UpdateIndexes(r, t + 1).liquidityIndex
             F == AccruedDebt(r, t + 1) - AccruedDebt(r, t)
             x == Gap(UpdateState(r, t + 1)) - Gap(UpdateState(r, t))
             P == PERCENTAGE_FACTOR
         IN  i <= j /\ AccruedDebt(r, t) <= AccruedDebt(r, t + 1) =>
               2 * (RAY * (P * x))
                 <= 2 * (P * (r.aSupply * (j - i)))
                      - 2 * (RAY * ((P - r.configuration.reserveFactor) * F))
                      + 2 * (P * j) + 4 * (RAY * P)
<1> DEFINE i == UpdateIndexes(r, t).liquidityIndex
           j == UpdateIndexes(r, t + 1).liquidityIndex
           d == RayMul(r.dSupply, r.variableBorrowIndex)
           e == AccruedDebt(r, t)
           f == AccruedDebt(r, t + 1)
           s == r.aSupply
           share == r.configuration.reserveFactor
           a == RayMul(s + RayDiv(PercentMul(e - d, share), i), i)
           b == RayMul(s + RayDiv(PercentMul(f - d, share), j), j)
           x == Gap(UpdateState(r, t + 1)) - Gap(UpdateState(r, t))
<1> SUFFICES ASSUME i <= j, e <= f
             PROVE  2 * (RAY * (PERCENTAGE_FACTOR * x))
                      <= 2 * (PERCENTAGE_FACTOR * (s * (j - i)))
                           - 2 * (RAY * ((PERCENTAGE_FACTOR - share) * (f - e)))
                           + 2 * (PERCENTAGE_FACTOR * j) + 4 * (RAY * PERCENTAGE_FACTOR)
  OBVIOUS
<1>1. s \in Nat /\ share \in Nat /\ r.cash \in Nat /\ r.lastUpdate \in Nat
  BY ReserveFields DEF WellFormed
<1>2. t + 1 \in Nat /\ WellFormed(r, t + 1)
  <2>1. r.lastUpdate <= t
    BY DEF WellFormed
  <2>2. r.lastUpdate <= t + 1
    BY <1>1, <2>1
  <2> QED
    BY <2>2 DEF WellFormed
<1>3. /\ i \in Nat \ {0} /\ d \in Nat /\ e \in Nat /\ d <= e /\ a \in Nat
      /\ Gap(UpdateState(r, t)) = a - r.cash - e
  BY SettledGap
<1>4. /\ j \in Nat \ {0} /\ f \in Nat /\ b \in Nat
      /\ Gap(UpdateState(r, t + 1)) = b - r.cash - f
  BY <1>2, SettledGap
<1>5. x = (b - f) - (a - e)
  <2> HIDE DEF a, b, e, f
  <2> QED
    BY <1>1, <1>3, <1>4
<1> HIDE DEF i, j, d, e, f, s, share, x
<1>6. 2 * (RAY * (PERCENTAGE_FACTOR * ((b - f) - (a - e))))
        <= 2 * (PERCENTAGE_FACTOR * (s * (j - i)))
             - 2 * (RAY * ((PERCENTAGE_FACTOR - share) * (f - e)))
             + 2 * (PERCENTAGE_FACTOR * j) + 4 * (RAY * PERCENTAGE_FACTOR)
  BY <1>1, <1>3, <1>4, AccrualGap
<1> QED
  BY <1>5, <1>6
=============================================================================
