---------------------------- MODULE ProtocolMath ----------------------------
(***************************************************************************)
(* The fixed-point arithmetic every other part of the protocol is built    *)
(* on: WadRayMath.sol, PercentageMath.sol and MathUtils.sol.  Each product *)
(* and quotient rounds half up.  The scales are constants so that TLC can  *)
(* run with small ones and a proof covers the deployed ones (RAY = 10^27,  *)
(* WAD = 10^18, PERCENTAGE_FACTOR = 10^4).  Numbers are unbounded naturals *)
(* here: the 256-bit overflow guards, which revert, are left out.          *)
(***************************************************************************)
EXTENDS Integers

CONSTANTS RAY,                \* 1.0 as an index or a rate
          WAD,                \* 1.0 as a health factor
          WAD_RAY_RATIO,      \* RAY / WAD in the deployment
          PERCENTAGE_FACTOR,  \* 100.00%
          SECONDS_PER_YEAR    \* time units over which a rate is paid once

ASSUME ScalesPositive ==
  /\ RAY \in Nat \ {0}
  /\ WAD \in Nat \ {0}
  /\ WAD_RAY_RATIO \in Nat \ {0}
  /\ PERCENTAGE_FACTOR \in Nat \ {0}
  /\ SECONDS_PER_YEAR \in Nat \ {0}

-----------------------------------------------------------------------------
(* WadRayMath.sol *)

RayMul(a, b) == (a * b + RAY \div 2) \div RAY

(* A seeded fault: the quotient truncates. *)
RayDivTruncating(a, b) == (a * RAY) \div b

RayDiv(a, b) == (a * RAY + b \div 2) \div b
WadDiv(a, b) == (a * WAD + b \div 2) \div b
WadToRay(a)  == a * WAD_RAY_RATIO

(* PercentageMath.sol *)

PercentMul(value, percentage) ==
  (value * percentage + PERCENTAGE_FACTOR \div 2) \div PERCENTAGE_FACTOR
PercentDiv(value, percentage) ==
  (value * PERCENTAGE_FACTOR + percentage \div 2) \div percentage

-----------------------------------------------------------------------------
(* MathUtils.sol: the factor by which an index grows over `elapsed`.       *)

(* Simple interest, used for the income of the depositors. *)
LinearInterest(rate, elapsed) == RAY + (rate * elapsed) \div SECONDS_PER_YEAR

(* The first three terms of the binomial expansion of (1 + rate)^elapsed,  *)
(* used for the debt of the borrowers.                                     *)
CompoundedInterest(rate, elapsed) ==
  LET expMinusOne   == elapsed - 1
      expMinusTwo   == IF elapsed > 2 THEN elapsed - 2 ELSE 0
      ratePerSecond == rate \div SECONDS_PER_YEAR
      basePowerTwo  == RayMul(ratePerSecond, ratePerSecond)
      basePowerThree == RayMul(basePowerTwo, ratePerSecond)
  IN  IF elapsed = 0
      THEN RAY
      ELSE RAY + ratePerSecond * elapsed
               + (elapsed * expMinusOne * basePowerTwo) \div 2
               + (elapsed * expMinusOne * expMinusTwo * basePowerThree) \div 6
=============================================================================
