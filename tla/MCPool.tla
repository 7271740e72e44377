------------------------------- MODULE MCPool -------------------------------
(***************************************************************************)
(* Small pools for TLC: the configurations of the reserves and the bound   *)
(* on the length of a behaviour.  Interest-bearing balances drift by       *)
(* rounding with every call, so a pool has no finite state graph of its    *)
(* own; MaxSteps bounds the calls, prices moves and ticks of a run.        *)
(***************************************************************************)
EXTENDS PoolProperties, TLC

CONSTANTS A, B, T, X, Y,   \* model values
          MaxSteps,        \* bound: calls, price moves and ticks in a behaviour
          LTV, LT, Bonus,  \* collateral parameters of the collateral assets
          ReserveFactor,
          Caps,            \* supply and borrow cap of every asset
          CollateralAssets, BorrowableAssets

ASSUME BoundIsNatural == MaxSteps \in Nat

MCConfigurations ==
  [a \in Assets |->
    LET usable == a \in CollateralAssets
    IN  [active |-> TRUE, frozen |-> FALSE,
         borrowingEnabled |-> a \in BorrowableAssets,
         ltv |-> IF usable THEN LTV ELSE 0,
         liquidationThreshold |-> IF usable THEN LT ELSE 0,
         liquidationBonus |-> IF usable THEN Bonus ELSE 0,
         reserveFactor |-> ReserveFactor,
         borrowCap |-> Caps, supplyCap |-> Caps, unit |-> 1]]

MCStrategies ==
  [a \in Assets |-> [optimal |-> 800, base |-> 0, slope1 |-> 100, slope2 |-> 700]]

MCInitialPrice == [a \in Assets |-> CHOOSE p \in Prices : \A q \in Prices : q <= p]

(* Nothing tells the users apart. *)
UserSymmetry == Permutations(Users)

VARIABLE steps

mcVars == <<vars, steps>>

MCInit == Init /\ steps = 0

Step ==
  /\ steps < MaxSteps
  /\ Next
  /\ steps' = steps + 1

BoundReached == steps = MaxSteps /\ UNCHANGED mcVars

MCSpec == MCInit /\ [][Step \/ BoundReached]_mcVars
=============================================================================
