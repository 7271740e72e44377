--------------------------- MODULE MCNativeGateway ---------------------------
(***************************************************************************)
(* One reserve, two users and the gateway, for TLC.  MaxSteps bounds a     *)
(* behaviour, whose balances drift by rounding without end.                *)
(***************************************************************************)
EXTENDS NativeGateway, TLC

CONSTANTS A, B, G, T, W,   \* model values
          MaxSteps         \* bound: steps in a behaviour

ASSUME BoundIsNatural == MaxSteps \in Nat

MCConfigurations ==
  [a \in Assets |->
     [active |-> TRUE, frozen |-> FALSE, borrowingEnabled |-> TRUE,
      ltv |-> 7500, liquidationThreshold |-> 8000, liquidationBonus |-> 10500,
      reserveFactor |-> 1000, borrowCap |-> 0, supplyCap |-> 0, unit |-> 1]]

MCStrategies ==
  [a \in Assets |-> [optimal |-> 400, base |-> 0, slope1 |-> 100, slope2 |-> 700]]

MCInitialPrice == [a \in Assets |-> 1]

(* Nothing tells the callers apart. *)
CallerSymmetry == Permutations(Callers)

VARIABLE steps

mcVars == <<gatewayVars, steps>>

(* The pool's approval and the callers' have been given.                   *)
MCInit ==
  /\ Init
  /\ wrapped = 0
  /\ native = NoCoins
  /\ aAllowance = [u \in Users |-> IF u = Gateway THEN 0 ELSE MAX_UINT]
  /\ authorized = TRUE
  /\ withdrawal = NoWithdrawal
  /\ saved = <<>>
  /\ steps = 0

Step ==
  /\ steps < MaxSteps
  /\ GatewayNext
  /\ steps' = steps + 1

BoundReached == steps = MaxSteps /\ UNCHANGED mcVars

MCSpec == MCInit /\ [][Step \/ BoundReached]_mcVars
=============================================================================
