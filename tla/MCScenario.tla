----------------------------- MODULE MCScenario -----------------------------
(***************************************************************************)
(* Stories over one reserve and two users, for TLC.                        *)
(***************************************************************************)
EXTENDS ScenarioEngine, TLC

CONSTANTS A, B, T, X   \* model values

MCConfigurations ==
  [a \in Assets |->
     [active |-> TRUE, frozen |-> FALSE, borrowingEnabled |-> TRUE,
      ltv |-> 7500, liquidationThreshold |-> 8000, liquidationBonus |-> 10500,
      reserveFactor |-> 1000, borrowCap |-> 0, supplyCap |-> 0, unit |-> 1]]

MCStrategies ==
  [a \in Assets |-> [optimal |-> 400, base |-> 0, slope1 |-> 100, slope2 |-> 700]]

MCInitialPrice == [a \in Assets |-> 1]

(* Nothing tells the users apart. *)
UserSymmetry == Permutations(Users)
=============================================================================
