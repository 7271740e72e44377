---------------------------- MODULE MCMarketPool ----------------------------
(***************************************************************************)
(* Every reserve of every market once as the first and once as the second  *)
(* asset of a small pool; MaxSteps bounds a behaviour as in MCPool.        *)
(***************************************************************************)
EXTENDS MarketPool

CONSTANTS A, B, T, X, Y,  \* model values
          MaxSteps        \* bound: calls, price moves and ticks in a behaviour

ASSUME MarketsPassConfigurator == ParametersAccepted

MCInitialPrice == [a \in Assets |-> 10]

(* Unused: a market's own parameters are in the initial states. *)
MCConfigurations ==
  [a \in Assets |-> ConfiguredReserve(Hedera!strategyUSDC)]
MCStrategies == [a \in Assets |-> StrategyContract(Hedera!strategyUSDC)]

VARIABLE steps

mcVars == <<vars, steps>>

MCInit ==
  /\ \E market \in Markets : MarketInit(market, A, B, 1000)
  /\ steps = 0

Step ==
  /\ steps < MaxSteps
  /\ Next
  /\ steps' = steps + 1

BoundReached == steps = MaxSteps /\ UNCHANGED mcVars

MCSpec == MCInit /\ [][Step \/ BoundReached]_mcVars
=============================================================================
