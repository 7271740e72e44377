----------------------------- MODULE MarketPool -----------------------------
(***************************************************************************)
(* The pool with the reserves of the deployed markets: two reserves that   *)
(* are neighbours in a market's ReservesConfig, each with the strategy and *)
(* the parameters the market gives it.  A ray, a wad and a percentage are  *)
(* all in basis points here, so the markets' numbers enter as they are.    *)
(***************************************************************************)
EXTENDS PoolProperties, Sequences

CONSTANT First, Second  \* the two assets of the pool

Parameters == INSTANCE ReserveParameters WITH StrategyNames <- STRING

Hedera    == INSTANCE HederaMarket
Aave      == INSTANCE AaveMarket
Amm       == INSTANCE AmmMarket
Avalanche == INSTANCE AvalancheMarket
Matic     == INSTANCE MaticMarket

(* The cases of loadPoolConfig. *)
Markets ==
  {Hedera!HederaConfig, Aave!AaveConfig, Amm!AmmConfig, Avalanche!AvalancheConfig,
   Matic!MaticConfig}

(* A reserve after the deployment: caps are never set by it, and a '-1'    *)
(* entry keeps the zeros of a reserve just listed.                         *)
ConfiguredReserve(p) ==
  LET configured == p.baseLTVAsCollateral # Parameters!LeaveUnconfigured
      c == IF configured
           THEN Parameters!ConfigureWith(Parameters!InitialConfiguration, p)
           ELSE Parameters!InitialConfiguration
  IN  [active |-> TRUE, frozen |-> FALSE, borrowingEnabled |-> c.borrowingEnabled,
       ltv |-> c.ltv, liquidationThreshold |-> c.liquidationThreshold,
       liquidationBonus |-> c.liquidationBonus, reserveFactor |-> c.reserveFactor,
       borrowCap |-> 0, supplyCap |-> 0, unit |-> 1]

StrategyContract(p) ==
  [optimal |-> p.strategy.optimal, base |-> p.strategy.base,
   slope1 |-> p.strategy.slope1, slope2 |-> p.strategy.slope2]

(* A reserve just listed, into which u deposited x and v deposited y. *)
Funded(p, u, x, v, y) ==
  LET listed == InitReserve(ConfiguredReserve(p), StrategyContract(p))
      funded == Receive(UpdateInterestRates(listed, x + y, 0), x + y)
  IN  MintAToken(MintAToken(funded, u, x), v, y)

(* v has deposited the amount into the second reserve; u has deposited as  *)
(* much into the first or, where both lend, a little more into the two.    *)
MarketInit(market, u, v, amount) ==
  /\ \E i \in DOMAIN market.reserves,
        held \in {<<amount, 0>>, <<(4 * amount) \div 5, amount \div 4>>} :
       LET entry     == market.reserves[i].params
           neighbour == market.reserves[1 + (i % Len(market.reserves))].params
           ofU       == IF held[2] = 0 THEN {First} ELSE {First, Second}
       IN  /\ held[2] # 0 => entry.baseLTVAsCollateral > 0 /\ neighbour.baseLTVAsCollateral > 0
           /\ reserves = [a \in {First, Second} |->
                            IF a = First THEN Funded(entry, u, held[1], v, 0)
                                         ELSE Funded(neighbour, u, held[2], v, amount)]
           /\ usersConfig = [w \in Users |-> [collateral |-> IF w = u THEN ofU ELSE {Second},
                                             borrowing |-> {}]]
  /\ borrowAllowance = [a \in Assets |-> [w \in Users |-> [x \in Users |-> 0]]]
  /\ paused = FALSE
  /\ price = InitialPrice
  /\ now = 0

-----------------------------------------------------------------------------
(* What every market configures has to pass the configurator.              *)
ParametersAccepted ==
  \A market \in Markets : \A i \in DOMAIN market.reserves :
    LET p == market.reserves[i].params
    IN  p.baseLTVAsCollateral # Parameters!LeaveUnconfigured =>
          Parameters!CollateralAccepted(p.baseLTVAsCollateral, p.liquidationThreshold,
                                        p.liquidationBonus)

(* Liquidators repay a position as long as its collateral is worth the     *)
(* debt and their bonus.  Prices move between two looks of a liquidator:   *)
(* the thresholds and bonuses of the markets leave room for one move of a  *)
(* tenth, of either asset, after the last moment a position was healthy.   *)
MovesByTenth ==
  \A a \in Assets : 10 * price'[a] >= 9 * price[a] /\ 9 * price'[a] <= 10 * price[a]

CoveredAfterMove ==
  [][\A u \in Users :
       Health(u) >= WAD /\ price' # price /\ MovesByTenth /\ usersConfig[u].borrowing # {} =>
         AccountData(reserves, u).debt' <= (ValueNetOfBonus(u) + DebtDust(u))' + Cardinality(Assets)]_vars

(* A liquidation takes threshold times bonus of weighted collateral for    *)
(* each unit of debt, so it brings a position closer to health only above  *)
(* that floor, which the markets keep below one: a position with several   *)
(* collaterals, covering debt and bonus as it may, is pushed further down  *)
(* once it is below the floor of the asset the liquidator picks.           *)
Floor(a) == PercentMul(reserves[a].configuration.liquidationThreshold,
                       reserves[a].configuration.liquidationBonus)

HealsAboveFloor ==
  [][now' = now /\ price' = price =>
       \A u \in Users :
         /\ Health(u) < WAD
         /\ \A a \in CountedCollateral(reserves, usersConfig[u]) : Floor(a) <= Health(u)
         => HealthWithDust(u)' >= Health(u)]_vars
=============================================================================
