------------------------- MODULE ReserveSetupProofs -------------------------
(***************************************************************************)
(* For every market and any number of crashes: a listed reserve has its    *)
(* own strategy, nothing is configured unlisted, and the script implements *)
(* ReserveLifecycle.                                                       *)
(***************************************************************************)
EXTENDS ReserveSetup, TLAPS

(* What the script's variables know of the chain, at each of its places.   *)
Known(r) == strategyAddresses[Params[r].strategy] # 0

ScanInv ==
  /\ pc = "scanInit" =>
       /\ batch \subseteq TokenAddresses \ listed
       /\ \A r \in batch : r < next /\ Known(r)
       /\ \A r \in Listable : r < next => r \in listed \cup batch
  /\ pc = "init" =>
       /\ batch \subseteq TokenAddresses \ listed
       /\ \A r \in batch : Known(r)
       /\ Listable \subseteq listed \cup batch
  /\ pc \in {"scanConfig", "takeAdmin", "configure", "giveBack"} =>
       /\ batch \subseteq Configurable
       /\ Listable \subseteq listed
  /\ pc \in {"scanConfig", "takeAdmin", "configure"} =>
       \A r \in batch : ~AlreadyEnabled(r)
  /\ pc \in {"configure", "giveBack"} => poolAdmin = Helper

(* A strategy the run knows by name is the contract of that name. *)
StrategyInv ==
  \A s \in StrategyNames :
    strategyAddresses[s] # 0 => strategies[strategyAddresses[s]] = s

(* A run that would hand the role to the helper has nothing to list. *)
AdminInv == pc # "idle" /\ admin = Helper => Listable \subseteq listed

IInv ==
  /\ TypeOK
  /\ ScanInv
  /\ StrategyInv
  /\ AdminInv
  /\ StrategiesMatch
  /\ ConfiguredAreListed

-----------------------------------------------------------------------------
USE ReserveSetupConstants DEF Reserves, Listable

LEMMA ConfigurableHaveTokens == Configurable \subseteq TokenAddresses
BY DEF Configurable

(* Deploying one more strategy moves none of the others. *)
LEMMA DeployedStay ==
  ASSUME NEW s \in Seq(StrategyNames), NEW name \in StrategyNames
  PROVE  /\ Append(s, name) \in Seq(StrategyNames)
         /\ Len(Append(s, name)) = Len(s) + 1
         /\ Append(s, name)[Len(s) + 1] = name
         /\ \A i \in 1 .. Len(s) : Append(s, name)[i] = s[i]
OBVIOUS

(* Configuring a reserve gives a configuration that marks it. *)
LEMMA ConfigureWithSound ==
  ASSUME NEW c \in ReserveConfiguration, NEW r \in Configurable
  PROVE  /\ ConfigureWith(c, Params[r]) \in ReserveConfiguration
         /\ \/ ConfigureWith(c, Params[r]).liquidationThreshold # 0
            \/ ConfigureWith(c, Params[r]).reserveFactor # 0
<1>1. Params[r] \in ReserveParams /\ Params[r].baseLTVAsCollateral # LeaveUnconfigured
  BY DEF Configurable
<1> QED
  BY <1>1, MarketParametersAccepted DEF ConfigureWith, ReserveParams, ReserveConfiguration

LEMMA StrategyNamed == \A r \in Reserves : Params[r].strategy \in StrategyNames
BY DEF ReserveParams

LEMMA InitHolds == Init => IInv
BY DEF Init, IInv, TypeOK, ScanInv, StrategyInv, AdminInv, StrategiesMatch,
       ConfiguredAreListed, IsConfigured, InitialConfiguration, ReserveConfiguration,
       NoStrategies, Programs

-----------------------------------------------------------------------------
(* The steps of the script, by what they change. *)

LEMMA StartKeeps == IInv /\ Start => IInv'
<1> SUFFICES ASSUME IInv, Start PROVE IInv'
  OBVIOUS
<1> USE DEF IInv
<1>1. TypeOK'
  BY DEF Start, chain, TypeOK, NoStrategies, Programs
<1>2. ScanInv' /\ StrategyInv' /\ AdminInv'
  BY DEF Start, chain, ScanInv, StrategyInv, AdminInv, TypeOK, NoStrategies, ConfiguredAreListed
<1>3. StrategiesMatch' /\ ConfiguredAreListed'
  BY DEF Start, chain, StrategiesMatch, ConfiguredAreListed, IsConfigured
<1> QED
  BY <1>1, <1>2, <1>3

LEMMA CrashKeeps == IInv /\ Crash => IInv'
<1> SUFFICES ASSUME IInv, Crash PROVE IInv'
  OBVIOUS
<1> USE DEF IInv
<1>1. TypeOK'
  BY DEF Crash, chain, TypeOK, NoStrategies, Programs
<1>2. ScanInv' /\ StrategyInv' /\ AdminInv'
  BY DEF Crash, chain, ScanInv, StrategyInv, AdminInv, TypeOK, NoStrategies
<1>3. StrategiesMatch' /\ ConfiguredAreListed'
  BY DEF Crash, chain, StrategiesMatch, ConfiguredAreListed, IsConfigured
<1> QED
  BY <1>1, <1>2, <1>3

(* Steps that move the script and leave the chain and the strategies.      *)
LocalStep ==
  \/ SkipInit \/ ScannedInit \/ Initialized
  \/ SkipConfig \/ QueueConfig \/ ScannedConfig \/ Configured
  \/ \E r \in Reserves : ConfigureReserveReverts(r)

LEMMA LocalStepKeeps == IInv /\ LocalStep => IInv'
<1> SUFFICES ASSUME IInv, LocalStep PROVE IInv'
  OBVIOUS
<1> USE DEF IInv
<1>1. UNCHANGED <<chain, admin, strategyAddresses, crashes>>
  BY DEF LocalStep, SkipInit, ScannedInit, Initialized, SkipConfig, QueueConfig,
         ScannedConfig, Configured, ConfigureReserveReverts
<1>2. TypeOK'
  <2>1. pc' \in Programs
    BY DEF TypeOK, Programs, LocalStep, SkipInit, ScannedInit, Initialized,
         SkipConfig, QueueConfig, ScannedConfig, Configured, ConfigureReserveReverts
  <2>2. next' \in 1 .. N + 1 /\ batch' \subseteq Reserves
    <3>1. next \in 1 .. N + 1 /\ batch \subseteq Reserves
      BY DEF TypeOK
    <3>2. CASE SkipInit \/ SkipConfig \/ QueueConfig
      <4>1. next <= N /\ next' = next + 1 /\ batch' \in {batch, batch \cup {next}}
        BY <3>2 DEF SkipInit, SkipConfig, QueueConfig
      <4> QED
        BY <3>1, <4>1
    <3>3. CASE Initialized
      BY <3>1, <3>3 DEF Initialized
    <3>4. CASE UNCHANGED <<next, batch>>
      BY <3>1, <3>4
    <3> QED
      BY <3>2, <3>3, <3>4
         DEF LocalStep, ScannedInit, ScannedConfig, Configured, ConfigureReserveReverts
  <2> QED
    BY <1>1, <2>1, <2>2 DEF chain, TypeOK
<1>3. ScanInv'
  <2> USE <1>1 DEF chain, ScanInv, Known, AlreadyEnabled
  <2>1. CASE SkipInit
    BY <2>1 DEF SkipInit, TypeOK
  <2>2. CASE ScannedInit
    BY <2>2 DEF ScannedInit
  <2>3. CASE Initialized
    BY <2>3 DEF Initialized
  <2>4. CASE SkipConfig \/ QueueConfig
    BY <2>4 DEF SkipConfig, QueueConfig
  <2>5. CASE ScannedConfig \/ Configured
    BY <2>5 DEF ScannedConfig, Configured
  <2>6. CASE \E r \in Reserves : ConfigureReserveReverts(r)
    BY <2>6 DEF ConfigureReserveReverts
  <2> QED
    BY <2>1, <2>2, <2>3, <2>4, <2>5, <2>6 DEF LocalStep
<1>4. pc # "idle"
  BY DEF LocalStep, SkipInit, ScannedInit, Initialized, SkipConfig, QueueConfig,
         ScannedConfig, Configured, ConfigureReserveReverts
<1>5. StrategyInv' /\ AdminInv'
  BY <1>1, <1>4 DEF chain, StrategyInv, AdminInv
<1>6. StrategiesMatch' /\ ConfiguredAreListed'
  BY <1>1 DEF chain, StrategiesMatch, ConfiguredAreListed, IsConfigured
<1> QED
  BY <1>2, <1>3, <1>5, <1>6

LEMMA QueueInitKeeps == IInv /\ QueueInit => IInv'
<1> SUFFICES ASSUME IInv, QueueInit PROVE IInv'
  OBVIOUS
<1> USE DEF IInv
<1> DEFINE name == Params[next].strategy
<1>1. next \in Reserves /\ name \in StrategyNames
  BY DEF QueueInit, ReserveParams
<1>2. CASE StrategyKnown(name)
  <2>1. UNCHANGED <<strategies, strategyAddresses>>
    BY <1>2 DEF QueueInit
  <2>2. TypeOK'
    BY <2>1, <1>1 DEF TypeOK, QueueInit
  <2>3. ScanInv'
    BY <2>1, <1>1, <1>2 DEF ScanInv, Known, StrategyKnown, QueueInit, TypeOK
  <2> QED
    BY <2>1, <2>2, <2>3 DEF QueueInit, StrategyInv, AdminInv, StrategiesMatch,
       ConfiguredAreListed, IsConfigured
<1>3. CASE ~StrategyKnown(name)
  <2>1. /\ strategies' = Append(strategies, name)
        /\ strategyAddresses' = [strategyAddresses EXCEPT ![name] = Len(strategies) + 1]
    BY <1>3 DEF QueueInit
  <2>2. /\ strategies' \in Seq(StrategyNames)
        /\ Len(strategies') = Len(strategies) + 1
        /\ strategies'[Len(strategies) + 1] = name
        /\ \A i \in 1 .. Len(strategies) : strategies'[i] = strategies[i]
    BY <2>1, <1>1, DeployedStay DEF TypeOK
  <2>3. Len(strategies) \in Nat
    BY DEF TypeOK
  <2>4. strategyAddresses' \in [StrategyNames -> 0 .. Len(strategies')]
    BY <2>1, <2>2, <2>3, <1>1 DEF TypeOK
  <2>5. strategyOf' \in [Reserves -> 0 .. Len(strategies')]
    BY <2>2, <2>3 DEF TypeOK, QueueInit
  <2>6. TypeOK'
    <3>1. UNCHANGED <<poolAdmin, listed, config, funded, services, pc, admin, crashes>>
      BY DEF QueueInit
    <3>2. batch' \subseteq Reserves /\ next' \in 1 .. N + 1
      BY <1>1 DEF QueueInit, TypeOK
    <3>3. strategies' \in Seq(StrategyNames)
      BY <2>2
    <3> HIDE DEF IInv
    <3>4. TypeOK
      BY DEF IInv
    <3> QED
      BY <3>1, <3>2, <3>3, <3>4, <2>4, <2>5 DEF TypeOK
  <2>7. \A s \in StrategyNames : strategyAddresses[s] # 0 => strategyAddresses'[s] # 0
    BY <2>1, <2>3, <1>1 DEF TypeOK
  <2>8. strategyAddresses'[name] # 0
    BY <2>1, <2>3, <1>1 DEF TypeOK
  <2>9. ScanInv'
    <3>1. \A r \in Reserves : Known(r) => strategyAddresses'[Params[r].strategy] # 0
      BY <2>7, StrategyNamed DEF Known
    <3>2. /\ pc = "scanInit" /\ pc' = pc /\ listed' = listed /\ poolAdmin' = poolAdmin
          /\ batch' = batch \cup {next} /\ next' = next + 1 /\ next \in TokenAddresses \ listed
      BY DEF QueueInit
    <3>3. \A r \in batch : r < next /\ Known(r)
      BY <3>2 DEF ScanInv
    <3>4. \A r \in batch' : r < next' /\ strategyAddresses'[Params[r].strategy] # 0
      BY <3>1, <3>2, <3>3, <2>8, <1>1 DEF TypeOK
    <3>5. \A r \in Listable : r < next' => r \in listed' \cup batch'
      BY <3>2, <1>1 DEF ScanInv
    <3> QED
      BY <3>2, <3>4, <3>5 DEF ScanInv, Known
  <2>10. StrategyInv'
    BY <2>1, <2>2, <2>3, <1>1 DEF StrategyInv, TypeOK
  <2>11. StrategiesMatch'
    <3>1. listed' = listed /\ strategyOf' = strategyOf
      BY DEF QueueInit
    <3>2. \A r \in listed : strategyOf[r] \in 1 .. Len(strategies)
      BY <2>3 DEF TypeOK, StrategiesMatch
    <3> QED
      BY <3>1, <3>2, <2>2 DEF StrategiesMatch
  <2> QED
    BY <2>6, <2>9, <2>10, <2>11 DEF QueueInit, AdminInv, ConfiguredAreListed, IsConfigured
<1> QED
  BY <1>2, <1>3

LEMMA InitReserveKeeps ==
  ASSUME IInv, NEW r \in Reserves, InitReserve(r)
  PROVE  IInv'
<1> USE DEF IInv
<1>1. r \in TokenAddresses \ listed /\ Params[r].strategy \in StrategyNames
  BY DEF InitReserve, FirstOfBatch, ScanInv, ReserveParams
<1>2. /\ StrategyFor(r) \in 1 .. Len(strategies)
      /\ strategies[StrategyFor(r)] = Params[r].strategy
  BY <1>1 DEF InitReserve, FirstOfBatch, ScanInv, Known, StrategyFor, StrategyInv, TypeOK
<1>3. strategyOf' = [strategyOf EXCEPT ![r] = StrategyFor(r)] /\ strategies' = strategies
      /\ listed' = listed \cup {r}
  BY DEF InitReserve
<1>4. TypeOK'
  <2>1. UNCHANGED <<poolAdmin, config, funded, strategies, services, pc, admin, next,
                    strategyAddresses, crashes>>
    BY DEF InitReserve
  <2>2. listed' \subseteq Reserves /\ funded \subseteq listed' /\ batch' \subseteq Reserves
    BY DEF InitReserve, TypeOK
  <2>3. strategyOf' \in [Reserves -> 0 .. Len(strategies)]
    BY <1>2, <1>3 DEF TypeOK
  <2> HIDE DEF IInv
  <2>4. TypeOK
    BY DEF IInv
  <2> QED
    BY <2>1, <2>2, <2>3, <2>4 DEF TypeOK
<1>5. StrategiesMatch'
  <2>1. \A q \in listed' : strategyOf'[q] = IF q = r THEN StrategyFor(r) ELSE strategyOf[q]
    BY <1>3 DEF TypeOK
  <2>2. StrategyFor(r) # 0
    BY <1>2 DEF TypeOK
  <2> QED
    BY <1>2, <1>3, <2>1, <2>2 DEF StrategiesMatch
<1>6. ScanInv'
  BY DEF ScanInv, Known, InitReserve, FirstOfBatch
<1> QED
  BY <1>4, <1>5, <1>6 DEF InitReserve, StrategyInv, AdminInv, ConfiguredAreListed,
     IsConfigured

(* Steps that change the admin or what the provider registers. *)
LEMMA HandoverKeeps ==
  IInv /\ (TakeAdmin \/ GiveAdminBack \/ SetCollateralManager \/ RegisterDataProvider)
    => IInv'
<1> SUFFICES ASSUME IInv,
                    TakeAdmin \/ GiveAdminBack \/ SetCollateralManager \/ RegisterDataProvider
             PROVE  IInv'
  OBVIOUS
<1> USE DEF IInv, TakeAdmin, GiveAdminBack, SetCollateralManager, RegisterDataProvider
<1>1. TypeOK'
  BY DEF TypeOK, Programs
<1>2. ScanInv' /\ StrategyInv' /\ AdminInv'
  BY DEF ScanInv, StrategyInv, AdminInv, Known, AlreadyEnabled
<1>3. StrategiesMatch' /\ ConfiguredAreListed'
  BY DEF ScanInv, AdminInv, StrategiesMatch, ConfiguredAreListed, IsConfigured, TypeOK
<1> QED
  BY <1>1, <1>2, <1>3

LEMMA ConfigureReserveKeeps ==
  ASSUME IInv, NEW r \in Reserves, ConfigureReserve(r)
  PROVE  IInv'
<1> USE DEF IInv
<1>1. r \in Configurable /\ r \in listed
  BY ConfigurableHaveTokens DEF ConfigureReserve, FirstOfBatch, ScanInv
<1>2. ConfigureWith(config[r], Params[r]) \in ReserveConfiguration
  BY <1>1, ConfigureWithSound DEF TypeOK
<1>3. TypeOK'
  BY <1>2 DEF TypeOK, ConfigureReserve
<1>4. ConfiguredAreListed'
  BY <1>1 DEF ConfigureReserve, ConfiguredAreListed, IsConfigured, TypeOK
<1>5. ScanInv'
  <2>1. \A b \in batch' : ~AlreadyEnabled(b)'
    <3>1. \A b \in batch' : b \in Reserves /\ b # r /\ ~AlreadyEnabled(b)
      BY DEF ConfigureReserve, ScanInv, TypeOK
    <3>2. \A b \in Reserves \ {r} : config'[b] = config[b]
      BY DEF ConfigureReserve, TypeOK
    <3> QED
      BY <3>1, <3>2 DEF AlreadyEnabled
  <2> QED
    BY <2>1 DEF ScanInv, Known, ConfigureReserve
<1> QED
  BY <1>3, <1>4, <1>5 DEF ConfigureReserve, StrategyInv, AdminInv, StrategiesMatch

LEMMA OthersKeep == IInv /\ Others => IInv'
<1> SUFFICES ASSUME IInv, NEW r \in Reserves,
                    Deposit(r) \/ WithdrawAll(r) \/ DisableBorrowing(r)
             PROVE  IInv'
  BY DEF Others
<1> USE DEF IInv, Deposit, WithdrawAll, DisableBorrowing, script
<1>1. TypeOK'
  <2>1. config' \in [Reserves -> ReserveConfiguration]
    <3>1. config[r] \in ReserveConfiguration
      BY DEF TypeOK
    <3>2. [config[r] EXCEPT !.borrowingEnabled = FALSE] \in ReserveConfiguration
      BY <3>1 DEF ReserveConfiguration
    <3> QED
      BY <3>2 DEF TypeOK
  <2> QED
    BY <2>1 DEF TypeOK
<1>2. ScanInv' /\ StrategyInv' /\ AdminInv'
  <2>1. CASE config' = config
    BY <2>1 DEF ScanInv, StrategyInv, AdminInv, Known, AlreadyEnabled
  <2>2. CASE pc \in {"idle", "done", "failed"} /\ pc' = pc
    BY <2>2 DEF ScanInv, StrategyInv, AdminInv
  <2> QED
    BY <2>1, <2>2
<1>3. StrategiesMatch'
  BY DEF StrategiesMatch
<1>4. ConfiguredAreListed'
  <2>1. \A q \in Reserves : config'[q].liquidationThreshold = config[q].liquidationThreshold
                         /\ config'[q].reserveFactor = config[q].reserveFactor
    <3>1. CASE config' = config
      BY <3>1
    <3>2. CASE config' = [config EXCEPT ![r].borrowingEnabled = FALSE]
      <4>1. config \in [Reserves -> ReserveConfiguration]
        BY DEF TypeOK
      <4> QED
        BY <3>2, <4>1 DEF ReserveConfiguration
    <3> QED
      BY <3>1, <3>2
  <2> QED
    BY <2>1 DEF ConfiguredAreListed, IsConfigured
<1> QED
  BY <1>1, <1>2, <1>3, <1>4

LEMMA NextKeeps == IInv /\ [Next]_vars => IInv'
<1> SUFFICES ASSUME IInv, [Next]_vars PROVE IInv'
  OBVIOUS
<1>1. CASE UNCHANGED vars
  BY <1>1 DEF vars, chain, script, IInv, TypeOK, ScanInv, StrategyInv, AdminInv,
     StrategiesMatch, ConfiguredAreListed, IsConfigured, Known, AlreadyEnabled
<1>2. CASE Start \/ Crash \/ Others
  BY <1>2, StartKeeps, CrashKeeps, OthersKeep
<1>3. CASE Step
  BY <1>3, LocalStepKeeps, QueueInitKeeps, InitReserveKeeps, HandoverKeeps,
     ConfigureReserveKeeps DEF Step, LocalStep
<1> QED
  BY <1>1, <1>2, <1>3 DEF Next

(* The strengthened invariant holds in every reachable state. *)
THEOREM SetupInvariant == Spec => []IInv
<1>1. Init => IInv
  BY InitHolds
<1>2. IInv /\ [Next]_vars => IInv'
  BY NextKeeps
<1> QED
  BY <1>1, <1>2, PTL DEF Spec

(* The script's and the chain's variables keep their types. *)
THEOREM SetupTypes == Spec => []TypeOK
<1>1. IInv => TypeOK
  BY DEF IInv
<1> QED
  BY <1>1, SetupInvariant, PTL

(* Whatever crashes and reruns, a listed reserve has a contract of its own *)
(* strategy.                                                               *)
THEOREM SetupMatchesStrategies == Spec => []StrategiesMatch
<1>1. IInv => StrategiesMatch
  BY DEF IInv
<1> QED
  BY <1>1, SetupInvariant, PTL

(* No reserve is configured before it is listed, and the helper is never   *)
(* pool admin while something is left to list.                             *)
THEOREM SetupListsFirst == Spec => []ConfiguredAreListed
<1>1. IInv => ConfiguredAreListed
  BY DEF IInv
<1> QED
  BY <1>1, SetupInvariant, PTL

-----------------------------------------------------------------------------
(* A run fails only on liquidity in a reserve that is not collateral.      *)
LEMMA FailingStep ==
  ASSUME IInv, [Next]_vars, pc # "failed", pc' = "failed"
  PROVE  \E r \in funded : Params[r].liquidationThreshold = 0
<1>1. PICK r \in Reserves : ConfigureReserveReverts(r)
  BY DEF Next, Start, Step, Crash, Others, vars, script, SkipInit, QueueInit, ScannedInit,
     Initialized, SkipConfig, QueueConfig, ScannedConfig, TakeAdmin, Configured,
     GiveAdminBack, SetCollateralManager, RegisterDataProvider, InitReserve,
     ConfigureReserve, Deposit, WithdrawAll, DisableBorrowing
<1>2. r \in Configurable /\ poolAdmin = Helper
  BY <1>1 DEF ConfigureReserveReverts, FirstOfBatch, IInv, ScanInv
<1>3. CollateralAccepted(Params[r].baseLTVAsCollateral, Params[r].liquidationThreshold,
                         Params[r].liquidationBonus)
  BY <1>2, MarketParametersAccepted
<1>4. ~ConfigurationAccepted(r)
  BY <1>1, <1>2 DEF ConfigureReserveReverts
<1> QED
  BY <1>3, <1>4 DEF ConfigurationAccepted

(* The script fails for no other reason.                                   *)
THEOREM SetupFailsOnlyOnLiquidity == Spec => FailsOnlyOnLiquidity
<1>1. IInv /\ [Next]_vars =>
        [pc # "failed" /\ pc' = "failed" =>
           \E r \in funded : Params[r].liquidationThreshold = 0]_vars
  BY FailingStep
<1> QED
  BY <1>1, SetupInvariant, PTL DEF Spec, FailsOnlyOnLiquidity

-----------------------------------------------------------------------------
(* What a step does to configurations and to the list. *)
ConfigStep ==
  \/ UNCHANGED <<listed, config>>
  \/ \E r \in Reserves : InitReserve(r)
  \/ \E r \in Reserves : ConfigureReserve(r)
  \/ \E r \in Reserves : DisableBorrowing(r)

LEMMA StepsByConfig == [Next]_vars => ConfigStep
<1> USE DEF ConfigStep
<1>1. CASE UNCHANGED vars
  BY <1>1 DEF vars, chain
<1>2. CASE Start \/ Crash
  BY <1>2 DEF Start, Crash, chain
<1>3. CASE Others
  BY <1>3 DEF Others, Deposit, WithdrawAll
<1>4. CASE Step
  BY <1>4 DEF Step, chain, SkipInit, QueueInit, ScannedInit, Initialized, SkipConfig,
     QueueConfig, ScannedConfig, TakeAdmin, Configured, GiveAdminBack,
     SetCollateralManager, RegisterDataProvider, ConfigureReserveReverts
<1> QED
  BY <1>1, <1>2, <1>3, <1>4 DEF Next

(* Borrowing the admin disabled on a collateral reserve stays disabled.    *)
THEOREM SetupKeepsDisabled == Spec => DisabledStaysDisabled
<1>1. ASSUME IInv, [Next]_vars, NEW r \in Reserves,
             config[r].liquidationThreshold # 0, ~config[r].borrowingEnabled
      PROVE  config'[r] = config[r]
  <2>1. config \in [Reserves -> ReserveConfiguration]
    BY <1>1 DEF IInv, TypeOK
  <2>2. CASE config' = config
    BY <2>2
  <2>3. ASSUME NEW q \in Reserves, ConfigureReserve(q) PROVE config'[r] = config[r]
    <3>1. q # r
      <4>1. AlreadyEnabled(r)
        BY <1>1, <2>1 DEF AlreadyEnabled, ReserveConfiguration
      <4> QED
        BY <4>1, <1>1, <2>3 DEF ConfigureReserve, FirstOfBatch, IInv, ScanInv
    <3> QED
      BY <2>1, <2>3, <3>1 DEF ConfigureReserve
  <2>4. ASSUME NEW q \in Reserves, DisableBorrowing(q) PROVE config'[r] = config[r]
    <3>1. q # r
      BY <1>1, <2>4 DEF DisableBorrowing
    <3> QED
      BY <2>1, <2>4, <3>1 DEF DisableBorrowing
  <2> QED
    BY <1>1, <2>2, <2>3, <2>4, StepsByConfig DEF ConfigStep, InitReserve
<1>2. IInv /\ [Next]_vars =>
        [\A r \in Reserves :
           config[r].liquidationThreshold # 0 /\ ~config[r].borrowingEnabled =>
             config'[r] = config[r]]_vars
  BY <1>1
<1> QED
  BY <1>2, SetupInvariant, PTL DEF Spec, DisabledStaysDisabled

-----------------------------------------------------------------------------
(* The refinement: a reserve moves along its lifecycle one step at a time. *)

LEMMA StageUnchanged ==
  ASSUME listed' = listed, \A r \in Reserves : IsConfigured(r)' = IsConfigured(r)
  PROVE  Stage' = Stage
BY DEF Stage

LEMMA InitReserveLists ==
  ASSUME IInv, NEW r \in Reserves, InitReserve(r)
  PROVE  Lifecycle!List(r)
<1>1. r \notin listed /\ listed' = listed \cup {r} /\ config' = config
  BY DEF InitReserve
<1>2. ~IsConfigured(r)
  BY <1>1 DEF IInv, ConfiguredAreListed
<1> QED
  BY <1>1, <1>2 DEF Lifecycle!List, Stage, IsConfigured

LEMMA ConfigureReserveConfigures ==
  ASSUME IInv, NEW r \in Reserves, ConfigureReserve(r)
  PROVE  Lifecycle!Configure(r) \/ Stage' = Stage
<1>1. r \in Configurable /\ r \in listed
  BY ConfigurableHaveTokens DEF ConfigureReserve, FirstOfBatch, IInv, ScanInv
<1>2. config \in [Reserves -> ReserveConfiguration] /\ listed' = listed
  BY DEF IInv, TypeOK, ConfigureReserve
<1>3. config' = [config EXCEPT ![r] = ConfigureWith(config[r], Params[r])]
  BY DEF ConfigureReserve
<1>4. IsConfigured(r)'
  BY <1>1, <1>2, <1>3, ConfigureWithSound DEF IsConfigured
<1>5. \A q \in Reserves \ {r} : IsConfigured(q)' = IsConfigured(q)
  BY <1>2, <1>3 DEF IsConfigured
<1>6. CASE IsConfigured(r)
  <2>1. \A q \in Reserves : IsConfigured(q)' = IsConfigured(q)
    BY <1>4, <1>5, <1>6 DEF IsConfigured
  <2> QED
    BY <2>1, <1>2, StageUnchanged
<1>7. CASE ~IsConfigured(r)
  BY <1>1, <1>2, <1>4, <1>5, <1>7 DEF Lifecycle!Configure, Stage
<1> QED
  BY <1>6, <1>7

LEMMA DisableBorrowingKeepsStage ==
  ASSUME IInv, NEW r \in Reserves, DisableBorrowing(r)
  PROVE  Stage' = Stage
<1>1. config \in [Reserves -> ReserveConfiguration] /\ listed' = listed
  BY DEF IInv, TypeOK, DisableBorrowing
<1>2. config' = [config EXCEPT ![r].borrowingEnabled = FALSE]
  BY DEF DisableBorrowing
<1>3. \A q \in Reserves : /\ config'[q].liquidationThreshold = config[q].liquidationThreshold
                         /\ config'[q].reserveFactor = config[q].reserveFactor
  BY <1>1, <1>2 DEF ReserveConfiguration
<1> QED
  BY <1>1, <1>3, StageUnchanged DEF IsConfigured

(* The task, with its crashes and reruns, implements ReserveLifecycle.     *)
THEOREM SetupImplementsLifecycle == Spec => ListedThenConfigured
<1>1. Init => Lifecycle!LifecycleInit
  BY DEF Init, Lifecycle!LifecycleInit, Stage
<1>2. IInv /\ [Next]_vars => [Lifecycle!LifecycleNext]_Stage
  <2> SUFFICES ASSUME IInv, [Next]_vars PROVE [Lifecycle!LifecycleNext]_Stage
    OBVIOUS
  <2>1. CASE UNCHANGED <<listed, config>>
    BY <2>1, StageUnchanged DEF IsConfigured
  <2>2. CASE \E r \in Reserves : InitReserve(r)
    BY <2>2, InitReserveLists DEF Lifecycle!LifecycleNext
  <2>3. CASE \E r \in Reserves : ConfigureReserve(r)
    BY <2>3, ConfigureReserveConfigures DEF Lifecycle!LifecycleNext
  <2>4. CASE \E r \in Reserves : DisableBorrowing(r)
    BY <2>4, DisableBorrowingKeepsStage
  <2> QED
    BY <2>1, <2>2, <2>3, <2>4, StepsByConfig DEF ConfigStep
<1> QED
  BY <1>1, <1>2, SetupInvariant, PTL
     DEF Spec, ListedThenConfigured, Lifecycle!LifecycleSpec
=============================================================================
