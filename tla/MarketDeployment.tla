-------------------------- MODULE MarketDeployment --------------------------
(***************************************************************************)
(* A migration deploying markets on one network.  The script runs the      *)
(* tasks of the target step by step; it may die between any two, keeping   *)
(* the chain and deployed-contracts.json and losing its variables.  The    *)
(* operator then runs the task that died again, or the whole migration.    *)
(* After a migration, or in place of one that died, another target may be  *)
(* deployed on the same network with the same deployed-contracts.json.     *)
(***************************************************************************)
EXTENDS DeploymentTasks

CONSTANTS Targets,     \* the targets the operator may deploy
          MaxTargets,  \* bound on migrations begun
          MaxCrashes   \* bound on deaths that no step caused

ASSUME MarketDeploymentConstants ==
  /\ MaxTargets \in Nat /\ MaxCrashes \in Nat
  /\ \A t \in Targets :
       /\ t.market \in DOMAIN Config
       /\ t.migration \in {"aave:dev", "aave:mainnet", "amm:mainnet", "avalanche:mainnet",
                           "sidechain:mainnet"}

Programs == [t \in Targets |-> Migration(t)]

VARIABLES
  contracts,    \* chain: what is deployed, by address: its kind and its links
  slots,        \* chain: the addresses each provider holds
  pools,        \* chain: each pool proxy's pause, reserves and configured reserves
  granted,      \* chain: owner of a rate oracle; pool a gateway is authorized for
  sources,      \* chain: symbols each AaveOracle has a source for
  registered,   \* chain: pairs of a registry and a provider it lists
  db,           \* deployed-contracts.json on this network
  target,       \* script: what is deployed
  task,         \* script: number of the task
  todo,         \* script: the steps of the task it has not taken
  local,        \* script: its variables
  status,       \* script: "idle", "running", "dead" or "finished"
  finished,     \* history: migrations that finished, with the provider
  interrupted,  \* history: providers whose admin a script took and died holding
  begun, crashes, reruns, restarts

chain == <<contracts, slots, pools, granted, sources, registered>>
script == <<target, task, todo, local, status>>
history == <<finished, interrupted>>
counters == <<begun, crashes, reruns, restarts>>
vars == <<chain, db, script, history, counters>>

Slots == {"PoolAdmin", "EmergencyAdmin", "LendingPool", "LendingPoolConfigurator",
          "PriceOracle", "LendingRateOracle", "LendingPoolCollateralManager", "0x01"}

(* f with y at x, be x new or not. *)
Put(f, x, y) == [k \in DOMAIN f \cup {x} |-> IF k = x THEN y ELSE f[k]]

Init ==
  /\ contracts = [a \in DOMAIN Accounts |-> [kind |-> Accounts[a], uses |-> {}]]
  /\ slots = <<>> /\ pools = <<>> /\ granted = <<>> /\ registered = {}
  /\ sources = [a \in {Address("AaveOracle")} |-> {}]
  /\ db = <<>>
  /\ target \in Targets /\ task = 1 /\ todo = <<>> /\ local = <<>> /\ status = "idle"
  /\ finished = {} /\ interrupted = {}
  /\ begun = 0 /\ crashes = 0 /\ reruns = 0 /\ restarts = 0

-----------------------------------------------------------------------------
Now == Head(todo)

Deployer == Address("signer0")

(* The provider the script works with, and links between contracts. *)
Provider == local[provider]
Linked(c, kind) == {a \in contracts[c].uses : contracts[a].kind = kind}
ProviderOf(c) == CHOOSE p \in Linked(c, provider) : TRUE

NewAddress == Len(contracts) + 1

Pool == slots[Provider]["LendingPool"]

(* The first loop of initReservesByHelper finds what is to be listed, that *)
(* of configureReservesByHelper what is to be configured: all but what is  *)
(* enabled as collateral already.                                          *)
Unlisted(t) == Listable(t) \ pools[Pool].listed

AlreadyEnabled(t, s) ==
  /\ s \in pools[Pool].configured
  /\ \E i \in DOMAIN Config[t.market].reserves :
       LET entry == Config[t.market].reserves[i]
       IN  entry.symbol = s /\ entry.params.liquidationThreshold # 0

Unconfigured(t) == {s \in ConfiguredOf(t) : ~AlreadyEnabled(t, s)}

(* The loops go through reservesParams from its start. *)
FirstOf(symbols, s, t) ==
  /\ s \in symbols
  /\ \A i, j \in DOMAIN Config[t.market].reserves :
       /\ Config[t.market].reserves[i].symbol = s
       /\ Config[t.market].reserves[j].symbol \in symbols
       => i <= j

(* configureReservesByHelper has taken the role of the pool admin, and has *)
(* its tokens to configure.                                                *)
Taken == todo # <<>> /\ Now.op = "configure" /\ "tokens" \in DOMAIN local

(* initialize() requires a revision above the one last initialized, on the *)
(* new proxy of a provider that has none as on the one it has, which       *)
(* _updateImpl upgrades in place: the second always reverts.               *)
Revision(slot) == IF slot = "LendingPool" THEN 4 ELSE 1

lastInitializedRevision(p, slot) == IF slots[p][slot] = 0 THEN 0 ELSE Revision(slot)

Initializable(p, slot) == Revision(slot) > lastInitializedRevision(p, slot)

(* The configurator works for the pool's admin: for the deployer, and for  *)
(* ATokensAndRatesHelper, which calls its own configurator, once it has    *)
(* been made the admin of the script's provider.                           *)
Possible ==
  CASE Now.op = "load"      -> Now.arg \in DOMAIN db
    [] Now.op = "upgrade"   -> Initializable(Provider, Now.arg)
    [] Now.op = "pause"     -> LET c == local["LendingPoolConfigurator"]
                               IN  /\ Linked(c, provider) # {}
                                   /\ slots[ProviderOf(c)]["EmergencyAdmin"] = Now.var
    [] Now.op = "rates"     -> granted[local["LendingRateOracle"]]
                                 = local["StableAndVariableTokensHelper"]
    [] Now.op = "list"      -> /\ Pool # 0
                               /\ Unlisted(target) # {} =>
                                    LET c == local["LendingPoolConfigurator"]
                                    IN  /\ Linked(c, provider) # {}
                                        /\ slots[ProviderOf(c)]["PoolAdmin"] = Deployer
    [] Now.op = "configure" -> Taken /\ local["tokens"] # {} =>
                                 LET helper == local["ATokensAndRatesHelper"]
                                 IN  /\ slots[Provider]["LendingPoolConfigurator"]
                                           \in Linked(helper, "LendingPoolConfigurator")
                                     /\ slots[Provider]["PoolAdmin"] = helper
    [] Now.op = "throw"     -> FALSE
    [] OTHER                -> TRUE

(* A step of a task, and a turn of a loop, after which the loop goes on.   *)
Working(op) ==
  /\ status = "running" /\ todo # <<>> /\ Now.op = op /\ Possible
  /\ UNCHANGED <<target, task, status, history, counters>>

Running(op) == Working(op) /\ todo' = Tail(todo)

Looping(op) == Working(op) /\ todo' = todo

MineStep ==
  /\ Running("mine")
  /\ contracts' = Append(contracts,
                         [kind |-> Now.arg, uses |-> {local[v] : v \in Now.uses}])
  /\ local' = Put(local, Now.var, NewAddress)
  /\ slots' = IF Now.arg = provider
              THEN Put(slots, NewAddress, [s \in Slots |-> 0]) ELSE slots
  /\ sources' = IF Now.arg = "AaveOracle" THEN Put(sources, NewAddress, {}) ELSE sources
  /\ UNCHANGED <<pools, granted, registered, db>>

SaveStep ==
  /\ Running("save")
  /\ db' = Put(db, Now.arg, local[Now.var])
  /\ UNCHANGED <<chain, local>>

LoadStep ==
  /\ Running("load")
  /\ local' = Put(local, Now.var, db[Now.arg])
  /\ UNCHANGED <<chain, db>>

TakeStep ==
  /\ Running("take")
  /\ local' = Put(local, Now.var, Now.arg)
  /\ UNCHANGED <<chain, db>>

ReadStep ==
  /\ Running("read")
  /\ local' = Put(local, Now.var, slots[Provider][Now.arg])
  /\ UNCHANGED <<chain, db>>

WriteStep ==
  /\ Running("write")
  /\ slots' = [slots EXCEPT ![Provider][Now.arg] = local[Now.var]]
  /\ UNCHANGED <<contracts, pools, granted, sources, registered, db, local>>

(* The provider makes a proxy of the implementation and initializes it:    *)
(* the configurator remembers the pool the provider holds at that time.    *)
UpgradeStep ==
  /\ Running("upgrade")
  /\ contracts' = Append(contracts,
                         [kind |-> Now.arg,
                          uses |-> {local[Now.var], Provider}
                                     \cup (IF Now.arg = "LendingPoolConfigurator"
                                           THEN {slots[Provider]["LendingPool"]} ELSE {})])
  /\ slots' = [slots EXCEPT ![Provider][Now.arg] = NewAddress]
  /\ pools' = IF Now.arg = "LendingPool"
              THEN Put(pools, NewAddress, [paused |-> FALSE, listed |-> {}, configured |-> {}])
              ELSE pools
  /\ UNCHANGED <<granted, sources, registered, db, local>>

RegisterStep ==
  /\ Running("register")
  /\ registered' = registered \cup {<<local[registry], Provider>>}
  /\ UNCHANGED <<contracts, slots, pools, granted, sources, db, local>>

PoolOf(configurator) == CHOOSE c \in Linked(configurator, "LendingPool") : TRUE

PauseStep ==
  /\ Running("pause")
  /\ pools' = [pools EXCEPT ![PoolOf(local["LendingPoolConfigurator"])].paused = Now.arg]
  /\ UNCHANGED <<contracts, slots, granted, sources, registered, db, local>>

GrantStep ==
  /\ Running("grant")
  /\ granted' = Put(granted, local[Now.var], local[Now.arg])
  /\ UNCHANGED <<contracts, slots, pools, sources, registered, db, local>>

(* The rates themselves are left out. *)
RatesStep ==
  /\ Running("rates")
  /\ UNCHANGED <<chain, db, local>>

SourcesStep ==
  /\ Running("sources")
  /\ sources' = [sources EXCEPT ![local["AaveOracle"]] = @ \cup Now.arg]
  /\ UNCHANGED <<contracts, slots, pools, granted, registered, db, local>>

(* batchInitReserve, a reserve a transaction. *)
ListReserve ==
  /\ Looping("list")
  /\ \E s \in Unlisted(target) :
       /\ FirstOf(Unlisted(target), s, target)
       /\ pools' = [pools EXCEPT ![PoolOf(local["LendingPoolConfigurator"])].listed = @ \cup {s}]
  /\ UNCHANGED <<contracts, slots, granted, sources, registered, db, local>>

ListStep ==
  /\ Running("list") /\ Unlisted(target) = {}
  /\ UNCHANGED <<chain, db, local>>

(* With nothing to configure the admin stays as it is. *)
ConfigureStep ==
  /\ Running("configure") /\ ~Taken /\ Unconfigured(target) = {}
  /\ UNCHANGED <<chain, db, local>>

SetPoolAdmin(admin) == slots' = [slots EXCEPT ![Provider]["PoolAdmin"] = admin]

TakeAdmin ==
  /\ Looping("configure") /\ ~Taken /\ Unconfigured(target) # {}
  /\ SetPoolAdmin(local["ATokensAndRatesHelper"])
  /\ local' = Put(local, "tokens", Unconfigured(target))
  /\ UNCHANGED <<contracts, pools, granted, sources, registered, db>>

(* helper.configureReserves, a reserve a transaction. *)
ConfigureReserve ==
  /\ Looping("configure") /\ Taken
  /\ \E s \in local["tokens"] :
       /\ FirstOf(local["tokens"], s, target)
       /\ pools' = [pools EXCEPT ![Pool].configured = @ \cup {s}]
       /\ local' = Put(local, "tokens", local["tokens"] \ {s})
  /\ UNCHANGED <<contracts, slots, granted, sources, registered, db>>

(* The role goes to whoever held it when the task began. *)
GiveAdminBack ==
  /\ Running("configure") /\ Taken /\ local["tokens"] = {}
  /\ SetPoolAdmin(local["PoolAdmin"])
  /\ UNCHANGED <<contracts, pools, granted, sources, registered, db, local>>

(* Not a step of the code: what a death leaves behind is remembered.       *)
RememberDeath == interrupted' = interrupted \cup (IF Taken THEN {Provider} ELSE {})

(* A revert, a missing entry, an exception: the script is dead. *)
FailStep ==
  /\ status = "running" /\ todo # <<>> /\ ~Possible
  /\ status' = "dead" /\ RememberDeath
  /\ UNCHANGED <<chain, db, target, task, todo, local, finished, counters>>

NextTask ==
  /\ status = "running" /\ todo = <<>> /\ task < Len(Programs[target])
  /\ task' = task + 1 /\ todo' = Programs[target][task'] /\ local' = <<>>
  /\ UNCHANGED <<chain, db, target, status, history, counters>>

Finish ==
  /\ status = "running" /\ todo = <<>> /\ task = Len(Programs[target])
  /\ status' = "finished" /\ local' = <<>>
  /\ finished' = finished \cup {[provider |-> db[provider], target |-> target]}
  /\ UNCHANGED <<chain, db, target, task, todo, interrupted, counters>>

Script ==
  \/ MineStep \/ SaveStep \/ LoadStep \/ TakeStep \/ ReadStep \/ WriteStep \/ UpgradeStep
  \/ RegisterStep \/ PauseStep \/ GrantStep \/ RatesStep \/ SourcesStep \/ ListReserve
  \/ ListStep \/ ConfigureStep \/ TakeAdmin \/ ConfigureReserve \/ GiveAdminBack \/ FailStep
  \/ NextTask \/ Finish

Crash ==
  /\ status = "running" /\ crashes < MaxCrashes
  /\ status' = "dead" /\ crashes' = crashes + 1 /\ RememberDeath
  /\ UNCHANGED <<chain, db, target, task, todo, local, finished, begun, reruns, restarts>>

-----------------------------------------------------------------------------
(* The operator. *)
Restarted(t, n) ==
  /\ target' = t /\ task' = n /\ todo' = Programs[t][n] /\ local' = <<>> /\ status' = "running"

Begin ==
  /\ status # "running" /\ begun < MaxTargets
  /\ \E t \in Targets : t.network = target.network /\ Restarted(t, 1)
  /\ begun' = begun + 1
  /\ UNCHANGED <<chain, db, history, crashes, reruns, restarts>>

(* After a crash the task is run again once, or the migration is: an error *)
(* that a task throws by itself would come again.                          *)
Rerun ==
  /\ status = "dead" /\ reruns < crashes
  /\ Restarted(target, task)
  /\ reruns' = reruns + 1
  /\ UNCHANGED <<chain, db, history, begun, crashes, restarts>>

StartOver ==
  /\ status = "dead" /\ restarts < crashes
  /\ Restarted(target, 1)
  /\ restarts' = restarts + 1
  /\ UNCHANGED <<chain, db, history, begun, crashes, reruns>>

Next == Script \/ Crash \/ Begin \/ Rerun \/ StartOver

Spec == Init /\ [][Next]_vars

(* The script goes on by itself, and an operator starts over rather than   *)
(* leave a migration dead.                                                 *)
FairSpec == Spec /\ WF_vars(Script) /\ WF_vars(StartOver)

-----------------------------------------------------------------------------
(* What a deployed market is. *)
ProxiesLinked(p) ==
  /\ contracts[slots[p]["LendingPool"]].kind = "LendingPool"
  /\ p \in contracts[slots[p]["LendingPool"]].uses
  /\ {p, slots[p]["LendingPool"]} \subseteq contracts[slots[p]["LendingPoolConfigurator"]].uses

HelpersSet(p) ==
  /\ slots[p]["LendingPoolCollateralManager"] # 0
  /\ slots[p]["0x01"] # 0 /\ p \in contracts[slots[p]["0x01"]].uses

(* The deployer is pool admin; if a script died between taking the role    *)
(* and handing it back, a contract that works for the provider may be:     *)
(* the helper, which the next run took for the admin.                      *)
AdminsInOffice(p, t) ==
  /\ \/ slots[p]["PoolAdmin"] = Deployer
     \/ p \in interrupted /\ p \in contracts[slots[p]["PoolAdmin"]].uses
  /\ slots[p]["EmergencyAdmin"] = Address(getEmergencyAdmin(t))
  /\ Provided(t, "LendingRateOracle") \/ granted[slots[p]["LendingRateOracle"]] = Deployer

ReservesOpen(p, t) ==
  pools[slots[p]["LendingPool"]]
    = [paused |-> FALSE, listed |-> Listable(t), configured |-> ConfiguredOf(t)]

Registered(p, t) == t.skipRegistry \/ \E pair \in registered : pair[2] = p

(* A migration that reports its end has left a whole market: proxies,      *)
(* managers and data provider that name one another, the admins in office  *)
(* (the pool's, unless a script died while the helper held the role: then  *)
(* a rerun may end with the helper still holding it), every reserve        *)
(* listed, configured and open; and whatever is deployed later, with       *)
(* whatever crashes, the market stays as it is.                            *)
FinishedMarketsWhole ==
  \A f \in finished :
    /\ ProxiesLinked(f.provider) /\ HelpersSet(f.provider)
    /\ AdminsInOffice(f.provider, f.target)
    /\ ReservesOpen(f.provider, f.target)
    /\ Registered(f.provider, f.target)

(* A reserve is listed only under a price oracle that has a source for it, *)
(* or quotes in it, or has a fallback to ask: also while scripts die and   *)
(* are run again no pool has a reserve it cannot price.  The currencies    *)
(* are those of one market all of whose reserves the pool's are, whichever *)
(* market the script at hand is about.                                     *)
Priced(oracle, symbol, t) ==
  /\ oracle # 0
  /\ \/ symbol \in sources[oracle] \cup QuoteCurrencies(t)
     \/ Linked(oracle, "PriceOracle") # {}

ListedArePriced ==
  \A p \in DOMAIN slots :
    slots[p]["LendingPool"] # 0 =>
      LET listed == pools[slots[p]["LendingPool"]].listed
      IN  \E t \in Targets :
            /\ listed \subseteq Listable(t)
            /\ \A symbol \in listed : Priced(slots[p]["PriceOracle"], symbol, t)

Entered(key) == IF key \in DOMAIN db THEN db[key] ELSE 0

(* When a migration ends, deployed-contracts.json names the contracts of   *)
(* that market, not an implementation and not another market's: it is what *)
(* later tasks and scripts take their addresses from.                      *)
DbNamesTheMarket ==
  status = "finished" =>
    /\ Entered("LendingPool") = slots[db[provider]]["LendingPool"]
    /\ Entered("LendingPoolConfigurator") = slots[db[provider]]["LendingPoolConfigurator"]
    /\ Entered("AaveProtocolDataProvider") = slots[db[provider]]["0x01"]
    /\ Entered("ATokensAndRatesHelper") # 0
    /\ db[provider] \in contracts[db["ATokensAndRatesHelper"]].uses

(* No step of the target's migration is bound to throw. *)
Endable(t) ==
  \A n \in DOMAIN Programs[t] : \A i \in DOMAIN Programs[t][n] : Programs[t][n][i].op # "throw"

(* A migration none of whose steps throws by itself gets its market        *)
(* deployed once it is begun, unless the operator turns to another target: *)
(* scripts may die between any two steps and leave a market half listed,   *)
(* half configured or with the helper for its admin, and what is on chain  *)
(* then stops no later run of them (README.md:28).                         *)
EventuallyDeployed ==
  \A t \in Targets :
    Endable(t) =>
      (status = "running" /\ target = t ~> status = "finished" \/ target # t)
=============================================================================
