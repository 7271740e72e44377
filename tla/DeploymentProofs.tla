-------------------------- MODULE DeploymentProofs --------------------------
(***************************************************************************)
(* What migrations leave on a network, for any number of them, in any      *)
(* order and for any markets, any number of crashes at any step, reruns of *)
(* single tasks and fresh starts, and any number of price feeds.           *)
(*                                                                         *)
(* First the tasks, which are constants: of what steps each is made and    *)
(* where in it the steps are that matter.  Then the inductive invariant:   *)
(* where a script is in its task, what is on chain, what the script holds, *)
(* and what each task, once past, has achieved for the provider that       *)
(* deployed-contracts.json names.  Each part is shown to survive the steps *)
(* that act on the chain (Moves) and those that only move the script       *)
(* (Turns).  The markets that finished stay whole because a later script   *)
(* works with a provider of its own and reaches that provider's pool only. *)
(* Last, prices: a provider has its oracle, and that its sources or its    *)
(* fallback, before a reserve is listed.                                   *)
(***************************************************************************)
EXTENDS MarketDeployment, TLAPS

(* Tasks are sequences of steps.                                           *)
Steps(p) == {p[i] : i \in 1 .. Len(p)}

Program(p) == p \in Seq(Steps(p))

LEMMA Tuple == ASSUME NEW s PROVE Program(<<s>>) /\ Steps(<<s>>) = {s} /\ Len(<<s>>) = 1
BY DEF Program, Steps

LEMMA Empty == Program(<<>>) /\ Steps(<<>>) = {} /\ Len(<<>>) = 0
BY DEF Program, Steps

LEMMA Cat ==
  ASSUME NEW p, NEW q, Program(p), Program(q)
  PROVE  /\ Program(p \o q)
         /\ Steps(p \o q) = Steps(p) \cup Steps(q)
         /\ Len(p \o q) = Len(p) + Len(q)
         /\ \A i \in 1 .. Len(p) : (p \o q)[i] = p[i]
         /\ \A i \in 1 .. Len(q) : (p \o q)[Len(p) + i] = q[i]
<1> DEFINE S == Steps(p) \cup Steps(q)
<1>1. p \in Seq(S) /\ q \in Seq(S)
  BY DEF Program
<1>2. p \o q \in Seq(S) /\ Len(p \o q) = Len(p) + Len(q) /\ Len(p) \in Nat /\ Len(q) \in Nat
  BY <1>1
<1>3. \A i \in 1 .. Len(p) : (p \o q)[i] = p[i]
  BY <1>1
<1>4. \A i \in 1 .. Len(q) : (p \o q)[Len(p) + i] = q[i]
  BY <1>1
<1>5. ASSUME NEW i \in 1 .. Len(p \o q) PROVE (p \o q)[i] \in S
  <2>1. CASE i <= Len(p)
    BY <1>2, <1>3, <2>1 DEF Steps
  <2>2. CASE i > Len(p)
    <3>1. i - Len(p) \in 1 .. Len(q) /\ i = Len(p) + (i - Len(p))
      BY <1>2, <2>2
    <3> QED
      BY <1>4, <3>1 DEF Steps
  <2> QED
    BY <1>2, <2>1, <2>2
<1>6. ASSUME NEW i \in 1 .. Len(p) PROVE p[i] \in Steps(p \o q)
  <2>1. i \in 1 .. Len(p \o q)
    BY <1>2
  <2> QED
    BY <1>3, <2>1 DEF Steps
<1>7. ASSUME NEW i \in 1 .. Len(q) PROVE q[i] \in Steps(p \o q)
  <2>1. Len(p) + i \in 1 .. Len(p \o q)
    BY <1>2
  <2> QED
    BY <1>4, <2>1 DEF Steps
<1>8. Steps(p \o q) = S
  BY <1>5, <1>6, <1>7 DEF Steps
<1> QED
  BY <1>2, <1>3, <1>4, <1>8 DEF Program

-----------------------------------------------------------------------------
Assigning == {"mine", "load", "take", "read"}
Proxies   == {"LendingPool", "LendingPoolConfigurator"}
Impls     == {"LendingPoolImpl", "LendingPoolConfiguratorImpl", "LendingPoolCollateralManager"}

(* What holds of every step of every task: implementations are held under  *)
(* their own names, no step assigns the variable of a loop, and proxies    *)
(* are upgraded, never written.                                            *)
Regular(s) ==
  /\ s.op \in Assigning => s.var # "tokens"
  /\ s.op = "save" /\ s.arg = provider => s.var = provider
  /\ s.op \in {"take", "read"} => s.var # provider
  /\ s.op = "load" /\ s.var = provider => s.arg = provider
  /\ s.op = "mine" => (s.arg = provider <=> s.var = provider)
  /\ s.op = "write" => s.arg \notin Proxies
  /\ s.op = "upgrade" => s.arg \in Proxies
  /\ s.op = "take" => s.arg \in DOMAIN Accounts
  /\ s.op \in Assigning /\ s.var \in Impls =>
       \/ s.op = "mine" /\ s.arg = s.var
       \/ s.op = "take" /\ Accounts[s.arg] = s.var

(* A step that is none of some operations, none of some operations on a    *)
(* given name, and assigns none of some variables.                         *)
Fit(s, ops, pairs, vs) ==
  /\ Regular(s)
  /\ s.op \notin ops
  /\ <<s.op, s.arg>> \notin pairs
  /\ s.op \in Assigning => s.var \notin vs

Part(p, ops, pairs, vs) == Program(p) /\ \A s \in Steps(p) : Fit(s, ops, pairs, vs)

From(p, k, ops, pairs, vs) == \A i \in k .. Len(p) : Fit(p[i], ops, pairs, vs)

LEMMA PartStep ==
  ASSUME NEW s, NEW ops, NEW pairs, NEW vs, Fit(s, ops, pairs, vs)
  PROVE  Part(<<s>>, ops, pairs, vs)
BY Tuple DEF Part

LEMMA PartEmpty == ASSUME NEW ops, NEW pairs, NEW vs PROVE Part(<<>>, ops, pairs, vs)
BY Empty DEF Part

LEMMA PartCat ==
  ASSUME NEW p, NEW q, NEW ops, NEW pairs, NEW vs, Part(p, ops, pairs, vs), Part(q, ops, pairs, vs)
  PROVE  Part(p \o q, ops, pairs, vs)
BY Cat DEF Part

LEMMA ProgramLen == ASSUME NEW p, Program(p) PROVE Len(p) \in Nat /\ \A i \in 1 .. Len(p) : p[i] \in Steps(p)
BY DEF Program, Steps

LEMMA PartLen ==
  ASSUME NEW p, NEW ops, NEW pairs, NEW vs, Part(p, ops, pairs, vs)
  PROVE  Program(p) /\ Len(p) \in Nat /\ Len(p) >= 0
BY ProgramLen DEF Part

LEMMA PartFrom ==
  ASSUME NEW p, NEW ops, NEW pairs, NEW vs, Part(p, ops, pairs, vs), NEW k \in Nat \ {0}
  PROVE  From(p, k, ops, pairs, vs)
BY ProgramLen DEF Part, From

LEMMA FromCat ==
  ASSUME NEW p, NEW q, NEW ops, NEW pairs, NEW vs, NEW k \in Nat \ {0}, k <= Len(p) + 1,
         Program(p), From(p, k, ops, pairs, vs), Part(q, ops, pairs, vs)
  PROVE  From(p \o q, k, ops, pairs, vs)
<1>1. Len(p) \in Nat /\ Len(q) \in Nat /\ Program(q) /\ Len(p \o q) = Len(p) + Len(q)
  BY Cat, ProgramLen DEF Part
<1> SUFFICES ASSUME NEW i \in k .. Len(p \o q) PROVE Fit((p \o q)[i], ops, pairs, vs)
  BY DEF From
<1>2. CASE i <= Len(p)
  <2>1. i \in 1 .. Len(p) /\ i \in k .. Len(p)
    BY <1>1, <1>2
  <2> QED
    BY <1>1, <2>1, Cat DEF From
<1>3. CASE i > Len(p)
  <2>1. i - Len(p) \in 1 .. Len(q) /\ i = Len(p) + (i - Len(p))
    BY <1>1, <1>3
  <2>2. (p \o q)[i] = q[i - Len(p)]
    BY <1>1, <2>1, Cat
  <2> QED
    BY <1>1, <2>1, <2>2, ProgramLen DEF Part
<1> QED
  BY <1>1, <1>2, <1>3

LEMMA Weaker ==
  ASSUME NEW p, NEW ops, NEW pairs, NEW vs, Part(p, ops, pairs, vs),
         NEW ops2, NEW pairs2, NEW vs2, ops2 \subseteq ops, pairs2 \subseteq pairs, vs2 \subseteq vs
  PROVE  Part(p, ops2, pairs2, vs2)
BY DEF Part, Fit

LEMMA AccountAddresses ==
  \A x \in {"signer0", "signer1", "ProviderRegistry", "LendingPoolImpl",
              "LendingPoolConfiguratorImpl", "LendingRateOracle", "AaveOracle",
              "FallbackOracle", "LendingPoolCollateralManager", "WrappedNativeToken"} :
     Address(x) \in DOMAIN Accounts /\ Accounts[Address(x)] = x
<1>1. Accounts[1] = "signer0" /\ Accounts[2] = "signer1" /\ Accounts[3] = "ProviderRegistry"
      /\ Accounts[4] = "LendingPoolImpl" /\ Accounts[5] = "LendingPoolConfiguratorImpl"
      /\ Accounts[6] = "LendingRateOracle" /\ Accounts[7] = "AaveOracle"
      /\ Accounts[8] = "FallbackOracle" /\ Accounts[9] = "LendingPoolCollateralManager"
      /\ Accounts[10] = "WrappedNativeToken" /\ DOMAIN Accounts = 1 .. 10
  BY DEF Accounts
<1> SUFFICES ASSUME NEW x, \E i \in DOMAIN Accounts : Accounts[i] = x
             PROVE  Address(x) \in DOMAIN Accounts /\ Accounts[Address(x)] = x
  BY <1>1
<1> QED
  BY DEF Address

-----------------------------------------------------------------------------
(* Operations that change the chain through the provider or the pool.      *)
Acting == {"write", "upgrade", "register", "pause", "grant", "list", "configure"}

(* Entries of the json that DbNamesTheMarket is about. *)
Keys == {provider, "LendingPool", "LendingPoolConfigurator", "ATokensAndRatesHelper",
         "AaveProtocolDataProvider"}

Aside(p) == Part(p, Acting, {"save"} \X Keys, {provider})

LEMMA SideTasks ==
  ASSUME NEW t
  PROVE  /\ Aside(fullDeployWethGateway(t)) /\ Aside(deployUiPoolDataProviderV2V3)
         /\ Aside(deployUiIncentiveDataProviderV2V3)
         /\ Aside(fullDeployAddressProviderRegistry(t))
<1>1. Aside(getWrappedNativeTokenAddress(t))
  BY AccountAddresses, PartStep, PartCat
  DEF getWrappedNativeTokenAddress, Aside, Take, Throw, Mine, Save,
      Fit, Regular, Acting, Assigning, Impls, Proxies, provider, Keys
<1>2. Aside(deployWETHGateway) /\ Aside(deployUiPoolDataProviderV2V3)
      /\ Aside(deployUiIncentiveDataProviderV2V3)
  BY PartStep, PartCat
  DEF deployWETHGateway, deployUiPoolDataProviderV2V3, deployUiIncentiveDataProviderV2V3,
      Deployed, Mine, Save, Aside, Fit, Regular, Acting, Assigning, Impls, Proxies, provider, Keys
<1>3. Aside(fullDeployAddressProviderRegistry(t))
  BY PartStep, PartCat, PartEmpty
  DEF fullDeployAddressProviderRegistry, deployLendingPoolAddressesProviderRegistry, Nothing,
      Deployed, Mine, Save, Aside, Fit, Regular, Acting, Assigning, Impls, Proxies, provider,
      registry, Keys
<1> QED
  BY <1>1, <1>2, <1>3, PartCat DEF fullDeployWethGateway, Aside

LEMMA MockTokensTask == Aside(deployAllMockTokens)
<1> DEFINE symbol(n) == TokenContractIds[(n + 2) \div 3]
           mock(x)   == Mine("MintableERC20", "MintableERC20", {})
                        \o Save("MintableERC20", "MintableERC20") \o Save(x, "MintableERC20")
           all       == [n \in 1 .. 3 * Len(TokenContractIds) |-> mock(symbol(n))[1 + ((n - 1) % 3)]]
<1>1. deployAllMockTokens = all
  BY DEF deployAllMockTokens
<1>2. Len(TokenContractIds) = 8
  BY DEF TokenContractIds
<1>3. ASSUME NEW n \in 1 .. 24 PROVE Fit(all[n], Acting, {"save"} \X Keys, {provider})
  <2>1. (n + 2) \div 3 \in 1 .. 8 /\ 1 + ((n - 1) % 3) \in 1 .. 3
    OBVIOUS
  <2>2. symbol(n) \notin Keys
    BY <2>1 DEF TokenContractIds, Keys, provider
  <2> HIDE DEF symbol
  <2>3. ASSUME NEW s \in Steps(mock(symbol(n))) PROVE Fit(s, Acting, {"save"} \X Keys, {provider})
    <3>1. Part(mock(symbol(n)), Acting, {"save"} \X Keys, {provider})
      BY <2>2, PartStep, PartCat
      DEF Mine, Save, Fit, Regular, Acting, Assigning, Impls, Proxies, provider, Keys
    <3> QED
      BY <3>1 DEF Part
  <2>4. Len(mock(symbol(n))) = 3
    BY DEF Mine, Save
  <2> HIDE DEF mock
  <2>6. n \in 1 .. 3 * Len(TokenContractIds)
    BY <1>2
  <2>5. all[n] = mock(symbol(n))[1 + ((n - 1) % 3)]
    BY <2>6
  <2> HIDE DEF all
  <2> QED
    BY <2>1, <2>3, <2>4, <2>5 DEF Steps
<1>4. all \in Seq(Steps(all)) /\ Len(all) = 24
  <2> HIDE DEF mock, symbol
  <2> QED
    BY <1>2 DEF Steps
<1> HIDE DEF all
<1> QED
  BY <1>1, <1>3, <1>4 DEF Aside, Part, Program, Steps

-----------------------------------------------------------------------------
Dev(t) == t.migration = "aave:dev"

(* The first task that writes to the chain deploys the provider, and        *)
(* everything after is about that provider.                                *)
Registration(t) == deployLendingPoolAddressesProvider \o addMarketToRegistry(t)

(* Its first two steps deploy and enter the provider, which nothing after  *)
(* does again; its last four put the admins in office.                     *)
Opening(p, t) ==
  /\ Program(p) /\ Len(p) >= 2 /\ From(p, 1, {}, {}, {})
  /\ p[1] = Mine(provider, provider, {})[1] /\ p[2] = Save(provider, provider)[1]
  /\ From(p, 3, {"upgrade", "pause", "grant", "list", "configure"}, {<<"save", provider>>}, {provider})
  /\ ~Dev(t) =>
       /\ Len(p) >= 6
       /\ p[Len(p) - 3] = Take("PoolAdmin", "signer0")[1]
       /\ p[Len(p) - 2] = Write("PoolAdmin", "PoolAdmin")[1]
       /\ p[Len(p) - 1] = Take("EmergencyAdmin", getEmergencyAdmin(t))[1]
       /\ p[Len(p)] = Write("EmergencyAdmin", "EmergencyAdmin")[1]
       /\ \/ t.skipRegistry
          \/ /\ Len(Registration(t)) \in 3 .. Len(p)
             /\ p[Len(Registration(t))] = Register[1]

LEMMA Grow ==
  ASSUME NEW p, NEW q, NEW ops, NEW pairs, NEW vs, NEW k \in Nat \ {0}, k <= Len(p) + 1,
         Program(p), From(p, k, ops, pairs, vs), Part(q, ops, pairs, vs)
  PROVE  Program(p \o q) /\ From(p \o q, k, ops, pairs, vs) /\ k <= Len(p \o q) + 1
BY FromCat, Cat, ProgramLen DEF Part

(* The same with names for \o and <<s>>, for reasoning about positions.    *)
Join(p, q) == p \o q
One(s) == <<s>>

LEMMA JoinAt ==
  ASSUME NEW p, NEW q, Program(p), Program(q)
  PROVE  /\ Program(Join(p, q)) /\ Len(Join(p, q)) = Len(p) + Len(q)
         /\ Len(p) \in Nat /\ Len(q) \in Nat
         /\ \A i \in 1 .. Len(p) : Join(p, q)[i] = p[i]
         /\ \A i \in 1 .. Len(q) : Join(p, q)[Len(p) + i] = q[i]
BY Cat, ProgramLen DEF Join

LEMMA JoinFits ==
  ASSUME NEW p, NEW q, NEW ops, NEW pairs, NEW vs, NEW k \in Nat \ {0}, k <= Len(p) + 1,
         Program(p), From(p, k, ops, pairs, vs), Part(q, ops, pairs, vs)
  PROVE  /\ Program(Join(p, q)) /\ From(Join(p, q), k, ops, pairs, vs)
         /\ k <= Len(Join(p, q)) + 1
BY Grow DEF Join

LEMMA OneMore ==
  ASSUME NEW p, Program(p), NEW s
  PROVE  /\ Program(Join(p, One(s))) /\ Len(Join(p, One(s))) = Len(p) + 1 /\ Len(p) \in Nat
         /\ Join(p, One(s))[Len(p) + 1] = s
         /\ \A i \in 1 .. Len(p) : Join(p, One(s))[i] = p[i]
<1>1. Program(One(s)) /\ Len(One(s)) = 1 /\ One(s)[1] = s
  BY Tuple DEF One
<1> DEFINE q == One(s)
<1> HIDE DEF q
<1>2. /\ Program(Join(p, q)) /\ Len(Join(p, q)) = Len(p) + Len(q) /\ Len(p) \in Nat
      /\ \A i \in 1 .. Len(p) : Join(p, q)[i] = p[i]
      /\ \A i \in 1 .. Len(q) : Join(p, q)[Len(p) + i] = q[i]
  <2>1. Program(q)
    BY <1>1 DEF q
  <2> QED
    BY <2>1, JoinAt
<1>3. Len(q) = 1 /\ q[1] = s
  BY <1>1 DEF q
<1>4. Join(p, q)[Len(p) + 1] = q[1]
  BY <1>2, <1>3
<1>5. Len(Join(p, q)) = Len(p) + 1
  BY <1>2, <1>3
<1> QED
  BY <1>2, <1>3, <1>4, <1>5 DEF q

LEMMA FourMore ==
  ASSUME NEW p, Program(p), NEW a, NEW b, NEW c, NEW d
  PROVE  LET q == Join(Join(Join(Join(p, One(a)), One(b)), One(c)), One(d))
         IN  /\ Program(q) /\ Len(p) \in Nat /\ Len(q) = Len(p) + 4
             /\ \A i \in 1 .. Len(p) : q[i] = p[i]
             /\ q[Len(p) + 1] = a /\ q[Len(p) + 2] = b /\ q[Len(p) + 3] = c /\ q[Len(p) + 4] = d
<1> DEFINE n == Len(p)
           q1 == Join(p, One(a))
           q2 == Join(q1, One(b))
           q3 == Join(q2, One(c))
           q4 == Join(q3, One(d))
<1>1. n \in Nat
  BY ProgramLen
<1>2. Program(q1) /\ Len(q1) = n + 1 /\ q1[n + 1] = a /\ \A i \in 1 .. n : q1[i] = p[i]
  BY OneMore
<1> HIDE DEF n, q1
<1>3. Program(q1)
  BY <1>2
<1>4. Program(q2) /\ Len(q2) = Len(q1) + 1 /\ q2[Len(q1) + 1] = b /\ \A i \in 1 .. Len(q1) : q2[i] = q1[i]
  BY <1>3, OneMore
<1> HIDE DEF q2
<1>5. Program(q2)
  BY <1>4
<1>6. Program(q3) /\ Len(q3) = Len(q2) + 1 /\ q3[Len(q2) + 1] = c /\ \A i \in 1 .. Len(q2) : q3[i] = q2[i]
  BY <1>5, OneMore
<1> HIDE DEF q3
<1>7. Program(q3)
  BY <1>6
<1>8. Program(q4) /\ Len(q4) = Len(q3) + 1 /\ q4[Len(q3) + 1] = d /\ \A i \in 1 .. Len(q3) : q4[i] = q3[i]
  BY <1>7, OneMore
<1> HIDE DEF q4
<1>9. Len(q1) = n + 1 /\ Len(q2) = n + 2 /\ Len(q3) = n + 3 /\ Len(q4) = n + 4
  BY <1>1, <1>2, <1>4, <1>6, <1>8
<1>10. /\ q1[n + 1] = a /\ q2[n + 2] = b /\ q3[n + 3] = c /\ q4[n + 4] = d
       /\ \A i \in 1 .. n : q1[i] = p[i]
       /\ \A i \in 1 .. n + 1 : q2[i] = q1[i]
       /\ \A i \in 1 .. n + 2 : q3[i] = q2[i]
       /\ \A i \in 1 .. n + 3 : q4[i] = q3[i]
  BY <1>1, <1>2, <1>4, <1>6, <1>8, <1>9
<1>11. /\ Program(q4) /\ n \in Nat /\ Len(q4) = n + 4
       /\ \A i \in 1 .. n : q4[i] = p[i]
       /\ q4[n + 1] = a /\ q4[n + 2] = b /\ q4[n + 3] = c /\ q4[n + 4] = d
  BY <1>1, <1>8, <1>9, <1>10
<1> QED
  BY <1>11 DEF q1, q2, q3, q4, n

LEMMA FourFit ==
  ASSUME NEW p, NEW ops, NEW pairs, NEW vs, NEW k \in Nat \ {0}, k <= Len(p) + 1,
         Program(p), From(p, k, ops, pairs, vs), NEW a, NEW b, NEW c, NEW d,
         Part(One(a), ops, pairs, vs), Part(One(b), ops, pairs, vs),
         Part(One(c), ops, pairs, vs), Part(One(d), ops, pairs, vs)
  PROVE  From(Join(Join(Join(Join(p, One(a)), One(b)), One(c)), One(d)), k, ops, pairs, vs)
BY JoinFits

LEMMA RegistrationEnds ==
  ASSUME NEW t
  PROVE  /\ Len(Registration(t)) \in Nat /\ Len(Registration(t)) >= 3
         /\ Registration(t)[Len(Registration(t))] = Register[1]
<1> DEFINE r == IF Provided(t, "ProviderRegistry")
                THEN IF Provided(t, "ProviderRegistryOwner") /\ t.ownsRegistry
                     THEN Take(registry, "ProviderRegistry") ELSE Throw
                ELSE fullDeployAddressProviderRegistry(t) \o Load(registry, registry)
           head == deployLendingPoolAddressesProvider
<1>1. Program(r)
  <2>1. Program(fullDeployAddressProviderRegistry(t))
    BY SideTasks DEF Aside, Part
  <2> QED
    BY <2>1, Tuple, Cat DEF Take, Throw, Load
<1>2. addMarketToRegistry(t) = Join(r, One(Register[1]))
  BY DEF addMarketToRegistry, Register, Join, One
<1>3. Program(head) /\ Len(head) = 2
  BY Tuple, Cat DEF deployLendingPoolAddressesProvider, Deployed, Mine, Save
<1> HIDE DEF r, head
<1> DEFINE q == Join(r, One(Register[1]))
<1>4. Registration(t) = Join(head, q)
  BY <1>2 DEF Registration, head, Join
<1>5. Program(q) /\ Len(q) = Len(r) + 1 /\ q[Len(r) + 1] = Register[1] /\ Len(r) \in Nat
  BY <1>1, OneMore
<1> HIDE DEF q
<1>6. Program(head) /\ Program(q) /\ Len(q) \in 1 .. Len(q)
  BY <1>3, <1>5
<1>7. Len(Join(head, q)) = Len(head) + Len(q) /\ Join(head, q)[Len(head) + Len(q)] = q[Len(q)]
  BY <1>6, JoinAt
<1> QED
  BY <1>3, <1>4, <1>5, <1>7

LEMMA AddressProviderTask == ASSUME NEW t, ~Dev(t) PROVE Opening(fullDeployAddressProvider(t), t)
<1> DEFINE head == deployLendingPoolAddressesProvider
           reg  == IF t.skipRegistry THEN Nothing ELSE addMarketToRegistry(t)
           p    == head \o reg
           a    == Take("PoolAdmin", "signer0")[1]
           b    == Write("PoolAdmin", "PoolAdmin")[1]
           c    == Take("EmergencyAdmin", getEmergencyAdmin(t))[1]
           d    == Write("EmergencyAdmin", "EmergencyAdmin")[1]
           all  == Join(Join(Join(Join(p, One(a)), One(b)), One(c)), One(d))
           ops  == {"upgrade", "pause", "grant", "list", "configure"}
<1>1. /\ Program(head) /\ Len(head) = 2
      /\ head[1] = Mine(provider, provider, {})[1] /\ head[2] = Save(provider, provider)[1]
  BY PartStep, Tuple, Cat DEF deployLendingPoolAddressesProvider, Deployed, Mine, Save
<1>2. Part(head, {}, {}, {})
  BY PartStep, PartCat
  DEF deployLendingPoolAddressesProvider, Deployed, Mine, Save, Fit, Regular, Assigning, Impls,
      Proxies, provider
<1>3. Part(addMarketToRegistry(t), ops, {<<"save", provider>>}, {provider})
  BY AccountAddresses, PartStep, PartCat, PartEmpty
  DEF addMarketToRegistry, fullDeployAddressProviderRegistry,
      deployLendingPoolAddressesProviderRegistry, Deployed, Mine, Save, Load, Take, Throw,
      Register, Nothing, Fit, Regular, Assigning, Impls, Proxies, provider, registry
<1>4. Part(reg, ops, {<<"save", provider>>}, {provider})
  BY <1>3, PartEmpty DEF Nothing
<1>5. /\ Part(One(a), ops, {<<"save", provider>>}, {provider})
      /\ Part(One(b), ops, {<<"save", provider>>}, {provider})
      /\ Part(One(c), ops, {<<"save", provider>>}, {provider})
      /\ Part(One(d), ops, {<<"save", provider>>}, {provider})
  BY AccountAddresses, PartStep
  DEF One, Take, Write, getEmergencyAdmin, EmergencyAdminIndex, Fit, Regular, Assigning, Impls,
      Proxies, provider
<1>6. fullDeployAddressProvider(t) = all
  BY DEF fullDeployAddressProvider, getGenesisPoolAdmin, Take, Write, Join, One
<1>7. ~ t.skipRegistry => p = Registration(t)
  BY DEF Registration
<1>8. From(head, 3, ops, {<<"save", provider>>}, {provider}) /\ From(head, 1, {}, {}, {})
  BY <1>1, <1>2, PartFrom DEF From
<1> HIDE DEF head, reg, a, b, c, d, ops
<1>9. Part(reg, {}, {}, {}) /\ Part(One(a), {}, {}, {}) /\ Part(One(b), {}, {}, {})
      /\ Part(One(c), {}, {}, {}) /\ Part(One(d), {}, {}, {})
  BY <1>4, <1>5, Weaker
<1>10. /\ Program(p) /\ Len(p) \in Nat /\ Len(p) >= 2 /\ p[1] = head[1] /\ p[2] = head[2]
  <2>1. Program(reg) /\ Len(reg) \in Nat
    BY <1>4, ProgramLen DEF Part
  <2> QED
    BY <1>1, <2>1, Cat, SMTT(20)
<1>11. From(p, 3, ops, {<<"save", provider>>}, {provider}) /\ From(p, 1, {}, {}, {})
  BY <1>1, <1>4, <1>8, <1>9, FromCat
<1> HIDE DEF p
<1>12. From(all, 3, ops, {<<"save", provider>>}, {provider})
  BY <1>5, <1>10, <1>11, FourFit
<1>13. From(all, 1, {}, {}, {})
  BY <1>9, <1>10, <1>11, FourFit
<1>14. /\ Program(all) /\ Len(all) = Len(p) + 4 /\ \A i \in 1 .. Len(p) : all[i] = p[i]
       /\ all[Len(p) + 1] = a /\ all[Len(p) + 2] = b /\ all[Len(p) + 3] = c /\ all[Len(p) + 4] = d
  BY <1>10, FourMore, SMTT(20)
<1> HIDE DEF all
<1>15. t.skipRegistry \/ /\ Len(Registration(t)) \in 3 .. Len(all)
                         /\ all[Len(Registration(t))] = Register[1]
  BY <1>7, <1>10, <1>14, RegistrationEnds
<1>16. /\ all[Len(all) - 3] = a /\ all[Len(all) - 2] = b /\ all[Len(all) - 1] = c /\ all[Len(all)] = d
       /\ Len(all) >= 6 /\ all[1] = head[1] /\ all[2] = head[2]
  BY <1>10, <1>14
<1> QED
  BY <1>1, <1>6, <1>12, <1>13, <1>14, <1>15, <1>16 DEF Opening, ops, a, b, c, d

LEMMA Onto ==
  ASSUME NEW p, NEW q, Program(p), Program(q), NEW n \in Nat, n <= Len(p)
  PROVE  /\ Program(p \o q) /\ n <= Len(p \o q)
         /\ \A i \in 1 .. n : (p \o q)[i] = p[i]
BY JoinAt DEF Join

LEMMA DevAddressProviderTask ==
  ASSUME NEW t, Dev(t)
  PROVE  Opening(devDeployAddressProvider, t)
<1> DEFINE head == deployLendingPoolAddressesProvider
           q1   == getGenesisPoolAdmin
           q2   == Write("PoolAdmin", "PoolAdmin")
           q3   == Write("EmergencyAdmin", "PoolAdmin")
           q4   == deployLendingPoolAddressesProviderRegistry
           q5   == Register
           ops  == {"upgrade", "pause", "grant", "list", "configure"}
<1>1. /\ Program(head) /\ Len(head) = 2
      /\ head[1] = Mine(provider, provider, {})[1] /\ head[2] = Save(provider, provider)[1]
  BY PartStep, Tuple, Cat DEF deployLendingPoolAddressesProvider, Deployed, Mine, Save
<1>2. Part(head, {}, {}, {})
  BY PartStep, PartCat
  DEF deployLendingPoolAddressesProvider, Deployed, Mine, Save, Fit, Regular, Assigning, Impls,
      Proxies, provider
<1>3. /\ Part(q1, ops, {<<"save", provider>>}, {provider})
      /\ Part(q2, ops, {<<"save", provider>>}, {provider})
      /\ Part(q3, ops, {<<"save", provider>>}, {provider})
      /\ Part(q4, ops, {<<"save", provider>>}, {provider})
      /\ Part(q5, ops, {<<"save", provider>>}, {provider})
  BY AccountAddresses, PartStep, PartCat
  DEF getGenesisPoolAdmin, deployLendingPoolAddressesProviderRegistry, Deployed, Mine, Save, Take,
      Write, Register, Fit, Regular, Assigning, Impls, Proxies, provider, registry
<1>4. From(head, 3, ops, {<<"save", provider>>}, {provider}) /\ From(head, 1, {}, {}, {})
  BY <1>1, <1>2, PartFrom DEF From
<1>5. devDeployAddressProvider = head \o q1 \o q2 \o q3 \o q4 \o q5
  BY DEF devDeployAddressProvider
<1> HIDE DEF head, q1, q2, q3, q4, q5, ops
<1> DEFINE p1 == head \o q1
           p2 == p1 \o q2
           p3 == p2 \o q3
           p4 == p3 \o q4
           p5 == p4 \o q5
<1> DEFINE Good(p) == /\ Program(p) /\ 2 <= Len(p) /\ p[1] = head[1] /\ p[2] = head[2]
                      /\ From(p, 3, ops, {<<"save", provider>>}, {provider})
                      /\ From(p, 1, {}, {}, {})
<1>6. ASSUME NEW p, NEW q, Good(p), Part(q, ops, {<<"save", provider>>}, {provider})
      PROVE  Good(p \o q)
  <2>1. Program(q) /\ Part(q, {}, {}, {}) /\ Len(p) \in Nat
    BY <1>6, Weaker, ProgramLen DEF Part
  <2>2. Program(p \o q) /\ 2 <= Len(p \o q) /\ (p \o q)[1] = p[1] /\ (p \o q)[2] = p[2]
    BY <1>6, <2>1, Onto
  <2>3. From(p \o q, 3, ops, {<<"save", provider>>}, {provider}) /\ From(p \o q, 1, {}, {}, {})
    BY <1>6, <2>1, FromCat
  <2> QED
    BY <1>6, <2>2, <2>3
<1>7. Good(head)
  BY <1>1, <1>4
<1> HIDE DEF Good
<1>8. Good(p5)
  BY <1>3, <1>6, <1>7
<1> HIDE DEF p5
<1>9. devDeployAddressProvider = p5
  BY <1>5 DEF p5
<1> QED
  BY <1>1, <1>8, <1>9 DEF Good, Opening, ops

-----------------------------------------------------------------------------
(* The second task deploys pool and configurator.  Up to where it has       *)
(* entered the pool, the configurator, and the helper.                     *)
PoolPart(t) == getLendingPoolAddressesProvider \o lendingPoolImplementation(t) \o poolProxy

ConfPart(t) == PoolPart(t) \o lendingPoolConfiguratorImplementation(t) \o configuratorProxy

HelperPart(t) ==
  ConfPart(t) \o SetPoolPause(TRUE, getEmergencyAdmin(t))
  \o deployStableAndVariableTokensHelper \o deployATokensAndRatesHelper

Assigns(s, v) == s.op \in Assigning /\ s.var = v

(* Where the task makes a proxy, reads its address and enters it, and what *)
(* no other of its steps does.                                             *)
PoolTask(p, t) ==
  LET k == Len(PoolPart(t))  c == Len(ConfPart(t))  h == Len(HelperPart(t))
  IN  /\ Program(p) /\ k \in 4 .. c - 4 /\ c \in 1 .. h - 2 /\ h \in 1 .. Len(p) - 1
      /\ p[1] = Load(provider, provider)[1]
      /\ p[k - 2] = Upgrade("LendingPool", "LendingPoolImpl")[1]
      /\ p[k - 1] = Read("LendingPool", "LendingPool")[1]
      /\ p[k] = Save("LendingPool", "LendingPool")[1]
      /\ p[c - 2] = Upgrade("LendingPoolConfigurator", "LendingPoolConfiguratorImpl")[1]
      /\ p[c - 1] = Read("LendingPoolConfigurator", "LendingPoolConfigurator")[1]
      /\ p[c] = Save("LendingPoolConfigurator", "LendingPoolConfigurator")[1]
      /\ p[h - 1] = Mine("ATokensAndRatesHelper", "ATokensAndRatesHelper",
                         {"LendingPool", provider, "LendingPoolConfigurator"})[1]
      /\ p[h] = Save("ATokensAndRatesHelper", "ATokensAndRatesHelper")[1]
      /\ p[Len(p)] = SetPoolPause(FALSE, getEmergencyAdmin(t))[1]
      /\ \E i \in 1 .. c - 3 : Assigns(p[i], "LendingPoolConfiguratorImpl")
      /\ \A i \in 1 .. Len(p) :
           /\ Fit(p[i], {"write", "register", "grant", "list", "configure"},
                  {<<"mine", provider>>, <<"save", provider>>,
                   <<"save", "AaveProtocolDataProvider">>}, {})
           /\ p[i].op = "upgrade" => i \in {k - 2, c - 2}
           /\ p[i].op = "pause" => i > c
           /\ p[i].op = "save" /\ p[i].arg = "LendingPool" => i <= k
           /\ p[i].op = "save" /\ p[i].arg = "LendingPoolConfigurator" => i <= c
           /\ Assigns(p[i], "LendingPoolConfigurator") => i <= c
           /\ p[i].op = "save" /\ p[i].arg = "ATokensAndRatesHelper" => i <= h

LEMMA Assoc ==
  ASSUME NEW p, NEW q, NEW r, Program(p), Program(q), Program(r)
  PROVE  Join(Join(p, q), r) = Join(p, Join(q, r))
<1> DEFINE S == Steps(p) \cup Steps(q) \cup Steps(r)
<1>1. p \in Seq(S) /\ q \in Seq(S) /\ r \in Seq(S)
  BY DEF Program
<1> HIDE DEF S
<1> QED
  BY <1>1 DEF Join

LEMMA JoinIn ==
  ASSUME NEW p, NEW q, Program(p), Program(q)
  PROVE  /\ Program(Join(p, q)) /\ Len(Join(p, q)) = Len(p) + Len(q)
         /\ Len(p) \in Nat /\ Len(q) \in Nat
         /\ \A i \in 1 .. Len(p) : Join(p, q)[i] = p[i]
         /\ \A i \in 1 .. Len(q) : Join(p, q)[Len(p) + i] = q[i]
         /\ \A i \in 1 .. Len(p) + Len(q) : i > Len(p) => Join(p, q)[i] \in Steps(q)
<1>1. /\ Program(Join(p, q)) /\ Len(Join(p, q)) = Len(p) + Len(q)
      /\ Len(p) \in Nat /\ Len(q) \in Nat
      /\ \A i \in 1 .. Len(p) : Join(p, q)[i] = p[i]
      /\ \A i \in 1 .. Len(q) : Join(p, q)[Len(p) + i] = q[i]
  BY JoinAt
<1>2. ASSUME NEW i \in 1 .. Len(p) + Len(q), i > Len(p) PROVE Join(p, q)[i] \in Steps(q)
  <2>1. i - Len(p) \in 1 .. Len(q) /\ Len(p) + (i - Len(p)) = i
    BY <1>1, <1>2
  <2>2. Join(p, q)[i] = q[i - Len(p)]
    BY <1>1, <2>1
  <2> QED
    BY <2>1, <2>2 DEF Steps
<1> QED
  BY <1>1, <1>2

(* Seven parts one after another, the second, fourth and sixth of 3, 3 and *)
(* 2 steps, and where in the whole their steps are.                        *)
Laid(a, b, c, d, e, f, g) ==
  LET p1 == Join(a, b)
      p2 == Join(Join(p1, c), d)
      p3 == Join(Join(p2, e), f)
      p  == Join(p3, g)
  IN  /\ Program(p) /\ Len(a) \in Nat /\ Len(c) \in Nat /\ Len(e) \in Nat /\ Len(g) \in Nat
      /\ Len(p1) = Len(a) + 3 /\ Len(p2) = Len(p1) + Len(c) + 3
      /\ Len(p3) = Len(p2) + Len(e) + 2 /\ Len(p) = Len(p3) + Len(g)
      /\ \A i \in 1 .. Len(a) : p[i] = a[i]
      /\ p[Len(p1) - 2] = b[1] /\ p[Len(p1) - 1] = b[2] /\ p[Len(p1)] = b[3]
      /\ \A i \in 1 .. Len(p) : Len(p1) < i /\ i <= Len(p2) - 3 => p[i] \in Steps(c)
      /\ \A i \in 1 .. Len(c) : p[Len(p1) + i] = c[i]
      /\ p[Len(p2) - 2] = d[1] /\ p[Len(p2) - 1] = d[2] /\ p[Len(p2)] = d[3]
      /\ \A i \in 1 .. Len(p) : Len(p2) < i /\ i <= Len(p3) - 2 => p[i] \in Steps(e)
      /\ p[Len(p3) - 1] = f[1] /\ p[Len(p3)] = f[2]
      /\ \A i \in 1 .. Len(p) : Len(p3) < i => p[i] \in Steps(g)
      /\ Len(g) > 0 => p[Len(p)] = g[Len(g)]

LEMMA Layout ==
  ASSUME NEW a, NEW b, NEW c, NEW d, NEW e, NEW f, NEW g,
         Program(a), Program(b), Program(c), Program(d), Program(e), Program(f), Program(g)
  PROVE  Len(b) = 3 /\ Len(d) = 3 /\ Len(f) = 2 => Laid(a, b, c, d, e, f, g)
<1> DEFINE p1 == Join(a, b)
           r1 == Join(p1, c)
           p2 == Join(r1, d)
           r2 == Join(p2, e)
           p3 == Join(r2, f)
           p  == Join(p3, g)
<1>1. /\ Program(p1) /\ Len(p1) = Len(a) + Len(b) /\ Len(a) \in Nat
      /\ \A i \in 1 .. Len(a) : p1[i] = a[i]
      /\ \A i \in 1 .. Len(b) : p1[Len(a) + i] = b[i]
  BY JoinIn
<1>2. Program(p1)
  BY <1>1
<1> HIDE DEF p1
<1>3. /\ Program(r1) /\ Len(r1) = Len(p1) + Len(c) /\ Len(c) \in Nat
      /\ \A i \in 1 .. Len(p1) : r1[i] = p1[i]
      /\ \A i \in 1 .. Len(c) : r1[Len(p1) + i] = c[i]
      /\ \A i \in 1 .. Len(p1) + Len(c) : i > Len(p1) => r1[i] \in Steps(c)
  BY <1>2, JoinIn
<1>4. Program(r1)
  BY <1>3
<1> HIDE DEF r1
<1>5. /\ Program(p2) /\ Len(p2) = Len(r1) + Len(d)
      /\ \A i \in 1 .. Len(r1) : p2[i] = r1[i]
      /\ \A i \in 1 .. Len(d) : p2[Len(r1) + i] = d[i]
  BY <1>4, JoinIn
<1>6. Program(p2)
  BY <1>5
<1> HIDE DEF p2
<1>7. /\ Program(r2) /\ Len(r2) = Len(p2) + Len(e) /\ Len(e) \in Nat
      /\ \A i \in 1 .. Len(p2) : r2[i] = p2[i]
      /\ \A i \in 1 .. Len(p2) + Len(e) : i > Len(p2) => r2[i] \in Steps(e)
  BY <1>6, JoinIn
<1>8. Program(r2)
  BY <1>7
<1> HIDE DEF r2
<1>9. /\ Program(p3) /\ Len(p3) = Len(r2) + Len(f)
      /\ \A i \in 1 .. Len(r2) : p3[i] = r2[i]
      /\ \A i \in 1 .. Len(f) : p3[Len(r2) + i] = f[i]
  BY <1>8, JoinIn
<1>10. Program(p3)
  BY <1>9
<1> HIDE DEF p3
<1>11. /\ Program(p) /\ Len(p) = Len(p3) + Len(g) /\ Len(g) \in Nat
       /\ \A i \in 1 .. Len(p3) : p[i] = p3[i]
       /\ \A i \in 1 .. Len(g) : p[Len(p3) + i] = g[i]
       /\ \A i \in 1 .. Len(p3) + Len(g) : i > Len(p3) => p[i] \in Steps(g)
  BY <1>10, JoinIn
<1> HIDE DEF p
<1> HAVE Len(b) = 3 /\ Len(d) = 3 /\ Len(f) = 2
<1>12. /\ Len(p1) = Len(a) + 3 /\ Len(r1) = Len(p1) + Len(c) /\ Len(p2) = Len(r1) + 3
       /\ Len(r2) = Len(p2) + Len(e) /\ Len(p3) = Len(r2) + 2 /\ Len(p) = Len(p3) + Len(g)
       /\ Len(a) \in Nat /\ Len(c) \in Nat /\ Len(e) \in Nat /\ Len(g) \in Nat
       /\ Len(p1) \in Nat /\ Len(r1) \in Nat /\ Len(p2) \in Nat /\ Len(r2) \in Nat /\ Len(p3) \in Nat
  BY <1>1, <1>3, <1>5, <1>7, <1>9, <1>11
<1>13. /\ \A i \in 1 .. Len(p1) : p[i] = p1[i]
       /\ \A i \in 1 .. Len(r1) : p[i] = r1[i]
       /\ \A i \in 1 .. Len(p2) : p[i] = p2[i]
       /\ \A i \in 1 .. Len(r2) : p[i] = r2[i]
  BY <1>3, <1>5, <1>7, <1>9, <1>11, <1>12, SMTT(20)
<1>14. p[Len(p1) - 2] = b[1] /\ p[Len(p1) - 1] = b[2] /\ p[Len(p1)] = b[3]
  <2>1. p1[Len(a) + 1] = b[1] /\ p1[Len(a) + 2] = b[2] /\ p1[Len(a) + 3] = b[3]
    BY <1>1
  <2>2. Len(p1) - 2 = Len(a) + 1 /\ Len(p1) - 1 = Len(a) + 2 /\ Len(p1) = Len(a) + 3
    BY <1>12
  <2> QED
    BY <1>12, <1>13, <2>1, <2>2
<1>15. p[Len(p2) - 2] = d[1] /\ p[Len(p2) - 1] = d[2] /\ p[Len(p2)] = d[3]
  <2>1. p2[Len(r1) + 1] = d[1] /\ p2[Len(r1) + 2] = d[2] /\ p2[Len(r1) + 3] = d[3]
    BY <1>5
  <2>2. Len(p2) - 2 = Len(r1) + 1 /\ Len(p2) - 1 = Len(r1) + 2 /\ Len(p2) = Len(r1) + 3
    BY <1>12
  <2> QED
    BY <1>12, <1>13, <2>1, <2>2
<1>16. p[Len(p3) - 1] = f[1] /\ p[Len(p3)] = f[2]
  <2>1. p3[Len(r2) + 1] = f[1] /\ p3[Len(r2) + 2] = f[2]
    BY <1>9
  <2>2. Len(p3) - 1 = Len(r2) + 1 /\ Len(p3) = Len(r2) + 2
    BY <1>12
  <2> QED
    BY <1>11, <1>12, <2>1, <2>2
<1>17. Len(g) > 0 => p[Len(p)] = g[Len(g)]
  BY <1>11, <1>12
<1>18. /\ \A i \in 1 .. Len(p) : Len(p1) < i /\ i <= Len(p2) - 3 => p[i] \in Steps(c)
       /\ \A i \in 1 .. Len(p) : Len(p2) < i /\ i <= Len(p3) - 2 => p[i] \in Steps(e)
       /\ \A i \in 1 .. Len(p) : Len(p3) < i => p[i] \in Steps(g)
  BY <1>3, <1>7, <1>11, <1>12, <1>13
<1>19. /\ \A i \in 1 .. Len(a) : p[i] = a[i]
       /\ \A i \in 1 .. Len(c) : p[Len(p1) + i] = c[i]
  BY <1>1, <1>3, <1>12, <1>13
<1>20. Len(p2) = Len(p1) + Len(c) + 3 /\ Len(p3) = Len(p2) + Len(e) + 2
  BY <1>12
<1> QED
  BY <1>11, <1>12, <1>14, <1>15, <1>16, <1>17, <1>18, <1>19, <1>20 DEF Laid, p1, r1, p2, r2, p3, p

LEMMA PoolTaskLaid == \A t : PoolTask(fullDeployLendingPool(t), t)
<1> TAKE t
<1> DEFINE a1 == getLendingPoolAddressesProvider
           a2 == lendingPoolImplementation(t)
           b  == poolProxy
           c  == lendingPoolConfiguratorImplementation(t)
           d  == configuratorProxy
           e1 == SetPoolPause(TRUE, getEmergencyAdmin(t))
           e2 == deployStableAndVariableTokensHelper
           f  == deployATokensAndRatesHelper
           g1 == deployATokenImplementations(t)
           g2 == SetPoolPause(FALSE, getEmergencyAdmin(t))
           a  == Join(a1, a2)
           e  == Join(e1, e2)
           g  == Join(g1, g2)
           ops   == {"write", "register", "grant", "list", "configure"}
           pairs == {<<"mine", provider>>, <<"save", provider>>, <<"save", "AaveProtocolDataProvider">>}
           PLC   == {"LendingPool", "LendingPoolConfigurator", "ATokensAndRatesHelper"}
<1>1. Part(a1, ops \cup {"upgrade", "pause"}, pairs, {}) /\ a1 = One(Load(provider, provider)[1])
  BY PartStep DEF getLendingPoolAddressesProvider, Load, One, Fit, Regular, Assigning, Impls, Proxies, provider
<1>2. Part(a2, ops \cup {"upgrade", "pause"}, pairs, {}) /\ Len(a2) >= 0
  <2>1. Part(a2, ops \cup {"upgrade", "pause"}, pairs, {})
    BY AccountAddresses, PartStep, PartCat
    DEF lendingPoolImplementation, deployLendingPool, deployAaveLibraries, deployReserveLogicLibrary,
        deployGenericLogic, deployValidationLogic, Deployed, Mine, Save, Take, Fit, Regular,
        Assigning, Impls, Proxies, provider
  <2> QED
    BY <2>1, PartLen
<1>3. /\ Part(b, ops \cup {"pause"}, pairs, {}) /\ Len(b) = 3
      /\ b[1] = Upgrade("LendingPool", "LendingPoolImpl")[1]
      /\ b[2] = Read("LendingPool", "LendingPool")[1] /\ b[3] = Save("LendingPool", "LendingPool")[1]
  <2>1. Part(b, ops \cup {"pause"}, pairs, {})
    BY PartStep, PartCat DEF poolProxy, Upgrade, Read, Save, Fit, Regular, Assigning, Impls, Proxies, provider
  <2>2. /\ Len(b) = 3
        /\ b[1] = Upgrade("LendingPool", "LendingPoolImpl")[1]
        /\ b[2] = Read("LendingPool", "LendingPool")[1] /\ b[3] = Save("LendingPool", "LendingPool")[1]
    BY DEF poolProxy, Upgrade, Read, Save
  <2> QED
    BY <2>1, <2>2
<1>4. /\ Part(c, ops \cup {"upgrade", "pause"}, pairs \cup {<<"save", "LendingPool">>}, {})
      /\ Len(c) \in Nat /\ \E i \in 1 .. Len(c) : Assigns(c[i], "LendingPoolConfiguratorImpl")
  <2>1. Part(c, ops \cup {"upgrade", "pause"}, pairs \cup {<<"save", "LendingPool">>}, {})
    BY AccountAddresses, PartStep, PartCat
    DEF lendingPoolConfiguratorImplementation, deployLendingPoolConfigurator, Mine, Save, Take, Fit,
        Regular, Assigning, Impls, Proxies, provider
  <2>2. Len(c) >= 1 /\ Assigns(c[1], "LendingPoolConfiguratorImpl")
    BY DEF lendingPoolConfiguratorImplementation, deployLendingPoolConfigurator, Mine, Save, Take,
           Assigns, Assigning
  <2>3. Len(c) \in Nat
    BY <2>1, ProgramLen DEF Part
  <2> QED
    BY <2>1, <2>2, <2>3
<1>5. /\ Part(d, ops \cup {"pause"}, pairs \cup {<<"save", "LendingPool">>}, {}) /\ Len(d) = 3
      /\ d[1] = Upgrade("LendingPoolConfigurator", "LendingPoolConfiguratorImpl")[1]
      /\ d[2] = Read("LendingPoolConfigurator", "LendingPoolConfigurator")[1]
      /\ d[3] = Save("LendingPoolConfigurator", "LendingPoolConfigurator")[1]
  <2>1. Part(d, ops \cup {"pause"}, pairs \cup {<<"save", "LendingPool">>}, {})
    BY PartStep, PartCat DEF configuratorProxy, Upgrade, Read, Save, Fit, Regular, Assigning, Impls, Proxies, provider
  <2>2. /\ Len(d) = 3
        /\ d[1] = Upgrade("LendingPoolConfigurator", "LendingPoolConfiguratorImpl")[1]
        /\ d[2] = Read("LendingPoolConfigurator", "LendingPoolConfigurator")[1]
        /\ d[3] = Save("LendingPoolConfigurator", "LendingPoolConfigurator")[1]
    BY DEF configuratorProxy, Upgrade, Read, Save
  <2> QED
    BY <2>1, <2>2
<1>6. Part(e, ops \cup {"upgrade"}, pairs \cup ({"save"} \X PLC), {"LendingPoolConfigurator"}) /\ Len(e) >= 0
  <2>1. Part(e, ops \cup {"upgrade"}, pairs \cup ({"save"} \X PLC), {"LendingPoolConfigurator"})
    BY PartStep, PartCat
    DEF SetPoolPause, deployStableAndVariableTokensHelper, Deployed, Mine, Save, Fit, Regular,
        Assigning, Impls, Proxies, provider, Join
  <2> QED
    BY <2>1, PartLen
<1>7. /\ Part(f, ops \cup {"upgrade"}, pairs \cup {<<"save", "LendingPool">>, <<"save", "LendingPoolConfigurator">>}, {"LendingPoolConfigurator"})
      /\ Len(f) = 2
      /\ f[1] = Mine("ATokensAndRatesHelper", "ATokensAndRatesHelper",
                         {"LendingPool", provider, "LendingPoolConfigurator"})[1]
      /\ f[2] = Save("ATokensAndRatesHelper", "ATokensAndRatesHelper")[1]
  <2>1. Part(f, ops \cup {"upgrade"}, pairs \cup {<<"save", "LendingPool">>, <<"save", "LendingPoolConfigurator">>}, {"LendingPoolConfigurator"})
    BY PartStep, PartCat
    DEF deployATokensAndRatesHelper, Deployed, Mine, Save, Fit, Regular, Assigning, Impls, Proxies, provider
  <2>2. /\ Len(f) = 2
        /\ f[1] = Mine("ATokensAndRatesHelper", "ATokensAndRatesHelper",
                         {"LendingPool", provider, "LendingPoolConfigurator"})[1]
        /\ f[2] = Save("ATokensAndRatesHelper", "ATokensAndRatesHelper")[1]
    BY DEF deployATokensAndRatesHelper, Deployed, Mine, Save
  <2> QED
    BY <2>1, <2>2
<1>8. Part(g, ops \cup {"upgrade"}, pairs \cup ({"save"} \X PLC), {"LendingPoolConfigurator"})
      /\ Len(g) > 0 /\ g[Len(g)] = SetPoolPause(FALSE, getEmergencyAdmin(t))[1]
  <2>1. Part(g, ops \cup {"upgrade"}, pairs \cup ({"save"} \X PLC), {"LendingPoolConfigurator"})
    BY PartStep, PartCat, PartEmpty
    DEF SetPoolPause, deployATokenImplementations, Deployed, Mine, Save, Nothing, Fit, Regular,
        Assigning, Impls, Proxies, provider, Join
  <2>2. Program(g1)
    BY Tuple, Empty, Cat DEF deployATokenImplementations, Deployed, Mine, Save, Nothing
  <2>3. g2 = One(SetPoolPause(FALSE, getEmergencyAdmin(t))[1])
    BY DEF SetPoolPause, One
  <2>4. Len(g1) \in Nat
    BY <2>2, ProgramLen
  <2>5. Len(g) = Len(g1) + 1 /\ g[Len(g1) + 1] = SetPoolPause(FALSE, getEmergencyAdmin(t))[1]
    <3> HIDE DEF g1
    <3> QED
      BY <2>2, <2>3, OneMore, ZenonT(40)
  <2>6. Len(g) > 0 /\ g[Len(g)] = SetPoolPause(FALSE, getEmergencyAdmin(t))[1]
    <3> HIDE DEF g1, g
    <3> QED
      BY <2>4, <2>5
  <2> QED
    BY <2>1, <2>6
<1> DEFINE p1 == Join(a, b)
           p2 == Join(Join(p1, c), d)
           p3 == Join(Join(p2, e), f)
           p  == Join(p3, g)
<1>9. Part(a, ops \cup {"upgrade", "pause"}, pairs, {})
  BY <1>1, <1>2, PartCat DEF Join
<1>10. PoolPart(t) = p1 /\ ConfPart(t) = p2
  BY DEF PoolPart, ConfPart, Join
<1>11. Program(e1) /\ Program(e2) /\ Program(g1) /\ Program(g2)
  BY Tuple, Empty, Cat
  DEF SetPoolPause, deployStableAndVariableTokensHelper, deployATokenImplementations, Deployed, Mine,
      Save, Nothing
<1>12. /\ Program(a) /\ Program(b) /\ Program(c) /\ Program(d) /\ Program(e) /\ Program(f) /\ Program(g)
       /\ Len(b) = 3 /\ Len(d) = 3 /\ Len(f) = 2
  BY <1>3, <1>4, <1>5, <1>6, <1>7, <1>8, <1>9, PartLen
<1>13. HelperPart(t) = Join(Join(Join(p2, e1), e2), f)
  BY <1>10 DEF HelperPart, Join
<1>14. fullDeployLendingPool(t) = Join(Join(Join(Join(Join(p2, e1), e2), f), g1), g2)
  BY <1>10 DEF fullDeployLendingPool, ConfPart, PoolPart, Join
<1> HIDE DEF a1, a2, a, b, c, d, e1, e2, f, g1, g2, ops, pairs, PLC
<1>15. Program(p2)
  <2>1. Program(a) /\ Program(b) /\ Program(c) /\ Program(d)
    BY <1>12
  <2> QED
    BY <2>1, JoinAt
<1>16. Join(Join(p2, e1), e2) = Join(p2, e)
  <2> HIDE DEF p2
  <2> QED
    BY <1>11, <1>15, Assoc DEF e
<1>17. Program(p3)
  <2>1. Program(e) /\ Program(f)
    BY <1>12
  <2> HIDE DEF p2
  <2> QED
    BY <1>15, <2>1, JoinAt
<1>18. Join(Join(p3, g1), g2) = p
  <2> HIDE DEF p3
  <2> QED
    BY <1>11, <1>17, Assoc DEF g
<1>19. HelperPart(t) = p3 /\ fullDeployLendingPool(t) = p
  <2> HIDE DEF p2
  <2> QED
    BY <1>13, <1>14, <1>16, <1>18
<1>20. /\ Program(p) /\ Len(a) \in Nat /\ Len(c) \in Nat /\ Len(e) \in Nat /\ Len(g) \in Nat
       /\ Len(p1) = Len(a) + 3 /\ Len(p2) = Len(p1) + Len(c) + 3
       /\ Len(p3) = Len(p2) + Len(e) + 2 /\ Len(p) = Len(p3) + Len(g)
       /\ \A i \in 1 .. Len(a) : p[i] = a[i]
       /\ p[Len(p1) - 2] = b[1] /\ p[Len(p1) - 1] = b[2] /\ p[Len(p1)] = b[3]
       /\ \A i \in 1 .. Len(p) : Len(p1) < i /\ i <= Len(p2) - 3 => p[i] \in Steps(c)
       /\ \A i \in 1 .. Len(c) : p[Len(p1) + i] = c[i]
       /\ p[Len(p2) - 2] = d[1] /\ p[Len(p2) - 1] = d[2] /\ p[Len(p2)] = d[3]
       /\ \A i \in 1 .. Len(p) : Len(p2) < i /\ i <= Len(p3) - 2 => p[i] \in Steps(e)
       /\ p[Len(p3) - 1] = f[1] /\ p[Len(p3)] = f[2]
       /\ \A i \in 1 .. Len(p) : Len(p3) < i => p[i] \in Steps(g)
       /\ Len(g) > 0 => p[Len(p)] = g[Len(g)]
  <2>1. Program(a) /\ Program(b) /\ Program(c) /\ Program(d) /\ Program(e) /\ Program(f) /\ Program(g)
    BY <1>12
  <2>2. Len(b) = 3 /\ Len(d) = 3 /\ Len(f) = 2 => Laid(a, b, c, d, e, f, g)
    BY ONLY <2>1, Layout
  <2>3. Laid(a, b, c, d, e, f, g)
    BY <1>12, <2>2
  <2> QED
    BY ONLY <2>3 DEF Laid
<1> HIDE DEF p1, p2, p3, p
<1> DEFINE k == Len(p1)
           cc == Len(p2)
           h == Len(p3)
           N == Len(p)
<1>21. /\ Len(a) \in Nat /\ Len(a) >= 1 /\ k = Len(a) + 3 /\ cc = k + Len(c) + 3 /\ h = cc + Len(e) + 2
       /\ N = h + Len(g) /\ Len(c) \in Nat /\ Len(c) >= 1 /\ Len(e) \in Nat /\ Len(g) \in Nat /\ Len(g) >= 1
  <2>1. Len(a) >= 1
    <3>1. Program(a1) /\ Len(a1) = 1 /\ Program(a2) /\ Len(a2) \in Nat
      BY <1>1, <1>2, Tuple, PartLen DEF One
    <3> QED
      BY <3>1, JoinAt DEF a
  <2>2. Len(c) >= 1
    BY <1>4
  <2>3. Len(g) >= 1
    BY <1>8, <1>20
  <2> QED
    BY <1>20, <2>1, <2>2, <2>3
<1>22. p[1] = Load(provider, provider)[1]
  <2>1. Program(a1) /\ Len(a1) = 1 /\ Program(a2) /\ a1[1] = Load(provider, provider)[1]
    BY <1>1, <1>2, Tuple, PartLen DEF One
  <2>2. a[1] = a1[1]
    <3>1. \A i \in 1 .. Len(a1) : a[i] = a1[i]
      <4>1. Program(a1) /\ Program(a2)
        BY <2>1
      <4> QED
        BY <4>1, JoinAt DEF a
    <3> QED
      BY <2>1, <3>1
  <2> QED
    BY <1>20, <1>21, <2>1, <2>2
<1>23. \E i \in 1 .. cc - 3 : Assigns(p[i], "LendingPoolConfiguratorImpl")
  <2>1. PICK i \in 1 .. Len(c) : Assigns(c[i], "LendingPoolConfiguratorImpl")
    BY <1>4
  <2>2. p[k + i] = c[i] /\ k + i \in 1 .. cc - 3
    BY <1>20, <1>21, SMTT(20)
  <2> QED
    BY <2>1, <2>2
<1>24. \A i \in 1 .. N :
         \/ i <= Len(a) /\ p[i] \in Steps(a)
         \/ i = k - 2 /\ p[i] = b[1]
         \/ i = k - 1 /\ p[i] = b[2]
         \/ i = k /\ p[i] = b[3]
         \/ k < i /\ i <= cc - 3 /\ p[i] \in Steps(c)
         \/ i = cc - 2 /\ p[i] = d[1]
         \/ i = cc - 1 /\ p[i] = d[2]
         \/ i = cc /\ p[i] = d[3]
         \/ cc < i /\ i <= h - 2 /\ p[i] \in Steps(e)
         \/ i = h - 1 /\ p[i] = f[1]
         \/ i = h /\ p[i] = f[2]
         \/ i > h /\ p[i] \in Steps(g)
  <2> TAKE i \in 1 .. N
  <2>1. CASE i <= Len(a)
    <3>1. p[i] = a[i] /\ i \in 1 .. Len(a)
      BY <1>20, <1>21, <2>1, SMTT(20)
    <3> QED
      BY <2>1, <3>1 DEF Steps
  <2>2. CASE i > Len(a) /\ i <= k
    BY <1>20, <1>21, <2>2, SMTT(20)
  <2>3. CASE i > k /\ i <= cc
    <3>1. i <= cc - 3 => p[i] \in Steps(c)
      BY <1>20, <2>3
    <3>2. i <= cc - 3 \/ i = cc - 2 \/ i = cc - 1 \/ i = cc
      BY <1>21, <2>3, SMTT(20)
    <3> QED
      BY <1>20, <2>3, <3>1, <3>2
  <2>4. CASE i > cc
    <3>1. i <= h - 2 => p[i] \in Steps(e)
      BY <1>20, <2>4
    <3>2. i > h => p[i] \in Steps(g)
      BY <1>20
    <3>3. i <= h - 2 \/ i = h - 1 \/ i = h \/ i > h
      BY <1>21, <2>4
    <3> QED
      BY <1>20, <2>4, <3>1, <3>2, <3>3
  <2> QED
    BY <1>21, <2>1, <2>2, <2>3, <2>4
<1> DEFINE Rules(s, i) ==
             /\ Fit(s, ops, pairs, {})
             /\ s.op = "upgrade" => i \in {k - 2, cc - 2}
             /\ s.op = "pause" => i > cc
             /\ s.op = "save" /\ s.arg = "LendingPool" => i <= k
             /\ s.op = "save" /\ s.arg = "LendingPoolConfigurator" => i <= cc
             /\ Assigns(s, "LendingPoolConfigurator") => i <= cc
             /\ s.op = "save" /\ s.arg = "ATokensAndRatesHelper" => i <= h
<1>25. ASSUME NEW i \in 1 .. N PROVE Rules(p[i], i)
  <2>1. ASSUME i <= Len(a), p[i] \in Steps(a) PROVE Rules(p[i], i)
    BY <1>9, <1>21, <2>1 DEF Part, Fit, ops
  <2>2. ASSUME i \in k - 2 .. k, p[i] \in Steps(b), p[i].op = "upgrade" => i = k - 2 PROVE Rules(p[i], i)
    BY <1>3, <1>21, <2>2 DEF Part, Fit, ops
  <2>3. ASSUME k < i, i <= cc - 3, p[i] \in Steps(c) PROVE Rules(p[i], i)
    BY <1>4, <1>21, <2>3 DEF Part, Fit, ops
  <2>4. ASSUME i \in cc - 2 .. cc, p[i] \in Steps(d), p[i].op = "upgrade" => i = cc - 2 PROVE Rules(p[i], i)
    BY <1>5, <1>21, <2>4 DEF Part, Fit, ops
  <2>5. ASSUME cc < i, i <= h - 2, p[i] \in Steps(e) PROVE Rules(p[i], i)
    BY <1>6, <1>21, <2>5 DEF Part, Fit, ops, Assigns, PLC
  <2>6. ASSUME i \in h - 1 .. h, p[i] \in Steps(f) PROVE Rules(p[i], i)
    BY <1>7, <1>21, <2>6 DEF Part, Fit, ops, Assigns
  <2>7. ASSUME i > h, p[i] \in Steps(g) PROVE Rules(p[i], i)
    BY <1>8, <1>21, <2>7 DEF Part, Fit, ops, Assigns, PLC
  <2>8. b[1] \in Steps(b) /\ b[2] \in Steps(b) /\ b[3] \in Steps(b)
    BY <1>3 DEF Steps
  <2>9. d[1] \in Steps(d) /\ d[2] \in Steps(d) /\ d[3] \in Steps(d)
    BY <1>5 DEF Steps
  <2>10. f[1] \in Steps(f) /\ f[2] \in Steps(f)
    BY <1>7 DEF Steps
  <2>11. b[2].op # "upgrade" /\ b[3].op # "upgrade" /\ d[2].op # "upgrade" /\ d[3].op # "upgrade"
    BY <1>3, <1>5 DEF Read, Save
  <2> HIDE DEF Rules
  <2>12. k - 2 \in k - 2 .. k /\ k - 1 \in k - 2 .. k /\ k \in k - 2 .. k
         /\ cc - 2 \in cc - 2 .. cc /\ cc - 1 \in cc - 2 .. cc /\ cc \in cc - 2 .. cc
         /\ h - 1 \in h - 1 .. h /\ h \in h - 1 .. h
    BY <1>21
  <2> HIDE DEF k, cc, h, N
  <2> QED
    BY <1>24, <2>1, <2>2, <2>3, <2>4, <2>5, <2>6, <2>7, <2>8, <2>9, <2>10, <2>11, <2>12
<1>26. /\ k \in 4 .. cc - 4 /\ cc \in 1 .. h - 2 /\ h \in 1 .. N - 1
  BY <1>21
<1>27. \A i \in 1 .. N : Rules(p[i], i)
  BY <1>25
<1>28. p[N] = SetPoolPause(FALSE, getEmergencyAdmin(t))[1]
  BY <1>8, <1>20
<1> QED
  BY <1>3, <1>5, <1>7, <1>10, <1>19, <1>20, <1>22, <1>23, <1>26, <1>27, <1>28
  DEF PoolTask, ops, pairs

-----------------------------------------------------------------------------
(* The other tasks: what they write, and the steps with which they end.    *)
Named == {<<"mine", provider>>} \cup ({"save"} \X Keys)

DevPoolTask(p) ==
  /\ Len(p) >= 1 /\ p[1] = Load(provider, provider)[1]
  /\ Part(p, {"write", "register", "grant", "list", "configure", "pause"},
          {<<"mine", provider>>, <<"save", provider>>}, {})

LEMMA DevPoolTaskLaid == \A t : DevPoolTask(devDeployLendingPool(t))
<1> TAKE t
<1> DEFINE ops   == {"write", "register", "grant", "list", "configure", "pause"}
           pairs == {<<"mine", provider>>, <<"save", provider>>}
<1>1. Part(getLendingPoolAddressesProvider, ops, pairs, {}) /\ Part(poolProxy, ops, pairs, {})
      /\ Part(configuratorProxy, ops, pairs, {})
  BY PartStep, PartCat
  DEF getLendingPoolAddressesProvider, poolProxy, configuratorProxy, Load, Upgrade, Read, Save, Fit,
      Regular, Assigning, Impls, Proxies, provider
<1>2. Part(deployLendingPool, ops, pairs, {}) /\ Part(deployLendingPoolConfigurator, ops, pairs, {})
  BY PartStep, PartCat
  DEF deployLendingPool, deployAaveLibraries, deployReserveLogicLibrary, deployGenericLogic,
      deployValidationLogic, deployLendingPoolConfigurator, Deployed, Mine, Save, Fit, Regular,
      Assigning, Impls, Proxies, provider
<1>3. Part(deployStableAndVariableTokensHelper, ops, pairs, {})
      /\ Part(deployATokensAndRatesHelper, ops, pairs, {})
      /\ Part(deployATokenImplementations(t), ops, pairs, {})
  BY PartStep, PartCat, PartEmpty
  DEF deployStableAndVariableTokensHelper, deployATokensAndRatesHelper, deployATokenImplementations,
      Deployed, Mine, Save, Nothing, Fit, Regular, Assigning, Impls, Proxies, provider
<1> DEFINE head == getLendingPoolAddressesProvider
           Good(p) == Part(p, ops, pairs, {}) /\ 1 <= Len(p) /\ p[1] = Load(provider, provider)[1]
<1> HIDE DEF ops, pairs
<1>4. ASSUME NEW p, NEW q, Good(p), Part(q, ops, pairs, {}) PROVE Good(p \o q)
  <2>1. Program(p) /\ Program(q) /\ 1 <= Len(p)
    BY <1>4, PartLen
  <2>2. Part(p \o q, ops, pairs, {})
    BY <1>4, PartCat
  <2>3. 1 <= Len(p \o q) /\ \A i \in 1 .. 1 : (p \o q)[i] = p[i]
    BY <2>1, Onto
  <2> QED
    BY <1>4, <2>2, <2>3
<1>5. Good(head)
  BY <1>1, Tuple DEF getLendingPoolAddressesProvider, Load
<1> HIDE DEF Good, head
<1>6. devDeployLendingPool(t) =
        head \o deployLendingPool \o poolProxy \o deployLendingPoolConfigurator
        \o configuratorProxy \o deployStableAndVariableTokensHelper \o deployATokensAndRatesHelper
        \o deployATokenImplementations(t)
  BY DEF devDeployLendingPool, head
<1>7. Good(devDeployLendingPool(t))
  BY <1>1, <1>2, <1>3, <1>4, <1>5, <1>6
<1> QED
  BY <1>7 DEF Good, DevPoolTask, ops, pairs

DataTask(p) ==
  /\ Program(p) /\ Len(p) = 3
  /\ p[1] = Load(provider, provider)[1]
  /\ p[2] = Mine("AaveProtocolDataProvider", "AaveProtocolDataProvider", {provider})[1]
  /\ p[3] = Save("AaveProtocolDataProvider", "AaveProtocolDataProvider")[1]

LEMMA DataTaskLaid == DataTask(fullDataProvider)
<1>1. Program(fullDataProvider)
  BY Tuple, Cat
  DEF fullDataProvider, getLendingPoolAddressesProvider, deployAaveProtocolDataProvider, Deployed,
      Load, Mine, Save
<1>2. /\ Len(fullDataProvider) = 3
      /\ fullDataProvider[1] = Load(provider, provider)[1]
      /\ fullDataProvider[2] = Mine("AaveProtocolDataProvider", "AaveProtocolDataProvider", {provider})[1]
      /\ fullDataProvider[3] = Save("AaveProtocolDataProvider", "AaveProtocolDataProvider")[1]
  BY DEF fullDataProvider, getLendingPoolAddressesProvider, deployAaveProtocolDataProvider, Deployed,
         Load, Mine, Save
<1> QED
  BY <1>1, <1>2 DEF DataTask

OpenPool(p, t) ==
  /\ Program(p) /\ Len(p) = 2
  /\ p[1] = Load("LendingPoolConfigurator", "LendingPoolConfigurator")[1]
  /\ p[2] = SetPoolPause(FALSE, getEmergencyAdmin(t))[1]

LEMMA OpenPoolLaid ==
  \A t : OpenPool(Load("LendingPoolConfigurator", "LendingPoolConfigurator")
                    \o SetPoolPause(FALSE, getEmergencyAdmin(t)), t)
<1> TAKE t
<1> DEFINE x == Load("LendingPoolConfigurator", "LendingPoolConfigurator")[1]
           y == SetPoolPause(FALSE, getEmergencyAdmin(t))[1]
           p == Join(One(x), One(y))
<1>1. Load("LendingPoolConfigurator", "LendingPoolConfigurator")
        \o SetPoolPause(FALSE, getEmergencyAdmin(t)) = p
  BY DEF Load, SetPoolPause, Join, One
<1> HIDE DEF x, y
<1>2. Program(One(x)) /\ Len(One(x)) = 1 /\ One(x)[1] = x
  BY Tuple DEF One
<1> DEFINE z == One(x)
<1>3. Program(p) /\ Len(p) = 2 /\ p[1] = x /\ p[2] = y
  <2>1. Program(z) /\ Len(z) = 1 /\ z[1] = x
    BY <1>2
  <2> HIDE DEF z
  <2>2. /\ Program(Join(z, One(y))) /\ Len(Join(z, One(y))) = Len(z) + 1
        /\ Join(z, One(y))[Len(z) + 1] = y /\ \A i \in 1 .. Len(z) : Join(z, One(y))[i] = z[i]
    <3>1. Program(z)
      BY <2>1
    <3> QED
      BY <3>1, OneMore
  <2>3. Program(Join(z, One(y))) /\ Len(Join(z, One(y))) = 2 /\ Join(z, One(y))[1] = x
        /\ Join(z, One(y))[2] = y
    BY <2>1, <2>2
  <2> QED
    BY <2>3 DEF z
<1> QED
  BY <1>1, <1>3 DEF OpenPool, x, y

(* Reads the admin in its third step, lists in its tenth, configures in    *)
(* its thirteenth, and ends by writing the collateral manager and the data *)
(* provider.                                                               *)
InitTask(p, t) ==
  LET v == Len(p) - 4  w == Len(p) - 2
  IN  /\ Program(p) /\ Len(p) >= 19
      /\ p[1] = Load(provider, provider)[1]
      /\ p[3] = getPoolAdmin[1]
      /\ p[9] = Load("LendingPoolConfigurator", "LendingPoolConfigurator")[1]
      /\ p[10] = BatchInitReserve[1]
      /\ p[12] = Load("ATokensAndRatesHelper", "ATokensAndRatesHelper")[1]
      /\ p[13] = ConfigureReserves[1]
      /\ \E i \in 1 .. v - 1 : Assigns(p[i], "LendingPoolCollateralManager")
      /\ p[v] = Write("LendingPoolCollateralManager", "LendingPoolCollateralManager")[1]
      /\ p[w - 1] = Load("AaveProtocolDataProvider", "AaveProtocolDataProvider")[1]
      /\ p[w] = Write("0x01", "AaveProtocolDataProvider")[1]
      /\ \A i \in 1 .. Len(p) :
           /\ Fit(p[i], {"upgrade", "register", "pause", "grant"}, Named, {})
           /\ p[i].op = "list" => i = 10
           /\ p[i].op = "configure" => i = 13
           /\ p[i].op = "write" => i \in {v, w}
           /\ Assigns(p[i], "PoolAdmin") => i = 3

LEMMA InitTaskLaid == \A t : InitTask(fullInitializeLendingPool(t), t)
<1> TAKE t
<1> DEFINE a    == getLendingPoolAddressesProvider
                   \o Load("AaveProtocolDataProvider", "AaveProtocolDataProvider") \o getPoolAdmin
                   \o initReservesByHelper \o configureReservesByHelper
           cm   == collateralManager(t)
           w1   == Write("LendingPoolCollateralManager", "LendingPoolCollateralManager")
           w2   == Load("AaveProtocolDataProvider", "AaveProtocolDataProvider")
           w3   == Write("0x01", "AaveProtocolDataProvider")
           wal  == deployWalletBalancerProvider
           ops  == {"upgrade", "register", "pause", "grant"}
           more == ops \cup {"list", "configure", "write"}
<1>1. Part(a, ops \cup {"write"}, Named, {})
  BY PartStep, PartCat, ZenonT(40)
  DEF getLendingPoolAddressesProvider, initReservesByHelper, configureReservesByHelper, getPoolAdmin, Load, Read,
      BatchInitReserve, ConfigureReserves, Fit, Regular, Assigning, Impls, Proxies, provider, Named,
      Keys
<1>2. /\ Len(a) = 13 /\ a[1] = Load(provider, provider)[1] /\ a[3] = getPoolAdmin[1]
      /\ a[9] = Load("LendingPoolConfigurator", "LendingPoolConfigurator")[1]
      /\ a[10] = BatchInitReserve[1]
      /\ a[12] = Load("ATokensAndRatesHelper", "ATokensAndRatesHelper")[1]
      /\ a[13] = ConfigureReserves[1]
      /\ \A i \in 1 .. 13 : /\ a[i].op = "list" => i = 10
                            /\ a[i].op = "configure" => i = 13
                            /\ Assigns(a[i], "PoolAdmin") => i = 3
  BY DEF getLendingPoolAddressesProvider, initReservesByHelper, configureReservesByHelper, Load,
         getPoolAdmin, Assigns, Assigning, provider, Read, BatchInitReserve, ConfigureReserves
<1>3. Part(cm, more, Named, {"PoolAdmin"})
  BY AccountAddresses, PartStep, PartCat
  DEF collateralManager, deployLendingPoolCollateralManager, Take, Mine, Save, Fit, Regular,
      Assigning, Impls, Proxies, provider, Named, Keys
<1>4. Len(cm) >= 1 /\ Assigns(cm[1], "LendingPoolCollateralManager")
  BY DEF collateralManager, deployLendingPoolCollateralManager, Take, Mine, Save, Assigns, Assigning
<1>5. Part(w1, ops, Named, {}) /\ Part(w2, more, Named, {}) /\ Part(w3, ops, Named, {})
      /\ Part(wal, more, Named, {}) /\ Part(w1, ops, Named, {"PoolAdmin"})
      /\ Part(w2, ops, Named, {"PoolAdmin"}) /\ Part(w3, ops, Named, {"PoolAdmin"})
      /\ Part(wal, ops, Named, {"PoolAdmin"})
  BY PartStep, PartCat
  DEF Write, Load, deployWalletBalancerProvider, Deployed, Mine, Save, Fit, Regular, Assigning,
      Impls, Proxies, provider, Named, Keys
<1> DEFINE e == w1 \o w2 \o w3 \o wal
<1>6. Len(e) = 5 /\ e[1] = w1[1] /\ e[2] = w2[1] /\ e[3] = w3[1]
      /\ \A i \in 1 .. 5 : /\ e[i].op \notin {"list", "configure"}
                           /\ e[i].op = "write" => i \in {1, 3}
  BY DEF Write, Load, deployWalletBalancerProvider, Deployed, Mine, Save
<1>7. Part(e, ops, Named, {"PoolAdmin"})
  <2> HIDE DEF w1, w2, w3, wal, ops
  <2> QED
    BY <1>5, PartCat
<1> DEFINE q == Join(a, cm)
           p == Join(q, e)
<1>8. fullInitializeLendingPool(t) = Join(Join(Join(Join(q, w1), w2), w3), wal)
  BY DEF fullInitializeLendingPool, Join
<1>9. /\ Program(a) /\ Program(cm) /\ Program(w1) /\ Program(w2) /\ Program(w3) /\ Program(wal)
      /\ Program(e) /\ Len(cm) \in Nat
  BY <1>1, <1>3, <1>5, <1>7, PartLen
<1>10. e = Join(Join(Join(w1, w2), w3), wal)
  BY DEF Join
<1> HIDE DEF a, cm, w1, w2, w3, wal, e, ops
<1>11. /\ Program(q) /\ Len(q) = Len(a) + Len(cm)
       /\ \A i \in 1 .. Len(a) : q[i] = a[i]
       /\ \A i \in 1 .. Len(cm) : q[Len(a) + i] = cm[i]
       /\ \A i \in 1 .. Len(a) + Len(cm) : i > Len(a) => q[i] \in Steps(cm)
  <2>1. Program(a) /\ Program(cm)
    BY <1>9
  <2> QED
    BY <2>1, JoinIn
<1> HIDE DEF q
<1>12. /\ Program(p) /\ Len(p) = Len(q) + Len(e)
       /\ \A i \in 1 .. Len(q) : p[i] = q[i]
       /\ \A i \in 1 .. Len(e) : p[Len(q) + i] = e[i]
  <2>1. Program(q) /\ Program(e)
    BY <1>9, <1>11
  <2> QED
    BY <2>1, JoinIn
<1>13. fullInitializeLendingPool(t) = p
  <2>1. Program(w1) /\ Program(w2) /\ Program(w3) /\ Program(wal) /\ Program(q)
    BY <1>9, <1>11
  <2>2. Program(Join(w1, w2)) /\ Program(Join(Join(w1, w2), w3))
    BY <2>1, JoinAt
  <2>3. Join(Join(q, w1), w2) = Join(q, Join(w1, w2))
    BY <2>1, Assoc
  <2>4. Join(Join(q, Join(w1, w2)), w3) = Join(q, Join(Join(w1, w2), w3))
    BY <2>1, <2>2, Assoc
  <2>5. Join(Join(q, Join(Join(w1, w2), w3)), wal) = Join(q, Join(Join(Join(w1, w2), w3), wal))
    BY <2>1, <2>2, Assoc
  <2> QED
    BY <1>8, <1>10, <2>3, <2>4, <2>5
<1> HIDE DEF p
<1> DEFINE n == Len(cm)
<1>14. n \in Nat /\ n >= 1 /\ Len(q) = 13 + n /\ Len(p) = 18 + n
  BY <1>2, <1>4, <1>6, <1>9, <1>11, <1>12
<1>15. /\ \A i \in 1 .. 13 : p[i] = a[i]
       /\ p[14] = cm[1]
       /\ \A i \in 1 .. Len(p) : i > 13 /\ i <= 13 + n => p[i] \in Steps(cm)
       /\ \A i \in 1 .. 5 : p[13 + n + i] = e[i]
  <2>1. ASSUME NEW i \in 1 .. 13 PROVE p[i] = a[i]
    BY <1>2, <1>11, <1>12, <1>14
  <2>2. p[14] = cm[1]
    BY <1>2, <1>11, <1>12, <1>14
  <2>3. ASSUME NEW i \in 1 .. Len(p), i > 13, i <= 13 + n PROVE p[i] \in Steps(cm)
    BY <1>2, <1>11, <1>12, <1>14, <2>3
  <2>4. ASSUME NEW i \in 1 .. 5 PROVE p[13 + n + i] = e[i]
    BY <1>6, <1>12, <1>14
  <2> QED
    BY <2>1, <2>2, <2>3, <2>4
<1> DEFINE Rules(s, i) ==
             /\ Fit(s, ops, Named, {})
             /\ s.op = "list" => i = 10
             /\ s.op = "configure" => i = 13
             /\ s.op = "write" => i \in {14 + n, 16 + n}
             /\ Assigns(s, "PoolAdmin") => i = 3
<1>16. ASSUME NEW i \in 1 .. Len(p) PROVE Rules(p[i], i)
  <2>1. CASE i <= 13
    <3>1. i \in 1 .. 13 /\ p[i] = a[i]
      BY <1>14, <1>15, <2>1, SMTT(20)
    <3>2. a[i] \in Steps(a)
      BY <1>2, <3>1 DEF Steps
    <3> QED
      BY <3>1, <3>2, <1>1, <1>2, <2>1, <3>1 DEF Part, Fit
  <2>2. CASE i > 13 /\ i <= 13 + n
    <3>1. p[i] \in Steps(cm)
      BY <1>15, <2>2
    <3> QED
      BY <1>3, <3>1 DEF Part, Fit, Assigns
  <2>3. CASE i > 13 + n
    <3>1. i - 13 - n \in 1 .. 5 /\ i = 13 + n + (i - 13 - n)
      BY <1>14, <2>3
    <3> DEFINE m == i - 13 - n
    <3>2. p[i] = e[m] /\ e[m] \in Steps(e)
      BY <1>6, <1>15, <3>1 DEF Steps
    <3> HIDE DEF m
    <3>3. m \in 1 .. 5 /\ i = 13 + n + m
      BY <3>1 DEF m
    <3> QED
      BY <1>6, <1>7, <1>14, <3>2, <3>3 DEF Part, Fit, Assigns
  <2> QED
    BY <1>14, <2>1, <2>2, <2>3
<1>17. \E i \in 1 .. (Len(p) - 4) - 1 : Assigns(p[i], "LendingPoolCollateralManager")
  <2>1. 14 \in 1 .. (Len(p) - 4) - 1
    BY <1>14
  <2> QED
    BY <1>4, <1>15, <2>1
<1>18. /\ p[Len(p) - 4] = e[1] /\ p[(Len(p) - 2) - 1] = e[2] /\ p[Len(p) - 2] = e[3]
       /\ Len(p) - 4 = 14 + n /\ Len(p) - 2 = 16 + n /\ Len(p) >= 19
  <2>1. Len(p) - 4 = 13 + n + 1 /\ (Len(p) - 2) - 1 = 13 + n + 2 /\ Len(p) - 2 = 13 + n + 3
    BY <1>14
  <2> QED
    BY <1>14, <1>15, <2>1
<1>19. p[1] = a[1] /\ p[3] = a[3] /\ p[9] = a[9] /\ p[10] = a[10] /\ p[12] = a[12] /\ p[13] = a[13]
  BY <1>15
<1> HIDE DEF n
<1>20. \A i \in 1 .. Len(p) : Rules(p[i], i)
  BY <1>16
<1>21. \A i \in 1 .. Len(p) :
         /\ Fit(p[i], {"upgrade", "register", "pause", "grant"}, Named, {})
         /\ p[i].op = "list" => i = 10
         /\ p[i].op = "configure" => i = 13
         /\ p[i].op = "write" => i \in {Len(p) - 4, Len(p) - 2}
         /\ Assigns(p[i], "PoolAdmin") => i = 3
  <2> HIDE DEF Fit, Assigns
  <2> QED
    BY <1>18, <1>20 DEF ops
<1>22. /\ p[1] = Load(provider, provider)[1] /\ p[3] = getPoolAdmin[1]
       /\ p[9] = Load("LendingPoolConfigurator", "LendingPoolConfigurator")[1]
       /\ p[10] = BatchInitReserve[1]
       /\ p[12] = Load("ATokensAndRatesHelper", "ATokensAndRatesHelper")[1]
       /\ p[13] = ConfigureReserves[1]
  BY <1>2, <1>19
<1>23. /\ p[Len(p) - 4] = w1[1] /\ p[(Len(p) - 2) - 1] = w2[1] /\ p[Len(p) - 2] = w3[1]
       /\ Len(p) >= 19
  BY <1>6, <1>18
<1> HIDE DEF Rules
<1> QED
  BY <1>12, <1>13, <1>17, <1>21, <1>22, <1>23 DEF InitTask, w1, w2, w3

(* The dev market's oracles need prices of tokens it has not.              *)
DevOraclesTask(p) ==
  /\ Program(p) /\ Len(p) >= 5 /\ p[5] = Throw[1]
  /\ \A i \in 1 .. 5 : Fit(p[i], Acting, Named, {})

LEMMA DevOraclesTaskLaid == \A t : DevOraclesTask(devDeployOracles(t))
<1> TAKE t
<1> DEFINE head == getLendingPoolAddressesProvider \o Read("PoolAdmin", "PoolAdmin")
                   \o deployPriceOracle \o Throw
           q1 == getQuoteCurrency(t)
           q2 == deployAaveOracle
           q3 == SetAssetSources(TokenContractId \ QuoteCurrencies(t))
           q4 == Write("PriceOracle", "PriceOracle")
           q5 == deployLendingRateOracle
           q6 == Write("LendingRateOracle", "LendingRateOracle")
           q7 == setInitialMarketRatesInRatesOracleByHelper(Config[t.market].rates, TokenContractId)
           q8 == Write("PriceOracle", "AaveOracle")
<1>1. setInitialAssetPricesInOracle(MOCK_CHAINLINK_AGGREGATORS_PRICES, TokenContractId \cup {"USD"}) = Throw
  <2>1. "PACK" \notin TokenContractId \cup {"USD"}
    BY DEF TokenContractId, ToSet, TokenContractIds
  <2>2. "PACK" \in MOCK_CHAINLINK_AGGREGATORS_PRICES
    BY DEF MOCK_CHAINLINK_AGGREGATORS_PRICES
  <2> QED
    BY <2>1, <2>2 DEF setInitialAssetPricesInOracle
<1>2. devDeployOracles(t) = head \o q1 \o q2 \o q3 \o q4 \o q5 \o q6 \o q7 \o q8 \o q6
  BY <1>1 DEF devDeployOracles
<1>3. /\ Len(head) = 5 /\ head[5] = Throw[1]
  BY DEF getLendingPoolAddressesProvider, deployPriceOracle, Deployed, Load, Read, Mine, Save, Throw
<1>4. Part(head, Acting, Named, {})
  BY PartStep, PartCat
  DEF getLendingPoolAddressesProvider, deployPriceOracle, Deployed, Load, Read, Mine, Save, Throw,
      Acting, Fit, Regular, Assigning, Impls, Proxies, provider, Named, Keys
<1>5. /\ Program(q1) /\ Program(q2) /\ Program(q3) /\ Program(q4) /\ Program(q5) /\ Program(q6)
      /\ Program(q7) /\ Program(q8)
  BY Tuple, Empty, Cat
  DEF getQuoteCurrency, deployAaveOracle, SetAssetSources, Write, deployLendingRateOracle,
      setInitialMarketRatesInRatesOracleByHelper, SetOracleBorrowRates, Deployed, Load, Mine, Save,
      Take, Throw, Grant, Nothing
<1>6. \A i \in 1 .. 5 : Fit(head[i], Acting, Named, {})
  BY <1>3, <1>4 DEF Part, Steps
<1> HIDE DEF head, q1, q2, q3, q4, q5, q6, q7, q8
<1> DEFINE Good(p) == Program(p) /\ 5 <= Len(p) /\ \A i \in 1 .. 5 : p[i] = head[i]
<1>7. ASSUME NEW p, NEW q, Good(p), Program(q) PROVE Good(p \o q)
  <2>1. 5 <= Len(p) /\ \A i \in 1 .. 5 : p[i] = head[i]
    BY <1>7
  <2>2. Program(p \o q) /\ 5 <= Len(p \o q) /\ \A i \in 1 .. 5 : (p \o q)[i] = p[i]
    BY <1>7, Onto
  <2> QED
    BY <2>1, <2>2
<1>8. Good(head)
  BY <1>3, <1>4, PartLen
<1> HIDE DEF Good
<1>9. Good(devDeployOracles(t))
  BY <1>2, <1>5, <1>7, <1>8
<1> QED
  BY <1>3, <1>6, <1>9 DEF Good, DevOraclesTask

(* Ends by writing the two oracles, after it has handed a rate oracle it   *)
(* deployed to the pool's admin or has thrown for want of prices.          *)
OraclesTask(p, t) ==
  /\ Program(p) /\ Len(p) >= 4
  /\ p[Len(p) - 1] = Write("PriceOracle", "AaveOracle")[1]
  /\ p[Len(p)] = Write("LendingRateOracle", "LendingRateOracle")[1]
  /\ \E i \in 1 .. Len(p) - 3 : Assigns(p[i], provider)
  /\ \E i \in 1 .. Len(p) - 3 : Assigns(p[i], "PoolAdmin")
  /\ \A i \in 1 .. Len(p) :
       /\ Fit(p[i], {"upgrade", "register", "pause", "list", "configure"}, Named, {})
       /\ p[i].op = "write" => i > Len(p) - 2
       /\ Assigns(p[i], "PoolAdmin") => p[i] = Take("PoolAdmin", "signer0")[1]
       /\ p[i].op = "grant" =>
            /\ ~Provided(t, "LendingRateOracle") /\ p[i].var = "LendingRateOracle"
            /\ \E m \in 1 .. i - 1 : Assigns(p[m], "LendingRateOracle")
       /\ ~Provided(t, "LendingRateOracle") /\ Assigns(p[i], "LendingRateOracle") => p[i].op = "mine"
  /\ ~Provided(t, "LendingRateOracle") =>
       \/ p[Len(p) - 2].op = "throw"
       \/ p[Len(p) - 2] = Grant("LendingRateOracle", "PoolAdmin")[1]

LEMMA OraclesTaskLaid == \A t : OraclesTask(fullDeployOracles(t), t)
<1> TAKE t
<1> DEFINE a    == (IF ReserveAssets(t) = {} THEN Throw ELSE Nothing)
                   \o getLendingPoolAddressesProvider \o getGenesisPoolAdmin
           b    == priceOracles(t)
           l    == lendingRateOracle(t)
           x    == Write("PriceOracle", "AaveOracle")[1]
           y    == Write("LendingRateOracle", "LendingRateOracle")[1]
           ops  == {"upgrade", "register", "pause", "list", "configure"}
           more == ops \cup {"write", "grant"}
           LRO  == {"LendingRateOracle"}
<1>1. /\ Part(a, more, Named, LRO) /\ Len(a) >= 1
      /\ \E i \in 1 .. Len(a) : Assigns(a[i], provider)
      /\ \E i \in 1 .. Len(a) : Assigns(a[i], "PoolAdmin")
      /\ \A s \in Steps(a) : Assigns(s, "PoolAdmin") => s = Take("PoolAdmin", "signer0")[1]
  <2>1. Part(a, more, Named, LRO)
    BY AccountAddresses, PartStep, PartCat, PartEmpty
    DEF getLendingPoolAddressesProvider, getGenesisPoolAdmin, Nothing, Throw, Load, Take, Fit,
        Regular, Assigning, Impls, Proxies, provider, Named, Keys
  <2>2. CASE ReserveAssets(t) = {}
    <3>1. /\ Len(a) = 3 /\ a[1] = Throw[1] /\ a[2] = Load(provider, provider)[1]
          /\ a[3] = Take("PoolAdmin", "signer0")[1]
      BY <2>2 DEF getLendingPoolAddressesProvider, getGenesisPoolAdmin, Throw, Load, Take
    <3> HIDE DEF a
    <3>2. Steps(a) = {a[1], a[2], a[3]}
      BY <3>1 DEF Steps
    <3> QED
      BY <2>1, <3>1, <3>2 DEF Assigns, Assigning, Throw, Load, Take, provider
  <2>3. CASE ReserveAssets(t) # {}
    <3>1. /\ Len(a) = 2 /\ a[1] = Load(provider, provider)[1]
          /\ a[2] = Take("PoolAdmin", "signer0")[1]
      BY <2>3 DEF getLendingPoolAddressesProvider, getGenesisPoolAdmin, Nothing, Load, Take
    <3> HIDE DEF a
    <3>2. Steps(a) = {a[1], a[2]}
      BY <3>1 DEF Steps
    <3> QED
      BY <2>1, <3>1, <3>2 DEF Assigns, Assigning, Load, Take, provider
  <2> QED
    BY <2>2, <2>3
<1>2. Part(b, more, Named, {"LendingRateOracle", "PoolAdmin"})
  BY AccountAddresses, PartStep, PartCat, PartEmpty, ZenonT(40)
  DEF priceOracles, setAssetSources, SetAssetSources, deploySupraOracle, deployPriceOracle, getQuoteCurrency,
      deployAaveOracle, Deployed, Mine, Save, Nothing, Throw, Take, Fit,
      Regular, Assigning, Impls, Proxies, provider, Named, Keys
<1>3. Part(l, ops \cup {"write"}, Named, {"PoolAdmin"})
  BY AccountAddresses, PartStep, PartCat
  DEF lendingRateOracle, deployLendingRateOracle, setInitialMarketRatesInRatesOracleByHelper, Deployed,
      Mine, Save, Load, Grant, SetOracleBorrowRates, Throw, Take, Fit,
      Regular, Assigning, Impls, Proxies, provider, Named, Keys
<1>4. Part(One(x), ops \cup {"grant"}, Named, {"LendingRateOracle", "PoolAdmin"})
      /\ Part(One(y), ops \cup {"grant"}, Named, {"LendingRateOracle", "PoolAdmin"})
  BY PartStep DEF Write, One, Fit, Regular, Assigning, Impls, Proxies, provider, Named, Keys
<1>5. /\ Len(l) >= 1
      /\ Provided(t, "LendingRateOracle") => \A i \in 1 .. Len(l) : l[i].op # "grant"
      /\ ~Provided(t, "LendingRateOracle") =>
           /\ Assigns(l[1], "LendingRateOracle")
           /\ \A i \in 1 .. Len(l) :
                /\ l[i].op = "grant" => i > 1 /\ l[i].var = "LendingRateOracle"
                /\ Assigns(l[i], "LendingRateOracle") => l[i].op = "mine"
           /\ l[Len(l)].op = "throw" \/ l[Len(l)] = Grant("LendingRateOracle", "PoolAdmin")[1]
  <2> DEFINE D == Mine("LendingRateOracle", "LendingRateOracle", {})[1]
             S == Save("LendingRateOracle", "LendingRateOracle")[1]
             H == Load("StableAndVariableTokensHelper", "StableAndVariableTokensHelper")[1]
             G == Grant("LendingRateOracle", "StableAndVariableTokensHelper")[1]
             R == SetOracleBorrowRates[1]
             A == Grant("LendingRateOracle", "PoolAdmin")[1]
  <2>1. CASE Provided(t, "LendingRateOracle")
    <3>1. Len(l) = 1 /\ l[1].op = "take"
      BY <2>1 DEF lendingRateOracle, Take
    <3> HIDE DEF l
    <3> QED
      BY <2>1, <3>1
  <2>2. CASE ~Provided(t, "LendingRateOracle")
    <3> DEFINE fit == Config[t.market].rates \cap ReserveAssets(t) \subseteq ReserveAssets(t)
    <3>1. fit
      OBVIOUS
    <3>2. l = deployLendingRateOracle \o (Load("StableAndVariableTokensHelper", "StableAndVariableTokensHelper")
                \o (Grant("LendingRateOracle", "StableAndVariableTokensHelper")
                     \o SetOracleBorrowRates \o Grant("LendingRateOracle", "PoolAdmin")))
      BY <2>2, <3>1 DEF lendingRateOracle, setInitialMarketRatesInRatesOracleByHelper
    <3>4. Len(l) = 6 /\ l[1] = D /\ l[2] = S /\ l[3] = H /\ l[4] = G /\ l[5] = R /\ l[6] = A
      BY <3>2 DEF deployLendingRateOracle, Deployed, Mine, Save, Load, Grant, SetOracleBorrowRates
    <3> HIDE DEF D, S, H, G, R, A, l
    <3>5. \A i \in 1 .. Len(l) : i = 1 \/ i = 2 \/ i = 3 \/ i = 4 \/ i = 5 \/ i = 6
      BY <3>4
    <3>6. /\ D.op = "mine" /\ D.var = "LendingRateOracle" /\ S.op = "save" /\ H.op = "load"
          /\ H.var # "LendingRateOracle" /\ G.op = "grant" /\ G.var = "LendingRateOracle"
          /\ R.op = "rates" /\ A.op = "grant" /\ A.var = "LendingRateOracle"
      BY DEF Mine, Save, Load, Grant, SetOracleBorrowRates, D, S, H, G, R, A
    <3> QED
      BY <2>2, <3>4, <3>5, <3>6 DEF Assigns, Assigning, A
  <2> QED
    BY <2>1, <2>2
<1> DEFINE q == Join(a, b)
           p == Join(Join(Join(q, l), One(x)), One(y))
<1>6. fullDeployOracles(t) = p
  BY DEF fullDeployOracles, Write, Join, One
<1>7. /\ Program(a) /\ Program(b) /\ Program(l) /\ Len(a) \in Nat /\ Len(b) \in Nat /\ Len(l) \in Nat
  BY <1>1, <1>2, <1>3, PartLen
<1> HIDE DEF a, b, l, x, y, ops, LRO
<1>8. /\ Program(q) /\ Len(q) = Len(a) + Len(b)
      /\ \A i \in 1 .. Len(a) : q[i] = a[i]
      /\ \A i \in 1 .. Len(a) + Len(b) : i > Len(a) => q[i] \in Steps(b)
  <2>1. Program(a) /\ Program(b)
    BY <1>7
  <2> QED
    BY <2>1, JoinIn
<1> HIDE DEF q
<1> DEFINE r == Join(q, l)
<1>9. /\ Program(r) /\ Len(r) = Len(q) + Len(l)
      /\ \A i \in 1 .. Len(q) : r[i] = q[i]
      /\ \A i \in 1 .. Len(l) : r[Len(q) + i] = l[i]
  <2>1. Program(q) /\ Program(l)
    BY <1>7, <1>8
  <2> QED
    BY <2>1, JoinIn
<1> HIDE DEF r
<1>10. /\ Program(p) /\ Len(p) = Len(r) + 2 /\ p[Len(r) + 1] = x /\ p[Len(r) + 2] = y
       /\ \A i \in 1 .. Len(r) : p[i] = r[i]
  <2> DEFINE r1 == Join(r, One(x))
  <2>1. Program(r)
    BY <1>9
  <2>2. /\ Program(r1) /\ Len(r1) = Len(r) + 1 /\ Len(r) \in Nat /\ r1[Len(r) + 1] = x
        /\ \A i \in 1 .. Len(r) : r1[i] = r[i]
    BY <2>1, OneMore
  <2>3. Program(r1)
    BY <2>2
  <2> HIDE DEF r1
  <2>4. /\ Program(Join(r1, One(y))) /\ Len(Join(r1, One(y))) = Len(r1) + 1
        /\ Join(r1, One(y))[Len(r1) + 1] = y
        /\ \A i \in 1 .. Len(r1) : Join(r1, One(y))[i] = r1[i]
    BY <2>3, OneMore
  <2>5. p = Join(r1, One(y))
    BY DEF r1, r
  <2> HIDE DEF p
  <2>6. Len(p) = Len(r) + 2 /\ p[Len(r) + 2] = y
    BY <2>2, <2>4, <2>5
  <2>7. p[Len(r) + 1] = x /\ \A i \in 1 .. Len(r) : p[i] = r[i]
    BY <2>2, <2>4, <2>5
  <2> QED
    BY <2>4, <2>5, <2>6, <2>7
<1> HIDE DEF p
<1> DEFINE n == Len(a) + Len(b)
           m == Len(l)
<1>11. /\ n \in Nat /\ m \in Nat /\ m >= 1 /\ Len(a) \in 1 .. n /\ Len(q) = n /\ Len(r) = n + m
       /\ Len(p) = n + m + 2
  BY <1>1, <1>5, <1>7, <1>8, <1>9, <1>10
<1>12. /\ \A i \in 1 .. Len(a) : p[i] = a[i] /\ a[i] \in Steps(a)
       /\ \A i \in 1 .. n : i > Len(a) => p[i] \in Steps(b)
       /\ \A i \in 1 .. m : p[n + i] = l[i] /\ l[i] \in Steps(l)
       /\ p[n + m + 1] = x /\ p[n + m + 2] = y
  <2>1. ASSUME NEW i \in 1 .. Len(a) PROVE p[i] = a[i] /\ a[i] \in Steps(a)
    <3>1. i \in 1 .. n /\ i \in 1 .. n + m
      BY <1>11
    <3>2. p[i] = r[i]
      BY <1>10, <1>11, <3>1
    <3>3. r[i] = q[i]
      BY <1>9, <1>11, <3>1
    <3> QED
      BY <1>8, <3>2, <3>3 DEF Steps
  <2>2. ASSUME NEW i \in 1 .. n, i > Len(a) PROVE p[i] \in Steps(b)
    <3>1. i \in 1 .. n + m
      BY <1>11
    <3>2. p[i] = r[i]
      BY <1>10, <1>11, <3>1
    <3>3. r[i] = q[i]
      BY <1>9, <1>11
    <3> QED
      BY <1>8, <2>2, <3>2, <3>3
  <2>3. ASSUME NEW i \in 1 .. m PROVE p[n + i] = l[i] /\ l[i] \in Steps(l)
    <3>1. n + i \in 1 .. n + m
      BY <1>11
    <3>2. p[n + i] = r[n + i]
      BY <1>10, <1>11, <3>1
    <3>3. r[n + i] = l[i]
      BY <1>9, <1>11
    <3> QED
      BY <3>2, <3>3 DEF Steps
  <2>4. p[n + m + 1] = x /\ p[n + m + 2] = y
    BY <1>10, <1>11
  <2> QED
    BY <2>1, <2>2, <2>3, <2>4
<1>13. \E i \in 1 .. Len(p) - 3 : Assigns(p[i], provider)
  BY <1>1, <1>11, <1>12
<1>14. \E i \in 1 .. Len(p) - 3 : Assigns(p[i], "PoolAdmin")
  BY <1>1, <1>11, <1>12, SMTT(20)
<1>15. ASSUME ~Provided(t, "LendingRateOracle")
       PROVE  \/ p[Len(p) - 2].op = "throw"
              \/ p[Len(p) - 2] = Grant("LendingRateOracle", "PoolAdmin")[1]
  <2>1. Len(p) - 2 = n + m /\ m \in 1 .. m
    BY <1>11
  <2> QED
    BY <1>5, <1>12, <1>15, <2>1
<1> DEFINE Rules(s, i) ==
       /\ Fit(s, ops, Named, {})
       /\ s.op = "write" => i > n + m
       /\ Assigns(s, "PoolAdmin") => s = Take("PoolAdmin", "signer0")[1]
       /\ s.op = "grant" =>
            /\ ~Provided(t, "LendingRateOracle") /\ s.var = "LendingRateOracle"
            /\ \E j \in 1 .. i - 1 : Assigns(p[j], "LendingRateOracle")
       /\ ~Provided(t, "LendingRateOracle") /\ Assigns(s, "LendingRateOracle") => s.op = "mine"
<1>16. ASSUME NEW i \in 1 .. Len(p) PROVE Rules(p[i], i)
  <2>1. CASE i <= Len(a)
    <3>1. p[i] \in Steps(a)
      BY <1>11, <1>12, <2>1
    <3> QED
      BY <1>1, <3>1 DEF Part, Fit, Assigns, LRO
  <2>2. CASE i > Len(a) /\ i <= n
    <3>1. p[i] \in Steps(b)
      BY <1>11, <1>12, <2>2
    <3> QED
      BY <1>2, <3>1 DEF Part, Fit, Assigns
  <2>3. CASE i > n /\ i <= n + m
    <3> DEFINE j == i - n
    <3>1. j \in 1 .. m /\ i = n + j
      BY <1>11, <2>3
    <3> HIDE DEF j
    <3>2. p[i] = l[j] /\ l[j] \in Steps(l)
      BY <1>12, <3>1
    <3>3. Fit(p[i], ops, Named, {}) /\ p[i].op # "write" /\ ~Assigns(p[i], "PoolAdmin")
      BY <1>3, <3>2 DEF Part, Fit, Assigns
    <3>4. ASSUME ~Provided(t, "LendingRateOracle"), j > 1
          PROVE  \E g \in 1 .. i - 1 : Assigns(p[g], "LendingRateOracle")
      <4>1. n + 1 \in 1 .. i - 1 /\ 1 \in 1 .. m
        BY <1>11, <3>1, <3>4
      <4>2. Assigns(p[n + 1], "LendingRateOracle")
        BY <1>5, <1>12, <3>4, <4>1
      <4> QED
        BY <4>1, <4>2
    <3> QED
      BY <1>5, <3>1, <3>2, <3>3, <3>4
  <2>4. CASE i = n + m + 1 \/ i = n + m + 2
    <3>1. p[i] \in {x, y}
      BY <1>12, <2>4
    <3>2. /\ Fit(x, ops \cup {"grant"}, Named, {"LendingRateOracle", "PoolAdmin"})
          /\ Fit(y, ops \cup {"grant"}, Named, {"LendingRateOracle", "PoolAdmin"})
      BY <1>4, Tuple DEF One, Part
    <3> QED
      BY <1>11, <2>4, <3>1, <3>2 DEF Fit, Assigns
  <2> QED
    BY <1>11, <2>1, <2>2, <2>3, <2>4
<1>17. \A i \in 1 .. Len(p) : Rules(p[i], i)
  BY <1>16
<1>18. Len(p) >= 4 /\ p[Len(p) - 1] = x /\ p[Len(p)] = y /\ Len(p) - 2 = n + m
  BY <1>11, <1>12
<1> QED
  BY <1>6, <1>10, <1>13, <1>14, <1>15, <1>17, <1>18 DEF OraclesTask, ops, x, y

-----------------------------------------------------------------------------
(* A target's tasks by rank: 1 deploys the provider, 2 pool and             *)
(* configurator, 3 the oracles, 4 the data provider, 6 the reserves.        *)
Rank(t, n) == IF t.migration = "amm:mainnet" THEN n ELSE n - 1

Course(t, r, p) ==
  /\ Program(p)
  /\ r <= 0 => Aside(p)
  /\ r = 1 => Opening(p, t)
  /\ Dev(t) => (r = 2 => DevPoolTask(p)) /\ (r = 3 => DevOraclesTask(p))
  /\ ~Dev(t) => /\ r = 2 => PoolTask(p, t)
                /\ r = 3 => OraclesTask(p, t)
                /\ r = 4 => DataTask(p)
                /\ r = 5 => Aside(p)
                /\ r = 6 => InitTask(p, t)
                /\ r > 6 => Aside(p) \/ OpenPool(p, t)

LEMMA DevCourse ==
  ASSUME NEW t, Dev(t)
  PROVE  /\ Course(t, 0, deployAllMockTokens) /\ Course(t, 1, devDeployAddressProvider)
         /\ Course(t, 2, devDeployLendingPool(t)) /\ Course(t, 3, devDeployOracles(t))
         /\ Course(t, 4, fullDeployWethGateway(t)) /\ Course(t, 5, devInitializeLendingPool)
<1>1. Program(devInitializeLendingPool)
  BY Tuple, Cat
  DEF devInitializeLendingPool, getLendingPoolAddressesProvider, deployAaveProtocolDataProvider,
      initReservesByHelper, configureReservesByHelper, getPoolAdmin, deployLendingPoolCollateralManager,
      deployMockFlashLoanReceiver, deployWalletBalancerProvider, BatchInitReserve,
      ConfigureReserves, Deployed, Mine, Save, Load, Read, Write, Grant, SetPoolPause
<1>2. Aside(deployAllMockTokens) /\ Program(deployAllMockTokens)
  BY MockTokensTask DEF Aside, Part
<1>3. Program(fullDeployWethGateway(t))
  BY SideTasks DEF Aside, Part
<1>4. Opening(devDeployAddressProvider, t) /\ Program(devDeployAddressProvider)
  BY DevAddressProviderTask DEF Opening
<1>5. DevPoolTask(devDeployLendingPool(t)) /\ Program(devDeployLendingPool(t))
  BY DevPoolTaskLaid DEF DevPoolTask, Part
<1>6. DevOraclesTask(devDeployOracles(t)) /\ Program(devDeployOracles(t))
  BY DevOraclesTaskLaid DEF DevOraclesTask
<1> QED
  BY <1>1, <1>2, <1>3, <1>4, <1>5, <1>6 DEF Course

LEMMA MarketCourse ==
  ASSUME NEW t, ~Dev(t)
  PROVE  /\ Course(t, 0, fullDeployAddressProviderRegistry(t))
         /\ Course(t, 1, fullDeployAddressProvider(t)) /\ Course(t, 2, fullDeployLendingPool(t))
         /\ Course(t, 3, fullDeployOracles(t)) /\ Course(t, 4, fullDataProvider)
         /\ Course(t, 5, fullDeployWethGateway(t)) /\ Course(t, 6, fullInitializeLendingPool(t))
         /\ Course(t, 7, deployUiPoolDataProviderV2V3)
         /\ Course(t, 8, deployUiIncentiveDataProviderV2V3)
         /\ Course(t, 9, Load("LendingPoolConfigurator", "LendingPoolConfigurator")
                           \o SetPoolPause(FALSE, getEmergencyAdmin(t)))
<1> DEFINE open == Load("LendingPoolConfigurator", "LendingPoolConfigurator")
                   \o SetPoolPause(FALSE, getEmergencyAdmin(t))
<1>1. \A p \in {fullDeployAddressProviderRegistry(t), fullDeployWethGateway(t),
                deployUiPoolDataProviderV2V3, deployUiIncentiveDataProviderV2V3} :
        Aside(p) /\ Program(p)
  BY SideTasks DEF Aside, Part
<1>2. Opening(fullDeployAddressProvider(t), t) /\ Program(fullDeployAddressProvider(t))
  BY AddressProviderTask DEF Opening
<1>3. PoolTask(fullDeployLendingPool(t), t) /\ Program(fullDeployLendingPool(t))
  BY PoolTaskLaid DEF PoolTask
<1>4. OraclesTask(fullDeployOracles(t), t) /\ Program(fullDeployOracles(t))
  BY OraclesTaskLaid DEF OraclesTask
<1>5. DataTask(fullDataProvider) /\ Program(fullDataProvider)
  BY DataTaskLaid DEF DataTask
<1>6. InitTask(fullInitializeLendingPool(t), t) /\ Program(fullInitializeLendingPool(t))
  BY InitTaskLaid DEF InitTask
<1>7. OpenPool(open, t) /\ Program(open)
  BY OpenPoolLaid DEF OpenPool
<1> HIDE DEF open
<1>8. Course(t, 9, open)
  BY <1>7 DEF Course
<1> QED
  <2>1. ASSUME NEW p, Aside(p), Program(p), NEW r \in {0, 5, 7, 8} PROVE Course(t, r, p)
    BY <2>1 DEF Course
  <2>2. Course(t, 1, fullDeployAddressProvider(t))
    BY <1>2 DEF Course
  <2>3. Course(t, 2, fullDeployLendingPool(t))
    BY <1>3 DEF Course
  <2>4. Course(t, 3, fullDeployOracles(t)) /\ Course(t, 4, fullDataProvider)
    BY <1>4, <1>5 DEF Course
  <2>5. Course(t, 6, fullInitializeLendingPool(t))
    BY <1>6 DEF Course
  <2> QED
    BY <1>1, <1>8, <2>1, <2>2, <2>3, <2>4, <2>5 DEF open

LEMMA Courses ==
  ASSUME NEW t \in Targets
  PROVE  /\ Len(Programs[t]) \in Nat /\ Len(Programs[t]) >= 1
         /\ Rank(t, Len(Programs[t])) >= 5
         /\ ~Dev(t) => Rank(t, Len(Programs[t])) >= 6
         /\ Rank(t, 1) <= 1
         /\ \A n \in 1 .. Len(Programs[t]) :
              Rank(t, n) \in Int /\ Course(t, Rank(t, n), Programs[t][n])
<1> DEFINE p == Programs[t]
<1>1. p = Migration(t)
  BY DEF Programs
<1>2. CASE t.migration = "aave:dev"
  <2>1. Migration(t) = aaveDev(t) /\ Dev(t) /\ \A n : Rank(t, n) = n - 1
    BY <1>2 DEF Migration, Dev, Rank
  <2>2. /\ Len(aaveDev(t)) = 6
        /\ aaveDev(t)[1] = deployAllMockTokens /\ aaveDev(t)[2] = devDeployAddressProvider
        /\ aaveDev(t)[3] = devDeployLendingPool(t) /\ aaveDev(t)[4] = devDeployOracles(t)
        /\ aaveDev(t)[5] = fullDeployWethGateway(t) /\ aaveDev(t)[6] = devInitializeLendingPool
    BY DEF aaveDev
  <2>3. Course(t, 0, p[1]) /\ Course(t, 1, p[2]) /\ Course(t, 2, p[3]) /\ Course(t, 3, p[4])
        /\ Course(t, 4, p[5]) /\ Course(t, 5, p[6]) /\ Len(p) = 6
    BY <1>1, <2>1, <2>2, DevCourse
  <2>4. ASSUME NEW n \in 1 .. 6 PROVE Course(t, n - 1, p[n])
    <3> HIDE DEF p
    <3>1. n = 1 \/ n = 2 \/ n = 3 \/ n = 4 \/ n = 5 \/ n = 6
      OBVIOUS
    <3> QED
      BY <2>3, <3>1
  <2> HIDE DEF p
  <2>5. \A n \in 1 .. 6 : Rank(t, n) \in Int /\ Course(t, Rank(t, n), p[n])
    BY <2>1, <2>4
  <2> QED
    BY <2>1, <2>3, <2>5 DEF p
<1>3. CASE t.migration = "amm:mainnet"
  <2>1. Migration(t) = ammMainnet(t) /\ ~Dev(t) /\ \A n : Rank(t, n) = n
    BY <1>3 DEF Migration, Dev, Rank
  <2>2. /\ Len(ammMainnet(t)) = 6
        /\ ammMainnet(t)[1] = fullDeployAddressProvider(t)
        /\ ammMainnet(t)[2] = fullDeployLendingPool(t) /\ ammMainnet(t)[3] = fullDeployOracles(t)
        /\ ammMainnet(t)[4] = fullDataProvider /\ ammMainnet(t)[5] = fullDeployWethGateway(t)
        /\ ammMainnet(t)[6] = fullInitializeLendingPool(t)
    BY DEF ammMainnet, marketTasks
  <2>3. Course(t, 1, p[1]) /\ Course(t, 2, p[2]) /\ Course(t, 3, p[3]) /\ Course(t, 4, p[4])
        /\ Course(t, 5, p[5]) /\ Course(t, 6, p[6]) /\ Len(p) = 6
    BY <1>1, <2>1, <2>2, MarketCourse
  <2>4. ASSUME NEW n \in 1 .. 6 PROVE Course(t, n, p[n])
    <3> HIDE DEF p
    <3>1. n = 1 \/ n = 2 \/ n = 3 \/ n = 4 \/ n = 5 \/ n = 6
      OBVIOUS
    <3> QED
      BY <2>3, <3>1
  <2> HIDE DEF p
  <2>5. \A n \in 1 .. 6 : Rank(t, n) \in Int /\ Course(t, Rank(t, n), p[n])
    BY <2>1, <2>4
  <2> QED
    BY <2>1, <2>3, <2>5 DEF p
<1>4. CASE t.migration \in {"sidechain:mainnet", "avalanche:mainnet"}
  <2> DEFINE q == <<fullDeployAddressProviderRegistry(t)>> \o marketTasks(t)
  <2>1. Migration(t) = q /\ ~Dev(t) /\ \A n : Rank(t, n) = n - 1
    BY <1>4 DEF Migration, Dev, Rank, sidechainMainnet, avalancheMainnet
  <2>2. /\ Len(q) = 7 /\ q[1] = fullDeployAddressProviderRegistry(t)
        /\ q[2] = fullDeployAddressProvider(t)
        /\ q[3] = fullDeployLendingPool(t) /\ q[4] = fullDeployOracles(t)
        /\ q[5] = fullDataProvider /\ q[6] = fullDeployWethGateway(t)
        /\ q[7] = fullInitializeLendingPool(t)
    BY DEF marketTasks
  <2> HIDE DEF q
  <2>3. Course(t, 0, p[1]) /\ Course(t, 1, p[2]) /\ Course(t, 2, p[3]) /\ Course(t, 3, p[4])
        /\ Course(t, 4, p[5]) /\ Course(t, 5, p[6]) /\ Course(t, 6, p[7]) /\ Len(p) = 7
    BY <1>1, <2>1, <2>2, MarketCourse
  <2>4. ASSUME NEW n \in 1 .. 7 PROVE Course(t, n - 1, p[n])
    <3> HIDE DEF p
    <3>1. n = 1 \/ n = 2 \/ n = 3 \/ n = 4 \/ n = 5 \/ n = 6 \/ n = 7
      OBVIOUS
    <3> QED
      BY <2>3, <3>1
  <2> HIDE DEF p
  <2>5. \A n \in 1 .. 7 : Rank(t, n) \in Int /\ Course(t, Rank(t, n), p[n])
    BY <2>1, <2>4
  <2> QED
    BY <2>1, <2>3, <2>5 DEF p
<1>5. CASE t.migration = "aave:mainnet"
  <2> DEFINE q == aaveMainnet(t)
             open == Load("LendingPoolConfigurator", "LendingPoolConfigurator")
                     \o SetPoolPause(FALSE, getEmergencyAdmin(t))
  <2>1. Migration(t) = q /\ ~Dev(t) /\ \A n : Rank(t, n) = n - 1
    BY <1>5 DEF Migration, Dev, Rank
  <2>2. /\ Len(q) = 10 /\ q[1] = fullDeployAddressProviderRegistry(t)
        /\ q[2] = fullDeployAddressProvider(t)
        /\ q[3] = fullDeployLendingPool(t) /\ q[4] = fullDeployOracles(t)
        /\ q[5] = fullDataProvider /\ q[6] = fullDeployWethGateway(t)
        /\ q[7] = fullInitializeLendingPool(t)
        /\ q[8] = deployUiPoolDataProviderV2V3 /\ q[9] = deployUiIncentiveDataProviderV2V3
        /\ q[10] = open
    <3>1. q = <<fullDeployAddressProviderRegistry(t)>> \o marketTasks(t)
              \o <<deployUiPoolDataProviderV2V3, deployUiIncentiveDataProviderV2V3, open>>
      BY DEF aaveMainnet
    <3> HIDE DEF open, q
    <3> QED
      BY <3>1 DEF marketTasks
  <2> HIDE DEF q
  <2>3. Course(t, 0, p[1]) /\ Course(t, 1, p[2]) /\ Course(t, 2, p[3]) /\ Course(t, 3, p[4])
        /\ Course(t, 4, p[5]) /\ Course(t, 5, p[6]) /\ Course(t, 6, p[7]) /\ Course(t, 7, p[8])
        /\ Course(t, 8, p[9]) /\ Course(t, 9, p[10]) /\ Len(p) = 10
    BY <1>1, <2>1, <2>2, MarketCourse
  <2>4. ASSUME NEW n \in 1 .. 10 PROVE Course(t, n - 1, p[n])
    <3> HIDE DEF p
    <3>1. n = 1 \/ n = 2 \/ n = 3 \/ n = 4 \/ n = 5 \/ n = 6 \/ n = 7 \/ n = 8 \/ n = 9 \/ n = 10
      OBVIOUS
    <3> QED
      BY <2>3, <3>1
  <2> HIDE DEF p
  <2>5. \A n \in 1 .. 10 : Rank(t, n) \in Int /\ Course(t, Rank(t, n), p[n])
    BY <2>1, <2>4
  <2> QED
    BY <2>1, <2>3, <2>5 DEF p
<1> QED
  BY <1>2, <1>3, <1>4, <1>5, MarketDeploymentConstants

-----------------------------------------------------------------------------
(* The inductive invariant.  Where the script is: the steps it has not      *)
(* taken are the rest of its task.                                          *)
Task == Programs[target][task]
Done == Len(Task) - Len(todo)
At   == Rank(target, task)

Begun == status # "idle"
Live  == status = "running"

(* A script has taken a part of its task without coming to a throw.  The   *)
(* dev market throws in the task of its oracles.                           *)
OnTrack ==
  /\ target \in Targets /\ status \in {"idle", "running", "dead", "finished"}
  /\ Begun =>
       /\ task \in 1 .. Len(Programs[target])
       /\ Program(todo) /\ Len(todo) \in 0 .. Len(Task)
       /\ \A i \in 1 .. Len(todo) : todo[i] = Task[Done + i]
       /\ \A i \in 1 .. Done : Task[i].op # "throw"
       /\ Dev(target) => At <= 3
  /\ status = "finished" => Len(todo) = 0 /\ task = Len(Programs[target])

(* The script has taken so many steps of that task, or has so many left.    *)
Past(r, d)   == Begun /\ (At > r \/ (At = r /\ Done >= d))
Ending(r, n) == Begun /\ (At > r \/ (At = r /\ Len(todo) <= n))

(* Contracts are numbered in the order they are made, providers have every *)
(* slot, and no two providers share a pool.                                *)
OnChain ==
  /\ Program(contracts)
  /\ \A i \in DOMAIN Accounts : i \in 1 .. Len(contracts) /\ contracts[i].kind = Accounts[i]
  /\ \A p \in DOMAIN slots :
       /\ p \in 1 .. Len(contracts) /\ contracts[p].kind = provider /\ DOMAIN slots[p] = Slots
       /\ slots[p]["LendingPool"] # 0 => slots[p]["LendingPool"] \in DOMAIN pools
  /\ \A p, q \in DOMAIN slots :
       slots[p]["LendingPool"] # 0 /\ slots[p]["LendingPool"] = slots[q]["LendingPool"] => p = q
  /\ DOMAIN pools \subseteq 1 .. Len(contracts)

(* A script holds every variable its steps have assigned, and under the    *)
(* name of an implementation it holds one.                                 *)
Locals ==
  Live =>
    /\ \A i \in 1 .. Done : Task[i].op \in Assigning => Task[i].var \in DOMAIN local
    /\ \A v \in Impls \cap DOMAIN local :
         local[v] \in 1 .. Len(contracts) /\ contracts[local[v]].kind = v

(* The provider a script works with is none of a finished market's, and    *)
(* the one of the json as soon as it has entered it there.                 *)
Fresh(p) == p \in DOMAIN slots /\ \A f \in finished : f.provider # p

ProviderInHand ==
  Live /\ provider \in DOMAIN local =>
    /\ Fresh(local[provider])
    /\ Past(1, 2) => local[provider] = db[provider]
    /\ At <= 1 => slots[local[provider]]["LendingPool"] = 0

ProviderEntered ==
  /\ Past(1, 2) => /\ provider \in DOMAIN db /\ db[provider] \in DOMAIN slots
                   /\ status # "finished" => Fresh(db[provider])
  /\ \A f \in finished : f.provider \in DOMAIN slots

(* What the tasks have achieved for the provider entered in the json.       *)
Market == ~Dev(target)
Home == slots[db[provider]]

(* The json, a variable of the script, a contract on chain.                *)
IsEntered(key, x) == key \in DOMAIN db /\ db[key] = x
IsLocal(v, x) == v \in DOMAIN local /\ local[v] = x
Names(x) == x \in 1 .. Len(contracts) /\ db[provider] \in contracts[x].uses

(* The steps that enter pool, configurator and helper in the json.         *)
PoolAt(t) == Len(PoolPart(t))
ConfAt(t) == Len(ConfPart(t))
HelperAt(t) == Len(HelperPart(t))

(* Once past, the json has the contract the provider holds; one or two     *)
(* steps before, a variable of the script has it.                          *)
PoolEntered ==
  /\ Market /\ Past(2, PoolAt(target)) => IsEntered("LendingPool", Home["LendingPool"])
  /\ Market /\ Live /\ At = 2 /\ Done = PoolAt(target) - 1 => IsLocal("LendingPool", Home["LendingPool"])

ConfEntered ==
  /\ Market /\ Past(2, ConfAt(target)) =>
       IsEntered("LendingPoolConfigurator", Home["LendingPoolConfigurator"])
  /\ Market /\ Live /\ At = 2 /\ Done >= ConfAt(target) - 1 =>
       IsLocal("LendingPoolConfigurator", Home["LendingPoolConfigurator"])

HelperEntered ==
  /\ Market /\ Past(2, HelperAt(target)) =>
       "ATokensAndRatesHelper" \in DOMAIN db /\ Names(db["ATokensAndRatesHelper"])
  /\ Market /\ Live /\ At = 2 /\ Done = HelperAt(target) - 1 =>
       "ATokensAndRatesHelper" \in DOMAIN local /\ Names(local["ATokensAndRatesHelper"])

DataEntered ==
  /\ Market /\ Past(4, 3) =>
       "AaveProtocolDataProvider" \in DOMAIN db /\ Names(db["AaveProtocolDataProvider"])
  /\ Market /\ Live /\ At = 4 /\ Done = 2 =>
       "AaveProtocolDataProvider" \in DOMAIN local /\ Names(local["AaveProtocolDataProvider"])
  /\ Market /\ Ending(6, 2) => IsEntered("AaveProtocolDataProvider", Home["0x01"])
  /\ Market /\ Live /\ At = 6 /\ Len(todo) = 3 =>
       IsLocal("AaveProtocolDataProvider", db["AaveProtocolDataProvider"])

(* The same of what a whole market is.  Who the pool's admin may be: the    *)
(* deployer, and while the reserves are configured, or once a script died   *)
(* then, a contract that names the provider.                                *)
AdminFor(x) == x = Deployer \/ (Names(x) /\ db[provider] \in interrupted)

AdminsSet ==
  /\ Market /\ Ending(1, 2) =>
       \/ AdminFor(Home["PoolAdmin"])
       \/ Live /\ At = 6 /\ Taken /\ Names(Home["PoolAdmin"])
  /\ Market /\ Live /\ At = 6 /\ "PoolAdmin" \in DOMAIN local => AdminFor(local["PoolAdmin"])
  /\ Market /\ Live /\ At = 6 /\ Done = 12 =>
       IsLocal("ATokensAndRatesHelper", db["ATokensAndRatesHelper"])
  /\ Market /\ Live /\ At = 1 /\ Len(todo) = 3 => IsLocal("PoolAdmin", Deployer)
  /\ Market /\ Ending(1, 0) => Home["EmergencyAdmin"] = Address(getEmergencyAdmin(target))
  /\ Market /\ Live /\ At = 1 /\ Len(todo) = 1 =>
       IsLocal("EmergencyAdmin", Address(getEmergencyAdmin(target)))

MarketRegistered ==
  Market /\ ~target.skipRegistry /\ Past(1, Len(Registration(target))) =>
    \E pair \in registered : pair[2] = db[provider]

(* pool and configurator name the provider, and the configurator one pool. *)
PoolOnChain(p) ==
  LET pool == slots[p]["LendingPool"]
  IN  /\ pool \in 1 .. Len(contracts) /\ pool \in DOMAIN pools
      /\ contracts[pool].kind = "LendingPool" /\ p \in contracts[pool].uses

ConfOnChain(p) ==
  LET conf == slots[p]["LendingPoolConfigurator"]
  IN  /\ conf \in 1 .. Len(contracts)
      /\ \E impl \in 1 .. Len(contracts) :
           /\ contracts[impl].kind = "LendingPoolConfiguratorImpl"
           /\ contracts[conf].uses = {impl, p, slots[p]["LendingPool"]}

ProxiesMade ==
  /\ Market /\ Past(2, PoolAt(target) - 2) => PoolOnChain(db[provider])
  /\ Market /\ Past(2, ConfAt(target) - 2) => ConfOnChain(db[provider])

(* Home's pool has the target's reserves, none of another target's; it is  *)
(* open from the end of its task on, listed and configured by the sixth.   *)
PoolState == pools[Home["LendingPool"]]

ReservesIn ==
  /\ Market /\ Past(1, 2) /\ Home["LendingPool"] # 0 =>
       /\ PoolState = [paused |-> PoolState.paused, listed |-> PoolState.listed,
                       configured |-> PoolState.configured]
       /\ PoolState.listed \subseteq Listable(target)
       /\ PoolState.configured \subseteq ConfiguredOf(target)
  /\ Market /\ Ending(2, 0) => PoolState.paused = FALSE
  /\ Market /\ Past(6, 10) => PoolState.listed = Listable(target)
  /\ Market /\ Live /\ At = 6 /\ Done = 9 =>
       IsLocal("LendingPoolConfigurator", Home["LendingPoolConfigurator"])
  /\ Market /\ Past(6, 13) => PoolState.configured = ConfiguredOf(target)
  /\ Live /\ "tokens" \in DOMAIN local =>
       /\ At = 6 /\ Done >= 12
       /\ Done = 12 => /\ local["tokens"] \subseteq ConfiguredOf(target)
                       /\ ConfiguredOf(target) \ local["tokens"] \subseteq PoolState.configured
  /\ Market /\ Live /\ At > 6 /\ Done = 1 /\ OpenPool(Task, target) =>
       IsLocal("LendingPoolConfigurator", Home["LendingPoolConfigurator"])

(* The manager of the sixth task, and the rate oracle of the third: one    *)
(* deployed by this script and handed to the pool's admin.                 *)
ManagerSet == Market /\ Ending(6, 4) => Home["LendingPoolCollateralManager"] # 0

Owned(oracle) == oracle \in DOMAIN granted /\ granted[oracle] = Deployer

RatesOwned ==
  Market /\ ~Provided(target, "LendingRateOracle") =>
    /\ Live /\ At = 3 => /\ "PoolAdmin" \in DOMAIN local => local["PoolAdmin"] = Deployer
                         /\ "LendingRateOracle" \in DOMAIN local =>
                              /\ local["LendingRateOracle"] \in 1 .. Len(contracts)
                              /\ \A f \in finished :
                                   ~Provided(f.target, "LendingRateOracle") =>
                                     slots[f.provider]["LendingRateOracle"] # local["LendingRateOracle"]
    /\ Live /\ At = 3 /\ Len(todo) <= 2 =>
         "LendingRateOracle" \in DOMAIN local /\ Owned(local["LendingRateOracle"])
    /\ Ending(3, 0) =>
         /\ Home["LendingRateOracle"] \in 1 .. Len(contracts) /\ Owned(Home["LendingRateOracle"])

(* A whole market, and that those that finished stay whole.                 *)
Whole(p, t) ==
  /\ p \in DOMAIN slots
  /\ PoolOnChain(p) /\ ConfOnChain(p)
  /\ slots[p]["LendingPoolCollateralManager"] # 0
  /\ slots[p]["0x01"] \in 1 .. Len(contracts) /\ p \in contracts[slots[p]["0x01"]].uses
  /\ \/ slots[p]["PoolAdmin"] = Deployer
     \/ /\ p \in interrupted /\ slots[p]["PoolAdmin"] \in 1 .. Len(contracts)
        /\ p \in contracts[slots[p]["PoolAdmin"]].uses
  /\ slots[p]["EmergencyAdmin"] = Address(getEmergencyAdmin(t))
  /\ ~Provided(t, "LendingRateOracle") =>
       /\ slots[p]["LendingRateOracle"] \in 1 .. Len(contracts)
       /\ Owned(slots[p]["LendingRateOracle"])
  /\ ReservesOpen(p, t) /\ Registered(p, t)

FinishedStay == \A f \in finished : Whole(f.provider, f.target)

-----------------------------------------------------------------------------
(* The steps that bring a script further in its task, and the turns of its  *)
(* two loops.                                                               *)
Moves ==
  \/ MineStep \/ SaveStep \/ LoadStep \/ TakeStep \/ ReadStep \/ WriteStep \/ UpgradeStep
  \/ RegisterStep \/ PauseStep \/ GrantStep \/ RatesStep \/ SourcesStep \/ ListStep
  \/ ConfigureStep \/ GiveAdminBack

Loops == ListReserve \/ TakeAdmin \/ ConfigureReserve

(* Every other step leaves chain and json alone.                            *)
Turns == FailStep \/ NextTask \/ Finish \/ Crash \/ Begin \/ Rerun \/ StartOver

LEMMA NextSplits == Next <=> Moves \/ Loops \/ Turns
BY DEF Next, Script, Moves, Loops, Turns

LEMMA StepsWork ==
  ASSUME Moves \/ Loops
  PROVE  /\ status = "running" /\ todo # <<>> /\ Possible
         /\ UNCHANGED <<target, task, status, finished, interrupted, counters>>
         /\ Now.op # "throw"
         /\ Moves => todo' = Tail(todo)
         /\ Loops => todo' = todo /\ Now.op \in {"list", "configure"}
<1>1. ASSUME Moves
      PROVE  /\ status = "running" /\ todo # <<>> /\ Possible /\ todo' = Tail(todo)
             /\ UNCHANGED <<target, task, status, finished, interrupted, counters>>
             /\ Now.op # "throw"
  BY <1>1 DEF Moves, MineStep, SaveStep, LoadStep, TakeStep, ReadStep, WriteStep, UpgradeStep,
     RegisterStep, PauseStep, GrantStep, RatesStep, SourcesStep, ListStep, ConfigureStep,
     GiveAdminBack, Running, Working, history
<1>2. ASSUME Loops
      PROVE  /\ status = "running" /\ todo # <<>> /\ Possible /\ todo' = todo
             /\ UNCHANGED <<target, task, status, finished, interrupted, counters>>
             /\ Now.op \in {"list", "configure"}
  BY <1>2 DEF Loops, ListReserve, TakeAdmin, ConfigureReserve, Looping, Working, history
<1> QED
  BY <1>1, <1>2

LEMMA Sequence == ASSUME NEW S, NEW p \in Seq(S) PROVE Program(p)
BY DEF Program, Steps

LEMMA Rest ==
  ASSUME NEW p, Program(p), p # <<>>
  PROVE  /\ Len(p) \in Nat \ {0} /\ Head(p) = p[1] /\ Program(Tail(p)) /\ Len(Tail(p)) = Len(p) - 1
         /\ \A i \in 1 .. Len(p) - 1 : Tail(p)[i] = p[i + 1]
<1> DEFINE S == Steps(p)
<1>1. p \in Seq(S)
  BY DEF Program
<1> HIDE DEF S
<1>2. /\ Len(p) \in Nat \ {0} /\ Head(p) = p[1] /\ Tail(p) \in Seq(S) /\ Len(Tail(p)) = Len(p) - 1
      /\ \A i \in 1 .. Len(p) - 1 : Tail(p)[i] = p[i + 1]
  BY <1>1
<1>3. Program(Tail(p))
  BY <1>2, Sequence
<1> QED
  BY <1>2, <1>3

(* Where a script at work stands.                                           *)
LEMMA Standing ==
  ASSUME OnTrack, Moves \/ Loops
  PROVE  /\ Live /\ Live' /\ Begun /\ Begun' /\ target \in Targets
         /\ target' = target /\ task' = task /\ finished' = finished /\ interrupted' = interrupted
         /\ Task' = Task /\ At' = At /\ Course(target, At, Task) /\ At \in Int
         /\ Len(Task) \in Nat /\ Done \in Nat /\ Done + 1 <= Len(Task) /\ Done + 1 \in 1 .. Len(Task)
         /\ Now = Task[Done + 1] /\ Now.op # "throw"
         /\ Len(todo) = Len(Task) - Done /\ Len(todo) \in Nat /\ todo # <<>>
         /\ Len(Tail(todo)) = Len(todo) - 1
<1>1. Live /\ Begun /\ Live' /\ Begun' /\ target' = target /\ task' = task /\ finished' = finished
      /\ interrupted' = interrupted /\ todo # <<>> /\ Now.op # "throw"
  BY StepsWork DEF Live, Begun
<1>2. target \in Targets /\ task \in 1 .. Len(Programs[target]) /\ Program(todo)
      /\ Len(todo) \in 0 .. Len(Task) /\ \A i \in 1 .. Len(todo) : todo[i] = Task[Done + i]
  BY <1>1 DEF OnTrack
<1>3. Task' = Task /\ At' = At
  BY <1>1 DEF Task, At, Programs
<1>4. Course(target, At, Task) /\ At \in Int
  BY <1>2, Courses DEF At, Task
<1>5. Len(Task) \in Nat
  BY <1>4, ProgramLen DEF Course
<1>6. Len(todo) \in Nat \ {0} /\ Head(todo) = todo[1] /\ Len(Tail(todo)) = Len(todo) - 1
  BY <1>1, <1>2, Rest
<1>7. Now = Task[Done + 1]
  BY <1>2, <1>6 DEF Now
<1>8. Done \in Nat /\ Done + 1 <= Len(Task) /\ Len(todo) = Len(Task) - Done
  BY <1>2, <1>5, <1>6 DEF Done
<1> QED
  BY <1>1, <1>2, <1>3, <1>4, <1>5, <1>6, <1>7, <1>8

LEMMA Position ==
  ASSUME OnTrack, Moves
  PROVE  /\ Live /\ Live' /\ Begun /\ Begun' /\ target \in Targets
         /\ target' = target /\ task' = task /\ finished' = finished /\ interrupted' = interrupted
         /\ Task' = Task /\ At' = At /\ Course(target, At, Task) /\ At \in Int
         /\ Len(Task) \in Nat /\ Done \in Nat /\ Done + 1 <= Len(Task) /\ Done + 1 \in 1 .. Len(Task)
         /\ Now = Task[Done + 1] /\ Now.op # "throw"
         /\ Len(todo) = Len(Task) - Done /\ Len(todo) \in Nat
         /\ Done' = Done + 1 /\ Len(todo') = Len(todo) - 1
         /\ todo' = Tail(todo) /\ todo # <<>>
<1>1. todo' = Tail(todo)
  BY StepsWork
<1>2. Done' = Done + 1
  BY <1>1, Standing DEF Done
<1> QED
  BY <1>1, <1>2, Standing

(* A turn of a loop: the script stays where it is.                          *)
LEMMA LoopPosition ==
  ASSUME OnTrack, Loops
  PROVE  /\ todo' = todo /\ Now' = Now /\ Done' = Done /\ OnTrack' /\ Now.op \in {"list", "configure"}
<1>1. todo' = todo /\ target' = target /\ task' = task /\ status' = status /\ Now.op \in {"list", "configure"}
  BY StepsWork
<1> QED
  BY <1>1 DEF Now, Done, Task, Programs, OnTrack, Begun, At

(* The four ways of a turn: the script dies, goes on to the next task,      *)
(* finishes, or is started.                                                 *)
Dies == /\ Live /\ status' = "dead"
        /\ target' = target /\ task' = task /\ todo' = todo /\ finished' = finished
        /\ interrupted' = interrupted \cup (IF Taken THEN {Provider} ELSE {})

GoesOn == /\ Live /\ Live' /\ todo = <<>> /\ task < Len(Programs[target])
          /\ target' = target /\ task' = task + 1 /\ todo' = Programs[target][task + 1]
          /\ local' = <<>> /\ finished' = finished /\ interrupted' = interrupted

Ends == /\ Live /\ status' = "finished" /\ todo = <<>> /\ task = Len(Programs[target])
        /\ target' = target /\ task' = task /\ todo' = todo
        /\ finished' = finished \cup {[provider |-> db[provider], target |-> target]}
        /\ interrupted' = interrupted

Starts == /\ ~Live /\ Live' /\ target' \in Targets /\ local' = <<>> /\ finished' = finished
          /\ interrupted' = interrupted
          /\ task' = 1 \/ (task' = task /\ target' = target /\ status = "dead")
          /\ todo' = Programs[target'][task']

LEMMA TurnKinds ==
  ASSUME Turns, OnTrack
  PROVE  /\ Dies \/ GoesOn \/ Ends \/ Starts
         /\ UNCHANGED <<contracts, slots, pools, granted, sources, registered, db>>
<1>1. CASE FailStep \/ Crash
  BY <1>1 DEF FailStep, Crash, RememberDeath, Dies, Live, chain
<1>2. CASE NextTask
  BY <1>2 DEF NextTask, GoesOn, Live, chain, history
<1>3. CASE Finish
  BY <1>3 DEF Finish, Ends, Live, chain
<1>4. CASE Begin
  BY <1>4 DEF Begin, Restarted, Starts, Live, chain, history
<1>5. CASE Rerun
  BY <1>5 DEF Rerun, Restarted, Starts, Live, chain, history, OnTrack
<1>6. CASE StartOver
  BY <1>6 DEF StartOver, Restarted, Starts, Live, chain, history, OnTrack
<1> QED
  BY <1>1, <1>2, <1>3, <1>4, <1>5, <1>6 DEF Turns

(* After a turn to a running script it stands before a task.                *)
LEMMA TurnPosition ==
  ASSUME OnTrack, Turns
  PROVE  /\ Begun' /\ target' \in Targets /\ task' \in 1 .. Len(Programs[target'])
         /\ Course(target', At', Task') /\ At' \in Int /\ Len(Task') \in Nat
         /\ Begun => Course(target, At, Task) /\ At \in Int /\ Len(Task) \in Nat
         /\ Live' => /\ todo' = Task' /\ Done' = 0 /\ local' = <<>>
                     /\ \/ At' <= 1
                        \/ target' = target /\ Begun /\ At' = At /\ status = "dead"
                        \/ target' = target /\ Live /\ At' = At + 1 /\ Len(todo) = 0 /\ Done = Len(Task)
         /\ ~Live' => Live /\ target' = target /\ task' = task /\ todo' = todo
                      /\ Task' = Task /\ At' = At /\ Done' = Done
<1>1. Begun => /\ task \in 1 .. Len(Programs[target]) /\ target \in Targets
               /\ Course(target, At, Task) /\ At \in Int /\ Len(Task) \in Nat
  BY Courses, ProgramLen DEF OnTrack, At, Task, Course
<1>2. ASSUME target' \in Targets, task' \in 1 .. Len(Programs[target'])
      PROVE  Course(target', At', Task') /\ At' \in Int /\ Len(Task') \in Nat
  <2>1. Course(target', Rank(target', task'), Programs[target'][task'])
        /\ Rank(target', task') \in Int
    BY <1>2, Courses
  <2>2. At' = Rank(target', task') /\ Task' = Programs[target'][task']
    BY DEF At, Task, Programs
  <2>3. Len(Programs[target'][task']) \in Nat
    BY <2>1, ProgramLen DEF Course
  <2> QED
    BY <2>1, <2>2, <2>3
<1>3. CASE Dies
  BY <1>1, <1>3 DEF Dies, Live, Begun, Task, At, Done, Programs
<1>4. CASE Ends
  BY <1>1, <1>4 DEF Ends, Live, Begun, Task, At, Done, Programs
<1>5. CASE GoesOn
  <2>1. /\ Live /\ Live' /\ Begun /\ Begun' /\ target' = target /\ task' = task + 1 /\ local' = <<>>
        /\ todo = <<>> /\ todo' = Programs[target][task + 1] /\ task < Len(Programs[target])
    BY <1>5 DEF GoesOn, Live, Begun
  <2>2. Len(Programs[target]) \in Nat /\ target \in Targets /\ task \in 1 .. Len(Programs[target])
    BY <1>1, <2>1, Courses
  <2>3. task' \in 1 .. Len(Programs[target']) /\ target' \in Targets
    BY <2>1, <2>2
  <2>4. Task' = todo'
    BY <2>1 DEF Task, Programs
  <2>5. Done' = 0
    BY <1>2, <2>3, <2>4 DEF Done
  <2>6. At' = At + 1
    BY <2>1, <2>2 DEF At, Rank
  <2>7. Len(todo) = 0
    BY <2>1
  <2>8. Done = Len(Task)
    BY <1>1, <2>1, <2>7 DEF Done
  <2> QED
    BY <1>1, <1>2, <2>1, <2>3, <2>4, <2>5, <2>6, <2>7, <2>8
<1>6. CASE Starts
  <2>1. /\ ~Live /\ Live' /\ Begun' /\ target' \in Targets /\ local' = <<>>
        /\ task' = 1 \/ (task' = task /\ target' = target /\ status = "dead")
        /\ todo' = Programs[target'][task']
    BY <1>6 DEF Starts, Live, Begun
  <2>2. task' \in 1 .. Len(Programs[target'])
    <3>1. CASE task' = 1
      BY <2>1, <3>1, Courses
    <3>2. CASE task' = task /\ target' = target /\ status = "dead"
      BY <1>1, <3>2 DEF Begun
    <3> QED
      BY <2>1, <3>1, <3>2
  <2>3. Task' = todo'
    BY <2>1 DEF Task, Programs
  <2>4. Done' = 0
    BY <1>2, <2>1, <2>2, <2>3 DEF Done
  <2>5. At' <= 1 \/ (target' = target /\ Begun /\ At' = At /\ status = "dead")
    <3>1. CASE task' = 1
      <4>1. At' = Rank(target', 1) /\ Rank(target', 1) <= 1
        BY <2>1, <3>1, Courses DEF At
      <4> QED
        BY <4>1
    <3>2. CASE task' = task /\ target' = target /\ status = "dead"
      BY <3>2 DEF Begun, At
    <3> QED
      BY <2>1, <3>1, <3>2
  <2> QED
    BY <1>1, <1>2, <2>1, <2>2, <2>3, <2>4, <2>5
<1> QED
  BY <1>3, <1>4, <1>5, <1>6, TurnKinds

(* What a turn finds done was done before it.                               *)
LEMMA TurnBack ==
  ASSUME OnTrack, Turns, NEW r \in Nat, NEW d \in Nat \ {0}, At = r => d <= Len(Task),
         At' > r \/ (At' = r /\ Done' >= d), r >= 1
  PROVE  Begun /\ target' = target /\ (At > r \/ (At = r /\ Done >= d))
<1>1. CASE Live'
  BY <1>1, TurnPosition DEF Live, Begun
<1>2. CASE ~Live'
  BY <1>2, TurnPosition DEF Live, Begun
<1> QED
  BY <1>1, <1>2

LEMMA TurnBackEnding ==
  ASSUME OnTrack, Turns, NEW r \in Nat, NEW n \in Nat, At' = r => n < Len(Task'),
         At' > r \/ (At' = r /\ Len(todo') <= n), r >= 1
  PROVE  Begun /\ target' = target /\ (At > r \/ (At = r /\ Len(todo) <= n))
<1>1. CASE Live'
  BY <1>1, TurnPosition DEF Live, Begun
<1>2. CASE ~Live'
  BY <1>2, TurnPosition DEF Live, Begun
<1> QED
  BY <1>1, <1>2

LEMMA TrackMoves == OnTrack /\ Moves => OnTrack'
<1> SUFFICES ASSUME OnTrack, Moves PROVE OnTrack'
  OBVIOUS
<1>1. /\ target \in Targets /\ status \in {"idle", "running", "dead", "finished"} /\ Begun
      /\ task \in 1 .. Len(Programs[target]) /\ Program(todo)
      /\ \A i \in 1 .. Len(todo) : todo[i] = Task[Done + i]
      /\ \A i \in 1 .. Done : Task[i].op # "throw"
      /\ Dev(target) => At <= 3
  BY Position DEF OnTrack
<1>2. /\ target' = target /\ task' = task /\ Task' = Task /\ At' = At /\ todo' = Tail(todo) /\ todo # <<>>
      /\ Done \in Nat /\ Done' = Done + 1 /\ Len(todo) = Len(Task) - Done /\ Len(Task) \in Nat
      /\ Done + 1 <= Len(Task) /\ Now = Task[Done + 1] /\ Now.op # "throw" /\ Live' /\ Begun'
  BY Position
<1>3. Program(todo') /\ Len(todo') = Len(todo) - 1
      /\ \A i \in 1 .. Len(todo) - 1 : todo'[i] = todo[i + 1]
  BY <1>1, <1>2, Rest
<1>4. \A i \in 1 .. Len(todo') : todo'[i] = Task'[Done' + i]
  BY <1>1, <1>2, <1>3
<1>5. \A i \in 1 .. Done' : Task'[i].op # "throw"
  BY <1>1, <1>2
<1>6. Len(todo') \in 0 .. Len(Task')
  BY <1>2, <1>3
<1>7. task' \in 1 .. Len(Programs[target])' /\ target' \in Targets /\ status' = "running"
      /\ (Dev(target) => At <= 3)'
  BY <1>1, <1>2 DEF Programs, Dev, Live
<1> QED
  BY <1>2, <1>3, <1>4, <1>5, <1>6, <1>7 DEF OnTrack

LEMMA TrackTurns == OnTrack /\ Turns => OnTrack'
<1> SUFFICES ASSUME OnTrack, Turns PROVE OnTrack'
  OBVIOUS
<1>1. Begun' /\ target' \in Targets /\ task' \in 1 .. Len(Programs[target']) /\ Len(Task') \in Nat
      /\ Course(target', At', Task')
  BY TurnPosition
<1>2. status' \in {"running", "dead", "finished"}
  BY TurnKinds DEF Dies, GoesOn, Ends, Starts, Live
<1>3. Dev(target') => At' <= 3
  <2>1. CASE Live' /\ target' = target /\ Live /\ At' = At + 1 /\ Done = Len(Task)
    <3>1. /\ At \in Int /\ Course(target, At, Task) /\ Begun
          /\ Dev(target) => At <= 3 /\ \A i \in 1 .. Done : Task[i].op # "throw"
      BY <2>1, TurnPosition DEF OnTrack, Live, Begun
    <3>2. Dev(target) => At # 3
      <4> SUFFICES ASSUME Dev(target), At = 3 PROVE FALSE
        OBVIOUS
      <4>1. DevOraclesTask(Task)
        BY <3>1 DEF Course
      <4>2. 5 \in 1 .. Len(Task) /\ Task[5].op = "throw"
        BY <4>1, ProgramLen DEF DevOraclesTask, Throw
      <4> QED
        BY <2>1, <3>1, <4>2
    <3> QED
      BY <2>1, <3>1, <3>2
  <2>2. CASE Live' /\ (At' <= 1 \/ (target' = target /\ Begun /\ At' = At))
    BY <2>2, TurnPosition DEF OnTrack
  <2>3. CASE ~Live'
    BY <2>3, TurnPosition DEF OnTrack, Live, Begun
  <2> QED
    BY <2>1, <2>2, <2>3, TurnPosition
<1>4. CASE Live'
  BY <1>1, <1>2, <1>3, <1>4, TurnPosition DEF OnTrack, Live, Course, Programs
<1>5. CASE ~Live'
  <2>1. /\ Live /\ Begun /\ target' = target /\ task' = task /\ todo' = todo /\ Task' = Task
        /\ Done' = Done /\ Len(Programs[target])' = Len(Programs[target])
    BY <1>5, TurnPosition DEF Live, Begun, Programs
  <2>2. status' = "finished" => Len(todo) = 0 /\ task = Len(Programs[target])
    BY <1>5, TurnKinds DEF Dies, GoesOn, Ends, Starts, Live
  <2>3. /\ Program(todo) /\ Len(todo) \in 0 .. Len(Task)
        /\ \A i \in 1 .. Len(todo) : todo[i] = Task[Done + i]
        /\ \A i \in 1 .. Done : Task[i].op # "throw"
        /\ task \in 1 .. Len(Programs[target])
    BY <2>1 DEF OnTrack
  <2> QED
    BY <1>1, <1>2, <1>3, <2>1, <2>2, <2>3 DEF OnTrack
<1> QED
  BY <1>4, <1>5

-----------------------------------------------------------------------------
LEMMA PutAt ==
  ASSUME NEW f, NEW x, NEW y
  PROVE  /\ DOMAIN Put(f, x, y) = DOMAIN f \cup {x} /\ Put(f, x, y)[x] = y
         /\ \A k \in DOMAIN f : k # x => Put(f, x, y)[k] = f[k]
BY DEF Put

(* A slot is initialized once: an implementation that it has has the same  *)
(* revision as the next.                                                    *)
LEMMA NeverTwice ==
  ASSUME NEW p, NEW slot, Initializable(p, slot)
  PROVE  slots[p][slot] = 0
<1> SUFFICES ASSUME slots[p][slot] # 0 PROVE FALSE
  OBVIOUS
<1>1. Revision(slot) > Revision(slot)
  BY DEF Initializable, lastInitializedRevision
<1> QED
  BY <1>1 DEF Revision

(* What a move does to each variable, by its operation.                    *)
LEMMA Effects ==
  ASSUME Moves
  PROVE  /\ IF Now.op = "save" THEN db' = Put(db, Now.arg, local[Now.var]) ELSE db' = db
         /\ Now.op = "mine" => local' = Put(local, Now.var, NewAddress)
         /\ Now.op = "load" => local' = Put(local, Now.var, db[Now.arg]) /\ Now.arg \in DOMAIN db
         /\ Now.op = "take" => local' = Put(local, Now.var, Now.arg)
         /\ Now.op = "read" => local' = Put(local, Now.var, slots[Provider][Now.arg])
         /\ Now.op \notin Assigning => local' = local
         /\ Now.op = "mine" =>
              contracts' = Append(contracts, [kind |-> Now.arg, uses |-> {local[v] : v \in Now.uses}])
         /\ Now.op = "upgrade" =>
              contracts' = Append(contracts,
                             [kind |-> Now.arg,
                              uses |-> {local[Now.var], Provider}
                                         \cup (IF Now.arg = "LendingPoolConfigurator"
                                               THEN {slots[Provider]["LendingPool"]} ELSE {})])
         /\ Now.op \notin {"mine", "upgrade"} => contracts' = contracts
         /\ Now.op = "mine" =>
              slots' = IF Now.arg = provider THEN Put(slots, NewAddress, [s \in Slots |-> 0]) ELSE slots
         /\ Now.op = "write" => slots' = [slots EXCEPT ![Provider][Now.arg] = local[Now.var]]
         /\ Now.op = "upgrade" => /\ slots' = [slots EXCEPT ![Provider][Now.arg] = NewAddress]
                                  /\ slots[Provider][Now.arg] = 0
         /\ Now.op = "configure" =>
              IF Taken
              THEN /\ slots' = [slots EXCEPT ![Provider]["PoolAdmin"] = local["PoolAdmin"]]
                   /\ local["tokens"] = {}
              ELSE slots' = slots /\ Unconfigured(target) = {}
         /\ Now.op \notin {"mine", "write", "upgrade", "configure"} => slots' = slots
         /\ Now.op = "upgrade" =>
              pools' = IF Now.arg = "LendingPool"
                       THEN Put(pools, NewAddress, [paused |-> FALSE, listed |-> {}, configured |-> {}])
                       ELSE pools
         /\ Now.op = "pause" =>
              pools' = [pools EXCEPT ![PoolOf(local["LendingPoolConfigurator"])].paused = Now.arg]
         /\ Now.op = "list" => Unlisted(target) = {}
         /\ Now.op \notin {"upgrade", "pause"} => pools' = pools
         /\ IF Now.op = "grant" THEN granted' = Put(granted, local[Now.var], local[Now.arg])
            ELSE granted' = granted
         /\ IF Now.op = "register" THEN registered' = registered \cup {<<local[registry], Provider>>}
            ELSE registered' = registered
<1>1. CASE MineStep
  BY <1>1 DEF MineStep, Running, Working, Assigning, chain
<1>2. CASE SaveStep
  BY <1>2 DEF SaveStep, Running, Working, Assigning, chain
<1>3. CASE LoadStep
  BY <1>3 DEF LoadStep, Running, Working, Assigning, chain, Possible
<1>4. CASE TakeStep
  BY <1>4 DEF TakeStep, Running, Working, Assigning, chain
<1>5. CASE ReadStep
  BY <1>5 DEF ReadStep, Running, Working, Assigning, chain
<1>6. CASE WriteStep
  BY <1>6 DEF WriteStep, Running, Working, Assigning, chain
<1>7. CASE UpgradeStep
  <2>1. /\ Now.op = "upgrade" /\ Possible /\ local' = local /\ db' = db
        /\ granted' = granted /\ registered' = registered
        /\ contracts' = Append(contracts,
                              [kind |-> Now.arg,
                               uses |-> {local[Now.var], Provider}
                                          \cup (IF Now.arg = "LendingPoolConfigurator"
                                                THEN {slots[Provider]["LendingPool"]} ELSE {})])
        /\ slots' = [slots EXCEPT ![Provider][Now.arg] = NewAddress]
        /\ pools' = IF Now.arg = "LendingPool"
                    THEN Put(pools, NewAddress, [paused |-> FALSE, listed |-> {}, configured |-> {}])
                    ELSE pools
    BY <1>7 DEF UpgradeStep, Running, Working
  <2>2. Initializable(Provider, Now.arg)
    BY <2>1 DEF Possible
  <2>3. slots[Provider][Now.arg] = 0
    BY <2>2, NeverTwice
  <2> QED
    BY <2>1, <2>3 DEF Assigning
<1>8. CASE RegisterStep
  BY <1>8 DEF RegisterStep, Running, Working, Assigning, chain
<1>9. CASE PauseStep
  BY <1>9 DEF PauseStep, Running, Working, Assigning, chain
<1>10. CASE GrantStep
  BY <1>10 DEF GrantStep, Running, Working, Assigning, chain
<1>11. CASE RatesStep
  BY <1>11 DEF RatesStep, Running, Working, Assigning, chain
<1>12. CASE SourcesStep
  BY <1>12 DEF SourcesStep, Running, Working, Assigning, chain
<1>13. CASE ListStep
  BY <1>13 DEF ListStep, Running, Working, Assigning, chain
<1>14. CASE ConfigureStep
  BY <1>14 DEF ConfigureStep, Running, Working, Assigning, chain
<1>15. CASE GiveAdminBack
  BY <1>15 DEF GiveAdminBack, SetPoolAdmin, Running, Working, Assigning, chain
<1> QED
  BY <1>1, <1>2, <1>3, <1>4, <1>5, <1>6, <1>7, <1>8, <1>9, <1>10, <1>11, <1>12, <1>13, <1>14,
     <1>15 DEF Moves

(* What a turn of a loop does.                                              *)
LEMMA LoopEffects ==
  ASSUME Loops
  PROVE  /\ UNCHANGED <<contracts, granted, sources, registered, db>>
         /\ \/ /\ Now.op = "list" /\ slots' = slots /\ local' = local
               /\ \E s \in Unlisted(target) :
                    pools' = [pools EXCEPT ![PoolOf(local["LendingPoolConfigurator"])].listed = @ \cup {s}]
            \/ /\ Now.op = "configure" /\ ~Taken /\ pools' = pools
               /\ slots' = [slots EXCEPT ![Provider]["PoolAdmin"] = local["ATokensAndRatesHelper"]]
               /\ local' = Put(local, "tokens", Unconfigured(target))
            \/ /\ Now.op = "configure" /\ Taken /\ slots' = slots
               /\ \E s \in local["tokens"] :
                    /\ pools' = [pools EXCEPT ![slots[Provider]["LendingPool"]].configured = @ \cup {s}]
                    /\ local' = Put(local, "tokens", local["tokens"] \ {s})
<1>1. CASE ListReserve
  BY <1>1 DEF ListReserve, Looping, Working
<1>2. CASE TakeAdmin
  BY <1>2 DEF TakeAdmin, SetPoolAdmin, Looping, Working
<1>3. CASE ConfigureReserve
  BY <1>3 DEF ConfigureReserve, Pool, Looping, Working
<1> QED
  BY <1>1, <1>2, <1>3 DEF Loops

(* The task at hand, by rank.                                               *)
LEMMA AtHand ==
  ASSUME OnTrack, Moves \/ Loops
  PROVE  /\ At <= 0 => Aside(Task)
         /\ At = 1 => Opening(Task, target)
         /\ ~Market => /\ At <= 3
                       /\ At = 2 => DevPoolTask(Task)
                       /\ At = 3 => DevOraclesTask(Task) /\ Done + 1 < 5
         /\ Market => /\ At = 2 => PoolTask(Task, target)
                      /\ At = 3 => OraclesTask(Task, target)
                      /\ At = 4 => DataTask(Task)
                      /\ At = 5 => Aside(Task)
                      /\ At = 6 => InitTask(Task, target)
                      /\ At > 6 => Aside(Task) \/ OpenPool(Task, target)
         /\ At <= 0 \/ At = 1 \/ At = 2 \/ At = 3 \/ At = 4 \/ At = 5 \/ At = 6 \/ At > 6
<1>1. Course(target, At, Task) /\ At \in Int /\ Done \in Nat /\ Begun /\ Done + 1 \in 1 .. Len(Task)
      /\ Now = Task[Done + 1] /\ Now.op # "throw"
  BY Standing
<1>2. (Dev(target) => At <= 3) /\ \A i \in 1 .. Done : Task[i].op # "throw"
  BY <1>1 DEF OnTrack
<1>3. DevOraclesTask(Task) => Done + 1 < 5
  <2> SUFFICES ASSUME DevOraclesTask(Task), Done + 1 >= 5 PROVE FALSE
    BY <1>1
  <2>1. Task[5].op = "throw"
    BY DEF DevOraclesTask, Throw
  <2>2. Done + 1 = 5 \/ 5 \in 1 .. Done
    BY <1>1
  <2> QED
    BY <1>1, <1>2, <2>1, <2>2
<1> QED
  BY <1>1, <1>2, <1>3 DEF Course, Market

LEMMA AsideFits ==
  ASSUME NEW s, Fit(s, Acting, {"save"} \X Keys, {provider})
  PROVE  Fit(s, {"upgrade", "register"}, {<<"mine", provider>>, <<"save", provider>>}, {})
<1>1. Regular(s) /\ s.op \notin Acting /\ <<s.op, s.arg>> \notin {"save"} \X Keys
      /\ (s.op \in Assigning => s.var # provider)
  BY DEF Fit
<1>2. <<s.op, s.arg>> # <<"save", provider>>
  BY <1>1 DEF Keys
<1>3. s.op # "mine" \/ s.arg # provider
  BY <1>1 DEF Regular, Assigning
<1>4. <<s.op, s.arg>> # <<"mine", provider>>
  BY <1>3
<1> QED
  BY <1>1, <1>2, <1>4 DEF Fit, Acting

LEMMA TaskFits ==
  ASSUME NEW p, NEW t, NEW i \in 1 .. Len(p)
  PROVE  /\ PoolTask(p, t) => Fit(p[i], {"write", "register", "grant", "list", "configure"},
                                 {<<"mine", provider>>, <<"save", provider>>,
                                  <<"save", "AaveProtocolDataProvider">>}, {})
         /\ OraclesTask(p, t) => Fit(p[i], {"upgrade", "register", "pause", "list", "configure"}, Named, {})
         /\ InitTask(p, t) => Fit(p[i], {"upgrade", "register", "pause", "grant"}, Named, {})
         /\ Opening(p, t) /\ i >= 3 =>
              Fit(p[i], {"upgrade", "pause", "grant", "list", "configure"}, {<<"save", provider>>}, {provider})
<1>1. PoolTask(p, t) => Fit(p[i], {"write", "register", "grant", "list", "configure"},
                                 {<<"mine", provider>>, <<"save", provider>>,
                                  <<"save", "AaveProtocolDataProvider">>}, {})
  <2> HIDE DEF Fit
  <2> QED
    BY DEF PoolTask
<1>2. OraclesTask(p, t) => Fit(p[i], {"upgrade", "register", "pause", "list", "configure"}, Named, {})
  BY DEF OraclesTask
<1>3. InitTask(p, t) => Fit(p[i], {"upgrade", "register", "pause", "grant"}, Named, {})
  BY DEF InitTask
<1>4. Opening(p, t) /\ i >= 3 =>
        Fit(p[i], {"upgrade", "pause", "grant", "list", "configure"}, {<<"save", provider>>}, {provider})
  <2> SUFFICES ASSUME Opening(p, t), i >= 3
               PROVE  Fit(p[i], {"upgrade", "pause", "grant", "list", "configure"}, {<<"save", provider>>}, {provider})
    OBVIOUS
  <2>1. Len(p) \in Nat
    BY ProgramLen DEF Opening
  <2>2. i \in 3 .. Len(p)
    BY <2>1
  <2>3. From(p, 3, {"upgrade", "pause", "grant", "list", "configure"}, {<<"save", provider>>}, {provider})
    BY DEF Opening
  <2> QED
    BY <2>2, <2>3 DEF From
<1> QED
  BY <1>1, <1>2, <1>3, <1>4

(* The step at hand is regular, and what it may be.                         *)
LEMMA NowFits ==
  ASSUME OnTrack, Moves \/ Loops
  PROVE  /\ Regular(Now)
         /\ At <= 0 \/ (Market /\ At = 5) => Fit(Now, Acting, {"save"} \X Keys, {provider})
         /\ At = 1 => \/ Done = 0 /\ Now = Mine(provider, provider, {})[1]
                      \/ Done = 1 /\ Now = Save(provider, provider)[1]
                      \/ Done >= 2 /\ Fit(Now, {"upgrade", "pause", "grant", "list", "configure"},
                                          {<<"save", provider>>}, {provider})
         /\ At = 2 => Fit(Now, {"write", "register", "grant", "list", "configure"},
                          {<<"mine", provider>>, <<"save", provider>>}, {})
         /\ At >= 3 => Fit(Now, {"upgrade", "register"}, {<<"mine", provider>>, <<"save", provider>>}, {})
         /\ ~Market /\ At >= 2 => Fit(Now, Acting \ {"upgrade"}, {}, {})
<1> DEFINE j == Done + 1
<1>1. j \in 1 .. Len(Task) /\ Now = Task[j] /\ Done \in Nat /\ At \in Int
  BY Standing
<1>2. ASSUME NEW ops, NEW pairs, NEW vs, Part(Task, ops, pairs, vs) PROVE Fit(Now, ops, pairs, vs)
  BY <1>1, <1>2, ProgramLen DEF Part
<1>3. ASSUME Aside(Task) PROVE Fit(Now, Acting, {"save"} \X Keys, {provider})
  BY <1>2, <1>3 DEF Aside
<1>4. CASE At <= 0
  BY <1>1, <1>3, <1>4, AtHand DEF Fit
<1>5. CASE At = 1
  <2>1. Opening(Task, target)
    BY <1>5, AtHand
  <2>2. Fit(Now, {}, {}, {})
    BY <1>1, <2>1 DEF Opening, From
  <2>3. CASE j >= 3
    <3>1. Fit(Now, {"upgrade", "pause", "grant", "list", "configure"}, {<<"save", provider>>}, {provider})
      BY <1>1, <2>1, <2>3, TaskFits
    <3> QED
      BY <1>1, <1>5, <2>2, <2>3, <3>1 DEF Fit
  <2>4. CASE j = 1 \/ j = 2
    BY <1>1, <1>5, <2>1, <2>2, <2>4 DEF Opening, Fit
  <2> QED
    BY <1>1, <2>3, <2>4
<1>6. CASE At = 2
  <2>1. CASE Market
    <3>1. Fit(Now, {"write", "register", "grant", "list", "configure"},
              {<<"mine", provider>>, <<"save", provider>>, <<"save", "AaveProtocolDataProvider">>}, {})
      BY <1>1, <1>6, <2>1, AtHand, TaskFits
    <3> QED
      BY <1>6, <2>1, <3>1 DEF Fit
  <2>2. CASE ~Market
    <3>1. Fit(Now, {"write", "register", "grant", "list", "configure", "pause"},
              {<<"mine", provider>>, <<"save", provider>>}, {})
      BY <1>2, <1>6, <2>2, AtHand DEF DevPoolTask
    <3> QED
      BY <1>6, <2>2, <3>1 DEF Fit, Acting
  <2> QED
    BY <2>1, <2>2
<1>7. CASE At = 3
  <2>1. CASE Market
    <3>1. Fit(Now, {"upgrade", "register", "pause", "list", "configure"}, Named, {})
      BY <1>1, <1>7, <2>1, AtHand, TaskFits
    <3> QED
      BY <1>7, <2>1, <3>1 DEF Fit, Named, Keys
  <2>2. CASE ~Market
    <3>1. Fit(Now, Acting, Named, {})
      BY <1>1, <1>7, <2>2, AtHand DEF DevOraclesTask
    <3> QED
      BY <1>7, <2>2, <3>1 DEF Fit, Acting, Named, Keys
  <2> QED
    BY <2>1, <2>2
<1>8. CASE At = 4
  <2>1. Market /\ DataTask(Task)
    BY <1>8, AtHand
  <2>2. Now \in {Load(provider, provider)[1],
                 Mine("AaveProtocolDataProvider", "AaveProtocolDataProvider", {provider})[1],
                 Save("AaveProtocolDataProvider", "AaveProtocolDataProvider")[1]}
    BY <1>1, <2>1 DEF DataTask
  <2> QED
    BY <1>8, <2>1, <2>2 DEF Load, Mine, Save, Fit, Regular, Assigning, Impls, Proxies, provider
<1>9. CASE At = 5
  <2>1. Market /\ Aside(Task)
    BY <1>9, AtHand
  <2>2. Fit(Now, Acting, {"save"} \X Keys, {provider})
    BY <1>3, <2>1
  <2>3. Fit(Now, {"upgrade", "register"}, {<<"mine", provider>>, <<"save", provider>>}, {})
    BY <2>2, AsideFits
  <2>4. Regular(Now)
    BY <2>2 DEF Fit
  <2> QED
    BY <1>9, <2>1, <2>2, <2>3, <2>4
<1>10. CASE At = 6
  <2>1. Market
    BY <1>10, AtHand
  <2>2. Fit(Now, {"upgrade", "register", "pause", "grant"}, Named, {})
    BY <1>1, <1>10, <2>1, AtHand, TaskFits
  <2> QED
    BY <1>10, <2>1, <2>2 DEF Fit, Named, Keys
<1>11. CASE At > 6
  <2>1. Market /\ (Aside(Task) \/ OpenPool(Task, target))
    <3> HIDE DEF At
    <3> QED
      BY <1>1, <1>11, AtHand
  <2>2. ASSUME Aside(Task) PROVE Fit(Now, {"upgrade", "register"}, {<<"mine", provider>>, <<"save", provider>>}, {})
    BY <1>3, <2>2, AsideFits
  <2>3. ASSUME OpenPool(Task, target)
        PROVE  Fit(Now, {"upgrade", "register"}, {<<"mine", provider>>, <<"save", provider>>}, {})
    <3> DEFINE x == Load("LendingPoolConfigurator", "LendingPoolConfigurator")[1]
               y == SetPoolPause(FALSE, getEmergencyAdmin(target))[1]
    <3>1. Len(Task) = 2 /\ Task[1] = x /\ Task[2] = y
      BY <2>3 DEF OpenPool
    <3>2. Fit(x, {"upgrade", "register"}, {<<"mine", provider>>, <<"save", provider>>}, {})
      BY DEF Load, Fit, Regular, Assigning, Impls, Proxies, provider
    <3>3. y.op = "pause"
      BY DEF SetPoolPause
    <3> HIDE DEF x, y
    <3>4. Fit(y, {"upgrade", "register"}, {<<"mine", provider>>, <<"save", provider>>}, {})
      BY <3>3 DEF Fit, Regular, Assigning
    <3> QED
      BY <1>1, <3>1, <3>2, <3>4
  <2>4. Fit(Now, {"upgrade", "register"}, {<<"mine", provider>>, <<"save", provider>>}, {})
    BY <2>1, <2>2, <2>3
  <2>5. Regular(Now)
    BY <2>4 DEF Fit
  <2> QED
    BY <1>1, <1>11, <2>1, <2>4, <2>5
<1> QED
  BY <1>4, <1>5, <1>6, <1>7, <1>8, <1>9, <1>10, <1>11, AtHand

-----------------------------------------------------------------------------
(* What a move leaves alone.  Contracts are only added.                     *)
LEMMA Extended ==
  ASSUME NEW p, Program(p), NEW x
  PROVE  /\ Program(Append(p, x)) /\ Len(p) \in Nat /\ Len(Append(p, x)) = Len(p) + 1
         /\ Append(p, x)[Len(p) + 1] = x
         /\ \A i \in 1 .. Len(p) : Append(p, x)[i] = p[i]
<1> DEFINE S == Steps(p) \cup {x}
<1>1. p \in Seq(S) /\ x \in S
  BY DEF Program
<1> HIDE DEF S
<1>2. /\ Append(p, x) \in Seq(S) /\ Len(p) \in Nat /\ Len(Append(p, x)) = Len(p) + 1
      /\ Append(p, x)[Len(p) + 1] = x
      /\ \A i \in 1 .. Len(p) : Append(p, x)[i] = p[i]
  BY <1>1
<1> QED
  BY <1>2, Sequence

Made == Now.op \in {"mine", "upgrade"}

LEMMA FrameContracts ==
  ASSUME OnChain, Moves
  PROVE  /\ Program(contracts') /\ Len(contracts) \in Nat /\ Len(contracts') \in Nat
         /\ NewAddress = Len(contracts) + 1
         /\ \A i \in 1 .. Len(contracts) : i \in 1 .. Len(contracts') /\ contracts'[i] = contracts[i]
         /\ Made => Len(contracts') = NewAddress /\ contracts'[NewAddress].kind = Now.arg
         /\ Now.op = "mine" => contracts'[NewAddress].uses = {local[v] : v \in Now.uses}
         /\ Now.op = "upgrade" =>
              contracts'[NewAddress].uses =
                {local[Now.var], Provider} \cup (IF Now.arg = "LendingPoolConfigurator"
                                                 THEN {slots[Provider]["LendingPool"]} ELSE {})
         /\ ~Made => contracts' = contracts
<1>1. Program(contracts) /\ Len(contracts) \in Nat /\ NewAddress = Len(contracts) + 1
  BY ProgramLen DEF OnChain, NewAddress
<1>2. CASE Now.op = "mine"
  <2> DEFINE c == [kind |-> Now.arg, uses |-> {local[v] : v \in Now.uses}]
  <2>1. contracts' = Append(contracts, c)
    BY <1>2, Effects
  <2>2. c.kind = Now.arg /\ c.uses = {local[v] : v \in Now.uses}
    OBVIOUS
  <2> HIDE DEF c
  <2> QED
    BY <1>1, <1>2, <2>1, <2>2, Extended DEF Made
<1>3. CASE Now.op = "upgrade"
  <2> DEFINE c == [kind |-> Now.arg,
                   uses |-> {local[Now.var], Provider}
                               \cup (IF Now.arg = "LendingPoolConfigurator"
                                     THEN {slots[Provider]["LendingPool"]} ELSE {})]
  <2>1. contracts' = Append(contracts, c)
    BY <1>3, Effects
  <2>2. /\ c.kind = Now.arg
        /\ c.uses = {local[Now.var], Provider} \cup (IF Now.arg = "LendingPoolConfigurator"
                                                   THEN {slots[Provider]["LendingPool"]} ELSE {})
    OBVIOUS
  <2> HIDE DEF c
  <2> QED
    BY <1>1, <1>3, <2>1, <2>2, Extended DEF Made
<1>4. CASE ~Made
  <2>1. contracts' = contracts
    BY <1>4, Effects DEF Made
  <2> QED
    BY <1>1, <1>4, <2>1 DEF Made
<1> QED
  BY <1>2, <1>3, <1>4 DEF Made

(* A provider's slot changes only by a write, by its first upgrade, or as   *)
(* the admin is given back.                                                 *)
LEMMA FrameSlots ==
  ASSUME OnChain, Moves
  PROVE  /\ \A p \in DOMAIN slots : p \in DOMAIN slots' /\ DOMAIN slots'[p] = Slots
         /\ \A p \in DOMAIN slots, s \in Slots :
              \/ slots'[p][s] = slots[p][s]
              \/ p = Provider /\ Now.op = "write" /\ Now.arg = s /\ slots'[p][s] = local[Now.var]
              \/ p = Provider /\ Now.op = "upgrade" /\ Now.arg = s /\ slots'[p][s] = NewAddress
                 /\ slots[p][s] = 0
              \/ /\ p = Provider /\ Now.op = "configure" /\ Taken /\ s = "PoolAdmin"
                 /\ slots'[p][s] = local["PoolAdmin"]
         /\ \A p \in DOMAIN slots' :
              \/ p \in DOMAIN slots
              \/ /\ p = NewAddress /\ Now.op = "mine" /\ Now.arg = provider
                 /\ slots'[p] = [s \in Slots |-> 0]
         /\ Now.op = "mine" /\ Now.arg = provider => NewAddress \in DOMAIN slots'
         /\ Now.op = "write" /\ Provider \in DOMAIN slots /\ Now.arg \in Slots =>
              slots'[Provider][Now.arg] = local[Now.var]
         /\ Now.op = "upgrade" /\ Provider \in DOMAIN slots /\ Now.arg \in Slots =>
              slots'[Provider][Now.arg] = NewAddress /\ slots[Provider][Now.arg] = 0
         /\ Now.op = "configure" /\ Taken /\ Provider \in DOMAIN slots =>
              slots'[Provider]["PoolAdmin"] = local["PoolAdmin"]
<1>1. \A p \in DOMAIN slots : DOMAIN slots[p] = Slots /\ p \in 1 .. Len(contracts)
  BY DEF OnChain
<1>2. NewAddress \notin DOMAIN slots
  BY <1>1, FrameContracts
<1>3. CASE Now.op = "mine" /\ Now.arg = provider
  <2> DEFINE new == [s \in Slots |-> 0]
  <2>1. slots' = Put(slots, NewAddress, new)
    BY <1>3, Effects
  <2>2. new = [s \in Slots |-> 0]
    OBVIOUS
  <2> HIDE DEF new
  <2>3. /\ DOMAIN slots' = DOMAIN slots \cup {NewAddress} /\ slots'[NewAddress] = new
        /\ \A k \in DOMAIN slots : k # NewAddress => slots'[k] = slots[k]
    BY <2>1 DEF Put
  <2> QED
    BY <1>1, <1>2, <1>3, <2>2, <2>3
<1>4. CASE Now.op = "mine" /\ Now.arg # provider
  <2>1. slots' = slots
    BY <1>4, Effects
  <2> QED
    BY <1>1, <1>4, <2>1
<1>5. CASE Now.op = "write"
  <2>1. slots' = [slots EXCEPT ![Provider][Now.arg] = local[Now.var]]
    BY <1>5, Effects
  <2> QED
    BY <1>1, <1>5, <2>1
<1>6. CASE Now.op = "upgrade"
  <2>1. slots' = [slots EXCEPT ![Provider][Now.arg] = NewAddress] /\ slots[Provider][Now.arg] = 0
    BY <1>6, Effects
  <2> QED
    BY <1>1, <1>6, <2>1
<1>7. CASE Now.op = "configure" /\ Taken
  <2>1. slots' = [slots EXCEPT ![Provider]["PoolAdmin"] = local["PoolAdmin"]]
    BY <1>7, Effects
  <2>2. "PoolAdmin" \in Slots
    BY DEF Slots
  <2> QED
    BY <1>1, <1>7, <2>1, <2>2
<1>8. CASE Now.op \notin {"mine", "write", "upgrade"} /\ ~(Now.op = "configure" /\ Taken)
  <2>1. slots' = slots
    BY <1>8, Effects
  <2> QED
    BY <1>1, <1>8, <2>1
<1> QED
  BY <1>3, <1>4, <1>5, <1>6, <1>7, <1>8

LEMMA FrameJson ==
  ASSUME Moves
  PROVE  /\ \A x \in DOMAIN db : x \in DOMAIN db' /\ (db'[x] = db[x] \/ <<Now.op, Now.arg>> = <<"save", x>>)
         /\ Now.op = "save" => Now.arg \in DOMAIN db' /\ db'[Now.arg] = local[Now.var]
         /\ \A v \in DOMAIN local : v \in DOMAIN local' /\ (local'[v] = local[v] \/ Assigns(Now, v))
         /\ \A v \in DOMAIN local' : v \in DOMAIN local \/ Assigns(Now, v)
         /\ Now.op \in Assigning => Now.var \in DOMAIN local'
         /\ Now.op = "mine" => local'[Now.var] = NewAddress
         /\ Now.op = "load" => local'[Now.var] = db[Now.arg] /\ Now.arg \in DOMAIN db
         /\ Now.op = "take" => local'[Now.var] = Now.arg
         /\ Now.op = "read" => local'[Now.var] = slots[Provider][Now.arg]
<1>1. CASE Now.op = "save"
  <2>1. db' = Put(db, Now.arg, local[Now.var]) /\ local' = local
    BY <1>1, Effects DEF Assigning
  <2>2. /\ DOMAIN db' = DOMAIN db \cup {Now.arg} /\ db'[Now.arg] = local[Now.var]
        /\ \A k \in DOMAIN db : k # Now.arg => db'[k] = db[k]
    BY <2>1 DEF Put
  <2> QED
    BY <1>1, <2>1, <2>2 DEF Assigns, Assigning
<1>2. CASE Now.op \in Assigning
  <2>1. db' = db
    BY <1>2, Effects DEF Assigning
  <2>2. \E y : /\ local' = Put(local, Now.var, y)
               /\ Now.op = "mine" => y = NewAddress
               /\ Now.op = "load" => y = db[Now.arg] /\ Now.arg \in DOMAIN db
               /\ Now.op = "take" => y = Now.arg
               /\ Now.op = "read" => y = slots[Provider][Now.arg]
    <3>1. CASE Now.op = "mine"
      BY <3>1, Effects
    <3>2. CASE Now.op = "load"
      BY <3>2, Effects
    <3>3. CASE Now.op = "take"
      BY <3>3, Effects
    <3>4. CASE Now.op = "read"
      BY <3>4, Effects
    <3> QED
      BY <1>2, <3>1, <3>2, <3>3, <3>4 DEF Assigning
  <2>3. PICK y : /\ local' = Put(local, Now.var, y)
                 /\ Now.op = "mine" => y = NewAddress
                 /\ Now.op = "load" => y = db[Now.arg] /\ Now.arg \in DOMAIN db
                 /\ Now.op = "take" => y = Now.arg
                 /\ Now.op = "read" => y = slots[Provider][Now.arg]
    BY <2>2
  <2>4. Now.op # "save"
    BY <1>2 DEF Assigning
  <2>5. /\ DOMAIN local' = DOMAIN local \cup {Now.var} /\ local'[Now.var] = y
        /\ \A k \in DOMAIN local : k # Now.var => local'[k] = local[k]
    BY <2>3 DEF Put
  <2> QED
    BY <1>2, <2>1, <2>3, <2>4, <2>5 DEF Assigns
<1>3. CASE Now.op # "save" /\ Now.op \notin Assigning
  <2>1. db' = db /\ local' = local
    BY <1>3, Effects
  <2> QED
    BY <1>3, <2>1 DEF Assigns, Assigning
<1> QED
  BY <1>1, <1>2, <1>3

LEMMA FramePools ==
  ASSUME OnChain, Moves
  PROVE  /\ \A c \in DOMAIN pools :
              /\ c \in DOMAIN pools'
              /\ \/ pools'[c] = pools[c]
                 \/ Now.op = "pause" /\ c = PoolOf(local["LendingPoolConfigurator"])
         /\ \A c \in DOMAIN pools' :
              \/ c \in DOMAIN pools
              \/ /\ c = NewAddress /\ Now.op = "upgrade" /\ Now.arg = "LendingPool"
                 /\ pools'[c] = [paused |-> FALSE, listed |-> {}, configured |-> {}]
         /\ Now.op = "upgrade" /\ Now.arg = "LendingPool" => NewAddress \in DOMAIN pools'
<1>1. NewAddress \notin DOMAIN pools
  BY FrameContracts DEF OnChain
<1>2. CASE Now.op = "upgrade" /\ Now.arg = "LendingPool"
  <2> DEFINE new == [paused |-> FALSE, listed |-> {}, configured |-> {}]
  <2>1. pools' = Put(pools, NewAddress, new)
    BY <1>2, Effects
  <2>2. new = [paused |-> FALSE, listed |-> {}, configured |-> {}]
    OBVIOUS
  <2> HIDE DEF new
  <2>3. /\ \A c \in DOMAIN pools : c \in DOMAIN pools' /\ pools'[c] = pools[c]
        /\ \A c \in DOMAIN pools' : c \in DOMAIN pools \/ (c = NewAddress /\ pools'[c] = new)
        /\ NewAddress \in DOMAIN pools'
    <3>1. /\ DOMAIN pools' = DOMAIN pools \cup {NewAddress} /\ pools'[NewAddress] = new
          /\ \A k \in DOMAIN pools : k # NewAddress => pools'[k] = pools[k]
      BY <2>1 DEF Put
    <3> QED
      BY <1>1, <3>1
  <2> QED
    BY <1>2, <2>2, <2>3
<1>3. CASE Now.op = "upgrade" /\ Now.arg # "LendingPool"
  <2>1. pools' = pools
    BY <1>3, Effects
  <2> QED
    BY <1>3, <2>1
<1>4. CASE Now.op = "pause"
  <2>1. pools' = [pools EXCEPT ![PoolOf(local["LendingPoolConfigurator"])].paused = Now.arg]
    BY <1>4, Effects
  <2> QED
    BY <1>4, <2>1
<1>5. CASE Now.op \notin {"upgrade", "pause"}
  <2>1. pools' = pools
    BY <1>5, Effects
  <2> QED
    BY <1>5, <2>1
<1> QED
  BY <1>2, <1>3, <1>4, <1>5

(* What a turn of a loop leaves alone.                                      *)
LEMMA FrameLoops ==
  ASSUME OnChain, Loops
  PROVE  /\ UNCHANGED <<contracts, granted, sources, registered, db, finished, interrupted>>
         /\ DOMAIN slots' = DOMAIN slots /\ \A p \in DOMAIN slots : DOMAIN slots'[p] = Slots
         /\ \A p \in DOMAIN slots, s \in Slots :
              \/ slots'[p][s] = slots[p][s]
              \/ /\ p = Provider /\ s = "PoolAdmin" /\ Now.op = "configure"
                 /\ slots'[p][s] = local["ATokensAndRatesHelper"]
         /\ DOMAIN pools' = DOMAIN pools
         /\ \A c \in DOMAIN pools :
              \/ pools'[c] = pools[c]
              \/ Now.op = "list" /\ c = PoolOf(local["LendingPoolConfigurator"])
              \/ Now.op = "configure" /\ c = slots[Provider]["LendingPool"]
         /\ \A v : v # "tokens" =>
              /\ v \in DOMAIN local' <=> v \in DOMAIN local
              /\ v \in DOMAIN local => local'[v] = local[v]
<1>1. \A p \in DOMAIN slots : DOMAIN slots[p] = Slots
  BY DEF OnChain
<1>2. UNCHANGED <<contracts, granted, sources, registered, db, finished, interrupted>>
  BY LoopEffects, StepsWork
<1>3. CASE Now.op = "list"
  <2>1. slots' = slots /\ local' = local /\ \E y : pools' = [pools EXCEPT ![PoolOf(local["LendingPoolConfigurator"])] = y]
    BY <1>3, LoopEffects
  <2> QED
    BY <1>1, <1>2, <1>3, <2>1
<1>4. CASE Now.op = "configure" /\ ~Taken
  <2>1. /\ pools' = pools
        /\ slots' = [slots EXCEPT ![Provider]["PoolAdmin"] = local["ATokensAndRatesHelper"]]
        /\ local' = Put(local, "tokens", Unconfigured(target))
    BY <1>4, LoopEffects
  <2>2. \A v : v # "tokens" => /\ v \in DOMAIN local' <=> v \in DOMAIN local
                               /\ v \in DOMAIN local => local'[v] = local[v]
    BY <2>1 DEF Put
  <2> QED
    BY <1>1, <1>2, <1>4, <2>1, <2>2
<1>5. CASE Now.op = "configure" /\ Taken
  <2>1. slots' = slots /\ \E y : pools' = [pools EXCEPT ![slots[Provider]["LendingPool"]] = y]
    BY <1>5, LoopEffects
  <2>2. \E y : local' = Put(local, "tokens", y)
    BY <1>5, LoopEffects
  <2>3. \A v : v # "tokens" => /\ v \in DOMAIN local' <=> v \in DOMAIN local
                               /\ v \in DOMAIN local => local'[v] = local[v]
    <3>1. PICK y : local' = Put(local, "tokens", y)
      BY <2>2
    <3> QED
      BY <3>1 DEF Put
  <2> QED
    BY <1>1, <1>2, <1>5, <2>1, <2>3
<1> QED
  BY <1>3, <1>4, <1>5, LoopEffects

LEMMA ChainMoves == OnTrack /\ OnChain /\ Moves => OnChain'
<1> SUFFICES ASSUME OnTrack, OnChain, Moves PROVE OnChain'
  OBVIOUS
<1>1. /\ Program(contracts') /\ Len(contracts) \in Nat /\ Len(contracts') \in Nat
      /\ NewAddress = Len(contracts) + 1
      /\ \A i \in 1 .. Len(contracts) : i \in 1 .. Len(contracts') /\ contracts'[i] = contracts[i]
      /\ Made => Len(contracts') = NewAddress /\ contracts'[NewAddress].kind = Now.arg
  BY FrameContracts
<1>2. \A i \in DOMAIN Accounts : i \in 1 .. Len(contracts') /\ contracts'[i].kind = Accounts[i]
  BY <1>1 DEF OnChain
<1>3. DOMAIN pools' \subseteq 1 .. Len(contracts')
  BY <1>1, FramePools DEF OnChain, Made
<1>4. Now.op = "write" => Now.arg # "LendingPool"
  BY NowFits DEF Regular, Proxies
<1>5. ASSUME NEW p \in DOMAIN slots, slots'[p]["LendingPool"] # 0
      PROVE  \/ slots'[p]["LendingPool"] = slots[p]["LendingPool"]
             \/ /\ p = Provider /\ slots'[p]["LendingPool"] = NewAddress
                /\ NewAddress \in DOMAIN pools' /\ NewAddress \notin DOMAIN pools
  <2>1. "LendingPool" \in Slots
    BY DEF Slots
  <2>2. \/ slots'[p]["LendingPool"] = slots[p]["LendingPool"]
        \/ p = Provider /\ Now.op = "upgrade" /\ Now.arg = "LendingPool" /\ slots'[p]["LendingPool"] = NewAddress
    BY <1>4, <2>1, FrameSlots
  <2>3. NewAddress \notin DOMAIN pools
    BY <1>1 DEF OnChain
  <2> QED
    BY <2>2, <2>3, FramePools
<1>6. ASSUME NEW p \in DOMAIN slots', slots'[p]["LendingPool"] # 0 PROVE p \in DOMAIN slots
  <2>1. "LendingPool" \in Slots
    BY DEF Slots
  <2> QED
    BY <1>6, <2>1, FrameSlots
<1>7. ASSUME NEW p \in DOMAIN slots'
      PROVE  /\ p \in 1 .. Len(contracts') /\ contracts'[p].kind = provider /\ DOMAIN slots'[p] = Slots
             /\ slots'[p]["LendingPool"] # 0 => slots'[p]["LendingPool"] \in DOMAIN pools'
  <2>1. CASE p \in DOMAIN slots
    <3>1. /\ p \in 1 .. Len(contracts) /\ contracts[p].kind = provider
          /\ slots[p]["LendingPool"] # 0 => slots[p]["LendingPool"] \in DOMAIN pools
      BY <2>1 DEF OnChain
    <3>2. DOMAIN slots'[p] = Slots
      BY <2>1, FrameSlots
    <3>3. \A c \in DOMAIN pools : c \in DOMAIN pools'
      BY FramePools
    <3>4. p \in 1 .. Len(contracts') /\ contracts'[p].kind = provider
      BY <1>1, <3>1
    <3>5. slots'[p]["LendingPool"] # 0 => slots'[p]["LendingPool"] \in DOMAIN pools'
      BY <1>5, <2>1, <3>1, <3>3
    <3> QED
      BY <3>2, <3>4, <3>5
  <2>2. CASE p \notin DOMAIN slots
    <3>1. p = NewAddress /\ Now.op = "mine" /\ Now.arg = provider /\ slots'[p] = [s \in Slots |-> 0]
      BY <2>2, FrameSlots
    <3>2. Made
      BY <3>1 DEF Made
    <3>3. slots'[p]["LendingPool"] = 0 /\ DOMAIN slots'[p] = Slots
      BY <3>1 DEF Slots
    <3> QED
      BY <1>1, <3>1, <3>2, <3>3
  <2> QED
    BY <2>1, <2>2
<1>8. ASSUME NEW p \in DOMAIN slots', NEW q \in DOMAIN slots', slots'[p]["LendingPool"] # 0,
             slots'[p]["LendingPool"] = slots'[q]["LendingPool"]
      PROVE  p = q
  <2>1. p \in DOMAIN slots /\ q \in DOMAIN slots
    BY <1>6, <1>8
  <2>2. \A x \in DOMAIN slots : slots[x]["LendingPool"] # 0 => slots[x]["LendingPool"] \in DOMAIN pools
    BY DEF OnChain
  <2>3. slots[p]["LendingPool"] # 0 /\ slots[p]["LendingPool"] = slots[q]["LendingPool"] => p = q
    BY <2>1 DEF OnChain
  <2> QED
    BY <1>5, <1>8, <2>1, <2>2, <2>3
<1> QED
  BY <1>1, <1>2, <1>3, <1>7, <1>8 DEF OnChain

LEMMA ChainLoops == OnChain /\ Loops => OnChain'
<1> SUFFICES ASSUME OnChain, Loops PROVE OnChain'
  OBVIOUS
<1>1. "LendingPool" \in Slots
  BY DEF Slots
<1>2. /\ contracts' = contracts /\ DOMAIN slots' = DOMAIN slots /\ DOMAIN pools' = DOMAIN pools
      /\ \A p \in DOMAIN slots :
           DOMAIN slots'[p] = Slots /\ slots'[p]["LendingPool"] = slots[p]["LendingPool"]
  BY <1>1, FrameLoops
<1> QED
  BY <1>2 DEF OnChain

LEMMA ChainTurns == OnTrack /\ OnChain /\ Turns => OnChain'
BY TurnKinds DEF OnChain

LEMMA TrackInit == Init => OnTrack
BY DEF Init, OnTrack, Begun

LEMMA ChainInit == Init => OnChain
<1> SUFFICES ASSUME Init PROVE OnChain
  OBVIOUS
<1>1. contracts = [a \in DOMAIN Accounts |-> [kind |-> Accounts[a], uses |-> {}]]
      /\ DOMAIN slots = {} /\ DOMAIN pools = {}
  BY DEF Init
<1>2. DOMAIN Accounts = 1 .. 10
  BY DEF Accounts
<1>3. contracts \in Seq({contracts[i] : i \in 1 .. 10}) /\ Len(contracts) = 10
  BY <1>1, <1>2
<1>4. Program(contracts)
  BY <1>3, Sequence
<1>5. \A i \in DOMAIN Accounts : i \in 1 .. Len(contracts) /\ contracts[i].kind = Accounts[i]
  BY <1>1, <1>2, <1>3
<1> QED
  BY <1>1, <1>4, <1>5 DEF OnChain

-----------------------------------------------------------------------------
(* A migration that has come to its end has run every task of a market.     *)
LEMMA AtEnd ==
  ASSUME OnTrack, status # "idle", task = Len(Programs[target])
  PROVE  Market /\ At \in Int /\ At >= 6
<1>1. target \in Targets /\ (Dev(target) => At <= 3) /\ At = Rank(target, task)
  BY DEF OnTrack, Begun, At
<1>2. /\ Rank(target, task) >= 5 /\ (~Dev(target) => Rank(target, task) >= 6)
      /\ Rank(target, task) \in Int
  BY <1>1, Courses
<1> QED
  BY <1>1, <1>2 DEF Market

(* Where the script works with a provider, it has assigned it.              *)
LEMMA ProviderAssigned ==
  ASSUME OnTrack, Locals, Moves \/ Loops,
         Now.op \in {"write", "upgrade", "register", "list", "configure"}
  PROVE  provider \in DOMAIN local
<1>1. /\ Live /\ Done \in Nat /\ Done + 1 \in 1 .. Len(Task) /\ Now = Task[Done + 1] /\ At \in Int
      /\ Len(Task) \in Nat
  BY Standing
<1>2. \A i \in 1 .. Done : Assigns(Task[i], provider) => provider \in DOMAIN local
  BY <1>1 DEF Locals, Assigns
<1>3. ASSUME Task[1] = Load(provider, provider)[1] PROVE provider \in DOMAIN local
  <2>1. Task[1].op = "load" /\ Assigns(Task[1], provider)
    BY <1>3 DEF Load, Assigns, Assigning
  <2>2. Done # 0
    BY <1>1, <2>1
  <2> QED
    BY <1>1, <1>2, <2>1, <2>2
<1>4. CASE At <= 0 \/ (Market /\ At = 5)
  BY <1>4, NowFits DEF Fit, Acting
<1>5. CASE At = 1
  <2>1. Task[1] = Mine(provider, provider, {})[1] /\ Task[2] = Save(provider, provider)[1]
    BY <1>5, AtHand DEF Opening
  <2>2. Assigns(Task[1], provider)
    BY <2>1 DEF Mine, Assigns, Assigning
  <2>3. Done # 0
    BY <1>1, <2>1 DEF Mine
  <2> QED
    BY <1>1, <1>2, <2>2, <2>3
<1>6. CASE At = 2
  BY <1>3, <1>6, AtHand DEF PoolTask, DevPoolTask
<1>7. CASE At = 3
  <2>1. CASE Market
    <3>1. OraclesTask(Task, target)
      BY <1>7, <2>1, AtHand
    <3>2. Now.op = "write" => Done + 1 > Len(Task) - 2
      BY <1>1, <3>1 DEF OraclesTask
    <3>3. Now.op = "write"
      <4>1. Fit(Now, {"upgrade", "register", "pause", "list", "configure"}, Named, {})
        BY <1>1, <3>1, TaskFits
      <4> QED
        BY <4>1 DEF Fit
    <3>4. PICK i \in 1 .. Len(Task) - 3 : Assigns(Task[i], provider)
      BY <3>1 DEF OraclesTask
    <3> QED
      BY <1>1, <1>2, <3>2, <3>3, <3>4
  <2>2. CASE ~Market
    BY <1>7, <2>2, NowFits DEF Fit, Acting
  <2> QED
    BY <2>1, <2>2
<1>8. CASE At = 4
  <2>1. DataTask(Task)
    BY <1>8, AtHand
  <2> QED
    BY <1>3, <2>1 DEF DataTask
<1>9. CASE At = 6
  <2>1. InitTask(Task, target)
    BY <1>9, AtHand
  <2> QED
    BY <1>3, <2>1 DEF InitTask
<1>10. CASE At > 6
  <2>1. CASE Aside(Task)
    <3>1. Fit(Now, Acting, {"save"} \X Keys, {provider})
      BY <1>1, <2>1, ProgramLen DEF Aside, Part
    <3> QED
      BY <3>1 DEF Fit, Acting
  <2>2. CASE OpenPool(Task, target)
    <3> DEFINE y == SetPoolPause(FALSE, getEmergencyAdmin(target))[1]
               x == Load("LendingPoolConfigurator", "LendingPoolConfigurator")[1]
    <3>1. Len(Task) = 2 /\ Task[1] = x /\ Task[2] = y
      BY <2>2 DEF OpenPool
    <3>2. x.op = "load" /\ y.op = "pause"
      BY DEF Load, SetPoolPause
    <3> HIDE DEF x, y
    <3> QED
      BY <1>1, <3>1, <3>2
  <2> QED
    BY <1>10, <2>1, <2>2, AtHand, Standing
<1> QED
  BY <1>4, <1>5, <1>6, <1>7, <1>8, <1>9, <1>10, AtHand, Standing, NowFits DEF Fit, Acting

LEMMA LocalsMoves == OnTrack /\ OnChain /\ Locals /\ Moves => Locals'
<1> SUFFICES ASSUME OnTrack, OnChain, Locals, Moves PROVE Locals'
  OBVIOUS
<1>1. /\ Live /\ Done \in Nat /\ Done' = Done + 1 /\ Task' = Task /\ Now = Task[Done + 1]
  BY Position
<1>2. ASSUME NEW i \in 1 .. Done', Task[i].op \in Assigning PROVE Task[i].var \in DOMAIN local'
  <2>1. CASE i \in 1 .. Done
    <3>1. Task[i].var \in DOMAIN local
      BY <1>1, <1>2, <2>1 DEF Locals
    <3> QED
      BY <3>1, FrameJson
  <2>2. CASE i = Done + 1
    BY <1>1, <1>2, <2>2, FrameJson
  <2> QED
    BY <1>1, <2>1, <2>2
<1>3. ASSUME NEW v \in Impls \cap DOMAIN local'
      PROVE  local'[v] \in 1 .. Len(contracts') /\ contracts'[local'[v]].kind = v
  <2>1. CASE ~Assigns(Now, v)
    <3>1. v \in DOMAIN local /\ local'[v] = local[v]
      BY <1>3, <2>1, FrameJson
    <3>2. local[v] \in 1 .. Len(contracts) /\ contracts[local[v]].kind = v
      BY <1>1, <3>1 DEF Locals
    <3> QED
      BY <3>1, <3>2, FrameContracts
  <2>2. CASE Assigns(Now, v)
    <3>1. \/ Now.op = "mine" /\ Now.arg = v
          \/ Now.op = "take" /\ Now.arg \in DOMAIN Accounts /\ Accounts[Now.arg] = v
      BY <2>2, NowFits DEF Regular, Assigns
    <3>2. CASE Now.op = "mine" /\ Now.arg = v
      <4>1. local'[v] = NewAddress
        BY <2>2, <3>2, FrameJson DEF Assigns
      <4> QED
        BY <3>2, <4>1, FrameContracts DEF Made
    <3>3. CASE Now.op = "take" /\ Now.arg \in DOMAIN Accounts /\ Accounts[Now.arg] = v
      <4>1. local'[v] = Now.arg
        BY <2>2, <3>3, FrameJson DEF Assigns
      <4>2. Now.arg \in 1 .. Len(contracts) /\ contracts[Now.arg].kind = v
        BY <3>3 DEF OnChain
      <4> QED
        BY <4>1, <4>2, FrameContracts
    <3> QED
      BY <3>1, <3>2, <3>3
  <2> QED
    BY <2>1, <2>2
<1> QED
  BY <1>1, <1>2, <1>3 DEF Locals

LEMMA LocalsLoops == OnTrack /\ OnChain /\ Locals /\ Loops => Locals'
<1> SUFFICES ASSUME OnTrack, OnChain, Locals, Loops PROVE Locals'
  OBVIOUS
<1>1. /\ Live /\ Task' = Task /\ Done' = Done /\ contracts' = contracts
      /\ \A v : v # "tokens" =>
           /\ v \in DOMAIN local' <=> v \in DOMAIN local
           /\ v \in DOMAIN local => local'[v] = local[v]
  BY Standing, LoopPosition, FrameLoops
<1>2. \A v \in DOMAIN local : v \in DOMAIN local'
  BY LoopEffects DEF Put
<1>3. "tokens" \notin Impls
  BY DEF Impls
<1> QED
  BY <1>1, <1>2, <1>3 DEF Locals

LEMMA LocalsTurns == OnTrack /\ Locals /\ Turns => Locals'
<1> SUFFICES ASSUME OnTrack, Turns, Live' PROVE Locals'
  BY DEF Locals
<1>1. Done' = 0 /\ local' = <<>>
  BY TurnPosition
<1> QED
  BY <1>1 DEF Locals

LEMMA LocalsInit == Init => Locals
BY DEF Init, Locals, Live

(* Only the task that deploys a provider assigns another than the json's.   *)
LEMMA ProviderSteps ==
  ASSUME OnTrack, Moves
  PROVE  /\ Assigns(Now, provider) => \/ At = 1 /\ Done = 0 /\ Now.op = "mine" /\ Now.arg = provider
                                      \/ At >= 2 /\ Now.op = "load" /\ Now.arg = provider
         /\ <<Now.op, Now.arg>> = <<"save", provider>> => At = 1 /\ Done = 1 /\ Now.var = provider
         /\ At = 1 /\ Done = 0 => Now.op = "mine" /\ Now.arg = provider /\ Now.var = provider
         /\ At = 1 /\ Done = 1 => Now.op = "save" /\ Now.arg = provider /\ Now.var = provider
         /\ At <= 1 => Now.op # "upgrade"
<1>1. Regular(Now) /\ Done \in Nat /\ At \in Int
  BY NowFits, Position
<1>2. CASE At <= 0
  BY <1>1, <1>2, NowFits DEF Fit, Acting, Keys, Assigns
<1>3. CASE At = 1
  <2>1. CASE Done = 0
    BY <1>1, <1>3, <2>1, NowFits DEF Mine
  <2>2. CASE Done = 1
    BY <1>1, <1>3, <2>2, NowFits DEF Save, Assigns, Assigning
  <2>3. CASE Done >= 2
    <3>1. Fit(Now, {"upgrade", "pause", "grant", "list", "configure"}, {<<"save", provider>>}, {provider})
      BY <1>1, <1>3, <2>3, NowFits
    <3> QED
      BY <1>1, <1>3, <2>3, <3>1 DEF Fit, Assigns
  <2> QED
    BY <1>1, <2>1, <2>2, <2>3
<1>4. CASE At >= 2
  <2>1. <<Now.op, Now.arg>> # <<"mine", provider>> /\ <<Now.op, Now.arg>> # <<"save", provider>>
    BY <1>1, <1>4, NowFits DEF Fit
  <2>2. Assigns(Now, provider) => Now.op = "load" /\ Now.arg = provider
    <3>1. Assigns(Now, provider) => Now.op = "mine" \/ Now.op = "load"
      BY <1>1 DEF Assigns, Assigning, Regular
    <3> QED
      BY <1>1, <2>1, <3>1 DEF Assigns, Regular
  <2> QED
    BY <1>1, <1>4, <2>1, <2>2
<1> QED
  BY <1>1, <1>2, <1>3, <1>4

LEMMA FreshStays ==
  ASSUME OnChain, Moves, finished' = finished, NEW p, Fresh(p)
  PROVE  p \in DOMAIN slots' /\ \A f \in finished' : f.provider # p
BY FrameSlots DEF Fresh

LEMMA ProviderMoves ==
  OnTrack /\ OnChain /\ Locals /\ ProviderInHand /\ ProviderEntered /\ Moves
    => ProviderInHand' /\ ProviderEntered'
<1> SUFFICES ASSUME OnTrack, OnChain, Locals, ProviderInHand, ProviderEntered, Moves
             PROVE  ProviderInHand' /\ ProviderEntered'
  OBVIOUS
<1>1. /\ Live /\ Begun /\ Begun' /\ Done \in Nat /\ Done' = Done + 1 /\ At' = At /\ At \in Int
      /\ finished' = finished /\ Task' = Task /\ Now = Task[Done + 1]
  BY Position
<1>2. /\ Past(1, 2)' <=> (At > 1 \/ (At = 1 /\ Done + 1 >= 2))
      /\ Past(1, 2) <=> (At > 1 \/ (At = 1 /\ Done >= 2))
  BY <1>1 DEF Past
<1>3. status # "finished"
  BY <1>1 DEF Live
<1>4. ASSUME NEW f \in finished PROVE f.provider \in DOMAIN slots' /\ f.provider # NewAddress
  <2>1. f.provider \in DOMAIN slots
    BY DEF ProviderEntered
  <2>2. f.provider \in 1 .. Len(contracts)
    BY <2>1 DEF OnChain
  <2> QED
    BY <2>1, <2>2, FrameSlots, FrameContracts
<1>5. CASE At = 1 /\ Done = 0
  <2>1. Now.op = "mine" /\ Now.arg = provider /\ Now.var = provider
    BY <1>5, ProviderSteps
  <2>2. local'[provider] = NewAddress
    BY <2>1, FrameJson
  <2>3. NewAddress \in DOMAIN slots' /\ NewAddress \notin DOMAIN slots
    BY <2>1, FrameSlots, FrameContracts DEF OnChain
  <2>4. slots'[NewAddress]["LendingPool"] = 0
    BY <2>3, FrameSlots DEF Slots
  <2>5. Fresh(local[provider])'
    BY <1>1, <1>4, <2>2, <2>3 DEF Fresh
  <2> QED
    BY <1>1, <1>2, <1>4, <1>5, <2>2, <2>4, <2>5 DEF ProviderInHand, ProviderEntered
<1>6. CASE At = 1 /\ Done = 1
  <2>1. Now.op = "save" /\ Now.arg = provider /\ Now.var = provider
    BY <1>6, ProviderSteps
  <2>2. provider \in DOMAIN local
    <3>1. 1 \in 1 .. Done /\ Opening(Task, target)
      BY <1>6, AtHand
    <3>2. Task[1].op \in Assigning /\ Task[1].var = provider
      BY <3>1 DEF Opening, Mine, Assigning
    <3> QED
      BY <1>1, <3>1, <3>2 DEF Locals
  <2>3. /\ provider \in DOMAIN db' /\ db'[provider] = local[provider]
        /\ local'[provider] = local[provider]
    BY <2>1, <2>2, FrameJson DEF Assigns, Assigning
  <2>4. Fresh(local[provider]) /\ slots[local[provider]]["LendingPool"] = 0
    BY <1>1, <1>6, <2>2 DEF ProviderInHand
  <2>5. local[provider] \in DOMAIN slots' /\ \A f \in finished' : f.provider # local[provider]
    BY <1>1, <2>4, FreshStays
  <2>6. slots'[local[provider]]["LendingPool"] = 0
    BY <2>1, <2>4, FrameSlots DEF Fresh, Slots
  <2>7. Fresh(local[provider])' /\ Fresh(db[provider])'
    BY <2>3, <2>5 DEF Fresh
  <2> QED
    BY <1>1, <1>4, <2>3, <2>5, <2>6, <2>7 DEF ProviderInHand, ProviderEntered
<1>7. CASE ~(At = 1 /\ Done <= 1)
  <2>1. Past(1, 2)' <=> Past(1, 2)
    BY <1>1, <1>2, <1>7
  <2>2. Past(1, 2) => /\ provider \in DOMAIN db' /\ db'[provider] = db[provider] /\ Fresh(db[provider])
                      /\ Fresh(db[provider])'
    <3> SUFFICES ASSUME Past(1, 2) PROVE /\ provider \in DOMAIN db' /\ db'[provider] = db[provider]
                                         /\ Fresh(db[provider]) /\ Fresh(db[provider])'
      OBVIOUS
    <3>1. provider \in DOMAIN db /\ Fresh(db[provider])
      BY <1>3 DEF ProviderEntered
    <3>2. provider \in DOMAIN db' /\ db'[provider] = db[provider]
      BY <1>7, <3>1, FrameJson, ProviderSteps
    <3>3. Fresh(db[provider])'
      BY <1>1, <3>1, <3>2, FreshStays DEF Fresh
    <3> QED
      BY <3>1, <3>2, <3>3
  <2>3. CASE Assigns(Now, provider)
    <3>1. At >= 2 /\ Now.op = "load" /\ Now.arg = provider /\ Past(1, 2)
      BY <1>1, <1>2, <1>7, <2>3, ProviderSteps
    <3>2. local'[provider] = db[provider]
      BY <2>3, <3>1, FrameJson DEF Assigns
    <3>3. Fresh(local[provider])'
      BY <2>2, <3>1, <3>2 DEF Fresh
    <3> QED
      BY <1>1, <1>4, <2>1, <2>2, <3>1, <3>2, <3>3 DEF ProviderInHand, ProviderEntered, Fresh
  <2>4. CASE ~Assigns(Now, provider)
    <3>1. ASSUME provider \in DOMAIN local'
          PROVE  /\ local'[provider] = local[provider] /\ Fresh(local[provider])
                 /\ Past(1, 2) => local[provider] = db[provider]
                 /\ At <= 1 => slots[local[provider]]["LendingPool"] = 0
      BY <1>1, <2>4, <3>1, FrameJson DEF ProviderInHand
    <3>2. ASSUME provider \in DOMAIN local' PROVE Fresh(local[provider])'
      BY <1>1, <3>1, <3>2, FreshStays DEF Fresh
    <3>3. ASSUME provider \in DOMAIN local', At <= 1 PROVE slots'[local[provider]]["LendingPool"] = 0
      <4>1. Now.op # "upgrade" /\ (Now.op = "write" => Now.arg # "LendingPool")
        BY <3>3, ProviderSteps, NowFits DEF Regular, Proxies
      <4> QED
        BY <3>1, <3>3, <4>1, FrameSlots DEF Fresh, Slots
    <3> QED
      BY <1>1, <1>4, <2>1, <2>2, <3>1, <3>2, <3>3 DEF ProviderInHand, ProviderEntered, Fresh
  <2> QED
    BY <2>3, <2>4
<1> QED
  BY <1>1, <1>5, <1>6, <1>7

LEMMA ProviderLoops ==
  OnTrack /\ OnChain /\ Locals /\ ProviderInHand /\ ProviderEntered /\ Loops
    => ProviderInHand' /\ ProviderEntered'
<1> SUFFICES ASSUME OnTrack, OnChain, Locals, ProviderInHand, ProviderEntered, Loops
             PROVE  ProviderInHand' /\ ProviderEntered'
  OBVIOUS
<1>1. /\ Live /\ Live' /\ Begun /\ Begun' /\ At' = At /\ Done' = Done /\ status' = status
  BY Standing, LoopPosition DEF Live
<1>2. Past(1, 2)' <=> Past(1, 2)
  BY <1>1 DEF Past
<1>3. provider # "tokens" /\ "LendingPool" \in Slots
  BY DEF provider, Slots
<1>4. /\ db' = db /\ finished' = finished /\ DOMAIN slots' = DOMAIN slots
      /\ provider \in DOMAIN local' <=> provider \in DOMAIN local
      /\ provider \in DOMAIN local => local'[provider] = local[provider]
      /\ \A p \in DOMAIN slots : slots'[p]["LendingPool"] = slots[p]["LendingPool"]
  BY <1>3, FrameLoops
<1> HIDE DEF Past
<1> QED
  BY <1>1, <1>2, <1>4 DEF ProviderInHand, ProviderEntered, Fresh

LEMMA ProviderTurns ==
  OnTrack /\ OnChain /\ Locals /\ ProviderInHand /\ ProviderEntered /\ Turns
    => ProviderInHand' /\ ProviderEntered'
<1> SUFFICES ASSUME OnTrack, OnChain, Locals, ProviderInHand, ProviderEntered, Turns
             PROVE  ProviderInHand' /\ ProviderEntered'
  OBVIOUS
<1>1. ProviderInHand'
  <2>1. Live' => local' = <<>>
    BY TurnPosition
  <2> QED
    BY <2>1 DEF ProviderInHand
<1>2. Past(1, 2)' => Past(1, 2)
  <2>1. At = 1 /\ Begun => 2 <= Len(Task)
    BY TurnPosition DEF Course, Opening
  <2> SUFFICES ASSUME Past(1, 2)' PROVE Past(1, 2)
    OBVIOUS
  <2>2. At' > 1 \/ (At' = 1 /\ Done' >= 2)
    BY DEF Past
  <2>3. CASE Begun
    <3>1. At = 1 => 2 <= Len(Task)
      BY <2>1, <2>3
    <3> QED
      BY <2>2, <3>1, TurnBack DEF Past
  <2>4. CASE ~Begun
    BY <2>2, <2>4, TurnPosition DEF Live, Begun
  <2> QED
    BY <2>3, <2>4
<1>3. UNCHANGED <<slots, db>>
  BY TurnKinds
<1>4. CASE Dies \/ GoesOn \/ Starts
  <2>1. finished' = finished
    BY <1>4 DEF Dies, GoesOn, Starts
  <2>2. status = "finished" => ~Past(1, 2)'
    <3> SUFFICES ASSUME status = "finished", Past(1, 2)' PROVE FALSE
      OBVIOUS
    <3>1. Live' /\ ~Live
      BY <1>4 DEF Dies, GoesOn, Starts, Live
    <3>2. Done' = 0 /\ At' <= 1
      BY <3>1, TurnPosition
    <3> QED
      BY <3>2, TurnPosition DEF Past
  <2> QED
    BY <1>1, <1>2, <1>3, <2>1, <2>2 DEF ProviderEntered, Fresh
<1>5. CASE Ends
  <2>1. Past(1, 2)
    BY <1>5, AtEnd DEF Ends, Live, Past, Begun
  <2>2. db[provider] \in DOMAIN slots /\ provider \in DOMAIN db
    BY <2>1 DEF ProviderEntered
  <2>3. \A f \in finished' : f \in finished \/ f = [provider |-> db[provider], target |-> target]
    BY <1>5 DEF Ends
  <2>4. \A f \in finished' : f.provider \in DOMAIN slots
    BY <2>2, <2>3 DEF ProviderEntered
  <2> QED
    BY <1>1, <1>3, <1>5, <2>2, <2>4 DEF ProviderEntered, Ends
<1> QED
  BY <1>4, <1>5, TurnKinds

LEMMA ProviderInit == Init => ProviderInHand /\ ProviderEntered
BY DEF Init, ProviderInHand, ProviderEntered, Live, Past, Begun

-----------------------------------------------------------------------------
(* Where a market's script takes the steps that count.                      *)
Step(n) == Done + 1 = n

ProxySteps ==
  /\ Now.op = "upgrade" =>
       /\ At = 2
       /\ \/ Step(PoolAt(target) - 2) /\ Now.arg = "LendingPool" /\ Now.var = "LendingPoolImpl"
          \/ /\ Step(ConfAt(target) - 2) /\ Now.arg = "LendingPoolConfigurator"
             /\ Now.var = "LendingPoolConfiguratorImpl"
  /\ Now.op = "pause" => \/ At = 2 /\ Done >= ConfAt(target)
                         \/ At > 6 /\ Step(2) /\ OpenPool(Task, target)
  /\ Now.op = "register" => At = 1
  /\ Now.op = "grant" => At = 3
  /\ Now.op = "list" => At = 6 /\ Step(10)
  /\ Now.op = "configure" => At = 6 /\ Step(13)

SaveSteps ==
  At >= 2 /\ Now.op = "save" =>
    /\ Now.arg = "LendingPool" => At = 2 /\ Done + 1 <= PoolAt(target)
    /\ Now.arg = "LendingPoolConfigurator" => At = 2 /\ Done + 1 <= ConfAt(target)
    /\ Now.arg = "ATokensAndRatesHelper" => At = 2 /\ Done + 1 <= HelperAt(target)
    /\ Now.arg = "AaveProtocolDataProvider" => At = 4 /\ Step(3)

WriteSteps ==
  At >= 2 /\ Now.op = "write" =>
    \/ At = 3 /\ Len(todo) = 2 /\ Now.arg = "PriceOracle" /\ Now.var = "AaveOracle"
    \/ At = 3 /\ Len(todo) = 1 /\ Now.arg = "LendingRateOracle" /\ Now.var = "LendingRateOracle"
    \/ At = 6 /\ Len(todo) = 5 /\ Now.arg = "LendingPoolCollateralManager"
       /\ Now.var = "LendingPoolCollateralManager"
    \/ At = 6 /\ Len(todo) = 3 /\ Now.arg = "0x01" /\ Now.var = "AaveProtocolDataProvider"

LEMMA MarketSteps ==
  ASSUME OnTrack, Moves \/ Loops, Market
  PROVE  ProxySteps /\ SaveSteps /\ WriteSteps
<1>1. /\ Done \in Nat /\ Done + 1 \in 1 .. Len(Task) /\ Now = Task[Done + 1] /\ At \in Int
      /\ Len(Task) \in Nat /\ Len(todo) = Len(Task) - Done
  BY Standing
<1>2. CASE Fit(Now, Acting, {"save"} \X Keys, {provider})
  <2>1. Now.op \notin Acting /\ <<Now.op, Now.arg>> \notin {"save"} \X Keys
    BY <1>2 DEF Fit
  <2> QED
    BY <2>1 DEF ProxySteps, SaveSteps, WriteSteps, Acting, Keys
<1>3. CASE At = 1
  BY <1>1, <1>3, NowFits DEF ProxySteps, SaveSteps, WriteSteps, Fit, Mine, Save
<1>4. CASE At = 2
  <2>1. PoolTask(Task, target)
    BY <1>4, AtHand
  <2>2. Fit(Now, {"write", "register", "grant", "list", "configure"},
            {<<"mine", provider>>, <<"save", provider>>, <<"save", "AaveProtocolDataProvider">>}, {})
    BY <1>1, <2>1, TaskFits
  <2>3. /\ Now.op = "upgrade" => Done + 1 \in {PoolAt(target) - 2, ConfAt(target) - 2}
        /\ Now.op = "pause" => Done + 1 > ConfAt(target)
        /\ Now.op = "save" /\ Now.arg = "LendingPool" => Done + 1 <= PoolAt(target)
        /\ Now.op = "save" /\ Now.arg = "LendingPoolConfigurator" => Done + 1 <= ConfAt(target)
        /\ Now.op = "save" /\ Now.arg = "ATokensAndRatesHelper" => Done + 1 <= HelperAt(target)
    BY <1>1, <2>1 DEF PoolTask, PoolAt, ConfAt, HelperAt
  <2>4. /\ Task[PoolAt(target) - 2] = Upgrade("LendingPool", "LendingPoolImpl")[1]
        /\ Task[ConfAt(target) - 2]
             = Upgrade("LendingPoolConfigurator", "LendingPoolConfiguratorImpl")[1]
        /\ ConfAt(target) \in Nat
    BY <2>1 DEF PoolTask, PoolAt, ConfAt
  <2>5. Now.op \notin {"write", "register", "grant", "list", "configure"}
        /\ <<Now.op, Now.arg>> # <<"save", "AaveProtocolDataProvider">>
    BY <2>2 DEF Fit
  <2>6. ProxySteps
    BY <1>1, <1>4, <2>3, <2>4, <2>5 DEF ProxySteps, Step, Upgrade
  <2> QED
    BY <1>1, <1>4, <2>3, <2>5, <2>6 DEF SaveSteps, WriteSteps
<1>5. CASE At = 3
  <2>1. OraclesTask(Task, target)
    BY <1>5, AtHand
  <2>2. Fit(Now, {"upgrade", "register", "pause", "list", "configure"}, Named, {})
    BY <1>1, <2>1, TaskFits
  <2>3. Now.op \notin {"upgrade", "register", "pause", "list", "configure"}
        /\ <<Now.op, Now.arg>> \notin Named
    BY <2>2 DEF Fit
  <2>4. /\ Now.op = "write" => Done + 1 > Len(Task) - 2
        /\ Task[Len(Task) - 1] = Write("PriceOracle", "AaveOracle")[1]
        /\ Task[Len(Task)] = Write("LendingRateOracle", "LendingRateOracle")[1]
    BY <1>1, <2>1 DEF OraclesTask
  <2>5. Now.op = "write" => Done + 1 = Len(Task) - 1 \/ Done + 1 = Len(Task)
    BY <1>1, <2>4
  <2>6. WriteSteps
    BY <1>1, <1>5, <2>4, <2>5 DEF WriteSteps, Write
  <2> QED
    BY <1>5, <2>3, <2>6 DEF ProxySteps, SaveSteps, Named, Keys
<1>6. CASE At = 4
  <2>1. DataTask(Task)
    BY <1>6, AtHand
  <2>2. \/ Step(1) /\ Now.op = "load"
        \/ Step(2) /\ Now.op = "mine"
        \/ Step(3) /\ Now.op = "save" /\ Now.arg = "AaveProtocolDataProvider"
    BY <1>1, <2>1 DEF DataTask, Load, Mine, Save, Step
  <2> QED
    BY <1>6, <2>2 DEF ProxySteps, SaveSteps, WriteSteps
<1>7. CASE At = 6
  <2>1. InitTask(Task, target)
    BY <1>7, AtHand
  <2>2. Fit(Now, {"upgrade", "register", "pause", "grant"}, Named, {})
    BY <1>1, <2>1, TaskFits
  <2>3. Now.op \notin {"upgrade", "register", "pause", "grant"} /\ <<Now.op, Now.arg>> \notin Named
    BY <2>2 DEF Fit
  <2>4. /\ Now.op = "list" => Done + 1 = 10
        /\ Now.op = "configure" => Done + 1 = 13
        /\ Now.op = "write" => Done + 1 = Len(Task) - 4 \/ Done + 1 = Len(Task) - 2
        /\ Task[Len(Task) - 4]
             = Write("LendingPoolCollateralManager", "LendingPoolCollateralManager")[1]
        /\ Task[Len(Task) - 2] = Write("0x01", "AaveProtocolDataProvider")[1]
    BY <1>1, <2>1 DEF InitTask
  <2>5. WriteSteps
    BY <1>1, <1>7, <2>4 DEF WriteSteps, Write
  <2> QED
    BY <1>7, <2>3, <2>4, <2>5 DEF ProxySteps, SaveSteps, Named, Keys, Step
<1>8. CASE At > 6
  <2>1. CASE Aside(Task)
    <3>1. Fit(Now, Acting, {"save"} \X Keys, {provider})
      BY <1>1, <2>1, ProgramLen DEF Aside, Part
    <3> QED
      BY <1>2, <3>1
  <2>2. CASE OpenPool(Task, target)
    <3> DEFINE y == SetPoolPause(FALSE, getEmergencyAdmin(target))[1]
               x == Load("LendingPoolConfigurator", "LendingPoolConfigurator")[1]
    <3>1. Len(Task) = 2 /\ Task[1] = x /\ Task[2] = y
      BY <2>2 DEF OpenPool
    <3>2. x.op = "load" /\ y.op = "pause"
      BY DEF Load, SetPoolPause
    <3> HIDE DEF x, y
    <3>3. (Step(1) /\ Now.op = "load") \/ (Step(2) /\ Now.op = "pause")
      BY <1>1, <3>1, <3>2 DEF Step
    <3> QED
      BY <1>8, <2>2, <3>3 DEF ProxySteps, SaveSteps, WriteSteps
  <2> QED
    BY <1>1, <1>8, <2>1, <2>2, AtHand
<1> QED
  BY <1>1, <1>2, <1>3, <1>4, <1>5, <1>6, <1>7, <1>8, AtHand, NowFits

(* The steps of a market's pool task that are looked at.                    *)
LEMMA PoolSteps ==
  ASSUME OnTrack, Begun, Market, At = 2
  PROVE  /\ PoolTask(Task, target) /\ Task[1] = Load(provider, provider)[1]
         /\ PoolAt(target) \in Nat /\ ConfAt(target) \in Nat /\ HelperAt(target) \in Nat
         /\ 4 <= PoolAt(target) /\ PoolAt(target) + 4 <= ConfAt(target)
         /\ ConfAt(target) + 2 <= HelperAt(target) /\ HelperAt(target) + 1 <= Len(Task)
         /\ Len(Task) \in Nat
<1>1. Course(target, At, Task) /\ Len(Task) \in Nat
  BY Courses, ProgramLen DEF OnTrack, At, Task, Course
<1>2. PoolTask(Task, target)
  BY <1>1 DEF Course, Market
<1>3. /\ PoolAt(target) \in 4 .. ConfAt(target) - 4 /\ ConfAt(target) \in 1 .. HelperAt(target) - 2
      /\ HelperAt(target) \in 1 .. Len(Task) - 1 /\ Task[1] = Load(provider, provider)[1]
  BY <1>2 DEF PoolTask, PoolAt, ConfAt, HelperAt
<1>4. HelperAt(target) \in Nat /\ HelperAt(target) + 1 <= Len(Task)
  BY <1>1, <1>3
<1>5. ConfAt(target) \in Nat /\ ConfAt(target) + 2 <= HelperAt(target)
  BY <1>3, <1>4
<1>6. PoolAt(target) \in Nat /\ 4 <= PoolAt(target) /\ PoolAt(target) + 4 <= ConfAt(target)
  BY <1>3, <1>5
<1> QED
  BY <1>1, <1>2, <1>3, <1>4, <1>5, <1>6

Core == OnTrack /\ OnChain /\ Locals /\ ProviderInHand /\ ProviderEntered

LEMMA CoreNext == Core /\ (Moves \/ Loops \/ Turns) => Core'
BY TrackMoves, TrackTurns, ChainMoves, ChainTurns, LocalsMoves, LocalsTurns, ProviderMoves,
   ProviderTurns, LoopPosition, ChainLoops, LocalsLoops, ProviderLoops DEF Core

(* The provider the script works with is the json's, once that is entered.  *)
LEMMA AtHome ==
  ASSUME Core, Moves, Past(1, 2)
  PROVE  /\ Past(1, 2)' /\ provider \in DOMAIN db /\ provider \in DOMAIN db'
         /\ db'[provider] = db[provider] /\ db[provider] \in DOMAIN slots
         /\ db[provider] \in DOMAIN slots' /\ Fresh(db[provider])
         /\ Home' = slots'[db[provider]]
         /\ Now.op \in {"write", "upgrade", "register", "list", "configure"} => Provider = db[provider]
         /\ \A s \in Slots :
              \/ Home'[s] = Home[s] /\ ~(Now.op = "write" /\ Now.arg = s)
              \/ Now.op = "write" /\ Now.arg = s /\ Home'[s] = local[Now.var]
              \/ Now.op = "upgrade" /\ Now.arg = s /\ Home'[s] = NewAddress /\ Home[s] = 0
              \/ Now.op = "configure" /\ Taken /\ s = "PoolAdmin"
         /\ Now.op = "configure" /\ Taken => Home'["PoolAdmin"] = local["PoolAdmin"]
         /\ Now.op = "upgrade" /\ Now.arg \in Slots =>
              Home'[Now.arg] = NewAddress /\ Home[Now.arg] = 0
         /\ \A x : Names(x) => x \in 1 .. Len(contracts') /\ db[provider] \in contracts'[x].uses
<1>1. /\ Live /\ Begun /\ Begun' /\ Done \in Nat /\ Done' = Done + 1 /\ At' = At /\ At \in Int
  BY Position DEF Core
<1>2. At > 1 \/ (At = 1 /\ Done >= 2)
  BY DEF Past
<1>3. Past(1, 2)'
  BY <1>1, <1>2 DEF Past
<1>4. provider \in DOMAIN db /\ Fresh(db[provider]) /\ db[provider] \in DOMAIN slots
  BY <1>1 DEF Core, ProviderEntered, Live
<1>5. provider \in DOMAIN db' /\ db'[provider] = db[provider]
  BY <1>1, <1>2, <1>4, FrameJson, ProviderSteps DEF Core
<1>6. Now.op \in {"write", "upgrade", "register", "list", "configure"} => Provider = db[provider]
  BY <1>1, ProviderAssigned DEF Core, ProviderInHand, Provider
<1>7. Home' = slots'[db[provider]]
  BY <1>5 DEF Home
<1>8. ASSUME NEW s \in Slots
      PROVE  \/ Home'[s] = Home[s] /\ ~(Now.op = "write" /\ Now.arg = s)
             \/ Now.op = "write" /\ Now.arg = s /\ Home'[s] = local[Now.var]
             \/ Now.op = "upgrade" /\ Now.arg = s /\ Home'[s] = NewAddress /\ Home[s] = 0
             \/ Now.op = "configure" /\ Taken /\ s = "PoolAdmin"
  <2>1. CASE Now.op = "write" /\ Now.arg = s
    BY <1>4, <1>6, <1>7, <2>1, FrameSlots DEF Core
  <2>2. CASE ~(Now.op = "write" /\ Now.arg = s)
    BY <1>4, <1>7, <2>2, FrameSlots DEF Core, Home
  <2> QED
    BY <2>1, <2>2
<1>9. Now.op = "upgrade" /\ Now.arg \in Slots => Home'[Now.arg] = NewAddress /\ Home[Now.arg] = 0
  BY <1>4, <1>6, <1>7, FrameSlots DEF Core, Home
<1>10. \A x : Names(x) => x \in 1 .. Len(contracts') /\ db[provider] \in contracts'[x].uses
  BY FrameContracts DEF Core, Names
<1>11. db[provider] \in DOMAIN slots'
  BY <1>4, FrameSlots DEF Core
<1>12. Now.op = "configure" /\ Taken => Home'["PoolAdmin"] = local["PoolAdmin"]
  BY <1>4, <1>6, <1>7, FrameSlots DEF Core
<1> QED
  BY <1>3, <1>4, <1>5, <1>6, <1>7, <1>8, <1>9, <1>10, <1>11, <1>12

(* The loops are those of the sixth task of a market, and work for its      *)
(* provider.                                                                *)
LEMMA LoopPlace ==
  ASSUME Core, Loops
  PROVE  /\ Live /\ Live' /\ Begun /\ Begun' /\ Market /\ Market' /\ At = 6 /\ At' = 6
         /\ target' = target /\ Task' = Task /\ todo' = todo /\ Now' = Now
         /\ Done \in Nat /\ Done' = Done /\ Len(todo) \in Nat /\ Len(todo) > 5
         /\ Now.op = "list" => Done = 9
         /\ Now.op = "configure" => Done = 12
         /\ InitTask(Task, target) /\ Past(1, 2)
         /\ provider \in DOMAIN local /\ Provider = db[provider] /\ Fresh(db[provider])
<1>1. /\ Live /\ Live' /\ Begun /\ Begun' /\ At' = At /\ At \in Int /\ target' = target /\ Task' = Task
      /\ Done \in Nat /\ Len(Task) \in Nat /\ Len(todo) = Len(Task) - Done
      /\ Done + 1 \in 1 .. Len(Task) /\ Now = Task[Done + 1]
  BY Standing DEF Core
<1>2. todo' = todo /\ Now' = Now /\ Done' = Done /\ Now.op \in {"list", "configure"}
  BY LoopPosition DEF Core
<1>3. Market
  <2> SUFFICES ASSUME ~Market PROVE FALSE
    OBVIOUS
  <2>1. At <= 0 \/ At = 1 \/ At = 2 \/ At = 3
    BY <1>1, AtHand DEF Core
  <2> QED
    BY <1>1, <1>2, <2>1, NowFits DEF Core, Fit, Acting, Mine, Save
<1>4. ProxySteps
  BY <1>3, MarketSteps DEF Core
<1>5. /\ At = 6 /\ (Now.op = "list" => Done = 9) /\ (Now.op = "configure" => Done = 12)
  BY <1>1, <1>2, <1>4 DEF ProxySteps, Step
<1>6. InitTask(Task, target)
  BY <1>3, <1>5, AtHand DEF Core
<1>7. Len(todo) > 5
  <2>1. Len(Task) >= 19
    BY <1>6 DEF InitTask
  <2> QED
    BY <1>1, <1>2, <1>5, <2>1
<1>8. Past(1, 2) /\ Market'
  BY <1>1, <1>3, <1>5 DEF Past, Market
<1>9. provider \in DOMAIN local /\ Provider = db[provider] /\ Fresh(db[provider])
  BY <1>1, <1>2, <1>8, ProviderAssigned DEF Core, ProviderInHand, Provider
<1> QED
  BY <1>1, <1>2, <1>3, <1>5, <1>6, <1>7, <1>8, <1>9

LEMMA LoopHome ==
  ASSUME Core, Loops
  PROVE  /\ UNCHANGED <<contracts, granted, sources, registered, db, finished, interrupted>>
         /\ Home' = slots'[db[provider]] /\ DOMAIN slots' = DOMAIN slots
         /\ \A s \in Slots : s # "PoolAdmin" => Home'[s] = Home[s]
         /\ \A p \in DOMAIN slots : p # db[provider] => slots'[p] = slots[p]
         /\ Home'["PoolAdmin"] = Home["PoolAdmin"]
            \/ (Now.op = "configure" /\ Home'["PoolAdmin"] = local["ATokensAndRatesHelper"])
<1>1. UNCHANGED <<contracts, granted, sources, registered, db, finished, interrupted>>
      /\ DOMAIN slots' = DOMAIN slots
  BY FrameLoops DEF Core
<1>2. Provider = db[provider] /\ db[provider] \in DOMAIN slots
  BY LoopPlace DEF Fresh
<1>3. Home' = slots'[db[provider]]
  BY <1>1 DEF Home
<1>4. \A s \in Slots : s # "PoolAdmin" => Home'[s] = Home[s]
  BY <1>2, <1>3, FrameLoops DEF Core, Home
<1>5. \A p \in DOMAIN slots : p # db[provider] => slots'[p] = slots[p]
  BY <1>2, LoopEffects
<1>6. Home'["PoolAdmin"] = Home["PoolAdmin"]
      \/ (Now.op = "configure" /\ Home'["PoolAdmin"] = local["ATokensAndRatesHelper"])
  <2>1. "PoolAdmin" \in Slots
    BY DEF Slots
  <2> QED
    BY <1>2, <1>3, <2>1, FrameLoops DEF Core, Home
<1> QED
  BY <1>1, <1>3, <1>4, <1>5, <1>6

LEMMA PastBack ==
  ASSUME OnTrack, Turns, NEW r \in Nat \ {0}, NEW d \in Nat \ {0},
         Begun /\ At = r => d <= Len(Task),
         At' > r \/ (At' = r /\ Done' >= d)
  PROVE  Past(r, d) /\ target' = target
<1>1. CASE Begun
  <2>1. At = r => d <= Len(Task)
    BY <1>1
  <2>2. r \in Nat /\ r >= 1
    OBVIOUS
  <2> QED
    BY <2>1, <2>2, TurnBack DEF Past
<1>2. CASE ~Begun
  <2>1. ~Live /\ Live' /\ At' <= 1 /\ Done' = 0
    BY <1>2, TurnPosition DEF Live, Begun
  <2> QED
    BY <2>1, TurnPosition
<1> QED
  BY <1>1, <1>2

LEMMA EndingBack ==
  ASSUME OnTrack, Turns, NEW r \in Nat \ {0}, NEW n \in Nat, At' = r => n < Len(Task'),
         At' > r \/ (At' = r /\ Len(todo') <= n)
  PROVE  Ending(r, n) /\ target' = target
<1>1. r \in Nat /\ r >= 1
  OBVIOUS
<1> QED
  BY <1>1, TurnBackEnding DEF Ending

(* What a market's pool task reads and makes, of the json's provider.       *)
LEMMA InPoolTask ==
  ASSUME Core, Moves, Market, At = 2, Done >= 1
  PROVE  /\ Past(1, 2) /\ provider \in DOMAIN local /\ local[provider] = db[provider]
         /\ Now.op = "read" => Now.var \in DOMAIN local' /\ local'[Now.var] = Home[Now.arg]
<1>1. Live /\ Begun /\ Done \in Nat /\ Task[1] = Load(provider, provider)[1]
  BY Position, PoolSteps DEF Core
<1>2. Past(1, 2)
  BY <1>1 DEF Past
<1>3. 1 \in 1 .. Done /\ Task[1].op \in Assigning /\ Task[1].var = provider
  BY <1>1 DEF Load, Assigning
<1>4. provider \in DOMAIN local
  BY <1>1, <1>3 DEF Core, Locals
<1>5. local[provider] = db[provider]
  BY <1>1, <1>2, <1>4 DEF Core, ProviderInHand
<1>6. Now.op = "read" => Now.var \in DOMAIN local' /\ local'[Now.var] = slots[Provider][Now.arg]
  BY FrameJson DEF Assigning
<1> QED
  BY <1>2, <1>4, <1>5, <1>6 DEF Provider, Home

LEMMA HomeProxy ==
  ASSUME Core, Moves, Market, Past(1, 2), NEW s \in Proxies,
         ~(At = 2 /\ Now.op = "upgrade" /\ Now.arg = s)
  PROVE  Home'[s] = Home[s]
<1>1. s \in Slots
  BY DEF Proxies, Slots
<1>2. ~(Now.op = "upgrade" /\ Now.arg = s)
  BY MarketSteps DEF ProxySteps, Core
<1>3. Now.op = "write" => Now.arg # s
  BY NowFits DEF Regular, Core
<1>4. s # "PoolAdmin"
  BY DEF Proxies
<1> QED
  BY <1>1, <1>2, <1>3, <1>4, AtHome

LEMMA PoolEnteredMoves == Core /\ PoolEntered /\ Moves => PoolEntered'
<1> SUFFICES ASSUME Core, PoolEntered, Moves PROVE PoolEntered'
  OBVIOUS
<1> DEFINE k == PoolAt(target)
<1>1. /\ Live /\ Begun /\ Live' /\ Begun' /\ Done \in Nat /\ Done' = Done + 1 /\ At' = At
      /\ At \in Int /\ target' = target /\ Now = Task[Done + 1] /\ OnTrack /\ Task' = Task
  BY Position DEF Core
<1>2. Market /\ At = 2 => /\ k \in Nat /\ 4 <= k /\ k + 4 <= ConfAt(target) /\ ConfAt(target) \in Nat
                          /\ Task[k - 1] = Read("LendingPool", "LendingPool")[1]
                          /\ Task[k] = Save("LendingPool", "LendingPool")[1]
  BY <1>1, PoolSteps DEF PoolTask, PoolAt
<1>3. k' = k /\ Market' = Market
  BY <1>1 DEF Market
<1> HIDE DEF k
<1>4. ASSUME Market, At > 2 \/ (At = 2 /\ Done + 1 >= k)
      PROVE  "LendingPool" \in DOMAIN db' /\ db'["LendingPool"] = Home'["LendingPool"]
  <2>1. Past(1, 2)
    BY <1>1, <1>4 DEF Past
  <2>2. Home'["LendingPool"] = Home["LendingPool"]
    <3>1. Now.op = "upgrade" => At = 2 /\ (Done + 1 = k - 2 \/ Now.arg = "LendingPoolConfigurator")
      BY <1>1, <1>4, MarketSteps DEF ProxySteps, Step, k
    <3>2. Now.op = "upgrade" => Now.arg # "LendingPool"
      BY <1>1, <1>2, <1>4, <3>1
    <3> QED
      BY <1>4, <2>1, <3>2, HomeProxy DEF Proxies
  <2>3. CASE At = 2 /\ Done + 1 = k
    <3>1. Now.op = "save" /\ Now.arg = "LendingPool" /\ Now.var = "LendingPool"
      BY <1>1, <1>2, <1>4, <2>3 DEF Save
    <3>2. local["LendingPool"] = Home["LendingPool"]
      BY <1>1, <1>2, <1>4, <2>3 DEF PoolEntered, IsLocal, k
    <3> QED
      BY <2>2, <3>1, <3>2, FrameJson
  <2>4. CASE At > 2 \/ (At = 2 /\ Done >= k)
    <3>1. "LendingPool" \in DOMAIN db /\ db["LendingPool"] = Home["LendingPool"]
      BY <1>1, <1>4, <2>4 DEF PoolEntered, IsEntered, Past, k
    <3>2. <<Now.op, Now.arg>> # <<"save", "LendingPool">>
      BY <1>1, <1>2, <1>4, <2>4, MarketSteps DEF SaveSteps, k
    <3> QED
      BY <2>2, <3>1, <3>2, FrameJson
  <2> QED
    BY <1>1, <1>2, <1>4, <2>3, <2>4
<1>5. ASSUME Market, At = 2, Done + 1 = k - 1
      PROVE  "LendingPool" \in DOMAIN local' /\ local'["LendingPool"] = Home'["LendingPool"]
  <2>1. Done >= 1 /\ Now.op = "read" /\ Now.arg = "LendingPool" /\ Now.var = "LendingPool"
    BY <1>1, <1>2, <1>5 DEF Read
  <2>2. "LendingPool" \in DOMAIN local' /\ local'["LendingPool"] = Home["LendingPool"] /\ Past(1, 2)
    BY <1>5, <2>1, InPoolTask
  <2>3. Home'["LendingPool"] = Home["LendingPool"]
    BY <1>5, <2>1, <2>2, HomeProxy DEF Proxies
  <2> QED
    BY <2>2, <2>3
<1> QED
  BY <1>1, <1>3, <1>4, <1>5 DEF PoolEntered, IsEntered, IsLocal, Past, k

LEMMA ConfEnteredMoves == Core /\ ConfEntered /\ Moves => ConfEntered'
<1> SUFFICES ASSUME Core, ConfEntered, Moves PROVE ConfEntered'
  OBVIOUS
<1> DEFINE c == ConfAt(target)
           conf == "LendingPoolConfigurator"
<1>1. /\ Live /\ Begun /\ Live' /\ Begun' /\ Done \in Nat /\ Done' = Done + 1 /\ At' = At
      /\ At \in Int /\ target' = target /\ Now = Task[Done + 1] /\ OnTrack /\ Task' = Task
      /\ Done + 1 \in 1 .. Len(Task)
  BY Position DEF Core
<1>2. Market /\ At = 2 => /\ c \in Nat /\ PoolAt(target) + 4 <= c /\ PoolAt(target) \in Nat /\ 8 <= c
                          /\ Task[c - 1] = Read(conf, conf)[1]
                          /\ Task[c] = Save(conf, conf)[1]
                          /\ Assigns(Task[Done + 1], conf) => Done + 1 <= c
  <2> SUFFICES ASSUME Market, At = 2
               PROVE  /\ c \in Nat /\ PoolAt(target) + 4 <= c /\ PoolAt(target) \in Nat /\ 8 <= c
                      /\ Task[c - 1] = Read(conf, conf)[1]
                      /\ Task[c] = Save(conf, conf)[1]
                      /\ Assigns(Task[Done + 1], conf) => Done + 1 <= c
    OBVIOUS
  <2>1. PoolTask(Task, target)
    BY <1>1, PoolSteps
  <2>2. /\ Task[c - 1] = Read(conf, conf)[1]
        /\ Task[c] = Save(conf, conf)[1]
        /\ \A i \in 1 .. Len(Task) : Assigns(Task[i], conf) => i <= c
    BY <2>1 DEF PoolTask, ConfAt
  <2>3. c \in Nat /\ PoolAt(target) + 4 <= c /\ PoolAt(target) \in Nat /\ 8 <= c
    BY <1>1, PoolSteps
  <2> QED
    BY <1>1, <2>2, <2>3
<1>3. c' = c /\ Market' = Market
  BY <1>1 DEF Market
<1> HIDE DEF c
<1>4. ASSUME Market, At > 2 \/ (At = 2 /\ Done + 1 >= c - 1)
      PROVE  Past(1, 2) /\ Home'[conf] = Home[conf]
  <2>1. Past(1, 2)
    BY <1>1, <1>4 DEF Past
  <2>2. Now.op = "upgrade" => At = 2 /\ (Done + 1 = c - 2 \/ Now.arg = "LendingPool")
    BY <1>1, <1>4, MarketSteps DEF ProxySteps, Step, c
  <2>3. Now.op = "upgrade" => Now.arg # conf
    BY <1>1, <1>2, <1>4, <2>2
  <2> QED
    BY <1>4, <2>1, <2>3, HomeProxy DEF Proxies
<1>5. ASSUME Market, At > 2 \/ (At = 2 /\ Done + 1 >= c)
      PROVE  conf \in DOMAIN db' /\ db'[conf] = Home'[conf]
  <2>1. Home'[conf] = Home[conf]
    BY <1>1, <1>2, <1>4, <1>5
  <2>2. CASE At = 2 /\ Done + 1 = c
    <3>1. Now.op = "save" /\ Now.arg = conf /\ Now.var = conf
      BY <1>1, <1>2, <1>5, <2>2 DEF Save
    <3>2. local[conf] = Home[conf]
      BY <1>1, <1>2, <1>5, <2>2 DEF ConfEntered, IsLocal, c
    <3> QED
      BY <2>1, <3>1, <3>2, FrameJson
  <2>3. CASE At > 2 \/ (At = 2 /\ Done >= c)
    <3>1. conf \in DOMAIN db /\ db[conf] = Home[conf]
      BY <1>1, <1>5, <2>3 DEF ConfEntered, IsEntered, Past, c
    <3>2. <<Now.op, Now.arg>> # <<"save", conf>>
      BY <1>1, <1>2, <1>5, <2>3, MarketSteps DEF SaveSteps, c
    <3> QED
      BY <2>1, <3>1, <3>2, FrameJson
  <2> QED
    BY <1>1, <1>2, <1>5, <2>2, <2>3
<1>6. ASSUME Market, At = 2, Done + 1 >= c - 1
      PROVE  conf \in DOMAIN local' /\ local'[conf] = Home'[conf]
  <2>1. Home'[conf] = Home[conf]
    BY <1>4, <1>6
  <2>2. CASE Done + 1 = c - 1
    <3>1. Done >= 1 /\ Now.op = "read" /\ Now.arg = conf /\ Now.var = conf
      BY <1>1, <1>2, <1>6, <2>2 DEF Read
    <3> QED
      BY <1>6, <2>1, <3>1, InPoolTask
  <2>3. CASE Done >= c - 1
    <3>1. conf \in DOMAIN local /\ local[conf] = Home[conf]
      BY <1>1, <1>6, <2>3 DEF ConfEntered, IsLocal, c
    <3>2. ~Assigns(Now, conf)
      <4>1. CASE Done + 1 = c
        BY <1>1, <1>2, <1>6, <4>1 DEF Save, Assigns, Assigning
      <4>2. CASE Done + 1 > c
        BY <1>1, <1>2, <1>6, <4>2
      <4> QED
        BY <1>1, <1>2, <1>6, <2>3, <4>1, <4>2
    <3> QED
      BY <2>1, <3>1, <3>2, FrameJson
  <2> QED
    BY <1>1, <1>2, <1>6, <2>2, <2>3
<1> QED
  BY <1>1, <1>3, <1>5, <1>6 DEF ConfEntered, IsEntered, IsLocal, Past, c

(* A contract mined for the provider of the json names it.                  *)
LEMMA MinedNames ==
  ASSUME Core, Moves, Past(1, 2), Now.op = "mine", provider \in DOMAIN local,
         provider \in Now.uses
  PROVE  local'[Now.var] \in 1 .. Len(contracts') /\ db[provider] \in contracts'[local'[Now.var]].uses
         /\ Now.var \in DOMAIN local'
<1>1. local[provider] = db[provider]
  BY Position DEF Core, ProviderInHand
<1>2. local'[Now.var] = NewAddress /\ Now.var \in DOMAIN local'
  BY FrameJson DEF Assigning
<1>3. /\ contracts'[NewAddress].uses = {local[v] : v \in Now.uses} /\ NewAddress \in 1 .. Len(contracts')
  BY FrameContracts DEF Core, Made
<1> QED
  BY <1>1, <1>2, <1>3

LEMMA HelperEnteredMoves == Core /\ HelperEntered /\ Moves => HelperEntered'
<1> SUFFICES ASSUME Core, HelperEntered, Moves PROVE HelperEntered'
  OBVIOUS
<1> DEFINE h == HelperAt(target)
           helper == "ATokensAndRatesHelper"
           uses == {"LendingPool", provider, "LendingPoolConfigurator"}
<1>1. /\ Live /\ Begun /\ Live' /\ Begun' /\ Done \in Nat /\ Done' = Done + 1 /\ At' = At
      /\ At \in Int /\ target' = target /\ Now = Task[Done + 1] /\ OnTrack /\ Task' = Task
      /\ Done + 1 \in 1 .. Len(Task)
  BY Position DEF Core
<1>2. Market /\ At = 2 => /\ h \in Nat /\ 10 <= h
                          /\ Task[h - 1] = Mine(helper, helper, uses)[1]
                          /\ Task[h] = Save(helper, helper)[1]
  <2> SUFFICES ASSUME Market, At = 2
               PROVE  /\ h \in Nat /\ 10 <= h
                      /\ Task[h - 1] = Mine(helper, helper, uses)[1]
                      /\ Task[h] = Save(helper, helper)[1]
    OBVIOUS
  <2>1. PoolTask(Task, target)
    BY <1>1, PoolSteps
  <2>2. /\ Task[h - 1] = Mine(helper, helper, uses)[1]
        /\ Task[h] = Save(helper, helper)[1]
    BY <2>1 DEF PoolTask, HelperAt
  <2>3. h \in Nat /\ 10 <= h
    BY <1>1, PoolSteps
  <2> QED
    BY <2>2, <2>3
<1>3. h' = h /\ Market' = Market
  BY <1>1 DEF Market
<1> HIDE DEF h
<1>4. ASSUME Market, At > 2 \/ (At = 2 /\ Done + 1 >= h)
      PROVE  /\ helper \in DOMAIN db' /\ db'[helper] \in 1 .. Len(contracts')
             /\ db'[provider] \in contracts'[db'[helper]].uses
  <2>1. Past(1, 2)
    BY <1>1, <1>2, <1>4 DEF Past
  <2>2. /\ db'[provider] = db[provider]
        /\ \A x : Names(x) => x \in 1 .. Len(contracts') /\ db[provider] \in contracts'[x].uses
    BY <2>1, AtHome
  <2>3. CASE At = 2 /\ Done + 1 = h
    <3>1. Now.op = "save" /\ Now.arg = helper /\ Now.var = helper
      BY <1>1, <1>2, <1>4, <2>3 DEF Save
    <3>2. Names(local[helper])
      BY <1>1, <1>2, <1>4, <2>3 DEF HelperEntered, h
    <3>3. helper \in DOMAIN db' /\ db'[helper] = local[helper]
      BY <3>1, FrameJson
    <3> QED
      BY <2>2, <3>2, <3>3
  <2>4. CASE At > 2 \/ (At = 2 /\ Done >= h)
    <3>1. helper \in DOMAIN db /\ Names(db[helper])
      BY <1>1, <1>4, <2>4 DEF HelperEntered, Past, h
    <3>2. <<Now.op, Now.arg>> # <<"save", helper>>
      BY <1>1, <1>2, <1>4, <2>4, MarketSteps DEF SaveSteps, h, Core
    <3>3. helper \in DOMAIN db' /\ db'[helper] = db[helper]
      BY <3>1, <3>2, FrameJson
    <3> QED
      BY <2>2, <3>1, <3>3
  <2> QED
    BY <1>1, <1>2, <1>4, <2>3, <2>4
<1>5. ASSUME Market, At = 2, Done + 1 = h - 1
      PROVE  /\ helper \in DOMAIN local' /\ local'[helper] \in 1 .. Len(contracts')
             /\ db'[provider] \in contracts'[local'[helper]].uses
  <2>1. Done >= 1 /\ Now.op = "mine" /\ Now.arg = helper /\ Now.var = helper /\ provider \in Now.uses
    BY <1>1, <1>2, <1>5 DEF Mine
  <2>2. Past(1, 2) /\ provider \in DOMAIN local
    BY <1>5, <2>1, InPoolTask
  <2>3. db'[provider] = db[provider]
    BY <2>2, AtHome
  <2> QED
    BY <2>1, <2>2, <2>3, MinedNames
<1> QED
  BY <1>1, <1>3, <1>4, <1>5 DEF HelperEntered, Names, Past, h

LEMMA DataEnteredMoves == Core /\ DataEntered /\ Moves => DataEntered'
<1> SUFFICES ASSUME Core, DataEntered, Moves PROVE DataEntered'
  OBVIOUS
<1> DEFINE data == "AaveProtocolDataProvider"
<1>1. /\ Live /\ Begun /\ Live' /\ Begun' /\ Done \in Nat /\ Done' = Done + 1 /\ At' = At
      /\ At \in Int /\ target' = target /\ Now = Task[Done + 1] /\ OnTrack /\ Task' = Task
      /\ Done + 1 \in 1 .. Len(Task) /\ Len(todo) = Len(Task) - Done /\ Len(todo') = Len(todo) - 1
      /\ Len(Task) \in Nat /\ Len(todo) \in Nat
  BY Position DEF Core
<1>2. Market' = Market
  BY <1>1 DEF Market
<1>3. ASSUME Market, At >= 4
      PROVE  /\ Past(1, 2) /\ db'[provider] = db[provider]
             /\ \A x : Names(x) => x \in 1 .. Len(contracts') /\ db[provider] \in contracts'[x].uses
             /\ <<Now.op, Now.arg>> = <<"save", data>> => At = 4 /\ Done = 2
             /\ \/ Home'["0x01"] = Home["0x01"] /\ ~(Now.op = "write" /\ Now.arg = "0x01")
                \/ At = 6 /\ Len(todo) = 3 /\ Now.var = data /\ Home'["0x01"] = local[data]
  <2>1. Past(1, 2)
    BY <1>1, <1>3 DEF Past
  <2>2. <<Now.op, Now.arg>> = <<"save", data>> => At = 4 /\ Done = 2
    BY <1>1, <1>3, MarketSteps DEF SaveSteps, Step
  <2>3. Now.op # "upgrade"
    BY <1>1, <1>3, MarketSteps DEF ProxySteps
  <2>4. Now.op = "write" /\ Now.arg = "0x01" => At = 6 /\ Len(todo) = 3 /\ Now.var = data
    BY <1>1, <1>3, MarketSteps DEF WriteSteps
  <2>5. \/ Home'["0x01"] = Home["0x01"] /\ ~(Now.op = "write" /\ Now.arg = "0x01")
        \/ At = 6 /\ Len(todo) = 3 /\ Now.var = data /\ Home'["0x01"] = local[data]
    BY <2>1, <2>3, <2>4, AtHome DEF Slots
  <2> QED
    BY <2>1, <2>2, <2>5, AtHome
<1>4. ASSUME Market, At > 4 \/ (At = 4 /\ Done + 1 >= 3)
      PROVE  /\ data \in DOMAIN db' /\ db'[data] \in 1 .. Len(contracts')
             /\ db'[provider] \in contracts'[db'[data]].uses
  <2>1. At >= 4
    BY <1>1, <1>4
  <2>2. CASE At = 4 /\ Done + 1 = 3
    <3>1. DataTask(Task)
      BY <1>1, <1>4, <2>2, AtHand
    <3>2. Now.op = "save" /\ Now.arg = data /\ Now.var = data
      BY <1>1, <2>2, <3>1 DEF DataTask, Save
    <3>3. Names(local[data])
      BY <1>1, <1>4, <2>2 DEF DataEntered
    <3>4. data \in DOMAIN db' /\ db'[data] = local[data]
      BY <3>2, FrameJson
    <3> QED
      BY <1>3, <1>4, <2>1, <3>3, <3>4
  <2>3. CASE At > 4 \/ (At = 4 /\ Done >= 3)
    <3>1. data \in DOMAIN db /\ Names(db[data])
      BY <1>1, <1>4, <2>3 DEF DataEntered, Past
    <3>2. <<Now.op, Now.arg>> # <<"save", data>>
      BY <1>1, <1>3, <1>4, <2>1, <2>3
    <3>3. data \in DOMAIN db' /\ db'[data] = db[data]
      BY <3>1, <3>2, FrameJson
    <3> QED
      BY <1>3, <1>4, <2>1, <3>1, <3>3
  <2> QED
    BY <1>1, <1>4, <2>2, <2>3
<1>5. ASSUME Market, At = 4, Done + 1 = 2
      PROVE  /\ data \in DOMAIN local' /\ local'[data] \in 1 .. Len(contracts')
             /\ db'[provider] \in contracts'[local'[data]].uses
  <2>1. DataTask(Task)
    BY <1>5, AtHand DEF Core
  <2>2. /\ Now.op = "mine" /\ Now.arg = data /\ Now.var = data /\ provider \in Now.uses
        /\ Task[1].op \in Assigning /\ Task[1].var = provider /\ 1 \in 1 .. Done
    BY <1>1, <1>5, <2>1 DEF DataTask, Mine, Load, Assigning
  <2>3. provider \in DOMAIN local
    BY <1>1, <2>2 DEF Core, Locals
  <2>4. Past(1, 2) /\ db'[provider] = db[provider]
    BY <1>1, <1>3, <1>5
  <2> QED
    BY <2>2, <2>3, <2>4, MinedNames
<1>6. ASSUME Market, At > 6 \/ (At = 6 /\ Len(todo) - 1 <= 2)
      PROVE  data \in DOMAIN db' /\ db'[data] = Home'["0x01"]
  <2>1. At >= 4 /\ Past(4, 3) /\ At # 4
    BY <1>1, <1>6 DEF Past
  <2>2. data \in DOMAIN db
    BY <1>6, <2>1 DEF DataEntered
  <2>3. data \in DOMAIN db' /\ db'[data] = db[data]
    BY <1>3, <1>6, <2>1, <2>2, FrameJson
  <2>4. CASE At = 6 /\ Len(todo) = 3
    <3>1. InitTask(Task, target)
      BY <1>1, <1>6, <2>4, AtHand
    <3>2. Task[Len(Task) - 2] = Write("0x01", data)[1]
      BY <3>1 DEF InitTask
    <3>3. Done + 1 = Len(Task) - 2
      <4> DEFINE n == Len(Task)
      <4>1. Done \in Nat /\ n \in Nat /\ 3 = n - Done
        BY <1>1, <2>4
      <4> HIDE DEF n
      <4>2. Done + 1 = n - 2
        BY <4>1
      <4> QED
        BY <4>2 DEF n
    <3>4. Now.op = "write" /\ Now.arg = "0x01"
      BY <1>1, <3>2, <3>3 DEF Write
    <3>5. local[data] = db[data]
      BY <1>1, <1>6, <2>4 DEF DataEntered, IsLocal
    <3> QED
      BY <1>3, <1>6, <2>1, <2>3, <3>4, <3>5
  <2>5. CASE At > 6 \/ (At = 6 /\ Len(todo) <= 2)
    <3>1. db[data] = Home["0x01"]
      BY <1>1, <1>6, <2>5 DEF DataEntered, Ending, IsEntered
    <3>2. Home'["0x01"] = Home["0x01"]
      BY <1>1, <1>3, <1>6, <2>1, <2>5
    <3> QED
      BY <2>3, <3>1, <3>2
  <2> QED
    BY <1>1, <1>6, <2>4, <2>5
<1>7. ASSUME Market, At = 6, Len(todo) - 1 = 3 PROVE data \in DOMAIN local' /\ local'[data] = db'[data]
  <2>1. InitTask(Task, target)
    BY <1>1, <1>7, AtHand
  <2>2. Task[Len(Task) - 3] = Load(data, data)[1]
    <3>1. Task[Len(Task) - 2 - 1] = Load(data, data)[1] /\ Len(Task) >= 18
      BY <2>1 DEF InitTask
    <3>2. Len(Task) - 2 - 1 = Len(Task) - 3
      BY <1>1
    <3> QED
      BY <3>1, <3>2
  <2>3. Done + 1 = Len(Task) - 3
    BY <1>1, <1>7
  <2>4. Now.op = "load" /\ Now.arg = data /\ Now.var = data
    BY <1>1, <2>2, <2>3 DEF Load
  <2>5. data \in DOMAIN local' /\ local'[data] = db[data] /\ data \in DOMAIN db
    BY <2>4, FrameJson DEF Assigning
  <2>6. db'[data] = db[data]
    BY <2>4, <2>5, FrameJson
  <2> QED
    BY <2>5, <2>6
<1> QED
  BY <1>1, <1>2, <1>4, <1>5, <1>6, <1>7 DEF DataEntered, Names, Past, Ending, IsEntered, IsLocal

(* What turns leave of it: the chain and the json stay, and a script that   *)
(* runs has just begun a task.                                              *)
LEMMA LaterTurn ==
  ASSUME OnTrack, Turns, At' >= 2
  PROVE  target' = target /\ Begun /\ Market' = Market
<1>1. target' = target /\ Begun
  BY TurnPosition DEF Live, Begun
<1> QED
  BY <1>1 DEF Market

LEMMA HomeTurns == ASSUME OnTrack, Turns PROVE Home' = Home /\ UNCHANGED <<contracts, slots, pools, granted, registered, db>>
BY TurnKinds DEF Home

LEMMA PoolPast ==
  ASSUME OnTrack, Turns, Market, target' = target, Begun,
         NEW d \in {PoolAt(target), ConfAt(target), HelperAt(target), PoolAt(target) - 2, ConfAt(target) - 2},
         At' > 2 \/ (At' = 2 /\ Done' >= d)
  PROVE  Past(2, d)
<1>1. CASE At = 2
  <2>1. d \in Nat \ {0} /\ d <= Len(Task)
    BY <1>1, PoolSteps
  <2>2. Past(2, d) /\ target' = target
    BY <2>1, PastBack
  <2> QED
    BY <2>2
<1>2. CASE At # 2
  <2>1. Past(2, 1) /\ target' = target
    <3>1. CASE At' > 2
      BY <1>2, <3>1, PastBack
    <3>2. CASE At' = 2
      <4>1. CASE Live'
        <5>1. OnTrack' /\ Begun' /\ Market' /\ Done' = 0
          BY <4>1, TrackTurns, TurnPosition DEF Market
        <5>2. d \in Nat \ {0}
          <6>1. PoolTask(Task', target)
            BY <3>2, <5>1, TurnPosition DEF Course, Market
          <6>2. /\ PoolAt(target) \in 4 .. ConfAt(target) - 4 /\ ConfAt(target) \in 1 .. HelperAt(target) - 2
                /\ HelperAt(target) \in 1 .. Len(Task') - 1 /\ Len(Task') \in Nat
            BY <6>1, TurnPosition DEF PoolTask, PoolAt, ConfAt, HelperAt
          <6>3. HelperAt(target) \in Nat
            BY <6>2
          <6>4. ConfAt(target) \in Nat /\ ConfAt(target) + 2 <= HelperAt(target)
            BY <6>2, <6>3
          <6>5. PoolAt(target) \in Nat /\ 4 <= PoolAt(target) /\ PoolAt(target) + 4 <= ConfAt(target)
            BY <6>2, <6>4
          <6> QED
            BY <6>3, <6>4, <6>5
        <5> QED
          BY <3>2, <5>1, <5>2
      <4>2. CASE ~Live'
        BY <1>2, <3>2, <4>2, TurnPosition
      <4> QED
        BY <4>1, <4>2
    <3> QED
      BY <3>1, <3>2
  <2> QED
    BY <1>2, <2>1 DEF Past
<1> QED
  BY <1>1, <1>2

LEMMA EnteredTurns ==
  Core /\ PoolEntered /\ ConfEntered /\ HelperEntered /\ DataEntered /\ Turns
    => PoolEntered' /\ ConfEntered' /\ HelperEntered' /\ DataEntered'
<1> SUFFICES ASSUME Core, PoolEntered, ConfEntered, HelperEntered, DataEntered, Turns
             PROVE  PoolEntered' /\ ConfEntered' /\ HelperEntered' /\ DataEntered'
  OBVIOUS
<1>1. Home' = Home /\ UNCHANGED <<contracts, slots, pools, granted, registered, db>>
  BY HomeTurns DEF Core
<1>2. /\ At' \in Int /\ Len(Task') \in Nat
      /\ Live' => Done' = 0 /\ todo' = Task'
      /\ Course(target', At', Task') /\ Begun'
  BY TurnPosition DEF Core
<1>3. ASSUME At' >= 2, Market' PROVE target' = target /\ Begun /\ Market /\ OnTrack
  BY <1>3, LaterTurn DEF Core
<1>4. ASSUME Market', Live', At' = 2
      PROVE  Done' # PoolAt(target') - 1 /\ ~(Done' >= ConfAt(target') - 1) /\ Done' # HelperAt(target') - 1
  <2>1. Task' = todo'
    BY <1>2, <1>4
  <2>2. OnTrack' /\ Begun'
    BY <1>2, TrackTurns DEF Core
  <2>3. PoolTask(Task', target')
    BY <1>2, <1>4 DEF Course, Market
  <2>4. /\ PoolAt(target') \in 4 .. ConfAt(target') - 4 /\ ConfAt(target') \in 1 .. HelperAt(target') - 2
        /\ HelperAt(target') \in 1 .. Len(Task') - 1
    BY <2>3 DEF PoolTask, PoolAt, ConfAt, HelperAt
  <2>5. HelperAt(target') \in Nat
    BY <1>2, <2>4
  <2>6. ConfAt(target') \in Nat /\ ConfAt(target') + 2 <= HelperAt(target')
    BY <2>4, <2>5
  <2>7. PoolAt(target') \in Nat /\ 4 <= PoolAt(target') /\ PoolAt(target') + 4 <= ConfAt(target')
    BY <2>4, <2>6
  <2> QED
    BY <1>2, <1>4, <2>5, <2>6, <2>7
<1>5. PoolEntered'
  <2>1. ASSUME Market', At' > 2 \/ (At' = 2 /\ Done' >= PoolAt(target'))
        PROVE  IsEntered("LendingPool", Home["LendingPool"])
    <3>1. target' = target /\ Begun /\ Market /\ OnTrack
      BY <1>2, <1>3, <2>1
    <3>2. Past(2, PoolAt(target))
      BY <2>1, <3>1, PoolPast
    <3> QED
      BY <3>1, <3>2 DEF PoolEntered
  <2> QED
    BY <1>1, <1>4, <2>1 DEF PoolEntered, Past, IsEntered
<1>6. ConfEntered'
  <2>1. ASSUME Market', At' > 2 \/ (At' = 2 /\ Done' >= ConfAt(target'))
        PROVE  IsEntered("LendingPoolConfigurator", Home["LendingPoolConfigurator"])
    <3>1. target' = target /\ Begun /\ Market /\ OnTrack
      BY <1>2, <1>3, <2>1
    <3>2. Past(2, ConfAt(target))
      BY <2>1, <3>1, PoolPast
    <3> QED
      BY <3>1, <3>2 DEF ConfEntered
  <2> QED
    BY <1>1, <1>4, <2>1 DEF ConfEntered, Past, IsEntered
<1>7. HelperEntered'
  <2>1. ASSUME Market', At' > 2 \/ (At' = 2 /\ Done' >= HelperAt(target'))
        PROVE  "ATokensAndRatesHelper" \in DOMAIN db /\ Names(db["ATokensAndRatesHelper"])
    <3>1. target' = target /\ Begun /\ Market /\ OnTrack
      BY <1>2, <1>3, <2>1
    <3>2. Past(2, HelperAt(target))
      BY <2>1, <3>1, PoolPast
    <3> QED
      BY <3>1, <3>2 DEF HelperEntered
  <2> QED
    BY <1>1, <1>4, <2>1 DEF HelperEntered, Past, Names
<1>8. DataEntered'
  <2>1. ASSUME Market', At' > 4 \/ (At' = 4 /\ Done' >= 3)
        PROVE  "AaveProtocolDataProvider" \in DOMAIN db /\ Names(db["AaveProtocolDataProvider"])
    <3>1. target' = target /\ Begun /\ Market /\ OnTrack
      BY <1>2, <1>3, <2>1
    <3>2. Begun /\ At = 4 => 3 <= Len(Task)
      <4>1. Course(target, At, Task)
        BY <3>1, TurnPosition
      <4>2. At = 4 => DataTask(Task)
        BY <3>1, <4>1 DEF Course, Market
      <4> QED
        BY <4>2 DEF DataTask
    <3>3. Past(4, 3)
      BY <2>1, <3>1, <3>2, PastBack
    <3> QED
      BY <3>1, <3>3 DEF DataEntered
  <2>2. At' = 6 /\ Market' => 18 <= Len(Task')
    BY <1>2 DEF Course, Market, InitTask
  <2>3. ASSUME Market', At' > 6 \/ (At' = 6 /\ Len(todo') <= 2)
        PROVE  IsEntered("AaveProtocolDataProvider", Home["0x01"])
    <3>1. target' = target /\ Begun /\ Market /\ OnTrack
      BY <1>2, <1>3, <2>3
    <3>2. At' = 6 => 2 < Len(Task')
      BY <1>2, <2>2, <2>3
    <3>3. Ending(6, 2)
      BY <2>3, <3>1, <3>2, EndingBack
    <3> QED
      BY <3>1, <3>3 DEF DataEntered
  <2>4. Market' => ~(Live' /\ At' = 6 /\ Len(todo') = 3) /\ ~(Live' /\ At' = 4 /\ Done' = 2)
    <3> DEFINE n == Len(Task')
    <3>1. Live' => Len(todo') = n /\ Done' = 0
      BY <1>2
    <3>2. n \in Nat /\ (At' = 6 /\ Market' => 18 <= n)
      BY <1>2, <2>2
    <3> HIDE DEF n
    <3>3. ASSUME Market', Live', At' = 6, Len(todo') = 3 PROVE FALSE
      <4>1. n = 3 /\ 18 <= n
        BY <3>1, <3>2, <3>3
      <4> QED
        BY <4>1
    <3>4. ASSUME Market', Live', At' = 4, Done' = 2 PROVE FALSE
      BY <3>1, <3>4
    <3> QED
      BY <3>3, <3>4
  <2>5. Market' /\ Past(4, 3)' =>
          "AaveProtocolDataProvider" \in DOMAIN db' /\ Names(db["AaveProtocolDataProvider"])'
    BY <1>1, <2>1 DEF Past, Names
  <2>6. Market' /\ Ending(6, 2)' => IsEntered("AaveProtocolDataProvider", Home["0x01"])'
    BY <1>1, <2>3 DEF Ending, IsEntered
  <2> QED
    BY <2>4, <2>5, <2>6 DEF DataEntered
<1> QED
  BY <1>5, <1>6, <1>7, <1>8

(* What the json names when a migration ends follows from the task that     *)
(* entered each contract last.                                              *)
Entries == PoolEntered /\ ConfEntered /\ HelperEntered /\ DataEntered

LEMMA CoreInit == Init => Core /\ Entries
<1> SUFFICES ASSUME Init PROVE Core /\ Entries
  OBVIOUS
<1>1. Core
  BY TrackInit, ChainInit, LocalsInit, ProviderInit DEF Core
<1>2. ~Begun /\ ~Live
  BY DEF Init, Begun, Live
<1>3. Entries
  BY <1>2 DEF Entries, PoolEntered, ConfEntered, HelperEntered, DataEntered, Past, Ending
<1> QED
  BY <1>1, <1>3

LEMMA EntriesLoops == Core /\ Entries /\ Loops => Entries'
<1> SUFFICES ASSUME Core, Entries, Loops PROVE Entries'
  OBVIOUS
<1>1. /\ Live /\ Live' /\ Begun /\ Begun' /\ Market /\ Market' /\ At = 6 /\ At' = 6
      /\ Done' = Done /\ todo' = todo /\ Len(todo) \in Nat /\ Len(todo) > 5
  BY LoopPlace
<1>2. /\ db' = db /\ contracts' = contracts
      /\ \A s \in {"LendingPool", "LendingPoolConfigurator", "0x01"} : Home'[s] = Home[s]
  BY LoopHome DEF Slots
<1>3. PoolEntered' /\ ConfEntered'
  BY <1>1, <1>2 DEF Entries, PoolEntered, ConfEntered, Past, IsEntered
<1>4. Past(2, HelperAt(target)) /\ Past(4, 3) /\ Past(2, HelperAt(target))' /\ ~Ending(6, 2)'
  BY <1>1 DEF Past, Ending
<1>5. \A x : Names(x)' <=> Names(x)
  BY <1>2 DEF Names
<1>6. HelperEntered'
  BY <1>1, <1>2, <1>4, <1>5 DEF Entries, HelperEntered, Names
<1>7. DataEntered'
  <2>1. At' # 4 /\ Len(todo') # 3
    BY <1>1
  <2>2. /\ "AaveProtocolDataProvider" \in DOMAIN db' /\ Names(db["AaveProtocolDataProvider"])
        /\ db' = db
    BY <1>1, <1>2, <1>4 DEF Entries, DataEntered
  <2>3. Names(db["AaveProtocolDataProvider"])'
    BY <1>2, <2>2 DEF Names
  <2> QED
    BY <1>4, <2>1, <2>2, <2>3 DEF DataEntered
<1> QED
  BY <1>3, <1>6, <1>7 DEF Entries

LEMMA EntriesStep == Core /\ Entries /\ [Next]_vars => Core' /\ Entries'
<1>1. ASSUME Core, Entries, Moves PROVE Core' /\ Entries'
  BY <1>1, CoreNext, PoolEnteredMoves, ConfEnteredMoves, HelperEnteredMoves, DataEnteredMoves
  DEF Entries
<1>2. ASSUME Core, Entries, Loops \/ Turns PROVE Core' /\ Entries'
  BY <1>2, CoreNext, EnteredTurns, EntriesLoops DEF Entries
<1>3. ASSUME Core, Entries, UNCHANGED vars PROVE Core' /\ Entries'
  <2>1. UNCHANGED <<contracts, slots, pools, granted, sources, registered, db, target, task, todo,
                    local, status, finished>>
    BY <1>3 DEF vars, chain, script, history
  <2>2. UNCHANGED <<Task, At, Done, Home, Live, Begun, Market>>
    BY <2>1 DEF Task, At, Done, Home, Live, Begun, Programs, Market
  <2>3. Core'
    BY <1>3, <2>1, <2>2 DEF Core, OnTrack, OnChain, Locals, ProviderInHand, ProviderEntered, Fresh, Past
  <2>4. PoolEntered' /\ ConfEntered'
    BY <1>3, <2>1, <2>2 DEF Entries, PoolEntered, ConfEntered, Past, IsEntered, IsLocal
  <2>5. HelperEntered' /\ DataEntered'
    BY <1>3, <2>1, <2>2 DEF Entries, HelperEntered, DataEntered, Past, Ending, IsEntered, IsLocal, Names
  <2> QED
    BY <2>3, <2>4, <2>5 DEF Entries
<1> QED
  BY <1>1, <1>2, <1>3, NextSplits

(* DbNamesTheMarket: when a migration ends, deployed-contracts.json names  *)
(* the pool, the configurator and the data provider its own provider       *)
(* holds, and a helper that works for it, although earlier migrations and  *)
(* the runs that died have left entries under the same names.              *)
THEOREM JsonNamesTheMarket == Spec => []DbNamesTheMarket
<1>1. ASSUME Core, Entries PROVE DbNamesTheMarket
  <2> SUFFICES ASSUME status = "finished"
               PROVE  /\ Entered("LendingPool") = slots[db[provider]]["LendingPool"]
                      /\ Entered("LendingPoolConfigurator") = slots[db[provider]]["LendingPoolConfigurator"]
                      /\ Entered("AaveProtocolDataProvider") = slots[db[provider]]["0x01"]
                      /\ Entered("ATokensAndRatesHelper") # 0
                      /\ db[provider] \in contracts[db["ATokensAndRatesHelper"]].uses
    BY DEF DbNamesTheMarket
  <2>1. Begun /\ Market /\ At \in Int /\ At >= 6 /\ Len(todo) = 0
    <3>1. OnTrack /\ task = Len(Programs[target]) /\ Len(todo) = 0
      BY <1>1 DEF Core, OnTrack
    <3> QED
      BY <3>1, AtEnd DEF Begun
  <2>2. Past(2, PoolAt(target)) /\ Past(2, ConfAt(target)) /\ Past(2, HelperAt(target)) /\ Ending(6, 2)
    BY <2>1 DEF Past, Ending
  <2>3. IsEntered("LendingPool", Home["LendingPool"])
        /\ IsEntered("LendingPoolConfigurator", Home["LendingPoolConfigurator"])
    BY <1>1, <2>1, <2>2 DEF Entries, PoolEntered, ConfEntered
  <2>4. "ATokensAndRatesHelper" \in DOMAIN db /\ Names(db["ATokensAndRatesHelper"])
    BY <1>1, <2>1, <2>2 DEF Entries, HelperEntered
  <2>5. IsEntered("AaveProtocolDataProvider", Home["0x01"])
    BY <1>1, <2>1, <2>2 DEF Entries, DataEntered
  <2>6. Entered("ATokensAndRatesHelper") # 0
    BY <2>4 DEF Entered, Names
  <2> QED
    BY <2>3, <2>4, <2>5, <2>6 DEF Entered, IsEntered, Home, Names
<1> QED
  BY <1>1, CoreInit, EntriesStep, PTL DEF Spec

-----------------------------------------------------------------------------
(* What makes a market whole, task by task.                                 *)
LEMMA OpeningSteps ==
  ASSUME Core, Moves, Market, At = 1
  PROVE  /\ Opening(Task, target) /\ Len(Task) >= 6
         /\ Len(todo) = 4 => /\ Now.op = "take" /\ Now.var = "PoolAdmin" /\ Now.arg = Deployer
                             /\ Done >= 2
         /\ Len(todo) = 3 => /\ Now.op = "write" /\ Now.var = "PoolAdmin" /\ Now.arg = "PoolAdmin"
                             /\ Done >= 2
         /\ Len(todo) = 2 => /\ Now.op = "take" /\ Now.var = "EmergencyAdmin"
                             /\ Now.arg = Address(getEmergencyAdmin(target)) /\ Done >= 2
         /\ Len(todo) = 1 => /\ Now.op = "write" /\ Now.var = "EmergencyAdmin"
                             /\ Now.arg = "EmergencyAdmin" /\ Done >= 2
<1> DEFINE n == Len(Task)
           m == Len(todo)
<1>1. Opening(Task, target)
  BY AtHand DEF Core
<1>2. /\ n >= 6
      /\ Task[n - 3] = Take("PoolAdmin", "signer0")[1]
      /\ Task[n - 2] = Write("PoolAdmin", "PoolAdmin")[1]
      /\ Task[n - 1] = Take("EmergencyAdmin", getEmergencyAdmin(target))[1]
      /\ Task[n] = Write("EmergencyAdmin", "EmergencyAdmin")[1]
  BY <1>1 DEF Opening, Market
<1>3. Done \in Nat /\ n \in Nat /\ m = n - Done /\ Now = Task[Done + 1]
  BY Position DEF Core
<1> HIDE DEF n, m
<1>4. CASE m = 4
  <2>1. Done + 1 = n - 3 /\ Done >= 2
    BY <1>2, <1>3, <1>4
  <2> QED
    BY <1>1, <1>2, <1>3, <1>4, <2>1 DEF Take, n, m, Deployer
<1>5. CASE m = 3
  <2>1. Done + 1 = n - 2 /\ Done >= 2
    BY <1>2, <1>3, <1>5
  <2> QED
    BY <1>1, <1>2, <1>3, <1>5, <2>1 DEF Write, n, m
<1>6. CASE m = 2
  <2>1. Done + 1 = n - 1 /\ Done >= 2
    BY <1>2, <1>3, <1>6
  <2> QED
    BY <1>1, <1>2, <1>3, <1>6, <2>1 DEF Take, n, m
<1>7. CASE m = 1
  <2>1. Done + 1 = n /\ Done >= 2
    BY <1>2, <1>3, <1>7
  <2> QED
    BY <1>1, <1>2, <1>3, <1>7, <2>1 DEF Write, n, m
<1>8. CASE m \notin {1, 2, 3, 4}
  BY <1>1, <1>2, <1>8 DEF n, m
<1> QED
  BY <1>4, <1>5, <1>6, <1>7, <1>8

(* Of the sixth task, up to the loops.                                      *)
LEMMA SetupSteps ==
  ASSUME Core, Moves, Market, At = 6
  PROVE  /\ InitTask(Task, target) /\ Past(1, 2) /\ Len(Task) >= 19
         /\ Done >= 1 => provider \in DOMAIN local /\ Provider = db[provider]
         /\ Done >= 3 => "PoolAdmin" \in DOMAIN local
         /\ Assigns(Now, "PoolAdmin") =>
              Done = 2 /\ Now.op = "read" /\ Now.var = "PoolAdmin" /\ Now.arg = "PoolAdmin"
         /\ Done = 8 => /\ Now.op = "load" /\ Now.var = "LendingPoolConfigurator"
                        /\ Now.arg = "LendingPoolConfigurator"
         /\ Done = 11 => /\ Now.op = "load" /\ Now.var = "ATokensAndRatesHelper"
                         /\ Now.arg = "ATokensAndRatesHelper"
<1>1. /\ Live /\ Begun /\ Done \in Nat /\ Now = Task[Done + 1] /\ Done + 1 \in 1 .. Len(Task)
  BY Position DEF Core
<1>2. InitTask(Task, target)
  BY AtHand DEF Core
<1>3. /\ Len(Task) >= 19 /\ Task[1] = Load(provider, provider)[1] /\ Task[3] = getPoolAdmin[1]
      /\ Task[9] = Load("LendingPoolConfigurator", "LendingPoolConfigurator")[1]
      /\ Task[12] = Load("ATokensAndRatesHelper", "ATokensAndRatesHelper")[1]
      /\ \A i \in 1 .. Len(Task) : Assigns(Task[i], "PoolAdmin") => i = 3
  BY <1>2 DEF InitTask
<1>4. Past(1, 2)
  BY <1>1 DEF Past
<1>5. \A i \in 1 .. Done : Task[i].op \in Assigning => Task[i].var \in DOMAIN local
  BY <1>1 DEF Core, Locals
<1>6. Done >= 1 => provider \in DOMAIN local /\ Provider = db[provider]
  <2> SUFFICES ASSUME Done >= 1 PROVE provider \in DOMAIN local /\ Provider = db[provider]
    OBVIOUS
  <2>1. 1 \in 1 .. Done /\ Task[1].op \in Assigning /\ Task[1].var = provider
    BY <1>1, <1>3 DEF Load, Assigning
  <2>2. provider \in DOMAIN local
    BY <1>5, <2>1
  <2> QED
    BY <1>1, <1>4, <2>2 DEF Core, ProviderInHand, Provider
<1>7. Done >= 3 => "PoolAdmin" \in DOMAIN local
  <2> SUFFICES ASSUME Done >= 3 PROVE "PoolAdmin" \in DOMAIN local
    OBVIOUS
  <2>1. 3 \in 1 .. Done /\ Task[3].op \in Assigning /\ Task[3].var = "PoolAdmin"
    BY <1>1, <1>3 DEF getPoolAdmin, Read, Assigning
  <2> QED
    BY <1>5, <2>1
<1>8. Assigns(Now, "PoolAdmin") =>
        Done = 2 /\ Now.op = "read" /\ Now.var = "PoolAdmin" /\ Now.arg = "PoolAdmin"
  <2> SUFFICES ASSUME Assigns(Now, "PoolAdmin")
               PROVE  Done = 2 /\ Now.op = "read" /\ Now.var = "PoolAdmin" /\ Now.arg = "PoolAdmin"
    OBVIOUS
  <2>1. Done + 1 = 3
    BY <1>1, <1>3
  <2> QED
    BY <1>1, <1>3, <2>1 DEF getPoolAdmin, Read
<1>9. Done = 8 => /\ Now.op = "load" /\ Now.var = "LendingPoolConfigurator"
                  /\ Now.arg = "LendingPoolConfigurator"
  BY <1>1, <1>3 DEF Load
<1>10. Done = 11 => /\ Now.op = "load" /\ Now.var = "ATokensAndRatesHelper"
                    /\ Now.arg = "ATokensAndRatesHelper"
  BY <1>1, <1>3 DEF Load
<1> QED
  BY <1>2, <1>3, <1>4, <1>6, <1>7, <1>8, <1>9, <1>10

(* Who may be admin may be it after a move.                                 *)
LEMMA AdminStays ==
  ASSUME Core, Moves, Past(1, 2), NEW x, AdminFor(x)
  PROVE  AdminFor(x)'
<1>1. /\ db'[provider] = db[provider] /\ interrupted' = interrupted
      /\ Names(x) => x \in 1 .. Len(contracts') /\ db[provider] \in contracts'[x].uses
  BY AtHome, Position DEF Core
<1> QED
  BY <1>1 DEF AdminFor, Names, Deployer, Address

LEMMA AdminsMoves == Core /\ AdminsSet /\ Moves => AdminsSet'
<1> SUFFICES ASSUME Core, AdminsSet, Moves PROVE AdminsSet'
  OBVIOUS
<1> DEFINE m == Len(todo)
           emergency == Address(getEmergencyAdmin(target))
<1>1. /\ Live /\ Begun /\ Live' /\ Begun' /\ Done \in Nat /\ At' = At
      /\ At \in Int /\ target' = target /\ m \in Nat /\ Len(todo') = m - 1
  BY Position DEF Core
<1>2. Market' = Market /\ emergency' = emergency
  BY <1>1 DEF Market
<1>3. Market /\ At = 1 =>
        /\ m = 4 => Now.op = "take" /\ Now.var = "PoolAdmin" /\ Now.arg = Deployer /\ Done >= 2
        /\ m = 3 => Now.op = "write" /\ Now.var = "PoolAdmin" /\ Now.arg = "PoolAdmin" /\ Done >= 2
        /\ m = 2 => Now.op = "take" /\ Now.var = "EmergencyAdmin" /\ Now.arg = emergency /\ Done >= 2
        /\ m = 1 => Now.op = "write" /\ Now.var = "EmergencyAdmin" /\ Now.arg = "EmergencyAdmin" /\ Done >= 2
  BY OpeningSteps
<1>4. /\ Market /\ (At > 1 \/ (At = 1 /\ m <= 2)) =>
           AdminFor(Home["PoolAdmin"]) \/ (At = 6 /\ Taken)
      /\ Market /\ At = 6 /\ "PoolAdmin" \in DOMAIN local => AdminFor(local["PoolAdmin"])
      /\ Market /\ At = 1 /\ m = 3 => "PoolAdmin" \in DOMAIN local /\ local["PoolAdmin"] = Deployer
      /\ Market /\ At > 1 => Home["EmergencyAdmin"] = emergency
      /\ Market /\ At = 1 /\ m = 1 =>
           "EmergencyAdmin" \in DOMAIN local /\ local["EmergencyAdmin"] = emergency
  BY <1>1 DEF AdminsSet, Ending, IsLocal
<1>5. m # 0
  BY Position DEF Core
<1>6. Market /\ At >= 2 /\ Now.op = "write" => Now.arg \notin {"PoolAdmin", "EmergencyAdmin"}
  BY <1>1, MarketSteps DEF WriteSteps, Core
<1> HIDE DEF m, emergency
<1>11. ASSUME Past(1, 2), NEW x, AdminFor(x)
       PROVE  x = Deployer \/ (/\ x \in 1 .. Len(contracts') /\ db'[provider] \in contracts'[x].uses
                               /\ db'[provider] \in interrupted')
  BY <1>11, AdminStays DEF AdminFor, Names, Deployer, Address
<1>7. ASSUME Market, At > 1 \/ (At = 1 /\ m - 1 <= 2) PROVE AdminFor(Home["PoolAdmin"])'
  <2>1. Past(1, 2)
    BY <1>1, <1>3, <1>5, <1>7 DEF Past
  <2>2. "PoolAdmin" \in Slots /\ "PoolAdmin" \notin Proxies
    BY DEF Slots, Proxies
  <2>3. Now.op = "upgrade" => Now.arg # "PoolAdmin"
    BY <2>2, NowFits DEF Regular, Core
  <2>4. CASE At = 1 /\ m = 3
    <3>1. Home'["PoolAdmin"] = Deployer
      BY <1>3, <1>4, <1>7, <2>1, <2>2, <2>4, AtHome
    <3> QED
      BY <3>1 DEF AdminFor, Deployer, Address
  <2>5. CASE (At > 1 \/ (At = 1 /\ m <= 2)) /\ ~(Now.op = "configure" /\ Taken)
    <3>1. ~(Now.op = "write" /\ Now.arg = "PoolAdmin")
      BY <1>1, <1>3, <1>5, <1>6, <1>7, <2>5
    <3>2. AdminFor(Home["PoolAdmin"])
      BY <1>4, <1>7, <2>5 DEF Taken
    <3>3. Home'["PoolAdmin"] = Home["PoolAdmin"]
      BY <2>1, <2>2, <2>3, <2>5, <3>1, AtHome
    <3> QED
      BY <2>1, <3>2, <3>3, <1>11 DEF AdminFor, Names, Deployer, Address
  <2>6. CASE Now.op = "configure" /\ Taken
    <3>1. At = 6 /\ Done >= 3
      BY <1>1, <1>7, <2>6, MarketSteps DEF ProxySteps, Step, Core
    <3>2. "PoolAdmin" \in DOMAIN local
      BY <1>7, <3>1, SetupSteps
    <3>3. AdminFor(local["PoolAdmin"])
      BY <1>4, <1>7, <3>1, <3>2
    <3>4. Home'["PoolAdmin"] = local["PoolAdmin"]
      BY <2>1, <2>6, AtHome
    <3> QED
      BY <2>1, <3>3, <3>4, <1>11 DEF AdminFor, Names, Deployer, Address
  <2> QED
    BY <1>1, <1>7, <2>4, <2>5, <2>6
<1>8. ASSUME Market, At = 1, m - 1 = 3 PROVE "PoolAdmin" \in DOMAIN local' /\ local'["PoolAdmin"] = Deployer
  BY <1>1, <1>3, <1>8, FrameJson DEF Assigning
<1>9. ASSUME Market, At > 1 \/ (At = 1 /\ m - 1 <= 0) PROVE Home'["EmergencyAdmin"] = emergency
  <2>1. Past(1, 2)
    BY <1>1, <1>3, <1>5, <1>9 DEF Past
  <2>2. "EmergencyAdmin" \in Slots /\ "EmergencyAdmin" \notin Proxies
    BY DEF Slots, Proxies
  <2>3. Now.op = "upgrade" => Now.arg # "EmergencyAdmin"
    BY <2>2, NowFits DEF Regular, Core
  <2>4. CASE At = 1 /\ m = 1
    BY <1>3, <1>4, <1>9, <2>1, <2>2, <2>4, AtHome
  <2>5. CASE At > 1
    <3>1. ~(Now.op = "write" /\ Now.arg = "EmergencyAdmin")
      BY <1>1, <1>6, <1>9, <2>5
    <3> QED
      BY <1>4, <1>9, <2>1, <2>2, <2>3, <2>5, <3>1, AtHome
  <2> QED
    BY <1>1, <1>5, <1>9, <2>4, <2>5
<1>10. ASSUME Market, At = 1, m - 1 = 1
       PROVE  "EmergencyAdmin" \in DOMAIN local' /\ local'["EmergencyAdmin"] = emergency
  BY <1>1, <1>3, <1>10, FrameJson DEF Assigning
<1>12. ASSUME Market, At = 6, "PoolAdmin" \in DOMAIN local' PROVE AdminFor(local["PoolAdmin"])'
  <2>1. Past(1, 2)
    BY <1>12, SetupSteps
  <2>2. CASE Assigns(Now, "PoolAdmin")
    <3>1. /\ Done = 2 /\ Now.op = "read" /\ Now.var = "PoolAdmin" /\ Now.arg = "PoolAdmin"
          /\ Provider = db[provider]
      BY <1>12, <2>2, SetupSteps
    <3>2. local'["PoolAdmin"] = Home["PoolAdmin"]
      BY <3>1, FrameJson DEF Home
    <3>3. AdminFor(Home["PoolAdmin"])
      BY <1>1, <1>4, <1>12, <3>1 DEF Taken
    <3> QED
      BY <1>11, <2>1, <3>2, <3>3 DEF AdminFor, Names, Deployer, Address
  <2>3. CASE ~Assigns(Now, "PoolAdmin")
    <3>1. "PoolAdmin" \in DOMAIN local /\ local'["PoolAdmin"] = local["PoolAdmin"]
      BY <1>12, <2>3, FrameJson
    <3>2. AdminFor(local["PoolAdmin"])
      BY <1>4, <1>12, <3>1
    <3> QED
      BY <1>11, <2>1, <3>1, <3>2 DEF AdminFor, Names, Deployer, Address
  <2> QED
    BY <2>2, <2>3
<1>13. ASSUME Market, At = 6, Done + 1 = 12
       PROVE  IsLocal("ATokensAndRatesHelper", db["ATokensAndRatesHelper"])'
  <2>1. Now.op = "load" /\ Now.var = "ATokensAndRatesHelper" /\ Now.arg = "ATokensAndRatesHelper"
    BY <1>1, <1>13, SetupSteps
  <2>2. db' = db
    BY <2>1, Effects
  <2> QED
    BY <2>1, <2>2, FrameJson DEF IsLocal, Assigning
<1>14. Done' = Done + 1
  BY Position DEF Core
<1> HIDE DEF AdminFor
<1> QED
  BY <1>1, <1>2, <1>7, <1>8, <1>9, <1>10, <1>12, <1>13, <1>14
  DEF AdminsSet, Ending, IsLocal, m, emergency, Deployer, Address

LEMMA AdminsLoops == Core /\ HelperEntered /\ AdminsSet /\ Loops => AdminsSet'
<1> SUFFICES ASSUME Core, HelperEntered, AdminsSet, Loops PROVE AdminsSet'
  OBVIOUS
<1>1. /\ Live /\ Live' /\ Begun /\ Begun' /\ Market /\ Market' /\ At = 6 /\ At' = 6 /\ Now' = Now
      /\ Done' = Done /\ todo' = todo /\ target' = target /\ todo # <<>>
      /\ Now.op = "list" \/ (Now.op = "configure" /\ Done = 12)
  BY LoopPlace, StepsWork
<1>2. /\ db' = db /\ contracts' = contracts /\ interrupted' = interrupted
      /\ Home'["EmergencyAdmin"] = Home["EmergencyAdmin"]
      /\ \A v \in {"PoolAdmin", "ATokensAndRatesHelper"} :
           /\ v \in DOMAIN local' <=> v \in DOMAIN local
           /\ v \in DOMAIN local => local'[v] = local[v]
  BY LoopHome, FrameLoops DEF Slots, Core
<1>3. \A x : /\ AdminFor(x)' <=> AdminFor(x)
             /\ Names(x)' <=> Names(x)
  BY <1>2 DEF AdminFor, Names, Deployer, Address
<1>4. AdminFor(Home["PoolAdmin"])' \/ (Taken' /\ Names(Home["PoolAdmin"])')
  <2>1. CASE Now.op = "list"
    <3>1. slots' = slots /\ ~Taken
      BY <2>1, LoopEffects DEF Taken
    <3>2. AdminFor(Home["PoolAdmin"])
      BY <1>1, <3>1 DEF AdminsSet, Ending
    <3> QED
      BY <1>2, <3>1, <3>2 DEF AdminFor, Names, Deployer, Address, Home
  <2>2. CASE Now.op = "configure" /\ ~Taken
    <3>1. /\ slots' = [slots EXCEPT ![Provider]["PoolAdmin"] = local["ATokensAndRatesHelper"]]
          /\ local' = Put(local, "tokens", Unconfigured(target))
      BY <2>2, LoopEffects
    <3>2. Home'["PoolAdmin"] = db["ATokensAndRatesHelper"]
      <4>1. local["ATokensAndRatesHelper"] = db["ATokensAndRatesHelper"]
        BY <1>1, <2>2 DEF AdminsSet, IsLocal
      <4>2. Provider = db[provider] /\ db[provider] \in DOMAIN slots /\ Home' = slots'[db[provider]]
            /\ DOMAIN slots[db[provider]] = Slots /\ "PoolAdmin" \in Slots
        BY LoopPlace, LoopHome DEF Fresh, Core, OnChain, Slots
      <4> QED
        BY <3>1, <4>1, <4>2
    <3>3. Names(db["ATokensAndRatesHelper"])
      BY <1>1 DEF HelperEntered, Past
    <3>4. Taken'
      BY <1>1, <2>2, <3>1 DEF Taken, Put
    <3> QED
      BY <1>2, <3>2, <3>3, <3>4 DEF Names
  <2>3. CASE Now.op = "configure" /\ Taken
    <3>1. slots' = slots /\ \E y : local' = Put(local, "tokens", y)
      BY <2>3, LoopEffects
    <3>2. AdminFor(Home["PoolAdmin"]) \/ Names(Home["PoolAdmin"])
      BY <1>1 DEF AdminsSet, Ending
    <3>3. Taken'
      BY <1>1, <2>3, <3>1 DEF Taken, Put
    <3> QED
      BY <1>2, <3>1, <3>2, <3>3 DEF AdminFor, Names, Deployer, Address, Home
  <2> QED
    BY <1>1, <2>1, <2>2, <2>3
<1>5. ASSUME "PoolAdmin" \in DOMAIN local' PROVE AdminFor(local["PoolAdmin"])'
  BY <1>1, <1>2, <1>5 DEF AdminsSet, AdminFor, Names, Deployer, Address
<1>6. Home'["EmergencyAdmin"] = Address(getEmergencyAdmin(target))'
  BY <1>1, <1>2 DEF AdminsSet, Ending
<1>7. Done' = 12 => IsLocal("ATokensAndRatesHelper", db["ATokensAndRatesHelper"])'
  BY <1>1, <1>2 DEF AdminsSet, IsLocal
<1> HIDE DEF AdminFor
<1> QED
  BY <1>1, <1>4, <1>5, <1>6, <1>7 DEF AdminsSet

LEMMA RegisteredMoves == Core /\ MarketRegistered /\ Moves => MarketRegistered'
<1> SUFFICES ASSUME Core, MarketRegistered, Moves PROVE MarketRegistered'
  OBVIOUS
<1> DEFINE r == Len(Registration(target))
<1>1. /\ Live /\ Begun /\ Live' /\ Begun' /\ Done \in Nat /\ At' = At /\ Done' = Done + 1
      /\ At \in Int /\ target' = target /\ Now = Task[Done + 1]
  BY Position DEF Core
<1>2. r' = r /\ Market' = Market
  BY <1>1 DEF Market
<1>3. Market /\ ~target.skipRegistry /\ At = 1 => r \in Nat /\ r >= 3 /\ Task[r] = Register[1]
  <2> SUFFICES ASSUME Market, ~target.skipRegistry, At = 1
               PROVE  r \in Nat /\ r >= 3 /\ Task[r] = Register[1]
    OBVIOUS
  <2>1. Opening(Task, target)
    BY OpeningSteps
  <2>2. r \in 3 .. Len(Task) /\ Task[r] = Register[1] /\ Len(Task) \in Nat
    BY <2>1, ProgramLen DEF Opening, Market
  <2> QED
    BY <2>2
<1> HIDE DEF r
<1>4. ASSUME Market, ~target.skipRegistry, At > 1 \/ (At = 1 /\ Done + 1 >= r)
      PROVE  \E pair \in registered' : pair[2] = db'[provider]
  <2>1. Past(1, 2)
    BY <1>1, <1>3, <1>4 DEF Past
  <2>2. db'[provider] = db[provider]
    BY <2>1, AtHome
  <2>3. CASE At = 1 /\ Done + 1 = r
    <3>1. Now.op = "register"
      BY <1>1, <1>3, <1>4, <2>3 DEF Register
    <3>2. Provider = db[provider]
      BY <2>1, <3>1, AtHome
    <3>3. <<local[registry], Provider>> \in registered'
      BY <3>1, Effects
    <3> QED
      BY <2>2, <3>2, <3>3
  <2>4. CASE At > 1 \/ (At = 1 /\ Done >= r)
    <3>1. \E pair \in registered : pair[2] = db[provider]
      BY <1>1, <1>4, <2>4 DEF MarketRegistered, Past, r
    <3>2. registered \subseteq registered'
      BY Effects
    <3> QED
      BY <2>2, <3>1, <3>2
  <2> QED
    BY <1>1, <1>3, <1>4, <2>3, <2>4
<1> QED
  BY <1>1, <1>2, <1>4 DEF MarketRegistered, Past, r

LEMMA PoolStepsAt ==
  ASSUME OnTrack, Begun, Market, At = 2
  PROVE  /\ Task[PoolAt(target) - 2] = Upgrade("LendingPool", "LendingPoolImpl")[1]
         /\ Task[ConfAt(target) - 2]
              = Upgrade("LendingPoolConfigurator", "LendingPoolConfiguratorImpl")[1]
         /\ \E i \in 1 .. ConfAt(target) - 3 : Assigns(Task[i], "LendingPoolConfiguratorImpl")
         /\ Task[Len(Task)] = SetPoolPause(FALSE, getEmergencyAdmin(target))[1]
<1>1. PoolTask(Task, target)
  BY PoolSteps
<1> QED
  BY <1>1 DEF PoolTask, PoolAt, ConfAt

LEMMA ProxiesMoves == Core /\ ProxiesMade /\ Moves => ProxiesMade'
<1> SUFFICES ASSUME Core, ProxiesMade, Moves PROVE ProxiesMade'
  OBVIOUS
<1> DEFINE k    == PoolAt(target)
           c    == ConfAt(target)
           p    == db[provider]
           pool == Home["LendingPool"]
           conf == Home["LendingPoolConfigurator"]
<1>1. /\ Live /\ Begun /\ Live' /\ Begun' /\ Done \in Nat /\ At' = At /\ Done' = Done + 1
      /\ At \in Int /\ target' = target /\ Now = Task[Done + 1] /\ OnTrack /\ Task' = Task
  BY Position DEF Core
<1>2. k' = k /\ c' = c /\ Market' = Market
  BY <1>1 DEF Market
<1>3. Market /\ At = 2 => /\ k \in Nat /\ c \in Nat /\ 4 <= k /\ k + 4 <= c
                          /\ Task[k - 2] = Upgrade("LendingPool", "LendingPoolImpl")[1]
                          /\ Task[c - 2] = Upgrade("LendingPoolConfigurator",
                                                   "LendingPoolConfiguratorImpl")[1]
                          /\ \E i \in 1 .. c - 3 : Assigns(Task[i], "LendingPoolConfiguratorImpl")
  BY <1>1, PoolSteps, PoolStepsAt
<1>4. /\ \A i \in 1 .. Len(contracts) : i \in 1 .. Len(contracts') /\ contracts'[i] = contracts[i]
      /\ \A x \in DOMAIN pools : x \in DOMAIN pools'
  BY FrameContracts, FramePools DEF Core
<1>5. Market /\ Now.op = "upgrade" =>
        /\ At = 2
        /\ \/ Done + 1 = k - 2 /\ Now.arg = "LendingPool"
           \/ Done + 1 = c - 2 /\ Now.arg = "LendingPoolConfigurator"
  BY MarketSteps DEF ProxySteps, Step, Core
<1> HIDE DEF k, c
<1>6. ASSUME Market, At > 2 \/ (At = 2 /\ Done + 1 >= k - 2)
      PROVE  /\ Past(1, 2) /\ p' = p
             /\ pool' \in 1 .. Len(contracts') /\ pool' \in DOMAIN pools'
             /\ contracts'[pool'].kind = "LendingPool" /\ p \in contracts'[pool'].uses
             /\ At > 2 \/ Done >= k - 2 => pool' = pool
  <2>1. Past(1, 2)
    BY <1>1, <1>6 DEF Past
  <2>2. p' = p
    BY <2>1, AtHome
  <2>3. CASE At = 2 /\ Done + 1 = k - 2
    <3>1. Now.op = "upgrade" /\ Now.arg = "LendingPool"
      BY <1>1, <1>3, <1>6, <2>3 DEF Upgrade
    <3>2. Home'["LendingPool"] = NewAddress /\ Provider = p
      BY <2>1, <3>1, AtHome DEF Slots
    <3>3. /\ NewAddress \in 1 .. Len(contracts') /\ contracts'[NewAddress].kind = "LendingPool"
          /\ Provider \in contracts'[NewAddress].uses
      BY <3>1, FrameContracts DEF Core, Made
    <3>4. NewAddress \in DOMAIN pools'
      BY <3>1, FramePools DEF Core
    <3> QED
      BY <1>1, <1>3, <1>6, <2>1, <2>2, <2>3, <3>2, <3>3, <3>4
  <2>4. CASE At > 2 \/ (At = 2 /\ Done >= k - 2)
    <3>1. pool' = pool
      <4>1. ~(Now.op = "upgrade" /\ Now.arg = "LendingPool")
        BY <1>1, <1>3, <1>5, <1>6, <2>4
      <4> QED
        BY <1>6, <2>1, <4>1, HomeProxy DEF Proxies
    <3>2. PoolOnChain(p)
      BY <1>1, <1>6, <2>4 DEF ProxiesMade, Past, k
    <3>3. pool \in 1 .. Len(contracts) /\ pool \in DOMAIN pools
          /\ contracts[pool].kind = "LendingPool" /\ p \in contracts[pool].uses
      BY <3>2 DEF PoolOnChain, Home
    <3>4. pool \in 1 .. Len(contracts') /\ contracts'[pool] = contracts[pool] /\ pool \in DOMAIN pools'
      BY <1>4, <3>3
    <3> HIDE DEF p, pool
    <3> QED
      BY <2>1, <2>2, <3>1, <3>3, <3>4
  <2> QED
    BY <1>1, <1>3, <1>6, <2>3, <2>4
<1>7. ASSUME Market, At > 2 \/ (At = 2 /\ Done + 1 >= c - 2)
      PROVE  /\ conf' \in 1 .. Len(contracts')
             /\ \E impl \in 1 .. Len(contracts') :
                  /\ contracts'[impl].kind = "LendingPoolConfiguratorImpl"
                  /\ contracts'[conf'].uses = {impl, p, pool'}
  <2>1. Past(1, 2) /\ pool' = pool
    BY <1>1, <1>3, <1>6, <1>7
  <2>2. CASE At = 2 /\ Done + 1 = c - 2
    <3>1. /\ Now.op = "upgrade" /\ Now.arg = "LendingPoolConfigurator"
          /\ Now.var = "LendingPoolConfiguratorImpl"
      BY <1>1, <1>3, <1>7, <2>2 DEF Upgrade
    <3>2. conf' = NewAddress /\ Provider = p
      BY <2>1, <3>1, AtHome DEF Slots
    <3>3. PICK i \in 1 .. c - 3 : Assigns(Task[i], "LendingPoolConfiguratorImpl")
      BY <1>3, <1>7, <2>2
    <3>4. i \in 1 .. Done
      BY <1>1, <1>3, <1>7, <2>2
    <3>5. "LendingPoolConfiguratorImpl" \in Impls \cap DOMAIN local
      BY <1>1, <3>3, <3>4 DEF Core, Locals, Assigns, Impls
    <3> DEFINE impl == local["LendingPoolConfiguratorImpl"]
    <3>6. impl \in 1 .. Len(contracts) /\ contracts[impl].kind = "LendingPoolConfiguratorImpl"
      BY <1>1, <3>5 DEF Core, Locals
    <3>7. /\ NewAddress \in 1 .. Len(contracts')
          /\ contracts'[NewAddress].uses = {impl, Provider} \cup {slots[Provider]["LendingPool"]}
      BY <3>1, FrameContracts DEF Core, Made
    <3>8. slots[Provider]["LendingPool"] = pool
      BY <3>2 DEF Home
    <3>9. impl \in 1 .. Len(contracts') /\ contracts'[impl].kind = "LendingPoolConfiguratorImpl"
      BY <1>4, <3>6
    <3> HIDE DEF impl, p, pool, conf
    <3> QED
      BY <2>1, <3>2, <3>7, <3>8, <3>9
  <2>3. CASE At > 2 \/ (At = 2 /\ Done >= c - 2)
    <3>1. conf' = conf
      <4>1. ~(Now.op = "upgrade" /\ Now.arg = "LendingPoolConfigurator")
        BY <1>1, <1>3, <1>5, <1>7, <2>3
      <4> QED
        BY <1>7, <2>1, <4>1, HomeProxy DEF Proxies
    <3>2. ConfOnChain(p)
      BY <1>1, <1>7, <2>3 DEF ProxiesMade, Past, c
    <3>3. conf \in 1 .. Len(contracts)
          /\ \E impl \in 1 .. Len(contracts) :
               /\ contracts[impl].kind = "LendingPoolConfiguratorImpl"
               /\ contracts[conf].uses = {impl, p, pool}
      BY <3>2 DEF ConfOnChain, Home
    <3> HIDE DEF p, pool, conf
    <3> QED
      BY <1>4, <2>1, <3>1, <3>3
  <2>4. (At = 2 /\ Done + 1 = c - 2) \/ At > 2 \/ (At = 2 /\ Done >= c - 2)
    BY <1>1, <1>3, <1>7
  <2> QED
    BY <2>2, <2>3, <2>4
<1>8. ASSUME Market, At > 2 \/ (At = 2 /\ Done + 1 >= c - 2) PROVE p' = p
  BY <1>1, <1>3, <1>6, <1>8
<1>9. Market' /\ Past(2, PoolAt(target) - 2)' => PoolOnChain(db[provider])'
  BY <1>1, <1>2, <1>6 DEF Past, PoolOnChain, Home, k
<1>10. Market' /\ Past(2, ConfAt(target) - 2)' => ConfOnChain(db[provider])'
  BY <1>1, <1>2, <1>7, <1>8 DEF Past, ConfOnChain, Home, c
<1> QED
  BY <1>9, <1>10 DEF ProxiesMade

(* A configurator's pool is the one its provider holds.                     *)
LEMMA PoolOfConfigurator ==
  ASSUME OnChain, NEW p \in DOMAIN slots, PoolOnChain(p), ConfOnChain(p)
  PROVE  PoolOf(slots[p]["LendingPoolConfigurator"]) = slots[p]["LendingPool"]
<1> DEFINE pool == slots[p]["LendingPool"]
           conf == slots[p]["LendingPoolConfigurator"]
<1>1. contracts[pool].kind = "LendingPool"
  BY DEF PoolOnChain
<1>2. contracts[p].kind = "LendingPoolAddressesProvider"
  BY DEF OnChain, provider
<1>3. PICK impl \in 1 .. Len(contracts) : /\ contracts[impl].kind = "LendingPoolConfiguratorImpl"
                                          /\ contracts[conf].uses = {impl, p, pool}
  BY DEF ConfOnChain
<1>4. Linked(conf, "LendingPool") = {pool}
  BY <1>1, <1>2, <1>3 DEF Linked
<1> HIDE DEF pool, conf
<1>5. PoolOf(conf) = pool
  BY <1>4 DEF PoolOf
<1> QED
  BY <1>5 DEF pool, conf

(* Whoever pauses, lists or configures reaches the pool of the json's       *)
(* provider.                                                                *)
LEMMA PoolReached ==
  ASSUME Core, Entries, ProxiesMade, ReservesIn, Moves \/ Loops,
         Now.op \in {"pause", "list", "configure"}
  PROVE  /\ Market /\ At >= 2 /\ Past(1, 2) /\ PoolOnChain(db[provider])
         /\ Now.op \in {"pause", "list"} => PoolOf(local["LendingPoolConfigurator"]) = Home["LendingPool"]
         /\ Now.op \in {"list", "configure"} => Provider = db[provider]
<1>1. /\ Live /\ Begun /\ Done \in Nat /\ At \in Int
  BY Standing DEF Core
<1>2. At >= 2
  <2>1. CASE At <= 0
    BY <2>1, NowFits DEF Core, Fit, Acting
  <2>2. CASE At = 1
    BY <2>2, NowFits DEF Core, Fit, Mine, Save
  <2> QED
    BY <1>1, <2>1, <2>2
<1>3. Market
  BY <1>2, NowFits DEF Core, Fit, Acting
<1>4. Past(1, 2)
  BY <1>1, <1>2 DEF Past
<1>5. \/ At = 2 /\ Done >= ConfAt(target) /\ Now.op = "pause"
      \/ At = 6 /\ Done = 9 /\ Now.op = "list"
      \/ At = 6 /\ Now.op = "configure"
      \/ At > 6 /\ Done = 1 /\ OpenPool(Task, target) /\ Now.op = "pause"
  BY <1>1, <1>3, MarketSteps DEF ProxySteps, Step, Core
<1>6. At = 2 => PoolAt(target) + 4 <= ConfAt(target) /\ ConfAt(target) \in Nat /\ PoolAt(target) \in Nat
  BY <1>1, <1>3, PoolSteps DEF Core
<1>7. PoolOnChain(db[provider]) /\ ConfOnChain(db[provider])
  <2>1. Past(2, PoolAt(target) - 2) /\ Past(2, ConfAt(target) - 2)
    BY <1>1, <1>5, <1>6 DEF Past
  <2> QED
    BY <1>3, <2>1 DEF ProxiesMade
<1>8. Now.op \in {"pause", "list"} => local["LendingPoolConfigurator"] = Home["LendingPoolConfigurator"]
  <2>1. CASE At = 2 /\ Done >= ConfAt(target)
    BY <1>1, <1>3, <1>6, <2>1 DEF Entries, ConfEntered, IsLocal
  <2>2. CASE At = 6 /\ Done = 9
    BY <1>1, <1>3, <2>2 DEF ReservesIn, IsLocal
  <2>3. CASE At > 6 /\ Done = 1 /\ OpenPool(Task, target)
    BY <1>1, <1>3, <2>3 DEF ReservesIn, IsLocal
  <2> QED
    BY <1>5, <2>1, <2>2, <2>3
<1>9. PoolOf(Home["LendingPoolConfigurator"]) = Home["LendingPool"]
  <2>1. db[provider] \in DOMAIN slots /\ OnChain
    BY <1>1, <1>4 DEF Core, ProviderEntered, Live
  <2> QED
    BY <1>7, <2>1, PoolOfConfigurator DEF Home
<1>10. Now.op \in {"list", "configure"} => Provider = db[provider]
  BY <1>1, <1>4, ProviderAssigned DEF Core, ProviderInHand, Provider
<1> QED
  BY <1>2, <1>3, <1>4, <1>7, <1>8, <1>9, <1>10

Shaped(r) == r = [paused |-> r.paused, listed |-> r.listed, configured |-> r.configured]

LEMMA PoolMoves ==
  ASSUME Core, Entries, ProxiesMade, ReservesIn, Moves, Market, Past(1, 2), Home["LendingPool"] # 0
  PROVE  /\ Home'["LendingPool"] = Home["LendingPool"]
         /\ Shaped(PoolState')
         /\ PoolState'.paused = IF Now.op = "pause" THEN Now.arg ELSE PoolState.paused
         /\ PoolState'.listed = PoolState.listed
         /\ PoolState'.configured = PoolState.configured
<1> DEFINE pool == Home["LendingPool"]
           r    == PoolState
<1>1. db[provider] \in DOMAIN slots /\ pool \in DOMAIN pools
  BY AtHome DEF Core, OnChain, Home
<1>2. Home'["LendingPool"] = pool
  <2>1. ~(Now.op = "upgrade" /\ Now.arg = "LendingPool")
    BY AtHome DEF Slots
  <2> QED
    BY <2>1, HomeProxy DEF Proxies
<1>3. r = pools[pool] /\ PoolState' = pools'[pool]
  BY <1>2 DEF PoolState
<1>4. Shaped(r)
  BY DEF ReservesIn, Shaped
<1> HIDE DEF pool, r
<1>5. CASE Now.op = "pause"
  <2>1. pools' = [pools EXCEPT ![pool].paused = Now.arg]
    <3>1. PoolOf(local["LendingPoolConfigurator"]) = pool
      BY <1>5, PoolReached DEF pool
    <3>2. pools' = [pools EXCEPT ![PoolOf(local["LendingPoolConfigurator"])].paused = Now.arg]
      BY <1>5, Effects
    <3> QED
      BY <3>1, <3>2
  <2>2. PoolState' = [r EXCEPT !.paused = Now.arg]
    BY <1>1, <1>3, <2>1
  <2> QED
    BY <1>2, <1>4, <1>5, <2>2 DEF Shaped, pool, r
<1>6. CASE Now.op # "pause"
  <2>1. pools'[pool] = pools[pool]
    BY <1>1, <1>6, FramePools DEF Core
  <2>2. PoolState' = r
    BY <1>3, <2>1
  <2> QED
    BY <1>2, <1>4, <1>6, <2>2 DEF Shaped, pool, r
<1> QED
  BY <1>5, <1>6

(* What the loops still have to do on the pool of the json's provider.      *)
LEMMA PoolLeft ==
  ASSUME Core, Entries, ProxiesMade, ReservesIn, Moves \/ Loops, Now.op \in {"list", "configure"}
  PROVE  /\ Pool = Home["LendingPool"] /\ Pool # 0 /\ Pool \in DOMAIN pools
         /\ Market /\ Past(1, 2) /\ Shaped(PoolState)
         /\ Unlisted(target) = Listable(target) \ PoolState.listed
         /\ ConfiguredOf(target) \ Unconfigured(target) \subseteq PoolState.configured
         /\ Unconfigured(target) \subseteq ConfiguredOf(target)
<1>1. /\ Market /\ Past(1, 2) /\ PoolOnChain(db[provider]) /\ Provider = db[provider]
  BY PoolReached
<1>2. Pool = Home["LendingPool"]
  BY <1>1 DEF Pool, Home
<1>3. Pool # 0 /\ Pool \in DOMAIN pools
  <2>1. Pool \in 1 .. Len(contracts) /\ Len(contracts) \in Nat /\ Pool \in DOMAIN pools
    BY <1>1, <1>2, ProgramLen DEF PoolOnChain, Home, Core, OnChain
  <2> QED
    BY <2>1
<1>4. Shaped(PoolState) /\ PoolState = pools[Pool]
  BY <1>1, <1>2, <1>3 DEF ReservesIn, Shaped, PoolState
<1> QED
  BY <1>1, <1>2, <1>3, <1>4 DEF Unlisted, Unconfigured, AlreadyEnabled

LEMMA PauseStepOf == ASSUME NEW val, NEW by PROVE SetPoolPause(val, by)[1].op = "pause" /\ SetPoolPause(val, by)[1].arg = val
BY DEF SetPoolPause

(* A pool is made open, with nothing in it.                                 *)
LEMMA PoolBegins ==
  ASSUME Core, Moves, Past(1, 2)', Past(1, 2) => Home["LendingPool"] = 0, Home'["LendingPool"] # 0
  PROVE  /\ Shaped(PoolState') /\ PoolState'.listed = {} /\ PoolState'.configured = {}
<1>1. /\ Live /\ Begun /\ Done \in Nat /\ At \in Int /\ Done' = Done + 1 /\ At' = At /\ Task' = Task
      /\ target' = target /\ Live'
  BY Position DEF Core
<1>2. Core'
  BY CoreNext
<1>3. Past(1, 2)
  <2> SUFFICES ASSUME ~Past(1, 2) PROVE FALSE
    OBVIOUS
  <2>1. At = 1 /\ Done = 1
    BY <1>1 DEF Past
  <2>2. 1 \in 1 .. Done' /\ Task[1].op \in Assigning /\ Task[1].var = provider
    BY <1>1, <2>1, AtHand DEF Core, Opening, Mine, Assigning
  <2>3. provider \in DOMAIN local'
    BY <1>1, <1>2, <2>2 DEF Core, Locals
  <2>4. local'[provider] = db'[provider] /\ slots'[local'[provider]]["LendingPool"] = 0
    BY <1>1, <1>2, <2>1, <2>3 DEF Core, ProviderInHand
  <2> QED
    BY <2>4 DEF Home
<1>4. Now.op = "upgrade" /\ Now.arg = "LendingPool" /\ Home'["LendingPool"] = NewAddress
  <2>1. "LendingPool" \in Slots
    BY DEF Slots
  <2>2. Now.op = "write" => Now.arg # "LendingPool"
    BY NowFits DEF Core, Regular, Proxies
  <2> QED
    BY <1>3, <2>1, <2>2, AtHome
<1>5. NewAddress \in DOMAIN pools' /\ NewAddress \notin DOMAIN pools
  BY <1>4, FramePools, FrameContracts DEF Core, OnChain
<1> DEFINE new == [paused |-> FALSE, listed |-> {}, configured |-> {}]
<1>6. Shaped(new) /\ new.listed = {} /\ new.configured = {}
  BY DEF Shaped
<1>7. pools'[NewAddress] = new
  BY <1>5, FramePools DEF Core
<1> HIDE DEF new
<1>8. PoolState' = new
  BY <1>4, <1>7 DEF PoolState
<1> QED
  BY <1>6, <1>8

LEMMA ReservesMoves == Core /\ Entries /\ ProxiesMade /\ ReservesIn /\ Moves => ReservesIn'
<1> SUFFICES ASSUME Core, Entries, ProxiesMade, ReservesIn, Moves PROVE ReservesIn'
  OBVIOUS
<1> DEFINE m    == Len(todo)
           conf == "LendingPoolConfigurator"
           open == FALSE
           r    == PoolState
<1>1. /\ Live /\ Begun /\ Done \in Nat /\ At \in Int /\ Done' = Done + 1 /\ At' = At /\ Task' = Task
      /\ target' = target /\ Live' /\ Begun' /\ m \in Nat /\ Len(todo') = m - 1 /\ m # 0
      /\ Now = Task[Done + 1] /\ m = Len(Task) - Done /\ Len(Task) \in Nat
  BY Position DEF Core
<1>2. Market' = Market
  BY <1>1 DEF Market
<1>3. Market /\ At = 2 => /\ PoolAt(target) \in Nat /\ PoolAt(target) + 7 <= Len(Task)
                          /\ Now.op = "pause" => Done >= PoolAt(target)
  <2> SUFFICES ASSUME Market, At = 2
               PROVE  /\ PoolAt(target) \in Nat /\ PoolAt(target) + 7 <= Len(Task)
                      /\ Now.op = "pause" => Done >= PoolAt(target)
    OBVIOUS
  <2>1. Now.op = "pause" => Done >= ConfAt(target)
    BY <1>1, MarketSteps DEF Core, ProxySteps
  <2> DEFINE n == Len(Task)
  <2>2. /\ PoolAt(target) \in Nat /\ ConfAt(target) \in Nat /\ HelperAt(target) \in Nat /\ n \in Nat
        /\ PoolAt(target) + 4 <= ConfAt(target) /\ ConfAt(target) + 2 <= HelperAt(target)
        /\ HelperAt(target) + 1 <= n
    BY <1>1, PoolSteps DEF Core
  <2> HIDE DEF n
  <2>3. PoolAt(target) + 7 <= n
    BY <2>2
  <2>4. Now.op = "pause" => Done >= PoolAt(target)
    BY <1>1, <2>1, <2>2
  <2> QED
    BY <2>2, <2>3, <2>4 DEF n
<1>4. ASSUME Market, At > 2 \/ (At = 2 /\ m = 1) PROVE Past(1, 2) /\ Home["LendingPool"] # 0
  <2>1. Past(1, 2)
    BY <1>1, <1>4 DEF Past
  <2>2. Past(2, PoolAt(target) - 2)
    BY <1>1, <1>3, <1>4 DEF Past
  <2>3. PoolOnChain(db[provider])
    BY <1>4, <2>2 DEF ProxiesMade
  <2>4. Home["LendingPool"] \in 1 .. Len(contracts) /\ Len(contracts) \in Nat
    BY <2>3, FrameContracts DEF PoolOnChain, Home, Core
  <2>5. Home["LendingPool"] # 0
    BY <2>4
  <2> QED
    BY <2>1, <2>5
<1>5. ASSUME Market, Past(1, 2), Home["LendingPool"] # 0
      PROVE  /\ Shaped(r) /\ r.listed \subseteq Listable(target) /\ r.configured \subseteq ConfiguredOf(target)
  BY <1>5 DEF ReservesIn, Shaped
<1>6. ASSUME Market, Past(1, 2)', Home'["LendingPool"] # 0
      PROVE  /\ Shaped(r') /\ r'.listed \subseteq Listable(target)
             /\ r'.configured \subseteq ConfiguredOf(target)
  <2>1. CASE Past(1, 2) /\ Home["LendingPool"] # 0
    BY <1>5, <1>6, <2>1, PoolMoves
  <2>2. CASE ~(Past(1, 2) /\ Home["LendingPool"] # 0)
    BY <1>6, <2>2, PoolBegins
  <2> QED
    BY <2>1, <2>2
<1>7. ASSUME Market, At > 2 \/ (At = 2 /\ m - 1 <= 0) PROVE r'.paused = FALSE
  <2>1. m = 1 \/ At # 2
    BY <1>1, <1>7
  <2>2. Past(1, 2) /\ Home["LendingPool"] # 0
    BY <1>1, <1>4, <1>7, <2>1
  <2>3. /\ Now.op = "pause" => r'.paused = Now.arg
        /\ Now.op # "pause" => r'.paused = r.paused
    BY <1>7, <2>2, PoolMoves
  <2>4. CASE At = 2 /\ m = 1
    <3>1. Task[Len(Task)] = SetPoolPause(open, getEmergencyAdmin(target))[1]
      BY <1>1, <1>7, <2>4, PoolStepsAt DEF Core
    <3> HIDE DEF open
    <3>2. Done + 1 = Len(Task)
      <4> DEFINE n == Len(Task)
      <4>1. Done \in Nat /\ n \in Nat /\ 1 = n - Done
        BY <1>1, <2>4
      <4> HIDE DEF n
      <4>2. Done + 1 = n
        BY <4>1
      <4> QED
        BY <4>2 DEF n
    <3>3. Now.op = "pause" /\ Now.arg = open
      BY <1>1, <3>1, <3>2, PauseStepOf
    <3>4. r'.paused = open
      BY <2>3, <3>3
    <3> QED
      BY <3>4 DEF open
  <2>5. CASE At > 2
    <3>1. r.paused = FALSE
      BY <1>1, <1>7, <2>5 DEF ReservesIn, Ending
    <3>2. CASE Now.op = "pause"
      <4>1. Done + 1 = 2 /\ OpenPool(Task, target)
        BY <1>1, <1>7, <2>5, <3>2, MarketSteps DEF Core, ProxySteps, Step
      <4>2. Task[2] = SetPoolPause(open, getEmergencyAdmin(target))[1]
        BY <4>1 DEF OpenPool
      <4> HIDE DEF open
      <4>3. Now.arg = open
        BY <1>1, <4>1, <4>2, PauseStepOf
      <4>4. r'.paused = open
        BY <2>3, <3>2, <4>3
      <4> QED
        BY <4>4 DEF open
    <3>3. CASE Now.op # "pause"
      BY <2>3, <3>1, <3>3
    <3> QED
      BY <3>2, <3>3
  <2> QED
    BY <1>7, <2>1, <2>4, <2>5
<1>8. ASSUME Market, At > 6 \/ (At = 6 /\ Done + 1 >= 10) PROVE r'.listed = Listable(target)
  <2>1. /\ Past(1, 2) /\ Home["LendingPool"] # 0
    BY <1>1, <1>4, <1>8
  <2>2. /\ r'.listed = r.listed
        /\ r.listed \subseteq Listable(target)
    BY <1>5, <1>8, <2>1, PoolMoves
  <2>3. CASE At = 6 /\ Done + 1 = 10
    <3>1. Now = BatchInitReserve[1]
      BY <1>1, <1>8, <2>3, AtHand DEF Core, InitTask
    <3>2. Now.op = "list"
      BY <3>1 DEF BatchInitReserve
    <3>3. Unlisted(target) = {}
      BY <3>2, Effects
    <3>4. Unlisted(target) = Listable(target) \ r.listed
      BY <3>2, PoolLeft
    <3> QED
      BY <2>2, <3>3, <3>4
  <2>4. CASE At > 6 \/ (At = 6 /\ Done >= 10)
    <3>1. r.listed = Listable(target)
      BY <1>1, <1>8, <2>4 DEF ReservesIn, Past
    <3> QED
      BY <2>2, <3>1
  <2> QED
    BY <1>1, <1>8, <2>3, <2>4
<1>9. ASSUME Market, At > 6 \/ (At = 6 /\ Done + 1 >= 13) PROVE r'.configured = ConfiguredOf(target)
  <2>1. /\ Past(1, 2) /\ Home["LendingPool"] # 0
    BY <1>1, <1>4, <1>9
  <2>2. /\ r'.configured = r.configured
        /\ r.configured \subseteq ConfiguredOf(target)
    BY <1>5, <1>9, <2>1, PoolMoves
  <2>3. CASE At = 6 /\ Done + 1 = 13
    <3>1. Now = ConfigureReserves[1]
      BY <1>1, <1>9, <2>3, AtHand DEF Core, InitTask
    <3>2. Now.op = "configure"
      BY <3>1 DEF ConfigureReserves
    <3>3. ConfiguredOf(target) \subseteq r.configured
      <4>1. CASE Taken
        <5>1. local["tokens"] = {}
          BY <3>2, <4>1, Effects
        <5>2. /\ Done = 12 /\ "tokens" \in DOMAIN local
          BY <1>1, <2>3, <4>1 DEF Taken
        <5>3. ConfiguredOf(target) \ local["tokens"] \subseteq r.configured
          BY <1>1, <2>3, <5>2 DEF ReservesIn
        <5> QED
          BY <5>1, <5>3
      <4>2. CASE ~Taken
        <5>1. Unconfigured(target) = {}
          BY <3>2, <4>2, Effects
        <5>2. ConfiguredOf(target) \ Unconfigured(target) \subseteq r.configured
          BY <3>2, PoolLeft
        <5> QED
          BY <5>1, <5>2
      <4> QED
        BY <4>1, <4>2
    <3> QED
      BY <2>2, <3>3
  <2>4. CASE At > 6 \/ (At = 6 /\ Done >= 13)
    <3>1. r.configured = ConfiguredOf(target)
      BY <1>1, <1>9, <2>4 DEF ReservesIn, Past
    <3> QED
      BY <2>2, <3>1
  <2> QED
    BY <1>1, <1>9, <2>3, <2>4
<1>10. ASSUME Market, \/ At = 6 /\ Done + 1 = 9
                      \/ At > 6 /\ Done + 1 = 1 /\ OpenPool(Task, target)
       PROVE  conf \in DOMAIN local' /\ local'[conf] = Home'[conf]
  <2>1. Now = Load(conf, conf)[1]
    <3>1. CASE At = 6 /\ Done + 1 = 9
      BY <1>1, <1>10, <3>1, AtHand DEF Core, InitTask
    <3>2. CASE At > 6 /\ Done + 1 = 1 /\ OpenPool(Task, target)
      BY <1>1, <3>2 DEF OpenPool
    <3> QED
      BY <1>10, <3>1, <3>2
  <2>2. Now.op = "load" /\ Now.arg = conf /\ Now.var = conf
    BY <2>1 DEF Load
  <2>3. conf \in DOMAIN local' /\ local'[conf] = db[conf]
    BY <2>2, FrameJson DEF Assigning
  <2>4. Past(1, 2) /\ Past(2, ConfAt(target))
    BY <1>1, <1>10 DEF Past
  <2>5. db[conf] = Home[conf]
    BY <1>10, <2>4 DEF Entries, ConfEntered, IsEntered
  <2>6. Home'[conf] = Home[conf]
    BY <1>10, <2>2, <2>4, HomeProxy DEF Proxies
  <2> QED
    BY <2>3, <2>5, <2>6
<1>15. ASSUME "tokens" \in DOMAIN local'
       PROVE  /\ At = 6 /\ Done + 1 >= 12 /\ Done + 1 # 12
  <2>1. ~Assigns(Now, "tokens")
    BY NowFits DEF Core, Regular, Assigns
  <2>2. "tokens" \in DOMAIN local
    BY <1>15, <2>1, FrameJson
  <2> QED
    BY <1>1, <2>2 DEF ReservesIn
<1> HIDE DEF m, r
<1>11. Market' /\ Past(1, 2)' /\ Home'["LendingPool"] # 0 =>
         /\ r' = [paused |-> r'.paused, listed |-> r'.listed, configured |-> r'.configured]
         /\ r'.listed \subseteq Listable(target') /\ r'.configured \subseteq ConfiguredOf(target')
  BY <1>1, <1>2, <1>6 DEF Shaped
<1>12. Market' /\ Ending(2, 0)' => r'.paused = FALSE
  BY <1>1, <1>2, <1>7 DEF Ending
<1>13. /\ Market' /\ Past(6, 10)' => r'.listed = Listable(target')
       /\ Market' /\ Past(6, 13)' => r'.configured = ConfiguredOf(target')
  BY <1>1, <1>2, <1>8, <1>9 DEF Past
<1>14. /\ Market' /\ Live' /\ At' = 6 /\ Done' = 9 => IsLocal(conf, Home[conf])'
       /\ Market' /\ Live' /\ At' > 6 /\ Done' = 1 /\ OpenPool(Task', target') => IsLocal(conf, Home[conf])'
  BY <1>1, <1>2, <1>10 DEF IsLocal
<1>16. "tokens" \in DOMAIN local' => At' = 6 /\ Done' >= 12 /\ Done' # 12
  BY <1>1, <1>15
<1> QED
  BY <1>11, <1>12, <1>13, <1>14, <1>16 DEF ReservesIn, r

LEMMA ReservesLoops == Core /\ Entries /\ ProxiesMade /\ ReservesIn /\ Loops => ReservesIn'
<1> SUFFICES ASSUME Core, Entries, ProxiesMade, ReservesIn, Loops PROVE ReservesIn'
  OBVIOUS
<1> DEFINE r == PoolState
           pool == Home["LendingPool"]
<1>1. /\ Live /\ Live' /\ Begun /\ Begun' /\ Market /\ Market' /\ At = 6 /\ At' = 6 /\ target' = target
      /\ Done \in Nat /\ Done' = Done /\ Past(1, 2) /\ Provider = db[provider] /\ todo' = todo /\ Now' = Now
      /\ (Now.op = "list" /\ Done = 9) \/ (Now.op = "configure" /\ Done = 12)
  BY LoopPlace, StepsWork
<1>2. Home'["LendingPool"] = pool
      /\ Home'["LendingPoolConfigurator"] = Home["LendingPoolConfigurator"]
  BY LoopHome DEF Slots
<1>3. /\ Pool = pool /\ pool # 0 /\ pool \in DOMAIN pools /\ Shaped(r)
      /\ Unlisted(target) = Listable(target) \ r.listed
      /\ ConfiguredOf(target) \ Unconfigured(target) \subseteq r.configured
      /\ Unconfigured(target) \subseteq ConfiguredOf(target)
  BY <1>1, PoolLeft
<1>4. /\ r.listed \subseteq Listable(target) /\ r.configured \subseteq ConfiguredOf(target)
      /\ r.paused = FALSE
      /\ Done = 12 => r.listed = Listable(target)
      /\ Done = 9 => IsLocal("LendingPoolConfigurator", Home["LendingPoolConfigurator"])
      /\ "tokens" \in DOMAIN local =>
           /\ Done = 12 /\ local["tokens"] \subseteq ConfiguredOf(target)
           /\ ConfiguredOf(target) \ local["tokens"] \subseteq r.configured
  BY <1>1, <1>3 DEF ReservesIn, Past, Ending
<1>5. r = pools[pool] /\ r' = pools'[pool]
  BY <1>2 DEF PoolState
<1>6. slots[Provider]["LendingPool"] = pool
  BY <1>1 DEF Home
<1> HIDE DEF pool, r
<1>7. /\ Shaped(r') /\ r'.paused = r.paused
      /\ r'.listed \subseteq Listable(target) /\ r.listed \subseteq r'.listed
      /\ r'.configured \subseteq ConfiguredOf(target)
      /\ "tokens" \in DOMAIN local' =>
           /\ Done = 12 /\ local'["tokens"] \subseteq ConfiguredOf(target)
           /\ ConfiguredOf(target) \ local'["tokens"] \subseteq r'.configured
      /\ Done = 9 => local' = local
  <2>1. CASE Now.op = "list"
    <3>1. PoolOf(local["LendingPoolConfigurator"]) = pool
      BY <2>1, PoolReached DEF pool
    <3>2. PICK s \in Unlisted(target) :
            pools' = [pools EXCEPT ![PoolOf(local["LendingPoolConfigurator"])].listed = @ \cup {s}]
      BY <2>1, LoopEffects
    <3>3. r' = [r EXCEPT !.listed = @ \cup {s}]
      BY <1>3, <1>5, <3>1, <3>2
    <3>4. /\ Shaped(r') /\ r'.paused = r.paused /\ r'.listed = r.listed \cup {s}
          /\ r'.configured = r.configured
      BY <1>3, <3>3 DEF Shaped
    <3>5. local' = local
      BY <2>1, LoopEffects
    <3>6. s \in Listable(target)
      BY <1>3, <3>2
    <3> QED
      BY <1>1, <1>4, <2>1, <3>4, <3>5, <3>6
  <2>2. CASE Now.op = "configure" /\ ~Taken
    <3>1. pools' = pools /\ local' = Put(local, "tokens", Unconfigured(target))
      BY <2>2, LoopEffects
    <3>2. r' = r
      BY <1>5, <3>1
    <3>3. local'["tokens"] = Unconfigured(target)
      BY <3>1 DEF Put
    <3> QED
      BY <1>1, <1>3, <1>4, <2>2, <3>2, <3>3
  <2>3. CASE Now.op = "configure" /\ Taken
    <3>1. PICK s \in local["tokens"] :
            /\ pools' = [pools EXCEPT ![slots[Provider]["LendingPool"]].configured = @ \cup {s}]
            /\ local' = Put(local, "tokens", local["tokens"] \ {s})
      BY <2>3, LoopEffects
    <3>2. r' = [r EXCEPT !.configured = @ \cup {s}]
      BY <1>3, <1>5, <1>6, <3>1
    <3>3. /\ Shaped(r') /\ r'.paused = r.paused /\ r'.listed = r.listed
          /\ r'.configured = r.configured \cup {s}
      BY <1>3, <3>2 DEF Shaped
    <3>4. local'["tokens"] = local["tokens"] \ {s} /\ "tokens" \in DOMAIN local
      BY <2>3, <3>1 DEF Put, Taken
    <3>5. /\ Done = 12 /\ s \in ConfiguredOf(target)
          /\ local["tokens"] \subseteq ConfiguredOf(target)
          /\ ConfiguredOf(target) \ local["tokens"] \subseteq r.configured
      BY <1>4, <3>1, <3>4
    <3>6. /\ r'.configured \subseteq ConfiguredOf(target)
          /\ local'["tokens"] \subseteq ConfiguredOf(target)
          /\ ConfiguredOf(target) \ local'["tokens"] \subseteq r'.configured
      BY <1>4, <3>3, <3>4, <3>5
    <3> QED
      BY <1>4, <3>3, <3>5, <3>6
  <2> QED
    BY <1>1, <2>1, <2>2, <2>3
<1>8. Done = 12 => r'.listed = Listable(target)
  BY <1>4, <1>7
<1>9. ~Past(6, 13)' /\ (Past(6, 10)' => Done = 12)
  BY <1>1 DEF Past
<1>10. Done = 9 => IsLocal("LendingPoolConfigurator", Home["LendingPoolConfigurator"])'
  BY <1>2, <1>4, <1>7 DEF IsLocal
<1>11. r' = [paused |-> r'.paused, listed |-> r'.listed, configured |-> r'.configured]
  BY <1>7 DEF Shaped
<1>12. r'.paused = FALSE
  BY <1>4, <1>7
<1>13. "tokens" \in DOMAIN local' =>
          /\ At' = 6 /\ Done' >= 12
          /\ local'["tokens"] \subseteq ConfiguredOf(target)'
          /\ ConfiguredOf(target)' \ local'["tokens"] \subseteq r'.configured
  BY <1>1, <1>7
<1> QED
  BY <1>1, <1>7, <1>8, <1>9, <1>10, <1>11, <1>12, <1>13 DEF ReservesIn, r

LEMMA ManagerMoves == Core /\ ManagerSet /\ Moves => ManagerSet'
<1> SUFFICES ASSUME Core, ManagerSet, Moves PROVE ManagerSet'
  OBVIOUS
<1> DEFINE m == Len(todo)
           n == Len(Task)
           manager == "LendingPoolCollateralManager"
<1>1. /\ Live /\ Begun /\ Done \in Nat /\ At \in Int /\ At' = At /\ Begun'
      /\ target' = target /\ m \in Nat /\ Len(todo') = m - 1
      /\ Now = Task[Done + 1] /\ m = n - Done /\ n \in Nat
  BY Position DEF Core
<1>2. Market' = Market
  BY <1>1 DEF Market
<1> HIDE DEF m, n
<1>3. ASSUME Market, At > 6 \/ (At = 6 /\ m - 1 <= 4) PROVE Home'[manager] # 0
  <2>1. Past(1, 2) /\ manager \in Slots /\ manager \notin Proxies
    BY <1>1, <1>3 DEF Past, Slots, Proxies
  <2>2. Now.op # "upgrade" /\ (Now.op = "write" /\ Now.arg = manager => At = 6 /\ m = 5)
    BY <1>1, <1>3, MarketSteps DEF Core, ProxySteps, WriteSteps, m
  <2>3. CASE At = 6 /\ m = 5
    <3>1. InitTask(Task, target)
      BY <1>3, <2>3, AtHand DEF Core
    <3>2. /\ Task[n - 4] = Write(manager, manager)[1]
          /\ \E i \in 1 .. n - 4 - 1 : Assigns(Task[i], manager)
      BY <3>1 DEF InitTask, n
    <3>3. Done + 1 = n - 4
      BY <1>1, <2>3
    <3>4. Now.op = "write" /\ Now.arg = manager /\ Now.var = manager
      BY <1>1, <3>2, <3>3 DEF Write
    <3>5. PICK i \in 1 .. n - 4 - 1 : Assigns(Task[i], manager)
      BY <3>2
    <3>6. i \in 1 .. Done
      BY <1>1, <3>3
    <3>7. manager \in DOMAIN local
      BY <1>1, <3>5, <3>6 DEF Core, Locals, Assigns
    <3>8. local[manager] \in 1 .. Len(contracts)
      BY <1>1, <3>7 DEF Core, Locals, Impls
    <3>9. local[manager] # 0
      BY <3>8, FrameContracts DEF Core
    <3> QED
      BY <2>1, <3>4, <3>9, AtHome
  <2>4. CASE At > 6 \/ (At = 6 /\ m <= 4)
    <3>1. Home[manager] # 0
      BY <1>1, <1>3, <2>4 DEF ManagerSet, Ending, m
    <3>2. ~(Now.op = "write" /\ Now.arg = manager)
      BY <1>1, <2>2, <2>4
    <3> QED
      BY <2>1, <2>2, <3>1, <3>2, AtHome
  <2> QED
    BY <1>1, <1>3, <2>3, <2>4
<1> QED
  BY <1>1, <1>2, <1>3 DEF ManagerSet, Ending, m

(* A provider whose migration finished is not the one in hand.              *)
LEMMA OtherHomes ==
  ASSUME Core, Moves, NEW f \in finished
  PROVE  /\ f.provider \in DOMAIN slots /\ f.provider \in DOMAIN slots'
         /\ \A s \in Slots : slots'[f.provider][s] = slots[f.provider][s]
         /\ Now.op \in {"write", "upgrade", "register", "list", "configure"} => f.provider # Provider
<1>1. f.provider \in DOMAIN slots /\ f.provider \in DOMAIN slots'
  BY FrameSlots DEF Core, ProviderEntered
<1>2. Now.op \in {"write", "upgrade", "register", "list", "configure"} => f.provider # Provider
  <2> SUFFICES ASSUME Now.op \in {"write", "upgrade", "register", "list", "configure"}
               PROVE  f.provider # Provider
    OBVIOUS
  <2>1. Live /\ provider \in DOMAIN local
    BY Position, ProviderAssigned DEF Core
  <2> QED
    BY <2>1 DEF Core, ProviderInHand, Fresh, Provider
<1> QED
  BY <1>1, <1>2, FrameSlots DEF Core

RateOracle == "LendingRateOracle"

LEMMA OracleSteps ==
  ASSUME Core, Moves, Market, At = 3, ~Provided(target, RateOracle)
  PROVE  /\ Assigns(Now, "PoolAdmin") => Now.op = "take" /\ Now.arg = Deployer
         /\ Assigns(Now, RateOracle) => Now.op = "mine"
         /\ Now.op = "grant" => Now.var = RateOracle /\ RateOracle \in DOMAIN local
         /\ Len(todo) = 3 => /\ Now.op = "grant" /\ Now.var = RateOracle /\ Now.arg = "PoolAdmin"
                             /\ "PoolAdmin" \in DOMAIN local
         /\ Len(todo) \in {1, 2} => Now.op = "write"
         /\ Len(todo) = 1 => Now.arg = RateOracle /\ Now.var = RateOracle
<1> DEFINE m == Len(todo)
           n == Len(Task)
<1>1. /\ Live /\ Done \in Nat /\ m \in Nat /\ Now = Task[Done + 1] /\ m = n - Done /\ n \in Nat
      /\ Done + 1 \in 1 .. n /\ Now.op # "throw"
  BY Position DEF Core
<1>2. OraclesTask(Task, target)
  BY AtHand DEF Core
<1>3. /\ Assigns(Now, "PoolAdmin") => Now = Take("PoolAdmin", "signer0")[1]
      /\ Assigns(Now, RateOracle) => Now.op = "mine"
      /\ Now.op = "grant" => /\ Now.var = RateOracle
                             /\ \E i \in 1 .. Done + 1 - 1 : Assigns(Task[i], RateOracle)
  BY <1>1, <1>2, SMTT(20) DEF OraclesTask, RateOracle
<1>4. /\ n >= 4
      /\ Task[n - 1] = Write("PriceOracle", "AaveOracle")[1]
      /\ Task[n] = Write("LendingRateOracle", "LendingRateOracle")[1]
      /\ \E i \in 1 .. n - 3 : Assigns(Task[i], "PoolAdmin")
      /\ \/ Task[n - 2].op = "throw"
         \/ Task[n - 2] = Grant("LendingRateOracle", "PoolAdmin")[1]
  BY <1>2 DEF OraclesTask, RateOracle
<1>5. \A i \in 1 .. Done : \A v : Assigns(Task[i], v) => v \in DOMAIN local
  BY <1>1 DEF Core, Locals, Assigns
<1> HIDE DEF m, n
<1>6. CASE m = 3
  <2>1. Done + 1 = n - 2 /\ Done = n - 3
    BY <1>1, <1>6
  <2>2. Now = Grant("LendingRateOracle", "PoolAdmin")[1]
    BY <1>1, <1>4, <2>1
  <2>3. "PoolAdmin" \in DOMAIN local
    BY <1>4, <1>5, <2>1
  <2>4. Now.op = "grant" /\ Now.var = RateOracle /\ Now.arg = "PoolAdmin"
    BY <2>2 DEF Grant, RateOracle
  <2>5. Done + 1 - 1 = Done
    BY <1>1
  <2> QED
    BY <1>3, <1>5, <1>6, <2>3, <2>4, <2>5 DEF m, Assigns, Assigning
<1>7. CASE m \in {1, 2}
  <2>1. m = 1 => Done + 1 = n
    BY <1>1
  <2>2. m = 2 => Done + 1 = n - 1
    BY <1>1
  <2>3. Now.op = "write" /\ (m = 1 => Now.arg = RateOracle /\ Now.var = RateOracle)
    BY <1>1, <1>4, <1>7, <2>1, <2>2 DEF Write, RateOracle
  <2> QED
    BY <1>7, <2>3 DEF m, Assigns, Assigning
<1>8. CASE m \notin {1, 2, 3}
  <2>1. Done + 1 - 1 = Done
    BY <1>1
  <2>2. Now.op = "grant" => Now.var = RateOracle /\ RateOracle \in DOMAIN local
    BY <1>3, <1>5, <2>1
  <2>3. Assigns(Now, "PoolAdmin") => Now.op = "take" /\ Now.arg = Deployer
    BY <1>3 DEF Take, Deployer
  <2> QED
    BY <1>3, <1>8, <2>2, <2>3 DEF m
<1> QED
  BY <1>6, <1>7, <1>8

LEMMA RatesMoves == Core /\ RatesOwned /\ FinishedStay /\ Moves => RatesOwned'
<1> SUFFICES ASSUME Core, RatesOwned, FinishedStay, Moves PROVE RatesOwned'
  OBVIOUS
<1> DEFINE m   == Len(todo)
           w   == RateOracle
           own == ~Provided(target, w)
<1>1. /\ Live /\ Begun /\ Live' /\ Begun' /\ At' = At /\ At \in Int /\ target' = target
      /\ finished' = finished /\ m \in Nat /\ m # 0 /\ Len(todo') = m - 1
  BY Position DEF Core
<1>2. Market' = Market /\ own' = own
  BY <1>1 DEF Market
<1>3. Market /\ own /\ At = 3 =>
        /\ Assigns(Now, "PoolAdmin") => Now.op = "take" /\ Now.arg = Deployer
        /\ Assigns(Now, w) => Now.op = "mine"
        /\ m = 3 => /\ Now.op = "grant" /\ Now.var = w /\ Now.arg = "PoolAdmin"
                    /\ "PoolAdmin" \in DOMAIN local /\ w \in DOMAIN local
        /\ m \in {1, 2} => Now.op = "write"
        /\ m = 1 => Now.arg = w /\ Now.var = w
  BY OracleSteps
<1>4. Market /\ own =>
        /\ At = 3 => /\ "PoolAdmin" \in DOMAIN local => local["PoolAdmin"] = Deployer
                     /\ w \in DOMAIN local =>
                          /\ local[w] \in 1 .. Len(contracts)
                          /\ \A f \in finished : ~Provided(f.target, w) => slots[f.provider][w] # local[w]
        /\ At = 3 /\ m <= 2 => w \in DOMAIN local /\ local[w] \in DOMAIN granted /\ granted[local[w]] = Deployer
        /\ At > 3 => /\ Home[w] \in 1 .. Len(contracts)
                     /\ Home[w] \in DOMAIN granted /\ granted[Home[w]] = Deployer
  BY <1>1 DEF RatesOwned, RateOracle, Owned, Ending
<1>5. /\ \A i \in 1 .. Len(contracts) : i \in 1 .. Len(contracts')
      /\ Now.op = "mine" => NewAddress \in 1 .. Len(contracts')
      /\ NewAddress \notin 1 .. Len(contracts)
  BY FrameContracts DEF Core, Made
<1>6. w \in Slots /\ w \notin Proxies /\ w # "PoolAdmin"
  BY DEF Slots, Proxies, RateOracle
<1>7. \A f \in finished :
        /\ slots'[f.provider][w] = slots[f.provider][w]
        /\ ~Provided(f.target, w) => slots[f.provider][w] \in 1 .. Len(contracts)
  BY <1>6, OtherHomes DEF FinishedStay, Whole, RateOracle
<1>8. Now.op # "grant" => granted' = granted
  BY Effects
<1> HIDE DEF m, w, own
<1>9. ASSUME Market, own, At = 3
      PROVE  /\ "PoolAdmin" \in DOMAIN local' => local'["PoolAdmin"] = Deployer
             /\ w \in DOMAIN local' =>
                  /\ local'[w] \in 1 .. Len(contracts')
                  /\ \A f \in finished : ~Provided(f.target, w) => slots'[f.provider][w] # local'[w]
  <2>1. ASSUME "PoolAdmin" \in DOMAIN local' PROVE local'["PoolAdmin"] = Deployer
    BY <1>3, <1>4, <1>9, <2>1, FrameJson DEF Assigns
  <2>2. ASSUME w \in DOMAIN local'
        PROVE  /\ local'[w] \in 1 .. Len(contracts')
               /\ \A f \in finished : ~Provided(f.target, w) => slots'[f.provider][w] # local'[w]
    <3>1. CASE Assigns(Now, w)
      <4>1. local'[w] = NewAddress /\ Now.op = "mine"
        BY <1>3, <1>9, <3>1, FrameJson DEF Assigns
      <4> QED
        BY <1>5, <1>7, <4>1
    <3>2. CASE ~Assigns(Now, w)
      <4>1. w \in DOMAIN local /\ local'[w] = local[w]
        BY <2>2, <3>2, FrameJson
      <4> QED
        BY <1>4, <1>5, <1>7, <1>9, <4>1
    <3> QED
      BY <3>1, <3>2
  <2> QED
    BY <2>1, <2>2
<1>10. ASSUME Market, own, At = 3, m - 1 <= 2
       PROVE  w \in DOMAIN local' /\ local'[w] \in DOMAIN granted' /\ granted'[local'[w]] = Deployer
  <2>1. CASE m = 3
    <3>1. /\ Now.op = "grant" /\ Now.var = w /\ Now.arg = "PoolAdmin"
          /\ "PoolAdmin" \in DOMAIN local /\ w \in DOMAIN local
      BY <1>3, <1>10, <2>1
    <3>2. granted' = Put(granted, local[w], local["PoolAdmin"]) /\ local' = local
      BY <3>1, Effects DEF Assigning
    <3>3. local["PoolAdmin"] = Deployer
      BY <1>4, <1>10, <3>1
    <3> QED
      BY <3>1, <3>2, <3>3 DEF Put
  <2>2. CASE m \in {1, 2}
    <3>1. Now.op = "write"
      BY <1>3, <1>10, <2>2
    <3>2. granted' = granted /\ local' = local
      BY <3>1, Effects DEF Assigning
    <3> QED
      BY <1>4, <1>10, <2>2, <3>2
  <2> QED
    BY <1>1, <1>10, <2>1, <2>2
<1>11. ASSUME Market, own, At > 3 \/ (At = 3 /\ m - 1 <= 0)
       PROVE  /\ Home'[w] \in 1 .. Len(contracts')
              /\ Home'[w] \in DOMAIN granted' /\ granted'[Home'[w]] = Deployer
  <2>1. Past(1, 2)
    BY <1>1, <1>11 DEF Past
  <2>2. CASE At = 3 /\ m = 1
    <3>1. Now.op = "write" /\ Now.arg = w /\ Now.var = w
      BY <1>3, <1>11, <2>2
    <3>2. Home'[w] = local[w]
      BY <1>6, <2>1, <3>1, AtHome
    <3> QED
      BY <1>4, <1>5, <1>8, <1>11, <2>2, <3>1, <3>2
  <2>3. CASE At > 3
    <3>1. Now.op # "grant" /\ Now.op # "upgrade" /\ ~(Now.op = "write" /\ Now.arg = w)
      BY <1>1, <1>11, <2>3, MarketSteps DEF Core, ProxySteps, WriteSteps, w, RateOracle
    <3>2. Home'[w] = Home[w]
      BY <1>6, <2>1, <3>1, AtHome
    <3> QED
      BY <1>4, <1>5, <1>8, <1>11, <2>3, <3>1, <3>2
  <2> QED
    BY <1>1, <1>11, <2>2, <2>3
<1> QED
  BY <1>1, <1>2, <1>9, <1>10, <1>11 DEF RatesOwned, RateOracle, Owned, Ending, m, w, own

(* A rate oracle is only handed over by the market that deployed it.        *)
LEMMA GrantSteps ==
  ASSUME Core, Moves, Now.op = "grant"
  PROVE  /\ Market /\ At = 3 /\ ~Provided(target, RateOracle)
         /\ Now.var = RateOracle /\ RateOracle \in DOMAIN local
<1>1. At \in Int /\ Done \in Nat /\ Now = Task[Done + 1] /\ Done + 1 \in 1 .. Len(Task)
  BY Position DEF Core
<1>2. At >= 2
  <2>1. CASE At <= 0
    BY <2>1, NowFits DEF Core, Fit, Acting
  <2>2. CASE At = 1
    BY <2>2, NowFits DEF Core, Fit, Mine, Save
  <2> QED
    BY <1>1, <2>1, <2>2
<1>3. Market
  BY <1>2, NowFits DEF Core, Fit, Acting
<1>4. At = 3
  BY <1>3, MarketSteps DEF Core, ProxySteps
<1>5. ~Provided(target, RateOracle)
  BY <1>1, <1>3, <1>4, AtHand DEF Core, OraclesTask, RateOracle
<1> QED
  BY <1>3, <1>4, <1>5, OracleSteps

(* Another market's pool is none the script reaches.                        *)
LEMMA OtherPools ==
  ASSUME Core, Entries, ProxiesMade, ReservesIn, Moves, NEW f \in finished,
         slots[f.provider]["LendingPool"] # 0
  PROVE  LET pool == slots[f.provider]["LendingPool"]
         IN  pool \in DOMAIN pools' /\ pools'[pool] = pools[pool]
<1> DEFINE pool == slots[f.provider]["LendingPool"]
<1>1. f.provider \in DOMAIN slots /\ pool \in DOMAIN pools
  BY OtherHomes DEF Core, OnChain
<1>2. ASSUME Now.op = "pause" PROVE PoolOf(local["LendingPoolConfigurator"]) # pool
  <2>1. Past(1, 2) /\ PoolOnChain(db[provider])
        /\ PoolOf(local["LendingPoolConfigurator"]) = Home["LendingPool"]
    BY <1>2, PoolReached
  <2>2. db[provider] \in DOMAIN slots /\ f.provider # db[provider]
    BY <2>1, AtHome DEF Fresh
  <2> QED
    BY <1>1, <2>1, <2>2 DEF Core, OnChain, Home
<1> HIDE DEF pool
<1>3. pool \in DOMAIN pools' /\ pools'[pool] = pools[pool]
  BY <1>1, <1>2, FramePools DEF Core
<1> QED
  BY <1>3 DEF pool

LEMMA FinishedMoves ==
  Core /\ Entries /\ ProxiesMade /\ ReservesIn /\ RatesOwned /\ FinishedStay /\ Moves
    => FinishedStay'
<1> SUFFICES ASSUME Core, Entries, ProxiesMade, ReservesIn, RatesOwned, FinishedStay, Moves
             PROVE  FinishedStay'
  OBVIOUS
<1>0. finished' = finished /\ interrupted' = interrupted
  BY StepsWork
<1> SUFFICES ASSUME NEW f \in finished
             PROVE  LET p == f.provider
                    IN  /\ p \in DOMAIN slots'
                        /\ PoolOnChain(p)' /\ ConfOnChain(p)'
                        /\ slots'[p]["LendingPoolCollateralManager"] # 0
                        /\ /\ slots'[p]["0x01"] \in 1 .. Len(contracts')
                           /\ p \in contracts'[slots'[p]["0x01"]].uses
                        /\ \/ slots'[p]["PoolAdmin"] = Deployer
                           \/ /\ p \in interrupted' /\ slots'[p]["PoolAdmin"] \in 1 .. Len(contracts')
                              /\ p \in contracts'[slots'[p]["PoolAdmin"]].uses
                        /\ slots'[p]["EmergencyAdmin"] = Address(getEmergencyAdmin(f.target))
                        /\ ~Provided(f.target, "LendingRateOracle") =>
                             /\ slots'[p]["LendingRateOracle"] \in 1 .. Len(contracts')
                             /\ Owned(slots[p]["LendingRateOracle"])'
                        /\ ReservesOpen(p, f.target)' /\ Registered(p, f.target)'
  BY <1>0 DEF FinishedStay, Whole
<1> DEFINE p    == f.provider
           pool == slots[p]["LendingPool"]
           conf == slots[p]["LendingPoolConfigurator"]
           rate == slots[p]["LendingRateOracle"]
<1>1. /\ PoolOnChain(p) /\ ConfOnChain(p)
      /\ slots[p]["LendingPoolCollateralManager"] # 0
      /\ slots[p]["0x01"] \in 1 .. Len(contracts) /\ p \in contracts[slots[p]["0x01"]].uses
      /\ \/ slots[p]["PoolAdmin"] = Deployer
         \/ /\ p \in interrupted /\ slots[p]["PoolAdmin"] \in 1 .. Len(contracts)
            /\ p \in contracts[slots[p]["PoolAdmin"]].uses
      /\ slots[p]["EmergencyAdmin"] = Address(getEmergencyAdmin(f.target))
      /\ ~Provided(f.target, "LendingRateOracle") => rate \in 1 .. Len(contracts) /\ Owned(rate)
      /\ ReservesOpen(p, f.target) /\ Registered(p, f.target)
  BY DEF FinishedStay, Whole
<1>2. p \in DOMAIN slots' /\ \A s \in Slots : slots'[p][s] = slots[p][s]
  BY OtherHomes
<1>3. /\ slots'[p]["LendingPool"] = pool /\ slots'[p]["LendingPoolConfigurator"] = conf
      /\ slots'[p]["LendingRateOracle"] = rate
      /\ slots'[p]["LendingPoolCollateralManager"] = slots[p]["LendingPoolCollateralManager"]
      /\ slots'[p]["0x01"] = slots[p]["0x01"] /\ slots'[p]["PoolAdmin"] = slots[p]["PoolAdmin"]
      /\ slots'[p]["EmergencyAdmin"] = slots[p]["EmergencyAdmin"]
  BY <1>2 DEF Slots
<1>4. /\ \A i \in 1 .. Len(contracts) : i \in 1 .. Len(contracts') /\ contracts'[i] = contracts[i]
      /\ Len(contracts) \in Nat
  BY FrameContracts DEF Core
<1>5. pool \in 1 .. Len(contracts) /\ contracts[pool].kind = "LendingPool" /\ p \in contracts[pool].uses
  BY <1>1 DEF PoolOnChain
<1>6. pool # 0
  BY <1>4, <1>5
<1>7. pool \in DOMAIN pools' /\ pools'[pool] = pools[pool]
  BY <1>6, OtherPools
<1>8. /\ conf \in 1 .. Len(contracts)
      /\ \E impl \in 1 .. Len(contracts) :
           /\ contracts[impl].kind = "LendingPoolConfiguratorImpl"
           /\ contracts[conf].uses = {impl, p, pool}
  BY <1>1 DEF ConfOnChain
<1>9. ASSUME ~Provided(f.target, "LendingRateOracle")
      PROVE  rate \in 1 .. Len(contracts') /\ Owned(rate) /\ rate \in DOMAIN granted'
             /\ granted'[rate] = granted[rate]
  <2>1. rate \in 1 .. Len(contracts) /\ Owned(rate)
    BY <1>1, <1>9
  <2>2. rate \in 1 .. Len(contracts') /\ rate \in DOMAIN granted
    BY <1>4, <2>1 DEF Owned
  <2>3. CASE Now.op # "grant"
    BY <2>1, <2>2, <2>3, Effects
  <2>4. CASE Now.op = "grant"
    <3>1. Market /\ At = 3 /\ ~Provided(target, RateOracle) /\ Now.var = RateOracle
          /\ RateOracle \in DOMAIN local
      BY <2>4, GrantSteps
    <3>2. rate # local[RateOracle]
      BY <1>9, <3>1, Position DEF Core, RatesOwned, RateOracle
    <3>3. granted' = Put(granted, local[RateOracle], local[Now.arg])
      BY <2>4, <3>1, Effects
    <3> HIDE DEF rate
    <3> QED
      BY <2>1, <2>2, <3>2, <3>3 DEF Put
  <2> QED
    BY <2>3, <2>4
<1>10. registered \subseteq registered'
  BY Effects
<1> HIDE DEF p, pool, conf, rate
<1>11. PoolOnChain(p)'
  BY <1>3, <1>4, <1>5, <1>7 DEF PoolOnChain
<1>12. ConfOnChain(p)'
  BY <1>3, <1>4, <1>8 DEF ConfOnChain
<1>13. ReservesOpen(p, f.target)'
  BY <1>1, <1>3, <1>7 DEF ReservesOpen, pool
<1>14. Registered(p, f.target)'
  BY <1>1, <1>10 DEF Registered
<1>15. ~Provided(f.target, "LendingRateOracle") =>
          slots'[p]["LendingRateOracle"] \in 1 .. Len(contracts') /\ Owned(slots[p]["LendingRateOracle"])'
  BY <1>3, <1>9 DEF Owned
<1>16. slots'[p]["0x01"] \in 1 .. Len(contracts') /\ p \in contracts'[slots'[p]["0x01"]].uses
  BY <1>1, <1>3, <1>4
<1>17. \/ slots'[p]["PoolAdmin"] = Deployer
       \/ /\ p \in interrupted' /\ slots'[p]["PoolAdmin"] \in 1 .. Len(contracts')
          /\ p \in contracts'[slots'[p]["PoolAdmin"]].uses
  BY <1>0, <1>1, <1>3, <1>4
<1> QED
  BY <1>1, <1>2, <1>3, <1>11, <1>12, <1>13, <1>14, <1>15, <1>16, <1>17 DEF p

(* The turns of the loops leave the rest of what the tasks have achieved.   *)
LEMMA OthersLoops ==
  Core /\ MarketRegistered /\ ProxiesMade /\ ManagerSet /\ RatesOwned /\ Loops
    => MarketRegistered' /\ ProxiesMade' /\ ManagerSet' /\ RatesOwned'
<1> SUFFICES ASSUME Core, MarketRegistered, ProxiesMade, ManagerSet, RatesOwned, Loops
             PROVE  MarketRegistered' /\ ProxiesMade' /\ ManagerSet' /\ RatesOwned'
  OBVIOUS
<1>1. /\ Live /\ Live' /\ Begun /\ Begun' /\ Market /\ Market' /\ At = 6 /\ At' = 6
      /\ target' = target /\ Done' = Done /\ todo' = todo
  BY LoopPlace
<1>2. /\ UNCHANGED <<contracts, granted, registered, db>> /\ DOMAIN pools' = DOMAIN pools
      /\ Home' = slots'[db[provider]]
      /\ \A s \in {"LendingPool", "LendingPoolConfigurator", "LendingPoolCollateralManager",
                    "LendingRateOracle"} : Home'[s] = Home[s]
  BY LoopHome, FrameLoops DEF Slots, Core
<1>3. MarketRegistered'
  BY <1>1, <1>2 DEF MarketRegistered, Past
<1>4. PoolOnChain(db[provider]) => PoolOnChain(db[provider])'
  BY <1>2 DEF PoolOnChain, Home
<1>5. ConfOnChain(db[provider]) => ConfOnChain(db[provider])'
  BY <1>2 DEF ConfOnChain, Home
<1>6. ProxiesMade'
  BY <1>1, <1>4, <1>5 DEF ProxiesMade, Past
<1>7. ManagerSet'
  BY <1>1, <1>2 DEF ManagerSet, Ending
<1>8. RatesOwned'
  BY <1>1, <1>2 DEF RatesOwned, Ending, Owned
<1> QED
  BY <1>3, <1>6, <1>7, <1>8

LEMMA FinishedLoops ==
  Core /\ Entries /\ ProxiesMade /\ ReservesIn /\ FinishedStay /\ Loops => FinishedStay'
<1> SUFFICES ASSUME Core, Entries, ProxiesMade, ReservesIn, FinishedStay, Loops PROVE FinishedStay'
  OBVIOUS
<1>1. UNCHANGED <<contracts, granted, registered, finished, interrupted>>
      /\ DOMAIN slots' = DOMAIN slots
  BY LoopHome
<1>2. ASSUME NEW f \in finished PROVE Whole(f.provider, f.target)'
  <2> DEFINE p    == f.provider
             pool == slots[p]["LendingPool"]
  <2>1. Whole(p, f.target)
    BY <1>2 DEF FinishedStay
  <2>2. p # db[provider] /\ p \in DOMAIN slots /\ db[provider] \in DOMAIN slots
    BY <1>2, LoopPlace DEF Fresh, Core, ProviderEntered
  <2>3. slots'[p] = slots[p]
    BY <2>2, LoopHome
  <2>4. pool \in DOMAIN pools /\ pool # 0
    <3>1. pool \in 1 .. Len(contracts) /\ pool \in DOMAIN pools /\ Len(contracts) \in Nat
      BY <2>1, ProgramLen DEF Whole, PoolOnChain, Core, OnChain
    <3> QED
      BY <3>1
  <2>5. /\ Now.op \in {"list", "configure"}
        /\ Now.op = "list" => PoolOf(local["LendingPoolConfigurator"]) = Home["LendingPool"]
        /\ Provider = db[provider]
    BY StepsWork, PoolReached
  <2>6. Home["LendingPool"] # pool
    BY <2>2, <2>4 DEF Core, OnChain, Home
  <2>7. pool \in DOMAIN pools' /\ pools'[pool] = pools[pool]
    BY <2>4, <2>5, <2>6, FrameLoops DEF Core, Home
  <2> HIDE DEF p
  <2>8. PoolOnChain(p)' /\ ConfOnChain(p)'
    BY <1>1, <2>1, <2>3, <2>7 DEF Whole, PoolOnChain, ConfOnChain
  <2>9. ReservesOpen(p, f.target)' /\ Registered(p, f.target)'
    BY <1>1, <2>1, <2>3, <2>7 DEF Whole, ReservesOpen, Registered
  <2> QED
    BY <1>1, <2>1, <2>2, <2>3, <2>8, <2>9 DEF Whole, Owned, p
<1> QED
  BY <1>1, <1>2 DEF FinishedStay

(* The same over turns: none of the tasks is so short that its beginning is *)
(* where something counts as done.                                          *)
LEMMA TaskLengths ==
  ASSUME NEW t, NEW r, NEW p, Course(t, r, p), ~Dev(t)
  PROVE  /\ Len(p) \in Nat
         /\ r = 1 => Len(p) >= 6 /\ (t.skipRegistry \/ Len(Registration(t)) <= Len(p))
         /\ r = 2 => PoolTask(p, t)
         /\ r = 3 => Len(p) >= 4
         /\ r = 6 => Len(p) >= 19
<1>1. Len(p) \in Nat
  BY ProgramLen DEF Course
<1>2. r = 1 => Len(p) >= 6 /\ (t.skipRegistry \/ Len(Registration(t)) <= Len(p))
  <2> SUFFICES ASSUME r = 1 PROVE Len(p) >= 6 /\ (t.skipRegistry \/ Len(Registration(t)) <= Len(p))
    OBVIOUS
  <2>1. Opening(p, t)
    BY DEF Course
  <2>2. Len(p) >= 6 /\ (t.skipRegistry \/ Len(Registration(t)) \in 3 .. Len(p))
    BY <2>1 DEF Opening
  <2> QED
    BY <1>1, <2>2, RegistrationEnds
<1>3. r = 2 => PoolTask(p, t)
  BY DEF Course
<1>4. r = 3 => Len(p) >= 4
  BY DEF Course, OraclesTask
<1>5. r = 6 => Len(p) >= 19
  BY DEF Course, InitTask
<1> QED
  BY <1>1, <1>2, <1>3, <1>4, <1>5

LEMMA TurnLengths ==
  ASSUME OnTrack, Turns
  PROVE  /\ At' \in Int /\ Begun' /\ Len(Task') \in Nat
         /\ Live' => Done' = 0 /\ Len(todo') = Len(Task') /\ local' = <<>>
         /\ Market' => /\ At' = 1 => Len(Task') >= 6
                       /\ At' = 2 => PoolTask(Task', target')
                       /\ At' = 3 => Len(Task') >= 4
                       /\ At' = 6 => Len(Task') >= 19
         /\ Begun /\ Market /\ At = 1 =>
              Len(Task) >= 6 /\ (target.skipRegistry \/ Len(Registration(target)) <= Len(Task))
         /\ Begun /\ Market /\ At = 6 => Len(Task) >= 19
<1>1. /\ Begun' /\ Course(target', At', Task') /\ At' \in Int /\ Len(Task') \in Nat
      /\ Begun => Course(target, At, Task)
      /\ Live' => Done' = 0 /\ Len(todo') = Len(Task') /\ local' = <<>>
  BY TurnPosition
<1>2. Market' => /\ At' = 1 => Len(Task') >= 6
                 /\ At' = 2 => PoolTask(Task', target')
                 /\ At' = 3 => Len(Task') >= 4
                 /\ At' = 6 => Len(Task') >= 19
  <2>1. ASSUME Market' PROVE ~Dev(target')
    BY <2>1 DEF Market
  <2> QED
    BY <1>1, <2>1, TaskLengths
<1>3. Begun /\ Market => /\ At = 1 => Len(Task) >= 6
                                      /\ (target.skipRegistry \/ Len(Registration(target)) <= Len(Task))
                         /\ At = 6 => Len(Task) >= 19
  BY <1>1, TaskLengths DEF Market
<1> QED
  BY <1>1, <1>2, <1>3

(* A script that has just begun a task has that many steps left.            *)
LEMMA JustBegun ==
  ASSUME OnTrack, Turns, Live', NEW n \in Nat, n < Len(Task')
  PROVE  Len(todo') \in Nat /\ Len(todo') > n
BY TurnLengths

(* A script that holds the role works for the json's provider.              *)
LEMMA TakenHome ==
  ASSUME Core, Live, Market, At = 6, Taken
  PROVE  Provider = db[provider]
<1>1. /\ Begun /\ target \in Targets /\ Len(Task) \in Nat /\ Len(todo) \in 0 .. Len(Task)
      /\ Program(todo) /\ Course(target, At, Task)
      /\ \A i \in 1 .. Len(todo) : todo[i] = Task[Done + i]
  BY Courses, ProgramLen DEF Core, OnTrack, Live, Begun, At, Task, Course
<1>2. InitTask(Task, target)
  BY <1>1 DEF Course, Market
<1>3. todo # <<>> /\ Now.op = "configure"
  BY DEF Taken
<1>4. Len(todo) >= 1 /\ Now = todo[1]
  BY <1>1, <1>3 DEF Program, Now
<1>5. Now = Task[Done + 1] /\ Done + 1 \in 1 .. Len(Task) /\ Done \in Nat
  BY <1>1, <1>4 DEF Done
<1>6. Done + 1 = 13
  BY <1>2, <1>3, <1>5 DEF InitTask
<1>7. Task[1].op \in Assigning /\ Task[1].var = provider
  BY <1>2 DEF InitTask, Load, Assigning
<1>8. provider \in DOMAIN local
  <2>1. 1 \in 1 .. Done
    BY <1>5, <1>6
  <2> QED
    BY <1>7, <2>1 DEF Core, Locals
<1>9. Past(1, 2)
  BY <1>1 DEF Past
<1> QED
  BY <1>8, <1>9 DEF Core, ProviderInHand, Provider

LEMMA AdminsTurns == Core /\ AdminsSet /\ Turns => AdminsSet'
<1> SUFFICES ASSUME Core, AdminsSet, Turns PROVE AdminsSet'
  OBVIOUS
<1>1. Home' = Home /\ OnTrack /\ UNCHANGED <<contracts, db>>
  BY HomeTurns DEF Core
<1>2. Live' => local' = <<>> /\ Done' = 0
  BY <1>1, TurnLengths
<1>3. ASSUME Live, Taken PROVE Dies
  <2>1. todo # <<>>
    BY <1>3 DEF Taken
  <2> QED
    BY <1>1, <1>3, <2>1, TurnKinds DEF GoesOn, Ends, Starts
<1>4. interrupted \subseteq interrupted' /\ (Dies /\ Taken => Provider \in interrupted')
  BY <1>1, TurnKinds DEF Dies, GoesOn, Ends, Starts
<1>5. \A x : AdminFor(x) => AdminFor(x)'
  BY <1>1, <1>4 DEF AdminFor, Names, Deployer, Address
<1>6. ASSUME Market, Live, At = 6, Taken, Names(Home["PoolAdmin"]) PROVE AdminFor(Home["PoolAdmin"])'
  <2>1. db[provider] \in interrupted'
    BY <1>3, <1>4, <1>6, TakenHome
  <2> QED
    BY <1>1, <1>6, <2>1 DEF AdminFor, Names
<1>7. ASSUME Market', NEW n \in {0, 2}, At' > 1 \/ (At' = 1 /\ Len(todo') <= n)
      PROVE  Ending(1, n) /\ target' = target /\ Market
  <2>1. At' = 1 => n < Len(Task')
    BY <1>1, <1>7, TurnLengths
  <2>2. n \in Nat /\ 1 \in Nat \ {0}
    OBVIOUS
  <2>3. Ending(1, n) /\ target' = target
    BY <1>1, <1>7, <2>1, <2>2, EndingBack
  <2> QED
    BY <1>7, <2>3 DEF Market
<1>8. ASSUME Market', Live', At' = 1 PROVE Len(todo') # 3 /\ Len(todo') # 1
  <2>1. 3 < Len(Task')
    BY <1>1, <1>8, TurnLengths
  <2> DEFINE m == Len(todo')
  <2>2. m \in Nat /\ m > 3
    BY <1>1, <1>8, <2>1, JustBegun
  <2> HIDE DEF m
  <2>3. m # 3 /\ m # 1
    BY <2>2
  <2> QED
    BY <2>3 DEF m
<1>9. Market' /\ Ending(1, 2)' => AdminFor(Home["PoolAdmin"])'
  <2> SUFFICES ASSUME Market', Ending(1, 2)' PROVE AdminFor(Home["PoolAdmin"])'
    OBVIOUS
  <2>1. Ending(1, 2) /\ Market
    BY <1>7 DEF Ending
  <2>2. CASE AdminFor(Home["PoolAdmin"])
    BY <1>1, <1>5, <2>2
  <2>3. CASE Live /\ At = 6 /\ Taken /\ Names(Home["PoolAdmin"])
    BY <1>6, <2>1, <2>3
  <2> QED
    BY <2>1, <2>2, <2>3 DEF AdminsSet
<1>10. Market' /\ Ending(1, 0)' => Home'["EmergencyAdmin"] = Address(getEmergencyAdmin(target'))
  BY <1>1, <1>7 DEF AdminsSet, Ending
<1> QED
  BY <1>8, <1>9, <1>10, <1>2 DEF AdminsSet

LEMMA RegisteredTurns == Core /\ MarketRegistered /\ Turns => MarketRegistered'
<1> SUFFICES ASSUME Core, MarketRegistered, Turns PROVE MarketRegistered'
  OBVIOUS
<1> DEFINE d == Len(Registration(target'))
<1>1. OnTrack /\ registered' = registered /\ db' = db
  BY HomeTurns DEF Core
<1>2. d \in Nat /\ d >= 3
  BY RegistrationEnds
<1> HIDE DEF d
<1>3. ASSUME Market', ~target'.skipRegistry, At' > 1 \/ (At' = 1 /\ Done' >= d)
      PROVE  \E pair \in registered : pair[2] = db[provider]
  <2>1. target' = target /\ Begun
    <3>1. Begun /\ At = 1 => 1 <= Len(Task)
      BY <1>1, TurnPosition DEF Course, Opening
    <3>2. At' > 1 \/ (At' = 1 /\ Done' >= 1)
      <4>1. CASE At' = 1
        <5>1. ~Live'
          BY <1>1, <1>2, <1>3, <4>1, TurnLengths
        <5>2. Done' = Done /\ Done \in Int
          BY <1>1, <5>1, TurnPosition DEF OnTrack, Done, Live, Begun
        <5> QED
          BY <1>2, <1>3, <4>1, <5>2
      <4> QED
        BY <1>3, <4>1
    <3>3. 1 \in Nat \ {0}
      OBVIOUS
    <3> QED
      BY <1>1, <3>1, <3>2, <3>3, PastBack DEF Past
  <2>2. Market /\ ~target.skipRegistry /\ d = Len(Registration(target))
    BY <1>3, <2>1 DEF Market, d
  <2>3. Begun /\ At = 1 => d <= Len(Task)
    BY <1>1, <2>2, TurnLengths
  <2>4. d \in Nat \ {0} /\ 1 \in Nat \ {0}
    BY <1>2
  <2>5. Past(1, d)
    BY <1>1, <1>3, <2>3, <2>4, PastBack
  <2> QED
    BY <2>2, <2>5 DEF MarketRegistered
<1> QED
  BY <1>1, <1>3 DEF MarketRegistered, Past, d

LEMMA ProxiesTurns == Core /\ ProxiesMade /\ Turns => ProxiesMade'
<1> SUFFICES ASSUME Core, ProxiesMade, Turns PROVE ProxiesMade'
  OBVIOUS
<1>1. OnTrack /\ UNCHANGED <<contracts, slots, pools, db>>
  BY HomeTurns DEF Core
<1>2. At' \in Int
  BY <1>1, TurnLengths
<1>3. ASSUME Market', NEW d, d \in {PoolAt(target') - 2, ConfAt(target') - 2},
             At' > 2 \/ (At' = 2 /\ Done' >= d)
      PROVE  Past(2, d) /\ target' = target /\ Market
  <2>1. target' = target /\ Begun /\ Market
    <3>1. At' >= 2
      BY <1>2, <1>3
    <3> QED
      BY <1>1, <1>3, <3>1, LaterTurn
  <2>2. d \in {PoolAt(target), ConfAt(target), HelperAt(target), PoolAt(target) - 2, ConfAt(target) - 2}
    BY <1>3, <2>1
  <2>3. Past(2, d)
    BY <1>1, <1>3, <2>1, <2>2, PoolPast
  <2> QED
    BY <2>1, <2>3
<1>4. Market' /\ Past(2, PoolAt(target) - 2)' => PoolOnChain(db[provider])
  BY <1>3 DEF ProxiesMade, Past
<1>5. Market' /\ Past(2, ConfAt(target) - 2)' => ConfOnChain(db[provider])
  BY <1>3 DEF ProxiesMade, Past
<1>6. PoolOnChain(db[provider])' = PoolOnChain(db[provider])
  BY <1>1 DEF PoolOnChain
<1>7. ConfOnChain(db[provider])' = ConfOnChain(db[provider])
  BY <1>1 DEF ConfOnChain
<1> QED
  BY <1>4, <1>5, <1>6, <1>7 DEF ProxiesMade

LEMMA ReservesTurns == Core /\ ReservesIn /\ Turns => ReservesIn'
<1> SUFFICES ASSUME Core, ReservesIn, Turns PROVE ReservesIn'
  OBVIOUS
<1>1. OnTrack /\ Home' = Home /\ PoolState' = PoolState
  BY HomeTurns DEF Core, PoolState
<1>2. At' \in Int /\ (Live' => Done' = 0 /\ local' = <<>>)
  BY <1>1, TurnLengths
<1>3. ASSUME Market', Past(1, 2)' PROVE Past(1, 2) /\ Market /\ target' = target
  <2>1. Begun /\ At = 1 => 2 <= Len(Task)
    BY <1>1, TurnPosition DEF Course, Opening
  <2>2. At' > 1 \/ (At' = 1 /\ Done' >= 2)
    BY <1>3 DEF Past
  <2>3. 1 \in Nat \ {0} /\ 2 \in Nat \ {0}
    OBVIOUS
  <2>4. Past(1, 2) /\ target' = target
    BY <1>1, <2>1, <2>2, <2>3, PastBack
  <2> QED
    BY <1>3, <2>4 DEF Market
<1>4. ASSUME Market', Ending(2, 0)' PROVE Ending(2, 0) /\ Market
  <2>1. At' = 2 => 0 < Len(Task')
    <3> SUFFICES ASSUME At' = 2 PROVE 0 < Len(Task')
      OBVIOUS
    <3>1. PoolTask(Task', target') /\ Len(Task') \in Nat
      BY <1>1, <1>4, TurnLengths
    <3>2. HelperAt(target') \in 1 .. Len(Task') - 1
      BY <3>1 DEF PoolTask, HelperAt
    <3> QED
      BY <3>1, <3>2
  <2>2. At' > 2 \/ (At' = 2 /\ Len(todo') <= 0)
    BY <1>4 DEF Ending
  <2>3. 2 \in Nat \ {0} /\ 0 \in Nat
    OBVIOUS
  <2>4. Ending(2, 0) /\ target' = target
    BY <1>1, <2>1, <2>2, <2>3, EndingBack
  <2> QED
    BY <1>4, <2>4 DEF Market
<1>5. ASSUME Market', NEW d \in {10, 13}, At' > 6 \/ (At' = 6 /\ Done' >= d)
      PROVE  Past(6, d) /\ Market /\ target' = target
  <2>1. At' >= 2
    BY <1>2, <1>5
  <2>2. target' = target /\ Begun /\ Market
    BY <1>1, <1>5, <2>1, LaterTurn
  <2>3. Begun /\ At = 6 => d <= Len(Task)
    BY <1>1, <2>2, TurnLengths, TurnPosition
  <2>4. 6 \in Nat \ {0} /\ d \in Nat \ {0}
    OBVIOUS
  <2>5. Past(6, d)
    BY <1>1, <1>5, <2>3, <2>4, PastBack
  <2> QED
    BY <2>2, <2>5
<1>6. Market' /\ Past(1, 2)' /\ Home'["LendingPool"] # 0 =>
        /\ PoolState' = [paused |-> PoolState'.paused, listed |-> PoolState'.listed,
                         configured |-> PoolState'.configured]
        /\ PoolState'.listed \subseteq Listable(target')
        /\ PoolState'.configured \subseteq ConfiguredOf(target')
  BY <1>1, <1>3 DEF ReservesIn
<1>7. Market' /\ Ending(2, 0)' => PoolState'.paused = FALSE
  BY <1>1, <1>4 DEF ReservesIn
<1>8. Market' /\ Past(6, 10)' => PoolState'.listed = Listable(target')
  BY <1>1, <1>5 DEF ReservesIn, Past
<1>9. Market' /\ Past(6, 13)' => PoolState'.configured = ConfiguredOf(target')
  BY <1>1, <1>5 DEF ReservesIn, Past
<1> QED
  BY <1>2, <1>6, <1>7, <1>8, <1>9 DEF ReservesIn

LEMMA ManagerTurns == Core /\ ManagerSet /\ Turns => ManagerSet'
<1> SUFFICES ASSUME Core, ManagerSet, Turns, Market', Ending(6, 4)'
             PROVE  Home'["LendingPoolCollateralManager"] # 0
  BY DEF ManagerSet
<1>1. OnTrack /\ Home' = Home
  BY HomeTurns DEF Core
<1>2. At' = 6 => 4 < Len(Task')
  BY <1>1, TurnLengths
<1>3. At' > 6 \/ (At' = 6 /\ Len(todo') <= 4)
  BY DEF Ending
<1>4. 6 \in Nat \ {0} /\ 4 \in Nat
  OBVIOUS
<1>5. Ending(6, 4) /\ target' = target
  BY <1>1, <1>2, <1>3, <1>4, EndingBack
<1>6. Market
  BY <1>5 DEF Market
<1> QED
  BY <1>1, <1>5, <1>6 DEF ManagerSet

LEMMA RatesTurns == Core /\ RatesOwned /\ Turns => RatesOwned'
<1> SUFFICES ASSUME Core, RatesOwned, Turns, Market', ~Provided(target', RateOracle)
             PROVE  /\ Live' /\ At' = 3 => DOMAIN local' = {} /\ Len(todo') > 2 /\ Len(todo') \in Nat
                    /\ Ending(3, 0)' => /\ Home[RateOracle] \in 1 .. Len(contracts)
                                        /\ Owned(Home[RateOracle])
  <2>1. ASSUME NEW m, m \in Nat, m > 2 PROVE ~(m <= 2)
    BY <2>1
  <2>2. Core /\ Turns => Home' = Home /\ UNCHANGED <<contracts, granted>>
    BY HomeTurns DEF Core
  <2> QED
    BY <2>1, <2>2 DEF RatesOwned, RateOracle, Owned
<1>1. OnTrack
  BY DEF Core
<1>2. ASSUME Live', At' = 3 PROVE DOMAIN local' = {} /\ Len(todo') > 2 /\ Len(todo') \in Nat
  <2>1. 2 < Len(Task') /\ local' = <<>>
    BY <1>1, <1>2, TurnLengths
  <2>2. Len(todo') > 2 /\ Len(todo') \in Nat
    BY <1>1, <1>2, <2>1, JustBegun
  <2> QED
    BY <2>1, <2>2
<1>3. ASSUME Ending(3, 0)' PROVE Home[RateOracle] \in 1 .. Len(contracts) /\ Owned(Home[RateOracle])
  <2>1. At' = 3 => 0 < Len(Task')
    BY <1>1, TurnLengths
  <2>2. At' > 3 \/ (At' = 3 /\ Len(todo') <= 0)
    BY <1>3 DEF Ending
  <2>3. 3 \in Nat \ {0} /\ 0 \in Nat
    OBVIOUS
  <2>4. Ending(3, 0) /\ target' = target
    BY <1>1, <2>1, <2>2, <2>3, EndingBack
  <2>5. Market /\ ~Provided(target, RateOracle)
    BY <2>4 DEF Market
  <2> QED
    BY <2>4, <2>5 DEF RatesOwned, RateOracle
<1> QED
  BY <1>2, <1>3

(* A migration that ends has left a whole market.                           *)
LEMMA WholeAtEnd ==
  ASSUME Core, Entries, AdminsSet, MarketRegistered, ProxiesMade, ReservesIn, ManagerSet, RatesOwned,
         Live, Len(todo) = 0, task = Len(Programs[target])
  PROVE  Whole(db[provider], target)
<1> DEFINE open == FALSE
           pool == Home["LendingPool"]
           r    == PoolState
<1>1. Market /\ At \in Int /\ At >= 6 /\ Begun
  BY AtEnd DEF Core, Live, Begun
<1>2. \A d : Past(1, d) /\ Past(2, d) /\ Past(4, d)
  BY <1>1 DEF Past
<1>3. Ending(1, 2) /\ Ending(1, 0) /\ Ending(2, 0) /\ Ending(3, 0) /\ Ending(6, 2) /\ Ending(6, 4)
  BY <1>1 DEF Ending
<1>4. Past(6, 10) /\ Past(6, 13)
  <2>1. CASE At > 6
    BY <1>1, <2>1 DEF Past
  <2>2. CASE At = 6
    <3>1. Len(Task) >= 19 /\ Len(Task) \in Nat
      <4>1. target \in Targets /\ Course(target, At, Task)
        BY <1>1, Courses DEF Core, OnTrack, At, Task
      <4> QED
        BY <1>1, <2>2, <4>1, TaskLengths DEF Market
    <3>2. Done = Len(Task)
      BY <3>1 DEF Done
    <3> QED
      BY <1>1, <2>2, <3>1, <3>2 DEF Past
  <2> QED
    BY <1>1, <2>1, <2>2
<1>5. db[provider] \in DOMAIN slots
  BY <1>2 DEF Core, ProviderEntered
<1>6. PoolOnChain(db[provider]) /\ ConfOnChain(db[provider])
  BY <1>1, <1>2 DEF ProxiesMade
<1>7. AdminFor(Home["PoolAdmin"]) /\ Home["EmergencyAdmin"] = Address(getEmergencyAdmin(target))
  <2>1. ~Taken
    BY DEF Taken
  <2> QED
    BY <1>1, <1>3, <2>1 DEF AdminsSet
<1>8. Home["LendingPoolCollateralManager"] # 0
  BY <1>1, <1>3 DEF ManagerSet
<1>9. Home["0x01"] \in 1 .. Len(contracts) /\ db[provider] \in contracts[Home["0x01"]].uses
  BY <1>1, <1>2, <1>3 DEF Entries, DataEntered, IsEntered, Names
<1>10. ~Provided(target, "LendingRateOracle") =>
         Home["LendingRateOracle"] \in 1 .. Len(contracts) /\ Owned(Home["LendingRateOracle"])
  BY <1>1, <1>3 DEF RatesOwned
<1>11. Registered(db[provider], target)
  BY <1>1, <1>2 DEF MarketRegistered, Registered
<1>12. pool # 0
  <2>1. pool \in 1 .. Len(contracts) /\ Len(contracts) \in Nat
    BY <1>6, ProgramLen DEF PoolOnChain, Home, Core, OnChain
  <2> QED
    BY <2>1
<1>13. /\ r = [paused |-> r.paused, listed |-> r.listed, configured |-> r.configured]
       /\ r.paused = open /\ r.listed = Listable(target) /\ r.configured = ConfiguredOf(target)
  BY <1>1, <1>2, <1>3, <1>4, <1>12 DEF ReservesIn
<1>14. ReservesOpen(db[provider], target)
  <2> HIDE DEF open, r, pool
  <2>1. r = [paused |-> open, listed |-> Listable(target), configured |-> ConfiguredOf(target)]
    BY <1>13
  <2>2. r = pools[slots[db[provider]]["LendingPool"]]
    BY DEF r, PoolState, Home
  <2> QED
    BY <2>1, <2>2, Zenon DEF ReservesOpen, open
<1> QED
  BY <1>5, <1>6, <1>7, <1>8, <1>9, <1>10, <1>11, <1>14 DEF Whole, Home, AdminFor, Names

LEMMA WholeStays ==
  ASSUME UNCHANGED <<contracts, slots, pools, granted, registered>>,
         interrupted \subseteq interrupted', NEW p, NEW t, Whole(p, t)
  PROVE  Whole(p, t)'
<1>1. PoolOnChain(p)' = PoolOnChain(p) /\ ConfOnChain(p)' = ConfOnChain(p)
  BY DEF PoolOnChain, ConfOnChain
<1>2. ReservesOpen(p, t)' = ReservesOpen(p, t) /\ Registered(p, t)' = Registered(p, t)
  BY Zenon DEF ReservesOpen, Registered
<1>3. Owned(slots[p]["LendingRateOracle"])' = Owned(slots[p]["LendingRateOracle"])
  BY DEF Owned
<1> QED
  BY <1>1, <1>2, <1>3 DEF Whole

LEMMA FinishedTurns ==
  /\ Core /\ Entries /\ AdminsSet /\ MarketRegistered /\ ProxiesMade /\ ReservesIn /\ ManagerSet
  /\ RatesOwned /\ FinishedStay /\ Turns
  => FinishedStay'
<1> SUFFICES ASSUME Core, Entries, AdminsSet, MarketRegistered, ProxiesMade, ReservesIn, ManagerSet,
                    RatesOwned, FinishedStay, Turns
             PROVE  FinishedStay'
  OBVIOUS
<1>1. UNCHANGED <<contracts, slots, pools, granted, registered>> /\ interrupted \subseteq interrupted'
  BY HomeTurns, TurnKinds DEF Core, Dies, GoesOn, Ends, Starts
<1>2. ASSUME NEW f \in finished' PROVE Whole(f.provider, f.target)
  <2>1. CASE f \in finished
    BY <2>1 DEF FinishedStay
  <2>2. CASE f \notin finished
    <3>1. Ends
      BY <1>2, <2>2, TurnKinds DEF Core, Dies, GoesOn, Starts
    <3>2. /\ Live /\ todo = <<>> /\ task = Len(Programs[target])
          /\ f = [provider |-> db[provider], target |-> target]
      BY <1>2, <2>2, <3>1 DEF Ends
    <3>3. Len(todo) = 0
      BY <3>2
    <3>4. Whole(db[provider], target)
      BY <3>2, <3>3, WholeAtEnd
    <3> QED
      BY <3>2, <3>4
  <2> QED
    BY <2>1, <2>2
<1>3. ASSUME NEW f \in finished' PROVE Whole(f.provider, f.target)'
  BY <1>1, <1>2, <1>3, WholeStays
<1> QED
  BY <1>3 DEF FinishedStay

-----------------------------------------------------------------------------
(* The inductive invariant, whole.                                         *)
Achieved == AdminsSet /\ MarketRegistered /\ ProxiesMade /\ ReservesIn /\ ManagerSet /\ RatesOwned

IInv == Core /\ Entries /\ Achieved /\ FinishedStay

LEMMA InvInit == Init => IInv
<1> SUFFICES ASSUME Init PROVE IInv
  OBVIOUS
<1>1. ~Begun /\ ~Live /\ finished = {}
  BY DEF Init, Begun, Live
<1>2. Achieved
  BY <1>1 DEF Achieved, AdminsSet, MarketRegistered, ProxiesMade, ReservesIn, ManagerSet, RatesOwned,
              Past, Ending
<1>3. FinishedStay
  BY <1>1 DEF FinishedStay
<1> QED
  BY <1>2, <1>3, CoreInit DEF IInv

LEMMA InvMoves == IInv /\ Moves => IInv'
<1> SUFFICES ASSUME IInv, Moves PROVE IInv'
  OBVIOUS
<1>1. Core' /\ Entries'
  BY EntriesStep, NextSplits DEF IInv
<1>2. AdminsSet' /\ MarketRegistered' /\ ManagerSet'
  BY AdminsMoves, RegisteredMoves, ManagerMoves DEF IInv, Achieved
<1>3. ProxiesMade' /\ ReservesIn'
  BY ProxiesMoves, ReservesMoves DEF IInv, Achieved
<1>4. RatesOwned' /\ FinishedStay'
  BY RatesMoves, FinishedMoves DEF IInv, Achieved
<1> QED
  BY <1>1, <1>2, <1>3, <1>4 DEF IInv, Achieved

LEMMA InvLoops == IInv /\ Loops => IInv'
<1> SUFFICES ASSUME IInv, Loops PROVE IInv'
  OBVIOUS
<1>1. Core' /\ Entries'
  BY EntriesStep, NextSplits DEF IInv
<1>2. AdminsSet' /\ ReservesIn'
  BY AdminsLoops, ReservesLoops DEF IInv, Achieved, Entries
<1>3. MarketRegistered' /\ ProxiesMade' /\ ManagerSet' /\ RatesOwned'
  BY OthersLoops DEF IInv, Achieved
<1>4. FinishedStay'
  BY FinishedLoops DEF IInv, Achieved
<1> QED
  BY <1>1, <1>2, <1>3, <1>4 DEF IInv, Achieved

LEMMA InvTurns == IInv /\ Turns => IInv'
<1> SUFFICES ASSUME IInv, Turns PROVE IInv'
  OBVIOUS
<1>1. Core' /\ Entries'
  BY EntriesStep, NextSplits DEF IInv
<1>2. AdminsSet' /\ MarketRegistered' /\ ManagerSet'
  BY AdminsTurns, RegisteredTurns, ManagerTurns DEF IInv, Achieved
<1>3. ProxiesMade' /\ ReservesIn' /\ RatesOwned'
  BY ProxiesTurns, ReservesTurns, RatesTurns DEF IInv, Achieved
<1>4. FinishedStay'
  BY FinishedTurns DEF IInv, Achieved
<1> QED
  BY <1>1, <1>2, <1>3, <1>4 DEF IInv, Achieved

LEMMA InvStutters == IInv /\ UNCHANGED vars => IInv'
<1> SUFFICES ASSUME IInv, UNCHANGED vars PROVE IInv'
  OBVIOUS
<1>1. UNCHANGED <<contracts, slots, pools, granted, sources, registered, db, target, task, todo,
                  local, status, finished, interrupted>>
  BY DEF vars, chain, script, history
<1>2. UNCHANGED <<Task, At, Done, Home, Live, Begun, Market, PoolState>>
  BY <1>1 DEF Task, At, Done, Home, Live, Begun, Programs, Market, PoolState
<1>3. Core' /\ Entries'
  BY EntriesStep DEF IInv
<1>4. AdminsSet' /\ MarketRegistered' /\ ManagerSet'
  BY <1>1, <1>2 DEF IInv, Achieved, AdminsSet, MarketRegistered, ManagerSet, Past, Ending, IsLocal,
     AdminFor, Names, Taken, Now, Deployer, Address
<1>5. ProxiesMade'
  BY <1>1, <1>2 DEF IInv, Achieved, ProxiesMade, Past, PoolOnChain, ConfOnChain
<1>6. ReservesIn'
  BY <1>1, <1>2 DEF IInv, Achieved, ReservesIn, Past, Ending, IsLocal
<1>7. RatesOwned'
  BY <1>1, <1>2 DEF IInv, Achieved, RatesOwned, Ending, Owned
<1>8. FinishedStay'
  BY <1>1, WholeStays DEF IInv, FinishedStay
<1> QED
  BY <1>3, <1>4, <1>5, <1>6, <1>7, <1>8 DEF IInv, Achieved

(* FinishedMarketsWhole: a migration that reports its end has linked its   *)
(* proxies, set managers and admins, listed, configured and opened every   *)
(* reserve and registered its provider, and no later migration, dead       *)
(* script or rerun of a task takes any of it back.  The pool's admin is    *)
(* the deployer unless a script died between taking the role for           *)
(* ATokensAndRatesHelper and handing it back: then it may be a contract    *)
(* that works for the provider, and nothing worse.                         *)
THEOREM FinishedStayWhole == Spec => []FinishedMarketsWhole
<1>1. IInv /\ [Next]_vars => IInv'
  BY InvMoves, InvLoops, InvTurns, InvStutters, NextSplits
<1>2. ASSUME IInv, NEW f \in finished
      PROVE  /\ ProxiesLinked(f.provider) /\ HelpersSet(f.provider)
             /\ AdminsInOffice(f.provider, f.target)
             /\ ReservesOpen(f.provider, f.target) /\ Registered(f.provider, f.target)
  <2> DEFINE p == f.provider
  <2>1. Whole(p, f.target) /\ Len(contracts) \in Nat
    BY <1>2, ProgramLen DEF IInv, FinishedStay, Core, OnChain
  <2> HIDE DEF p
  <2>2. ProxiesLinked(p)
    BY <2>1 DEF Whole, PoolOnChain, ConfOnChain, ProxiesLinked
  <2>3. HelpersSet(p)
    BY <2>1 DEF Whole, HelpersSet
  <2>4. AdminsInOffice(p, f.target)
    BY <2>1 DEF Whole, AdminsInOffice, Owned
  <2> QED
    BY <2>1, <2>2, <2>3, <2>4 DEF Whole, p
<1>3. IInv => FinishedMarketsWhole
  BY <1>2 DEF FinishedMarketsWhole
<1> QED
  BY <1>1, <1>3, InvInit, PTL DEF Spec

-----------------------------------------------------------------------------
(* Prices.  A market takes an oracle that is provided, and then sets the   *)
(* sources of its reserves, or deploys one with a fallback, or its task    *)
(* throws; and the provider gets the oracle before a reserve is listed.    *)

(* A target whose market names both oracles, and the sources of its task.  *)
Both(t) == Provided(t, "AaveOracle") /\ Provided(t, "FallbackOracle")
Sourced(t) == PairsTokenAggregator(t, ReserveAssets(t) \cup {"USD"})

minePriceOracle == Mine("PriceOracle", "PriceOracle", {})[1]
mineAaveOracle  == Mine("AaveOracle", "AaveOracle", {"PriceOracle"})[1]
takeAaveOracle  == Take("AaveOracle", "AaveOracle")[1]
setSources(t)   == SetAssetSources(Sourced(t))[1]
throw           == Throw[1]

(* Only Amm on kovan names both, and has a source for each of its reserves *)
(* but WETH, in which it quotes.                                           *)
LEMMA OracleData ==
  ASSUME NEW t, t.market \in DOMAIN Config, ~Dev(t), Provided(t, "AaveOracle")
  PROVE  /\ t.market # "Hedera"
         /\ Both(t) => Listable(t) \subseteq Sourced(t) \cup QuoteCurrencies(t)
<1>1. t.market # "Hedera"
  BY DEF Provided, Config, Hedera!HederaConfig, Hedera!AaveOracle
<1>2. Both(t) => t.market = "Amm" /\ t.network = "kovan"
  BY DEF Both, Provided, Config, Hedera!HederaConfig, Hedera!AaveOracle,
         Aave!AaveConfig, Aave!AaveOracle, Aave!FallbackOracle, Amm!AmmConfig, Amm!AaveOracle,
         Amm!FallbackOracle, Avalanche!AvalancheConfig, Avalanche!FallbackOracle,
         Matic!MaticConfig, Matic!AaveOracle
<1>3. Listable(t) \subseteq ReserveAssets(t)
  BY DEF Listable
<1>4. ASSUME Both(t)
      PROVE  ReserveAssets(t) \subseteq Config["Amm"].aggregators["kovan"] \cup QuoteCurrencies(t)
  <2>1. ReserveAssets(t) = Config["Amm"].assets["kovan"]
    BY <1>2, <1>4 DEF ReserveAssets, Dev
  <2>2. QuoteCurrencies(t) = {"ETH", "WETH"}
    BY <1>2, <1>4 DEF QuoteCurrencies, Config, Amm!AmmConfig, Amm!OracleQuoteCurrency
  <2>3. Config["Amm"].assets["kovan"] = Amm!ReserveAssets["kovan"]
        /\ Config["Amm"].aggregators["kovan"] = Amm!ChainlinkAggregator["kovan"]
    BY DEF Config, Amm!AmmConfig
  <2>4. "kovan" \in Amm!Networks
    BY DEF Amm!Networks
  <2>5. Amm!ReserveAssets["kovan"]
        = {"DAI", "USDC", "USDT", "WBTC", "WETH", "UniDAIWETH", "UniWBTCWETH",
           "UniAAVEWETH", "UniBATWETH", "UniDAIUSDC", "UniCRVWETH", "UniLINKWETH",
           "UniMKRWETH", "UniRENWETH", "UniSNXWETH", "UniUNIWETH", "UniUSDCWETH",
           "UniWBTCUSDC", "UniYFIWETH", "BptWBTCWETH", "BptBALWETH"}
    BY <2>4 DEF Amm!ReserveAssets
  <2>6. Amm!ChainlinkAggregator["kovan"]
        = {"USDT", "WBTC", "USDC", "DAI", "UniDAIWETH", "UniWBTCWETH", "UniAAVEWETH",
           "UniBATWETH", "UniDAIUSDC", "UniCRVWETH", "UniLINKWETH", "UniMKRWETH",
           "UniRENWETH", "UniSNXWETH", "UniUNIWETH", "UniUSDCWETH", "UniWBTCUSDC",
           "UniYFIWETH", "BptWBTCWETH", "BptBALWETH", "USD"}
    BY <2>4 DEF Amm!ChainlinkAggregator
  <2> QED
    BY <2>1, <2>2, <2>3, <2>5, <2>6
<1>5. Both(t) => Config[t.market].aggregators[t.network] = Config["Amm"].aggregators["kovan"]
  BY <1>2
<1> QED
  BY <1>1, <1>3, <1>4, <1>5 DEF Sourced, PairsTokenAggregator

(* Whenever a step of U is taken, one of V has been.                       *)
Preceded(p, U, V) == \A i \in 1 .. Len(p) : p[i] \in U => \E j \in 1 .. i - 1 : p[j] \in V

LEMMA PrecededNone ==
  ASSUME NEW p, NEW U, NEW V, Program(p), Steps(p) \cap U = {}
  PROVE  Preceded(p, U, V)
BY ProgramLen DEF Preceded

LEMMA PrecededCat ==
  ASSUME NEW p, NEW q, NEW U, NEW V, Program(p), Program(q), Preceded(p, U, V),
         Steps(p) \cap V # {} \/ Preceded(q, U, V)
  PROVE  Preceded(p \o q, U, V)
<1> DEFINE r == p \o q
<1>1. /\ Len(p) \in Nat /\ Len(q) \in Nat /\ Len(r) = Len(p) + Len(q)
      /\ \A i \in 1 .. Len(p) : r[i] = p[i]
      /\ \A i \in 1 .. Len(q) : r[Len(p) + i] = q[i]
  BY Cat, ProgramLen
<1> HIDE DEF r
<1>2. ASSUME NEW i \in 1 .. Len(r), r[i] \in U PROVE \E j \in 1 .. i - 1 : r[j] \in V
  <2>1. CASE i <= Len(p)
    <3>1. i \in 1 .. Len(p) /\ p[i] \in U
      BY <1>1, <1>2, <2>1
    <3>2. PICK j \in 1 .. i - 1 : p[j] \in V
      BY <3>1 DEF Preceded
    <3>3. j \in 1 .. Len(p)
      BY <1>1, <3>1
    <3> QED
      BY <1>1, <3>2, <3>3
  <2>2. CASE i > Len(p) /\ Steps(p) \cap V # {}
    <3>1. PICK j \in 1 .. Len(p) : p[j] \in V
      BY <2>2 DEF Steps
    <3>2. j \in 1 .. i - 1 /\ r[j] = p[j]
      BY <1>1, <2>2, <3>1
    <3> QED
      BY <3>1, <3>2
  <2>3. CASE i > Len(p) /\ Preceded(q, U, V)
    <3>1. i - Len(p) \in 1 .. Len(q) /\ Len(p) + (i - Len(p)) = i
      BY <1>1, <2>3
    <3>2. q[i - Len(p)] \in U
      BY <1>1, <1>2, <3>1
    <3>3. PICK j \in 1 .. (i - Len(p)) - 1 : q[j] \in V
      BY <2>3, <3>1, <3>2 DEF Preceded
    <3>4. j \in 1 .. Len(q) /\ Len(p) + j \in 1 .. i - 1
      BY <1>1, <3>1, <3>3
    <3> QED
      BY <1>1, <3>3, <3>4
  <2> QED
    BY <1>1, <2>1, <2>2, <2>3
<1> QED
  BY <1>2 DEF Preceded, r

(* A piece of a task with nothing about oracles in it, and one that keeps  *)
(* to their order: the fallback before the oracle, the oracle before its   *)
(* sources.                                                                *)
Clean(p) ==
  /\ Program(p)
  /\ \A s \in Steps(p) : /\ ~Assigns(s, "PriceOracle") /\ ~Assigns(s, "AaveOracle")
                         /\ s.op # "sources"

LEMMA CleanStep ==
  ASSUME NEW s, ~Assigns(s, "PriceOracle"), ~Assigns(s, "AaveOracle"), s.op # "sources"
  PROVE  Clean(<<s>>)
BY Tuple DEF Clean

LEMMA CleanEmpty == Clean(<<>>)
BY Empty DEF Clean

LEMMA CleanCat == ASSUME NEW p, NEW q, Clean(p), Clean(q) PROVE Clean(p \o q)
BY Cat DEF Clean

Ordered(p, t) ==
  /\ Program(p)
  /\ \A s \in Steps(p) :
       /\ Assigns(s, "PriceOracle") => s = minePriceOracle
       /\ Assigns(s, "AaveOracle") => \/ s = takeAaveOracle
                                      \/ s = mineAaveOracle /\ ~Both(t)
       /\ Both(t) /\ s.op = "sources" => s = setSources(t)
  /\ Both(t) => Preceded(p, {setSources(t)}, {takeAaveOracle})
  /\ ~Both(t) => Preceded(p, {mineAaveOracle}, {minePriceOracle, throw})
  /\ ~Both(t) => Preceded(p, {takeAaveOracle}, {throw})

LEMMA OracleStepsAre ==
  /\ Assigns(minePriceOracle, "PriceOracle") /\ ~Assigns(minePriceOracle, "AaveOracle")
  /\ minePriceOracle.op = "mine"
  /\ Assigns(mineAaveOracle, "AaveOracle") /\ ~Assigns(mineAaveOracle, "PriceOracle")
  /\ mineAaveOracle.op = "mine"
  /\ Assigns(takeAaveOracle, "AaveOracle") /\ ~Assigns(takeAaveOracle, "PriceOracle")
  /\ takeAaveOracle.op = "take"
  /\ throw.op = "throw" /\ \A v : ~Assigns(throw, v)
  /\ \A t : setSources(t).op = "sources" /\ \A v : ~Assigns(setSources(t), v)
BY DEF minePriceOracle, mineAaveOracle, takeAaveOracle, setSources, throw, Mine, Take,
       SetAssetSources, Throw, Assigns, Assigning

LEMMA OrderedClean == ASSUME NEW p, NEW t, Clean(p) PROVE Ordered(p, t)
<1>1. /\ setSources(t) \notin Steps(p) /\ mineAaveOracle \notin Steps(p) /\ takeAaveOracle \notin Steps(p)
  BY OracleStepsAre DEF Clean
<1>2. \A x, V : x \notin Steps(p) => Preceded(p, {x}, V)
  BY PrecededNone DEF Clean
<1> QED
  BY <1>1, <1>2 DEF Ordered, Clean

LEMMA OrderedCat ==
  ASSUME NEW p, NEW q, NEW t, Ordered(p, t), Ordered(q, t)
  PROVE  Ordered(p \o q, t)
<1>1. Program(p) /\ Program(q) /\ Program(p \o q) /\ Steps(p \o q) = Steps(p) \cup Steps(q)
  BY Cat DEF Ordered
<1>2. \A U, V : Preceded(p, U, V) /\ Preceded(q, U, V) => Preceded(p \o q, U, V)
  BY <1>1, PrecededCat
<1> QED
  BY <1>1, <1>2 DEF Ordered


LEMMA Grown ==
  ASSUME NEW q, NEW s, Program(q)
  PROVE  LET p == Join(q, One(s))
         IN  /\ Program(p) /\ Steps(p) = Steps(q) \cup {s} /\ Len(p) = Len(q) + 1 /\ Len(q) \in Nat
             /\ p[Len(q) + 1] = s /\ \A i \in 1 .. Len(q) : p[i] = q[i]
<1>1. Program(One(s)) /\ Steps(One(s)) = {s}
  BY Tuple DEF One
<1>2. Steps(Join(q, One(s))) = Steps(q) \cup Steps(One(s))
  BY <1>1, Cat DEF Join
<1> QED
  BY <1>1, <1>2, OneMore

LEMMA Pair ==
  ASSUME NEW a, NEW b
  PROVE  LET p == Join(One(a), One(b))
         IN  Program(p) /\ Steps(p) = {a, b} /\ Len(p) = 2 /\ p[1] = a /\ p[2] = b
<1>1. Program(One(a)) /\ Steps(One(a)) = {a} /\ Len(One(a)) = 1 /\ One(a)[1] = a
  BY Tuple DEF One
<1> DEFINE x == One(a)
           p == Join(x, One(b))
<1> HIDE DEF x
<1>2. /\ Program(p) /\ Steps(p) = Steps(x) \cup {b} /\ Len(p) = Len(x) + 1 /\ p[Len(x) + 1] = b
      /\ \A i \in 1 .. Len(x) : p[i] = x[i]
  <2>1. Program(x)
    BY <1>1 DEF x
  <2> QED
    BY <2>1, Grown
<1>3. Steps(x) = {a} /\ Len(x) = 1 /\ x[1] = a
  BY <1>1 DEF x
<1> HIDE DEF p
<1>4. Steps(p) = {a, b} /\ Len(p) = 2 /\ p[1] = a /\ p[2] = b
  BY <1>2, <1>3
<1> QED
  BY <1>2, <1>4 DEF p, x

LEMMA Triple ==
  ASSUME NEW a, NEW b, NEW c
  PROVE  LET p == Join(Join(One(a), One(b)), One(c))
         IN  Program(p) /\ Steps(p) = {a, b, c} /\ Len(p) = 3 /\ p[1] = a /\ p[2] = b /\ p[3] = c
<1> DEFINE x == Join(One(a), One(b))
           p == Join(x, One(c))
<1>1. Program(x) /\ Steps(x) = {a, b} /\ Len(x) = 2 /\ x[1] = a /\ x[2] = b
  BY Pair
<1> HIDE DEF x
<1>2. /\ Program(p) /\ Steps(p) = Steps(x) \cup {c} /\ Len(p) = Len(x) + 1 /\ p[Len(x) + 1] = c
      /\ \A i \in 1 .. Len(x) : p[i] = x[i]
  <2>1. Program(x)
    BY <1>1
  <2> QED
    BY <2>1, Grown
<1> HIDE DEF p
<1>3. Steps(p) = {a, b, c} /\ Len(p) = 3 /\ p[1] = a /\ p[2] = b /\ p[3] = c
  BY <1>1, <1>2
<1> QED
  BY <1>2, <1>3 DEF p, x

(* The oracle of a market: its own and then its sources, one deployed with *)
(* its fallback, or a throw.  An oracle that is provided and not owned     *)
(* throws at its sources.                                                  *)
LEMMA PriceOraclesOrdered ==
  ASSUME NEW t, t.market \in DOMAIN Config, ~Dev(t)
  PROVE  /\ Ordered(priceOracles(t), t)
         /\ Steps(priceOracles(t)) \cap {throw, mineAaveOracle, takeAaveOracle} # {}
         /\ Both(t) => Steps(priceOracles(t)) \cap {throw, setSources(t)} # {}
<1> DEFINE src == setAssetSources(t, Sourced(t))[1]
           p   == priceOracles(t)
           FO  == Provided(t, "FallbackOracle")
           AO  == Provided(t, "AaveOracle")
           x   == IF FO THEN Nothing ELSE deploySupraOracle(t)
           y   == IF AO THEN Take("AaveOracle", "AaveOracle")
                  ELSE IF FO THEN Throw
                  ELSE getQuoteCurrency(t) \o deployAaveOracle
<1>1. p = Join(Join(x, y), One(src))
  BY DEF priceOracles, setAssetSources, Throw, SetAssetSources, Sourced, Join, One
<1>2. src = setSources(t) \/ src = throw
  BY DEF setAssetSources, setSources, throw
<1>3. Throw = One(throw) /\ Take("AaveOracle", "AaveOracle") = One(takeAaveOracle)
  BY DEF throw, Throw, takeAaveOracle, Take, One
<1>4. /\ throw # takeAaveOracle /\ throw # mineAaveOracle /\ throw # minePriceOracle /\ throw # setSources(t)
      /\ takeAaveOracle # mineAaveOracle /\ takeAaveOracle # minePriceOracle /\ takeAaveOracle # src
      /\ mineAaveOracle # minePriceOracle /\ mineAaveOracle # src /\ minePriceOracle # src
  BY <1>2, OracleStepsAre
<1>5. AO => t.market # "Hedera"
  BY OracleData
<1>6. t.market # "Hedera" => deploySupraOracle(t) = Throw
  BY DEF deploySupraOracle
<1> HIDE DEF src, p, FO, AO, x, y
<1>7. CASE AO /\ FO
  <2>1. Join(x, y) = One(takeAaveOracle)
    BY <1>3, <1>7 DEF x, y, Nothing, Join, One
  <2>2. /\ Program(p) /\ Steps(p) = {takeAaveOracle, src}
        /\ Len(p) = 2 /\ p[1] = takeAaveOracle /\ p[2] = src
    BY <1>1, <2>1, Pair, Triple
  <2>3. Preceded(p, {setSources(t)}, {takeAaveOracle})
    BY <1>4, <2>2, OracleStepsAre DEF Preceded
  <2> QED
    BY <1>7, <1>2, <2>2, <2>3, OracleStepsAre DEF Ordered, Both, AO, FO, p, src
<1>8. CASE AO /\ ~FO
  <2>1. x = One(throw) /\ y = One(takeAaveOracle)
    BY <1>3, <1>5, <1>6, <1>8 DEF x, y
  <2>2. /\ Program(p) /\ Steps(p) = {throw, takeAaveOracle, src}
        /\ Len(p) = 3 /\ p[1] = throw /\ p[2] = takeAaveOracle /\ p[3] = src
    BY <1>1, <2>1, Pair, Triple
  <2>3. Preceded(p, {takeAaveOracle}, {throw}) /\ Preceded(p, {mineAaveOracle}, {minePriceOracle, throw})
    BY <1>4, <2>2 DEF Preceded
  <2> QED
    BY <1>8, <1>2, <2>2, <2>3, OracleStepsAre DEF Ordered, Both, AO, FO, p, src
<1>9. CASE ~AO /\ FO
  <2>1. Join(x, y) = One(throw)
    BY <1>3, <1>9 DEF x, y, Nothing, Join, One
  <2>2. /\ Program(p) /\ Steps(p) = {throw, src} /\ Len(p) = 2 /\ p[1] = throw /\ p[2] = src
    BY <1>1, <2>1, Pair, Triple
  <2>3. Preceded(p, {takeAaveOracle}, {throw}) /\ Preceded(p, {mineAaveOracle}, {minePriceOracle, throw})
    BY <1>4, <2>2 DEF Preceded
  <2> QED
    BY <1>9, <1>2, <2>2, <2>3, OracleStepsAre DEF Ordered, Both, AO, FO, p, src
<1>10. CASE ~AO /\ ~FO
  <2> DEFINE s    == Save("AaveOracle", "AaveOracle")
             ps   == Save("PriceOracle", "PriceOracle")
             rest == Join(getQuoteCurrency(t), Join(One(mineAaveOracle), s))
  <2>1. /\ Clean(s) /\ Clean(ps) /\ Clean(Throw)
        /\ Clean(getQuoteCurrency(t))
    BY CleanStep, CleanEmpty, CleanCat
    DEF getQuoteCurrency, Nothing, Throw, Save, Mine, Assigns, Assigning
  <2>2. deployPriceOracle = Join(One(minePriceOracle), ps)
    BY DEF deployPriceOracle, Deployed, minePriceOracle, Mine, Join, One
  <2>3. y = rest
    BY <1>10 DEF y, deployAaveOracle, Deployed, mineAaveOracle, Mine, Join, One
  <2>4. x \in {Throw, Join(One(minePriceOracle), ps)}
    BY <1>10, <2>2 DEF x, deploySupraOracle
  <2> HIDE DEF s, ps, rest
  <2>5. Steps(x) \cap {minePriceOracle, throw} # {} /\ Program(x)
        /\ \A z \in Steps(x) : ~Assigns(z, "AaveOracle") /\ z.op # "sources"
                               /\ (Assigns(z, "PriceOracle") => z = minePriceOracle)
    <3>1. CASE x = Throw
      BY <1>3, <2>1, <3>1, Tuple DEF Clean, One
    <3>2. CASE x = Join(One(minePriceOracle), ps)
      <4>1. Program(x) /\ Steps(x) = {minePriceOracle} \cup Steps(ps)
        BY <2>1, <3>2, Tuple, Cat DEF Clean, Join, One
      <4> QED
        BY <2>1, <4>1, OracleStepsAre DEF Clean
    <3> QED
      BY <2>4, <3>1, <3>2
  <2>6. /\ Program(Join(rest, One(src)))
        /\ Steps(Join(rest, One(src))) = Steps(getQuoteCurrency(t)) \cup {mineAaveOracle} \cup Steps(s) \cup {src}
    <3>1. Program(Join(One(mineAaveOracle), s)) /\ Steps(Join(One(mineAaveOracle), s)) = {mineAaveOracle} \cup Steps(s)
      BY <2>1, Tuple, Cat DEF Clean, Join, One
    <3>2. Program(rest) /\ Steps(rest) = Steps(getQuoteCurrency(t)) \cup ({mineAaveOracle} \cup Steps(s))
      BY <2>1, <3>1, Cat DEF Clean, rest, Join, One
    <3> QED
      BY <3>2, Grown
  <2>7. p = Join(x, Join(rest, One(src)))
    <3>1. Program(rest) /\ Program(x) /\ Program(One(src))
      <4>1. Program(Join(One(mineAaveOracle), s))
        BY <2>1, Tuple, Cat DEF Clean, Join, One
      <4> QED
        BY <2>1, <2>5, <4>1, Tuple, Cat DEF Clean, rest, Join, One
    <3> QED
      BY <1>1, <2>3, <3>1, Assoc
  <2> DEFINE r == Join(rest, One(src))
  <2>8. /\ Program(p) /\ Steps(p) = Steps(x) \cup Steps(r)
    <3> HIDE DEF r
    <3> QED
      BY <2>5, <2>6, <2>7, Cat DEF r, Join
  <2>9. takeAaveOracle \notin Steps(p) /\ mineAaveOracle \in Steps(p)
    BY <1>4, <2>1, <2>5, <2>6, <2>8, OracleStepsAre DEF Clean
  <2>10. mineAaveOracle \notin Steps(x)
    BY <2>5, OracleStepsAre
  <2>11. Preceded(p, {mineAaveOracle}, {minePriceOracle, throw})
    <3>1. Preceded(x, {mineAaveOracle}, {minePriceOracle, throw})
      BY <2>5, <2>10, PrecededNone
    <3> HIDE DEF r
    <3> QED
      BY <2>5, <2>6, <2>7, <3>1, PrecededCat DEF r, Join
  <2>12. Preceded(p, {takeAaveOracle}, {throw})
    BY <2>8, <2>9, PrecededNone
  <2>13. \A z \in Steps(p) : /\ Assigns(z, "PriceOracle") => z = minePriceOracle
                             /\ Assigns(z, "AaveOracle") => z = mineAaveOracle
    BY <1>2, <2>1, <2>5, <2>6, <2>8, OracleStepsAre DEF Clean
  <2>14. ~Both(t)
    BY <1>10 DEF Both, AO
  <2> QED
    BY <2>8, <2>9, <2>11, <2>12, <2>13, <2>14 DEF Ordered, p
<1> QED
  BY <1>7, <1>8, <1>9, <1>10 DEF p, src

OraclesInOrder(p, t) ==
  /\ Ordered(p, t)
  /\ \E i \in 1 .. Len(p) - 2 : p[i] \in {throw, mineAaveOracle, takeAaveOracle}
  /\ Both(t) => \E i \in 1 .. Len(p) - 2 : p[i] \in {throw, setSources(t)}

LEMMA OraclesTaskInOrder ==
  ASSUME NEW t, t.market \in DOMAIN Config, ~Dev(t)
  PROVE  OraclesInOrder(fullDeployOracles(t), t)
<1> DEFINE a  == (IF ReserveAssets(t) = {} THEN Throw ELSE Nothing)
                 \o getLendingPoolAddressesProvider \o getGenesisPoolAdmin
           b  == priceOracles(t)
           l  == lendingRateOracle(t)
           w1 == Write("PriceOracle", "AaveOracle")
           w2 == Write("LendingRateOracle", "LendingRateOracle")
           u  == Join(a, b)
           v  == Join(u, l)
           x  == Join(v, w1)
           p  == Join(x, w2)
           O  == {throw, mineAaveOracle, takeAaveOracle}
<1>1. fullDeployOracles(t) = p
  BY DEF fullDeployOracles, Join
<1>2. Clean(a)
  BY CleanStep, CleanEmpty, CleanCat
  DEF getLendingPoolAddressesProvider, getGenesisPoolAdmin, Nothing, Throw, Load, Take, Assigns,
      Assigning, provider
<1>3. Clean(l)
  BY CleanStep, CleanEmpty, CleanCat
  DEF lendingRateOracle, deployLendingRateOracle, Deployed, setInitialMarketRatesInRatesOracleByHelper,
      SetOracleBorrowRates, Grant, Mine, Save, Throw, Load, Take, Assigns, Assigning
<1>4. Clean(w1) /\ Clean(w2) /\ Len(w1) = 1 /\ Len(w2) = 1
  BY CleanStep DEF Write, Assigns, Assigning
<1>5. Ordered(b, t) /\ Steps(b) \cap O # {} /\ (Both(t) => Steps(b) \cap {throw, setSources(t)} # {})
  BY PriceOraclesOrdered
<1> HIDE DEF a, b, l, w1, w2
<1>6. Ordered(u, t) /\ Ordered(v, t)
  <2>1. Ordered(u, t)
    BY <1>2, <1>5, OrderedClean, OrderedCat DEF Join
  <2> HIDE DEF u
  <2> QED
    BY <1>3, <2>1, OrderedClean, OrderedCat DEF Join
<1>7. Steps(b) \subseteq Steps(u) /\ Steps(u) \subseteq Steps(v)
  <2>1. Program(a) /\ Program(b) /\ Program(l) /\ Program(u)
    BY <1>2, <1>3, <1>5, <1>6 DEF Clean, Ordered
  <2>2. Steps(u) = Steps(a) \cup Steps(b)
    BY <2>1, Cat DEF Join
  <2> HIDE DEF u
  <2>3. Steps(v) = Steps(u) \cup Steps(l)
    BY <2>1, Cat DEF Join
  <2> QED
    BY <2>2, <2>3
<1> HIDE DEF u, v
<1>8. Ordered(x, t)
  BY <1>4, <1>6, OrderedClean, OrderedCat DEF Join
<1> HIDE DEF x
<1>9. Ordered(p, t)
  BY <1>4, <1>8, OrderedClean, OrderedCat DEF Join
<1>10. Len(p) - 2 = Len(v) /\ \A i \in 1 .. Len(v) : p[i] = v[i]
  <2>1. Program(v) /\ Program(x) /\ Program(w1) /\ Program(w2)
    BY <1>4, <1>6, <1>8 DEF Clean, Ordered
  <2>2. Len(x) = Len(v) + Len(w1) /\ Len(v) \in Nat /\ \A i \in 1 .. Len(v) : x[i] = v[i]
    BY <2>1, JoinAt DEF x
  <2>3. Len(p) = Len(x) + Len(w2) /\ \A i \in 1 .. Len(x) : p[i] = x[i]
    BY <2>1, JoinAt
  <2> HIDE DEF p
  <2> QED
    BY <1>4, <2>2, <2>3
<1> HIDE DEF p
<1>11. \A s \in Steps(v) : \E i \in 1 .. Len(p) - 2 : p[i] = s
  BY <1>10 DEF Steps
<1> QED
  BY <1>1, <1>5, <1>7, <1>9, <1>11 DEF OraclesInOrder

(* The third task of a market is that of its oracles.                      *)
LEMMA ThirdTask ==
  ASSUME NEW t \in Targets, ~Dev(t), NEW n \in 1 .. Len(Programs[t]), Rank(t, n) = 3
  PROVE  Programs[t][n] = fullDeployOracles(t)
<1> DEFINE r == fullDeployAddressProviderRegistry(t)
           m == marketTasks(t)
           o == fullDeployOracles(t)
<1>1. Programs[t] = Migration(t)
  BY DEF Programs
<1>2. m[3] = o /\ Len(m) = 6
  BY DEF marketTasks
<1>3. CASE t.migration = "amm:mainnet"
  <2>1. Migration(t) = m /\ n = 3
    BY <1>3 DEF Migration, Rank, ammMainnet
  <2> QED
    BY <1>1, <1>2, <2>1
<1>4. CASE t.migration # "amm:mainnet"
  <2>1. n = 4
    BY <1>4 DEF Rank
  <2>2. CASE t.migration \in {"sidechain:mainnet", "avalanche:mainnet"}
    <3>1. Migration(t) = <<r>> \o m
      BY <2>2 DEF Migration, sidechainMainnet, avalancheMainnet
    <3>2. (<<r>> \o m)[4] = o
      BY DEF marketTasks
    <3> QED
      BY <1>1, <2>1, <3>1, <3>2
  <2>3. CASE t.migration = "aave:mainnet"
    <3>1. aaveMainnet(t)[4] = o
      <4> DEFINE open == Load("LendingPoolConfigurator", "LendingPoolConfigurator")
                         \o SetPoolPause(FALSE, getEmergencyAdmin(t))
      <4>1. aaveMainnet(t) = <<r>> \o m \o <<deployUiPoolDataProviderV2V3,
                                              deployUiIncentiveDataProviderV2V3, open>>
        BY DEF aaveMainnet
      <4> HIDE DEF open
      <4> QED
        BY <4>1 DEF marketTasks
    <3>2. Migration(t) = aaveMainnet(t)
      BY <2>3 DEF Migration
    <3> QED
      BY <1>1, <2>1, <3>1, <3>2
  <2> QED
    BY <1>4, <2>2, <2>3, MarketDeploymentConstants DEF Dev
<1> QED
  BY <1>3, <1>4

-----------------------------------------------------------------------------
(* An oracle that has a fallback to ask, one that can price what t lists.  *)
Own == Address("AaveOracle")

Backed(cs, o) ==
  /\ o \in 1 .. Len(cs)
  /\ \E a \in cs[o].uses : a \in 1 .. Len(cs) /\ cs[a].kind = "PriceOracle"

CanPrice(cs, ss, o, t) ==
  \/ Backed(cs, o)
  \/ o = Own /\ Listable(t) \subseteq ss[Own] \cup QuoteCurrencies(t)

(* The script has a fallback or an oracle in hand, and the market's own    *)
(* oracle the sources of the steps taken; the provider gets one that can   *)
(* price the reserves before any is listed, and so does every other.       *)
OracleInHand ==
  /\ Own \in DOMAIN sources
  /\ Market /\ Live /\ At = 3 =>
       /\ "PriceOracle" \in DOMAIN local =>
            /\ local["PriceOracle"] \in 1 .. Len(contracts)
            /\ contracts[local["PriceOracle"]].kind = "PriceOracle"
       /\ "AaveOracle" \in DOMAIN local =>
            /\ Both(target) => local["AaveOracle"] = Own
            /\ ~Both(target) => Backed(contracts, local["AaveOracle"])
       /\ Both(target) => \A i \in 1 .. Done :
            Task[i].op = "sources" => Task[i].arg \subseteq sources[Own]

OracleEntered ==
  Market /\ Ending(3, 1) => CanPrice(contracts, sources, Home["PriceOracle"], target)

NothingListed ==
  Market /\ Past(1, 2) /\ At <= 5 /\ Home["LendingPool"] # 0 => PoolState.listed = {}

ListedPriced ==
  \A p \in DOMAIN slots :
    LET pool == slots[p]["LendingPool"]
    IN  pool # 0 /\ pools[pool].listed # {} =>
          \E t \in Targets : /\ pools[pool].listed \subseteq Listable(t)
                             /\ CanPrice(contracts, sources, slots[p]["PriceOracle"], t)

LEMMA PrecededAt ==
  ASSUME NEW p, NEW U, NEW V, Preceded(p, U, V), NEW i \in 1 .. Len(p), p[i] \in U
  PROVE  \E j \in 1 .. i - 1 : p[j] \in V
BY DEF Preceded

LEMMA OracleNow ==
  ASSUME Core, Moves, Market, At = 3
  PROVE  /\ Assigns(Now, "PriceOracle") => Now.op = "mine" /\ Now.arg = "PriceOracle"
         /\ Both(target) /\ Assigns(Now, "AaveOracle") => Now.op = "take" /\ Now.arg = Own
         /\ ~Both(target) /\ Assigns(Now, "AaveOracle") =>
              Now.op = "mine" /\ Now.uses = {"PriceOracle"} /\ "PriceOracle" \in DOMAIN local
         /\ Both(target) /\ Now.op = "sources" => "AaveOracle" \in DOMAIN local
         /\ Len(todo) = 2 =>
              /\ Now.op = "write" /\ Now.arg = "PriceOracle" /\ Now.var = "AaveOracle"
              /\ "AaveOracle" \in DOMAIN local
              /\ Both(target) => \E i \in 1 .. Done : Task[i].op = "sources" /\ Task[i].arg = Sourced(target)
<1> DEFINE n == Len(Task)
           m == Len(todo)
<1>1. /\ Live /\ Begun /\ Done \in Nat /\ m \in Nat /\ Now = Task[Done + 1] /\ m = n - Done /\ n \in Nat
      /\ Done + 1 \in 1 .. n /\ Now.op # "throw"
  BY Position DEF Core
<1>2. OraclesTask(Task, target)
  BY AtHand DEF Core
<1>3. OraclesInOrder(Task, target)
  <2>1. target \in Targets /\ ~Dev(target) /\ task \in 1 .. Len(Programs[target])
    BY <1>1 DEF Core, OnTrack, Market
  <2>2. Task = fullDeployOracles(target)
    BY <2>1, ThirdTask DEF Task, At
  <2>3. target.market \in DOMAIN Config
    BY <2>1, MarketDeploymentConstants
  <2> QED
    BY <2>1, <2>2, <2>3, OraclesTaskInOrder
<1>4. \A i \in 1 .. Done : /\ \A v : Assigns(Task[i], v) => v \in DOMAIN local
                           /\ Task[i] # throw
  BY <1>1, OracleStepsAre DEF Core, Locals, Assigns, OnTrack
<1>5. Now \in Steps(Task) /\ Done + 1 - 1 = Done
  BY <1>1 DEF Steps
<1>6. /\ Assigns(Now, "PriceOracle") => Now = minePriceOracle
      /\ Assigns(Now, "AaveOracle") => \/ Now = takeAaveOracle
                                       \/ Now = mineAaveOracle /\ ~Both(target)
      /\ Both(target) /\ Now.op = "sources" => Now = setSources(target)
  BY <1>3, <1>5 DEF OraclesInOrder, Ordered
<1>7. ASSUME NEW x, NEW V, Preceded(Task, {x}, V), Now = x PROVE \E j \in 1 .. Done : Task[j] \in V
  <2> DEFINE i == Done + 1
             U == {x}
  <2>1. i \in 1 .. Len(Task) /\ Task[i] \in U /\ Preceded(Task, U, V)
    BY <1>1, <1>7
  <2> HIDE DEF i, U
  <2>2. \E j \in 1 .. i - 1 : Task[j] \in V
    BY <2>1, PrecededAt
  <2>3. i - 1 = Done
    BY <1>1 DEF i
  <2> QED
    BY <2>2, <2>3
<1>8. Both(target) /\ Now = setSources(target) => \E j \in 1 .. Done : Task[j] = takeAaveOracle
  <2>1. Both(target) => Preceded(Task, {setSources(target)}, {takeAaveOracle})
    BY <1>3 DEF OraclesInOrder, Ordered
  <2>2. Both(target) /\ Now = setSources(target) => \E j \in 1 .. Done : Task[j] \in {takeAaveOracle}
    BY <1>7, <2>1
  <2> QED
    BY <2>2
<1>9. ~Both(target) /\ Now = mineAaveOracle => \E j \in 1 .. Done : Task[j] = minePriceOracle
  <2>1. ~Both(target) => Preceded(Task, {mineAaveOracle}, {minePriceOracle, throw})
    BY <1>3 DEF OraclesInOrder, Ordered
  <2>2. ~Both(target) /\ Now = mineAaveOracle => \E j \in 1 .. Done : Task[j] \in {minePriceOracle, throw}
    BY <1>7, <2>1
  <2> QED
    BY <1>4, <2>2
<1>10. ~Both(target) => Now # takeAaveOracle
  <2>1. ~Both(target) => Preceded(Task, {takeAaveOracle}, {throw})
    BY <1>3 DEF OraclesInOrder, Ordered
  <2>2. ~Both(target) /\ Now = takeAaveOracle => \E j \in 1 .. Done : Task[j] \in {throw}
    BY <1>7, <2>1
  <2> QED
    BY <1>4, <2>2
<1>11. /\ minePriceOracle.arg = "PriceOracle" /\ mineAaveOracle.uses = {"PriceOracle"}
       /\ takeAaveOracle.arg = Own
       /\ setSources(target).op = "sources" /\ setSources(target).arg = Sourced(target)
  BY DEF minePriceOracle, mineAaveOracle, takeAaveOracle, setSources, Mine, Take, SetAssetSources, Own
<1>12. ASSUME m = 2
       PROVE  /\ Now.op = "write" /\ Now.arg = "PriceOracle" /\ Now.var = "AaveOracle"
              /\ "AaveOracle" \in DOMAIN local
              /\ Both(target) =>
                   \E i \in 1 .. Done : Task[i].op = "sources" /\ Task[i].arg = Sourced(target)
  <2>1. Now = Write("PriceOracle", "AaveOracle")[1]
    <3>1. Task[n - 1] = Write("PriceOracle", "AaveOracle")[1]
      BY <1>2 DEF OraclesTask
    <3> HIDE DEF n, m
    <3>2. Done + 1 = n - 1
      BY <1>1, <1>12
    <3> QED
      BY <1>1, <3>1, <3>2
  <2>2. /\ \E i \in 1 .. n - 2 : Task[i] \in {throw, mineAaveOracle, takeAaveOracle}
        /\ Both(target) => \E i \in 1 .. n - 2 : Task[i] \in {throw, setSources(target)}
    BY <1>3 DEF OraclesInOrder
  <2> HIDE DEF n, m
  <2>3. n - 2 = Done
    BY <1>1, <1>12
  <2>4. "AaveOracle" \in DOMAIN local
    BY <1>4, <2>2, <2>3, OracleStepsAre
  <2> QED
    BY <1>4, <1>11, <2>1, <2>2, <2>3, <2>4 DEF Write
<1> HIDE DEF m
<1>13. Both(target) /\ Now.op = "sources" => "AaveOracle" \in DOMAIN local
  BY <1>4, <1>6, <1>8, OracleStepsAre
<1>14. ~Both(target) /\ Now = mineAaveOracle => "PriceOracle" \in DOMAIN local
  BY <1>4, <1>9, OracleStepsAre
<1> QED
  BY <1>6, <1>10, <1>11, <1>12, <1>13, <1>14, OracleStepsAre DEF m

(* Sources are only added, contracts never change.                         *)
LEMMA FrameSources ==
  ASSUME OnChain, Moves, Own \in DOMAIN sources
  PROVE  /\ Own \in DOMAIN sources' /\ sources[Own] \subseteq sources'[Own]
         /\ Now.op = "sources" /\ local["AaveOracle"] = Own => Now.arg \subseteq sources'[Own]
<1>1. Own # NewAddress
  <2>1. Own \in 1 .. Len(contracts)
    BY AccountAddresses DEF Own, OnChain
  <2> QED
    BY <2>1, FrameContracts
<1>2. \/ sources' = sources /\ Now.op # "sources"
      \/ sources' = Put(sources, NewAddress, {}) /\ Now.op # "sources"
      \/ sources' = [sources EXCEPT ![local["AaveOracle"]] = @ \cup Now.arg]
  BY DEF Moves, MineStep, SaveStep, LoadStep, TakeStep, ReadStep, WriteStep, UpgradeStep,
     RegisterStep, PauseStep, GrantStep, RatesStep, SourcesStep, ListStep, ConfigureStep,
     GiveAdminBack, Running, Working, chain
<1>3. CASE sources' = sources /\ Now.op # "sources"
  BY <1>3
<1>4. CASE sources' = Put(sources, NewAddress, {}) /\ Now.op # "sources"
  BY <1>1, <1>4 DEF Put
<1>5. CASE sources' = [sources EXCEPT ![local["AaveOracle"]] = @ \cup Now.arg]
  BY <1>5
<1> QED
  BY <1>2, <1>3, <1>4, <1>5

LEMMA PricesStay ==
  ASSUME OnChain, Moves, Own \in DOMAIN sources, NEW o
  PROVE  /\ Backed(contracts, o) => Backed(contracts', o)
         /\ \A t : CanPrice(contracts, sources, o, t) => CanPrice(contracts', sources', o, t)
<1>1. \A i \in 1 .. Len(contracts) : i \in 1 .. Len(contracts') /\ contracts'[i] = contracts[i]
  BY FrameContracts
<1>2. Backed(contracts, o) => Backed(contracts', o)
  BY <1>1 DEF Backed
<1>3. sources[Own] \subseteq sources'[Own]
  BY FrameSources
<1> QED
  BY <1>2, <1>3 DEF CanPrice

LEMMA InHandMoves == Core /\ OracleInHand /\ Moves => OracleInHand'
<1> SUFFICES ASSUME Core, OracleInHand, Moves PROVE OracleInHand'
  OBVIOUS
<1> DEFINE fb == "PriceOracle"
           ao == "AaveOracle"
           both == Both(target)
<1>1. /\ Live /\ Begun /\ Live' /\ At' = At /\ target' = target /\ Task' = Task
      /\ Done \in Nat /\ Done' = Done + 1 /\ Now = Task[Done + 1]
  BY Position DEF Core
<1>2. Market' = Market /\ Both(target') = both
  BY <1>1 DEF Market
<1>3. Own \in DOMAIN sources /\ Own \in DOMAIN sources' /\ sources[Own] \subseteq sources'[Own]
  BY FrameSources DEF Core, OracleInHand
<1>4. /\ \A i \in 1 .. Len(contracts) : i \in 1 .. Len(contracts') /\ contracts'[i] = contracts[i]
      /\ Now.op = "mine" =>
           /\ NewAddress \in 1 .. Len(contracts') /\ contracts'[NewAddress].kind = Now.arg
           /\ contracts'[NewAddress].uses = {local[v] : v \in Now.uses}
  BY FrameContracts DEF Core, Made
<1>5. Market /\ At = 3 =>
        /\ Assigns(Now, fb) => Now.op = "mine" /\ Now.arg = "PriceOracle"
        /\ both /\ Assigns(Now, ao) => Now.op = "take" /\ Now.arg = Own
        /\ ~both /\ Assigns(Now, ao) =>
             Now.op = "mine" /\ Now.uses = {fb} /\ fb \in DOMAIN local
        /\ both /\ Now.op = "sources" => ao \in DOMAIN local
  BY OracleNow
<1>6. Market /\ At = 3 =>
        /\ fb \in DOMAIN local => local[fb] \in 1 .. Len(contracts) /\ contracts[local[fb]].kind = "PriceOracle"
        /\ ao \in DOMAIN local => /\ both => local[ao] = Own
                                  /\ ~both => Backed(contracts, local[ao])
        /\ both => \A i \in 1 .. Done : Task[i].op = "sources" => Task[i].arg \subseteq sources[Own]
  BY <1>1 DEF OracleInHand
<1> HIDE DEF fb, ao, both
<1>7. ASSUME Market, At = 3, fb \in DOMAIN local'
      PROVE  local'[fb] \in 1 .. Len(contracts') /\ contracts'[local'[fb]].kind = "PriceOracle"
  <2>1. CASE Assigns(Now, fb)
    <3>1. local'[fb] = NewAddress /\ Now.op = "mine" /\ Now.arg = "PriceOracle"
      BY <1>5, <1>7, <2>1, FrameJson DEF Assigns
    <3> QED
      BY <1>4, <3>1
  <2>2. CASE ~Assigns(Now, fb)
    <3>1. fb \in DOMAIN local /\ local'[fb] = local[fb]
      BY <1>7, <2>2, FrameJson
    <3> QED
      BY <1>4, <1>6, <1>7, <3>1
  <2> QED
    BY <2>1, <2>2
<1>8. ASSUME Market, At = 3, ao \in DOMAIN local'
      PROVE  /\ both => local'[ao] = Own
             /\ ~both => Backed(contracts', local'[ao])
  <2>1. CASE Assigns(Now, ao) /\ both
    <3>1. local'[ao] = Own
      BY <1>5, <1>8, <2>1, FrameJson DEF Assigns
    <3> QED
      BY <2>1, <3>1
  <2>2. CASE Assigns(Now, ao) /\ ~both
    <3>1. local'[ao] = NewAddress /\ Now.op = "mine" /\ Now.uses = {fb} /\ fb \in DOMAIN local
      BY <1>5, <1>8, <2>2, FrameJson DEF Assigns
    <3>2. contracts'[NewAddress].uses = {local[fb]} /\ NewAddress \in 1 .. Len(contracts')
      BY <1>4, <3>1
    <3>3. local[fb] \in 1 .. Len(contracts') /\ contracts'[local[fb]].kind = "PriceOracle"
      BY <1>4, <1>6, <1>8, <3>1
    <3> QED
      BY <2>2, <3>1, <3>2, <3>3 DEF Backed
  <2>3. CASE ~Assigns(Now, ao)
    <3>1. ao \in DOMAIN local /\ local'[ao] = local[ao]
      BY <1>8, <2>3, FrameJson
    <3>2. Backed(contracts, local[ao]) => Backed(contracts', local[ao])
      BY <1>3, PricesStay DEF Core
    <3> QED
      BY <1>6, <1>8, <3>1, <3>2
  <2> QED
    BY <2>1, <2>2, <2>3
<1>9. ASSUME Market, At = 3, both, NEW i \in 1 .. Done + 1, Task[i].op = "sources"
      PROVE  Task[i].arg \subseteq sources'[Own]
  <2>1. CASE i \in 1 .. Done
    BY <1>3, <1>6, <1>9, <2>1
  <2>2. CASE i = Done + 1
    <3>1. Now.op = "sources" /\ Now.arg = Task[i].arg
      BY <1>1, <1>9, <2>2
    <3>2. local[ao] = Own
      BY <1>5, <1>6, <1>9, <3>1
    <3>3. Now.arg \subseteq sources'[Own]
      BY <1>3, <3>1, <3>2, FrameSources DEF Core, ao
    <3> QED
      BY <3>1, <3>3
  <2> QED
    BY <1>1, <2>1, <2>2
<1> QED
  BY <1>1, <1>2, <1>3, <1>7, <1>8, <1>9 DEF OracleInHand, fb, ao, both

LEMMA OracleEnteredMoves == Core /\ OracleInHand /\ OracleEntered /\ Moves => OracleEntered'
<1> SUFFICES ASSUME Core, OracleInHand, OracleEntered, Moves, Market', Ending(3, 1)'
             PROVE  CanPrice(contracts', sources', Home'["PriceOracle"], target)
  BY Position DEF OracleEntered, Core
<1> DEFINE m == Len(todo)
           w == "PriceOracle"
<1>1. /\ Live /\ Begun /\ Begun' /\ At' = At /\ At \in Int /\ target' = target /\ target \in Targets
      /\ Done \in Nat /\ m \in Nat /\ m # 0 /\ Len(todo') = m - 1
  BY Position DEF Core
<1>2. Market /\ (At > 3 \/ (At = 3 /\ m <= 2))
  BY <1>1 DEF Market, Ending
<1>3. Past(1, 2)
  BY <1>1, <1>2 DEF Past
<1>4. Own \in DOMAIN sources /\ OnChain
  BY DEF OracleInHand, Core
<1>5. w \in Slots /\ w \notin Proxies
  BY DEF Slots, Proxies
<1>6. CASE At = 3 /\ m = 2
  <2>1. /\ Now.op = "write" /\ Now.arg = w /\ Now.var = "AaveOracle" /\ "AaveOracle" \in DOMAIN local
        /\ Both(target) => \E i \in 1 .. Done : Task[i].op = "sources" /\ Task[i].arg = Sourced(target)
    BY <1>2, <1>6, OracleNow
  <2>2. Home'[w] = local["AaveOracle"]
    BY <1>3, <1>5, <2>1, AtHome
  <2>3. CanPrice(contracts, sources, local["AaveOracle"], target)
    <3>1. CASE Both(target)
      <4>1. local["AaveOracle"] = Own /\ Sourced(target) \subseteq sources[Own]
        BY <1>1, <1>2, <1>6, <2>1, <3>1 DEF OracleInHand
      <4>2. Listable(target) \subseteq Sourced(target) \cup QuoteCurrencies(target)
        BY <1>1, <1>2, <3>1, OracleData, MarketDeploymentConstants DEF Market, Both
      <4> QED
        BY <4>1, <4>2 DEF CanPrice
    <3>2. CASE ~Both(target)
      BY <1>1, <1>2, <1>6, <2>1, <3>2 DEF OracleInHand, CanPrice
    <3> QED
      BY <3>1, <3>2
  <2>4. CanPrice(contracts', sources', local["AaveOracle"], target)
    BY <1>4, <2>3, PricesStay
  <2> QED
    BY <2>2, <2>4
<1>7. CASE ~(At = 3 /\ m = 2)
  <2>1. Ending(3, 1)
    BY <1>1, <1>2, <1>7 DEF Ending
  <2>2. CanPrice(contracts, sources, Home[w], target)
    BY <1>2, <2>1 DEF OracleEntered
  <2>3. ~(Now.op = "write" /\ Now.arg = w)
    BY <1>1, <1>2, <1>7, MarketSteps DEF Core, WriteSteps
  <2>4. ~(Now.op = "upgrade" /\ Now.arg = w)
    BY <1>5, NowFits DEF Core, Regular
  <2>5. Home'[w] = Home[w]
    BY <1>3, <1>5, <2>3, <2>4, AtHome
  <2>6. CanPrice(contracts', sources', Home[w], target)
    BY <1>4, <2>2, PricesStay
  <2> QED
    BY <2>5, <2>6
<1> QED
  BY <1>6, <1>7

LEMMA NothingListedMoves ==
  Core /\ Entries /\ ProxiesMade /\ ReservesIn /\ NothingListed /\ Moves => NothingListed'
<1> SUFFICES ASSUME Core, Entries, ProxiesMade, ReservesIn, NothingListed, Moves,
                    Market', Past(1, 2)', At' <= 5, Home'["LendingPool"] # 0
             PROVE  PoolState'.listed = {}
  BY DEF NothingListed
<1>1. At' = At /\ At \in Int /\ target' = target
  BY Position DEF Core
<1>2. Market
  BY <1>1 DEF Market
<1>3. CASE Past(1, 2) /\ Home["LendingPool"] # 0
  <2>1. PoolState.listed = {}
    BY <1>1, <1>2, <1>3 DEF NothingListed
  <2>2. PoolState'.listed = PoolState.listed
    BY <1>2, <1>3, PoolMoves
  <2> QED
    BY <2>1, <2>2
<1>4. CASE ~(Past(1, 2) /\ Home["LendingPool"] # 0)
  BY <1>4, PoolBegins
<1> QED
  BY <1>3, <1>4

(* Nothing but a market's third task writes the oracle of a provider that  *)
(* has a pool.                                                             *)
LEMMA OracleWrites ==
  ASSUME Core, Moves, Now.op = "write", Now.arg = "PriceOracle", slots[Provider]["LendingPool"] # 0
  PROVE  Market /\ At = 3 /\ Past(1, 2) /\ Provider = db[provider]
<1>1. Live /\ Begun /\ At \in Int /\ Done \in Nat
  BY Position DEF Core
<1>2. provider \in DOMAIN local
  BY ProviderAssigned DEF Core
<1>3. At > 1
  BY <1>1, <1>2 DEF Core, ProviderInHand, Provider
<1>4. Market
  BY <1>1, <1>3, NowFits DEF Core, Fit, Acting
<1>5. At = 3
  BY <1>1, <1>3, <1>4, MarketSteps DEF Core, WriteSteps
<1>6. Past(1, 2)
  BY <1>1, <1>3 DEF Past
<1> QED
  BY <1>4, <1>5, <1>6, AtHome

LEMMA ListedPricedMoves ==
  /\ Core /\ Entries /\ ProxiesMade /\ ReservesIn
  /\ OracleInHand /\ OracleEntered /\ NothingListed /\ ListedPriced /\ Moves
  => ListedPriced'
<1> SUFFICES ASSUME Core, Entries, ProxiesMade, ReservesIn, OracleInHand, OracleEntered,
                    NothingListed, ListedPriced, Moves,
                    NEW p \in DOMAIN slots', slots'[p]["LendingPool"] # 0,
                    pools'[slots'[p]["LendingPool"]].listed # {}
             PROVE  \E t \in Targets :
                      /\ pools'[slots'[p]["LendingPool"]].listed \subseteq Listable(t)
                      /\ CanPrice(contracts', sources', slots'[p]["PriceOracle"], t)
  BY DEF ListedPriced
<1> DEFINE w    == "PriceOracle"
           pool == slots[p]["LendingPool"]
<1>1. "LendingPool" \in Slots /\ w \in Slots /\ w \notin Proxies /\ "LendingPool" \in Proxies
  BY DEF Slots, Proxies
<1>2. /\ OnChain /\ Own \in DOMAIN sources /\ target \in Targets /\ At \in Int
      /\ target' = target
  BY Position DEF OracleInHand, Core
<1>3. p \in DOMAIN slots
  <2> SUFFICES ASSUME p \notin DOMAIN slots PROVE FALSE
    OBVIOUS
  <2>1. slots'[p] = [s \in Slots |-> 0]
    BY <1>2, FrameSlots
  <2> QED
    BY <1>1, <2>1
<1>4. ~(Now.op = "upgrade" /\ Now.arg = "LendingPool" /\ p = Provider)
  <2> SUFFICES ASSUME Now.op = "upgrade", Now.arg = "LendingPool", p = Provider PROVE FALSE
    OBVIOUS
  <2>1. slots'[p]["LendingPool"] = NewAddress
    BY <1>1, <1>2, <1>3, FrameSlots
  <2>2. NewAddress \notin DOMAIN pools /\ NewAddress \in DOMAIN pools'
    BY <1>2, FramePools, FrameContracts DEF OnChain
  <2> DEFINE new == [paused |-> FALSE, listed |-> {}, configured |-> {}]
  <2>3. pools'[NewAddress] = new
    BY <1>2, <2>2, FramePools
  <2>4. new.listed = {}
    OBVIOUS
  <2> HIDE DEF new
  <2> QED
    BY <2>1, <2>3, <2>4
<1>5. slots'[p]["LendingPool"] = pool
  <2>1. ~(Now.op = "write" /\ Now.arg = "LendingPool")
    BY <1>1, NowFits DEF Core, Regular
  <2> QED
    BY <1>1, <1>2, <1>3, <1>4, <2>1, FrameSlots
<1>6. pool # 0 /\ pool \in DOMAIN pools
  BY <1>2, <1>3, <1>5 DEF OnChain
<1>7. slots'[p][w] = slots[p][w] \/ (p = Provider /\ Now.op = "write" /\ Now.arg = w)
  <2>1. ~(Now.op = "upgrade" /\ Now.arg = w)
    BY <1>1, NowFits DEF Core, Regular
  <2> QED
    BY <1>1, <1>2, <1>3, <2>1, FrameSlots
<1> HIDE DEF w, pool
<1>8. pools'[pool].listed = pools[pool].listed
  <2>1. CASE pools'[pool] = pools[pool]
    BY <2>1
  <2>2. CASE pools'[pool] # pools[pool]
    <3>1. Now.op = "pause" /\ pool = PoolOf(local["LendingPoolConfigurator"])
      BY <1>2, <1>6, <2>2, FramePools
    <3>2. Market /\ Past(1, 2) /\ pool = Home["LendingPool"]
      BY <3>1, PoolReached
    <3>3. Home'["LendingPool"] = Home["LendingPool"] /\ PoolState'.listed = PoolState.listed
      BY <1>6, <3>2, PoolMoves
    <3> QED
      BY <3>2, <3>3 DEF PoolState
  <2> QED
    BY <2>1, <2>2
<1>9. pools[pool].listed # {}
  BY <1>5, <1>8
<1>10. slots'[p][w] = slots[p][w]
  <2> SUFFICES ASSUME p = Provider, Now.op = "write", Now.arg = w PROVE FALSE
    BY <1>7
  <2>1. Market /\ At = 3 /\ Past(1, 2) /\ p = db[provider]
    BY <1>6, OracleWrites DEF w, pool
  <2>2. PoolState.listed = {}
    BY <1>6, <2>1 DEF NothingListed, Home, pool
  <2> QED
    BY <1>9, <2>1, <2>2 DEF PoolState, Home, pool
<1>11. PICK t \in Targets : /\ pools[pool].listed \subseteq Listable(t)
                            /\ CanPrice(contracts, sources, slots[p][w], t)
  BY <1>3, <1>6, <1>9 DEF ListedPriced, pool, w
<1>12. CanPrice(contracts', sources', slots[p][w], t)
  BY <1>2, <1>11, PricesStay
<1> QED
  BY <1>5, <1>8, <1>10, <1>11, <1>12 DEF w

(* A turn of a loop lists a reserve of the target under the oracle its     *)
(* third task entered, and changes nothing else that is looked at here.    *)
LEMMA OracleLoops ==
  /\ Core /\ Entries /\ ProxiesMade /\ ReservesIn
  /\ OracleInHand /\ OracleEntered /\ NothingListed /\ ListedPriced /\ Loops
  => OracleInHand' /\ OracleEntered' /\ NothingListed' /\ ListedPriced'
<1> SUFFICES ASSUME Core, Entries, ProxiesMade, ReservesIn, OracleInHand, OracleEntered,
                    NothingListed, ListedPriced, Loops
             PROVE  OracleInHand' /\ OracleEntered' /\ NothingListed' /\ ListedPriced'
  OBVIOUS
<1>1. /\ Live /\ Live' /\ Begun /\ Begun' /\ Market /\ Market' /\ At = 6 /\ At' = 6
      /\ target' = target /\ target \in Targets /\ todo' = todo /\ Provider = db[provider]
      /\ db[provider] \in DOMAIN slots
  BY LoopPlace DEF Core, OnTrack, Fresh
<1>2. /\ UNCHANGED <<contracts, sources, db>> /\ DOMAIN slots' = DOMAIN slots
      /\ \A p \in DOMAIN slots : p # db[provider] => slots'[p] = slots[p]
      /\ \A s \in {"LendingPool", "PriceOracle"} : Home'[s] = Home[s]
      /\ Home' = slots'[db[provider]]
  BY LoopHome DEF Slots
<1>3. OracleInHand' /\ NothingListed'
  BY <1>1, <1>2 DEF OracleInHand, NothingListed
<1>4. CanPrice(contracts, sources, Home["PriceOracle"], target) /\ OracleEntered'
  BY <1>1, <1>2 DEF OracleEntered, Ending
<1>5. ASSUME NEW p \in DOMAIN slots, slots'[p]["LendingPool"] # 0,
             pools'[slots'[p]["LendingPool"]].listed # {}
      PROVE  \E t \in Targets :
               /\ pools'[slots'[p]["LendingPool"]].listed \subseteq Listable(t)
               /\ CanPrice(contracts, sources, slots'[p]["PriceOracle"], t)
  <2>1. /\ slots'[p]["LendingPool"] = slots[p]["LendingPool"]
        /\ slots'[p]["PriceOracle"] = slots[p]["PriceOracle"]
    BY <1>2 DEF Home
  <2>2. CASE p = db[provider]
    <3>1. ReservesIn' /\ Past(1, 2)'
      BY <1>1, ReservesLoops DEF Past
    <3>2. Home'["LendingPool"] # 0
      BY <1>2, <1>5, <2>2
    <3>3. PoolState'.listed \subseteq Listable(target)
      BY <1>1, <3>1, <3>2 DEF ReservesIn
    <3>4. PoolState' = pools'[slots'[p]["LendingPool"]]
      BY <1>2, <2>2 DEF PoolState
    <3>5. slots'[p]["PriceOracle"] = Home["PriceOracle"]
      BY <2>1, <2>2 DEF Home
    <3> QED
      BY <1>1, <1>4, <3>3, <3>4, <3>5
  <2>3. CASE p # db[provider]
    <3> DEFINE pool == slots[p]["LendingPool"]
    <3>1. pool \in DOMAIN pools /\ pool # Home["LendingPool"]
      BY <1>1, <1>5, <2>1, <2>3 DEF Core, OnChain, Home
    <3>2. /\ Now.op \in {"list", "configure"}
          /\ Now.op = "list" => PoolOf(local["LendingPoolConfigurator"]) = Home["LendingPool"]
      BY StepsWork, PoolReached
    <3>3. pools'[pool] = pools[pool]
      BY <1>1, <3>1, <3>2, FrameLoops DEF Core, Home
    <3> QED
      BY <1>5, <2>1, <3>3 DEF ListedPriced
  <2> QED
    BY <2>2, <2>3
<1>6. ListedPriced'
  BY <1>2, <1>5 DEF ListedPriced
<1> QED
  BY <1>3, <1>4, <1>6

LEMMA OracleTurns ==
  Core /\ OracleInHand /\ OracleEntered /\ NothingListed /\ ListedPriced /\ Turns
    => OracleInHand' /\ OracleEntered' /\ NothingListed' /\ ListedPriced'
<1> SUFFICES ASSUME Core, OracleInHand, OracleEntered, NothingListed, ListedPriced, Turns
             PROVE  OracleInHand' /\ OracleEntered' /\ NothingListed' /\ ListedPriced'
  OBVIOUS
<1>1. /\ OnTrack /\ Home' = Home /\ PoolState' = PoolState
      /\ UNCHANGED <<contracts, slots, pools, sources>>
  BY HomeTurns, TurnKinds DEF Core, PoolState
<1>2. OracleInHand'
  <2>1. Live' => DOMAIN local' = {} /\ Done' = 0
    BY <1>1, TurnLengths
  <2> QED
    BY <1>1, <2>1 DEF OracleInHand
<1>3. ASSUME Market', Ending(3, 1)' PROVE CanPrice(contracts, sources, Home["PriceOracle"], target')
  <2>1. At' = 3 => 1 < Len(Task')
    BY <1>1, <1>3, TurnLengths
  <2>2. At' > 3 \/ (At' = 3 /\ Len(todo') <= 1)
    BY <1>3 DEF Ending
  <2>3. 3 \in Nat \ {0} /\ 1 \in Nat
    OBVIOUS
  <2>4. Ending(3, 1) /\ target' = target
    BY <1>1, <2>1, <2>2, <2>3, EndingBack
  <2>5. Market
    BY <1>3, <2>4 DEF Market
  <2> QED
    BY <2>4, <2>5 DEF OracleEntered
<1>4. ASSUME Market', Past(1, 2)', At' <= 5, Home["LendingPool"] # 0 PROVE PoolState.listed = {}
  <2>1. Begun /\ At = 1 => 2 <= Len(Task)
    BY <1>1, TurnPosition DEF Course, Opening
  <2>2. At' > 1 \/ (At' = 1 /\ Done' >= 2)
    BY <1>4 DEF Past
  <2>3. 1 \in Nat \ {0} /\ 2 \in Nat \ {0}
    OBVIOUS
  <2>4. Past(1, 2) /\ target' = target
    BY <1>1, <2>1, <2>2, <2>3, PastBack
  <2>5. Begun /\ At \in Int /\ At' \in Int
    BY <1>1, <2>4, TurnPosition DEF Past
  <2>6. At <= At'
    BY <1>1, <2>2, <2>5, TurnPosition
  <2>7. At <= 5
    BY <1>4, <2>5, <2>6
  <2> QED
    BY <1>4, <2>4, <2>7 DEF NothingListed, Market
<1>5. ListedPriced'
  BY <1>1 DEF ListedPriced
<1> QED
  BY <1>1, <1>2, <1>3, <1>4, <1>5 DEF OracleEntered, NothingListed

OracleInv == OracleInHand /\ OracleEntered /\ NothingListed /\ ListedPriced

LEMMA OracleInit == Init => OracleInv
<1> SUFFICES ASSUME Init PROVE OracleInv
  OBVIOUS
<1>1. ~Begun /\ ~Live /\ DOMAIN slots = {} /\ Own \in DOMAIN sources
  BY DEF Init, Begun, Live, Own
<1> QED
  BY <1>1 DEF OracleInv, OracleInHand, OracleEntered, NothingListed, ListedPriced, Past, Ending

LEMMA OracleNext == IInv /\ OracleInv /\ [Next]_vars => OracleInv'
<1> SUFFICES ASSUME IInv, OracleInv, [Next]_vars PROVE OracleInv'
  OBVIOUS
<1>1. CASE Moves
  BY <1>1, InHandMoves, OracleEnteredMoves, NothingListedMoves, ListedPricedMoves DEF IInv, Achieved, OracleInv
<1>2. CASE Loops
  BY <1>2, OracleLoops DEF IInv, Achieved, OracleInv
<1>3. CASE Turns
  BY <1>3, OracleTurns DEF IInv, OracleInv
<1>4. CASE UNCHANGED vars
  <2>1. UNCHANGED <<contracts, slots, pools, sources, db, target, task, todo, local, status>>
    BY <1>4 DEF vars, chain, script
  <2>2. UNCHANGED <<Task, At, Done, Home, Live, Begun, Market, PoolState>>
    BY <2>1 DEF Task, At, Done, Home, Live, Begun, Programs, Market, PoolState
  <2>3. OracleInHand'
    BY <2>1, <2>2 DEF OracleInv, OracleInHand
  <2>4. OracleEntered' /\ NothingListed'
    BY <2>1, <2>2 DEF OracleInv, OracleEntered, NothingListed, Past, Ending
  <2>5. ListedPriced'
    BY <2>1 DEF OracleInv, ListedPriced
  <2> QED
    BY <2>3, <2>4, <2>5 DEF OracleInv
<1> QED
  BY <1>1, <1>2, <1>3, <1>4, NextSplits

(* ListedArePriced: a pool never has a reserve its provider's oracle cannot *)
(* price, in no market that scripts deploy, die over or deploy again.      *)
THEOREM ListedStayPriced == Spec => []ListedArePriced
<1>1. IInv /\ OracleInv /\ [Next]_vars => IInv' /\ OracleInv'
  BY InvMoves, InvLoops, InvTurns, InvStutters, NextSplits, OracleNext
<1>2. ASSUME IInv, OracleInv, NEW p \in DOMAIN slots, slots[p]["LendingPool"] # 0
      PROVE  LET listed == pools[slots[p]["LendingPool"]].listed
             IN  \E t \in Targets :
                   /\ listed \subseteq Listable(t)
                   /\ \A symbol \in listed : Priced(slots[p]["PriceOracle"], symbol, t)
  <2> DEFINE listed == pools[slots[p]["LendingPool"]].listed
             o      == slots[p]["PriceOracle"]
  <2>1. CASE listed = {}
    BY <1>2, <2>1 DEF IInv, Core, OnTrack
  <2>2. CASE listed # {}
    <3>1. PICK t \in Targets : listed \subseteq Listable(t) /\ CanPrice(contracts, sources, o, t)
      BY <1>2, <2>2 DEF OracleInv, ListedPriced
    <3> HIDE DEF listed, o
    <3>2. CASE Backed(contracts, o)
      <4>1. Linked(o, "PriceOracle") # {} /\ o # 0
        BY <1>2, <3>2, ProgramLen DEF Backed, Linked, IInv, Core, OnChain
      <4> QED
        BY <3>1, <4>1 DEF Priced, listed, o
    <3>3. CASE o = Own /\ Listable(t) \subseteq sources[Own] \cup QuoteCurrencies(t)
      <4>1. o # 0
        BY <3>3, AccountAddresses DEF Own, Accounts
      <4> QED
        BY <3>1, <3>3, <4>1 DEF Priced, listed, o
    <3> QED
      BY <3>1, <3>2, <3>3 DEF CanPrice
  <2> QED
    BY <2>1, <2>2
<1>3. IInv /\ OracleInv => ListedArePriced
  BY <1>2 DEF ListedArePriced
<1> QED
  BY <1>1, <1>3, InvInit, OracleInit, PTL DEF Spec
=============================================================================
