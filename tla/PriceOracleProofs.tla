-------------------------- MODULE PriceOracleProofs --------------------------
(***************************************************************************)
(* What the oracle answers, for all feeds, tokens, windows and clocks.     *)
(***************************************************************************)
EXTENDS PriceOracle, TLAPS

Report == [price : Nat, sent : Nat, time : Nat]

(* What a feed's contract holds the feed has published, no earlier than    *)
(* its clock's error before the time it carries.                           *)
FeedsAreHonest ==
  /\ \A f \in Feeds : \A r \in published[f] : r.time <= r.sent + Skew
  /\ \A f \in Feeds : feed[f] # NoReport => feed[f] \in published[f]

OracleInv ==
  /\ now \in Nat
  /\ published \in [Feeds -> SUBSET Report]
  /\ feed \in [Feeds -> Report]
  /\ assetsSources \in [Assets -> Sources \cup {None}]
  /\ maxPriceStaleness \in Nat /\ supraStaleness \in Nat
  /\ assetToAddress \in [Names -> Assets \cup {None}]
  /\ assetToPriceIndex \in [Assets -> Indices \cup {None}]
  /\ FeedsAreHonest
  /\ PricedAreNamed

-----------------------------------------------------------------------------
LEMMA OracleInitSound == OracleInit => OracleInv
<1> SUFFICES ASSUME OracleInit PROVE OracleInv
  OBVIOUS
<1>1. NoReport \in Report
  BY DEF NoReport, Report
<1>2. FeedsAreHonest
  BY DEF OracleInit, FeedsAreHonest
<1>3. PricedAreNamed
  BY OracleConstants DEF OracleInit, PricedAreNamed
<1> QED
  BY <1>1, <1>2, <1>3, OracleConstants DEF OracleInit, OracleInv

(* Publishing, delivery and the clock.                                     *)
LEMMA PublishStep ==
  ASSUME OracleInv, NEW f \in Reporting, NEW p \in FeedPrices, NEW ahead \in 0 .. Skew,
         Publish(f, p, ahead)
  PROVE  OracleInv'
<1> DEFINE r == [price |-> p, sent |-> now, time |-> now + ahead]
<1>1. /\ f \in Feeds /\ r \in Report /\ r.time <= r.sent + Skew
  BY OracleConstants DEF OracleInv, Report
<1>2. published' = [published EXCEPT ![f] = published[f] \cup {r}]
  BY DEF Publish
<1>3. UNCHANGED <<now, feed, assetsSources, hasFallback, maxPriceStaleness,
                  assetToAddress, assetToPriceIndex, supraStaleness>>
  BY DEF Publish, owned
<1> HIDE DEF r
<1>4. /\ published' \in [Feeds -> SUBSET Report]
      /\ published'[f] = published[f] \cup {r}
      /\ \A g \in Feeds : g # f => published'[g] = published[g]
  BY <1>1, <1>2 DEF OracleInv
<1>5. FeedsAreHonest'
  <2>1. \A g \in Feeds : \A q \in published'[g] : q.time <= q.sent + Skew
    BY <1>1, <1>4 DEF OracleInv, FeedsAreHonest
  <2>2. \A g \in Feeds : feed'[g] # NoReport => feed'[g] \in published'[g]
    BY <1>3, <1>4 DEF OracleInv, FeedsAreHonest
  <2> QED
    BY <2>1, <2>2 DEF FeedsAreHonest
<1>6. PricedAreNamed'
  BY <1>3 DEF OracleInv, PricedAreNamed
<1> QED
  BY <1>3, <1>4, <1>5, <1>6 DEF OracleInv

LEMMA DeliverStep ==
  ASSUME OracleInv, NEW f \in Reporting, Deliver(f)
  PROVE  OracleInv'
<1>1. PICK r \in published[f] : feed' = [feed EXCEPT ![f] = r]
  BY DEF Deliver
<1>2. UNCHANGED <<now, published, assetsSources, hasFallback, maxPriceStaleness,
                  assetToAddress, assetToPriceIndex, supraStaleness>>
  BY DEF Deliver, owned
<1>3. f \in Feeds /\ r \in Report
  BY OracleConstants DEF OracleInv
<1>4. FeedsAreHonest'
  BY <1>1, <1>2, <1>3 DEF OracleInv, FeedsAreHonest
<1>5. PricedAreNamed'
  BY <1>2 DEF OracleInv, PricedAreNamed
<1> QED
  BY <1>1, <1>2, <1>3, <1>4, <1>5 DEF OracleInv

LEMMA TickStep == ASSUME OracleInv, Tick PROVE OracleInv'
<1>1. PricedAreNamed' /\ FeedsAreHonest'
  BY DEF Tick, owned, OracleInv, PricedAreNamed, FeedsAreHonest
<1> QED
  BY <1>1 DEF Tick, owned, OracleInv

(* The owners of the two contracts, but for the list of names.             *)
LEMMA SettingStep ==
  ASSUME OracleInv,
         \/ \E a \in Assets, source \in Sources \cup {None} : setAssetSources(a, source)
         \/ \E some \in BOOLEAN : setFallbackOracle(some)
         \/ \E window \in Stalenesses :
              setMaxPriceStaleness(window) \/ updateMaxPriceStaleness(window)
  PROVE  OracleInv'
<1>1. /\ UNCHANGED <<now, published, feed, assetToAddress, assetToPriceIndex>>
      /\ assetsSources' \in [Assets -> Sources \cup {None}]
      /\ maxPriceStaleness' \in Nat /\ supraStaleness' \in Nat
  BY OracleConstants
     DEF OracleInv, setAssetSources, setFallbackOracle, setMaxPriceStaleness,
         updateMaxPriceStaleness, OwnerCall
<1>2. PricedAreNamed' /\ FeedsAreHonest'
  BY <1>1 DEF OracleInv, PricedAreNamed, FeedsAreHonest
<1> QED
  BY <1>1, <1>2 DEF OracleInv

(* A new name brings its address and its index.                            *)
LEMMA AddNewAssetStep ==
  ASSUME OracleInv, NEW name \in Names, NEW a \in Assets, NEW index \in Indices,
         addNewAsset(name, a, index)
  PROVE  OracleInv'
<1>1. UNCHANGED <<now, published, feed, assetsSources, maxPriceStaleness, supraStaleness>>
  BY DEF addNewAsset, OwnerCall
<1>2. /\ assetToAddress' = [assetToAddress EXCEPT ![name] = a]
      /\ assetToPriceIndex' = [assetToPriceIndex EXCEPT ![a] = index]
      /\ assetToAddress[name] = None
  BY DEF addNewAsset
<1>3. /\ assetToAddress' \in [Names -> Assets \cup {None}]
      /\ assetToPriceIndex' \in [Assets -> Indices \cup {None}]
  BY <1>2 DEF OracleInv
<1>4. PricedAreNamed'
  <2> SUFFICES ASSUME NEW b \in Assets, assetToPriceIndex'[b] # None
               PROVE  \E n \in Names : assetToAddress'[n] = b
    BY DEF PricedAreNamed
  <2>1. CASE b = a
    BY <1>2, <2>1 DEF OracleInv
  <2>2. CASE b # a
    <3>1. PICK n \in Names : assetToAddress[n] = b
      BY <1>2, <2>2 DEF OracleInv, PricedAreNamed
    <3>2. n # name
      BY <1>2, <3>1, OracleConstants
    <3> QED
      BY <1>2, <3>1, <3>2 DEF OracleInv
  <2> QED
    BY <2>1, <2>2
<1>5. FeedsAreHonest'
  BY <1>1 DEF OracleInv, FeedsAreHonest
<1> QED
  BY <1>1, <1>3, <1>4, <1>5 DEF OracleInv

(* A replaced address loses its index, every other keeps its name.         *)
LEMMA UpdateAssetStep ==
  ASSUME OracleInv, NEW name \in Names, NEW a \in Assets, NEW index \in Indices,
         updateAsset(name, a, index)
  PROVE  OracleInv'
<1> DEFINE old == assetToAddress[name]
<1>1. UNCHANGED <<now, published, feed, assetsSources, maxPriceStaleness, supraStaleness>>
  BY DEF updateAsset, OwnerCall
<1>2. /\ assetToAddress' = [assetToAddress EXCEPT ![name] = a]
      /\ assetToPriceIndex' = [assetToPriceIndex EXCEPT ![old] = None, ![a] = index]
      /\ old # None
  BY DEF updateAsset
<1>3. old \in Assets
  BY <1>2 DEF OracleInv
<1> HIDE DEF old
<1>4. /\ assetToAddress' \in [Names -> Assets \cup {None}]
      /\ assetToPriceIndex' \in [Assets -> Indices \cup {None}]
  BY <1>2, <1>3 DEF OracleInv
<1>5. PricedAreNamed'
  <2> SUFFICES ASSUME NEW b \in Assets, assetToPriceIndex'[b] # None
               PROVE  \E n \in Names : assetToAddress'[n] = b
    BY DEF PricedAreNamed
  <2>1. CASE b = a
    BY <1>2, <2>1 DEF OracleInv
  <2>2. CASE b # a
    <3>1. b # old /\ assetToPriceIndex[b] # None
      BY <1>2, <1>3, <2>2 DEF OracleInv
    <3>2. PICK n \in Names : assetToAddress[n] = b
      BY <3>1 DEF OracleInv, PricedAreNamed
    <3>3. n # name
      BY <3>1, <3>2 DEF old
    <3> QED
      BY <1>2, <3>2, <3>3 DEF OracleInv
  <2> QED
    BY <2>1, <2>2
<1>6. FeedsAreHonest'
  BY <1>1 DEF OracleInv, FeedsAreHonest
<1> QED
  BY <1>1, <1>4, <1>5, <1>6 DEF OracleInv

LEMMA EveryOracleStep == OracleInv /\ [OracleNext]_oracleVars => OracleInv'
<1> SUFFICES ASSUME OracleInv, [OracleNext]_oracleVars
             PROVE  OracleInv'
  OBVIOUS
<1>1. CASE \E f \in Reporting, p \in FeedPrices, ahead \in 0 .. Skew : Publish(f, p, ahead)
  BY <1>1, PublishStep
<1>2. CASE \E f \in Reporting : Deliver(f)
  BY <1>2, DeliverStep
<1>3. CASE Tick
  BY <1>3, TickStep
<1>4. CASE \/ \E a \in Assets, source \in Sources \cup {None} : setAssetSources(a, source)
           \/ \E some \in BOOLEAN : setFallbackOracle(some)
           \/ \E window \in Stalenesses :
                setMaxPriceStaleness(window) \/ updateMaxPriceStaleness(window)
  BY <1>4, SettingStep
<1>5. CASE \E name \in Names, a \in Assets, index \in Indices :
             addNewAsset(name, a, index) \/ updateAsset(name, a, index)
  BY <1>5, AddNewAssetStep, UpdateAssetStep
<1>6. CASE UNCHANGED oracleVars
  <2>1. PricedAreNamed' /\ FeedsAreHonest'
    BY <1>6 DEF oracleVars, owned, OracleInv, PricedAreNamed, FeedsAreHonest
  <2> QED
    BY <1>6, <2>1 DEF oracleVars, owned, OracleInv
<1> QED
  BY <1>1, <1>2, <1>3, <1>4, <1>5, <1>6 DEF OracleNext

LEMMA OracleInvariance == OracleSpec => []OracleInv
BY OracleInitSound, EveryOracleStep, PTL DEF OracleSpec

-----------------------------------------------------------------------------
(* Every address SupraOracle has a price index for is the one some name of *)
(* its list stands for, after any calls of addNewAsset and updateAsset.    *)
THEOREM NoReplacedAddressIsPriced == OracleSpec => []PricedAreNamed
<1>1. OracleInv => PricedAreNamed
  BY DEF OracleInv
<1> QED
  BY <1>1, OracleInvariance, PTL

(* A report that passes the check of its age was on the market recently.   *)
LEMMA FreshIsRecent ==
  ASSUME OracleInv, NEW f \in Feeds, NEW window \in Nat, fresh(f, window)
  PROVE  feed[f].price \in Recent(f, window) /\ feed[f].price \in Nat
<1>1. /\ feed[f] \in Report /\ feed[f].time >= 1 /\ now - feed[f].time <= window
      /\ now \in Nat
  BY DEF OracleInv, fresh
<1>2. feed[f] # NoReport
  BY <1>1 DEF NoReport
<1>3. feed[f] \in published[f] /\ feed[f].time <= feed[f].sent + Skew
  BY <1>2 DEF OracleInv, FeedsAreHonest
<1>4. feed[f].sent + Skew + window >= now
  BY <1>1, <1>3, OracleConstants DEF Report
<1> QED
  BY <1>1, <1>3, <1>4 DEF Recent, Report

LEMMA CrossIsRecent ==
  ASSUME OracleInv, NEW f \in Chainlink, crossPrice(f) # NoPrice
  PROVE  crossPrice(f) \in RecentCross(f)
<1>1. crossUsable(f) /\ crossUsable("HBAR_USD")
  BY DEF crossPrice
<1>2. crossPrice(f) = crossRate(f, feed[f].price, feed["HBAR_USD"].price)
  BY <1>1 DEF crossPrice
<1>3. f \in Feeds /\ "HBAR_USD" \in Feeds
  BY DEF Feeds, Chainlink
<1>4. supraStaleness \in Nat
  BY DEF OracleInv
<1>5. /\ fresh(f, supraStaleness)
      /\ fresh("HBAR_USD", supraStaleness) /\ feed["HBAR_USD"].price > 0
  BY <1>1 DEF crossUsable
<1>6. /\ feed[f].price \in Recent(f, supraStaleness)
      /\ feed["HBAR_USD"].price \in Recent("HBAR_USD", supraStaleness) \ {0}
  BY <1>3, <1>4, <1>5, FreshIsRecent
<1> QED
  BY <1>2, <1>6 DEF RecentCross

LEMMA SupraIsRecent ==
  ASSUME OracleInv, NEW a \in Assets, SupraPrice(a) # NoPrice
  PROVE  SupraPrice(a) \in RecentPrices(a)
<1> DEFINE index == assetToPriceIndex[a]
<1>1. index # None
  BY DEF SupraPrice
<1>2. CASE a = WHBAR
  <2>1. SupraPrice(a) = Unit
    BY <1>1, <1>2, OracleConstants DEF SupraPrice
  <2>2. RecentPrices(a) = {Unit}
    BY <1>2, OracleConstants DEF RecentPrices
  <2> QED
    BY <2>1, <2>2
<1>3. CASE a = USDC
  <2>1. SupraPrice(a) = crossPrice("USDC_USD")
    BY <1>1, <1>3, OracleConstants DEF SupraPrice
  <2>2. RecentPrices(a) = RecentCross("USDC_USD")
    BY <1>3, OracleConstants DEF RecentPrices
  <2> QED
    BY <2>1, <2>2, CrossIsRecent DEF Chainlink
<1>4. CASE a \notin {WHBAR, USDC} /\ a = assetToAddress["WETH"]
  <2>1. SupraPrice(a) = crossPrice("ETH_USD")
    BY <1>1, <1>4 DEF SupraPrice
  <2>2. RecentPrices(a) = RecentCross("ETH_USD")
    BY <1>4 DEF RecentPrices
  <2> QED
    BY <2>1, <2>2, CrossIsRecent DEF Chainlink
<1>5. CASE a \notin {WHBAR, USDC} /\ a # assetToAddress["WETH"]
  <2>1. SupraPrice(a) = IF supraUsable(index) THEN feed[index].price ELSE NoPrice
    BY <1>1, <1>5 DEF SupraPrice
  <2>2. RecentPrices(a) = Recent(index, supraStaleness)
    BY <1>1, <1>5 DEF RecentPrices
  <2>3. fresh(index, supraStaleness)
    BY <2>1 DEF supraUsable
  <2>4. index \in Feeds /\ supraStaleness \in Nat
    BY <1>1 DEF OracleInv, Feeds
  <2> HIDE DEF index
  <2>5. feed[index].price \in Recent(index, supraStaleness)
    BY <2>3, <2>4, FreshIsRecent
  <2> QED
    BY <2>1, <2>2, <2>5
<1> QED
  BY <1>2, <1>3, <1>4, <1>5

LEMMA AnswersAreRecent == OracleInv => PricesWereRecent
<1> SUFFICES ASSUME OracleInv, NEW a \in Assets \ {BASE_CURRENCY},
                    getAssetPrice(a) # NoPrice
             PROVE  /\ getAssetPrice(a) > 0
                    /\ \/ getAssetPrice(a) \in RecentPrices(a)
                       \/ /\ assetsSources[a] # None
                          /\ getAssetPrice(a) \in Recent(assetsSources[a], maxPriceStaleness)
  BY DEF PricesWereRecent
<1> DEFINE source == assetsSources[a]
           Answers == /\ source # None /\ feed[source].price > 0
                      /\ fresh(source, maxPriceStaleness)
<1>1. CASE Answers
  <2>1. getAssetPrice(a) = feed[source].price
    BY <1>1 DEF getAssetPrice
  <2>2. source \in Feeds /\ maxPriceStaleness \in Nat
    BY <1>1 DEF OracleInv, Feeds
  <2> HIDE DEF source
  <2>3. feed[source].price \in Recent(source, maxPriceStaleness)
    BY <1>1, <2>2, FreshIsRecent
  <2> QED
    BY <1>1, <2>1, <2>3 DEF source
<1>2. CASE ~Answers
  <2>1. getAssetPrice(a) = FallbackPrice(a)
    BY <1>2 DEF getAssetPrice
  <2>2. getAssetPrice(a) = SupraPrice(a) /\ SupraPrice(a) > 0
    BY <2>1 DEF FallbackPrice
  <2>3. SupraPrice(a) # NoPrice
    BY <2>2
  <2> QED
    BY <2>2, <2>3, SupraIsRecent
<1> QED
  BY <1>1, <1>2

(* Whatever getAssetPrice answers for an asset is above zero and was on    *)
(* the market within the window of the contract that answered: both feeds' *)
(* windows where the price is a quotient, whatever arrives late, twice or  *)
(* from a clock that is ahead.                                             *)
THEOREM PricesAreRecent == OracleSpec => []PricesWereRecent
BY AnswersAreRecent, OracleInvariance, PTL
=============================================================================
