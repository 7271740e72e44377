----------------------------- MODULE PriceOracle -----------------------------
(***************************************************************************)
(* AaveOracle.sol over SupraOracle.sol, its fallback on Hedera, over the   *)
(* feeds of both: Chainlink aggregators and Supra's S-value pairs.         *)
(*                                                                         *)
(* Feeds are outside the repository.  What one publishes reaches its       *)
(* contract late, twice, out of order or never, and its clock may be ahead *)
(* of the chain's.  Prices are as small as keeps the case distinctions:    *)
(* DECIMALS stands for 18.                                                 *)
(***************************************************************************)
EXTENDS Integers, FiniteSets

CONSTANTS Assets,                \* addresses of tokens
          WHBAR, USDC,           \* the two addresses the contract names
          BASE_CURRENCY,         \* AaveOracle's, an address or no asset
          Names,                 \* symbols of the tokens
          InitialAddress,        \* [Names -> Assets \cup {None}]
          InitialIndex,          \* [Assets -> Indices \cup {None}]
          Indices,               \* Supra's pairs
          Sources,               \* aggregators AaveOracle may be given
          Reporting,             \* feeds that publish; the others are silent
          FeedDecimals,          \* [Feeds -> Nat]
          DECIMALS,              \* decimals()
          FeedPrices,            \* prices a feed may publish
          Stalenesses,           \* thresholds an owner may set
          InitialStaleness,      \* 1 days
          Skew,                  \* how far a feed's clock may be ahead
          None,                  \* address 0, index 0
          MaxTime,               \* bound: time stops here
          MaxReports,            \* bound: reports a feed publishes
          MaxChanges             \* bound: calls of the owners

Chainlink == {"HBAR_USD", "USDC_USD", "ETH_USD"}
Feeds     == Chainlink \cup Indices \cup Sources

ASSUME OracleConstants ==
  /\ InitialAddress \in [Names -> Assets \cup {None}]
  /\ InitialIndex \in [Assets -> Indices \cup {None}]
  /\ \A a \in Assets : InitialIndex[a] # None => \E name \in Names : InitialAddress[name] = a
  /\ WHBAR # USDC
  /\ InitialStaleness \in Nat /\ Skew \in Nat
  /\ Reporting \subseteq Feeds
  /\ FeedDecimals \in [Feeds -> Nat]
  /\ FeedPrices \subseteq Nat
  /\ Stalenesses \subseteq Nat \ {0}
  /\ None \notin Assets \cup Indices \cup Sources

VARIABLES now,                \* block.timestamp
          published,          \* what each feed has published so far
          feed,               \* what its contract holds
          assetsSources,      \* AaveOracle
          hasFallback,        \* _fallbackOracle is the SupraOracle
          maxPriceStaleness,  \* of AaveOracle
          assetToAddress, assetToPriceIndex,   \* SupraOracle
          supraStaleness,     \* maxPriceStaleness of SupraOracle
          changes             \* calls of the owners so far

owned == <<assetsSources, hasFallback, maxPriceStaleness, assetToAddress,
           assetToPriceIndex, supraStaleness>>
oracleVars == <<now, published, feed, owned, changes>>

NoReport == [price |-> 0, sent |-> 0, time |-> 0]

OracleInit ==
  /\ now = 1
  /\ published = [f \in Feeds |-> {}]
  /\ feed = [f \in Feeds |-> NoReport]
  /\ assetsSources = [a \in Assets |-> None]
  /\ hasFallback = TRUE
  /\ maxPriceStaleness = InitialStaleness
  /\ assetToAddress = InitialAddress
  /\ assetToPriceIndex = InitialIndex
  /\ supraStaleness = InitialStaleness
  /\ changes = 0

-----------------------------------------------------------------------------
(* Reading prices.  A call that reverts gives NoPrice.                     *)
NoPrice == -1
Unit    == 10 ^ DECIMALS

(* _isPriceStale, _validateChainlinkStaleness, _validateSupraStaleness.    *)
fresh(f, window) ==
  /\ feed[f].time \in 1 .. now
  /\ now - feed[f].time <= window

(* One feed of two in the currency they share.                             *)
crossUsable(f) ==
  fresh(f, supraStaleness) /\ feed[f].price > 0 /\ FeedDecimals[f] <= DECIMALS

normalized(f, p) == p * 10 ^ (DECIMALS - FeedDecimals[f])

crossRate(f, p, q) == (normalized(f, p) * Unit) \div normalized("HBAR_USD", q)

(* A seeded fault: only the first feed of a cross is held to the window. *)
crossPriceOneLeg(f) ==
  IF crossUsable(f) /\ feed["HBAR_USD"].price > 0
  THEN crossRate(f, feed[f].price, feed["HBAR_USD"].price)
  ELSE NoPrice

(* getUSDCPrice, getETHPrice. *)
crossPrice(f) ==
  IF crossUsable(f) /\ crossUsable("HBAR_USD")
  THEN crossRate(f, feed[f].price, feed["HBAR_USD"].price)
  ELSE NoPrice

supraUsable(i) ==
  fresh(i, supraStaleness) /\ FeedDecimals[i] = DECIMALS /\ feed[i].price # 0

SupraPrice(a) ==
  LET index == assetToPriceIndex[a]
  IN  CASE index = None -> NoPrice
        [] index # None /\ a = WHBAR -> Unit
        [] index # None /\ a = USDC -> crossPrice("USDC_USD")
        [] index # None /\ a \notin {WHBAR, USDC} /\ a = assetToAddress["WETH"] ->
             crossPrice("ETH_USD")
        [] OTHER -> IF supraUsable(index) THEN feed[index].price ELSE NoPrice

(* The fallback must answer and with a price.                              *)
FallbackPrice(a) ==
  IF hasFallback /\ SupraPrice(a) > 0 THEN SupraPrice(a) ELSE NoPrice

getAssetPrice(a) ==
  LET source == assetsSources[a]
  IN  CASE a = BASE_CURRENCY -> Unit
        [] a # BASE_CURRENCY /\ source # None
             /\ feed[source].price > 0 /\ fresh(source, maxPriceStaleness) ->
             feed[source].price
        [] OTHER -> FallbackPrice(a)

-----------------------------------------------------------------------------
(* The feeds. *)

Publish(f, p, ahead) ==
  /\ Cardinality(published[f]) < MaxReports
  /\ published' = [published EXCEPT
       ![f] = @ \cup {[price |-> p, sent |-> now, time |-> now + ahead]}]
  /\ UNCHANGED <<now, feed, owned, changes>>

Deliver(f) ==
  /\ \E r \in published[f] : feed' = [feed EXCEPT ![f] = r]
  /\ UNCHANGED <<now, published, owned, changes>>

Tick ==
  /\ now < MaxTime
  /\ now' = now + 1
  /\ UNCHANGED <<published, feed, owned, changes>>

-----------------------------------------------------------------------------
(* The owners of the two contracts. *)

OwnerCall ==
  /\ changes < MaxChanges
  /\ changes' = changes + 1
  /\ UNCHANGED <<now, published, feed>>

setAssetSources(a, source) ==
  /\ OwnerCall
  /\ assetsSources' = [assetsSources EXCEPT ![a] = source]
  /\ UNCHANGED <<hasFallback, maxPriceStaleness, assetToAddress, assetToPriceIndex, supraStaleness>>

setFallbackOracle(some) ==
  /\ OwnerCall
  /\ hasFallback' = some
  /\ UNCHANGED <<assetsSources, maxPriceStaleness, assetToAddress, assetToPriceIndex, supraStaleness>>

setMaxPriceStaleness(window) ==
  /\ OwnerCall
  /\ maxPriceStaleness' = window
  /\ UNCHANGED <<assetsSources, hasFallback, assetToAddress, assetToPriceIndex, supraStaleness>>

updateMaxPriceStaleness(window) ==
  /\ OwnerCall
  /\ supraStaleness' = window
  /\ UNCHANGED <<assetsSources, hasFallback, maxPriceStaleness, assetToAddress, assetToPriceIndex>>

addNewAsset(name, a, index) ==
  /\ OwnerCall
  /\ assetToAddress[name] = None
  /\ assetToPriceIndex[a] = None
  /\ assetToAddress' = [assetToAddress EXCEPT ![name] = a]
  /\ assetToPriceIndex' = [assetToPriceIndex EXCEPT ![a] = index]
  /\ UNCHANGED <<assetsSources, hasFallback, maxPriceStaleness, supraStaleness>>

(* A seeded fault: the index of the old address stays. *)
updateAssetKept(name, a, index) ==
  /\ OwnerCall
  /\ assetToAddress[name] # None
  /\ assetToAddress' = [assetToAddress EXCEPT ![name] = a]
  /\ assetToPriceIndex' = [assetToPriceIndex EXCEPT ![a] = index]
  /\ UNCHANGED <<assetsSources, hasFallback, maxPriceStaleness, supraStaleness>>

updateAsset(name, a, index) ==
  /\ OwnerCall
  /\ assetToAddress[name] # None
  /\ assetToAddress' = [assetToAddress EXCEPT ![name] = a]
  /\ assetToPriceIndex' =
       [assetToPriceIndex EXCEPT ![assetToAddress[name]] = None, ![a] = index]
  /\ UNCHANGED <<assetsSources, hasFallback, maxPriceStaleness, supraStaleness>>

OracleNext ==
  \/ \E f \in Reporting, p \in FeedPrices, ahead \in 0 .. Skew : Publish(f, p, ahead)
  \/ \E f \in Reporting : Deliver(f)
  \/ Tick
  \/ \E a \in Assets, source \in Sources \cup {None} : setAssetSources(a, source)
  \/ \E some \in BOOLEAN : setFallbackOracle(some)
  \/ \E window \in Stalenesses : setMaxPriceStaleness(window) \/ updateMaxPriceStaleness(window)
  \/ \E name \in Names, a \in Assets, index \in Indices :
       addNewAsset(name, a, index) \/ updateAsset(name, a, index)

OracleSpec == OracleInit /\ [][OracleNext]_oracleVars

-----------------------------------------------------------------------------
(* Prices a feed published, and were on the market, no longer ago than the *)
(* window and its clock's error.                                           *)
Recent(f, window) ==
  {r.price : r \in {q \in published[f] : q.sent + Skew + window >= now}}

RecentCross(f) ==
  {crossRate(f, p, q) : p \in Recent(f, supraStaleness),
                        q \in Recent("HBAR_USD", supraStaleness) \ {0}}

RecentPrices(a) ==
  CASE a = WHBAR -> {Unit}
    [] a = USDC -> RecentCross("USDC_USD")
    [] a \notin {WHBAR, USDC} /\ a = assetToAddress["WETH"] -> RecentCross("ETH_USD")
    [] OTHER -> IF assetToPriceIndex[a] = None THEN {}
                ELSE Recent(assetToPriceIndex[a], supraStaleness)

(* What prices a position is never zero and was a market price within the  *)
(* windows of the contracts, of both feeds where it is a quotient of two,  *)
(* whatever arrives late, out of order or from a clock that is ahead.      *)
PricesWereRecent ==
  \A a \in Assets \ {BASE_CURRENCY} :
    getAssetPrice(a) # NoPrice =>
      /\ getAssetPrice(a) > 0
      /\ \/ getAssetPrice(a) \in RecentPrices(a)
         \/ /\ assetsSources[a] # None
            /\ getAssetPrice(a) \in Recent(assetsSources[a], maxPriceStaleness)

(* SupraOracle prices only addresses some name of its list stands for: one *)
(* that updateAsset has replaced is priced no longer.                      *)
PricedAreNamed ==
  \A a \in Assets :
    assetToPriceIndex[a] # None => \E name \in Names : assetToAddress[name] = a
=============================================================================
