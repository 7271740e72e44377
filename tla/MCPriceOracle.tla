---------------------------- MODULE MCPriceOracle ----------------------------
(***************************************************************************)
(* Few tokens and feeds, for TLC.                                          *)
(***************************************************************************)
EXTENDS PriceOracle, TLC

CONSTANTS Hbar, Usdc, X, Y    \* model values

NamesOfTwo  == {"USDC", "SAUCE", "WETH"}

AddressesOfTwo  == [n \in NamesOfTwo |->
                      IF n = "USDC" THEN Usdc ELSE IF n = "SAUCE" THEN X ELSE None]

IndexesOfTwo  == [a \in Assets |-> IF a = Usdc THEN "S505" ELSE IF a = X THEN "S425" ELSE None]

(* The dollar feeds have fewer decimals than the oracle, Supra's as many. *)
MCFeedDecimals == [f \in Feeds |-> IF f \in Chainlink THEN 0 ELSE DECIMALS]
=============================================================================
