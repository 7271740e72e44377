CONSTANTS
  None = None
  Hbar = Hbar
  Usdc = Usdc
  X = X
  Y = Y
  Assets = {Usdc, X, Y}
  WHBAR = Hbar
  USDC = Usdc
  BASE_CURRENCY = None
  Names <- NamesOfTwo
  InitialAddress <- AddressesOfTwo
  InitialIndex <- IndexesOfTwo
  Indices = {"S425", "S505"}
  Sources = {"HBAR_USD"}
  Reporting = {"HBAR_USD", "USDC_USD", "S425"}
  FeedDecimals <- MCFeedDecimals
  DECIMALS = 1
  FeedPrices = {0, 2}
  Stalenesses = {2}
  InitialStaleness = 1
  Skew = 1
  MaxTime = 4
  MaxReports = 1
  MaxChanges = 1
SPECIFICATION OracleSpec
INVARIANT PricesWereRecent
INVARIANT PricedAreNamed
