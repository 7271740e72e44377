CONSTANTS
  Deployer = Deployer
  Helper = Helper
  N = 5
  TokenAddresses = {1, 2, 3, 4}
  MaxCrashes = 2
  StrategyNames <- MCStrategyNames
  Params <- MCParams
SPECIFICATION FairSpec
INVARIANT StrategiesMatch
PROPERTY FailsOnlyOnLiquidity
PROPERTY DisabledStaysDisabled
PROPERTY ListedThenConfigured
PROPERTY EventuallyListed
PROPERTY EventuallyConfigured
