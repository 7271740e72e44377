\* SupraFeeds = 4: as if deploySupraOracle handed over all feeds; it hands over 3 and no migration to Hedera ends
CONSTANTS
  SupraFeeds = 4
  Targets <- DeployableTargets
  MaxTargets = 2
  MaxCrashes = 1
SPECIFICATION FairSpec
INVARIANT FinishedMarketsWhole
INVARIANT ListedArePriced
INVARIANT DbNamesTheMarket
PROPERTY EventuallyDeployed
CHECK_DEADLOCK FALSE
