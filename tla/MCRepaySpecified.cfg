CONSTANTS
  RAY = 1000
  WAD = 1000
  WAD_RAY_RATIO = 1000
  PERCENTAGE_FACTOR = 10000
  SECONDS_PER_YEAR = 1
  MAX_UINT = 2000000000
  CLOSE_FACTOR = 5000
  A = A
  B = B
  G = G
  T = T
  W = W
  Users = {A, B, G}
  Treasury = T
  Assets = {W}
  Kind = "WETH"
  Gateway = G
  Wrapped = W
  Amounts = {60, 100}
  AllowanceAmounts = {100}
  Prices = {1}
  MaxTime = 1
  MaxSteps = 6
  InitialPrice <- MCInitialPrice
  Configurations <- MCConfigurations
  Strategies <- MCStrategies
SPECIFICATION MCSpec
PROPERTY RepaysTheSpecifiedAmount
SYMMETRY CallerSymmetry
