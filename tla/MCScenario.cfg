CONSTANTS
  RAY = 1000
  WAD = 1000
  WAD_RAY_RATIO = 1000
  PERCENTAGE_FACTOR = 10000
  SECONDS_PER_YEAR = 1
  MAX_UINT = 2000000000
  CLOSE_FACTOR = 5000
  A = A
  B = B
  T = T
  X = X
  Users = {A, B}
  Treasury = T
  Assets = {X}
  Reserve1 = X
  Amounts = {60, 100}
  AllowanceAmounts = {60}
  Prices = {1}
  MaxTime = 3
  Latency = 1
  TravelTime = 2
  MaxActions = 5
  InitialPrice <- MCInitialPrice
  Configurations <- MCConfigurations
  Strategies <- MCStrategies
SPECIFICATION ScenarioSpec
INVARIANT ReserveDataAsExpected
INVARIANT UserDataAsExpected
SYMMETRY UserSymmetry
