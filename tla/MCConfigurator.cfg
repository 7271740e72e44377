CONSTANTS
  RAY = 1000
  WAD = 1000
  WAD_RAY_RATIO = 1000
  PERCENTAGE_FACTOR = 10000
  SECONDS_PER_YEAR = 1
  MAX_UINT = 2000000000
  CLOSE_FACTOR = 5000
  A = A
  B = B
  T = T
  X = X
  Y = Y
  Users = {A, B}
  Treasury = T
  Assets = {X, Y}
  Amounts = {100}
  AllowanceAmounts = {}
  Prices = {3}
  MaxTime = 1
  MaxSteps = 6
  LTV = 7500
  LT = 8000
  Bonus = 10500
  ReserveFactor = 1000
  Caps = 300
  CollateralAssets = {X}
  BorrowableAssets = {Y}
  ReserveFactors = {5000, 10000}
  SupplyCaps = {100}
  BorrowCaps = {100}
  NewLT = 9000
  InitialPrice <- MCInitialPrice
  Configurations <- MCConfigurations
  Strategies <- MCStrategies
  CollateralParameters <- MCCollateralParameters
  NewStrategies <- MCNewStrategies
SPECIFICATION MCAdminSpec
PROPERTY NothingStranded
PROPERTY FrozenOnlyShrinks
PROPERTY AdminMovesOnlyShareChange
SYMMETRY UserSymmetry
