CONSTANTS
  RAY = 1000
  WAD = 1000
  WAD_RAY_RATIO = 100
  PERCENTAGE_FACTOR = 10000
  SECONDS_PER_YEAR = 1
  MAX_UINT = 2000000000
  CLOSE_FACTOR = 5000
  A = A
  B = B
  T = T
  X = X
  Y = Y
  Users = {A, B}
  Treasury = T
  Assets = {X}
  Amounts = {600, 1000}
  AllowanceAmounts = {}
  Prices = {1}
  MaxTime = 2
  MaxSteps = 8
  LTV = 7500
  LT = 8000
  Bonus = 10500
  ReserveFactor = 1000
  Caps = 3000
  CollateralAssets = {X}
  BorrowableAssets = {X}
  InitialPrice <- MCInitialPrice
  Configurations <- MCConfigurations
  Strategies <- MCStrategies
SPECIFICATION MCSpec
INVARIANT TotalsMatchBalances
INVARIANT BorrowFlagTracksDebt
INVARIANT RepayableWhileEarning
INVARIANT WithdrawableInFull
PROPERTY CallsConserveValue
PROPERTY IndexesMonotone
PROPERTY InterestIsBacked
SYMMETRY UserSymmetry
