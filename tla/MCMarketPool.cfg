CONSTANTS
  RAY = 10000
  WAD = 10000
  WAD_RAY_RATIO = 1
  PERCENTAGE_FACTOR = 10000
  SECONDS_PER_YEAR = 4
  MAX_UINT = 2000000000
  CLOSE_FACTOR = 5000
  A = A
  B = B
  T = T
  X = X
  Y = Y
  First = X
  Second = Y
  Users = {A, B}
  Treasury = T
  Assets = {X, Y}
  Amounts = {620, 800}
  AllowanceAmounts = {}
  Prices = {9, 10, 11}
  MaxTime = 0
  MaxSteps = 3
  InitialPrice <- MCInitialPrice
  Configurations <- MCConfigurations
  Strategies <- MCStrategies
SPECIFICATION MCSpec
PROPERTY CoveredAfterMove
PROPERTY HealsAboveFloor
