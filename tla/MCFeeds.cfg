SPECIFICATION Spec
CONSTANTS
  Wallets = {1, 2}
  Qty <- ModelQty
  DefaultDays = 1
  ThresholdDays = 2
  BackfillDays = 3
  PageSize = 1
  PageCap = 3
  MaxDay = 3
  MaxUpsets = 1
INVARIANTS MovementsOnce
PROPERTIES ShippedLotsTrue
CHECK_DEADLOCK FALSE
