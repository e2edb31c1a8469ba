SPECIFICATION Spec
CONSTANTS
  Instances = {1, 2}
  OpeningBalances = {0, 2}
  Amounts = {1}
  PageSize = 1
  MaxMoney = 2
  None = None
  MaxSkew = 2
  MaxTime = 1
  MaxEntries = 3
INVARIANTS
  TypeOK
  Reconciles
  WalkComplete
  WalkIsHistory
PROPERTIES
  Chronological
