SPECIFICATION MCSpec
CONSTANTS
  processed = processed
  changed = changed
  rejected = rejected
  w1 = w1
  p1 = p1
  p2 = p2
  Events <- MCEvents
  AggregateOf <- MCAggregateOf
  Emissions <- MCEmissions
  Publishers = {p1, p2}
  Batch = 2
  Lease = 2
  BackoffBase = 1
  BackoffCap = 2
  DedupWindow = 3
  Horizon = 1
  MaxFaults = 2
  MaxWork = 5
INVARIANTS
  OrderByWallet
