SPECIFICATION Spec
CONSTANTS
  Txns = {t1, t2}
  Workers = {v1, v2}
  Batch = 2
  Lease = 2
  Ttl = 2
  BackoffBase = 1
  BackoffCap = 2
  JitterDenominator = 2
  Horizon = 1
  MaxFaults = 1
PROPERTIES
  ExpiryHappens
