SPECIFICATION Spec
CONSTANTS
  r1 = r1
  r2 = r2
  Requests = {r1, r2}
  RouteOf <- OwnRoutes
  ConcurrencyLimit = 1
  PoolSize = 2
  StopTimeout = 2
  DrainTimeout = 2
  ShutdownGrace = 2
  Stuck = {"consumer"}
CHECK_DEADLOCK FALSE
INVARIANTS
  WithinInstanceLimit
