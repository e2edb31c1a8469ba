SPECIFICATION MCFairSpec
CONSTANTS
  NoRef = NoRef
  Requests = {q1, q2, q3}
  q1 = q1
  q2 = q2
  q3 = q3
  w1 = w1
  w2 = w2
  Wallets = {w1}
  Messages = {}
  Http = Http
  Commands <- LineCommands
  Owners <- MCOneOwner
  NoOwner = NoOwner
  OpeningBalances = {3}
  MaxMoney = 4
  NoTxn = NoTxn
  NoDelivery = NoDelivery
  Workers = {v1}
  Free = Free
  Faulty = {}
  MaxTries = 1
  Scenarios = {}
  Lines <- OverflowLines
  MaxCorrupt = 0
CHECK_DEADLOCK FALSE
PROPERTIES
  DeadlineEndsWaiting
