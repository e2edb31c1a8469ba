SPECIFICATION Spec
CONSTANTS
  w1 = w1
  w2 = w2
  c1 = c1
  c2 = c2
  Messages <- ValidMessages
  WalletOf <- ValidWalletOf
  Fate <- ValidFate
  Consumers = {c1, c2}
  ReceiveBatch = 2
  MaxReceive = 3
  MaxFaults = 2
PROPERTIES
  ReleasedOnStop
