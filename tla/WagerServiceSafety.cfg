SPECIFICATION MCSpec
CONSTANTS
  NoRef = NoRef
  Requests = {q1, q2, q3}
  q1 = q1
  q2 = q2
  q3 = q3
  w1 = w1
  w2 = w2
  Wallets = {w1, w2}
  Messages = {m1}
  Http = Http
  Commands <- MCCommands
  Owners <- MCOwners
  NoOwner = NoOwner
  OpeningBalances = {3}
  MaxMoney = 5
  NoTxn = NoTxn
  NoDelivery = NoDelivery
  Workers = {v1, v2}
  Free = Free
  Faulty <- Procs
  MaxTries = 2
  Scenarios <- Everything
  Lines = {}
  MaxCorrupt = 1
CONSTRAINT Bounded
SYMMETRY WorkerSymmetry
CHECK_DEADLOCK FALSE
INVARIANTS
  TypeOK
  ViewIsCurrent
  IdentityUnique
  LedgerChain
  LedgerMatchesTransactions
  CompensatedOnce
  ReversalsUndo
  RejectionsTrue
  InboxBacked
  EventsTellOutcome
  AnswersHold
  ConflictsAreReal
PROPERTIES
  LedgerSpec
  TerminalFrozen
