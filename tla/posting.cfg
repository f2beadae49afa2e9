SPECIFICATION Spec
CONSTANTS
  c1 = c1
  c2 = c2
  c3 = c3
  Normal <- MCNormal
  Currency <- MCCurrency
  AllCcy = ""
  Wallets <- MCWallets
  Accounts <- MCAccounts
  Callers = {c1, c2, c3}
  Requests <- MCRequests
  Closable = {}
  CallerReversalKeys = {}
  SerializationRetries = 2
  MaxCalls = 3
  MaxStatusChanges = 1
  MaxFaults = 1
INVARIANTS
  OnlyReversalsOverdraw
  RunningBalancesAgree
  OneAnswerPerKey
  ReversedAtMostOnce
  NoWaitCycle
PROPERTY
  ImplementsJournal
SYMMETRY Symmetry
