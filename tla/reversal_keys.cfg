SPECIFICATION Spec
CONSTANTS
  c1 = c1
  c2 = c2
  c3 = c3
  Normal <- MCNormal
  Currency <- MCCurrency
  AllCcy = ""
  Wallets <- MCWallets
  Accounts <- MCAccounts
  Callers = {c1, c2}
  Requests <- DepositOnly
  Closable = {}
  CallerReversalKeys <- TwoKeys
  SerializationRetries = 2
  MaxCalls = 3
  MaxStatusChanges = 0
  MaxFaults = 0
INVARIANTS
  ReversedAtMostOnce
SYMMETRY Symmetry
