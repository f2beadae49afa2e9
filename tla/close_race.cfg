SPECIFICATION Spec
CONSTANTS
  c1 = c1
  c2 = c2
  c3 = c3
  Normal <- MCNormal
  Currency <- MCCurrency
  AllCcy = ""
  Wallets <- MCWallets
  Accounts <- MCAccounts
  Callers = {c1, c2}
  Requests <- DepositOnly
  Closable = {}
  CallerReversalKeys = {}
  SerializationRetries = 2
  MaxCalls = 1
  MaxStatusChanges = 1
  MaxFaults = 0
INVARIANTS
  ClosedWalletsAreEmpty
SYMMETRY Symmetry
