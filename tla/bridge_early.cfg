SPECIFICATION Spec
CONSTANTS
  issue = issue
  move = move
  rival = rival
  return = return
  fiat = fiat
  onEth = onEth
  onSol = onSol
  addr = addr
  addr2 = addr2
  Transfers = {issue, return}
  Order <- MCOrder
  Wallets <- MCWallets
  ChainOf <- MCChainOf
  Opening <- MCOpening
  Addresses = {addr, addr2}
  Base58 = {addr, addr2}
  AddressOf <- OneAddress
  OpeningTokens <- OneAddressTokens
  Attempts <- MCAttempts
  Mishaps = {"crash", "resume", "early", "lostReply", "operator", "drop"}
  MaxMishaps = 2
INVARIANTS
  ReplayGuarded
CHECK_DEADLOCK FALSE
