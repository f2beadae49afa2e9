SPECIFICATION FairSpec
CONSTANTS
  issue = issue
  move = move
  rival = rival
  return = return
  fiat = fiat
  onEth = onEth
  onSol = onSol
  addr = addr
  addr2 = addr2
  Transfers = {move, rival}
  Order <- MCOrder
  Wallets <- MCWallets
  ChainOf <- MCChainOf
  Opening <- MCOpening
  Addresses = {addr, addr2}
  Base58 = {addr, addr2}
  AddressOf <- OneAddress
  OpeningTokens <- OneAddressTokens
  Attempts <- MCAttempts
  Mishaps = {"drop", "refusal", "admin", "holder"}
  MaxMishaps = 1
INVARIANTS
  NoOverdraft
  ReconciledAtRest
  OwedIsOnChain
  StatusIsTrue
PROPERTY
  EverySagaEnds
  EveryTransferEnds
  NothingStranded
CHECK_DEADLOCK FALSE
