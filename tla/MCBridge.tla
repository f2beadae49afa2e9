------------------------------ MODULE MCBridge ------------------------------
(***************************************************************************)
(* Small instances of Bridge for TLC: one user with a fiat wallet and one  *)
(* USD-X wallet on each chain.                                             *)
(***************************************************************************)
EXTENDS Bridge

CONSTANTS issue, move, rival, return, fiat, onEth, onSol, addr, addr2

MCOrder == [t \in {issue, move, rival, return} |->
  CASE t = issue -> [kind |-> "ISSUE", source |-> fiat, target |-> onEth, amount |-> 1]
    [] t = return -> [kind |-> "BRIDGE", source |-> onSol, target |-> onEth, amount |-> 1]
    [] OTHER -> [kind |-> "BRIDGE", source |-> onEth, target |-> onSol, amount |-> 1]]
\* A client sends its issuance a second time.
MCAttempts == [t \in Transfers |-> IF t = issue THEN 2 ELSE 1]
MCWallets == {fiat, onEth, onSol}
MCChainOf == [w \in MCWallets |->
  CASE w = onEth -> "ETHEREUM" [] w = onSol -> "SOLANA" [] OTHER -> ""]
MCOpening == [w \in MCWallets |-> 1]

\* One string registered as the address of both wallets (addr2 is a stranger)...
OneAddress == [w \in MCWallets |-> addr]
OneAddressTokens == [c \in Chain |-> [a \in {addr, addr2} |-> IF a = addr THEN 1 ELSE 0]]
\* ...or an address of its own on each chain.
TwoAddresses == [w \in MCWallets |-> IF w = onSol THEN addr2 ELSE addr]
TwoAddressesTokens == [c \in Chain |-> [a \in {addr, addr2} |->
  IF (c = "ETHEREUM" /\ a = addr) \/ (c = "SOLANA" /\ a = addr2) THEN 1 ELSE 0]]
=============================================================================
