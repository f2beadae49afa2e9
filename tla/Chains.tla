------------------------------- MODULE Chains -------------------------------
(***************************************************************************)
(* The two chains as the bridge relayer meets them: the USDX contract on   *)
(* Ethereum (USDX.sol), the usdx_bridge program on Solana, and the fate of *)
(* a transaction between its submission and its finality.                  *)
(*                                                                         *)
(* A transaction is known by its hash, here its place in the sequence of   *)
(* everything sent.  It is pending until it is executed or dropped; an     *)
(* executed one is final (reorganisations are not modelled).               *)
(***************************************************************************)
EXTENDS Integers, Sequences, FiniteSets, Functions

CONSTANTS
  Addresses,     \* what wallets.address may hold, on either chain
  Base58,        \* the addresses the Solana client can parse
  OpeningTokens  \* tokens per chain and address at the start

Chain == {"ETHEREUM", "SOLANA"}
Kind == {"mint", "burn"}

ASSUME TokensAtStart == OpeningTokens \in [Chain -> [Addresses -> Nat]] /\ IsFiniteSet(Addresses)

VARIABLES
  tokens,        \* balances per chain and address
  processed,     \* per chain: replay markers of executed transactions
  delegated,     \* Solana: the burn authority each owner has approved
  paused,        \* Ethereum: Pausable
  blacklisted,   \* Ethereum: isBlacklisted
  sent,          \* [chain, kind, id, address, amount] in order of sending
  fate           \* what became of each of them

Fates == {"pending", "done", "reverted", "dropped"}

contractVars == <<tokens, processed, delegated, paused, blacklisted>>
chainVars == <<contractVars, sent, fate>>

ChainInit ==
  /\ tokens = OpeningTokens
  /\ processed = [c \in Chain |-> {}]
  /\ delegated = [a \in Addresses |-> OpeningTokens["SOLANA"][a]]
  /\ paused = FALSE
  /\ blacklisted = {}
  /\ sent = << >>
  /\ fate = << >>

\* Ethereum keeps processedMints and processedBurns; on Solana one marker
\* account per correlation id serves both instructions.
Marker(tx) == IF tx.chain = "ETHEREUM" THEN <<tx.kind, tx.id>> ELSE <<"any", tx.id>>

\* Mutant: no replay marker.
ExecutableAgain(tx) ==
  /\ tx.chain = "ETHEREUM" => ~paused /\ tx.address \notin blacklisted
  /\ tx.kind = "burn" => tokens[tx.chain][tx.address] >= tx.amount

\* Whether the program accepts the transaction in the present state.
Executable(tx) ==
  /\ Marker(tx) \notin processed[tx.chain]
  /\ tx.chain = "ETHEREUM" => ~paused /\ tx.address \notin blacklisted
  /\ tx.kind = "burn" => tokens[tx.chain][tx.address] >= tx.amount
  /\ tx.kind = "burn" /\ tx.chain = "SOLANA" => delegated[tx.address] >= tx.amount

\* Submission is refused at once by gas estimation on Ethereum and preflight on
\* Solana, and by an address the client cannot parse: HexToAddress takes any
\* string, PublicKeyFromBase58 does not.
Accepts(tx) == Executable(tx) /\ (tx.chain = "SOLANA" => tx.address \in Base58)

Moved(tx) == IF tx.kind = "mint" THEN tx.amount ELSE -tx.amount

Fated(h, f) ==
  /\ fate[h] = "pending"
  /\ fate' = [fate EXCEPT ![h] = f]
  /\ UNCHANGED sent

Execute(h) ==
  LET tx == sent[h] IN
  /\ Executable(tx)
  /\ tokens' = [tokens EXCEPT ![tx.chain][tx.address] = @ + Moved(tx)]
  /\ processed' = [processed EXCEPT ![tx.chain] = @ \union {Marker(tx)}]
  /\ delegated' = IF tx.chain = "SOLANA" /\ tx.kind = "burn"
                  THEN [delegated EXCEPT ![tx.address] = @ - tx.amount] ELSE delegated
  /\ Fated(h, "done")
  /\ UNCHANGED <<paused, blacklisted>>

Revert(h) ==
  /\ ~Executable(sent[h])
  /\ Fated(h, "reverted")
  /\ UNCHANGED contractVars

\* Evicted from the mempool, or its blockhash has expired: it will never run.
Drop(h) ==
  /\ Fated(h, "dropped")
  /\ UNCHANGED contractVars

Submitted(tx) ==
  /\ sent' = Append(sent, tx)
  /\ fate' = Append(fate, "pending")
  /\ UNCHANGED contractVars

\* pause and unpause; blacklist and unblacklist.
TogglePause ==
  /\ paused' = ~paused
  /\ UNCHANGED <<tokens, processed, delegated, blacklisted, sent, fate>>

ToggleBlacklist(a) ==
  /\ blacklisted' = IF a \in blacklisted THEN blacklisted \ {a} ELSE blacklisted \union {a}
  /\ UNCHANGED <<tokens, processed, delegated, paused, sent, fate>>

\* An owner replaces the delegation to the bridge by one over its balance.
ApproveDelegate(a) ==
  /\ delegated[a] # tokens["SOLANA"][a]
  /\ delegated' = [delegated EXCEPT ![a] = tokens["SOLANA"][a]]
  /\ UNCHANGED <<tokens, processed, paused, blacklisted, sent, fate>>

\* Holders move their tokens without the ledger (ERC-20 and SPL transfers).
\* An SPL transfer by the owner leaves the delegation as it is.
HolderMoves(c, a, b) ==
  /\ tokens[c][a] > 0 /\ a # b
  /\ c = "ETHEREUM" => ~paused /\ {a, b} \intersect blacklisted = {}
  /\ tokens' = [tokens EXCEPT ![c][a] = @ - 1, ![c][b] = @ + 1]
  /\ UNCHANGED <<processed, delegated, paused, blacklisted, sent, fate>>

\* What both chains' totalSupply reports.
TokensIn(holdings) == SumFunction([x \in Chain \X Addresses |-> holdings[x[1]][x[2]]])
Supply == TokensIn(tokens)

Ran(kind, id) ==
  \E h \in 1..Len(sent) :
    sent[h].kind = kind /\ sent[h].id = id /\ fate[h] = "done"
=============================================================================
