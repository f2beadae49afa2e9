------------------------------ MODULE Custody -------------------------------
(***************************************************************************)
(* What a transfer promises its user: the ledger parks the amount before a *)
(* chain moves, the tokens are destroyed before they are made anew, the    *)
(* amount leaves suspense once, and it reaches the target only when the    *)
(* tokens do.  This is the header of Saga.Execute made exact; Bridge is    *)
(* shown to implement it.                                                  *)
(***************************************************************************)
CONSTANTS
  Transfers,  \* correlation ids
  Bridged     \* those that move existing tokens; the others are issuances

VARIABLES
  ledger,     \* where the journal says the amount is
  chain       \* what has become of the tokens

custody == <<ledger, chain>>

Places == {"none", "transit", "target", "source"}
Tokens == {"untouched", "burned", "minted", "reminted"}

CInit ==
  /\ ledger = [t \in Transfers |-> "none"]
  /\ chain = [t \in Transfers |-> "untouched"]

Books(t, from, to) ==
  /\ ledger[t] = from
  /\ ledger' = [ledger EXCEPT ![t] = to]
  /\ UNCHANGED chain

Settles(t, from, to) ==
  /\ chain[t] = from
  /\ chain' = [chain EXCEPT ![t] = to]
  /\ UNCHANGED ledger

Reserve(t) == chain[t] = "untouched" /\ Books(t, "none", "transit")

Burn(t) == t \in Bridged /\ ledger[t] = "transit" /\ Settles(t, "untouched", "burned")

Mint(t) ==
  /\ ledger[t] = "transit"
  /\ Settles(t, IF t \in Bridged THEN "burned" ELSE "untouched", "minted")

Deliver(t) == chain[t] = "minted" /\ Books(t, "transit", "target")

\* Back to the source wallet: nothing was destroyed, or it is being re-minted.
Return(t) == chain[t] \in {"untouched", "burned", "reminted"} /\ Books(t, "transit", "source")

\* The compensating mint may become final before or after the journal says so.
Remint(t) == ledger[t] \in {"transit", "source"} /\ Settles(t, "burned", "reminted")

CNext ==
  \E t \in Transfers :
    Reserve(t) \/ Burn(t) \/ Mint(t) \/ Deliver(t) \/ Return(t) \/ Remint(t)

CSpec == CInit /\ [][CNext]_custody
=============================================================================
