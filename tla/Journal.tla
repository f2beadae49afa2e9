------------------------------ MODULE Journal ------------------------------
(***************************************************************************)
(* What the ledger promises its callers, with no trace of how: an          *)
(* append-only journal in which every transaction is applied, in one       *)
(* indivisible step, to the balances as they are at that instant.          *)
(*                                                                         *)
(* This is the abstract specification of posting.go's Post and Reverse and *)
(* of wallets.go's SetWalletStatus.  Module Posting, where every           *)
(* transaction is a race of snapshots, row locks and retries, implements   *)
(* it.  Accounting closures are not part of the promise: ClosePeriod is a  *)
(* plain insert, which nothing orders against a posting under way.         *)
(***************************************************************************)
EXTENDS Accounting

VARIABLES
  journal,      \* the transactions in commit order; a transaction's number
                \* is its place in the journal
  balance,      \* running_balance of each account's latest journal line
  reversedBy,   \* per transaction: the reversal it is linked to, or 0
  status        \* accounts.status

jvars == <<journal, balance, reversedBy, status>>

Keys == {journal[i].key : i \in 1..Len(journal)}

JInit ==
  /\ journal = << >>
  /\ balance = [a \in Accounts |-> 0]
  /\ reversedBy = << >>
  /\ status = [a \in Accounts |-> "ACTIVE"]

\* r is posted: its key is new, its accounts may be posted to, and the wallets
\* it guards can afford it out of what they hold now.
PostTx(r) ==
  /\ r.key \notin Keys
  /\ Postable(r, status)
  /\ Balanced(r)
  /\ Funded(r, balance)
  /\ journal' = Append(journal, r)
  /\ balance' = Applied(r, balance)
  /\ reversedBy' = Append(reversedBy, 0)
  /\ UNCHANGED status

\* Transaction id is linked to its reversal: once, and to nothing else.
MarkReversed(id, rev) ==
  /\ reversedBy[id] = 0
  /\ journal[rev].reverses = id
  /\ reversedBy' = [reversedBy EXCEPT ![id] = rev]
  /\ UNCHANGED <<journal, balance, status>>

SetStatus(a, s) ==
  /\ status' = [status EXCEPT ![a] = s]
  /\ UNCHANGED <<journal, balance, reversedBy>>

PostRequest == \E r \in Requests : PostTx(r)

PostReversal ==
  \E id \in 1..Len(journal) :
    /\ journal[id].type # "REVERSAL"
    /\ PostTx(ReversalOf(journal[id], id, <<"reversal", id>>))

LinkReversal ==
  \E id, rev \in 1..Len(journal) : MarkReversed(id, rev)

ChangeStatus == \E a \in Accounts, s \in AccountStatus : SetStatus(a, s)

JNext == PostRequest \/ PostReversal \/ LinkReversal \/ ChangeStatus

JSpec == JInit /\ [][JNext]_jvars
=============================================================================
