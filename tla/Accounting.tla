----------------------------- MODULE Accounting -----------------------------
(***************************************************************************)
(* The vocabulary of double entry used by the ledger: accounts, requests,  *)
(* and what one posting does to a balance (core-ledger/internal/ledger,    *)
(* posting.go and models.go).  Only definitions and assumptions, no state. *)
(*                                                                         *)
(* A request is a record                                                   *)
(*    key          the idempotency key                                     *)
(*    type         "POST", or "REVERSAL" for the contra of a transaction   *)
(*    lines        the postings: a function from the accounts named to a   *)
(*                 non-zero amount, positive for DEBIT, negative for       *)
(*                 CREDIT.  No flow of flows.go names an account twice.    *)
(*    guarded      NonNegativeAccounts: must not end below zero            *)
(*    allowFrozen  AllowFrozen                                             *)
(*    date         the value date, a day number                            *)
(*    reverses     ReversesTxID: 0, or the transaction being reversed      *)
(***************************************************************************)
EXTENDS Integers, Sequences, FiniteSetsExt

CONSTANTS
  Accounts,     \* DETAIL accounts; integers, so that "sorted by id" means <
  Normal,       \* normal side of each account: "DEBIT" or "CREDIT"
  Currency,     \* currency of each account
  AllCcy,       \* the '' of ledger_closures: closes every currency
  Requests      \* what the flows may ask to post

Side == {"DEBIT", "CREDIT"}
AccountStatus == {"ACTIVE", "FROZEN", "CLOSED"}

\* Where requests live, the reversals built at run time included.
IsRequest(r) ==
  /\ DOMAIN r.lines \subseteq Accounts
  /\ \A a \in DOMAIN r.lines : r.lines[a] \in Int \ {0}
  /\ r.guarded \subseteq DOMAIN r.lines
  /\ r.allowFrozen \in BOOLEAN
  /\ r.date \in Nat

ASSUME AccountsAreOrdered == Accounts \subseteq Int
ASSUME NormalSides == Normal \in [Accounts -> Side]
ASSUME RequestsWellFormed ==
  \A r \in Requests : IsRequest(r) /\ r.type = "POST" /\ r.reverses = 0

Named(r) == DOMAIN r.lines
Currencies(r) == {Currency[a] : a \in Named(r)}

\* Direction.signVs: an amount as seen from the account's own normal side.
Signed(a, amount) == IF Normal[a] = "DEBIT" THEN amount ELSE -amount

\* The balances after the lines of r have been applied on top of bal.
Applied(r, bal) ==
  [a \in Accounts |->
     IF a \in Named(r) THEN bal[a] + Signed(a, r.lines[a]) ELSE bal[a]]

\* ValidatePostings' balance rule: every currency balances on its own.
Balanced(r) ==
  \A c \in Currencies(r) :
    SumFunctionOnSet(r.lines, {a \in Named(r) : Currency[a] = c}) = 0

\* ValidatePostings' account rules, given the status the row lock has read.
Postable(r, status) ==
  \A a \in Named(r) :
    /\ status[a] # "CLOSED"
    /\ status[a] = "FROZEN" => r.allowFrozen

\* checkClosures: some closure row reaches the request's value date.
PeriodClosed(r, closures) ==
  \E c \in closures : c.ccy \in {AllCcy} \union Currencies(r) /\ c.date >= r.date

\* Mutant: looks at the balances before the entries, not after.
FundedBefore(r, bal) == \A a \in r.guarded : bal[a] >= 0

\* The NonNegativeAccounts rule on the balances the entries would leave.
Funded(r, bal) == \A a \in r.guarded : Applied(r, bal)[a] >= 0

\* What Reverse posts for the transaction numbered id.
ReversalOf(orig, id, key) ==
  [key |-> key, type |-> "REVERSAL",
   lines |-> [a \in Named(orig) |-> -orig.lines[a]],
   guarded |-> {}, allowFrozen |-> TRUE, date |-> orig.date, reverses |-> id]
=============================================================================
