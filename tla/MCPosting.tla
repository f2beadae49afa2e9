----------------------------- MODULE MCPosting -----------------------------
(***************************************************************************)
(* Small instances of Posting: a custodian account, two wallets of one     *)
(* currency, and requests that contend for the first wallet.               *)
(***************************************************************************)
EXTENDS Posting, TLC

CONSTANTS c1, c2, c3

Bank == 1
Alice == 2
Bob == 3

MCAccounts == {Bank, Alice, Bob}
MCWallets == {Alice, Bob}
MCNormal == [a \in Accounts |-> IF a = Bank THEN "DEBIT" ELSE "CREDIT"]
MCCurrency == [a \in Accounts |-> "USD"]

Request(name, lines, guarded) ==
  [key |-> <<"client", name>>, type |-> "POST", lines |-> lines,
   guarded |-> guarded, allowFrozen |-> FALSE, date |-> 1, reverses |-> 0]

Deposit == Request("deposit", Bank :> 1 @@ Alice :> -1, {})
Withdraw == Request("withdraw", Alice :> 1 @@ Bank :> -1, {Alice})
Transfer == Request("transfer", Alice :> 1 @@ Bob :> -1, {Alice})

MCRequests == {Deposit, Withdraw, Transfer}
DepositOnly == {Deposit}
DepositAndWithdraw == {Deposit, Withdraw}
MCClosable == {[ccy |-> "", date |-> 1]}
TwoKeys == {<<"client", "k1">>, <<"client", "k2">>}

Symmetry == Permutations(Callers)
=============================================================================
