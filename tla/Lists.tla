------------------------------- MODULE Lists -------------------------------
(***************************************************************************)
(* The lists of one Redux slice of the portal and the calls that fill      *)
(* them: fetches that replace a list, registrations that append to it,     *)
(* removals that filter it, and money movements, whose form fetches the    *)
(* wallets and the statement again.  Calls overlap, are answered in any    *)
(* order, or fail before or after the server has acted on them.            *)
(*                                                                         *)
(* A behaviour is about one slice.  An item is its id and a version; the   *)
(* id 0 is made-up data, shown in place of a failed call's.                *)
(***************************************************************************)
EXTENDS Integers, FiniteSets, Sequences

CONSTANTS
  ItemIds,     \* ids the server hands out, a set of positive numbers
  MaxCalls,    \* calls the pages start of themselves
  MaxOthers    \* changes made at the server by somebody else

ASSUME ListsBounds ==
  /\ ItemIds \subseteq Nat \ {0} /\ 1 \in ItemIds
  /\ MaxCalls \in Nat /\ MaxOthers \in Nat

VARIABLES
  slice,      \* the slice this behaviour is about
  listed,     \* what each list of the slice holds
  stored,     \* at the server: the version of each item, 0 before it is made, Gone
              \* after it is removed
  pending,    \* the calls under way
  spinning,   \* the flags loading, submitting, ... that are set
  settled,    \* history: is each list due to be what is stored?
  calls, others  \* how many so far

listVars == <<slice, listed, stored, pending, spinning, settled, calls, others>>

(***************************************************************************)
(* The slices: what a call does to which list, the flag it holds while it  *)
(* is pending, and whether its failure shows made-up data                  *)
(***************************************************************************)
NoSpinner == "none"
Thunk(kind, list, spinner, fallback) ==
  [kind |-> kind, list |-> list, spinner |-> spinner, fallback |-> fallback]

WalletSlice ==
  [fetchWallets           |-> Thunk("fetch", "wallets", "loading", "keep"),
   fetchWalletStatement   |-> Thunk("fetch", "statement", NoSpinner, "keep"),
   depositToWallet        |-> Thunk("move", "wallets", "submitting", "keep"),
   transferBetweenWallets |-> Thunk("move", "wallets", "submitting", "keep")]

BankFetches ==
  [fetchAvailableBanks   |-> Thunk("fetch", "availableBanks", "loading", "mock"),
   fetchUserBankAccounts |-> Thunk("fetch", "userBankAccounts", "loading", "mock"),
   fetchLinkedAccounts   |-> Thunk("fetch", "linkedAccounts", "loading", "mock")]

\* No page removes a bank account (BanksInstitutions.tsx keeps the handler unused).
BankWrites ==
  [registerBankAccount |-> Thunk("add", "userBankAccounts", "loading", "mock"),
   linkBankAccount     |-> Thunk("add", "linkedAccounts", "loading", "mock"),
   unlinkBankAccount   |-> Thunk("remove", "linkedAccounts", "loading", "mock")]

BankAccountsSlice == [t \in DOMAIN BankFetches \union DOMAIN BankWrites |->
  IF t \in DOMAIN BankFetches THEN BankFetches[t] ELSE BankWrites[t]]

TransactionsSlice == [fetchTransactions |-> Thunk("fetch", "items", "loading", "keep")]

DashboardSlice == [fetchDashboard |-> Thunk("fetch", "dashboard", "loading", "keep")]

ConversionSlice ==
  [fetchCurrencies         |-> Thunk("fetch", "currencies", "currencies", "mock"),
   fetchWallets            |-> Thunk("fetch", "payFrom", "wallets", "mock"),
   fetchKYCStatus          |-> Thunk("fetch", "kycStatus", "kycStatus", "mock"),
   fetchTransactionHistory |-> Thunk("fetch", "history", "history", "mock"),
   fetchReserveStatus      |-> Thunk("fetch", "reserveStatus", "reserveStatus", "mock")]

Slices == [wallet |-> WalletSlice, bankAccounts |-> BankAccountsSlice,
           transactions |-> TransactionsSlice, dashboard |-> DashboardSlice,
           conversion |-> ConversionSlice]

Thunks == Slices[slice]
ListsOf(name) == {Slices[name][t].list : t \in DOMAIN Slices[name]} \union
                 (IF name = "wallet" THEN {"statement"} ELSE {})
Lists == ListsOf(slice)

\* A money movement changes the balance and the statement.
Touches(thunk) == IF thunk.kind = "move" THEN {"wallets", "statement"} ELSE {thunk.list}

(***************************************************************************)
(* Reducers                                                                *)
(***************************************************************************)
Gone == -1
MadeUp == <<0, 0>>

\* The n-th of a finite set of numbers.
Nth(S, n) == CHOOSE i \in S : Cardinality({j \in S : j < i}) = n - 1

Held(l) == {i \in ItemIds : stored[l][i] > 0}

\* The server's answer to a fetch, in the order of the ids.
Listing(l) ==
  [n \in 1 .. Cardinality(Held(l)) |-> <<Nth(Held(l), n), stored[l][Nth(Held(l), n)]>>]

\* list.filter(entry => entry.id !== i)
Without(list, i) ==
  LET kept == {n \in DOMAIN list : list[n][1] # i}
  IN  [n \in 1 .. Cardinality(kept) |-> list[Nth(kept, n)]]

\* Mutant: a registration replaces the list by its answer.
FulfilledReplaces(c) ==
  LET l == c.thunk.list IN
  CASE c.thunk.kind = "fetch"  -> c.answer
    [] c.thunk.kind = "add"    -> <<c.answer>>
    [] c.thunk.kind = "remove" -> Without(listed[l], c.item)
    [] c.thunk.kind = "move"   -> listed[l]

\* The fulfilled reducer of call c.
Fulfilled(c) ==
  LET l == c.thunk.list IN
  CASE c.thunk.kind = "fetch"  -> c.answer
    [] c.thunk.kind = "add"    -> Append(listed[l], c.answer)
    [] c.thunk.kind = "remove" -> Without(listed[l], c.item)
    [] c.thunk.kind = "move"   -> listed[l]

\* The rejected reducer: mockData is treated like an answer.
Rejected(c) ==
  LET l == c.thunk.list IN
  IF c.thunk.fallback = "keep" THEN listed[l]
  ELSE CASE c.thunk.kind = "fetch"  -> <<MadeUp>>
         [] c.thunk.kind = "add"    -> Append(listed[l], MadeUp)
         [] c.thunk.kind = "remove" -> Without(listed[l], c.item)

(***************************************************************************)
(* Calls                                                                   *)
(***************************************************************************)
Call(n, t, i) ==
  [no |-> n, thunk |-> Thunks[t], item |-> i, stage |-> "sent", answer |-> <<>>, late |-> FALSE]

\* Call c, further on.
AsOf(c, progress, answer, late) ==
  [no |-> c.no, thunk |-> c.thunk, item |-> c.item, stage |-> progress, answer |-> answer, late |-> late]

ListsInit ==
  /\ slice \in DOMAIN Slices
  /\ listed = [l \in Lists |-> <<>>]
  /\ stored = [l \in Lists |-> [i \in ItemIds |-> IF i = 1 THEN 1 ELSE 0]]
  /\ pending = {} /\ spinning = {}
  /\ settled = [l \in Lists |-> FALSE]
  /\ calls = 0 /\ others = 0

Spins(c) == {c.thunk.spinner} \ {NoSpinner}

\* The forms post one movement at a time; what is unlinked is on the screen.
Start(t, i) ==
  /\ calls < MaxCalls
  /\ Thunks[t].kind = "move" => "submitting" \notin spinning
  /\ IF Thunks[t].kind = "remove"
     THEN \E n \in DOMAIN listed[Thunks[t].list] : listed[Thunks[t].list][n][1] = i
     ELSE i = 1
  /\ LET c == Call(calls + 1, t, i) IN
       /\ pending' = pending \union {c}
       /\ spinning' = spinning \union Spins(c)
  /\ calls' = calls + 1
  /\ UNCHANGED <<slice, listed, stored, settled, others>>

\* What is read before a change of these lists and answered after it is old.
Outdated(lists) ==
  {AsOf(c, c.stage, c.answer,
        c.late \/ (c.stage = "served" /\ c.thunk.kind = "fetch" /\ c.thunk.list \in lists)) : c \in pending}

Served(c, answer) == AsOf(c, "served", answer, c.late)

Read(c) ==
  /\ c.thunk.kind = "fetch"
  /\ pending' = (pending \ {c}) \union {Served(c, Listing(c.thunk.list))}
  /\ UNCHANGED stored

Changed(l, i, version) == stored' = [stored EXCEPT ![l] = [@ EXCEPT ![i] = version]]

Write(c) ==
  /\ \/ /\ c.thunk.kind = "add"
        /\ \E i \in ItemIds :
             /\ stored[c.thunk.list][i] = 0 /\ \A j \in ItemIds : j < i => stored[c.thunk.list][j] # 0
             /\ Changed(c.thunk.list, i, 1)
             /\ pending' = (Outdated(Touches(c.thunk)) \ {c}) \union {Served(c, <<i, 1>>)}
     \/ /\ c.thunk.kind = "remove" /\ c.item \in ItemIds /\ stored[c.thunk.list][c.item] > 0
        /\ Changed(c.thunk.list, c.item, Gone)
        /\ pending' = (Outdated(Touches(c.thunk)) \ {c}) \union {Served(c, <<>>)}
     \/ /\ c.thunk.kind = "move"
        /\ stored' = [l \in Lists |-> [stored[l] EXCEPT ![c.item] = @ + 1]]
        /\ pending' = (Outdated(Touches(c.thunk)) \ {c}) \union {Served(c, <<>>)}

Serve(c) ==
  /\ c.stage = "sent"
  /\ Read(c) \/ Write(c)
  /\ UNCHANGED <<slice, listed, spinning, settled, calls, others>>

\* Another tab, another service: the list falls behind.
OthersChange(l) ==
  /\ others < MaxOthers /\ others' = others + 1
  /\ stored[l][1] > 0
  /\ Changed(l, 1, stored[l][1] + 1)
  /\ pending' = Outdated({l})
  /\ settled' = [settled EXCEPT ![l] = FALSE]
  /\ UNCHANGED <<slice, listed, spinning, calls>>

\* A registration that a fetch has already seen will be appended again.
SeenBy(c) ==
  {AsOf(d, d.stage, d.answer,
        d.late \/ (c.thunk.kind = "fetch" /\ d.thunk.kind = "add"
                   /\ d.thunk.list = c.thunk.list /\ d.stage = "served")) : d \in pending \ {c}}

\* DepositForm and TransferForm fetch what they have changed.
FollowUps(c) ==
  IF c.thunk.kind = "move"
  THEN {Call(calls + 1, "fetchWallets", 1), Call(calls + 2, "fetchWalletStatement", 1)}
  ELSE {}

Answer(c) ==
  /\ c.stage = "served"
  /\ listed' = [listed EXCEPT ![c.thunk.list] = Fulfilled(c)]
  /\ settled' = [l \in Lists |->
       IF l \notin Touches(c.thunk) THEN settled[l]
       ELSE CASE c.thunk.kind = "fetch" -> ~c.late
              [] c.thunk.kind = "move"  -> FALSE
              [] OTHER                  -> settled[l] /\ ~c.late]
  /\ pending' = SeenBy(c) \union FollowUps(c)
  /\ spinning' = (spinning \ Spins(c)) \union UNION {Spins(d) : d \in FollowUps(c)}
  /\ calls' = calls + Cardinality(FollowUps(c))
  /\ UNCHANGED <<slice, stored, others>>

\* Mutant: the rejected reducer leaves its flag set.
FailKeepsSpinning(c) ==
  /\ listed' = [listed EXCEPT ![c.thunk.list] = Rejected(c)]
  /\ settled' = [settled EXCEPT ![c.thunk.list] = FALSE]
  /\ pending' = pending \ {c}
  /\ UNCHANGED <<slice, stored, spinning, calls, others>>

\* The request or its answer is lost, or the server refuses.
CallFails(c) ==
  /\ listed' = [listed EXCEPT ![c.thunk.list] = Rejected(c)]
  /\ settled' = [l \in Lists |-> settled[l] /\
       (l \in Touches(c.thunk) => c.thunk.fallback = "keep" /\ (c.thunk.kind = "fetch" \/ c.stage = "sent"))]
  /\ pending' = pending \ {c}
  /\ spinning' = spinning \ Spins(c)
  /\ UNCHANGED <<slice, stored, calls, others>>

ListsNext ==
  \/ \E t \in DOMAIN Thunks, i \in ItemIds \union {0} : Start(t, i)
  \/ \E c \in pending : Serve(c) \/ Answer(c) \/ CallFails(c)
  \/ \E l \in Lists : OthersChange(l)

ListsSpec == ListsInit /\ [][ListsNext]_listVars

(***************************************************************************)
(* Properties                                                              *)
(***************************************************************************)
\* Every variable has its type.
ListsTypeOK ==
  /\ slice \in DOMAIN Slices
  /\ DOMAIN listed = Lists
  /\ stored \in [Lists -> [ItemIds -> Nat \union {Gone}]]
  /\ settled \in [Lists -> BOOLEAN]
  /\ calls \in Nat /\ others \in Nat

\* No write of this list waits for its answer, no fetch is on its way after a movement.
Quiet(l) == \A c \in pending : l \notin Touches(c.thunk)

\* A fetch that no change overtook leaves the list as the server has it, each item
\* once, and overlapping registrations and removals keep it so.
ShownIsStored ==
  \A l \in Lists : settled[l] /\ Quiet(l) =>
    /\ {listed[l][n] : n \in DOMAIN listed[l]} = {<<i, stored[l][i]>> : i \in Held(l)}
    /\ Len(listed[l]) = Cardinality(Held(l))

\* However calls overlap and fail, a slice that shows its spinner has a call under
\* way that will take it away.
SpinnerStops == \A s \in spinning : \E c \in pending : s \in Spins(c)
=============================================================================
