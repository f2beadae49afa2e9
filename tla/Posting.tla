------------------------------ MODULE Posting ------------------------------
(***************************************************************************)
(* The posting engine as it runs: Post, postOnce and Reverse of            *)
(* core-ledger/internal/ledger/posting.go, executed by any number of       *)
(* request goroutines against one PostgreSQL database, together with the   *)
(* other writers of the same rows (SetWalletStatus, ClosePeriod).          *)
(*                                                                         *)
(* A posting transaction is SERIALIZABLE: it reads from a snapshot taken   *)
(* by its first statement (the SELECT ... FOR UPDATE), locks the account   *)
(* rows in id order, computes running balances from the snapshot, and is   *)
(* aborted with 40001 when                                                 *)
(*   - a row it locks was updated after the snapshot, or                   *)
(*   - a transaction that committed after the snapshot wrote the journal   *)
(*     of one of its accounts: each has then read what the other writes.   *)
(* SetWalletStatus and ClosePeriod run READ COMMITTED and take no part in  *)
(* that conflict detection.                                                *)
(*                                                                         *)
(* Bounds: MaxCalls requests in all, MaxStatusChanges operator actions,    *)
(* MaxFaults lost connections.                                             *)
(***************************************************************************)
EXTENDS Accounting, FiniteSets

CONSTANTS
  Callers,               \* request goroutines
  Wallets,               \* the accounts that stand behind a wallet
  Closable,              \* closure rows an operator may insert
  CallerReversalKeys,    \* Idempotency-Key headers sent with a reversal
  SerializationRetries,  \* attempts of postOnce, 5 in the code
  MaxCalls, MaxStatusChanges, MaxFaults

ASSUME WalletsAreAccounts == Wallets \subseteq Accounts
ASSUME CallersFinite == IsFiniteSet(Callers)
ASSUME AccountsFinite == IsFiniteSet(Accounts)
ASSUME RetriesPositive == SerializationRetries \in Nat \ {0}
\* "reversal:<id>" is a name the code makes; no client chooses it.  "undo" is
\* no key at all: answers uses it for what Reverse returns.
ASSUME ClientKeys ==
  /\ \A r \in Requests : r.key[1] \notin {"reversal", "undo"}
  /\ \A k \in CallerReversalKeys : k[1] \notin {"reversal", "undo"}

VARIABLES
  journal, balance, reversedBy, status,   \* the database; see Journal
  closures,     \* ledger_closures
  pc,           \* what each caller does next: "lookup" .. "flag", or "idle"
  op,           \* the PostRequest it is posting
  attempt,      \* its attempts of postOnce that were aborted
  view,         \* what its snapshot shows of balance and closures
  stale,        \* the accounts posted to by commits its snapshot misses
  moved,        \* the account rows updated since its snapshot
  held,         \* the account rows it has locked
  closing,      \* wallets read as empty by a SetWalletStatus(CLOSED) under way
  answers,      \* history: <<key, transaction>> pairs returned to clients
  calls, changes, faults                  \* counters for the bounds

posted == <<journal, balance, reversedBy>>
session == <<pc, op, attempt, view, stale, moved, held>>
budget == <<calls, changes, faults>>
vars == <<posted, status, closures, session, closing, answers, budget>>

J == INSTANCE Journal

NoRequest == [key |-> <<"none", 0>>, type |-> "NONE", lines |-> << >>,
              guarded |-> {}, allowFrozen |-> FALSE, date |-> 0, reverses |-> 0]

NoView == [balance |-> [a \in Accounts |-> 0], closures |-> {}]

Init ==
  /\ J!JInit
  /\ closures = {} /\ closing = {} /\ answers = {}
  /\ pc = [p \in Callers |-> "idle"]
  /\ op = [p \in Callers |-> NoRequest]
  /\ attempt = [p \in Callers |-> 0]
  /\ view = [p \in Callers |-> NoView]
  /\ stale = [p \in Callers |-> {}]
  /\ moved = [p \in Callers |-> {}]
  /\ held = [p \in Callers |-> {}]
  /\ calls = 0 /\ changes = 0 /\ faults = 0

-----------------------------------------------------------------------------
(* Shared pieces.                                                          *)

InTransaction(p) == pc[p] \in {"lock", "write", "commit"}

Recorded(key) == {i \in 1..Len(journal) : journal[i].key = key}

\* The rows to lock, and the one SELECT ... ORDER BY id FOR UPDATE is at.
Unlocked(p) == Named(op[p]) \ held[p]
\* Mutant: rows locked in posting order, debits first.
DebitsFirst(p, a) ==
  /\ a \in Unlocked(p)
  /\ \A b \in Unlocked(p) : op[p].lines[b] <= op[p].lines[a]
IsNextRow(p, a) == a \in Unlocked(p) /\ \A b \in Unlocked(p) : a <= b

\* Mutant: nobody waits for a row.
NoRowLocks(a) == TRUE
RowFree(a) == \A q \in Callers : a \notin held[q]

\* Another transaction has inserted the same key and is not over: the unique
\* index makes the second insert wait for it.
KeyPending(p) ==
  \E q \in Callers \ {p} : pc[q] = "commit" /\ op[q].key = op[p].key

\* Mutant: the transaction is only REPEATABLE READ.
NoConflict(p) == FALSE

\* What serializable snapshot isolation refuses: both transactions read and
\* wrote the journal of a common account.
Conflict(p) == stale[p] \intersect Named(op[p]) # {}

\* The next step of p; inside a transaction it keeps snapshot and locks.
Proceeds(p, label) ==
  /\ pc' = [pc EXCEPT ![p] = label]
  /\ UNCHANGED <<op, attempt, view, stale, moved, held>>

\* p is outside any transaction, at label, with request r after n aborts.
Outside(p, label, r, n) ==
  /\ pc' = [pc EXCEPT ![p] = label]
  /\ op' = [op EXCEPT ![p] = r]
  /\ attempt' = [attempt EXCEPT ![p] = n]
  /\ view' = [view EXCEPT ![p] = NoView]
  /\ moved' = [moved EXCEPT ![p] = {}]
  /\ held' = [held EXCEPT ![p] = {}]

Leaves(p, label, r, n) ==
  Outside(p, label, r, n) /\ stale' = [stale EXCEPT ![p] = {}]

Fails(p) == Leaves(p, "idle", NoRequest, 0)

\* Post returned a transaction: Reverse goes on to flag the original, a plain
\* caller answers its client.
After(p) ==
  IF op[p].type = "REVERSAL" THEN [label |-> "flag", request |-> op[p]]
                             ELSE [label |-> "idle", request |-> NoRequest]

Reply(p, id) ==
  answers' = IF op[p].type = "REVERSAL" THEN answers
             ELSE answers \union {<<op[p].key, id>>}

Returns(p, id) == Leaves(p, After(p).label, After(p).request, 0) /\ Reply(p, id)

-----------------------------------------------------------------------------
(* Post.                                                                   *)

Start(p, r) ==
  /\ pc[p] = "idle" /\ calls < MaxCalls
  /\ Leaves(p, "lookup", r, 0)
  /\ calls' = calls + 1
  /\ UNCHANGED <<posted, status, closures, closing, answers, changes, faults>>

Call(p) == \E r \in Requests : Start(p, r)

\* The fast path: a key already in the journal is answered with its
\* transaction, whatever the request says.
Lookup(p) ==
  /\ pc[p] = "lookup"
  /\ \/ Recorded(op[p].key) = {} /\ Proceeds(p, "begin") /\ UNCHANGED answers
     \/ \E id \in Recorded(op[p].key) : Returns(p, id)
  /\ UNCHANGED <<posted, status, closures, closing, budget>>

Begin(p) ==
  /\ pc[p] = "begin"
  /\ pc' = [pc EXCEPT ![p] = "lock"]
  /\ view' = [view EXCEPT ![p] = [balance |-> balance, closures |-> closures]]
  /\ UNCHANGED <<posted, status, closures, op, attempt, stale, moved, held,
                 closing, answers, budget>>

LockRow(p) ==
  /\ pc[p] = "lock"
  /\ \E a \in Named(op[p]) :
       /\ IsNextRow(p, a) /\ RowFree(a) /\ a \notin moved[p]
       /\ held' = [held EXCEPT ![p] = @ \union {a}]
  /\ UNCHANGED <<posted, status, closures, pc, op, attempt, view, stale, moved,
                 closing, answers, budget>>

\* ValidatePostings and checkClosures, on the locked rows and the snapshot.
Accepted(p) ==
  /\ Postable(op[p], status)
  /\ Balanced(op[p])
  /\ ~PeriodClosed(op[p], view[p].closures)

Check(p) ==
  /\ pc[p] = "lock" /\ Unlocked(p) = {}
  /\ \/ Accepted(p) /\ Proceeds(p, "write")
     \/ ~Accepted(p) /\ Fails(p)
  /\ UNCHANGED <<posted, status, closures, closing, answers, budget>>

\* The insert into transactions meets the unique key of another and ends in
\* reading the winner; otherwise the funds check decides about the entries.
Write(p) ==
  /\ pc[p] = "write" /\ ~KeyPending(p)
  /\ \/ /\ Recorded(op[p].key) = {}
        /\ \/ Funded(op[p], view[p].balance) /\ Proceeds(p, "commit")
           \/ ~Funded(op[p], view[p].balance) /\ Fails(p)
        /\ UNCHANGED answers
     \/ \E id \in Recorded(op[p].key) : Returns(p, id)
  /\ UNCHANGED <<posted, status, closures, closing, budget>>

\* The entries become visible, with the running balances computed from the
\* snapshot; the snapshots of transactions under way miss them.
Publish(p, label, r) ==
  /\ pc[p] = "commit" /\ ~Conflict(p)
  /\ journal' = Append(journal, op[p])
  /\ balance' = [a \in Accounts |->
                   IF a \in Named(op[p])
                   THEN Applied(op[p], view[p].balance)[a] ELSE balance[a]]
  /\ reversedBy' = Append(reversedBy, 0)
  /\ stale' = [q \in Callers |->
                 IF q = p THEN {}
                 ELSE IF InTransaction(q) THEN stale[q] \union Named(op[p])
                 ELSE stale[q]]
  /\ Outside(p, label, r, 0)
  /\ UNCHANGED <<status, closures, closing, calls, changes>>

Commit(p) ==
  /\ Publish(p, After(p).label, After(p).request)
  /\ Reply(p, Len(journal) + 1)
  /\ UNCHANGED faults

\* The commit happens, but the connection is lost before it is acknowledged.
CommitUnacknowledged(p) ==
  /\ Publish(p, "idle", NoRequest)
  /\ faults < MaxFaults /\ faults' = faults + 1
  /\ UNCHANGED answers

\* 40001 or 40P01.  The only way on when the database refuses the transaction,
\* and possible at any time: it tracks reads by page and may see a conflict
\* where there is none.
Refused(p) ==
  \/ pc[p] = "commit" /\ Conflict(p)
  \/ pc[p] = "lock" /\ \E a \in moved[p] : IsNextRow(p, a)

Abort(p) ==
  /\ InTransaction(p)
  /\ \/ /\ attempt[p] + 1 < SerializationRetries
        /\ Leaves(p, "begin", op[p], attempt[p] + 1)
     \/ attempt[p] + 1 >= SerializationRetries /\ Fails(p)
  /\ UNCHANGED <<posted, status, closures, closing, answers, budget>>

\* Any other database error, and the crash of the process: the transaction,
\* if one is open, is rolled back and the caller learns nothing.
ConnectionLost(p) ==
  /\ pc[p] # "idle"
  /\ Fails(p)
  /\ faults < MaxFaults /\ faults' = faults + 1
  /\ UNCHANGED <<posted, status, closures, closing, answers, calls, changes>>

-----------------------------------------------------------------------------
(* Reverse: read the original, post its contra, flag the original.         *)

\* Mutant: a key made afresh for every call, as a uuid would be.
FreshKeys(id) == {<<"reversal", calls>>}

ReversalKeys(id) == {<<"reversal", id>>} \union CallerReversalKeys

Undone(id, rev) == answers' = answers \union {<< <<"undo", id>>, rev>>}

StartReversal(p, id) ==
  /\ journal[id].type # "REVERSAL" /\ reversedBy[id] = 0
  /\ \E key \in ReversalKeys(id) : Start(p, ReversalOf(journal[id], id, key))

AlreadyReversed(p, id) ==
  /\ pc[p] = "idle" /\ calls < MaxCalls
  /\ journal[id].type # "REVERSAL" /\ reversedBy[id] # 0
  /\ Undone(id, reversedBy[id])
  /\ calls' = calls + 1
  /\ UNCHANGED <<posted, status, closures, session, closing, changes, faults>>

CallReverse(p) ==
  \E id \in 1..Len(journal) : StartReversal(p, id) \/ AlreadyReversed(p, id)

\* The transaction Post returned is the one recorded under the request's key.
Flag(p) ==
  LET id == op[p].reverses IN
  /\ pc[p] = "flag"
  /\ \E rev \in Recorded(op[p].key) :
       /\ reversedBy' = [reversedBy EXCEPT ![id] = IF @ = 0 THEN rev ELSE @]
       /\ Undone(id, rev)
  /\ Fails(p)
  /\ UNCHANGED <<journal, balance, status, closures, closing, budget>>

-----------------------------------------------------------------------------
(* The other writers.                                                      *)

\* The UPDATE of wallets and accounts, which waits for the row lock.
Restatus(a, s) ==
  /\ RowFree(a)
  /\ status' = [status EXCEPT ![a] = s]
  /\ moved' = [q \in Callers |->
                 IF InTransaction(q) THEN moved[q] \union {a} ELSE moved[q]]
  /\ UNCHANGED <<posted, closures, pc, op, attempt, view, stale, held,
                 answers, calls, faults>>

FreezeOrThaw(a) ==
  /\ changes < MaxStatusChanges /\ changes' = changes + 1
  /\ \E s \in {"ACTIVE", "FROZEN"} \ {status[a]} : Restatus(a, s)
  /\ UNCHANGED closing

\* SetWalletStatus(CLOSED) reads the balance first, outside any transaction.
ReadBeforeClose(a) ==
  /\ changes < MaxStatusChanges /\ changes' = changes + 1
  /\ a \notin closing /\ balance[a] = 0
  /\ closing' = closing \union {a}
  /\ UNCHANGED <<posted, status, closures, session, answers, calls, faults>>

CloseWallet(a) ==
  /\ a \in closing
  /\ Restatus(a, "CLOSED")
  /\ closing' = closing \ {a}
  /\ UNCHANGED changes

ClosePeriod(c) ==
  /\ c \notin closures
  /\ closures' = closures \union {c}
  /\ UNCHANGED <<posted, status, session, closing, answers, budget>>

-----------------------------------------------------------------------------
Step(p) ==
  \/ Lookup(p) \/ Begin(p) \/ LockRow(p) \/ Check(p) \/ Write(p)
  \/ Commit(p) \/ Abort(p) \/ Flag(p)

\* Nothing left to do: every caller has its answer and the budgets are spent.
Quiet ==
  /\ \A p \in Callers : pc[p] = "idle"
  /\ calls = MaxCalls
  /\ UNCHANGED vars

Next ==
  \/ \E p \in Callers : Step(p)
  \/ \E p \in Callers : Call(p) \/ CallReverse(p)
  \/ \E p \in Callers : ConnectionLost(p) \/ CommitUnacknowledged(p)
  \/ \E a \in Wallets : FreezeOrThaw(a) \/ ReadBeforeClose(a) \/ CloseWallet(a)
  \/ \E c \in Closable : ClosePeriod(c)
  \/ Quiet

Spec == Init /\ [][Next]_vars

\* Goroutines and the database keep running; clients, operators, faults and
\* needless aborts are under no obligation to happen.
Advances(p) ==
  \/ Lookup(p) \/ Begin(p) \/ LockRow(p) \/ Check(p) \/ Write(p)
  \/ Commit(p) \/ Flag(p)
  \/ Refused(p) /\ Abort(p)

FairSpec == Spec /\ \A p \in Callers : WF_vars(Advances(p))

-----------------------------------------------------------------------------
(* Properties.                                                             *)

Labels == {"idle", "lookup", "begin", "lock", "write", "commit", "flag"}

\* Type invariant of the engine: the database and every session hold values
\* of the kinds the code gives them, and rows are locked by one caller only.
TypeOK ==
  /\ \A i \in 1..Len(journal) : IsRequest(journal[i])
  /\ balance \in [Accounts -> Int]
  /\ Len(reversedBy) = Len(journal)
  /\ \A i \in 1..Len(reversedBy) : reversedBy[i] \in 0..Len(journal)
  /\ status \in [Accounts -> AccountStatus]
  /\ closing \subseteq Wallets
  /\ \A p \in Callers :
       /\ pc[p] \in Labels
       /\ IsRequest(op[p])
       /\ attempt[p] \in 0..SerializationRetries - 1
       /\ view[p].balance \in [Accounts -> Int]
       /\ held[p] \subseteq Named(op[p])

\* The wallets every request checks before it takes from them.
Protected ==
  {a \in Wallets : \A r \in Requests :
     a \in Named(r) /\ Signed(a, r.lines[a]) < 0 => a \in r.guarded}

\* However requests interleave, a wallet that every flow guards goes below
\* zero only if an operator's reversal, which is not funds-checked, hit it
\* (posting.go:68, "A read-then-post in the caller is a race").
OnlyReversalsOverdraw ==
  \A a \in Protected :
    balance[a] < 0 =>
      \E i \in 1..Len(journal) :
        journal[i].type = "REVERSAL" /\ a \in Named(journal[i])

\* The lines of a in the journal, on its normal side.
Lines(a) ==
  [i \in {n \in 1..Len(journal) : a \in Named(journal[n])} |->
     Signed(a, journal[i].lines[a])]

\* VerifyRunningBalances: the running balance of an account's latest line is
\* the signed sum of all its lines, so no posting has lost another's update.
RunningBalancesAgree ==
  \A a \in Accounts : balance[a] = SumFunction(Lines(a))

\* What the balances come to on the debit side; Signed is its own inverse.
NetDebit == [a \in Accounts |-> Signed(a, balance[a])]

\* The trial balance, taken from the running balances: in every currency they add
\* up to nothing, so a race of postings neither makes money nor loses it ("total
\* debits must equal total credits", balances.go:139).
TrialBalanced ==
  \A c \in {Currency[a] : a \in Accounts} :
    SumFunctionOnSet(NetDebit, {a \in Accounts : Currency[a] = c}) = 0

\* A client that sends a key again, from whatever goroutine and after
\* whatever failure, is answered with the one transaction of that key; and
\* whoever reverses a transaction is answered with its one reversal.
OneAnswerPerKey ==
  \A x, y \in answers : x[1] = y[1] => x[2] = y[2]

\* No transaction is reversed twice: its money moves back at most once.
ReversedAtMostOnce ==
  \A i, j \in 1..Len(journal) :
    journal[i].reverses = journal[j].reverses /\ journal[i].reverses # 0 => i = j

\* Who waits for whom: for a row, or for the fate of an equal key.
WaitsFor(p, q) ==
  \/ pc[p] = "lock" /\ \E a \in held[q] : IsNextRow(p, a)
  \/ p # q /\ pc[p] = "write" /\ pc[q] = "commit" /\ op[p].key = op[q].key

\* Locking in id order leaves no set of callers all waiting for each other
\* (posting.go:229).
NoWaitCycle ==
  \A S \in (SUBSET Callers) \ {{}} : \E p \in S : \A q \in S : ~WaitsFor(p, q)

\* A closed wallet holds nothing: "Closing an account that still holds money
\* would strand it" (wallets.go:123).
ClosedWalletsAreEmpty ==
  \A a \in Wallets : status[a] = "CLOSED" => balance[a] = 0

\* "Once a period is closed, nothing may be posted into it" (posting.go:363):
\* what a posting adds to the journal lies in no period that is closed by then.
NothingIntoClosedPeriod ==
  [][\A i \in Len(journal) + 1 .. Len(journal') : ~PeriodClosed(journal'[i], closures)]_vars

\* The promise of Journal: every posting takes effect at once on the current
\* balances, on accounts that are open, and is linked to its own reversal.
ImplementsJournal == J!JSpec

\* Every call is answered, with a transaction or an error: lock waits end and
\* serialization retries are bounded.
EveryCallReturns == \A p \in Callers : pc[p] # "idle" ~> pc[p] = "idle"

-----------------------------------------------------------------------------
(* The invariant behind the safety properties; see PostingProofs.          *)

\* Everything that can be posted while n transactions are in the journal.
Postings(n) ==
  Requests \union
  {ReversalOf(r, id, key) :
     r \in Requests, id \in 1..n, key \in {<<"reversal", m>> : m \in 1..n} \union CallerReversalKeys}

\* r is what a client asked for, or the contra of a transaction of txs.
Legitimate(txs, r) ==
  \/ r \in Requests
  \/ \E id \in 1..Len(txs) :
       /\ txs[id].type # "REVERSAL"
       /\ \E key \in ReversalKeys(id) : r = ReversalOf(txs[id], id, key)

View == [balance : [Accounts -> Int], closures : SUBSET Closable]

Typed ==
  /\ journal \in Seq(Postings(Len(journal)))
  /\ balance \in [Accounts -> Int]
  /\ reversedBy \in Seq(0..Len(journal)) /\ Len(reversedBy) = Len(journal)
  /\ status \in [Accounts -> AccountStatus]
  /\ closures \subseteq Closable /\ closing \subseteq Wallets
  /\ pc \in [Callers -> Labels]
  /\ op \in [Callers -> Postings(Len(journal)) \union {NoRequest}]
  /\ attempt \in [Callers -> 0..SerializationRetries - 1]
  /\ view \in [Callers -> View]
  /\ stale \in [Callers -> SUBSET Accounts]
  /\ moved \in [Callers -> SUBSET Accounts]
  /\ held \in [Callers -> SUBSET Accounts]

\* No two transactions share a key, and none comes from nowhere.
JournalSound ==
  /\ \A i \in 1..Len(journal) : Legitimate(journal, journal[i])
  /\ \A i, j \in 1..Len(journal) : journal[i].key = journal[j].key => i = j

\* What the snapshot of p shows of the accounts nobody has posted to since.
Fresh(p) ==
  \A a \in Named(op[p]) \ stale[p] : view[p].balance[a] = balance[a]

\* What has been established of p's request when it reaches its label.
SessionSound(p) ==
  /\ pc[p] # "idle" => Legitimate(journal, op[p])
  /\ pc[p] = "flag" => op[p].type = "REVERSAL"
  /\ held[p] \subseteq Named(op[p])
  /\ \A a \in held[p], b \in Unlocked(p) : a < b
  /\ InTransaction(p) => Fresh(p)
  /\ pc[p] \in {"write", "commit"} =>
       held[p] = Named(op[p]) /\ Postable(op[p], status) /\ Balanced(op[p])
  /\ pc[p] = "commit" =>
       Recorded(op[p].key) = {} /\ Funded(op[p], view[p].balance)

CommittersDiffer ==
  \A p, q \in Callers :
    pc[p] = "commit" /\ pc[q] = "commit" /\ p # q => op[p].key # op[q].key

\* Inductive: true at the start and kept by every step, whatever the number
\* of callers, accounts and requests.
IInv ==
  Typed /\ JournalSound /\ (\A p \in Callers : SessionSound(p)) /\ CommittersDiffer

\* Where reversals carry the key Reverse makes: an answer names the transaction
\* recorded under its key, and a transaction is linked to its own reversal.
AnswersTrue ==
  /\ \A id \in 1..Len(journal) :
       reversedBy[id] # 0 => journal[reversedBy[id]].key = <<"reversal", id>>
  /\ \A x \in answers :
       /\ x[2] \in 1..Len(journal)
       /\ \/ x[1] = journal[x[2]].key /\ x[1][1] # "undo"
          \/ \E id \in 1..Len(journal) :
               x[1] = <<"undo", id>> /\ journal[x[2]].key = <<"reversal", id>>
=============================================================================
