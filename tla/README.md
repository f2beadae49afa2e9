# USDX bridge: a verification project

TLA+ modules, TLC runs and TLAPS proofs for the logic of this repository that decides about
money: the double-entry ledger of `core-ledger`, the saga that moves USD-X between the ledger,
Ethereum and Solana, the issue/redeem cycle that keeps USD-X at its peg, the way a login
becomes a party with a wallet; and for what lies between them and the user: the replicas of a
service from boot to shutdown, and the parts of the portal that keep state while calls are under way.

| Module | What it is |
|---|---|
| `Accounting` | vocabulary: accounts, requests, what a posting does to a balance |
| `Journal` | abstract: a ledger in which every posting is one indivisible step |
| `Posting` | the posting engine on PostgreSQL: snapshots, row locks, aborts, retries, reversals |
| `PostingProofs` | its theorems |
| `Chains` | the USDX contract, the Solana program, and a transaction's way to finality |
| `Custody` | abstract: what one transfer promises its user |
| `Bridge` | handlers, saga, ledger legs and both chains together (extends `Chains`) |
| `BridgeProofs` | its theorems |
| `Redemption` | amounts: issue, redeem, confirm, reverse, and the reconciliation job |
| `RedemptionProofs` | its theorems |
| `Onboarding` | first logins: auth proxy and its cache, identity, `EnsureWallet` |
| `OnboardingProofs` | its theorems |
| `Replica` | identity's replicas: boot and migrations, readiness and routing, drain and close |
| `ReplicaProofs` | its theorems |
| `Session` | one tab of the portal: PKCE sign-in, restore and refresh, the session monitor |
| `SessionProofs` | its theorems |
| `Feed` | the transaction feed: keyset pages against postings |
| `Channel` | the conversion monitor's WebSocket: reconnects, set-up and tear-down |
| `Lists` | the Redux slices: overlapping fetches, registrations, removals, money movements |
| `Conversion` | the conversion pages: quotes, cache, confirmation |
| `PortalProofs` | the theorems of `Channel`, `Lists`, `Feed` and `Conversion` |
| `Sums` | the laws of sums over finite sets, on which the proofs about amounts rest |
| `MCPosting`, `MCBridge`, `MCRedemption`, `MCPortal` | small instances for TLC |

To check: `tlc -config posting.cfg MCPosting`, and so on for each `.cfg`; `tlapm Sums.tla`,
`tlapm PostingProofs.tla`, and so on for each `*Proofs` module.

## 1. Inventory

**Posting engine** (`core-ledger/internal/ledger/posting.go`). *State:* `transactions`, `entries`
with running balances, the reversal link, account rows. *Operations:* `Post` (fast path by
idempotency key, then up to five attempts of `postOnce`), `postOnce` (a SERIALIZABLE transaction:
lock the account rows in id order, validate, check closures, insert, compute running balances,
check funds), `Reverse` (read, post the contra, flag the original — three statements).
*Hard:* snapshots that miss each other's writes, lock order, commits nobody acknowledges, equal
keys in flight, retries. *Correct when:* the interleaved engine is indistinguishable from one that
posts atomically, guarded wallets are never overdrawn, a key has one answer, a transaction is
reversed once, nobody waits for ever.

**Wallets and periods** (`wallets.go`, `repository.go`). *State:* wallets, account status, closures.
*Operations:* `EnsureWallet`, `SetWalletStatus`, `ClosePeriod`. They write the rows the engine
reads, at a weaker isolation level. *Hard:* check-then-act. *Correct when:* a closed wallet holds
nothing, a wallet has one account.

**Ledger flows** (`flows.go`, `fx.go`). No state of their own; each composes one `Post`: deposit,
withdraw, transfer, convert, issue, redeem, confirm, and the legs the saga posts. *Hard:* two
currencies with different scales in one transaction, truncation, fees, flags read long before they
are acted upon. *Correct when:* USD-X in circulation is backed, a redemption is paid once.

**Bridge saga** (`bridge/saga.go`, `api/handlers.go`). *State:* `bridge_transfers`, one goroutine per
transfer, not persisted. *Operations:* `issue`, `bridgeTransfer`, `Execute`, `unwindBurnLeg`,
`reverseIssuance`, `compensate`, `fail`. It calls the engine and the chain clients in turn.
*Hard:* a crash between any two steps, errors after the effect, five-minute waits, a refused credit
after a final mint, rows that lag. *Correct when:* value is in one place at a time, a status tells
the truth and a final one stays, a saga ends and leaves nothing in suspense.

**Chains** (`chains/`, `chainclients/`). *State:* token balances, replay markers per correlation id,
delegation (Solana), pause and blacklist (Ethereum), the mempool. *Operations:* `bridgeMint`,
`bridgeBurn`, `approve_bridge_delegate`, administration, holders' own transfers, submission and
`WaitForFinality`. *Correct when:* a correlation id takes effect at most once.

**Reconciliation** (`reconciliation/job.go`). Reads two supplies and three balances one after the
other, in no transaction, and raises Leg A (chains against journal), Leg B (reserve against
circulation), Leg C (bank statement against reserve). *Correct when:* an alert has a reason.

**Identity** (`services/identity`), **auth proxy** (`services/auth-proxy`). *State:* `parties`, `orgs`,
`memberships`; the proxy's cache of party and organisation per subject. *Operations:*
`resolveBySubject`, which provisions what it does not find, six statements and calls long, outside any
transaction; `Resolve`, with a cache entry that expires and a wait of five seconds. Identity and the
BFF both call `EnsureWallet`. *Hard:* two first logins at once, a failure or a timeout half way,
stale cache entries. *Correct when:* a subject is one party, colleagues share one organisation, a
party has one wallet, and what the cache repeats was true once and is right in the end.

**Replicas** (`services/identity`, `shared/node/nest-platform`, `infra/k8s/identity-deployment.yaml`).
*State:* `schema_migrations` in the database all replicas share; per process how far the boot has
come, the readiness flag, the phase of the shutdown and its timer, the connection pool; outside it the
endpoint and the pod's grace period. *Operations:* `runMigrations` at boot, `/readyz`, the queries of
a request, `runShutdownSequence` (not ready, drain, `app.close()` with its hooks under a timeout,
exit). *Hard:* replicas that boot at once, a boot that is told to stop, routing that lags behind,
requests that outlive the pool, five periods that have to fit together. *Correct when:* a migration
takes effect once, a replica that lost a race comes up in the end, no request meets a closed server
or is cut off early, nobody is killed.

**Session** (`frontend`: `authSlice`, `authUtils`, `useSessionMonitor`, `Callback`, `AppProvider`).
*State:* what `sessionStorage` keeps over a page load, what Redux does not, the calls under way.
*Operations:* sign-in over Keycloak, restore at every load, refresh, logout, the monitor once an
interval. *Hard:* a refresh answered after a logout or beside a second login, codes opened again,
a cleanup that keeps half its state. *Correct when:* nobody stays signed in after the session, a code is
sent once.

**WebSocket** (`websocketService`, `conversionWebSocket`). *State:* one socket, one timer, a counter,
the transaction monitored. *Operations:* connect, disconnect, reconnect after a close, the pages' set-up
and clean-up, a disconnect two seconds after a final update. *Hard:* the close event of a socket that
was disconnected on purpose, timers nobody holds, retries that meet a new socket. *Correct when:*
there is one live socket, and a monitor that stays set up is connected again.

**Lists** (five Redux slices and the forms that dispatch to them). *State:* lists, a flag or several,
the error. *Operations:* thunks that fetch, register, unlink and move money; made-up data in place of
a failed call's. *Hard:* answers out of order under one flag. *Correct when:* what no change overtook is
shown as it is stored, and a spinner stops.

**Feed** (`ListTransactionsPage`, `pagination.go`, bff's `TransactionsService`). *State:* none but the
cursor the reader holds. *Hard:* rows that commit in another order than they are dated, equal times, pages
of any size. *Correct when:* no row is shown twice and none is missed that was there.

**Conversion pages** (`ConvertRedux`, `ConvertQuote`, `ConvertConfirm`, `conversionSlice`). *State:* one
quote, one transaction, a cache of quotes, per page a form. *Hard:* late answers, expiry, redirects nobody
cancels, the browser's history, an idempotency key made anew at every click. *Correct when:* a confirmed
transaction is never replaced on its page by another.

**BFF**: translates a request to one call of the core ledger; the two places where it does more are in
`Onboarding` and `Feed`. **Start-up of the core ledger** (`cmd/server`): wiring; it also decides what a
restart resumes, which is nothing. **Platform libraries** (configuration, envelopes, logging, metrics,
tracing), **the rest of the portal** and **infrastructure**: see section 6.

The hazards found in this code are listed with their lines in `PROJECT.json`; each names the properties that would
catch it, or says why there is none.

## 2. How the modules correspond to the code

### Posting

A caller (`Callers`) is a request goroutine; `pc` is where it stands in `Post`/`postOnce`/`Reverse`.

| Action | Code |
|---|---|
| `Lookup` | the fast path of `Post` |
| `Begin` | the first statement of `postOnce`, which fixes the snapshot (`view`) |
| `LockRow` | one row of `SELECT … ORDER BY id FOR UPDATE` |
| `Check` | `ValidatePostings` and `checkClosures` |
| `Write` | the insert (waits for, then yields to, an equal key) and the funds check |
| `Commit`, `CommitUnacknowledged`, `Abort` | the three ends of a transaction |
| `StartReversal`, `AlreadyReversed`, `Flag` | `Reverse`, before and after its `Post` |
| `FreezeOrThaw`, `ReadBeforeClose`, `CloseWallet`, `ClosePeriod` | the other writers of the same rows |

PostgreSQL is modelled by what the code relies on. `stale[p]` collects the accounts posted to by
commits that p's snapshot misses; `moved[p]` the account rows updated since. A transaction that
commits with `stale` touching its accounts, or locks a `moved` row, is refused (40001) and retried.
The engine may also refuse without need, as PostgreSQL may: `Abort` is always possible inside a
transaction. The computed running balances come from the snapshot (`view`), not from the current
balances, so losing the conflict detection loses updates: the mutant `NoConflict` shows it.

### Bridge

`row` is `bridge_transfers.status`, `posted` the set of legs in the journal, `handler` an HTTP
request, `saga` the next step of the goroutine, `hash` the transaction last submitted. A call of
the engine is one step (`Post`, `Refuse`), which section 5 justifies by
`EngineImplementsJournal`. A balance is derived from the legs, as the journal derives it. `Refuse`
includes the error that arrives after the commit. `Submit` has four outcomes: accepted, refused by
estimation or preflight, refused for no reason of the program's, and accepted with the reply
lost. `Wait` answers yes only for a transaction that ran, no for one that reverted or was dropped,
and no too early with the mishap "early". `UpdateStatus` may fail, and its error is ignored as the
code ignores it.

`Crash` ends every goroutine and nothing restarts them (section 4 has what follows from that). `Resume` calls `Execute` again, which the
comment on `Execute` calls safe; nothing in the repository does so.

A *mishap* is something that goes wrong; `Mishaps` says which kinds an instance admits, and
`MaxMishaps` how many. Only "early", "lostReply", "resume" and "operator" make a negative answer
untrue or interfere with a saga; everything else the saga claims to survive.

### Redemption

One user, USD in cents and USD-X in millionths. `Convert` and `ApplyBps` truncate as `fx.go` does
and are the only link between the two currencies. Confirmation and reversal keep the code's two and
three statements (`Read`, `PostSettlement`; `Read`, `PostContra`, `Flag`). The saga's part is
reduced to `Mint` then `PostDeliver`. `Burn` is external: nothing in the repository burns a
redemption's tokens; `ConfirmRedemption` is handed a transaction hash and believes it. `ReadNext`
reads the four figures of `CheckOnce` in the code's order. Leg C needs a bank snapshot, and no code
records one.

### Onboarding

A request (`Requests`) goes through the auth proxy, identity, the auth proxy again and the BFF;
`pc` is its next statement. Tables are sets of rows; an id is a pair of the request that made it up
and of whom it is for, which stands for a random UUID.

| Action | Code |
|---|---|
| `Receive`, `CacheGet`, `CacheSet` | `verify` and `Resolve`: a cache that errs is a cache that misses, and a failed write is ignored |
| `FindBySubject`, `Insert`, `PrimaryOrg` | `resolveBySubject` and the first half of `provision`; the loser of the unique key re-reads |
| `EnsureOrg`, `EnsureMembership` | its second half, for a subject with an `org_id` attribute |
| `WalletFor`, `CreateWallet`, `Reread` | `EnsureWallet`: a look, a transaction (account always, wallet on no conflict), a second look |
| `Fail` | a statement, a call or the process fails; what is committed stays, and identity swallows a failing core ledger |
| `Timeout`, `Unheard` | the auth proxy gives up; identity goes on and its answer goes nowhere |
| `Expire` | the time to live of a cache entry |

Every request modelled lists the wallets (`listOwnWallets`), the one route on which the BFF ensures one.

### Replica

| Action | Code |
|---|---|
| `CreateTable`, `SelectApplied`, `SkipFile`, `InsertVersion`, `CommitFile` | the statements of `runMigrations`; a file and its row are one transaction, and the row's primary key decides a race |
| `BootFault`, `PoolGone`, `Restart` | a boot that fails exits; Kubernetes starts the container again |
| `Listen`, `Probe`, `Route` | `app.listen`, `/readyz`, and a service that routes to who is ready |
| `Query`, `QueryDone`, `Respond` | a request's use of the pool |
| `Terminate`, `Sigterm`, `StartClose`, `PoolEnded`, `CloseEnds`, `CloseTimesOut` | the pod is taken down: preStop, drain, `onModuleDestroy`, `server.close()`, the timeout |
| `Tick` | time; a timer that has run out is served before the next tick |

`RoutingLags` is an assumption about Kubernetes that `shutdown.ts` makes as well: routing ends before
preStop and drain are over. The process may be told to stop in the middle of its boot, since the handler is
installed before `listen`.

### Session, Channel, Lists, Feed, Conversion

The portal runs on one event loop, so an action is one task of it: an event handler, a timer, or the
continuation of an `await`, with the reducers and effects that follow. What a call has read before its
`await` travels with it (`restoreStart`, the records in `pending`, `asking` and `confirming`).

- *Session.* A login is the number of its authorization request. A page load (`Load`) forgets Redux and
  the calls under way and keeps the storage. `Cleared` is a countdown whose interval has been cleared and
  whose ref has not: the monitor's effect is cleaned up with a new session start and with a new page
  (`Navigate`).
- *Channel.* A socket that cannot open fires `error`, settles its promise and fires `close` in one step,
  in that order. `orphans` are timers that fire although `reconnectTimer` no longer holds them.
- *Lists.* A behaviour is about one slice, a record of its thunks. `Serve` is the server's moment,
  `Answer` and `CallFails` the reducers'. `settled` is a history variable: it says of which lists the
  code can be asked to show what is stored, because nothing overtook the last fetch.
- *Feed.* A row is dated by the ledger's clock when it is inserted and seen when it commits.
- *Conversion.* A quote is the number of its call, a transaction that of its confirmation. A call that
  failed leaves made-up data, which the pages use like an answer; so it is one.

## 3. Abstract specifications

`Journal` (implemented by `Posting`): the transactions in commit order, with the balances they
result in. A posting needs a new key, accounts that may be posted to, balanced lines and funds *now*.
A transaction is linked to a reversal once. Closures are no part of it: `posting.go:362` says that
nothing is posted into a closed period and the engine does not keep it; `NothingIntoClosedPeriod` in
`Posting` states that claim (section 4).

`Custody` (implemented by `Bridge`): the ledger parks the amount before a chain moves; tokens are
burned before they are minted anew; the amount leaves suspense once, to the target if the tokens
were minted there, back to the source if they were not burned, or are no longer coming, or are
being re-minted. The mapping reads the legs and the executed transactions and yields "twice" —
which Custody never reaches — when a transfer has ended both ways.

## 4. Runs

| Run | Expects | Instance and what it shows |
|---|---|---|
| `posting` | pass | three callers race a deposit, a withdrawal and a transfer on one wallet, their reversals, one freeze or close and one lost connection or lost commit. `OnlyReversalsOverdraw`, `RunningBalancesAgree`, `OneAnswerPerKey`, `ReversedAtMostOnce`, `NoWaitCycle`, `ImplementsJournal` |
| `posting_live` | pass | every call returns, also while a period is closed and a wallet frozen (`EveryCallReturns`) |
| `close_race` | violation | a deposit commits between the balance `SetWalletStatus` reads and its update: money in a closed wallet |
| `reversal_keys` | violation | two reversals of one transaction with different Idempotency-Keys both post |
| `bridge` | pass | an issuance, sent twice, and a bridge transfer, with any two of: crash, dropped transaction, refusal, database fault, pause/blacklist, freeze/close. `NothingDoubled`, `StatusStands`, `ImplementsCustody`, `FinalStatus` |
| `bridge_settles` | pass | two transfers race for one balance and one thing goes wrong on a chain: the balance is spent once (`NoOverdraft`), sagas end (`EverySagaEnds`), rows become final (`EveryTransferEnds`) and are true of journal and chains (`StatusIsTrue`), what is owed is on a chain or about to be re-minted (`OwedIsOnChain`), suspense empties (`NothingStranded`), books and chains agree at rest (`ReconciledAtRest`) |
| `saga_refund_lost` | violation | a mint is dropped, then the mint that compensates it: the user is owed tokens that were burned and are not coming (`OwedIsOnChain`) |
| `bridge_early` | pass | even when waits give up early, replies are lost, operators reverse legs and sagas are run again, no correlation id takes effect twice (`ReplayGuarded`) |
| `saga_mint_early` | violation | the wait for a mint gives up, the issuance is reversed, the mint lands |
| `redemption` | pass | an issuance redeemed in parts, confirmed twice and reversed by operators while reconciliation reads. `BackedWithinRounding`, `PaidAtMostOnce`, `ReversedStaysUnpaid`, `LegAExplained` |
| `peg_rounding` | violation | redeeming a cent and a half leaves half a cent of backing too much, and Leg B is raised from then on |
| `portal` | pass | seven parts, one per behaviour. Onboarding: first logins of two colleagues and of a person race, fail, time out and are cached (`OneParty`, `ColleaguesShareOrg`, `OneWallet`, `SeenThrough`, `AnswersFade`). Replica: two images boot, migrate and are taken down under a request (`MigratedOnce`, `NothingRefused`, `GraceGiven`, `ReplicaServes`). Session: three sign-ins over two and a half sessions (`EndsWithSession`). Channel: three set-ups, an outage, retries (`OneSocket`, `MonitorReconnects`). Lists: every slice, three calls and somebody else's change (`ShownIsStored`, `SpinnerStops`). Feed: three rows, pages of one and two (`NoRowTwice`, `AllShown`). Conversion: three inputs, two quotes, two confirmations (`NeverReplaced`) |

The violations are disagreements between the code and a comment or test of the repository; each
finding in `PROJECT.json` quotes the line.

The seven parts of `portal` share no variable: the services behind them answer what a part assumes of
them, and no part reads another's state. `MCPortal` therefore lets a variable `part` choose one of
them for good and keeps the others in their initial states, which makes one run of seven state spaces, added
and not multiplied. Invariants then speak of all parts at once; a liveness property is restricted
to the behaviours about its part (`AnswersFade` is `StaleAnswerFades`, `ReplicaServes` is
`EveryReplicaServes`, `MonitorReconnects` is `Reconnects`), and each part's fairness is its own.

`saga_mint_early` needs a transaction that takes longer than the wait, or a receipt that cannot be fetched.

**Further disagreements.** Each of these is a property that quotes a comment, is stated in its module
and is false of the code. No run of its own checks it: the table keeps the disagreements that cost the most. Each shows
within seconds once the configuration named is changed as described, the property put in place of those it lists.

| Property | Change | What TLC finds |
|---|---|---|
| `NothingIntoClosedPeriod` | `posting_live.cfg` | a posting passes `checkClosures`, the period is closed, the posting commits into it. "Once a period is closed, nothing may be posted into it" (`posting.go:362-365`, `models.go:327-329`) |
| `StatusIsTrue` | `saga_refund_lost.cfg` | the row of that run: COMPENSATED, "failed mint, re-minted on source" (`models.go:424`), of a transfer that was not re-minted |
| `OwedIsOnChain` | `saga_refund_lost.cfg`, `Mishaps = {"early"}`, `MaxMishaps = 1` | the wait for a burn gives up, the leg is reversed because "Nothing was destroyed on chain" (`saga.go:81`, `:128-130`), the burn lands |
| `EveryTransferEnds` | the same with `Mishaps = {"crash"}` under `FairSpec` | the process ends in mid-saga and the transfer stays PENDING: nothing calls `InFlight`, "used to resume after a crash" (`repository.go:332`) |
| `MovesDeliver` | the same with `Mishaps = {}` under `FairSpec`, `AddressOf <- TwoAddresses`, `OpeningTokens <- TwoAddressesTokens`, `Base58 = {addr2}` | with an address per chain the burn goes to the address of the destination wallet (`handlers.go:498`), and no transfer completes |
| `LegANeverBreaks` | `redemption.cfg` | a check reads between a mint and its credit: Leg A, "an invariant that should never break on its own" (`job.go:142`), is raised and nothing is wrong |
| `NoOrphanAccount` | `portal.cfg` | two `EnsureWallet`s race, and the loser's account is committed without a wallet, although they "are created together or not at all" (`wallets.go:10`) |
| `LoserFindsWallet` | `portal.cfg` | the loser of two first logins takes the party for "wallet-provisioned" (`provisioning.service.ts:72`) before it is |

The mishap "resume" calls `Execute` a second time, which nothing does today although `saga.go:21`
calls it safe. It is admitted in `bridge_early` only, for the replay guard. It is not safe beyond
that: on MINT_SUBMITTED the mint is submitted again, the guard refuses it, and `Execute` takes the
refusal for a failed mint and mints on the source too. Whoever wires `InFlight` up has to settle this first;
adding "resume" to the mishaps of a run of `NothingDoubled` shows the behaviour.

### Bounds, and why they are enough

- *Posting.* Three callers are the fewest with a chain of waits and with two commits behind one
  snapshot; `MaxCalls` 3 gives each one call, or one caller three. `SerializationRetries` is 2 rather
  than 5: the code treats all attempts but the last alike. One status change and one fault reach every
  place where either can bite; both are independent of the number of callers. Callers are
  interchangeable, hence the symmetry (not used for liveness). The proofs drop all of these bounds.
- *Bridge.* One unit per transfer and per opening balance: enough for two transfers to compete for
  it. Two mishaps reach a failure of a failure's handling (a dropped mint whose refund is refused).
  `Attempts` 2 for the issuance is a client's retry. `bridge_settles` allows one mishap, for two
  reasons: it has two racing transfers, and what it checks holds for one failure only. The second failure that breaks `OwedIsOnChain` and
  `StatusIsTrue` is the loss of a re-mint, which `saga_refund_lost` shows; what
  holds through any number of failures is `StatusStands` and `OnlyRefundsLose`. At most three transactions are sent per transfer and run of its saga, which is the
  range of `Sendable`.
- *Redemption.* Four cents, fees of 25 % — so that a fee is a cent, and truncation is not the same
  as its absence — and three redemptions: a cent and a half, a cent and one unit, and dust below half a
  cent. Five calls: two confirmations and a reversal of one redemption, a reversal of its settlement,
  and a confirmation of the dust.
- *Replica.* Two replicas, one with an older image, are the fewest that race for a file and still leave one
  that only the newer ships. Times are the smallest that keep the order of the deployment's
  (5 s preStop, 5 s drain, 15 s close, 30 s grace). One request, since requests do not meet; one failed boot
  besides those the races cause.
- *Session.* Three sign-ins are two that overlap and one after both; ten ticks are two sessions and a half,
  with a token that lasts half a session.
- *Channel.* Three sockets are one in use, one closing and one made by a timer. Two attempts, so that one
  may fail without ending the retries.
- *Lists.* Three calls are two that overlap and a third that starts under them, or a movement with its two
  follow-ups; three items, so that one can be there, one added, one removed.
- *Feed.* Three rows on three instants have every order of dates, ids and commits, with ties; pages of one
  and two make the last page full, short and empty.
- *Conversion.* Two quotes and two confirmations are one that overtakes another; the third input is beyond the limits.
- *Onboarding.* Two requests at a time are a winner and a loser; the third login comes after both,
  finds what they left behind and may race the slower one. Three subjects: two of one organisation
  and one of none. One fault: a failure in any statement, a timeout or a cache error. Requests are
  alike and so are the two colleagues, so `MCPortal` (`FirstLogin`) takes of the behaviours that differ in
  their names only the one whose first login is the first request's and not the second colleague's. The
  proofs drop these bounds.

Deadlock is checked for Posting and Redemption. Posting stops only when its budgets are spent, which
`Quiet` names. Bridge really stops when the sagas are over, so its runs do not check deadlock; its
liveness properties take that place. The parts of
`portal` stop when their budgets are used up.

### Fairness

- `Advances(p)` (Posting): a goroutine goes on with its own statements, and the database answers
  them, an obligatory refusal included. Clients, operators, faults and needless aborts owe nothing.
- `SagaStep(t)` (Bridge): goroutines are scheduled, and every wait of the saga has a timeout.
- `InsertRow`/`InsertFails`: an HTTP handler that has begun carries on.
- `Mined(h)`: a chain that has not dropped a transaction executes or reverts it sooner or later. This
  is the chains' liveness, which the code assumes too, with its five-minute limit as the way out;
  the run that uses it excludes "early".
- `Step(p)` (Onboarding): a request that has been received goes on. Clients and faults owe nothing.
- `BootStep(r)` (Replica): a boot goes on, and Kubernetes restarts a container that exited.
- `Opens`, `FailsToOpen`, `Closes`, `TimerFires` (Channel): the browser delivers its events and fires its
  timers. The server owes nothing; `Reconnects` speaks of behaviours in which it stays up.
- `Expire(s)`: every entry is written with a time to live (`resolver.go:49`, `:99`).

`EveryTransferEnds` and `NothingStranded` hold without crashes, database faults, wallet freezes and
operators only: a crash leaves a transfer where it was, and a credit
refused by a frozen wallet stays in suspense on purpose (`saga.go:104`).

## 5. Proofs

| Theorem | For every value of the constants |
|---|---|
| `PostingProofs!Invariance`, `TypeCorrect` | `IInv`, and with it the type invariant |
| `PostingProofs!FundsProtected` | no interleaving overdraws a guarded wallet; only a reversal can |
| `PostingProofs!RunningBalancesSound` | an account's balance is the sum of its journal lines |
| `PostingProofs!TrialBalanceHolds` | in every currency the running balances add up to nothing, reversals and all |
| `PostingProofs!NoDeadlock` | no set of goroutines waits for one another |
| `PostingProofs!ReversalsUnique` | with `CallerReversalKeys = {}` nothing is reversed twice |
| `PostingProofs!AnswersUnique` | with `CallerReversalKeys = {}` a key has one answer, that of the transaction it is recorded with |
| `PostingProofs!EngineImplementsJournal` | with `CallerReversalKeys = {}` the engine implements `Journal` |
| `BridgeProofs!Invariance`, `StatusTold`, `StatusFinal` | with `NoIsNo`: the phases of a transfer; what is reported as delivered is there, what is reported as not delivered never will be (`StatusStands`); a final status stays |
| `BridgeProofs!BridgeImplementsCustody` | with `NoIsNo`: handlers, saga, journal and chains implement `Custody` |
| `BridgeProofs!NothingTakesEffectTwice` | with no assumption on mishaps: types, and no correlation id takes effect twice |
| `BridgeProofs!NeverOverdrawn`, `SupplyAccounted` | with no assumption on mishaps: no wallet is overdrawn; the tokens on all chains are those of the start, and what ran since |
| `BridgeProofs!NothingDoubles`, `LossesAccounted` | with `NoIsNo`: there are no more tokens than the journal has issued; and where it owes more than there is or is pending, the difference is no more than the re-mints that were lost |
| `BridgeProofs!OwedIsCovered`, `StatusTrueOnce` | with `OneFailure`: what is owed is on a chain or pending as a re-mint; a final status is true of the journal and both chains |
| `BridgeProofs!BooksAgreeAtRest` | with `OneFailure`: when everything has come to rest, circulation is what is on the chains and suspense is empty |
| `RedemptionProofs!Invariance`, `TypeCorrect` | `IInv`, and with it the type invariant |
| `RedemptionProofs!PaidOnce` | a redemption's fiat is released at most once |
| `RedemptionProofs!ReversalFinal` | once a redemption is flagged as reversed and no earlier confirmation is under way, none begins and it is never paid |
| `RedemptionProofs!BackingHolds` | the reserve covers circulation, and exceeds it by less than a cent for each settlement that stands |
| `RedemptionProofs!LegAHolds` | Leg A is raised for no other reasons than those listed in `LegAExplained` |
| `OnboardingProofs!Invariance`, `TypeCorrect` | `IInv`, and with it the type invariant |
| `OnboardingProofs!OnePartyAlways`, `ColleaguesAlways`, `OneWalletAlways` | one party per subject, one organisation per `org_id`, one wallet per party, whoever races whom |
| `OnboardingProofs!PartiesSeenThrough` | until a fault, a party that is not complete has a request at work on it |
| `ReplicaProofs!ReplicaInvariance`, `ReplicaTyped`, `MigratedOnceAlways`, `NothingRefusedAlways`, `GraceGivenAlways` | any number of replicas, images and requests, any periods with preStop + drain + timeout < grace |
| `SessionProofs!SessionTyped`, `CodeSentOnceAlways`, `EndsWithSessionAlways` | a code is sent once, a session ends; any durations |
| `PortalProofs!FeedInvariance`, `FeedTyped`, `NoRowTwiceAlways`, `AllShownAlways` | any rows, clocks and page sizes |
| `PortalProofs!ChannelTyped`, `OneSocketAlways` | one live socket, whatever is retried |
| `PortalProofs!ListsTyped`, `SpinnerStopsAlways` | a flag that is set has its call |
| `PortalProofs!ListsInvariance`, `ShownIsStoredAlways` | a settled list is what the server has, each item once; any items, calls and changes by others, every slice |
| `PortalProofs!ConversionInvariance`, `ConversionTyped`, `NeverReplacedAlways` | a transaction on display is not replaced |

**Assumptions.** The named `ASSUME`s of the modules: accounts are ordered, requests are well formed,
wallets are accounts, accounts are finitely many, no client picks a key of the form `reversal:<id>` (nor the label under which
`answers` files what `Reverse` returns); goroutines, transfers, wallets and addresses are finitely many;
transfers join wallets of two different chains; the tokens on the chains are at first what the wallets hold;
amounts are positive naturals; fees lie between 0 and 10000 basis points; "no
organisation" is no id; the periods of a shutdown fit in the grace period; a countdown is shorter than
a session; rows are finitely many and ids are numbers. TLC
evaluates them in every run. Three theorems of Posting also assume `CallerReversalKeys = {}` (reversals
carry the key `Reverse` makes itself); `reversal_keys` shows why. The theorems of Bridge that tie the
journal to the chains assume `NoIsNo`, that none of "early", "lostReply", "resume", "operator" occurs; `saga_mint_early`
shows why for the first of them. `OwedIsCovered`, `StatusTrueOnce` and `BooksAgreeAtRest` assume `OneFailure`, the hypothesis under which `bridge_settles`
checks the same properties: at most one dropped or refused transaction, one act of an administrator or one of a
holder, and wallets whose address is one of Solana's (with an address per chain nothing completes: `MovesDeliver`). A second
failure may lose a refund, which the code neither awaits nor retries (`saga_refund_lost`).

**Sums.** A balance is a sum over the journal, a supply one over the transactions that ran. The sums are folds
of the community modules: functions defined by recursion on the subsets of a set, one chosen element at a time.
`SubsetInduction` is induction over those subsets with the property given as a set and not as an operator,
which the provers can instantiate; from it follow that the recursive function exists, that the choice does not
matter (`SumTakesOut`), and the laws the other proofs cite: what one more term adds, sums over disjoint
sets, sums that agree, bounds, changes in one term.

**Posting's argument.** The safety properties speak of the journal, but what keeps them true is what a
session has established on its way. `IInv` says so for each label: locks are taken in order, a
snapshot agrees with the present on every account not in `stale`, at "write" all rows are locked and
postable, at "commit" the key is new and the funds suffice in the snapshot; two committers have
different keys. A commit requires `stale` to miss its accounts, so what the snapshot says is true now,
and the step is `Journal!PostTx`; hence each commit adds to a balance what its lines say
(`RunningBalancesSound`), and since its lines balance (`Balanced`) they cancel out in the sum over all
accounts (`TrialBalanceHolds`). The row locks keep the statuses (`Restatus` needs the row free). For `AnswersUnique`,
`AnswersTrue`: an answer names a transaction recorded under its key, and keys are unique. `NoDeadlock` needs
no history: of the goroutines that wait for a row, the one whose next row has the greatest id waits for nobody who
waits for a row, since nobody holds a row beyond the one it waits for; and who waits for a key waits for one that waits for nothing.

**Bridge's argument.** Each transfer is in a *phase* — unstarted, burning, minting, credited, unburned,
unminted, refunding — which speaks of its own legs and transactions. Chain steps and other transfers
keep a phase (`PhasesSurvive`, `OthersKept`); each saga step has a lemma that says from which phase
to which it leads; `SagaInPhase` says which phases fit the saga's next step and `StatusInPhase`
which fit a final status. `ReplayGuarded` needs a different and much smaller invariant (`Guarded`): whatever has
run is marked on its chain, and a correlation id's mints, like its burns, go to one chain.

The figures are sums of order amounts over sets of transfers: those with a certain leg, those whose mint ran. A step
moves one transfer into one set (`SumJoins`). `NeverOverdrawn` follows from the engine's guard for each leg that
takes from a wallet, and `SupplyAccounted` from the markers: each of the three kinds of transaction
changes the supply once per transfer. For `NothingDoubles` and `LossesAccounted` two figures are compared transfer by transfer
(`Weigh`): the phase of a transfer says what it contributes to either side. A transfer whose journal has given the
amount back has had its re-mint sent first (`RemintedFirst`), and that has run, is pending or is lost (`RefundFates`).

`OwedIsCovered` is `LossesAccounted` where nothing is lost. It, `StatusTrueOnce` and `BooksAgreeAtRest` need to know why a saga cannot stop half-way. `FailedOnce` says that a mint is only ever lost
when the one mishap is spent, and that no re-mint is lost; the cases that remain are those in which a second failure would
have been needed (`MintOfOneFailure`, `RefundOfOneFailure`, `RevertOfOneFailure`). `SeenOut` then says that a saga which is over has
nothing left to do (`EndsWell`): its transfer is credited, or its value has been given back.

**Redemption's argument.** A settlement is only ever filed under the key made from its redemption
(`KeyNamesEntry`) and a key is taken once. A flag that is set stays set, and a confirmation that
reads it goes no further (`FlagHolds`), so a redemption that has been called off stays so.
For the amounts, `ContrasFollow`: a contra has its original in the journal, so an original is in force or not and
each posting changes the set of those in force by one. Each balance is then a sum over such sets (`SumsHold`), and the two figures
of Leg B differ by what `Convert` cuts off, less than a cent per settlement. `SeenIsCurrent` says that what the
reconciliation has read is still true unless something moved, which is what an alert without a reason would contradict.

**Onboarding's argument.** Tables only grow, so what a request, the cache or an answer has learnt of a
subject stays true (`SoundStays`). `IInv` says what each has learnt at its label, and that the unique
keys are unique; a party's id tells whose it is, which is what makes a membership found under it
the membership of its subject. Two answers for one subject then name the same row. For `SeenThrough`
(`CarriedOn`): the request that made a party is the one that joins it to its organisation and makes its wallet, and it comes
to the wallet by way of the organisation; until a fault it does not stop before.

**Replica's argument.** `Migrations`: rows are a prefix of the directory, what a boot has read or skipped
is in them, and two open transactions never hold one file, so the primary key makes the second insert
wait and fail. `Clock`: the ticks since the start of the shutdown and those its timer has left add up
to the end of its phase, which puts the close after the routing and the exit before the kill. `Waiting`: who
is inside when the close begins has at least as long as the timer is old.

**Session's argument.** For `EndsWithSession` (`EndInv`): a stored start is that of the last login, whoever
restored or refreshed, because a refresh never writes it; and the monitor lets pass only who has one
that is young enough. Tokens that a late answer puts back do not help it. For `CodeSentOnce` (`CodeInv`): the
verifier in the storage is that of a code nobody has sent.

**Feed's argument.** `ShownAbove`: the rows shown lie on or above the cursor. Rows that were there and have
not been shown lie below it. A page is taken from what is below, newest first, and what it leaves out is older
than all of it; no row that commits later changes that for either kind.

**Channel, Lists, Conversion.** `OneSocket` is inductive with the types: `connect()` closes what it
replaces. `SpinnerStops` needs to know that each call has its flag for as long as it is under way. For
`NeverReplaced` (`ConversionInv`): the one flag is set exactly while a confirmation is under way, of
which there is one, and then no transaction is on display; the quote page leaves as soon as there is one.

**Lists' argument** (`ListsInv`). `ShownIsStored` speaks of moments at which no write waits, so it is not
inductive: a write that is served changes what is stored now and what is shown when it is answered. `ListSound` says
how far a settled list may be off meanwhile: it may lack items whose registration is served, and hold
items whose removal is; nothing else, and nothing twice. Appending is right only because a registration no fetch
has seen is not on the screen (`AddsSound`), hence nobody has unlinked it either, and because two registrations
never have one id; filtering, because what is removed stays removed (`RemovesSound`). A fetch makes the list sound
because what it read is what is stored until something changes, and then it is late (`FetchesSound`); the
registrations it has seen will be appended again, and then the list is not settled. `Nth` and `Without` are the order
of a list and `filter`; `NthIs`, `WithoutIs` and `ListingIs` prove that they lose and double nothing.

**What TLC and TLAPS divide among them.** The inductive invariants of Posting, Bridge, Redemption,
Onboarding and the parts of the portal were checked by TLC on the instances above before they were proved, and
are left to the proofs since; so are the type invariants, of every module.

**Model-checked only.** Liveness, hence `EveryCallReturns`, `EverySagaEnds`, `EveryTransferEnds`,
`NothingStranded`, `AnswersFade`, `ReplicaServes`, `MonitorReconnects`. Every safety property that a passing
run checks is a theorem, under the assumptions above.

## 6. What the models leave out

- *Requests.* Descriptions, metadata and references; a flow names no account twice (true of `flows.go`).
- *PostgreSQL.* Lock time-outs; deadlock detection shows only as a needless `Abort`. `NoWaitCycle` says
  the engine itself gives it nothing to detect.
- *Chains.* Reorganisations after finality, gas, roles, upgrades, the set-up of the mint authority.
- *Bridge.* The issuance fee (in Redemption), more than one unit moved at a time by a holder.
- *Redemption.* Transfers and withdrawals by the user, several users, the callers' own reversal keys
  (in Posting).
- *Onboarding.* Keycloak's answers (an attribute per subject that does not change; its calls can
  only fail), wallets in other currencies, routes that ensure no wallet, the pass-through resolver used
  where there is no identity service.
- *Replica.* The Go twin of the shutdown sequence, SIGINT, the cleanup functions no service passes, the
  readiness of other services. A migration's content; a file that fails is a failed boot.
- *Session.* How long a page change delays the next check (it starts the interval afresh; a tick is taken to outlast
  it). Other tabs (they have a storage of their own), the id token, the `refreshToken` thunk, which nothing dispatches.
- *Channel.* Messages and their queue. The second socket of `websocketMiddleware`, a service made by the same
  function with a page's mount and unmount for its only users.
- *Lists.* Contents of items, errors as text, the arguments of a statement (one stands for all), and thunks no
  page dispatches: `fetchLiquiditySources`, `fetchOrderBook`, `fetchStablecoinBalance`, `fetchTransactionById`, `removeBankAccount`,
  `withdrawFromWallet`, `setWalletStatus`.
- *Feed.* The user's filter (the rows are one user's). The portal itself never asks for a second page; the
  reader of `Feed` is any client of the ledger.
- *Conversion.* Amounts, payment methods, the text of errors.
- *Read-only endpoints*, formatting, logging, metrics.
- *Most of the portal by size.* Of its 48 000 lines the greater part are views, type declarations, made-up data
  and forms that end in a made-up result: shopping, loans, insurance, investments, trading, tickets,
  identity documents, a menu and a search over aircraft and flights that come from another product. They hold no state
  beyond a form and make no promise that could fail, so a model of them would only repeat them. The
  notification, search and sidebar slices are synchronous reducers whose counts are computed from their lists.
  This, and not what is open in the plan, is why the modules map a small share of all lines and most of the lines that
  decide something.

Behaviour worth knowing that is no finding, because nothing in the repository says otherwise:

- An operator who reverses a redemption that has been settled, or a leg of a saga that is still running, leaves suspense
  below zero.
- A confirmation repeated after its settlement was reversed is answered with the reversed settlement:
  the key is taken, and the redemption cannot be paid at all.
- A redemption of less than a cent, or one the fee eats up, is accepted and can never be confirmed.
- A confirmation that has read the flag of its redemption pays it although it is reversed before the payment
  posts: the user has the fiat and the USD-X (`ReversedStaysUnpaid` speaks of confirmations that begin later).
- Besides between a mint and its credit (`LegANeverBreaks`), Leg A is raised between a redemption and its burn and by a check that something
  moved under (`LegAExplained` excludes precisely these).
- An amount whose `BridgeOut` committed without an answer stays in suspense under a row that says FAILED
  (`saga.go:70`), and a row whose update failed lags for good (`saga.go:119`). `bridge` admits both.
- The empty organisation with which the loser of two first logins may be answered is repeated by the auth proxy until
  the entry expires (`AnswersFade`).
- A failure between the insert of a party and its membership leaves the party without an
  organisation for good: the next login finds it and provisions nothing.
- `app.close()` runs `onModuleDestroy` (`pool.end()`) before it closes the server: requests that arrived during the
  drain and have another query to make are answered with an error.
- A refresh that fails late removes the tokens of a login made meanwhile, one that succeeds late overwrites
  them, and one that is under way during a logout puts tokens back. The session still ends (`EndsWithSession`),
  since none of them writes `session_start_time`.
- A monitor that is cleaned up in its countdown shows no further countdown: the interval is gone and the ref
  is not. The session ends at the next check of the storage.
- `disconnect()` clears the reconnect timer, and the close event that follows arms it again: a socket nobody
  wants is opened. `getWebSocketInstance` keeps the first transaction's URL for all later ones
  (`conversionWebSocket.ts:49`), and an update is shown without a look at whose it is. A transaction's
  disconnect, due two seconds after its end, tears down the monitor of the next.
- Two deposits whose follow-up fetches are answered out of order leave the older balance on display.
- A quote can be confirmed again after a visit to the form: the cache keeps it, and the key is new.
  Made-up quotes can be confirmed like real ones. A late answer replaces the quote of newer inputs. Inputs
  entered before the KYC status is known block the form until they change.
- `useWebsocketNotifications` adds all stored messages again whenever one arrives.
- `transactionsSlice` documents `append: true` for further pages; its reducer always replaces the list.
- Nothing in the repository serves the portal's `/quotes`, `/conversions` and `/api/banks`: there the made-up data is
  all there is.

## 7. How the project grew, and what could follow

`Accounting`, `Journal`, `Posting`; `Custody`, `Chains`, `Bridge`; `Redemption`; `Onboarding`; then `Replica`,
`Session`, `Channel`, `Lists`, `Feed` and `Conversion`: from where the money is outwards, each with its proofs.

What would be worth adding, in this order:

1. Deposit, withdraw, transfer and FX conversion with their amounts, fees and quotes, in the vocabulary of
   `Redemption`.
2. The resumption of sagas, once the code has one: `InFlight` and the replay of `Execute` on each status.
