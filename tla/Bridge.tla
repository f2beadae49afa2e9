------------------------------- MODULE Bridge -------------------------------
(***************************************************************************)
(* The bridge of the core ledger: the handlers that open an issuance or a  *)
(* cross-chain transfer (internal/api/handlers.go), the saga that drives   *)
(* it (internal/bridge/saga.go), the legs it posts (internal/ledger) and   *)
(* the two chains it drives (Chains).                                      *)
(*                                                                         *)
(* One call of the posting engine is one step here: Posting shows that the *)
(* engine implements an atomic journal.  Amounts are in USD-X units and    *)
(* the issuance fee is zero; a balance is the opening one plus the legs    *)
(* posted, as the journal derives it.                                      *)
(***************************************************************************)
EXTENDS Chains

CONSTANTS
  Transfers,     \* correlation ids
  Order,         \* per transfer: kind, source, target, amount
  Wallets,       \* fiat and USD-X wallets
  ChainOf,       \* wallets.chain, "" for a fiat wallet
  AddressOf,     \* wallets.address
  Opening,       \* balance of each wallet at the start
  Attempts,      \* how often a client may send each request
  Mishaps,       \* what may go wrong in this instance
  MaxMishaps     \* how many times in all

ASSUME OrdersWellFormed ==
  /\ \A t \in Transfers :
       /\ Order[t].kind \in {"ISSUE", "BRIDGE"} /\ Order[t].amount \in Nat \ {0}
       /\ Order[t].source \in Wallets /\ Order[t].target \in Wallets
       /\ ChainOf[Order[t].target] \in Chain
       /\ Order[t].kind = "BRIDGE" =>
            /\ ChainOf[Order[t].source] \in Chain
            /\ ChainOf[Order[t].source] # ChainOf[Order[t].target]
  /\ \A w \in Wallets : AddressOf[w] \in Addresses /\ Opening[w] \in Nat
  /\ Attempts \in [Transfers -> Nat] /\ MaxMishaps \in Nat
  /\ IsFiniteSet(Transfers) /\ IsFiniteSet(Wallets)

\* The wallets that hold USD-X.  The journal and the chains start in agreement.
Tokened == {w \in Wallets : ChainOf[w] # ""}
InitialCirculation == SumFunctionOnSet(Opening, Tokened)

ASSUME BooksAgreeAtStart == TokensIn(OpeningTokens) = InitialCirculation

VARIABLES
  row,      \* bridge_transfers.status, "NONE" before the row exists
  posted,   \* <<leg, transfer>>: the legs in the journal
  wallet,   \* wallets.status, which the account follows
  handler,  \* per <<transfer, attempt>>: the progress of an HTTP request
  saga,     \* per transfer: the next step of its goroutine
  hash,     \* per transfer: txHash, the transaction last submitted
  left      \* mishaps still to come

ledgerVars == <<row, posted, wallet>>
bridgeVars == <<row, posted, wallet, handler, saga, hash, left>>
vars == <<bridgeVars, chainVars>>

Requests == UNION {{t} \X (1..Attempts[t]) : t \in Transfers}
TransferStatus ==
  {"PENDING", "BURN_CONFIRMED", "MINT_SUBMITTED", "COMPLETED", "FAILED", "COMPENSATED"}
Leg == {"reserve", "deliver", "undo", "compensate"}

\* The states a saga only leaves by UpdateStatus, with the status they write
\* and the step that follows.
Writes ==
  [burnConfirmed |-> <<"BURN_CONFIRMED", "mint">>,
   mintSubmitted |-> <<"MINT_SUBMITTED", "waitMint">>,
   complete      |-> <<"COMPLETED", "over">>,
   failed        |-> <<"FAILED", "over">>,
   compensated   |-> <<"COMPENSATED", "over">>]

Running ==
  DOMAIN Writes \union
  {"load", "out", "burn", "waitBurn", "mint", "waitMint", "deliver", "undo", "refund", "compensate"}

Init ==
  /\ ChainInit
  /\ row = [t \in Transfers |-> "NONE"]
  /\ posted = {}
  /\ wallet = [w \in Wallets |-> "ACTIVE"]
  /\ handler = [r \in Requests |-> "idle"]
  /\ saga = [t \in Transfers |-> "none"]
  /\ hash = [t \in Transfers |-> 0]
  /\ left = MaxMishaps

Spend(m) == m \in Mishaps /\ left > 0 /\ left' = left - 1

IsBridge(t) == Order[t].kind = "BRIDGE"
Has(leg, t) == <<leg, t>> \in posted

(***************************************************************************)
(* The journal                                                             *)
(***************************************************************************)
Amount == [t \in Transfers |-> Order[t].amount]
Sum(T) == SumFunctionOnSet(Amount, T)

Balance(w) ==
  Opening[w]
    - Sum({t \in Transfers : Order[t].source = w /\ Has("reserve", t)})
    + Sum({t \in Transfers : Order[t].source = w /\ Has("undo", t)})
    + Sum({t \in Transfers : Order[t].source = w /\ Has("compensate", t)})
    + Sum({t \in Transfers : Order[t].target = w /\ Has("deliver", t)})

\* GLBridgeSuspense
InTransit ==
  Sum({t \in Transfers : Has("reserve", t)}) - Sum({t \in Transfers : Has("deliver", t)})
    - Sum({t \in Transfers : Has("undo", t)}) - Sum({t \in Transfers : Has("compensate", t)})

\* GLCirculation
Circulation ==
  InitialCirculation
    + Sum({t \in Transfers : ~IsBridge(t) /\ Has("reserve", t)})
    - Sum({t \in Transfers : ~IsBridge(t) /\ Has("undo", t)})

\* Mutant of Postable: the source wallet's funds are not checked.
PostableUnfunded(leg, t) ==
  CASE leg = "reserve" -> wallet[Order[t].source] = "ACTIVE"
    [] leg = "deliver" -> wallet[Order[t].target] = "ACTIVE"
    [] leg = "compensate" -> wallet[Order[t].source] # "CLOSED"
    [] leg = "undo" -> Has("reserve", t) /\ wallet[Order[t].source] # "CLOSED"

\* Whether the posting engine takes the leg.  Issue and BridgeOut guard the
\* source wallet's funds; a compensation and a reversal reach a frozen wallet.
Postable(leg, t) ==
  CASE leg = "reserve" ->
         wallet[Order[t].source] = "ACTIVE" /\ Balance(Order[t].source) >= Order[t].amount
    [] leg = "deliver" -> wallet[Order[t].target] = "ACTIVE"
    [] leg = "compensate" -> wallet[Order[t].source] # "CLOSED"
    [] leg = "undo" -> Has("reserve", t) /\ wallet[Order[t].source] # "CLOSED"

\* A leg whose key is taken is answered with the transaction already there.
Post(leg, t) ==
  /\ Has(leg, t) \/ Postable(leg, t)
  /\ posted' = posted \union {<<leg, t>>}
  /\ UNCHANGED <<row, wallet, left>>

\* Post returns an error: the engine refuses, or the connection is lost, before
\* the commit or after it.
Refuse(leg, t) ==
  \/ ~Has(leg, t) /\ ~Postable(leg, t) /\ UNCHANGED <<ledgerVars, left>>
  \/ Spend("fault") /\ UNCHANGED ledgerVars
  \/ Spend("fault") /\ posted' = posted \union {<<leg, t>>} /\ Postable(leg, t)
       /\ UNCHANGED <<row, wallet>>

(***************************************************************************)
(* The HTTP handlers                                                       *)
(***************************************************************************)
At(r, pc) == handler' = [handler EXCEPT ![r] = pc]
Goto(t, pc) == saga' = [saga EXCEPT ![t] = pc]
Status(t, s) == row' = [row EXCEPT ![t] = s]

\* issue posts the issuance before the row is inserted; bridgeTransfer only
\* checks its input.
Issue(r) ==
  /\ handler[r] = "idle" /\ ~IsBridge(r[1])
  /\ \/ Post("reserve", r[1]) /\ At(r, "insert")
     \/ Refuse("reserve", r[1]) /\ At(r, "over")
  /\ UNCHANGED <<saga, hash, chainVars>>

BridgeTransfer(r) ==
  /\ handler[r] = "idle" /\ IsBridge(r[1])
  /\ At(r, "insert")
  /\ UNCHANGED <<ledgerVars, left, saga, hash, chainVars>>

\* Mutant of InsertRow: the row is replaced and a second saga started.
Upsert(r) ==
  /\ handler[r] = "insert" /\ At(r, "over")
  /\ Status(r[1], "PENDING") /\ Goto(r[1], "load")
  /\ UNCHANGED <<posted, wallet, hash, left, chainVars>>

\* correlation_id is the primary key: a second attempt gets an error here, and
\* no saga of its own.
InsertRow(r) ==
  /\ handler[r] = "insert" /\ At(r, "over")
  /\ IF row[r[1]] = "NONE"
     THEN Status(r[1], "PENDING") /\ Goto(r[1], "load")
     ELSE UNCHANGED <<row, saga>>
  /\ UNCHANGED <<posted, wallet, hash, left, chainVars>>

InsertFails(r) ==
  /\ handler[r] = "insert" /\ At(r, "over")
  /\ Spend("fault")
  /\ UNCHANGED <<ledgerVars, saga, hash, chainVars>>

(***************************************************************************)
(* Saga.Execute                                                            *)
(***************************************************************************)
SourceChain(t) == ChainOf[Order[t].source]
TargetChain(t) == ChainOf[Order[t].target]

\* BridgeTransfer.UserAddress: both handlers store the destination's address,
\* and the saga uses it on either chain.
UserAddress(t) == AddressOf[Order[t].target]

\* bridge_transfers.target_chain admits the two chains only, so the router
\* always finds a client and fail() is not reached from here.
Load(t) ==
  /\ saga[t] = "load"
  /\ Goto(t, IF IsBridge(t) /\ row[t] = "PENDING" THEN "out" ELSE "mint")
  /\ UNCHANGED <<ledgerVars, left, handler, hash, chainVars>>

LoadFails(t) ==
  /\ saga[t] = "load" /\ Goto(t, "over")
  /\ Spend("fault")
  /\ UNCHANGED <<ledgerVars, handler, hash, chainVars>>

\* The step after a call of the ledger, accepted or not.
Books(t, pc, leg, yes, no) ==
  /\ saga[t] = pc
  /\ \/ Post(leg, t) /\ Goto(t, yes)
     \/ Refuse(leg, t) /\ Goto(t, no)
  /\ UNCHANGED <<handler, hash, chainVars>>

\* Mutants of Credit: a refused credit is taken for a failed mint, or not seen;
\* and of Undo: the status is forgotten.
CreditUndone(t) == Books(t, "deliver", "deliver", "complete", IF IsBridge(t) THEN "refund" ELSE "undo")
CreditAnyway(t) == Books(t, "deliver", "deliver", "complete", "complete")
UndoOnly(t) == Books(t, "undo", "undo", "over", "over")

BridgeOut(t) == Books(t, "out", "reserve", "burn", "failed")
Credit(t) == Books(t, "deliver", "deliver", "complete", "over")
\* unwindBurnLeg and reverseIssuance go on to FAILED whatever Reverse says.
Undo(t) == Books(t, "undo", "undo", "failed", "failed")
BridgeCompensate(t) == Books(t, "compensate", "compensate", "compensated", "over")

\* A call of BridgeMint or BridgeBurn.  An error may come back although the
\* transaction went out: the reply is lost.
Submit(t, pc, tx, yes, no) ==
  /\ saga[t] = pc
  /\ \/ /\ Accepts(tx) /\ Submitted(tx)
        /\ hash' = [hash EXCEPT ![t] = Len(sent')]
        /\ Goto(t, yes) /\ UNCHANGED left
     \/ ~Accepts(tx) /\ Goto(t, no) /\ UNCHANGED <<chainVars, hash, left>>
     \/ Spend("refusal") /\ Goto(t, no) /\ UNCHANGED <<chainVars, hash>>
     \/ Spend("lostReply") /\ Accepts(tx) /\ Submitted(tx) /\ Goto(t, no) /\ UNCHANGED hash
  /\ UNCHANGED <<ledgerVars, handler>>

Tx(t, chain, kind, tag) ==
  [chain |-> chain, kind |-> kind, id |-> <<t, tag>>,
   address |-> UserAddress(t), amount |-> Order[t].amount]

\* Mutants: the journal is compensated without a re-mint; a burn that could not
\* be sent is not unwound; the burn is not waited for.
MintNotRefunded(t) == IF IsBridge(t) THEN "compensate" ELSE "undo"
BurnNotUnwound(t) ==
  /\ Submit(t, "burn", Tx(t, SourceChain(t), "burn", "own"), "waitBurn", "failed")
BurnNotAwaited(t) ==
  /\ saga[t] = "waitBurn" /\ Goto(t, "burnConfirmed")
  /\ UNCHANGED <<ledgerVars, left, handler, hash, chainVars>>

MintFailed(t) == IF IsBridge(t) THEN "refund" ELSE "undo"

\* (One conjunct each, so that TLC's workers do not share the transaction.)
BridgeBurn(t) ==
  /\ Submit(t, "burn", Tx(t, SourceChain(t), "burn", "own"), "waitBurn", "undo")
BridgeMint(t) ==
  /\ Submit(t, "mint", Tx(t, TargetChain(t), "mint", "own"), "mintSubmitted", MintFailed(t))
\* compensate(): nothing waits for this one to become final.
Refund(t) ==
  /\ Submit(t, "refund", Tx(t, SourceChain(t), "mint", "compensation"), "compensate", "failed")

\* Mutant of Wait: no timeout.
WaitWithoutTimeout(t, pc, yes, no) ==
  /\ saga[t] = pc
  /\ \/ fate[hash[t]] = "done" /\ Goto(t, yes) /\ UNCHANGED left
     \/ fate[hash[t]] = "reverted" /\ Goto(t, no) /\ UNCHANGED left
     \/ fate[hash[t]] \in {"pending", "done"} /\ Spend("early") /\ Goto(t, no)
  /\ UNCHANGED <<ledgerVars, handler, hash, chainVars>>

\* WaitForFinality answers no for a transaction that failed or was dropped, and
\* may give up early: five minutes are over, or a receipt cannot be fetched.
Wait(t, pc, yes, no) ==
  /\ saga[t] = pc
  /\ \/ fate[hash[t]] = "done" /\ Goto(t, yes) /\ UNCHANGED left
     \/ fate[hash[t]] \in {"reverted", "dropped"} /\ Goto(t, no) /\ UNCHANGED left
     \/ fate[hash[t]] \in {"pending", "done"} /\ Spend("early") /\ Goto(t, no)
  /\ UNCHANGED <<ledgerVars, handler, hash, chainVars>>

WaitBurn(t) == Wait(t, "waitBurn", "burnConfirmed", "undo")
WaitMint(t) == Wait(t, "waitMint", "deliver", MintFailed(t))

\* UpdateStatus; its error is ignored.
UpdateStatus(t) ==
  /\ saga[t] \in DOMAIN Writes
  /\ \/ Status(t, Writes[saga[t]][1]) /\ UNCHANGED left
     \/ Spend("fault") /\ UNCHANGED row
  /\ Goto(t, Writes[saga[t]][2])
  /\ UNCHANGED <<posted, wallet, handler, hash, chainVars>>

SagaStep(t) ==
  \/ Load(t) \/ LoadFails(t) \/ BridgeOut(t) \/ BridgeBurn(t) \/ WaitBurn(t)
  \/ BridgeMint(t) \/ WaitMint(t) \/ Credit(t) \/ Undo(t) \/ Refund(t)
  \/ BridgeCompensate(t) \/ UpdateStatus(t)

(***************************************************************************)
(* The rest of the world                                                   *)
(***************************************************************************)
\* The process stops: goroutines and requests are gone, and nothing resumes
\* them (main.go never calls InFlight).
Crash ==
  /\ Spend("crash")
  /\ saga' = [t \in Transfers |-> IF saga[t] \in Running THEN "dead" ELSE saga[t]]
  /\ handler' = [r \in Requests |-> IF handler[r] = "insert" THEN "over" ELSE handler[r]]
  /\ UNCHANGED <<ledgerVars, hash, chainVars>>

\* What the comment on Execute says is safe: calling it again after a crash for
\* a transfer that InFlight returns.
Resume(t) ==
  /\ Spend("resume") /\ saga[t] = "dead"
  /\ row[t] \in {"PENDING", "BURN_CONFIRMED", "MINT_SUBMITTED"}
  /\ Goto(t, "load")
  /\ UNCHANGED <<ledgerVars, handler, hash, chainVars>>

\* reverseTransaction on the issuance or the burn leg of a transfer.
OperatorReverses(t) ==
  /\ Spend("operator") /\ Postable("undo", t) /\ ~Has("undo", t)
  /\ posted' = posted \union {<<"undo", t>>}
  /\ UNCHANGED <<row, wallet, handler, saga, hash, chainVars>>

SetWalletStatus(w, s) ==
  /\ Spend("wallet") /\ wallet[w] # s
  /\ s = "CLOSED" => Balance(w) = 0
  /\ wallet' = [wallet EXCEPT ![w] = s]
  /\ UNCHANGED <<row, posted, handler, saga, hash, chainVars>>

ChainAdmin ==
  /\ Spend("admin")
  /\ TogglePause \/ \E a \in Addresses : ToggleBlacklist(a)
  /\ UNCHANGED <<ledgerVars, handler, saga, hash>>

Holder ==
  /\ \/ \E a \in Addresses : ApproveDelegate(a) /\ UNCHANGED left
     \/ \E c \in Chain, a, b \in Addresses : HolderMoves(c, a, b) /\ Spend("holder")
  /\ UNCHANGED <<ledgerVars, handler, saga, hash>>

Mined(h) ==
  /\ Execute(h) \/ Revert(h)
  /\ UNCHANGED bridgeVars

Dropped(h) ==
  /\ Drop(h) /\ Spend("drop")
  /\ UNCHANGED <<ledgerVars, handler, saga, hash>>

Next ==
  \/ \E r \in Requests : Issue(r) \/ BridgeTransfer(r) \/ InsertRow(r) \/ InsertFails(r)
  \/ \E t \in Transfers : SagaStep(t) \/ Resume(t) \/ OperatorReverses(t)
  \/ \E h \in 1..Len(sent) : Mined(h) \/ Dropped(h)
  \/ \E w \in Wallets, s \in {"ACTIVE", "FROZEN", "CLOSED"} : SetWalletStatus(w, s)
  \/ Crash \/ ChainAdmin \/ Holder

Spec == Init /\ [][Next]_vars

\* Goroutines are scheduled, HTTP requests carry on, and a pending transaction
\* is mined sooner or later.  At most three are sent per transfer and run.
Sendable == 1..(3 * Cardinality(Transfers))
FairSpec ==
  /\ Spec
  /\ \A t \in Transfers : WF_vars(SagaStep(t))
  /\ \A r \in Requests : WF_vars(InsertRow(r) \/ InsertFails(r))
  /\ \A h \in Sendable : WF_vars(h <= Len(sent) /\ Mined(h))

(***************************************************************************)
(* Properties                                                              *)
(***************************************************************************)
TypeOK ==
  /\ row \in [Transfers -> TransferStatus \union {"NONE"}]
  /\ posted \subseteq Leg \X Transfers
  /\ wallet \in [Wallets -> {"ACTIVE", "FROZEN", "CLOSED"}]
  /\ handler \in [Requests -> {"idle", "insert", "over"}]
  /\ saga \in [Transfers -> Running \union {"none", "over", "dead"}]
  /\ hash \in [Transfers -> 0..Len(sent)]
  /\ left \in 0..MaxMishaps
  /\ tokens \in [Chain -> [Addresses -> Nat]] /\ delegated \in [Addresses -> Nat]
  /\ paused \in BOOLEAN /\ blacklisted \subseteq Addresses
  /\ sent \in Seq([chain : Chain, kind : Kind, id : Transfers \X {"own", "compensation"},
                    address : Addresses, amount : Nat])
  /\ fate \in Seq(Fates) /\ Len(fate) = Len(sent)

Burned(t) == Ran("burn", <<t, "own">>)
Minted(t) == Ran("mint", <<t, "own">>)
Reminted(t) == Ran("mint", <<t, "compensation">>)

\* What has been sent for a transfer; void is what can no longer take effect.
Sends(kind, id) == {h \in 1..Len(sent) : sent[h].kind = kind /\ sent[h].id = id}
Burns(t) == Sends("burn", <<t, "own">>)
Mints(t) == Sends("mint", <<t, "own">>)
Refunds(t) == Sends("mint", <<t, "compensation">>)
Void(S) == \A h \in S : fate[h] \in {"reverted", "dropped"}

\* Where a transfer stands, in the journal and on the chains; "twice" when it
\* has ended both ways.
InLedger(t) ==
  LET back == Has("undo", t) \/ Has("compensate", t) IN
  IF (Has("deliver", t) /\ back) \/ (Has("undo", t) /\ Has("compensate", t)) THEN "twice"
  ELSE IF Has("deliver", t) THEN "target"
  ELSE IF back THEN "source"
  ELSE IF Has("reserve", t) THEN "transit" ELSE "none"

OnChain(t) ==
  IF Minted(t) /\ Reminted(t) THEN "twice"
  ELSE IF Minted(t) THEN "minted"
  ELSE IF Reminted(t) THEN "reminted"
  ELSE IF Burned(t) THEN "burned" ELSE "untouched"

C == INSTANCE Custody WITH
       Bridged <- {t \in Transfers : IsBridge(t)},
       ledger <- [t \in Transfers |-> InLedger(t)],
       chain <- [t \in Transfers |-> OnChain(t)]

\* The ledger leg comes before the chain leg it stands for, tokens are burned
\* before they are minted anew, and each transfer ends once, at the target or
\* back at the source (saga.go:33).
ImplementsCustody == C!CSpec

\* Tokens come from executed mints and go with executed burns, each of the
\* amount of its transfer.
TokensAccounted ==
  Supply = InitialCirculation + Sum({t \in Transfers : Minted(t)})
             + Sum({t \in Transfers : Reminted(t)}) - Sum({t \in Transfers : Burned(t)})

\* Tokens in circulation never exceed what the journal has issued: nothing is
\* minted without an issuance or a burn behind it, whatever fails between.
NothingDoubled == Supply <= Circulation

\* The compensating mints that can still take effect, and those that no longer
\* can: nobody waits for a re-mint, and nobody sends it again.
BeingRefunded == {t \in Transfers :
  ~Reminted(t) /\ \E h \in Refunds(t) : fate[h] = "pending"}
RefundLost == {t \in Transfers : Refunds(t) # {} /\ Void(Refunds(t))}

\* The USD-X the journal owes its users is on a chain, or comes with a re-mint
\* that is pending: no user is "left with funds burned nowhere" (saga.go:186).
Owed == SumFunctionOnSet([w \in Tokened |-> Balance(w)], Tokened)
OwedIsOnChain == Owed <= Supply + Sum(BeingRefunded)

\* However many things fail, a lost re-mint is the only way in which the journal
\* comes to owe tokens that do not exist and are not coming (saga.go:192).
OnlyRefundsLose == Owed <= Supply + Sum(BeingRefunded) + Sum(RefundLost)

\* Transfers of one balance that race each other never spend it twice
\* (saga.go:67).
NoOverdraft == \A w \in Wallets : Balance(w) >= 0

\* What a row tells whoever polls it is so, in the journal and on both chains.
\* COMPLETED: the tokens exist and are credited.  FAILED: nothing was burned or
\* minted, and what was reserved is back.  COMPENSATED: the tokens are burned,
\* the credit is back, and they are re-minted on the source (models.go:424), or
\* the re-mint is on its way.
StatusIsTrue == \A t \in Transfers :
  /\ row[t] = "COMPLETED" => Minted(t) /\ InLedger(t) = "target"
  /\ row[t] = "FAILED" => OnChain(t) = "untouched" /\ InLedger(t) \in {"none", "source"}
  /\ row[t] = "COMPENSATED" =>
       /\ Burned(t) /\ ~Minted(t) /\ InLedger(t) = "source"
       /\ Reminted(t) \/ t \in BeingRefunded

\* The part of it that stands through any number of failures: tokens reported as
\* delivered are there, and a transfer reported as not delivered never will be,
\* since no mint of it can still take effect and no credit has been given.
StatusStands == \A t \in Transfers :
  /\ row[t] = "COMPLETED" => Minted(t) /\ InLedger(t) = "target"
  /\ row[t] \in {"FAILED", "COMPENSATED"} => Void(Mints(t)) /\ InLedger(t) # "target"

\* A row never leaves a final status, so a poller may stop there.
FinalStatus == [][\A t \in Transfers :
  row[t] \in {"COMPLETED", "FAILED", "COMPENSATED"} => row'[t] = row[t]]_row

\* Every saga comes to an end, whatever the chains answer and whatever they do not.
EverySagaEnds == \A t \in Transfers : saga[t] \in Running ~> saga[t] = "over"

\* A transfer that has been accepted reaches a final status: InFlight exists to
\* resume those that a crash has stopped (repository.go:332).
EveryTransferEnds == \A t \in Transfers :
  row[t] = "PENDING" ~> row[t] \in {"COMPLETED", "FAILED", "COMPENSATED"}

\* What is parked in suspense leaves it again.
NothingStranded == \A t \in Transfers :
  Has("reserve", t) ~> InLedger(t) \in {"target", "source"}

\* Whatever is submitted again, no correlation id is minted or burned twice.
ReplayGuarded == \A h, i \in 1..Len(sent) :
  /\ h # i /\ fate[h] = "done" /\ fate[i] = "done"
  /\ sent[h].kind = sent[i].kind
  => sent[h].id # sent[i].id

\* Leg A of the reconciliation, which alerts of an invariant that should never
\* break on its own (job.go:141).
LegA == Supply = Circulation - InTransit

\* Once nothing is under way the books and the chains agree: the saga has seen
\* each failure through.
AtRest ==
  /\ \A t \in Transfers : saga[t] \notin Running
  /\ \A r \in Requests : handler[r] # "insert"
  /\ \A h \in 1..Len(sent) : fate[h] # "pending"
ReconciledAtRest == AtRest => LegA

\* A user's own transfer between the chains is carried out (handlers.go:457).
MovesDeliver == \A t \in Transfers : row[t] = "PENDING" ~> row[t] = "COMPLETED"

(***************************************************************************)
(* The inductive invariant                                                 *)
(*                                                                         *)
(* Each transfer is in one of a few phases, which speak of its legs and of *)
(* its transactions only.  A phase survives whatever the chains and the    *)
(* other transfers do; the saga's next step says which phases it may be    *)
(* in, and a final status says so for good.                                *)
(***************************************************************************)
Legs(t) == {leg \in Leg : Has(leg, t)}
Single(S) == \A h, i \in S : h = i
Final(S) == \E h \in S : fate[h] = "done"

\* The tokens to be minted on the target have been burned on the source.
Paid(t) ==
  /\ Refunds(t) = {}
  /\ IsBridge(t) => Single(Burns(t)) /\ Final(Burns(t))
  /\ ~IsBridge(t) => Burns(t) = {}

Unstarted(t) ==
  Burns(t) = {} /\ Mints(t) = {} /\ Refunds(t) = {} /\ Legs(t) \subseteq {"reserve"}
Burning(t) ==
  /\ IsBridge(t) /\ Single(Burns(t)) /\ Mints(t) = {} /\ Refunds(t) = {}
  /\ Legs(t) = {"reserve"}
Unburned(t) ==
  /\ IsBridge(t) /\ Void(Burns(t)) /\ Mints(t) = {} /\ Refunds(t) = {}
  /\ Legs(t) \in {{"reserve"}, {"reserve", "undo"}}
Minting(t) == Paid(t) /\ Single(Mints(t)) /\ Legs(t) = {"reserve"}
Unminted(t) ==
  /\ ~IsBridge(t) /\ Burns(t) = {} /\ Void(Mints(t)) /\ Refunds(t) = {}
  /\ Legs(t) \in {{"reserve"}, {"reserve", "undo"}}
Credited(t) ==
  /\ Paid(t) /\ Single(Mints(t)) /\ Final(Mints(t))
  /\ Legs(t) = {"reserve", "deliver"}
Refunding(t) ==
  /\ IsBridge(t) /\ Single(Burns(t)) /\ Final(Burns(t)) /\ Void(Mints(t))
  /\ Single(Refunds(t))
  /\ Legs(t) \in {{"reserve"}, {"reserve", "compensate"}}

InSomePhase(t) ==
  \/ Unstarted(t) \/ Burning(t) \/ Unburned(t) \/ Minting(t)
  \/ Unminted(t) \/ Credited(t) \/ Refunding(t)

\* What FAILED may mean.
Abandoned(t) ==
  Unstarted(t) \/ Unburned(t) \/ Unminted(t) \/ (Refunding(t) /\ Legs(t) = {"reserve"})

SagaInPhase(t) ==
  /\ InSomePhase(t)
  /\ saga[t] = "none" => Unstarted(t) /\ (IsBridge(t) => Legs(t) = {})
  /\ saga[t] = "load" => Unstarted(t) /\ (IsBridge(t) => Legs(t) = {} /\ row[t] = "PENDING")
  /\ saga[t] = "out" => Unstarted(t) /\ IsBridge(t) /\ Legs(t) = {}
  /\ saga[t] = "burn" => Unstarted(t) /\ IsBridge(t) /\ Legs(t) = {"reserve"}
  /\ saga[t] = "waitBurn" => Burning(t) /\ hash[t] \in Burns(t)
  /\ saga[t] \in {"burnConfirmed", "mint"} => Minting(t) /\ Mints(t) = {}
  /\ saga[t] \in {"mintSubmitted", "waitMint"} => Minting(t) /\ hash[t] \in Mints(t)
  /\ saga[t] = "deliver" => Minting(t) /\ Final(Mints(t))
  /\ saga[t] = "complete" => Credited(t)
  /\ saga[t] = "undo" => (Unburned(t) \/ Unminted(t)) /\ Legs(t) = {"reserve"}
  /\ saga[t] = "refund" => Refunding(t) /\ Refunds(t) = {} /\ Legs(t) = {"reserve"}
  /\ saga[t] = "compensate" => Refunding(t) /\ Legs(t) = {"reserve"}
  /\ saga[t] = "compensated" => Refunding(t) /\ "compensate" \in Legs(t)
  /\ saga[t] = "failed" => Abandoned(t)

StatusInPhase(t) ==
  /\ row[t] = "NONE" <=> saga[t] = "none"
  /\ row[t] \in {"COMPLETED", "FAILED", "COMPENSATED"} => saga[t] = "over"
  /\ row[t] = "COMPLETED" => Credited(t)
  /\ row[t] = "FAILED" => Abandoned(t)
  /\ row[t] = "COMPENSATED" => Refunding(t) /\ "compensate" \in Legs(t)

\* An issuance is posted before its row is inserted.
IssuedFirst ==
  /\ \A r \in Requests : handler[r] = "insert" /\ ~IsBridge(r[1]) => "reserve" \in Legs(r[1])
  /\ \A t \in Transfers : ~IsBridge(t) /\ saga[t] # "none" => "reserve" \in Legs(t)

\* A re-mint is sent before the journal gives the money back.
RemintedFirst == \A t \in Transfers :
  saga[t] = "compensate" \/ "compensate" \in Legs(t) => Refunds(t) # {}

IInv ==
  /\ TypeOK
  /\ IssuedFirst
  /\ \A t \in Transfers : SagaInPhase(t) /\ StatusInPhase(t)

(***************************************************************************)
(* One failure.  Where wallets stay open, the database answers and nothing *)
(* goes wrong twice, a refund always follows a mint that is lost, and      *)
(* nothing stops the refund.                                               *)
(***************************************************************************)
OneFailure ==
  Mishaps \subseteq {"drop", "refusal", "admin", "holder"} /\ MaxMishaps <= 1 /\ Addresses \subseteq Base58

\* A marker on a chain is that of an executed transaction.
MarkersEarned == \A c \in Chain : \A m \in processed[c] :
  \E h \in 1..Len(sent) : fate[h] = "done" /\ sent[h].chain = c /\ Marker(sent[h]) = m

Troubled == paused \/ blacklisted # {}
Lost(S) == \E h \in S : fate[h] \in {"reverted", "dropped"}
MintLost(t) == saga[t] = "refund" \/ Refunds(t) # {} \/ Lost(Mints(t))

\* The failure has happened once a mint is lost; were it trouble on Ethereum,
\* the refund is Solana's.
FailedOnce ==
  /\ \A w \in Wallets : wallet[w] = "ACTIVE"
  /\ left # 0 => ~Troubled
  /\ \A t \in Transfers : MintLost(t) => left = 0 /\ (Troubled => TargetChain(t) = "ETHEREUM")
  /\ \A t \in Transfers : ~Lost(Refunds(t))

\* How a saga ends that has nothing left to do.
Ended(t) ==
  \/ Credited(t)
  \/ Unstarted(t) /\ Legs(t) = {}
  \/ (Unburned(t) \/ Unminted(t)) /\ "undo" \in Legs(t)
  \/ Refunding(t) /\ "compensate" \in Legs(t)
SeenOut == \A t \in Transfers :
  /\ saga[t] # "dead"
  /\ saga[t] \in {"failed", "over"} => Ended(t)

=============================================================================
