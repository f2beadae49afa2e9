----------------------------- MODULE Redemption -----------------------------
(***************************************************************************)
(* The peg: how much USD-X the journal says is issued and how much fiat    *)
(* backs it, from issuance to redemption (internal/ledger: flows.go, fx.go,*)
(* posting.go), and the job that compares the two with each other and with *)
(* the chains (internal/reconciliation/job.go).                            *)
(*                                                                         *)
(* One user; one call of the posting engine is one step (Posting shows     *)
(* that the engine implements an atomic journal).  USD is counted in cents *)
(* and USD-X in its own smallest unit, and the only link between the two   *)
(* currencies is the arithmetic of Convert.  Leg C needs a bank snapshot,  *)
(* which nothing in the repository records, so a check ends after Leg B.   *)
(***************************************************************************)
EXTENDS Integers, Sequences, FiniteSetsExt

CONSTANTS
  Issuances,      \* issuances a client may ask for
  Redemptions,    \* redemptions a client may ask for
  Gross,          \* cents, per issuance
  Amount,         \* USD-X units, per redemption
  IssuanceBps,    \* the fee schedule, in basis points
  RedemptionBps,
  Deposited,      \* the user's cents at the start
  Calls,          \* calls of ConfirmRedemption and of Reverse
  Task            \* per call: its op and the transaction it names

USDXDecimals == 6
PegDecimals == 2
BpsDenominator == 10000
Cent == 10^USDXDecimals \div 10^PegDecimals  \* USD-X units to the cent

Account == {"fiat", "reserve", "fees", "usdx", "suspense", "circulation"}

\* A transaction is what it posts, for whom; a contra names what it undoes.
Issue(i) == <<"issue", i>>
Deliver(i) == <<"deliver", i>>
Redeem(r) == <<"redeem", r>>
Settle(r) == <<"settle", r>>
Contra(e) == <<"reversal", e>>
Originals ==
  {<<f, i>> : f \in {"issue", "deliver"}, i \in Issuances}
    \union {<<f, r>> : f \in {"redeem", "settle"}, r \in Redemptions}
Entries == Originals \union {Contra(e) : e \in Originals}

ASSUME RedemptionInputs ==
  /\ Gross \in [Issuances -> Nat \ {0}] /\ Amount \in [Redemptions -> Nat \ {0}]
  /\ IssuanceBps \in 0..BpsDenominator /\ RedemptionBps \in 0..BpsDenominator
  /\ Deposited \in Nat
  /\ Task \in [Calls ->
       [op : {"confirm"}, of : {Redeem(r) : r \in Redemptions}]
         \union [op : {"reverse"}, of : Originals]]

VARIABLES
  journal,   \* [key, entry]: transactions and their idempotency keys
  balance,   \* per account, on its normal side
  reversed,  \* transactions whose reversed flag is set
  minted,    \* issuances whose tokens are on their chain
  burned,    \* redemptions whose tokens have been burned
  call,      \* progress of each call
  seen,      \* what the check under way has read so far
  moved      \* has anything it compares moved since its first read?

books == <<journal, balance>>
chains == <<minted, burned>>
check == <<seen, moved>>
vars == <<books, reversed, chains, call, check>>

Init ==
  /\ journal = {}
  /\ balance = [a \in Account |-> IF a = "fiat" THEN Deposited ELSE 0]
  /\ reversed = {}
  /\ minted = {} /\ burned = {}
  /\ call = [c \in Calls |-> "idle"]
  /\ seen = << >> /\ moved = FALSE

(***************************************************************************)
(* Amounts                                                                 *)
(***************************************************************************)
\* Mutant of Convert: rounds half a unit up.
ConvertRounded(amount, from, to) == (amount * 10^to + 10^from \div 2) \div 10^from

\* At the peg the rate cancels; what is left is a change of scale, truncated.
Convert(amount, from, to) == (amount * 10^to) \div 10^from

ApplyBps(amount, bps) == (amount * bps) \div BpsDenominator

IssueFee(i) == ApplyBps(Gross[i], IssuanceBps)
Backing(i) == Gross[i] - IssueFee(i)
Issued(i) == Convert(Backing(i), PegDecimals, USDXDecimals)
Released(r) == Convert(Amount[r], USDXDecimals, PegDecimals)
RedeemFee(r) == ApplyBps(Released(r), RedemptionBps)

\* What each transaction adds to the accounts; all six are named each time.
Lines(fiat, reserve, fees, usdx, suspense, circulation) ==
  [fiat |-> fiat, reserve |-> reserve, fees |-> fees,
   usdx |-> usdx, suspense |-> suspense, circulation |-> circulation]

Effect(e) ==
  LET x == e[2] IN
  CASE e[1] = "issue" -> Lines(-Gross[x], Backing(x), IssueFee(x), 0, Issued(x), Issued(x))
    [] e[1] = "deliver" -> Lines(0, 0, 0, Issued(x), -Issued(x), 0)
    [] e[1] = "redeem" -> Lines(0, 0, 0, -Amount[x], Amount[x], 0)
    [] e[1] = "settle" -> Lines(Released(x) - RedeemFee(x), -Released(x), RedeemFee(x),
                                0, -Amount[x], -Amount[x])

\* A reversal flips every line of the original.
Moves(e, a) == IF e[1] = "reversal" THEN -Effect(e[2])[a] ELSE Effect(e)[a]

(***************************************************************************)
(* The journal                                                             *)
(***************************************************************************)
Keys == {t.key : t \in journal}
Posted(e) == \E t \in journal : t.entry = e
Disturb == moved' = (seen # << >>) /\ UNCHANGED seen

\* Post: a key that is taken is answered with the transaction already there.
Post(key, e) ==
  IF key \in Keys THEN UNCHANGED <<books, check>>
  ELSE /\ journal' = journal \union {[key |-> key, entry |-> e]}
       /\ balance' = [a \in Account |-> balance[a] + Moves(e, a)]
       /\ Disturb

\* Issue guards the fiat wallet and refuses an amount the fee eats up.
PostIssue(i) ==
  /\ ~Posted(Issue(i))
  /\ Issued(i) > 0 /\ balance["fiat"] >= Gross[i]
  /\ Post(Issue(i), Issue(i))
  /\ UNCHANGED <<reversed, chains, call>>

\* The saga's part, which Bridge models: the mint, then ConfirmUSDXCredit.
Mint(i) ==
  /\ Posted(Issue(i)) /\ i \notin minted
  /\ minted' = minted \union {i} /\ Disturb
  /\ UNCHANGED <<books, reversed, burned, call>>

PostDeliver(i) ==
  /\ i \in minted /\ ~Posted(Deliver(i))
  /\ Post(Deliver(i), Deliver(i))
  /\ UNCHANGED <<reversed, chains, call>>

PostRedeem(r) ==
  /\ ~Posted(Redeem(r))
  /\ balance["usdx"] >= Amount[r]
  /\ Post(Redeem(r), Redeem(r))
  /\ UNCHANGED <<reversed, chains, call>>

\* Nothing in the repository burns a redemption's tokens or watches for it:
\* ConfirmRedemption is told a transaction hash and believes it.
Burn(r) ==
  /\ Posted(Redeem(r)) /\ r \notin burned
  /\ burned' = burned \union {r} /\ Disturb
  /\ UNCHANGED <<books, reversed, minted, call>>

(***************************************************************************)
(* ConfirmRedemption and Reverse                                           *)
(***************************************************************************)
At(c, pc) == call' = [call EXCEPT ![c] = pc]
Of(c) == Task[c].of
Confirms(c) == Task[c].op = "confirm"

\* Mutant of Refused: a confirmation does not look at the reversed flag.
ConfirmedAnyway(c) == ~Confirms(c) /\ Of(c) \in reversed

\* REDEMPTION_REVERSED; a reversal found done is answered as it stands.
Refused(c) == Of(c) \in reversed

\* Mutant of SettlementKey: every confirmation is a request of its own.
KeyPerCall(c) == <<"confirm", c>>

\* The one caller, the HTTP handler, sends no key of its own.
SettlementKey(c) == Settle(Of(c)[2])

\* Both begin with FindTransaction.
Read(c) ==
  /\ call[c] = "idle" /\ Posted(Of(c))
  /\ At(c, IF Refused(c) THEN "over" ELSE "read")
  /\ UNCHANGED <<books, reversed, chains, check>>

\* AMOUNT_TOO_SMALL if the fee leaves nothing, otherwise the settlement.
PostSettlement(c) ==
  LET r == Of(c)[2] IN
  /\ Confirms(c) /\ call[c] = "read"
  /\ IF Released(r) - RedeemFee(r) > 0
     THEN Post(SettlementKey(c), Settle(r))
     ELSE UNCHANGED <<books, check>>
  /\ At(c, "over")
  /\ UNCHANGED <<reversed, chains>>

\* With the key Reverse makes itself; Posting has the callers' own keys.
PostContra(c) ==
  /\ ~Confirms(c) /\ call[c] = "read"
  /\ Post(Contra(Of(c)), Contra(Of(c)))
  /\ At(c, "posted")
  /\ UNCHANGED <<reversed, chains>>

\* The flag is a statement of its own, after the posting has committed.
Flag(c) ==
  /\ call[c] = "posted"
  /\ reversed' = reversed \union {Of(c)}
  /\ At(c, "over")
  /\ UNCHANGED <<books, chains, check>>

\* The server goes down, or the connection to the database does.
Abandon(c) ==
  /\ call[c] \in {"read", "posted"}
  /\ At(c, "over")
  /\ UNCHANGED <<books, reversed, chains, check>>

(***************************************************************************)
(* Reconciliation                                                          *)
(***************************************************************************)
\* Mutant of ExpectedOnChain: what is in transit is added, not taken away.
ExpectedOnChainAdded(issued, inTransit) == issued + inTransit

\* Leg A: what is owed to a mint or a burn is not on a chain.
ExpectedOnChain(issued, inTransit) == issued - inTransit

\* What the two TotalSupply calls add up to.
Units == [i \in Issuances |-> Issued(i)]
Supply == SumFunctionOnSet(Units, minted) - SumFunctionOnSet(Amount, burned)

\* CheckOnce reads one after the other, in this order, in no transaction.
Sources == <<"supply", "circulation", "suspense", "reserve">>
Current(source) == IF source = "supply" THEN Supply ELSE balance[source]
Complete == Len(seen) = Len(Sources)

LegA == seen[1] = ExpectedOnChain(seen[2], seen[3])
LegB == Convert(seen[4], PegDecimals, USDXDecimals) = seen[2]

ReadNext ==
  /\ ~Complete
  /\ seen' = Append(seen, Current(Sources[Len(seen) + 1]))
  /\ UNCHANGED <<books, reversed, chains, call, moved>>

\* RunForever's next tick; an error on the way ends a check early.
Tick ==
  /\ seen # << >>
  /\ seen' = << >> /\ moved' = FALSE
  /\ UNCHANGED <<books, reversed, chains, call>>

Next ==
  \/ \E i \in Issuances : PostIssue(i) \/ Mint(i) \/ PostDeliver(i)
  \/ \E r \in Redemptions : PostRedeem(r) \/ Burn(r)
  \/ \E c \in Calls :
       Read(c) \/ PostSettlement(c) \/ PostContra(c) \/ Flag(c) \/ Abandon(c)
  \/ ReadNext \/ Tick

Spec == Init /\ [][Next]_vars

(***************************************************************************)
(* Properties                                                              *)
(***************************************************************************)
\* Every variable holds a value of its kind: the types of the journal's rows,
\* of a call's progress and of a check's readings.
TypeOK ==
  /\ journal \subseteq [key : Entries, entry : Entries]
  /\ balance \in [Account -> Int]
  /\ reversed \subseteq Originals
  /\ minted \subseteq Issuances /\ burned \subseteq Redemptions
  /\ call \in [Calls -> {"idle", "read", "posted", "over"}]
  /\ seen \in Seq(Int) /\ Len(seen) <= Len(Sources)
  /\ moved \in BOOLEAN

Live(e) == Posted(e) /\ ~Posted(Contra(e))
Settled == {r \in Redemptions : Posted(Settle(r))}
StillSettled == {r \in Settled : ~Posted(Contra(Settle(r)))}
Surplus ==
  Convert(balance["reserve"], PegDecimals, USDXDecimals) - balance["circulation"]

\* USD-X is never issued without fiat behind it, and the fiat left over is what
\* truncation kept back: less than a cent for each settlement in force.  The
\* supply and its backing live in two currencies which no double entry ties
\* together; only the amounts that Issue, ConfirmRedemption and Reverse compute
\* do (flows.go:264, 416, posting.go:416).
BackedWithinRounding ==
  Surplus >= 0 /\ Surplus <= (Cent - 1) * Cardinality(StillSettled)

\* However often, and however concurrently, a redemption is confirmed, its fiat
\* is released once (flows.go:433) - not even again once the settlement has been
\* reversed.
PaidAtMostOnce ==
  \A r \in Redemptions :
    \A t, u \in journal : t.entry = Settle(r) /\ u.entry = Settle(r) => t = u

\* The reversal of r is on record, its fiat has not been released, and whoever
\* read the flag before it was set has ended.
CalledOff(r) ==
  /\ Redeem(r) \in reversed /\ r \notin Settled
  /\ \A c \in Calls : Confirms(c) /\ Of(c) = Redeem(r) => call[c] # "read"

\* A redemption that has been called off stays so, whoever confirms it from then
\* on: its fiat is never released beside the USD-X given back (flows.go:375).
ReversedStaysUnpaid ==
  [][\A r \in Redemptions : CalledOff(r) => CalledOff(r)']_vars

\* What the journal says has been credited, and taken back.
Delivered == {i \in Issuances : Live(Deliver(i))}
Redeemed == {r \in Redemptions : Live(Redeem(r))}

\* Tokens and journal legitimately differ between a mint and its credit and
\* between a redemption and its burn, and they part for good when a leg whose
\* tokens have moved, or will, is reversed.
LooseEnd == minted # Delivered \/ burned # Redeemed

\* Leg A is raised for a reason: a check during which nothing moved finds the
\* chains and the journal in agreement when no issuance awaits its credit and no
\* redemption its burn (job.go:78), whatever has been settled or reversed before.
LegAExplained == Complete /\ ~moved /\ ~LooseEnd => LegA

\* Leg A is raised for nothing but a break of "an invariant that should never break
\* on its own" (job.go:142): no operator has reversed a thing, and a check is still
\* alarmed by a mint that awaits its credit, or by what moves between two reads.
LegANeverBreaks == Complete /\ reversed = {} => LegA

\* The peg as Leg B has it: an undisturbed check finds the reserve worth exactly
\* the USD-X issued (job.go:93).  Redeeming part of a cent breaks it for good,
\* see the run peg_rounding.
PegExact == Complete /\ ~moved => LegB

(***************************************************************************)
(* The invariant behind them; see RedemptionProofs.                        *)
(***************************************************************************)
\* Every transaction of the journal is filed under its own name.
KeyNamesEntry == \A t \in journal : t = [key |-> t.entry, entry |-> t.entry]

\* A contra follows what it undoes, which its caller has read.
ContrasFollow ==
  /\ \A e \in Originals : Posted(Contra(e)) => Posted(e)
  /\ \A c \in Calls : call[c] \in {"read", "posted"} => Posted(Of(c))

\* What the journal expects on the chains was credited and not redeemed.
InTransitExplained ==
  balance["circulation"] - balance["suspense"] =
    SumFunctionOnSet(Units, Delivered) - SumFunctionOnSet(Amount, Redeemed)

\* What truncation keeps of r's cents.
Dust == [r \in Redemptions |-> Amount[r] - Convert(Released(r), PegDecimals, USDXDecimals)]

\* The surplus is what truncation kept of the settlements in force.
SurplusIsDust == Surplus = SumFunctionOnSet(Dust, StillSettled)

\* An undisturbed check has read what is still so.
SeenIsCurrent == ~moved => \A k \in 1..Len(seen) : seen[k] = Current(Sources[k])

IInv ==
  /\ TypeOK /\ KeyNamesEntry /\ ContrasFollow /\ SeenIsCurrent
  /\ \A S \in {minted, burned, Delivered, Redeemed, StillSettled} : IsFiniteSet(S)
  /\ InTransitExplained /\ SurplusIsDust
=============================================================================
