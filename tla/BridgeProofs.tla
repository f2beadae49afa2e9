---------------------------- MODULE BridgeProofs ----------------------------
(***************************************************************************)
(* Proofs about Bridge, for any number of transfers, wallets and mishaps.  *)
(*                                                                         *)
(* The argument: each transfer is always in one of the phases of IInv.     *)
(* Phases only speak of the transfer's own legs and transactions, and only *)
(* ask of a transaction what stays true once it is; so a step of anybody   *)
(* else leaves the phase alone (PhasesSurvive, OthersKept), and what is    *)
(* left is one lemma per step of the transfer's own saga.                  *)
(*                                                                         *)
(* The results that tie the journal to the chains assume that a negative   *)
(* answer is true: no wait is given up early, no reply of a chain is lost, *)
(* no saga is run twice and no operator reverses its legs (NoIsNo).  The   *)
(* run saga_mint_early shows that they fail otherwise.  That no            *)
(* correlation id takes effect twice, that every token is accounted for    *)
(* and that no wallet is overdrawn needs no assumption: these rest on the  *)
(* contracts' markers and on the guard of the posting engine alone.        *)
(*                                                                         *)
(* A balance and a supply are sums over finite sets; a step moves one      *)
(* transfer from one set to another (SumJoins), and two figures are        *)
(* compared transfer by transfer (Weigh), where the phase says all.        *)
(*                                                                         *)
(* The last part is about one failure (OneFailure of Bridge): no re-mint   *)
(* is then lost, and each saga ends with nothing left to do, so that what  *)
(* is owed is on a chain, a final status tells the whole truth and the     *)
(* books agree at rest.                                                    *)
(***************************************************************************)
EXTENDS Bridge, Sums, SequenceTheorems, TLAPS

\* The assumption on what may go wrong.
NoIsNo == Mishaps \intersect {"early", "lostReply", "resume", "operator"} = {}

Tag == {"own", "compensation"}
Txs == [chain : Chain, kind : Kind, id : Transfers \X Tag, address : Addresses, amount : Nat]

\* What the code sends is a transaction of the right kind.
LEMMA TxTyped ==
  ASSUME NEW t \in Transfers, NEW c \in Chain, NEW kind \in Kind, NEW tag \in Tag
  PROVE  /\ Tx(t, c, kind, tag) \in Txs
         /\ Tx(t, c, kind, tag).kind = kind
         /\ Tx(t, c, kind, tag).id = <<t, tag>>
BY OrdersWellFormed DEF Tx, Txs, UserAddress

\* A new transaction joins the sends of its own kind and id, as pending.
LEMMA NewSend ==
  ASSUME TypeOK, NEW tx \in Txs, Submitted(tx)
  PROVE  /\ Len(sent') = Len(sent) + 1 /\ Len(fate') = Len(sent')
         /\ sent' \in Seq(Txs) /\ fate' \in Seq(Fates)
         /\ \A h \in 1..Len(sent) : sent'[h] = sent[h] /\ fate'[h] = fate[h]
         /\ sent'[Len(sent)+1] = tx /\ fate'[Len(sent)+1] = "pending"
<1>1. sent \in Seq(Txs) /\ fate \in Seq(Fates) /\ "pending" \in Fates /\ Len(fate) = Len(sent)
  BY DEF TypeOK, Txs, Tag, Fates
<1>2. sent' = Append(sent, tx) /\ fate' = Append(fate, "pending")
  BY DEF Submitted
<1>3. /\ sent' \in Seq(Txs) /\ Len(sent') = Len(sent) + 1
      /\ \A h \in 1..Len(sent) : sent'[h] = sent[h]
      /\ sent'[Len(sent)+1] = tx
  BY <1>1, <1>2, AppendProperties
<1>4. /\ fate' \in Seq(Fates) /\ Len(fate') = Len(fate) + 1
      /\ \A h \in 1..Len(fate) : fate'[h] = fate[h]
      /\ fate'[Len(fate)+1] = "pending"
  BY <1>1, <1>2, AppendProperties
<1> QED
  BY <1>1, <1>3, <1>4

\* So the set of sends of every other kind and id is what it was.
LEMMA NewSends ==
  ASSUME TypeOK, NEW tx \in Txs, Submitted(tx), NEW kind, NEW id
  PROVE  Sends(kind, id)' = IF tx.kind = kind /\ tx.id = id
                            THEN Sends(kind, id) \union {Len(sent) + 1}
                            ELSE Sends(kind, id)
<1>1. Len(sent) \in Nat
  BY DEF TypeOK
<1> QED
  BY <1>1, NewSend DEF Sends

\* Mining decides a pending transaction and nothing else.
LEMMA Decided ==
  ASSUME TypeOK, NEW h \in 1..Len(sent), NEW f \in Fates, Fated(h, f)
  PROVE  /\ fate' \in Seq(Fates) /\ Len(fate') = Len(fate)
         /\ \A i \in 1..Len(sent) : i # h => fate'[i] = fate[i]
         /\ fate'[h] = f /\ fate[h] = "pending"
         /\ \A kind, id : Sends(kind, id)' = Sends(kind, id)
<1>1. fate \in Seq(Fates) /\ h \in 1..Len(fate) /\ fate' = [fate EXCEPT ![h] = f] /\ sent' = sent
  BY DEF TypeOK, Fated
<1>2. fate' \in Seq(Fates) /\ Len(fate') = Len(fate)
  BY <1>1
<1> QED
  BY <1>1, <1>2 DEF Fated, Sends, TypeOK

\* Nothing of the transfer itself changes, and nothing decided is undecided.
Quiet(u) ==
  /\ Burns(u)' = Burns(u) /\ Mints(u)' = Mints(u) /\ Refunds(u)' = Refunds(u)
  /\ Legs(u)' = Legs(u)
  /\ \A h \in 1..Len(sent) : fate[h] # "pending" => fate'[h] = fate[h]

\* A decided transaction stays decided.
LEMMA FinalSurvives ==
  ASSUME NEW S \in SUBSET (1..Len(sent)),
         \A h \in 1..Len(sent) : fate[h] # "pending" => fate'[h] = fate[h]
  PROVE  /\ Final(S) => Final(S)'
         /\ Void(S) => Void(S)'
BY DEF Final, Void

\* Every phase survives whatever leaves the transfer itself alone.
LEMMA PhasesSurvive ==
  ASSUME NEW u \in Transfers, Quiet(u)
  PROVE  /\ Unstarted(u) => Unstarted(u)'
         /\ Burning(u) => Burning(u)'
         /\ Unburned(u) => Unburned(u)'
         /\ Minting(u) => Minting(u)'
         /\ Unminted(u) => Unminted(u)'
         /\ Credited(u) => Credited(u)'
         /\ Refunding(u) => Refunding(u)'
         /\ Final(Mints(u)) => Final(Mints(u))'
<1>1. Burns(u) \subseteq 1..Len(sent) /\ Mints(u) \subseteq 1..Len(sent)
  BY DEF Burns, Mints, Sends
<1>2. /\ Final(Burns(u)) => Final(Burns(u))'
      /\ Void(Burns(u)) => Void(Burns(u))'
      /\ Final(Mints(u)) => Final(Mints(u))'
      /\ Void(Mints(u)) => Void(Mints(u))'
  BY <1>1 DEF Final, Void, Quiet
<1>3. /\ Single(Burns(u)) => Single(Burns(u))'
      /\ Single(Mints(u)) => Single(Mints(u))'
      /\ Single(Refunds(u)) => Single(Refunds(u))'
  BY DEF Single, Quiet
<1>4. IsBridge(u)' = IsBridge(u)
  BY DEF IsBridge
<1>5. Paid(u) => Paid(u)'
  BY <1>2, <1>3, <1>4 DEF Paid, Quiet
<1> QED
  BY <1>2, <1>3, <1>4, <1>5
  DEF Quiet, Unstarted, Burning, Unburned, Minting, Unminted, Credited, Refunding

\* A transfer that is left alone keeps its part of the invariant.
LEMMA OthersKept ==
  ASSUME NEW u \in Transfers, SagaInPhase(u), StatusInPhase(u), Quiet(u),
         saga'[u] = saga[u], row'[u] = row[u], hash'[u] = hash[u]
  PROVE  SagaInPhase(u)' /\ StatusInPhase(u)'
<1>1. IsBridge(u)' = IsBridge(u)
  BY DEF IsBridge
<1>2. /\ Burns(u)' = Burns(u) /\ Mints(u)' = Mints(u) /\ Refunds(u)' = Refunds(u)
      /\ Legs(u)' = Legs(u)
  BY DEF Quiet
<1>3. InSomePhase(u) => InSomePhase(u)'
  BY PhasesSurvive DEF InSomePhase
<1>4. Abandoned(u) => Abandoned(u)'
  BY PhasesSurvive, <1>2 DEF Abandoned
<1>5. SagaInPhase(u)'
  BY <1>1, <1>2, <1>3, <1>4, PhasesSurvive DEF SagaInPhase
<1>6. StatusInPhase(u)'
  BY <1>1, <1>2, <1>4, PhasesSurvive DEF StatusInPhase
<1> QED
  BY <1>5, <1>6

\* What a step leaves alone of every transfer but one.
Elsewhere(t) == \A u \in Transfers \ {t} :
  Quiet(u) /\ saga'[u] = saga[u] /\ row'[u] = row[u] /\ hash'[u] = hash[u]

\* When nothing is sent or decided, the phases read the same on the chains.
LEMMA StillChains ==
  ASSUME UNCHANGED <<sent, fate>>
  PROVE  \A u \in Transfers :
           /\ Burns(u)' = Burns(u) /\ Mints(u)' = Mints(u) /\ Refunds(u)' = Refunds(u)
           /\ IsBridge(u)' = IsBridge(u) /\ Paid(u)' = Paid(u)
           /\ Single(Burns(u))' = Single(Burns(u)) /\ Single(Mints(u))' = Single(Mints(u))
           /\ Single(Refunds(u))' = Single(Refunds(u))
           /\ Final(Burns(u))' = Final(Burns(u)) /\ Final(Mints(u))' = Final(Mints(u))
           /\ Void(Burns(u))' = Void(Burns(u)) /\ Void(Mints(u))' = Void(Mints(u))
BY DEF Burns, Mints, Refunds, Sends, IsBridge, Paid, Single, Final, Void

\* When nothing is posted, they read the same in the journal.
LEMMA StillLegs ==
  ASSUME posted' = posted
  PROVE  \A u \in Transfers : Legs(u)' = Legs(u)
BY DEF Legs, Has

\* A posting adds its leg to its own transfer.
LEMMA LegPosted ==
  ASSUME NEW leg \in Leg, NEW t \in Transfers, posted' = posted \union {<<leg, t>>}
  PROVE  /\ Legs(t)' = Legs(t) \union {leg}
         /\ \A u \in Transfers \ {t} : Legs(u)' = Legs(u)
BY DEF Legs, Has

\* A call of the ledger posts its leg or nothing, whatever it answers.
LEMMA LedgerCall ==
  ASSUME NEW t \in Transfers, NEW leg \in Leg, NEW pc, NEW yes, NEW no, TypeOK,
         Books(t, pc, leg, yes, no)
  PROVE  /\ saga[t] = pc
         /\ \/ saga' = [saga EXCEPT ![t] = yes] /\ Legs(t)' = Legs(t) \union {leg}
            \/ saga' = [saga EXCEPT ![t] = no] /\ Legs(t)' \in {Legs(t), Legs(t) \union {leg}}
         /\ \A u \in Transfers \ {t} : Legs(u)' = Legs(u)
         /\ UNCHANGED <<row, hash, sent, fate>>
<1>1. CASE Post(leg, t) /\ Goto(t, yes)
  BY <1>1, LegPosted DEF Books, Post, Goto, chainVars
<1>2. CASE Refuse(leg, t) /\ Goto(t, no)
  <2>1. posted' = posted \/ posted' = posted \union {<<leg, t>>}
    BY <1>2 DEF Refuse, ledgerVars
  <2>2. row' = row
    BY <1>2 DEF Refuse, ledgerVars
  <2> QED
    BY <1>2, <2>1, <2>2, LegPosted, StillLegs DEF Books, Goto, chainVars
<1> QED
  BY <1>1, <1>2 DEF Books

\* A call of the ledger concerns its own transfer only.
LEMMA BooksElsewhere ==
  ASSUME NEW t \in Transfers, TypeOK,
         \A u \in Transfers \ {t} : Legs(u)' = Legs(u) /\ saga'[u] = saga[u],
         UNCHANGED <<row, hash, sent, fate>>
  PROVE  Elsewhere(t)
BY StillChains DEF Elsewhere, Quiet

\* One lemma per step of the saga: the transfer ends in the phase that its next
\* step calls for, and the others are left alone.
LEMMA OutStep ==
  ASSUME NEW t \in Transfers, IInv, BridgeOut(t)
  PROVE  SagaInPhase(t)' /\ StatusInPhase(t)' /\ Elsewhere(t)
<1>1. /\ saga[t] = "out"
      /\ \/ saga' = [saga EXCEPT ![t] = "burn"] /\ Legs(t)' = Legs(t) \union {"reserve"}
         \/ /\ saga' = [saga EXCEPT ![t] = "failed"]
            /\ Legs(t)' \in {Legs(t), Legs(t) \union {"reserve"}}
      /\ \A u \in Transfers \ {t} : Legs(u)' = Legs(u)
      /\ UNCHANGED <<row, hash, sent, fate>>
  BY LedgerCall DEF BridgeOut, IInv, Leg
<1>2. saga \in [Transfers -> Running \union {"none", "over", "dead"}]
  BY DEF IInv, TypeOK
<1>3. Elsewhere(t)
  BY <1>1, <1>2, BooksElsewhere DEF IInv
<1>4. Unstarted(t) /\ IsBridge(t) /\ Legs(t) = {}
  BY <1>1 DEF IInv, SagaInPhase
<1>5. Unstarted(t)' /\ IsBridge(t)'
  BY <1>1, <1>4, StillChains DEF Unstarted, Minting, Credited, Unburned, Unminted, Refunding
<1>6. SagaInPhase(t)'
  BY <1>1, <1>2, <1>4, <1>5, StillChains DEF SagaInPhase, InSomePhase, Abandoned
<1>7. StatusInPhase(t)'
  BY <1>1, <1>2 DEF IInv, StatusInPhase
<1> QED
  BY <1>3, <1>6, <1>7

\* BridgeIn after a final mint: the transfer is credited, or left for good.
LEMMA CreditStep ==
  ASSUME NEW t \in Transfers, IInv, Credit(t)
  PROVE  SagaInPhase(t)' /\ StatusInPhase(t)' /\ Elsewhere(t)
<1>1. /\ saga[t] = "deliver"
      /\ \/ saga' = [saga EXCEPT ![t] = "complete"] /\ Legs(t)' = Legs(t) \union {"deliver"}
         \/ /\ saga' = [saga EXCEPT ![t] = "over"]
            /\ Legs(t)' \in {Legs(t), Legs(t) \union {"deliver"}}
      /\ \A u \in Transfers \ {t} : Legs(u)' = Legs(u)
      /\ UNCHANGED <<row, hash, sent, fate>>
  BY LedgerCall DEF Credit, IInv, Leg
<1>2. saga \in [Transfers -> Running \union {"none", "over", "dead"}]
  BY DEF IInv, TypeOK
<1>3. Elsewhere(t)
  BY <1>1, <1>2, BooksElsewhere DEF IInv
<1>4. Minting(t) /\ Final(Mints(t))
  BY <1>1 DEF IInv, SagaInPhase
<1>5. \/ saga'[t] = "over" /\ Minting(t)'
      \/ saga'[t] \in {"over", "complete"} /\ Credited(t)'
  <2>1. CASE Legs(t)' = Legs(t)
    BY <1>1, <1>2, <1>4, <2>1, StillChains DEF Minting
  <2>2. CASE Legs(t)' = Legs(t) \union {"deliver"}
    BY <1>1, <1>2, <1>4, <2>2, StillChains DEF Minting, Credited
  <2> QED
    BY <1>1, <2>1, <2>2
<1>6. SagaInPhase(t)'
  BY <1>5 DEF SagaInPhase, InSomePhase, Abandoned
<1>7. StatusInPhase(t)'
  BY <1>1, <1>2 DEF IInv, StatusInPhase
<1> QED
  BY <1>3, <1>6, <1>7

\* The reversal of the burn leg or of the issuance: nothing was minted.
LEMMA UndoStep ==
  ASSUME NEW t \in Transfers, IInv, Undo(t)
  PROVE  SagaInPhase(t)' /\ StatusInPhase(t)' /\ Elsewhere(t)
<1>1. /\ saga[t] = "undo"
      /\ \/ saga' = [saga EXCEPT ![t] = "failed"] /\ Legs(t)' = Legs(t) \union {"undo"}
         \/ /\ saga' = [saga EXCEPT ![t] = "failed"]
            /\ Legs(t)' \in {Legs(t), Legs(t) \union {"undo"}}
      /\ \A u \in Transfers \ {t} : Legs(u)' = Legs(u)
      /\ UNCHANGED <<row, hash, sent, fate>>
  BY LedgerCall DEF Undo, IInv, Leg
<1>2. saga \in [Transfers -> Running \union {"none", "over", "dead"}]
  BY DEF IInv, TypeOK
<1>3. Elsewhere(t)
  BY <1>1, <1>2, BooksElsewhere DEF IInv
<1>4. (Unburned(t) \/ Unminted(t)) /\ Legs(t) = {"reserve"}
  BY <1>1 DEF IInv, SagaInPhase
<1>5. Unburned(t)' \/ Unminted(t)'
  BY <1>1, <1>4, StillChains DEF Unstarted, Minting, Credited, Unburned, Unminted, Refunding
<1>6. SagaInPhase(t)'
  BY <1>1, <1>2, <1>4, <1>5, StillChains DEF SagaInPhase, InSomePhase, Abandoned
<1>7. StatusInPhase(t)'
  BY <1>1, <1>2 DEF IInv, StatusInPhase
<1> QED
  BY <1>3, <1>6, <1>7

\* The compensating entry follows a compensating mint.
LEMMA CompensateStep ==
  ASSUME NEW t \in Transfers, IInv, BridgeCompensate(t)
  PROVE  SagaInPhase(t)' /\ StatusInPhase(t)' /\ Elsewhere(t)
<1>1. /\ saga[t] = "compensate"
      /\ \/ saga' = [saga EXCEPT ![t] = "compensated"] /\ Legs(t)' = Legs(t) \union {"compensate"}
         \/ /\ saga' = [saga EXCEPT ![t] = "over"]
            /\ Legs(t)' \in {Legs(t), Legs(t) \union {"compensate"}}
      /\ \A u \in Transfers \ {t} : Legs(u)' = Legs(u)
      /\ UNCHANGED <<row, hash, sent, fate>>
  BY LedgerCall DEF BridgeCompensate, IInv, Leg
<1>2. saga \in [Transfers -> Running \union {"none", "over", "dead"}]
  BY DEF IInv, TypeOK
<1>3. Elsewhere(t)
  BY <1>1, <1>2, BooksElsewhere DEF IInv
<1>4. Refunding(t) /\ Legs(t) = {"reserve"}
  BY <1>1 DEF IInv, SagaInPhase
<1>5. Refunding(t)'
  BY <1>1, <1>4, StillChains DEF Unstarted, Minting, Credited, Unburned, Unminted, Refunding
<1>6. SagaInPhase(t)'
  BY <1>1, <1>2, <1>4, <1>5, StillChains DEF SagaInPhase, InSomePhase, Abandoned
<1>7. StatusInPhase(t)'
  BY <1>1, <1>2 DEF IInv, StatusInPhase
<1> QED
  BY <1>3, <1>6, <1>7

\* A call of a chain sends its transaction, or, when no means no, nothing.
LEMMA ChainCall ==
  ASSUME NEW t \in Transfers, NEW c \in Chain, NEW kind \in Kind, NEW tag \in Tag,
         NEW pc, NEW yes, NEW no, NoIsNo, TypeOK, Submit(t, pc, Tx(t, c, kind, tag), yes, no)
  PROVE  /\ saga[t] = pc
         /\ UNCHANGED <<row, posted>>
         /\ \/ /\ saga' = [saga EXCEPT ![t] = yes]
               /\ Submitted(Tx(t, c, kind, tag))
               /\ hash' = [hash EXCEPT ![t] = Len(sent) + 1]
            \/ saga' = [saga EXCEPT ![t] = no] /\ UNCHANGED <<sent, fate, hash>>
<1>1. ~Spend("lostReply")
  BY DEF NoIsNo, Spend
<1> DEFINE tx == Tx(t, c, kind, tag)
<1>2. Submitted(tx) => Len(sent') = Len(sent) + 1
  BY TxTyped, NewSend
<1> HIDE DEF tx
<1>3. Submit(t, pc, tx, yes, no)
  BY DEF tx
<1>4. QED
  <2>1. /\ saga[t] = pc
        /\ UNCHANGED <<row, posted>>
        /\ \/ /\ saga' = [saga EXCEPT ![t] = yes]
              /\ Submitted(tx)
              /\ hash' = [hash EXCEPT ![t] = Len(sent) + 1]
           \/ saga' = [saga EXCEPT ![t] = no] /\ UNCHANGED <<sent, fate, hash>>
    BY <1>1, <1>2, <1>3 DEF Submit, Goto, ledgerVars, chainVars
  <2> QED
    BY <2>1 DEF tx

\* What a transfer sends is its own.
LEMMA OwnSend ==
  ASSUME NEW t \in Transfers, NEW c \in Chain, NEW kind \in Kind, NEW tag \in Tag,
         TypeOK, Submitted(Tx(t, c, kind, tag)), posted' = posted
  PROVE  /\ \A u \in Transfers \ {t} : Quiet(u)
         /\ Legs(t)' = Legs(t)
         /\ Burns(t)' = IF kind = "burn" /\ tag = "own"
                        THEN Burns(t) \union {Len(sent) + 1} ELSE Burns(t)
         /\ Mints(t)' = IF kind = "mint" /\ tag = "own"
                        THEN Mints(t) \union {Len(sent) + 1} ELSE Mints(t)
         /\ Refunds(t)' = IF kind = "mint" /\ tag = "compensation"
                          THEN Refunds(t) \union {Len(sent) + 1} ELSE Refunds(t)
         /\ \A h \in 1..Len(sent) : fate'[h] = fate[h]
<1> DEFINE tx == Tx(t, c, kind, tag)
<1>1. tx \in Txs /\ tx.kind = kind /\ tx.id = <<t, tag>>
  BY TxTyped
<1>2. Submitted(tx)
  OBVIOUS
<1> HIDE DEF tx
<1>3. \A k, id : Sends(k, id)' = IF kind = k /\ <<t, tag>> = id
                                THEN Sends(k, id) \union {Len(sent) + 1} ELSE Sends(k, id)
  BY <1>1, <1>2, NewSends
<1>4. \A h \in 1..Len(sent) : fate'[h] = fate[h]
  BY <1>1, <1>2, NewSend
<1> QED
  BY <1>3, <1>4, StillLegs DEF Quiet, Burns, Mints, Refunds

\* A new transaction decides no other.
LEMMA SendStill ==
  ASSUME NEW t \in Transfers, TypeOK, \A h \in 1..Len(sent) : fate'[h] = fate[h],
         NEW S \in SUBSET (1..Len(sent))
  PROVE  Final(S)' = Final(S) /\ Void(S)' = Void(S)
BY DEF Final, Void

\* A call of a chain concerns its own transfer only.
LEMMA SubmitElsewhere ==
  ASSUME NEW t \in Transfers, TypeOK, UNCHANGED row,
         \A u \in Transfers \ {t} : Quiet(u),
         NEW pc, saga' = [saga EXCEPT ![t] = pc],
         NEW n, hash' = [hash EXCEPT ![t] = n]
  PROVE  Elsewhere(t)
BY DEF Elsewhere, TypeOK

\* BridgeBurn: the amount is in suspense when the burn is sent.
LEMMA BurnStep ==
  ASSUME NEW t \in Transfers, NoIsNo, IInv, BridgeBurn(t)
  PROVE  SagaInPhase(t)' /\ StatusInPhase(t)' /\ Elsewhere(t)
<1>1. TypeOK /\ SagaInPhase(t) /\ StatusInPhase(t)
  BY DEF IInv
<1>2. saga[t] = "burn"
  BY DEF BridgeBurn, Submit
<1>3. Unstarted(t) /\ IsBridge(t) /\ Legs(t) = {"reserve"}
  BY <1>1, <1>2 DEF SagaInPhase
<1>4. SourceChain(t) \in Chain /\ "burn" \in Kind /\ "own" \in Tag
  BY <1>3, OrdersWellFormed DEF SourceChain, TargetChain, IsBridge, Kind, Tag, Refunding, Minting
<1>5. /\ UNCHANGED <<row, posted>>
      /\ \/ /\ saga' = [saga EXCEPT ![t] = "waitBurn"]
            /\ Submitted(Tx(t, SourceChain(t), "burn", "own"))
            /\ hash' = [hash EXCEPT ![t] = Len(sent) + 1]
         \/ saga' = [saga EXCEPT ![t] = "undo"] /\ UNCHANGED <<sent, fate, hash>>
  BY <1>1, <1>4, ChainCall DEF BridgeBurn
<1>6. saga \in [Transfers -> Running \union {"none", "over", "dead"}] /\ hash \in [Transfers -> 0..Len(sent)]
  BY <1>1 DEF TypeOK
<1>7. CASE Submitted(Tx(t, SourceChain(t), "burn", "own")) /\ saga' = [saga EXCEPT ![t] = "waitBurn"]
             /\ hash' = [hash EXCEPT ![t] = Len(sent) + 1]
  <2>1. /\ \A u \in Transfers \ {t} : Quiet(u)
        /\ Legs(t)' = Legs(t)
        /\ Burns(t)' = Burns(t) \union {Len(sent) + 1}
        /\ Mints(t)' = Mints(t) /\ Refunds(t)' = Refunds(t)
        /\ \A h \in 1..Len(sent) : fate'[h] = fate[h]
    BY <1>1, <1>4, <1>5, <1>7, OwnSend
  <2>2. Elsewhere(t)
    BY <1>1, <1>5, <1>7, <2>1, SubmitElsewhere
  <2>3. Burning(t)' /\ Len(sent) + 1 \in Burns(t)'
    BY <1>3, <2>1 DEF Burning, Unstarted, Single, IsBridge
  <2>4. saga'[t] = "waitBurn" /\ hash'[t] = Len(sent) + 1
    BY <1>6, <1>7
  <2>5. SagaInPhase(t)'
    BY <2>1, <2>3, <2>4 DEF SagaInPhase, InSomePhase
  <2>6. StatusInPhase(t)'
    BY <1>1, <1>2, <1>5, <2>4 DEF StatusInPhase
  <2> QED
    BY <2>2, <2>5, <2>6
<1>8. CASE saga' = [saga EXCEPT ![t] = "undo"] /\ UNCHANGED <<sent, fate, hash>>
  <2>1. \A u \in Transfers : Legs(u)' = Legs(u)
    BY <1>5, StillLegs
  <2>2. Elsewhere(t)
    BY <1>1, <1>5, <1>6, <1>8, <2>1, BooksElsewhere
  <2>3. saga'[t] = "undo"
    BY <1>6, <1>8
  <2>4. Unburned(t)' /\ Legs(t)' = {"reserve"}
    BY <1>3, <1>8, <2>1, StillChains DEF Unburned, Unstarted, Void
  <2>5. SagaInPhase(t)'
    BY <2>1, <2>3, <2>4, StillChains, <1>8, <1>3 DEF SagaInPhase, InSomePhase, Abandoned, MintFailed
  <2>6. StatusInPhase(t)'
    BY <1>1, <1>2, <1>5, <2>3 DEF StatusInPhase, MintFailed
  <2> QED
    BY <2>2, <2>5, <2>6
<1> QED
  BY <1>5, <1>7, <1>8

\* BridgeMint: what is minted has been burned, or issued, and only once.
LEMMA MintStep ==
  ASSUME NEW t \in Transfers, NoIsNo, IInv, BridgeMint(t)
  PROVE  SagaInPhase(t)' /\ StatusInPhase(t)' /\ Elsewhere(t)
<1>1. TypeOK /\ SagaInPhase(t) /\ StatusInPhase(t)
  BY DEF IInv
<1>2. saga[t] = "mint"
  BY DEF BridgeMint, Submit
<1>3. Minting(t) /\ Mints(t) = {}
  BY <1>1, <1>2 DEF SagaInPhase
<1>4. TargetChain(t) \in Chain /\ "mint" \in Kind /\ "own" \in Tag
  BY <1>3, OrdersWellFormed DEF SourceChain, TargetChain, IsBridge, Kind, Tag, Refunding, Minting
<1>5. /\ UNCHANGED <<row, posted>>
      /\ \/ /\ saga' = [saga EXCEPT ![t] = "mintSubmitted"]
            /\ Submitted(Tx(t, TargetChain(t), "mint", "own"))
            /\ hash' = [hash EXCEPT ![t] = Len(sent) + 1]
         \/ saga' = [saga EXCEPT ![t] = MintFailed(t)] /\ UNCHANGED <<sent, fate, hash>>
  BY <1>1, <1>4, ChainCall DEF BridgeMint
<1>6. saga \in [Transfers -> Running \union {"none", "over", "dead"}] /\ hash \in [Transfers -> 0..Len(sent)]
  BY <1>1 DEF TypeOK
<1>7. CASE Submitted(Tx(t, TargetChain(t), "mint", "own")) /\ saga' = [saga EXCEPT ![t] = "mintSubmitted"]
             /\ hash' = [hash EXCEPT ![t] = Len(sent) + 1]
  <2>1. /\ \A u \in Transfers \ {t} : Quiet(u)
        /\ Legs(t)' = Legs(t)
        /\ Mints(t)' = Mints(t) \union {Len(sent) + 1}
        /\ Burns(t)' = Burns(t) /\ Refunds(t)' = Refunds(t)
        /\ \A h \in 1..Len(sent) : fate'[h] = fate[h]
    BY <1>1, <1>4, <1>5, <1>7, OwnSend
  <2>2. Elsewhere(t)
    BY <1>1, <1>5, <1>7, <2>1, SubmitElsewhere
  <2>3. Minting(t)' /\ Len(sent) + 1 \in Mints(t)'
    <3>1. Burns(t) \subseteq 1..Len(sent)
      BY DEF Burns, Sends
    <3>2. Final(Burns(t))' = Final(Burns(t))
      BY <2>1, <3>1 DEF Final
    <3> QED
      BY <1>3, <2>1, <3>2 DEF Minting, Paid, Single, IsBridge
  <2>4. saga'[t] = "mintSubmitted" /\ hash'[t] = Len(sent) + 1
    BY <1>6, <1>7
  <2>5. SagaInPhase(t)'
    BY <2>1, <2>3, <2>4 DEF SagaInPhase, InSomePhase
  <2>6. StatusInPhase(t)'
    BY <1>1, <1>2, <1>5, <2>4 DEF StatusInPhase
  <2> QED
    BY <2>2, <2>5, <2>6
<1>8. CASE saga' = [saga EXCEPT ![t] = MintFailed(t)] /\ UNCHANGED <<sent, fate, hash>>
  <2>1. \A u \in Transfers : Legs(u)' = Legs(u)
    BY <1>5, StillLegs
  <2>2. Elsewhere(t)
    BY <1>1, <1>5, <1>6, <1>8, <2>1, BooksElsewhere
  <2>3. saga'[t] = MintFailed(t)
    BY <1>6, <1>8
  <2>4. Legs(t)' = {"reserve"} /\ IF IsBridge(t) THEN Refunding(t)' /\ Refunds(t)' = {} ELSE Unminted(t)'
    BY <1>3, <1>8, <2>1, StillChains DEF Minting, Paid, Refunding, Unminted, Void, Single
  <2>5. SagaInPhase(t)'
    BY <2>1, <2>3, <2>4, StillChains, <1>8, <1>3 DEF SagaInPhase, InSomePhase, Abandoned, MintFailed
  <2>6. StatusInPhase(t)'
    BY <1>1, <1>2, <1>5, <2>3 DEF StatusInPhase, MintFailed
  <2> QED
    BY <2>2, <2>5, <2>6
<1> QED
  BY <1>5, <1>7, <1>8

\* compensate(): the source is minted anew only if the target was not.
LEMMA RefundStep ==
  ASSUME NEW t \in Transfers, NoIsNo, IInv, Refund(t)
  PROVE  SagaInPhase(t)' /\ StatusInPhase(t)' /\ Elsewhere(t)
<1>1. TypeOK /\ SagaInPhase(t) /\ StatusInPhase(t)
  BY DEF IInv
<1>2. saga[t] = "refund"
  BY DEF Refund, Submit
<1>3. Refunding(t) /\ Refunds(t) = {} /\ Legs(t) = {"reserve"}
  BY <1>1, <1>2 DEF SagaInPhase
<1>4. SourceChain(t) \in Chain /\ "mint" \in Kind /\ "compensation" \in Tag
  BY <1>3, OrdersWellFormed DEF SourceChain, TargetChain, IsBridge, Kind, Tag, Refunding, Minting
<1>5. /\ UNCHANGED <<row, posted>>
      /\ \/ /\ saga' = [saga EXCEPT ![t] = "compensate"]
            /\ Submitted(Tx(t, SourceChain(t), "mint", "compensation"))
            /\ hash' = [hash EXCEPT ![t] = Len(sent) + 1]
         \/ saga' = [saga EXCEPT ![t] = "failed"] /\ UNCHANGED <<sent, fate, hash>>
  BY <1>1, <1>4, ChainCall DEF Refund
<1>6. saga \in [Transfers -> Running \union {"none", "over", "dead"}] /\ hash \in [Transfers -> 0..Len(sent)]
  BY <1>1 DEF TypeOK
<1>7. CASE Submitted(Tx(t, SourceChain(t), "mint", "compensation")) /\ saga' = [saga EXCEPT ![t] = "compensate"]
             /\ hash' = [hash EXCEPT ![t] = Len(sent) + 1]
  <2>1. /\ \A u \in Transfers \ {t} : Quiet(u)
        /\ Legs(t)' = Legs(t)
        /\ Refunds(t)' = Refunds(t) \union {Len(sent) + 1}
        /\ Burns(t)' = Burns(t) /\ Mints(t)' = Mints(t)
        /\ \A h \in 1..Len(sent) : fate'[h] = fate[h]
    BY <1>1, <1>4, <1>5, <1>7, OwnSend
  <2>2. Elsewhere(t)
    BY <1>1, <1>5, <1>7, <2>1, SubmitElsewhere
  <2>3. Refunding(t)' /\ Legs(t)' = {"reserve"}
    <3>1. Burns(t) \subseteq 1..Len(sent) /\ Mints(t) \subseteq 1..Len(sent)
      BY DEF Burns, Mints, Sends
    <3>2. Final(Burns(t))' = Final(Burns(t)) /\ (Void(Mints(t)) => Void(Mints(t))')
      BY <2>1, <3>1 DEF Final, Void
    <3> QED
      BY <1>3, <2>1, <3>2 DEF Refunding, Single, IsBridge
  <2>4. saga'[t] = "compensate" /\ hash'[t] = Len(sent) + 1
    BY <1>6, <1>7
  <2>5. SagaInPhase(t)'
    BY <2>1, <2>3, <2>4 DEF SagaInPhase, InSomePhase
  <2>6. StatusInPhase(t)'
    BY <1>1, <1>2, <1>5, <2>4 DEF StatusInPhase
  <2> QED
    BY <2>2, <2>5, <2>6
<1>8. CASE saga' = [saga EXCEPT ![t] = "failed"] /\ UNCHANGED <<sent, fate, hash>>
  <2>1. \A u \in Transfers : Legs(u)' = Legs(u)
    BY <1>5, StillLegs
  <2>2. Elsewhere(t)
    BY <1>1, <1>5, <1>6, <1>8, <2>1, BooksElsewhere
  <2>3. saga'[t] = "failed"
    BY <1>6, <1>8
  <2>4. Refunding(t)' /\ Legs(t)' = {"reserve"}
    BY <1>3, <1>8, <2>1, StillChains DEF Refunding
  <2>5. SagaInPhase(t)'
    BY <2>1, <2>3, <2>4, StillChains, <1>8, <1>3 DEF SagaInPhase, InSomePhase, Abandoned, MintFailed
  <2>6. StatusInPhase(t)'
    BY <1>1, <1>2, <1>5, <2>3 DEF StatusInPhase, MintFailed
  <2> QED
    BY <2>2, <2>5, <2>6
<1> QED
  BY <1>5, <1>7, <1>8

\* The answer about the burn decides between the mint and the reversal.
LEMMA WaitBurnStep ==
  ASSUME NEW t \in Transfers, NoIsNo, IInv, WaitBurn(t)
  PROVE  SagaInPhase(t)' /\ StatusInPhase(t)' /\ Elsewhere(t)
<1>1. TypeOK /\ SagaInPhase(t) /\ StatusInPhase(t)
  BY DEF IInv
<1>2. /\ saga[t] = "waitBurn"
      /\ UNCHANGED <<row, posted, hash, sent, fate>>
      /\ \/ fate[hash[t]] = "done" /\ saga' = [saga EXCEPT ![t] = "burnConfirmed"]
         \/ fate[hash[t]] \in {"reverted", "dropped"} /\ saga' = [saga EXCEPT ![t] = "undo"]
  BY DEF WaitBurn, Wait, Goto, NoIsNo, Spend, ledgerVars, chainVars
<1>3. Burning(t) /\ hash[t] \in Burns(t)
  BY <1>1, <1>2 DEF SagaInPhase
<1>4. saga \in [Transfers -> Running \union {"none", "over", "dead"}]
  BY <1>1 DEF TypeOK
<1>5. \A u \in Transfers : Legs(u)' = Legs(u)
  BY <1>2, StillLegs
<1>6. Elsewhere(t)
  BY <1>1, <1>2, <1>4, <1>5, BooksElsewhere
<1>7. CASE fate[hash[t]] = "done" /\ saga' = [saga EXCEPT ![t] = "burnConfirmed"]
  <2>1. Final(Burns(t))
    BY <1>3, <1>7 DEF Final
  <2>2. Minting(t)' /\ Mints(t)' = {}
    BY <1>2, <1>3, <1>5, <2>1, StillChains DEF Burning, Minting, Unburned, Paid, Single
  <2>3. saga'[t] = "burnConfirmed"
    BY <1>4, <1>7
  <2>4. SagaInPhase(t)'
    BY <2>2, <2>3 DEF SagaInPhase, InSomePhase
  <2>5. StatusInPhase(t)'
    BY <1>1, <1>2, <2>3 DEF StatusInPhase
  <2> QED
    BY <1>6, <2>4, <2>5
<1>8. CASE fate[hash[t]] \in {"reverted", "dropped"} /\ saga' = [saga EXCEPT ![t] = "undo"]
  <2>1. Void(Burns(t))
    BY <1>3, <1>8 DEF Void, Single, Burning, Minting
  <2>2. Unburned(t)' /\ Legs(t)' = {"reserve"}
    BY <1>2, <1>3, <1>5, <2>1, StillChains DEF Burning, Minting, Unburned, Paid, Single
  <2>3. saga'[t] = "undo"
    BY <1>4, <1>8
  <2>4. SagaInPhase(t)'
    BY <2>2, <2>3 DEF SagaInPhase, InSomePhase, MintFailed
  <2>5. StatusInPhase(t)'
    BY <1>1, <1>2, <2>3 DEF StatusInPhase, MintFailed
  <2> QED
    BY <1>6, <2>4, <2>5
<1> QED
  BY <1>2, <1>7, <1>8

\* The answer about the mint decides between the credit and the way back.
LEMMA WaitMintStep ==
  ASSUME NEW t \in Transfers, NoIsNo, IInv, WaitMint(t)
  PROVE  SagaInPhase(t)' /\ StatusInPhase(t)' /\ Elsewhere(t)
<1>1. TypeOK /\ SagaInPhase(t) /\ StatusInPhase(t)
  BY DEF IInv
<1>2. /\ saga[t] = "waitMint"
      /\ UNCHANGED <<row, posted, hash, sent, fate>>
      /\ \/ fate[hash[t]] = "done" /\ saga' = [saga EXCEPT ![t] = "deliver"]
         \/ fate[hash[t]] \in {"reverted", "dropped"} /\ saga' = [saga EXCEPT ![t] = MintFailed(t)]
  BY DEF WaitMint, Wait, Goto, NoIsNo, Spend, ledgerVars, chainVars
<1>3. Minting(t) /\ hash[t] \in Mints(t)
  BY <1>1, <1>2 DEF SagaInPhase
<1>4. saga \in [Transfers -> Running \union {"none", "over", "dead"}]
  BY <1>1 DEF TypeOK
<1>5. \A u \in Transfers : Legs(u)' = Legs(u)
  BY <1>2, StillLegs
<1>6. Elsewhere(t)
  BY <1>1, <1>2, <1>4, <1>5, BooksElsewhere
<1>7. CASE fate[hash[t]] = "done" /\ saga' = [saga EXCEPT ![t] = "deliver"]
  <2>1. Final(Mints(t))
    BY <1>3, <1>7 DEF Final
  <2>2. Minting(t)' /\ Final(Mints(t))'
    BY <1>2, <1>3, <1>5, <2>1, StillChains DEF Minting, Refunding, Unminted, Paid, Single
  <2>3. saga'[t] = "deliver"
    BY <1>4, <1>7
  <2>4. SagaInPhase(t)'
    BY <2>2, <2>3 DEF SagaInPhase, InSomePhase
  <2>5. StatusInPhase(t)'
    BY <1>1, <1>2, <2>3 DEF StatusInPhase
  <2> QED
    BY <1>6, <2>4, <2>5
<1>8. CASE fate[hash[t]] \in {"reverted", "dropped"} /\ saga' = [saga EXCEPT ![t] = MintFailed(t)]
  <2>1. Void(Mints(t))
    BY <1>3, <1>8 DEF Void, Single, Burning, Minting
  <2>2. IF IsBridge(t) THEN Refunding(t)' /\ Refunds(t)' = {} /\ Legs(t)' = {"reserve"} ELSE Unminted(t)' /\ Legs(t)' = {"reserve"}
    BY <1>2, <1>3, <1>5, <2>1, StillChains DEF Minting, Refunding, Unminted, Paid, Single
  <2>3. saga'[t] = MintFailed(t)
    BY <1>4, <1>8
  <2>4. SagaInPhase(t)'
    BY <2>2, <2>3 DEF SagaInPhase, InSomePhase, MintFailed
  <2>5. StatusInPhase(t)'
    BY <1>1, <1>2, <2>3 DEF StatusInPhase, MintFailed
  <2> QED
    BY <1>6, <2>4, <2>5
<1> QED
  BY <1>2, <1>7, <1>8

\* A step of the transfer that touches neither the journal nor a chain.
LEMMA QuietStep ==
  ASSUME NEW t \in Transfers, TypeOK, UNCHANGED <<posted, hash, sent, fate>>,
         NEW pc, saga' = [saga EXCEPT ![t] = pc], NEW s, row' = [row EXCEPT ![t] = s] \/ row' = row
  PROVE  /\ Elsewhere(t) /\ Quiet(t) /\ saga'[t] = pc
         /\ row' = [row EXCEPT ![t] = s] => row'[t] = s
BY StillChains, StillLegs DEF Elsewhere, Quiet, TypeOK

\* Execute starts where its row says.
LEMMA LoadStep ==
  ASSUME NEW t \in Transfers, IInv, Load(t) \/ LoadFails(t)
  PROVE  SagaInPhase(t)' /\ StatusInPhase(t)' /\ Elsewhere(t)
<1>1. TypeOK /\ SagaInPhase(t) /\ StatusInPhase(t)
  BY DEF IInv
<1>2. saga[t] = "load" /\ UNCHANGED <<row, posted, hash, sent, fate>>
  BY DEF Load, LoadFails, ledgerVars, chainVars
<1>3. /\ Unstarted(t)
      /\ IsBridge(t) => Legs(t) = {} /\ row[t] = "PENDING"
      /\ ~IsBridge(t) => Legs(t) = {"reserve"}
  BY <1>1, <1>2 DEF SagaInPhase, IInv, IssuedFirst, Unstarted
<1>4. \/ saga' = [saga EXCEPT ![t] = "over"]
      \/ saga' = [saga EXCEPT ![t] = IF IsBridge(t) THEN "out" ELSE "mint"]
  BY <1>3 DEF Load, LoadFails, Goto
<1>5. Elsewhere(t) /\ Quiet(t)
      /\ (saga'[t] = "over" \/ saga'[t] = IF IsBridge(t) THEN "out" ELSE "mint")
  BY <1>1, <1>2, <1>4, QuietStep
<1>6. Unstarted(t)' /\ IsBridge(t)' = IsBridge(t) /\ Legs(t)' = Legs(t)
  BY <1>3, <1>5, PhasesSurvive DEF Quiet, IsBridge
<1>7. ~IsBridge(t) => Minting(t)' /\ Mints(t)' = {}
  BY <1>3, <1>6 DEF Unstarted, Minting, Paid, Single
<1>8. SagaInPhase(t)'
  BY <1>3, <1>5, <1>6, <1>7 DEF SagaInPhase, InSomePhase
<1>9. StatusInPhase(t)'
  BY <1>1, <1>2, <1>5 DEF StatusInPhase
<1> QED
  BY <1>5, <1>8, <1>9

\* UpdateStatus writes what the phase justifies.
LEMMA StatusStep ==
  ASSUME NEW t \in Transfers, IInv, UpdateStatus(t)
  PROVE  SagaInPhase(t)' /\ StatusInPhase(t)' /\ Elsewhere(t)
<1>1. TypeOK /\ SagaInPhase(t) /\ StatusInPhase(t)
  BY DEF IInv
<1>2. saga[t] \in {"burnConfirmed", "mintSubmitted", "complete", "failed", "compensated"}
  BY DEF UpdateStatus, Writes
<1>3. /\ UNCHANGED <<posted, hash, sent, fate>>
      /\ saga' = [saga EXCEPT ![t] = Writes[saga[t]][2]]
      /\ row' = [row EXCEPT ![t] = Writes[saga[t]][1]] \/ row' = row
  BY DEF UpdateStatus, Status, Goto, chainVars
<1>4. /\ Elsewhere(t) /\ Quiet(t) /\ saga'[t] = Writes[saga[t]][2]
      /\ row'[t] = Writes[saga[t]][1] \/ row'[t] = row[t]
  <2>1. PICK pc : pc = Writes[saga[t]][2]
    OBVIOUS
  <2>2. PICK s : s = Writes[saga[t]][1]
    OBVIOUS
  <2>3. saga' = [saga EXCEPT ![t] = pc] /\ (row' = [row EXCEPT ![t] = s] \/ row' = row)
    BY <1>3, <2>1, <2>2
  <2>4. Elsewhere(t) /\ Quiet(t) /\ saga'[t] = pc /\ (row'[t] = s \/ row'[t] = row[t])
    BY <1>1, <1>3, <2>3, StillChains, StillLegs DEF Elsewhere, Quiet, TypeOK
  <2> QED
    BY <2>1, <2>2, <2>4
<1>5. /\ Legs(t)' = Legs(t) /\ Mints(t)' = Mints(t) /\ hash' = hash
      /\ Abandoned(t) => Abandoned(t)'
      /\ Minting(t) => Minting(t)'
      /\ Credited(t) => Credited(t)'
      /\ Refunding(t) => Refunding(t)'
      /\ InSomePhase(t)'
  BY <1>1, <1>3, <1>4, PhasesSurvive DEF Quiet, Abandoned, InSomePhase, SagaInPhase
<1>6. row[t] \notin {"NONE", "COMPLETED", "FAILED", "COMPENSATED"}
  BY <1>1, <1>2 DEF StatusInPhase
<1>7. CASE saga[t] = "burnConfirmed"
  <2>1. saga'[t] = "mint" /\ (row'[t] = "BURN_CONFIRMED" \/ row'[t] = row[t])
    BY <1>4, <1>7 DEF Writes
  <2> QED
    BY <1>1, <1>4, <1>5, <1>6, <1>7, <2>1 DEF SagaInPhase, StatusInPhase
<1>8. CASE saga[t] = "mintSubmitted"
  <2>1. saga'[t] = "waitMint" /\ (row'[t] = "MINT_SUBMITTED" \/ row'[t] = row[t])
    BY <1>4, <1>8 DEF Writes
  <2> QED
    BY <1>1, <1>4, <1>5, <1>6, <1>8, <2>1 DEF SagaInPhase, StatusInPhase
<1>9. CASE saga[t] = "complete"
  <2>1. saga'[t] = "over" /\ (row'[t] = "COMPLETED" \/ row'[t] = row[t])
    BY <1>4, <1>9 DEF Writes
  <2> QED
    BY <1>1, <1>4, <1>5, <1>6, <1>9, <2>1 DEF SagaInPhase, StatusInPhase
<1>10. CASE saga[t] = "failed"
  <2>1. saga'[t] = "over" /\ (row'[t] = "FAILED" \/ row'[t] = row[t])
    BY <1>4, <1>10 DEF Writes
  <2> QED
    BY <1>1, <1>4, <1>5, <1>6, <1>10, <2>1 DEF SagaInPhase, StatusInPhase
<1>11. CASE saga[t] = "compensated"
  <2>1. saga'[t] = "over" /\ (row'[t] = "COMPENSATED" \/ row'[t] = row[t])
    BY <1>4, <1>11 DEF Writes
  <2> QED
    BY <1>1, <1>4, <1>5, <1>6, <1>11, <2>1 DEF SagaInPhase, StatusInPhase
<1> QED
  BY <1>2, <1>7, <1>8, <1>9, <1>10, <1>11

\* One saga step and the phase of every transfer.
LEMMA SagaStepKeepsPhases ==
  ASSUME NEW t \in Transfers, NoIsNo, IInv, SagaStep(t)
  PROVE  \A u \in Transfers : SagaInPhase(u)' /\ StatusInPhase(u)'
<1>1. SagaInPhase(t)' /\ StatusInPhase(t)' /\ Elsewhere(t)
  BY OutStep, CreditStep, UndoStep, CompensateStep, BurnStep, MintStep, RefundStep,
     WaitBurnStep, WaitMintStep, LoadStep, StatusStep DEF SagaStep
<1> QED
  BY <1>1, OthersKept DEF Elsewhere, IInv

\* Mining decides what was pending, so no phase is left.
LEMMA MiningKeepsPhases ==
  ASSUME IInv, NEW h \in 1..Len(sent), Mined(h) \/ Dropped(h)
  PROVE  \A u \in Transfers : SagaInPhase(u)' /\ StatusInPhase(u)'
<1>1. PICK f \in Fates : Fated(h, f)
  BY DEF Mined, Dropped, Execute, Revert, Drop, Fates
<1>2. UNCHANGED <<posted, saga, row, hash>>
  BY DEF Mined, Dropped, bridgeVars, ledgerVars
<1>3. /\ \A i \in 1..Len(sent) : fate[i] # "pending" => fate'[i] = fate[i]
      /\ \A kind, id : Sends(kind, id)' = Sends(kind, id)
  BY <1>1, Decided DEF IInv
<1>4. \A u \in Transfers : Quiet(u)
  BY <1>2, <1>3, StillLegs DEF Quiet, Burns, Mints, Refunds
<1> QED
  BY <1>2, <1>4, OthersKept DEF IInv

\* A step outside the sagas and the chains' transactions.
LEMMA BystanderKeepsPhases ==
  ASSUME IInv, UNCHANGED <<posted, row, saga, hash, sent, fate>>
  PROVE  \A u \in Transfers : SagaInPhase(u)' /\ StatusInPhase(u)'
<1>1. \A u \in Transfers : Quiet(u)
  BY StillChains, StillLegs DEF Quiet
<1> QED
  BY <1>1, OthersKept DEF IInv

\* The issuance is posted by the handler, before the transfer has a saga; a
\* second attempt finds the leg there.
LEMMA IssueKeepsPhases ==
  ASSUME IInv, NEW r \in Requests, Issue(r)
  PROVE  \A u \in Transfers : SagaInPhase(u)' /\ StatusInPhase(u)'
<1> DEFINE t == r[1]
<1>1. t \in Transfers
  BY DEF Requests
<1>2. ~IsBridge(t) /\ UNCHANGED <<row, saga, hash, sent, fate>>
  BY DEF Issue, Post, Refuse, ledgerVars, chainVars
<1>3. posted' = posted \/ posted' = posted \union {<<"reserve", t>>}
  BY DEF Issue, Post, Refuse, ledgerVars
<1> HIDE DEF t
<1>4. \A u \in Transfers \ {t} : Quiet(u)
  BY <1>1, <1>2, <1>3, StillChains, StillLegs, LegPosted DEF Quiet, Leg
<1>5. \A u \in Transfers \ {t} : SagaInPhase(u)' /\ StatusInPhase(u)'
  BY <1>2, <1>4, OthersKept DEF IInv
<1>6. SagaInPhase(t)' /\ StatusInPhase(t)'
  <2>1. CASE Legs(t)' = Legs(t)
    <3>1. Quiet(t)
      BY <1>1, <1>2, <2>1, StillChains DEF Quiet
    <3> QED
      BY <1>1, <1>2, <3>1, OthersKept DEF IInv
  <2>2. CASE Legs(t)' = Legs(t) \union {"reserve"} /\ "reserve" \notin Legs(t)
    <3>1. saga[t] = "none"
      BY <1>1, <1>2, <2>2 DEF IInv, IssuedFirst
    <3>2. Unstarted(t)'
      BY <1>1, <1>2, <2>2, <3>1, StillChains DEF IInv, SagaInPhase, Unstarted
    <3> QED
      BY <1>1, <1>2, <3>1, <3>2, StillChains DEF IInv, SagaInPhase, StatusInPhase, InSomePhase
  <2> QED
    BY <1>1, <1>3, <2>1, <2>2, StillLegs, LegPosted DEF Leg
<1> QED
  BY <1>5, <1>6

\* The row and its saga begin together.
LEMMA InsertKeepsPhases ==
  ASSUME IInv, NEW r \in Requests, InsertRow(r)
  PROVE  \A u \in Transfers : SagaInPhase(u)' /\ StatusInPhase(u)'
<1> DEFINE t == r[1]
<1>1. t \in Transfers /\ handler[r] = "insert" /\ UNCHANGED <<posted, hash, sent, fate>>
  BY DEF Requests, InsertRow, chainVars
<1>2. CASE row[t] = "NONE"
  <2>1. saga' = [saga EXCEPT ![t] = "load"] /\ row' = [row EXCEPT ![t] = "PENDING"]
    BY <1>2 DEF InsertRow, Status, Goto
  <2> HIDE DEF t
  <2>2. Elsewhere(t) /\ Quiet(t) /\ saga'[t] = "load" /\ row'[t] = "PENDING"
    BY <1>1, <2>1, QuietStep DEF IInv
  <2>3. saga[t] = "none"
    BY <1>1, <1>2 DEF IInv, StatusInPhase
  <2>4. Unstarted(t) /\ (IsBridge(t) => Legs(t) = {})
    BY <1>1, <2>3 DEF IInv, SagaInPhase
  <2>5. Unstarted(t)' /\ (IsBridge(t)' => Legs(t)' = {})
    BY <1>1, <2>2, <2>4, PhasesSurvive DEF Quiet, IsBridge
  <2>6. SagaInPhase(t)' /\ StatusInPhase(t)'
    BY <2>2, <2>5 DEF SagaInPhase, StatusInPhase, InSomePhase
  <2> QED
    BY <2>2, <2>6, OthersKept DEF Elsewhere, IInv
<1>3. CASE row[t] # "NONE"
  <2>1. UNCHANGED <<row, saga>>
    BY <1>3 DEF InsertRow
  <2> QED
    BY <1>1, <2>1, BystanderKeepsPhases
<1> QED
  BY <1>2, <1>3

\* A crash only stops what was running.
LEMMA CrashKeepsPhases ==
  ASSUME IInv, Crash
  PROVE  \A u \in Transfers : SagaInPhase(u)' /\ StatusInPhase(u)'
<1> SUFFICES ASSUME NEW u \in Transfers PROVE SagaInPhase(u)' /\ StatusInPhase(u)'
  OBVIOUS
<1>1. UNCHANGED <<posted, row, hash, sent, fate>>
  BY DEF Crash, ledgerVars, chainVars
<1>2. Quiet(u)
  BY <1>1, StillChains, StillLegs DEF Quiet
<1>3. saga'[u] = IF saga[u] \in Running THEN "dead" ELSE saga[u]
  BY DEF Crash
<1>4. CASE saga[u] \notin Running
  BY <1>1, <1>2, <1>3, <1>4, OthersKept DEF IInv
<1>5. CASE saga[u] \in Running
  <2>1. saga'[u] = "dead" /\ saga[u] \notin {"none", "over"}
    BY <1>3, <1>5 DEF Running, Writes
  <2>2. row'[u] = row[u] /\ row[u] \notin {"NONE", "COMPLETED", "FAILED", "COMPENSATED"}
    BY <1>1, <2>1 DEF IInv, StatusInPhase
  <2>3. InSomePhase(u)'
    BY <1>2, PhasesSurvive DEF IInv, SagaInPhase, InSomePhase
  <2> QED
    BY <2>1, <2>2, <2>3 DEF SagaInPhase, StatusInPhase
<1> QED
  BY <1>4, <1>5

\* Whatever happens, each transfer stays in a phase its saga and row agree with.
LEMMA PhasesKept ==
  ASSUME NoIsNo, IInv, Next
  PROVE  \A u \in Transfers : SagaInPhase(u)' /\ StatusInPhase(u)'
<1>1. CASE \E r \in Requests : Issue(r) \/ BridgeTransfer(r) \/ InsertRow(r) \/ InsertFails(r)
  <2> PICK r \in Requests : Issue(r) \/ BridgeTransfer(r) \/ InsertRow(r) \/ InsertFails(r)
    BY <1>1
  <2>1. BridgeTransfer(r) \/ InsertFails(r) => UNCHANGED <<posted, row, saga, hash, sent, fate>>
    BY DEF BridgeTransfer, InsertFails, ledgerVars, chainVars
  <2> QED
    BY <2>1, IssueKeepsPhases, InsertKeepsPhases, BystanderKeepsPhases
<1>2. CASE \E t \in Transfers : SagaStep(t) \/ Resume(t) \/ OperatorReverses(t)
  BY <1>2, SagaStepKeepsPhases DEF Resume, OperatorReverses, Spend, NoIsNo
<1>3. CASE \E h \in 1..Len(sent) : Mined(h) \/ Dropped(h)
  BY <1>3, MiningKeepsPhases
<1>4. CASE \E w \in Wallets, s \in {"ACTIVE", "FROZEN", "CLOSED"} : SetWalletStatus(w, s)
  BY <1>4, BystanderKeepsPhases DEF SetWalletStatus, chainVars
<1>5. CASE ChainAdmin \/ Holder
  BY <1>5, BystanderKeepsPhases
  DEF ChainAdmin, Holder, TogglePause, ToggleBlacklist, ApproveDelegate, HolderMoves, ledgerVars
<1> QED
  BY <1>1, <1>2, <1>3, <1>4, <1>5, CrashKeepsPhases DEF Next

\* No step unposts a leg, and a saga or an insertion begins only after its
\* issuance is posted.
LEMMA IssuedFirstKept ==
  ASSUME IInv, Next
  PROVE  IssuedFirst'
<1>1. \A u \in Transfers : Legs(u) \subseteq Legs(u)'
  BY DEF Next, Legs, Has, Issue, BridgeTransfer, InsertRow, InsertFails, SagaStep, Load, LoadFails,
     BridgeOut, Credit, Undo, BridgeCompensate, Books, Post, Refuse, BridgeBurn, BridgeMint, Refund,
     Submit, WaitBurn, WaitMint, Wait, UpdateStatus, Resume, OperatorReverses, SetWalletStatus, Crash,
     ChainAdmin, Holder, Mined, Dropped, ledgerVars, bridgeVars
<1>2. /\ IssuedFirst /\ saga \in [Transfers -> Running \union {"none", "over", "dead"}]
      /\ handler \in [Requests -> {"idle", "insert", "over"}]
      /\ \A r \in Requests : r[1] \in Transfers
  BY DEF IInv, TypeOK, Requests
<1>3. CASE UNCHANGED <<handler, saga>>
  BY <1>1, <1>2, <1>3 DEF IssuedFirst, IsBridge
<1>4. ASSUME NEW r \in Requests, Issue(r)  PROVE IssuedFirst'
  <2>1. /\ saga' = saga
        /\ \/ handler' = [handler EXCEPT ![r] = "insert"] /\ "reserve" \in Legs(r[1])'
           \/ handler' = [handler EXCEPT ![r] = "over"]
    BY <1>4 DEF Issue, Post, At, Legs, Has, Leg
  <2> QED
    BY <1>1, <1>2, <2>1 DEF IssuedFirst, IsBridge
<1>5. ASSUME NEW r \in Requests, BridgeTransfer(r) \/ InsertFails(r)  PROVE IssuedFirst'
  <2>1. /\ saga' = saga
        /\ \/ handler' = [handler EXCEPT ![r] = "insert"] /\ IsBridge(r[1])
           \/ handler' = [handler EXCEPT ![r] = "over"]
    BY <1>5 DEF BridgeTransfer, InsertFails, At
  <2> QED
    BY <1>1, <1>2, <2>1 DEF IssuedFirst, IsBridge
<1>6. ASSUME NEW r \in Requests, InsertRow(r)  PROVE IssuedFirst'
  <2>1. /\ handler[r] = "insert" /\ handler' = [handler EXCEPT ![r] = "over"]
        /\ saga' = [saga EXCEPT ![r[1]] = "load"] \/ saga' = saga
    BY <1>6 DEF InsertRow, At, Goto
  <2>2. ~IsBridge(r[1]) => "reserve" \in Legs(r[1])
    BY <1>2, <2>1 DEF IssuedFirst
  <2> QED
    BY <1>1, <1>2, <2>1, <2>2 DEF IssuedFirst, IsBridge
<1>7. ASSUME NEW t \in Transfers, SagaStep(t) \/ Resume(t)  PROVE IssuedFirst'
  <2>1. PICK pc : saga' = [saga EXCEPT ![t] = pc]
    BY <1>7 DEF SagaStep, Load, LoadFails, BridgeOut, Credit, Undo, BridgeCompensate, Books,
       BridgeBurn, BridgeMint, Refund, Submit, WaitBurn, WaitMint, Wait, UpdateStatus, Resume, Goto
  <2>2. handler' = handler /\ saga[t] # "none"
    BY <1>7 DEF SagaStep, Load, LoadFails, BridgeOut, Credit, Undo, BridgeCompensate, Books,
       BridgeBurn, BridgeMint, Refund, Submit, WaitBurn, WaitMint, Wait, UpdateStatus, Resume, Writes
  <2> QED
    BY <1>1, <1>2, <2>1, <2>2 DEF IssuedFirst, IsBridge
<1>8. CASE Crash
  <2>1. /\ \A t \in Transfers : saga'[t] = IF saga[t] \in Running THEN "dead" ELSE saga[t]
        /\ \A r \in Requests : handler'[r] = IF handler[r] = "insert" THEN "over" ELSE handler[r]
    BY <1>8 DEF Crash
  <2>2. "none" \notin Running
    BY DEF Running, Writes
  <2> QED
    BY <1>1, <1>2, <2>1, <2>2 DEF IssuedFirst, IsBridge
<1>9. ASSUME \/ \E t \in Transfers : OperatorReverses(t)
             \/ \E h \in 1..Len(sent) : Mined(h) \/ Dropped(h)
             \/ \E w \in Wallets, s \in {"ACTIVE", "FROZEN", "CLOSED"} : SetWalletStatus(w, s)
             \/ ChainAdmin \/ Holder
      PROVE  UNCHANGED <<handler, saga>>
  BY <1>9 DEF OperatorReverses, Mined, Dropped, SetWalletStatus, ChainAdmin, Holder, bridgeVars
<1> QED
  BY <1>3, <1>4, <1>5, <1>6, <1>7, <1>8, <1>9 DEF Next

\* The bridge's own part of TypeOK but for hash, and the chains' part.
BridgeTyped ==
  /\ row \in [Transfers -> TransferStatus \union {"NONE"}]
  /\ posted \subseteq Leg \X Transfers
  /\ wallet \in [Wallets -> {"ACTIVE", "FROZEN", "CLOSED"}]
  /\ handler \in [Requests -> {"idle", "insert", "over"}]
  /\ saga \in [Transfers -> Running \union {"none", "over", "dead"}]
  /\ left \in 0..MaxMishaps
ChainTyped ==
  /\ tokens \in [Chain -> [Addresses -> Nat]] /\ delegated \in [Addresses -> Nat]
  /\ paused \in BOOLEAN /\ blacklisted \subseteq Addresses
  /\ sent \in Seq(Txs) /\ fate \in Seq(Fates) /\ Len(fate) = Len(sent)

\* TypeOK, in the parts that its proof takes one by one.
LEMMA TypeParts ==
  TypeOK <=> BridgeTyped /\ ChainTyped /\ hash \in [Transfers -> 0..Len(sent)]
BY DEF TypeOK, BridgeTyped, ChainTyped, Txs, Tag

\* An executed transaction never takes more than there is.
LEMMA ExecuteTyped ==
  ASSUME TypeOK, NEW h \in 1..Len(sent), Execute(h)
  PROVE  tokens' \in [Chain -> [Addresses -> Nat]] /\ delegated' \in [Addresses -> Nat]
<1> DEFINE tx == sent[h]
           c == tx.chain
           a == tx.address
<1>1. sent \in Seq(Txs)
  BY DEF TypeOK, Txs, Tag
<1>2. tx \in Txs
  BY <1>1
<1>3. c \in Chain /\ a \in Addresses /\ tx.amount \in Nat /\ tx.kind \in {"mint", "burn"}
  BY <1>2 DEF Txs, Kind
<1>4. /\ tx.kind = "burn" => tokens[c][a] >= tx.amount
      /\ tx.kind = "burn" /\ c = "SOLANA" => delegated[a] >= tx.amount
      /\ tokens' = [tokens EXCEPT ![c] = [tokens[c] EXCEPT ![a] = tokens[c][a] + Moved(tx)]]
      /\ delegated' = IF c = "SOLANA" /\ tx.kind = "burn"
                      THEN [delegated EXCEPT ![a] = delegated[a] - tx.amount] ELSE delegated
  BY DEF Execute, Executable
<1> HIDE DEF tx, c, a
<1>5. tokens[c] \in [Addresses -> Nat] /\ tokens[c][a] \in Nat /\ delegated[a] \in Nat
  BY <1>3 DEF TypeOK
<1>6. tokens[c][a] + Moved(tx) \in Nat
  BY <1>3, <1>4, <1>5 DEF Moved
<1>7. tokens' \in [Chain -> [Addresses -> Nat]]
  BY <1>3, <1>4, <1>5, <1>6 DEF TypeOK
<1>8. delegated' \in [Addresses -> Nat]
  <2>1. CASE c = "SOLANA" /\ tx.kind = "burn"
    <3>1. delegated[a] - tx.amount \in Nat
      BY <1>3, <1>4, <1>5, <2>1
    <3> QED
      BY <1>3, <1>4, <2>1, <3>1 DEF TypeOK
  <2>2. CASE ~(c = "SOLANA" /\ tx.kind = "burn")
    BY <1>4, <2>2 DEF TypeOK
  <2> QED
    BY <2>1, <2>2
<1> QED
  BY <1>7, <1>8

\* The steps that leave the sagas' own chain calls aside.
LEMMA ChainsTyped ==
  ASSUME TypeOK,
         \/ UNCHANGED chainVars
         \/ \E h \in 1..Len(sent) : Mined(h) \/ Dropped(h)
         \/ ChainAdmin \/ Holder
         \/ \E t \in Transfers, c \in Chain, kind \in Kind, tag \in Tag : Submitted(Tx(t, c, kind, tag))
  PROVE  ChainTyped' /\ Len(sent') >= Len(sent)
<1> USE DEF ChainTyped
<1>1. ChainTyped /\ Len(sent) \in Nat
  BY TypeParts
<1>2. CASE UNCHANGED chainVars
  BY <1>1, <1>2 DEF chainVars, contractVars
<1>3. ASSUME NEW h \in 1..Len(sent), Mined(h) \/ Dropped(h)  PROVE ChainTyped' /\ Len(sent') >= Len(sent)
  <2>1. PICK f \in Fates : Fated(h, f)
    BY <1>3 DEF Mined, Dropped, Execute, Revert, Drop, Fates
  <2>2. fate' \in Seq(Fates) /\ Len(fate') = Len(fate) /\ sent' = sent
    BY <2>1, Decided DEF Fated
  <2>3. UNCHANGED <<paused, blacklisted>> /\ (Execute(h) \/ UNCHANGED <<tokens, delegated>>)
    BY <1>3 DEF Mined, Dropped, Execute, Revert, Drop, contractVars
  <2>4. tokens' \in [Chain -> [Addresses -> Nat]] /\ delegated' \in [Addresses -> Nat]
    BY <1>1, <2>3, ExecuteTyped
  <2>5. paused' \in BOOLEAN /\ blacklisted' \subseteq Addresses
    BY <1>1, <2>3, Zenon
  <2> QED
    BY <1>1, <2>2, <2>4, <2>5
<1>4. CASE ChainAdmin
  <2>1. UNCHANGED <<tokens, delegated, sent, fate>>
    BY <1>4 DEF ChainAdmin, TogglePause, ToggleBlacklist
  <2>2. paused' \in BOOLEAN
    BY <1>1, <1>4, Zenon DEF ChainAdmin, TogglePause, ToggleBlacklist
  <2>3. blacklisted' \subseteq Addresses
    BY <1>1, <1>4 DEF ChainAdmin, TogglePause, ToggleBlacklist
  <2> QED
    BY <1>1, <2>1, <2>2, <2>3
<1>5. CASE Holder
  <2>1. ASSUME NEW a \in Addresses, ApproveDelegate(a)  PROVE ChainTyped' /\ Len(sent') >= Len(sent)
    BY <1>1, <2>1 DEF ApproveDelegate, Chain
  <2>2. ASSUME NEW c \in Chain, NEW a \in Addresses, NEW b \in Addresses, HolderMoves(c, a, b)
        PROVE  ChainTyped' /\ Len(sent') >= Len(sent)
    <3>1. tokens[c] \in [Addresses -> Nat] /\ tokens[c][a] \in Nat /\ tokens[c][b] \in Nat
      BY <1>1
    <3>2. /\ tokens' = [tokens EXCEPT ![c] = [tokens[c] EXCEPT ![a] = tokens[c][a] - 1,
                                                               ![b] = tokens[c][b] + 1]]
          /\ tokens[c][a] > 0 /\ UNCHANGED <<delegated, paused, blacklisted, sent, fate>>
      BY <2>2 DEF HolderMoves
    <3> DEFINE moved == [tokens[c] EXCEPT ![a] = tokens[c][a] - 1, ![b] = tokens[c][b] + 1]
    <3>3. moved \in [Addresses -> Nat]
      BY <3>1, <3>2
    <3>4. tokens' = [tokens EXCEPT ![c] = moved]
      BY <3>2
    <3> HIDE DEF moved
    <3>5. tokens' \in [Chain -> [Addresses -> Nat]]
      BY <1>1, <3>3, <3>4
    <3>6. paused' \in BOOLEAN
      BY <1>1, <3>2, Zenon
    <3> QED
      BY <1>1, <3>2, <3>5, <3>6
  <2> QED
    BY <1>5, <2>1, <2>2 DEF Holder
<1>6. ASSUME NEW t \in Transfers, NEW c \in Chain, NEW kind \in Kind, NEW tag \in Tag,
             Submitted(Tx(t, c, kind, tag))
      PROVE  ChainTyped' /\ Len(sent') >= Len(sent)
  <2> DEFINE tx == Tx(t, c, kind, tag)
  <2>1. tx \in Txs /\ Submitted(tx)
    BY <1>6, TxTyped
  <2> HIDE DEF tx
  <2>2. UNCHANGED <<tokens, delegated, paused, blacklisted>>
    BY <2>1 DEF Submitted, contractVars
  <2>3. Len(sent') = Len(sent) + 1 /\ Len(fate') = Len(sent') /\ sent' \in Seq(Txs) /\ fate' \in Seq(Fates)
    BY <2>1, NewSend
  <2> QED
    BY <1>1, <2>2, <2>3
<1> QED
  BY <1>2, <1>3, <1>4, <1>5, <1>6

\* A mishap is spent from what is left of them.
LEMMA SpendTyped ==
  ASSUME TypeOK, NEW m, Spend(m)
  PROVE  left' \in 0..MaxMishaps
BY OrdersWellFormed DEF TypeOK, Spend

\* A call of the ledger keeps the types of what it writes.
LEMMA LedgerTyped ==
  ASSUME TypeOK, NEW leg \in Leg, NEW t \in Transfers, Post(leg, t) \/ Refuse(leg, t)
  PROVE  /\ posted' \subseteq Leg \X Transfers
         /\ left' \in 0..MaxMishaps
         /\ UNCHANGED <<row, wallet>>
<1>1. posted' \subseteq posted \union {<<leg, t>>}
  BY DEF Post, Refuse, ledgerVars
<1>2. left' \in 0..MaxMishaps
  BY SpendTyped DEF Post, Refuse, TypeOK
<1>3. UNCHANGED <<row, wallet>>
  BY DEF Post, Refuse, ledgerVars
<1> QED
  BY <1>1, <1>2, <1>3 DEF TypeOK

\* The steps a goroutine may be at.
LEMMA RunningSteps ==
  /\ Running = {"burnConfirmed", "mintSubmitted", "complete", "failed", "compensated", "load", "out",
       "burn", "waitBurn", "mint", "waitMint", "deliver", "undo", "refund", "compensate"}
  /\ \A t \in Transfers : MintFailed(t) \in Running
BY DEF Running, Writes, MintFailed

\* The same with the step of the saga it belongs to.
LEMMA BooksTyped ==
  ASSUME TypeOK, NEW t \in Transfers, NEW leg \in Leg,
         NEW pc, NEW yes \in Running \union {"over"}, NEW no \in Running \union {"over"},
         Books(t, pc, leg, yes, no)
  PROVE  BridgeTyped' /\ UNCHANGED <<hash, chainVars>>
<1>1. Post(leg, t) \/ Refuse(leg, t)
  BY DEF Books
<1>2. posted' \subseteq Leg \X Transfers /\ left' \in 0..MaxMishaps /\ UNCHANGED <<row, wallet>>
  BY <1>1, LedgerTyped
<1>3. saga' \in [Transfers -> Running \union {"none", "over", "dead"}]
  BY DEF Books, Goto, TypeOK
<1> QED
  BY <1>2, <1>3 DEF Books, BridgeTyped, TypeOK

\* A call of a chain keeps every type.
LEMMA SubmitTyped ==
  ASSUME TypeOK, NEW t \in Transfers, NEW c \in Chain, NEW kind \in Kind, NEW tag \in Tag,
         NEW pc, NEW yes \in Running, NEW no \in Running, Submit(t, pc, Tx(t, c, kind, tag), yes, no)
  PROVE  TypeOK'
<1> DEFINE tx == Tx(t, c, kind, tag)
<1>1. Submit(t, pc, tx, yes, no) /\ tx \in Txs
  BY TxTyped
<1>2. ChainTyped' /\ Len(sent') >= Len(sent)
  <2>1. Submitted(tx) \/ UNCHANGED chainVars
    BY DEF Submit
  <2> QED
    BY <2>1, ChainsTyped
<1> HIDE DEF tx
<1>3. left' \in 0..MaxMishaps
  BY <1>1, SpendTyped DEF Submit, TypeOK
<1>4. saga' \in [Transfers -> Running \union {"none", "over", "dead"}]
  BY <1>1 DEF Submit, Goto, TypeOK
<1>5. UNCHANGED <<row, posted, wallet, handler>>
  BY <1>1 DEF Submit, ledgerVars
<1>6. hash' = hash \/ hash' = [hash EXCEPT ![t] = Len(sent')]
  BY <1>1 DEF Submit
<1>7. Len(sent) \in Nat /\ Len(sent') \in Nat
  BY <1>2 DEF TypeOK, ChainTyped
<1>8. hash' \in [Transfers -> 0..Len(sent')]
  <2>1. CASE hash' = hash
    BY <1>2, <1>7, <2>1 DEF TypeOK
  <2>2. CASE hash' = [hash EXCEPT ![t] = Len(sent')]
    <3>1. \A u \in Transfers : hash'[u] \in 0..Len(sent')
      BY <1>2, <1>7, <2>2 DEF TypeOK
    <3> QED
      BY <2>2, <3>1 DEF TypeOK
  <2> QED
    BY <1>6, <2>1, <2>2
<1>9. BridgeTyped'
  BY <1>3, <1>4, <1>5 DEF BridgeTyped, TypeOK
<1> QED
  BY <1>2, <1>8, <1>9, TypeParts DEF TypeOK, BridgeTyped, ChainTyped, Txs, Tag

\* Only a bridge burns, and only a burn is refunded.
OnlyBridgesBurn ==
  \A t \in Transfers : saga[t] \in {"out", "burn", "waitBurn", "refund"} => IsBridge(t)

\* So does every step of a saga.
LEMMA SagaTyped ==
  ASSUME TypeOK, OnlyBridgesBurn, NEW t \in Transfers, SagaStep(t)
  PROVE  TypeOK'
<1>1. TypeOK /\ BridgeTyped
  BY TypeParts
<1>2. ASSUME BridgeTyped', UNCHANGED <<hash, chainVars>>  PROVE TypeOK'
  <2>1. ChainTyped' /\ sent' = sent /\ hash' = hash
    BY <1>2, <1>1, ChainsTyped DEF chainVars
  <2>2. hash' \in [Transfers -> 0..Len(sent')]
    BY <1>1, <2>1, TypeParts
  <2> QED
    BY <1>2, <2>1, <2>2 DEF TypeOK, BridgeTyped, ChainTyped, Txs, Tag
<1>3. CASE BridgeOut(t) \/ Credit(t) \/ Undo(t) \/ BridgeCompensate(t)
  BY <1>2, <1>1, <1>3, RunningSteps, BooksTyped DEF BridgeOut, Credit, Undo, BridgeCompensate, Leg
<1>4. CASE BridgeBurn(t) \/ BridgeMint(t) \/ Refund(t)
  <2>1. TargetChain(t) \in Chain /\ "burn" \in Kind /\ "mint" \in Kind /\ Tag = {"own", "compensation"}
    BY OrdersWellFormed DEF TargetChain, Kind, Tag
  <2>2. CASE BridgeMint(t)
    BY <1>1, <2>1, <2>2, RunningSteps, SubmitTyped DEF BridgeMint
  <2>3. ASSUME BridgeBurn(t) \/ Refund(t)  PROVE SourceChain(t) \in Chain
    <3>1. IsBridge(t)
      BY <2>3 DEF OnlyBridgesBurn, BridgeBurn, Refund, Submit
    <3> QED
      BY <3>1, OrdersWellFormed DEF IsBridge, SourceChain
  <2>4. CASE BridgeBurn(t)
    BY <1>1, <2>1, <2>3, <2>4, RunningSteps, SubmitTyped DEF BridgeBurn
  <2>5. CASE Refund(t)
    BY <1>1, <2>1, <2>3, <2>5, RunningSteps, SubmitTyped DEF Refund
  <2> QED
    BY <1>4, <2>2, <2>4, <2>5
<1>5. CASE WaitBurn(t) \/ WaitMint(t)
  <2>1. UNCHANGED <<row, posted, wallet, handler, hash, chainVars>> /\ left' \in 0..MaxMishaps
    BY <1>5, <1>1, SpendTyped DEF WaitBurn, WaitMint, Wait, ledgerVars, TypeOK
  <2>2. PICK pc \in Running : saga' = [saga EXCEPT ![t] = pc]
    BY <1>5, RunningSteps DEF WaitBurn, WaitMint, Wait, Goto
  <2> QED
    BY <1>2, <1>1, <2>1, <2>2 DEF BridgeTyped
<1>6. CASE Load(t) \/ LoadFails(t)
  <2>1. UNCHANGED <<row, posted, wallet, handler, hash, chainVars>> /\ left' \in 0..MaxMishaps
    BY <1>6, <1>1, SpendTyped DEF Load, LoadFails, ledgerVars, TypeOK
  <2>2. PICK pc \in Running \union {"over"} : saga' = [saga EXCEPT ![t] = pc]
    BY <1>6, RunningSteps DEF Load, LoadFails, Goto
  <2> QED
    BY <1>2, <1>1, <2>1, <2>2 DEF BridgeTyped
<1>7. CASE UpdateStatus(t)
  <2>1. UNCHANGED <<posted, wallet, handler, hash, chainVars>> /\ left' \in 0..MaxMishaps
    BY <1>7, <1>1, SpendTyped DEF UpdateStatus, TypeOK
  <2>2. \A x \in DOMAIN Writes : Writes[x][1] \in TransferStatus /\ Writes[x][2] \in Running \union {"over"}
    BY RunningSteps DEF Writes, TransferStatus
  <2>3. PICK pc \in Running \union {"over"} : saga' = [saga EXCEPT ![t] = pc]
    BY <1>7, <2>2 DEF UpdateStatus, Goto
  <2>4. PICK s \in TransferStatus : row' = row \/ row' = [row EXCEPT ![t] = s]
    BY <1>7, <2>2 DEF UpdateStatus, Status
  <2> QED
    BY <1>2, <1>1, <2>1, <2>3, <2>4 DEF BridgeTyped
<1> QED
  BY <1>3, <1>4, <1>5, <1>6, <1>7 DEF SagaStep

\* So does every step of the system.
LEMMA TypeKept ==
  ASSUME TypeOK, OnlyBridgesBurn, Next
  PROVE  TypeOK'
<1>1. TypeOK /\ BridgeTyped
  BY TypeParts
<1>2. ASSUME BridgeTyped', ChainTyped', hash' = hash, Len(sent') >= Len(sent)  PROVE TypeOK'
  <2>1. Len(sent) \in Nat /\ Len(sent') \in Nat
    BY <1>1, <1>2 DEF TypeOK, ChainTyped
  <2>2. hash' \in [Transfers -> 0..Len(sent')]
    BY <1>1, <1>2, <2>1 DEF TypeOK
  <2> QED
    BY <1>2, <2>2 DEF TypeOK, BridgeTyped, ChainTyped, Txs, Tag
<1>3. ASSUME BridgeTyped', hash' = hash, UNCHANGED chainVars  PROVE TypeOK'
  BY <1>1, <1>2, <1>3, ChainsTyped
<1>4. ASSUME NEW r \in Requests, Issue(r)  PROVE TypeOK'
  <2>1. r[1] \in Transfers /\ "reserve" \in Leg
    BY DEF Requests, Leg
  <2>2. posted' \subseteq Leg \X Transfers /\ left' \in 0..MaxMishaps /\ UNCHANGED <<row, wallet>>
    BY <1>1, <1>4, <2>1, LedgerTyped DEF Issue
  <2>3. handler' \in [Requests -> {"idle", "insert", "over"}] /\ UNCHANGED <<saga, hash, chainVars>>
    BY <1>1, <1>4 DEF Issue, At, BridgeTyped
  <2> QED
    BY <1>1, <1>3, <2>2, <2>3 DEF BridgeTyped
<1>5. ASSUME NEW r \in Requests, BridgeTransfer(r) \/ InsertRow(r) \/ InsertFails(r)  PROVE TypeOK'
  <2>1. handler' \in [Requests -> {"idle", "insert", "over"}]
    BY <1>1, <1>5 DEF BridgeTransfer, InsertRow, InsertFails, At, BridgeTyped
  <2>2. UNCHANGED <<posted, wallet, hash, chainVars>> /\ left' \in 0..MaxMishaps
    BY <1>1, <1>5, SpendTyped DEF BridgeTransfer, InsertRow, InsertFails, ledgerVars, BridgeTyped
  <2>3. /\ row' \in [Transfers -> TransferStatus \union {"NONE"}]
        /\ saga' \in [Transfers -> Running \union {"none", "over", "dead"}]
    BY <1>1, <1>5, RunningSteps
    DEF BridgeTransfer, InsertRow, InsertFails, Status, Goto, ledgerVars, BridgeTyped, TransferStatus
  <2> QED
    BY <1>1, <1>3, <2>1, <2>2, <2>3 DEF BridgeTyped
<1>6. ASSUME NEW t \in Transfers, Resume(t) \/ OperatorReverses(t)  PROVE TypeOK'
  <2>1. UNCHANGED <<row, wallet, handler, hash, chainVars>> /\ left' \in 0..MaxMishaps
    BY <1>1, <1>6, SpendTyped DEF Resume, OperatorReverses, ledgerVars
  <2>2. posted' \subseteq Leg \X Transfers
    BY <1>1, <1>6 DEF Resume, OperatorReverses, ledgerVars, BridgeTyped, Leg
  <2>3. saga' \in [Transfers -> Running \union {"none", "over", "dead"}]
    BY <1>1, <1>6, RunningSteps DEF Resume, OperatorReverses, Goto, BridgeTyped
  <2> QED
    BY <1>1, <1>3, <2>1, <2>2, <2>3 DEF BridgeTyped
<1>7. CASE \E h \in 1..Len(sent) : Mined(h) \/ Dropped(h)
  <2>1. ChainTyped' /\ Len(sent') >= Len(sent)
    BY <1>1, <1>7, ChainsTyped
  <2>2. UNCHANGED <<row, posted, wallet, handler, saga, hash>> /\ left' \in 0..MaxMishaps
    BY <1>1, <1>7, SpendTyped DEF Mined, Dropped, bridgeVars, ledgerVars, BridgeTyped
  <2> QED
    BY <1>1, <1>2, <2>1, <2>2 DEF BridgeTyped
<1>8. CASE ChainAdmin \/ Holder
  <2>1. ChainTyped' /\ Len(sent') >= Len(sent)
    BY <1>1, <1>8, ChainsTyped
  <2>2. UNCHANGED <<row, posted, wallet, handler, saga, hash>> /\ left' \in 0..MaxMishaps
    BY <1>1, <1>8, SpendTyped DEF ChainAdmin, Holder, ledgerVars, BridgeTyped
  <2> QED
    BY <1>1, <1>2, <2>1, <2>2 DEF BridgeTyped
<1>9. ASSUME NEW w \in Wallets, NEW s \in {"ACTIVE", "FROZEN", "CLOSED"}, SetWalletStatus(w, s)
      PROVE  TypeOK'
  <2>1. left' \in 0..MaxMishaps
    BY <1>1, <1>9, SpendTyped DEF SetWalletStatus
  <2>2. wallet' \in [Wallets -> {"ACTIVE", "FROZEN", "CLOSED"}]
    BY <1>1, <1>9 DEF SetWalletStatus, BridgeTyped
  <2>3. UNCHANGED <<row, posted, handler, saga, hash, chainVars>>
    BY <1>9 DEF SetWalletStatus
  <2> QED
    BY <1>1, <1>3, <2>1, <2>2, <2>3 DEF BridgeTyped
<1>10. CASE Crash
  <2>1. left' \in 0..MaxMishaps /\ UNCHANGED <<row, posted, wallet, hash, chainVars>>
    BY <1>1, <1>10, SpendTyped DEF Crash, ledgerVars
  <2>2. saga' \in [Transfers -> Running \union {"none", "over", "dead"}]
    BY <1>1, <1>10 DEF Crash, BridgeTyped
  <2>3. handler' \in [Requests -> {"idle", "insert", "over"}]
    BY <1>1, <1>10 DEF Crash, BridgeTyped
  <2> QED
    BY <1>1, <1>3, <2>1, <2>2, <2>3 DEF BridgeTyped
<1> QED
  BY <1>4, <1>5, <1>6, <1>7, <1>8, <1>9, <1>10, SagaTyped DEF Next

\* At the start nothing is posted, sent or running.
THEOREM IInvInit == Init => IInv
<1> SUFFICES ASSUME Init PROVE IInv
  OBVIOUS
<1>1. sent = << >> /\ fate = << >> /\ Len(sent) = 0 /\ posted = {}
  BY DEF Init, ChainInit
<1>2. TypeOK
  <2>1. sent \in Seq(Txs) /\ fate \in Seq(Fates) /\ Len(fate) = Len(sent)
    BY <1>1
  <2>2. tokens \in [Chain -> [Addresses -> Nat]] /\ delegated \in [Addresses -> Nat]
    BY TokensAtStart DEF Init, ChainInit, Chain
  <2>3. paused \in BOOLEAN /\ blacklisted \subseteq Addresses
    BY DEF Init, ChainInit
  <2>4. hash \in [Transfers -> 0..Len(sent)]
    BY <1>1 DEF Init
  <2>5. BridgeTyped
    BY OrdersWellFormed DEF Init, BridgeTyped
  <2> QED
    BY <2>1, <2>2, <2>3, <2>4, <2>5, TypeParts DEF ChainTyped
<1>3. \A u \in Transfers : Burns(u) = {} /\ Mints(u) = {} /\ Refunds(u) = {} /\ Legs(u) = {}
  BY <1>1 DEF Burns, Mints, Refunds, Sends, Legs, Has
<1>4. \A u \in Transfers : saga[u] = "none" /\ row[u] = "NONE"
  BY DEF Init
<1>5. \A u \in Transfers : SagaInPhase(u) /\ StatusInPhase(u)
  BY <1>3, <1>4 DEF SagaInPhase, StatusInPhase, InSomePhase, Unstarted
<1>6. IssuedFirst
  BY <1>4 DEF IssuedFirst, Init
<1> QED
  BY <1>2, <1>5, <1>6 DEF IInv

\* The invariant does not depend on anything outside vars.
LEMMA StutterKept ==
  ASSUME IInv, UNCHANGED vars
  PROVE  IInv'
<1>1. UNCHANGED <<posted, row, saga, hash, sent, fate>>
  BY DEF vars, bridgeVars, chainVars
<1>2. TypeOK'
  BY DEF IInv, TypeOK, vars, bridgeVars, chainVars, contractVars
<1>3. IssuedFirst'
  BY <1>1, StillLegs DEF IInv, IssuedFirst, IsBridge, vars, bridgeVars, Legs, Has
<1> QED
  BY <1>1, <1>2, <1>3, BystanderKeepsPhases DEF IInv

\* The strengthened invariant, which the runs check too.
THEOREM Invariance ==
  ASSUME NoIsNo
  PROVE  Spec => []IInv
<1>1. IInv /\ [Next]_vars => IInv'
  <2>1. IInv => TypeOK /\ OnlyBridgesBurn
    BY DEF IInv, OnlyBridgesBurn, SagaInPhase, Burning, Refunding
  <2> QED
    BY <2>1, StutterKept, TypeKept, IssuedFirstKept, PhasesKept DEF IInv
<1> QED
  BY <1>1, IInvInit, PTL DEF Spec

\* Where the phases say a transfer stands.
LEMMA Stands ==
  ASSUME NEW t \in Transfers
  PROVE  /\ Burned(t) <=> Final(Burns(t))
         /\ Minted(t) <=> Final(Mints(t))
         /\ Reminted(t) <=> Final(Refunds(t))
         /\ \A leg \in Leg : Has(leg, t) <=> leg \in Legs(t)
BY DEF Burned, Minted, Reminted, Ran, Final, Burns, Mints, Refunds, Sends, Legs

\* What a final status says stands: tokens reported as delivered are there, and
\* those of a transfer reported as not delivered can no longer come.
THEOREM StatusTold ==
  ASSUME NoIsNo
  PROVE  Spec => []StatusStands
<1>1. ASSUME IInv  PROVE StatusStands
  <2> SUFFICES ASSUME NEW t \in Transfers
               PROVE  /\ row[t] = "COMPLETED" => Minted(t) /\ InLedger(t) = "target"
                      /\ row[t] \in {"FAILED", "COMPENSATED"} => Void(Mints(t)) /\ InLedger(t) # "target"
    BY DEF StatusStands
  <2>1. StatusInPhase(t)
    BY <1>1 DEF IInv
  <2>2. /\ "deliver" \in Leg /\ "undo" \in Leg /\ "compensate" \in Leg /\ "reserve" \in Leg
    BY DEF Leg
  <2>3. CASE row[t] = "COMPLETED"
    BY <2>1, <2>2, <2>3, Stands DEF StatusInPhase, Credited, InLedger
  <2>4. CASE row[t] \in {"FAILED", "COMPENSATED"}
    <3>1. Abandoned(t) \/ Refunding(t)
      BY <2>1, <2>4 DEF StatusInPhase
    <3>2. Void(Mints(t)) /\ "deliver" \notin Legs(t)
      BY <3>1 DEF Abandoned, Unstarted, Unburned, Unminted, Refunding, Void
    <3> QED
      BY <2>2, <2>4, <3>2, Stands DEF InLedger
  <2> QED
    BY <2>3, <2>4
<1> QED
  BY <1>1, Invariance, PTL

\* A row never leaves a final status.
THEOREM StatusFinal ==
  ASSUME NoIsNo
  PROVE  Spec => FinalStatus
<1> DEFINE Kept == \A t \in Transfers :
      row[t] \in {"COMPLETED", "FAILED", "COMPENSATED"} => row'[t] = row[t]
<1>1. ASSUME IInv, [Next]_vars  PROVE [Kept]_row
  <2> SUFFICES ASSUME NEW t \in Transfers, row[t] \in {"COMPLETED", "FAILED", "COMPENSATED"}
               PROVE  row'[t] = row[t]
    OBVIOUS
  <2>1. saga[t] = "over" /\ row \in [Transfers -> TransferStatus \union {"NONE"}]
    BY <1>1 DEF IInv, StatusInPhase, TypeOK
  <2>2. ASSUME NEW u \in Transfers, SagaStep(u)  PROVE row'[t] = row[t]
    <3>1. CASE u = t
      BY <2>1, <2>2, <3>1
      DEF SagaStep, Load, LoadFails, BridgeOut, Credit, Undo, BridgeCompensate, Books, BridgeBurn,
          BridgeMint, Refund, Submit, WaitBurn, WaitMint, Wait, UpdateStatus, Writes
    <3>2. CASE u # t
      BY <2>1, <2>2, <3>2
      DEF SagaStep, Load, LoadFails, BridgeOut, Credit, Undo, BridgeCompensate, Books, Post, Refuse,
          BridgeBurn, BridgeMint, Refund, Submit, WaitBurn, WaitMint, Wait, UpdateStatus, Status, ledgerVars
    <3> QED
      BY <3>1, <3>2
  <2>3. ASSUME NEW r \in Requests, InsertRow(r)  PROVE row'[t] = row[t]
    BY <2>1, <2>3 DEF InsertRow, Status
  <2>4. CASE ~(\E u \in Transfers : SagaStep(u)) /\ ~(\E r \in Requests : InsertRow(r))
    BY <1>1, <2>4
    DEF Next, Issue, BridgeTransfer, InsertFails, Post, Refuse, Resume, OperatorReverses, Crash,
        ChainAdmin, Holder, Mined, Dropped, SetWalletStatus, ledgerVars, bridgeVars, vars
  <2> QED
    BY <2>2, <2>3, <2>4
<1> QED
  BY <1>1, Invariance, PTL DEF Spec, FinalStatus

(***************************************************************************)
(* Bridge implements Custody.                                              *)
(***************************************************************************)
\* The phase of a transfer fixes what Custody sees of it.
LEMMA PhaseSeen ==
  ASSUME NEW t \in Transfers
  PROVE  /\ Legs(t) = {} => InLedger(t) = "none"
         /\ Legs(t) = {"reserve"} => InLedger(t) = "transit"
         /\ Legs(t) = {"reserve", "deliver"} => InLedger(t) = "target"
         /\ Legs(t) \in {{"reserve", "undo"}, {"reserve", "compensate"}} => InLedger(t) = "source"
         /\ Unstarted(t) \/ Unburned(t) \/ Unminted(t) => OnChain(t) = "untouched"
         /\ Paid(t) => OnChain(t) = IF Final(Mints(t)) THEN "minted"
                                    ELSE IF IsBridge(t) THEN "burned" ELSE "untouched"
         /\ Burning(t) => OnChain(t) = IF Final(Burns(t)) THEN "burned" ELSE "untouched"
         /\ Refunding(t) => OnChain(t) = IF Final(Refunds(t)) THEN "reminted" ELSE "burned"
<1>1. /\ "deliver" \in Leg /\ "undo" \in Leg /\ "compensate" \in Leg /\ "reserve" \in Leg
  BY DEF Leg
<1>2. /\ Void(Burns(t)) => ~Final(Burns(t))
      /\ Void(Mints(t)) => ~Final(Mints(t))
      /\ Burns(t) = {} => ~Final(Burns(t))
      /\ Mints(t) = {} => ~Final(Mints(t))
      /\ Refunds(t) = {} => ~Final(Refunds(t))
  BY DEF Void, Final
<1>3. /\ Legs(t) = {} => InLedger(t) = "none"
      /\ Legs(t) = {"reserve"} => InLedger(t) = "transit"
      /\ Legs(t) = {"reserve", "deliver"} => InLedger(t) = "target"
      /\ Legs(t) \in {{"reserve", "undo"}, {"reserve", "compensate"}} => InLedger(t) = "source"
  BY <1>1, Stands DEF InLedger
<1>4. /\ Unstarted(t) \/ Unburned(t) \/ Unminted(t) => OnChain(t) = "untouched"
      /\ Paid(t) => OnChain(t) = IF Final(Mints(t)) THEN "minted"
                                 ELSE IF IsBridge(t) THEN "burned" ELSE "untouched"
      /\ Burning(t) => OnChain(t) = IF Final(Burns(t)) THEN "burned" ELSE "untouched"
      /\ Refunding(t) => OnChain(t) = IF Final(Refunds(t)) THEN "reminted" ELSE "burned"
  BY <1>2, Stands DEF OnChain, Unstarted, Unburned, Unminted, Paid, Burning, Refunding
<1> QED
  BY <1>3, <1>4

\* What Custody sees changes with the legs and the executed transactions only.
LEMMA LedgerAlike ==
  ASSUME NEW u \in Transfers, Legs(u)' = Legs(u)
  PROVE  InLedger(u)' = InLedger(u)
<1>1. \A leg \in Leg : Has(leg, u)' <=> Has(leg, u)
  BY DEF Legs
<1> QED
  BY <1>1 DEF InLedger, Leg

\* Where neither changes, Custody sees no step.
LEMMA SeenAlike ==
  ASSUME NEW u \in Transfers, Legs(u)' = Legs(u), \A kind, id : Ran(kind, id)' <=> Ran(kind, id)
  PROVE  InLedger(u)' = InLedger(u) /\ OnChain(u)' = OnChain(u)
BY LedgerAlike DEF OnChain, Burned, Minted, Reminted

\* A leg posted moves the transfer accordingly.
LEMMA LedgerMoves ==
  ASSUME NEW t \in Transfers
  PROVE  /\ Legs(t)' = {"reserve"} => InLedger(t)' = "transit"
         /\ Legs(t)' = {"reserve", "deliver"} => InLedger(t)' = "target"
         /\ Legs(t)' \in {{"reserve", "undo"}, {"reserve", "compensate"}} => InLedger(t)' = "source"
<1>1. \A leg \in Leg : Has(leg, t)' <=> leg \in Legs(t)'
  BY DEF Legs
<1> QED
  BY <1>1 DEF InLedger, Leg

\* A leg of one transfer, posted in the phase that allows it, is one step of
\* Custody; posted again, it is none.
LEMMA LegIsStep ==
  ASSUME NEW t \in Transfers, IInv, UNCHANGED <<sent, fate>>,
         \A u \in Transfers \ {t} : Legs(u)' = Legs(u),
         \/ Legs(t)' = Legs(t)
         \/ Unstarted(t) /\ Legs(t) = {} /\ Legs(t)' = {"reserve"}
         \/ Minting(t) /\ Final(Mints(t)) /\ Legs(t)' = {"reserve", "deliver"}
         \/ (Unburned(t) \/ Unminted(t)) /\ Legs(t) = {"reserve"} /\ Legs(t)' = {"reserve", "undo"}
         \/ Refunding(t) /\ Legs(t) = {"reserve"} /\ Legs(t)' = {"reserve", "compensate"}
  PROVE  [C!CNext]_C!custody
<1> DEFINE L == [u \in Transfers |-> InLedger(u)]
           K == [u \in Transfers |-> OnChain(u)]
<1>1. \A kind, id : Ran(kind, id)' <=> Ran(kind, id)
  BY DEF Ran
<1>2. \A u \in Transfers : OnChain(u)' = OnChain(u)
  BY <1>1 DEF OnChain, Burned, Minted, Reminted
<1>3. \A u \in Transfers \ {t} : InLedger(u)' = InLedger(u)
  BY LedgerAlike
<1>4. K' = K
  BY <1>2
<1>5. CASE Legs(t)' = Legs(t)
  <2>1. L' = L
    BY <1>3, <1>5, LedgerAlike
  <2> QED
    BY <1>4, <2>1 DEF C!custody
<1>6. L' = [L EXCEPT ![t] = InLedger(t)']
  BY <1>3
<1>7. CASE Unstarted(t) /\ Legs(t) = {} /\ Legs(t)' = {"reserve"}
  <2>1. L[t] = "none" /\ K[t] = "untouched" /\ InLedger(t)' = "transit"
    BY <1>7, PhaseSeen, LedgerMoves
  <2> QED
    BY <1>4, <1>6, <2>1 DEF C!CNext, C!Reserve, C!Books
<1>8. CASE Minting(t) /\ Final(Mints(t)) /\ Legs(t)' = {"reserve", "deliver"}
  <2>1. L[t] = "transit" /\ K[t] = "minted" /\ InLedger(t)' = "target"
    BY <1>8, PhaseSeen, LedgerMoves DEF Minting
  <2> QED
    BY <1>4, <1>6, <2>1 DEF C!CNext, C!Deliver, C!Books
<1>9. CASE (Unburned(t) \/ Unminted(t)) /\ Legs(t) = {"reserve"} /\ Legs(t)' = {"reserve", "undo"}
  <2>1. L[t] = "transit" /\ K[t] = "untouched" /\ InLedger(t)' = "source"
    BY <1>9, PhaseSeen, LedgerMoves
  <2> QED
    BY <1>4, <1>6, <2>1 DEF C!CNext, C!Return, C!Books
<1>10. CASE Refunding(t) /\ Legs(t) = {"reserve"} /\ Legs(t)' = {"reserve", "compensate"}
  <2>1. L[t] = "transit" /\ K[t] \in {"burned", "reminted"} /\ InLedger(t)' = "source"
    BY <1>10, PhaseSeen, LedgerMoves
  <2> QED
    BY <1>4, <1>6, <2>1 DEF C!CNext, C!Return, C!Books
<1> QED
  BY <1>5, <1>7, <1>8, <1>9, <1>10

\* A step that posts nothing and executes nothing is none of Custody's.
LEMMA Unseen ==
  ASSUME posted' = posted, \A kind, id : Ran(kind, id)' <=> Ran(kind, id)
  PROVE  [C!CNext]_C!custody
BY StillLegs, SeenAlike DEF C!custody

\* An execution is one step of Custody for the transfer that sent it.
LEMMA ExecutionIsStep ==
  ASSUME IInv, NEW h \in 1..Len(sent), Execute(h), posted' = posted
  PROVE  [C!CNext]_C!custody
<1> DEFINE L == [u \in Transfers |-> InLedger(u)]
           K == [u \in Transfers |-> OnChain(u)]
<1>1. /\ \A i \in 1..Len(sent) : i # h => fate'[i] = fate[i]
      /\ fate'[h] = "done" /\ fate[h] = "pending" /\ sent' = sent
      /\ \A kind, id : Sends(kind, id)' = Sends(kind, id)
  BY Decided DEF Execute, Fated, IInv, Fates
<1>2. sent \in Seq(Txs)
  BY DEF IInv, TypeOK, Txs, Tag
<1>3. sent[h] \in Txs
  BY <1>2
<1>4. PICK t \in Transfers : sent[h].id[1] = t
  BY <1>3 DEF Txs
<1>5. \A u \in Transfers : /\ Burns(u)' = Burns(u) /\ Mints(u)' = Mints(u) /\ Refunds(u)' = Refunds(u)
                           /\ Legs(u)' = Legs(u)
                           /\ Burns(u) \subseteq 1..Len(sent) /\ Mints(u) \subseteq 1..Len(sent)
                           /\ Refunds(u) \subseteq 1..Len(sent)
  BY <1>1, StillLegs DEF Burns, Mints, Refunds, Sends
<1>6. \A u \in Transfers : /\ Burned(u)' <=> (Burned(u) \/ h \in Burns(u))
                           /\ Minted(u)' <=> (Minted(u) \/ h \in Mints(u))
                           /\ Reminted(u)' <=> (Reminted(u) \/ h \in Refunds(u))
  BY <1>1 DEF Burned, Minted, Reminted, Ran, Burns, Mints, Refunds, Sends
<1>7. L' = L
  BY <1>5, LedgerAlike
<1>8. \A u \in Transfers : h \in Burns(u) \union Mints(u) \union Refunds(u) => u = t
  BY <1>1, <1>4 DEF Burns, Mints, Refunds, Sends
<1>9. \A u \in Transfers : h \notin Burns(u) \union Mints(u) \union Refunds(u) => OnChain(u)' = OnChain(u)
  BY <1>6 DEF OnChain
<1>10. InSomePhase(t)
  BY DEF IInv, SagaInPhase
<1>11. K' = [K EXCEPT ![t] = OnChain(t)']
  <2>1. \A u \in Transfers \ {t} : OnChain(u)' = OnChain(u)
    BY <1>8, <1>9
  <2> QED
    BY <2>1
<1>12. CASE h \in Burns(t)
  <2>1. ~Void(Burns(t))
    BY <1>1, <1>12 DEF Void
  <2>2. Single(Burns(t)) => ~Final(Burns(t))
    BY <1>1, <1>12 DEF Single, Final
  <2>3. Burning(t)
    BY <1>10, <1>12, <2>1, <2>2
    DEF InSomePhase, Unstarted, Unburned, Minting, Unminted, Credited, Refunding, Paid
  <2>4. L[t] = "transit" /\ K[t] = "untouched"
    BY <2>2, <2>3, PhaseSeen DEF Burning
  <2>5. OnChain(t)' = "burned"
    BY <1>6, <1>12, <2>3, Stands DEF OnChain, Burning, Final
  <2> QED
    BY <1>7, <1>11, <2>3, <2>4, <2>5 DEF C!CNext, C!Burn, C!Settles, Burning
<1>13. CASE h \in Mints(t)
  <2>1. ~Void(Mints(t))
    BY <1>1, <1>13 DEF Void
  <2>2. Single(Mints(t)) => ~Final(Mints(t))
    BY <1>1, <1>13 DEF Single, Final
  <2>3. Minting(t)
    BY <1>10, <1>13, <2>1, <2>2
    DEF InSomePhase, Unstarted, Unburned, Burning, Unminted, Credited, Refunding, Paid
  <2>4. L[t] = "transit" /\ K[t] = IF IsBridge(t) THEN "burned" ELSE "untouched"
    BY <2>2, <2>3, PhaseSeen DEF Minting
  <2>5. OnChain(t)' = "minted"
    <3>1. h \notin Refunds(t) /\ ~Reminted(t)
      BY <2>3, Stands DEF Minting, Paid, Final
    <3> QED
      BY <1>6, <1>13, <3>1 DEF OnChain
  <2> QED
    BY <1>7, <1>11, <2>4, <2>5 DEF C!CNext, C!Mint, C!Settles
<1>14. CASE h \in Refunds(t)
  <2>1. Single(Refunds(t)) => ~Final(Refunds(t))
    BY <1>1, <1>14 DEF Single, Final
  <2>2. Refunding(t)
    BY <1>10, <1>14
    DEF InSomePhase, Unstarted, Unburned, Burning, Minting, Unminted, Credited, Paid
  <2>3. L[t] \in {"transit", "source"} /\ K[t] = "burned"
    BY <2>1, <2>2, PhaseSeen DEF Refunding
  <2>4. OnChain(t)' = "reminted"
    <3>1. h \notin Mints(t) /\ ~Minted(t)
      BY <1>1, <2>2, Stands DEF Refunding, Void, Final
    <3> QED
      BY <1>6, <1>14, <3>1 DEF OnChain
  <2> QED
    BY <1>7, <1>11, <2>3, <2>4 DEF C!CNext, C!Remint, C!Settles
<1>15. CASE h \notin Burns(t) \union Mints(t) \union Refunds(t)
  <2>1. K' = K
    BY <1>8, <1>9, <1>15
  <2> QED
    BY <1>7, <2>1 DEF C!custody
<1> QED
  BY <1>12, <1>13, <1>14, <1>15

\* The other outcomes of a pending transaction, and a new one, execute nothing.
LEMMA NothingRan ==
  ASSUME TypeOK,
         \/ \E h \in 1..Len(sent) : Revert(h) \/ Drop(h)
         \/ \E tx \in Txs : Submitted(tx)
         \/ UNCHANGED <<sent, fate>>
  PROVE  \A kind, id : Ran(kind, id)' <=> Ran(kind, id)
<1>1. ASSUME NEW h \in 1..Len(sent), Revert(h) \/ Drop(h)
      PROVE  \A kind, id : Ran(kind, id)' <=> Ran(kind, id)
  <2>1. PICK f \in {"reverted", "dropped"} : Fated(h, f)
    BY <1>1 DEF Revert, Drop
  <2>2. /\ \A i \in 1..Len(sent) : i # h => fate'[i] = fate[i]
        /\ fate'[h] = f /\ fate[h] = "pending" /\ sent' = sent
    BY <2>1, Decided DEF Fated, Fates
  <2> QED
    BY <2>2 DEF Ran
<1>2. ASSUME NEW tx \in Txs, Submitted(tx)
      PROVE  \A kind, id : Ran(kind, id)' <=> Ran(kind, id)
  <2>1. /\ Len(sent') = Len(sent) + 1
        /\ \A h \in 1..Len(sent) : sent'[h] = sent[h] /\ fate'[h] = fate[h]
        /\ fate'[Len(sent)+1] = "pending"
    BY <1>2, NewSend
  <2>2. Len(sent) \in Nat
    BY DEF TypeOK
  <2> QED
    BY <2>1, <2>2 DEF Ran
<1> QED
  BY <1>1, <1>2 DEF Ran

\* The calls of the ledger.
LEMMA LedgerCallIsStep ==
  ASSUME NEW t \in Transfers, IInv,
         BridgeOut(t) \/ Credit(t) \/ Undo(t) \/ BridgeCompensate(t)
  PROVE  [C!CNext]_C!custody
<1>1. TypeOK /\ SagaInPhase(t)
  BY DEF IInv
<1>2. CASE BridgeOut(t)
  <2>1. /\ saga[t] = "out" /\ UNCHANGED <<sent, fate>>
        /\ Legs(t)' \in {Legs(t), Legs(t) \union {"reserve"}}
        /\ \A u \in Transfers \ {t} : Legs(u)' = Legs(u)
    BY <1>1, <1>2, LedgerCall DEF BridgeOut, Leg
  <2>2. Unstarted(t) /\ Legs(t) = {}
    BY <1>1, <2>1 DEF SagaInPhase
  <2> QED
    BY <2>1, <2>2, LegIsStep
<1>3. CASE Credit(t)
  <2>1. /\ saga[t] = "deliver" /\ UNCHANGED <<sent, fate>>
        /\ Legs(t)' \in {Legs(t), Legs(t) \union {"deliver"}}
        /\ \A u \in Transfers \ {t} : Legs(u)' = Legs(u)
    BY <1>1, <1>3, LedgerCall DEF Credit, Leg
  <2>2. Minting(t) /\ Final(Mints(t)) /\ Legs(t) = {"reserve"}
    BY <1>1, <2>1 DEF SagaInPhase, Minting
  <2> QED
    BY <2>1, <2>2, LegIsStep
<1>4. CASE Undo(t)
  <2>1. /\ saga[t] = "undo" /\ UNCHANGED <<sent, fate>>
        /\ Legs(t)' \in {Legs(t), Legs(t) \union {"undo"}}
        /\ \A u \in Transfers \ {t} : Legs(u)' = Legs(u)
    BY <1>1, <1>4, LedgerCall DEF Undo, Leg
  <2>2. (Unburned(t) \/ Unminted(t)) /\ Legs(t) = {"reserve"}
    BY <1>1, <2>1 DEF SagaInPhase
  <2> QED
    BY <2>1, <2>2, LegIsStep
<1>5. CASE BridgeCompensate(t)
  <2>1. /\ saga[t] = "compensate" /\ UNCHANGED <<sent, fate>>
        /\ Legs(t)' \in {Legs(t), Legs(t) \union {"compensate"}}
        /\ \A u \in Transfers \ {t} : Legs(u)' = Legs(u)
    BY <1>1, <1>5, LedgerCall DEF BridgeCompensate, Leg
  <2>2. Refunding(t) /\ Legs(t) = {"reserve"}
    BY <1>1, <2>1 DEF SagaInPhase
  <2> QED
    BY <2>1, <2>2, LegIsStep
<1> QED
  BY <1>2, <1>3, <1>4, <1>5

\* The posting of an issuance by its handler.
LEMMA IssueIsStep ==
  ASSUME IInv, NEW r \in Requests, Issue(r)
  PROVE  [C!CNext]_C!custody
<1>1. PICK t \in Transfers : t = r[1]
  BY DEF Requests
<1>2. ~IsBridge(t) /\ UNCHANGED <<sent, fate>>
  BY <1>1 DEF Issue, chainVars
<1>3. posted' = posted \/ posted' = posted \union {<<"reserve", t>>}
  BY <1>1 DEF Issue, Post, Refuse, ledgerVars
<1>4. /\ \A u \in Transfers \ {t} : Legs(u)' = Legs(u)
      /\ Legs(t)' \in {Legs(t), Legs(t) \union {"reserve"}}
  BY <1>3, StillLegs, LegPosted DEF Leg
<1>5. CASE "reserve" \in Legs(t)
  BY <1>2, <1>4, <1>5, LegIsStep
<1>6. CASE "reserve" \notin Legs(t)
  <2>1. saga[t] = "none"
    BY <1>2, <1>6 DEF IInv, IssuedFirst
  <2>2. Unstarted(t) /\ Legs(t) = {}
    BY <1>6, <2>1 DEF IInv, SagaInPhase, Unstarted
  <2> QED
    BY <1>2, <1>4, <2>2, LegIsStep
<1> QED
  BY <1>5, <1>6

\* A call of a chain, whatever it answers, is not yet seen.
LEMMA SubmitUnseen ==
  ASSUME TypeOK, NEW t \in Transfers, NEW c \in Chain, NEW kind \in Kind, NEW tag \in Tag,
         NEW pc, NEW yes, NEW no, Submit(t, pc, Tx(t, c, kind, tag), yes, no)
  PROVE  [C!CNext]_C!custody
<1> DEFINE tx == Tx(t, c, kind, tag)
<1>1. tx \in Txs /\ Submit(t, pc, tx, yes, no)
  BY TxTyped
<1> HIDE DEF tx
<1>2. posted' = posted /\ (Submitted(tx) \/ UNCHANGED <<sent, fate>>)
  BY <1>1 DEF Submit, ledgerVars, chainVars
<1>3. \A k, id : Ran(k, id)' <=> Ran(k, id)
  BY <1>1, <1>2, NothingRan
<1> QED
  BY <1>2, <1>3, Unseen

\* None of the three calls of a chain is seen by Custody.
LEMMA ChainCallUnseen ==
  ASSUME IInv, NEW t \in Transfers, BridgeBurn(t) \/ BridgeMint(t) \/ Refund(t)
  PROVE  [C!CNext]_C!custody
<1>1. TypeOK /\ "burn" \in Kind /\ "mint" \in Kind /\ "own" \in Tag /\ "compensation" \in Tag
  BY DEF IInv, Kind, Tag
<1>2. CASE BridgeMint(t)
  <2>1. TargetChain(t) \in Chain
    BY OrdersWellFormed DEF TargetChain
  <2> QED
    BY <1>1, <1>2, <2>1, SubmitUnseen DEF BridgeMint
<1>3. ASSUME BridgeBurn(t) \/ Refund(t)  PROVE SourceChain(t) \in Chain
  <2>1. SagaInPhase(t) /\ saga[t] \in {"burn", "refund"}
    BY <1>3 DEF IInv, BridgeBurn, Refund, Submit
  <2> QED
    BY <2>1, OrdersWellFormed DEF SagaInPhase, Refunding, IsBridge, SourceChain
<1>4. CASE BridgeBurn(t)
  BY <1>1, <1>3, <1>4, SubmitUnseen DEF BridgeBurn
<1>5. CASE Refund(t)
  BY <1>1, <1>3, <1>5, SubmitUnseen DEF Refund
<1> QED
  BY <1>2, <1>4, <1>5

\* The steps outside the journal and the chains' transactions.
LEMMA BystanderUnseen ==
  ASSUME IInv, UNCHANGED <<posted, sent, fate>>
  PROVE  [C!CNext]_C!custody
BY NothingRan, Unseen DEF IInv

\* Every step of the bridge is a step of Custody or none of its business.
LEMMA StepIsStep ==
  ASSUME NoIsNo, IInv, [Next]_vars
  PROVE  [C!CNext]_C!custody
<1>1. CASE UNCHANGED vars
  BY <1>1, BystanderUnseen DEF vars, bridgeVars, chainVars
<1>2. CASE \E r \in Requests : Issue(r) \/ BridgeTransfer(r) \/ InsertRow(r) \/ InsertFails(r)
  <2>1. ASSUME NEW r \in Requests, BridgeTransfer(r) \/ InsertRow(r) \/ InsertFails(r)
        PROVE  UNCHANGED <<posted, sent, fate>>
    BY <2>1 DEF BridgeTransfer, InsertRow, InsertFails, ledgerVars, chainVars
  <2> QED
    BY <1>2, <2>1, IssueIsStep, BystanderUnseen
<1>3. CASE \E t \in Transfers : SagaStep(t) \/ Resume(t) \/ OperatorReverses(t)
  <2>1. ASSUME NEW t \in Transfers,
               Load(t) \/ LoadFails(t) \/ WaitBurn(t) \/ WaitMint(t) \/ UpdateStatus(t)
        PROVE  UNCHANGED <<posted, sent, fate>>
    BY <2>1 DEF Load, LoadFails, WaitBurn, WaitMint, Wait, UpdateStatus, ledgerVars, chainVars
  <2>2. \A t \in Transfers : ~Resume(t) /\ ~OperatorReverses(t)
    BY DEF Resume, OperatorReverses, Spend, NoIsNo
  <2> QED
    BY <1>3, <2>1, <2>2, LedgerCallIsStep, ChainCallUnseen, BystanderUnseen DEF SagaStep
<1>4. CASE \E h \in 1..Len(sent) : Mined(h) \/ Dropped(h)
  <2> PICK h \in 1..Len(sent) : Mined(h) \/ Dropped(h)
    BY <1>4
  <2>1. posted' = posted /\ (Execute(h) \/ Revert(h) \/ Drop(h))
    BY DEF Mined, Dropped, bridgeVars, ledgerVars
  <2>2. CASE Execute(h)
    BY <2>1, <2>2, ExecutionIsStep
  <2>3. CASE Revert(h) \/ Drop(h)
    BY <2>1, <2>3, NothingRan, Unseen DEF IInv
  <2> QED
    BY <2>1, <2>2, <2>3
<1>5. CASE \E w \in Wallets, s \in {"ACTIVE", "FROZEN", "CLOSED"} : SetWalletStatus(w, s)
  BY <1>5, BystanderUnseen DEF SetWalletStatus, chainVars
<1>6. CASE Crash \/ ChainAdmin \/ Holder
  BY <1>6, BystanderUnseen
  DEF Crash, ChainAdmin, Holder, TogglePause, ToggleBlacklist, ApproveDelegate, HolderMoves,
      ledgerVars, chainVars
<1> QED
  BY <1>1, <1>2, <1>3, <1>4, <1>5, <1>6 DEF Next

\* The bridge keeps the promise of Custody: the ledger leg before the chain leg,
\* burned before minted, and each transfer ended once.
THEOREM BridgeImplementsCustody ==
  ASSUME NoIsNo
  PROVE  Spec => ImplementsCustody
<1>1. ASSUME Init  PROVE C!CInit
  <2>1. \A t \in Transfers : Legs(t) = {} /\ Unstarted(t)
    BY <1>1 DEF Init, ChainInit, Legs, Has, Unstarted, Burns, Mints, Refunds, Sends
  <2>2. \A t \in Transfers : InLedger(t) = "none" /\ OnChain(t) = "untouched"
    BY <2>1, PhaseSeen
  <2> QED
    BY <2>2 DEF C!CInit
<1>2. IInv /\ [Next]_vars => [C!CNext]_C!custody
  BY StepIsStep
<1> QED
  BY <1>1, <1>2, Invariance, PTL DEF Spec, ImplementsCustody, C!CSpec

(***************************************************************************)
(* Whatever goes wrong, no correlation id takes effect twice: this one     *)
(* rests on the contracts alone and needs no assumption on Mishaps.        *)
(***************************************************************************)
\* The chain a kind of transaction is sent to is fixed by the order, as is its
\* amount, and what has been executed has left its marker there.
ChainFor(kind, id) ==
  IF kind = "mint" /\ id[2] = "own" THEN TargetChain(id[1]) ELSE SourceChain(id[1])

Marked ==
  /\ DOMAIN processed = Chain
  /\ \A h \in 1..Len(sent) :
       /\ sent[h].chain = ChainFor(sent[h].kind, sent[h].id)
       /\ sent[h].amount = Order[sent[h].id[1]].amount
       /\ sent[h].kind = "burn" => sent[h].id[2] = "own"
       /\ fate[h] = "done" => Marker(sent[h]) \in processed[sent[h].chain]

Guarded == TypeOK /\ OnlyBridgesBurn /\ Marked /\ ReplayGuarded

\* A step that executes nothing and sends nothing keeps what is marked.
LEMMA GuardStill ==
  ASSUME Guarded, UNCHANGED <<sent, processed>>,
         \A h \in 1..Len(sent) : fate'[h] = "done" => fate[h] = "done"
  PROVE  Marked' /\ ReplayGuarded'
BY DEF Guarded, Marked, ReplayGuarded, ChainFor, TargetChain, SourceChain

\* A new transaction is pending, and goes where its kind goes.
LEMMA GuardSends ==
  ASSUME Guarded, NEW t \in Transfers, BridgeBurn(t) \/ BridgeMint(t) \/ Refund(t)
  PROVE  Marked' /\ ReplayGuarded'
<1>1. TypeOK /\ Len(sent) \in Nat
  BY DEF Guarded, TypeOK
<1>2. ASSUME NEW tx \in Txs, NEW pc, NEW yes, NEW no, Submit(t, pc, tx, yes, no),
             tx.chain = ChainFor(tx.kind, tx.id), tx.amount = Order[tx.id[1]].amount,
             tx.kind = "burn" => tx.id[2] = "own"
      PROVE  Marked' /\ ReplayGuarded'
  <2>1. CASE Submitted(tx)
    <3>1. /\ Len(sent') = Len(sent) + 1
          /\ \A h \in 1..Len(sent) : sent'[h] = sent[h] /\ fate'[h] = fate[h]
          /\ sent'[Len(sent)+1] = tx /\ fate'[Len(sent)+1] = "pending"
      BY <1>1, <2>1, NewSend
    <3>2. processed' = processed
      BY <2>1 DEF Submitted, contractVars
    <3>3. \A h \in 1..Len(sent') : h \in 1..Len(sent) \/ h = Len(sent) + 1
      BY <1>1, <3>1
    <3>4. Marked'
      BY <1>2, <3>1, <3>2, <3>3 DEF Guarded, Marked, ChainFor, TargetChain, SourceChain
    <3>5. ReplayGuarded'
      BY <3>1, <3>3 DEF Guarded, ReplayGuarded
    <3> QED
      BY <3>4, <3>5
  <2>2. CASE UNCHANGED chainVars
    BY <2>2, GuardStill DEF chainVars, contractVars
  <2> QED
    BY <1>2, <2>1, <2>2 DEF Submit
<1>3. "burn" \in Kind /\ "mint" \in Kind /\ "own" \in Tag /\ "compensation" \in Tag
  BY DEF Kind, Tag
<1>4. CASE BridgeMint(t)
  <2> DEFINE tx == Tx(t, TargetChain(t), "mint", "own")
  <2>1. TargetChain(t) \in Chain
    BY OrdersWellFormed DEF TargetChain
  <2>2. tx \in Txs /\ tx.kind = "mint" /\ tx.id = <<t, "own">>
    BY <1>3, <2>1, TxTyped
  <2>3. tx.chain = ChainFor(tx.kind, tx.id) /\ tx.amount = Order[tx.id[1]].amount
    BY <2>2 DEF ChainFor, Tx
  <2>4. Submit(t, "mint", tx, "mintSubmitted", MintFailed(t))
    BY <1>4 DEF BridgeMint
  <2> HIDE DEF tx
  <2> QED
    BY <1>2, <2>2, <2>3, <2>4
<1>5. ASSUME BridgeBurn(t) \/ Refund(t)  PROVE SourceChain(t) \in Chain
  <2>1. IsBridge(t)
    BY <1>5 DEF Guarded, OnlyBridgesBurn, BridgeBurn, Refund, Submit
  <2> QED
    BY <2>1, OrdersWellFormed DEF IsBridge, SourceChain
<1>6. CASE BridgeBurn(t)
  <2> DEFINE tx == Tx(t, SourceChain(t), "burn", "own")
  <2>1. tx \in Txs /\ tx.kind = "burn" /\ tx.id = <<t, "own">>
    BY <1>3, <1>5, <1>6, TxTyped
  <2>2. tx.chain = ChainFor(tx.kind, tx.id) /\ tx.amount = Order[tx.id[1]].amount
    BY <2>1 DEF ChainFor, Tx
  <2>3. Submit(t, "burn", tx, "waitBurn", "undo")
    BY <1>6 DEF BridgeBurn
  <2> HIDE DEF tx
  <2> QED
    BY <1>2, <2>1, <2>2, <2>3
<1>7. CASE Refund(t)
  <2> DEFINE tx == Tx(t, SourceChain(t), "mint", "compensation")
  <2>1. tx \in Txs /\ tx.kind = "mint" /\ tx.id = <<t, "compensation">>
    BY <1>3, <1>5, <1>7, TxTyped
  <2>2. tx.chain = ChainFor(tx.kind, tx.id) /\ tx.amount = Order[tx.id[1]].amount
    BY <2>1 DEF ChainFor, Tx
  <2>3. Submit(t, "refund", tx, "compensate", "failed")
    BY <1>7 DEF Refund
  <2> HIDE DEF tx
  <2> QED
    BY <1>2, <2>1, <2>2, <2>3
<1> QED
  BY <1>4, <1>6, <1>7

\* An execution finds no marker of its own and leaves one.
LEMMA GuardExecutes ==
  ASSUME Guarded, NEW h \in 1..Len(sent), Execute(h)
  PROVE  Marked' /\ ReplayGuarded'
<1>1. /\ \A i \in 1..Len(sent) : i # h => fate'[i] = fate[i]
      /\ fate'[h] = "done" /\ fate[h] = "pending" /\ sent' = sent
  BY Decided DEF Execute, Fated, Guarded, Fates
<1>2. sent \in Seq(Txs) /\ Marked /\ ReplayGuarded
  BY DEF Guarded, TypeOK, Txs, Tag
<1>3. sent[h] \in Txs
  BY <1>2
<1>4. /\ Marker(sent[h]) \notin processed[sent[h].chain]
      /\ processed' = [processed EXCEPT ![sent[h].chain] =
                         processed[sent[h].chain] \union {Marker(sent[h])}]
  BY DEF Execute, Executable
<1>5. \A i \in 1..Len(sent) : fate[i] = "done" => Marker(sent[i]) # Marker(sent[h]) \/ sent[i].chain # sent[h].chain
  BY <1>2, <1>4 DEF Marked
<1>6. \A i \in 1..Len(sent) : fate[i] = "done" /\ sent[i].kind = sent[h].kind => sent[i].id # sent[h].id
  BY <1>2, <1>5 DEF Marker, Marked
<1>7. ReplayGuarded'
  BY <1>1, <1>2, <1>6 DEF ReplayGuarded
<1>8. \A i \in 1..Len(sent) : Marker(sent[i])' = Marker(sent[i])
  BY <1>1 DEF Marker
<1>9. \A c \in Chain : processed'[c] = IF c = sent[h].chain
                                       THEN processed[c] \union {Marker(sent[h])} ELSE processed[c]
  BY <1>2, <1>4 DEF Marked
<1>10. \A i \in 1..Len(sent) : sent[i].chain \in Chain
  <2>1. \A i \in 1..Len(sent) : sent[i] \in Txs
    BY <1>2
  <2> QED
    BY <2>1 DEF Txs
<1>11. \A i \in 1..Len(sent) : fate'[i] = "done" => Marker(sent[i]) \in processed'[sent[i].chain]
  BY <1>1, <1>2, <1>9, <1>10 DEF Marked
<1>12. \A i \in 1..Len(sent) : ChainFor(sent[i].kind, sent[i].id)' = ChainFor(sent[i].kind, sent[i].id)
  BY <1>1 DEF ChainFor, TargetChain, SourceChain
<1>13. Marked'
  BY <1>1, <1>2, <1>4, <1>8, <1>11, <1>12 DEF Marked
<1> QED
  BY <1>7, <1>13

\* Only a bridge ever gets to a burn or a refund, sagas run again included.
LEMMA BurnsKept ==
  ASSUME TypeOK, OnlyBridgesBurn, Next
  PROVE  OnlyBridgesBurn'
<1> DEFINE Steps == {"out", "burn", "waitBurn", "refund"}
<1>1. saga \in [Transfers -> Running \union {"none", "over", "dead"}]
  BY DEF TypeOK
<1>2. ASSUME \A u \in Transfers : saga'[u] \in Steps => saga[u] \in Steps
      PROVE  OnlyBridgesBurn'
  BY <1>2 DEF OnlyBridgesBurn, IsBridge
<1>3. ASSUME NEW t \in Transfers, SagaStep(t)  PROVE OnlyBridgesBurn'
  <2>1. PICK pc : /\ saga' = [saga EXCEPT ![t] = pc]
                  /\ pc \in Steps => saga[t] \in Steps \/ IsBridge(t)
    BY <1>3
    DEF SagaStep, Load, LoadFails, BridgeOut, Credit, Undo, BridgeCompensate, Books, BridgeBurn,
        BridgeMint, Refund, Submit, WaitBurn, WaitMint, Wait, UpdateStatus, Goto, MintFailed, Writes
  <2>2. \A u \in Transfers \ {t} : saga'[u] = saga[u]
    BY <1>1, <2>1
  <2>3. saga'[t] = pc
    BY <1>1, <2>1
  <2> QED
    BY <2>1, <2>2, <2>3 DEF OnlyBridgesBurn, IsBridge
<1>4. ASSUME NEW r \in Requests, InsertRow(r)  PROVE OnlyBridgesBurn'
  <2>1. r[1] \in Transfers /\ (saga' = saga \/ saga' = [saga EXCEPT ![r[1]] = "load"])
    BY <1>4 DEF InsertRow, Goto, Requests
  <2> QED
    BY <1>1, <1>2, <2>1
<1>5. ASSUME NEW t \in Transfers, Resume(t)  PROVE OnlyBridgesBurn'
  <2>1. saga' = [saga EXCEPT ![t] = "load"]
    BY <1>5 DEF Resume, Goto
  <2> QED
    BY <1>1, <1>2, <2>1
<1>6. CASE Crash
  <2>1. \A u \in Transfers : saga'[u] = "dead" \/ saga'[u] = saga[u]
    BY <1>6 DEF Crash
  <2> QED
    BY <1>2, <2>1
<1>7. CASE UNCHANGED saga
  BY <1>2, <1>7
<1> QED
  BY <1>3, <1>4, <1>5, <1>6, <1>7
  DEF Next, Issue, BridgeTransfer, InsertFails, OperatorReverses, ChainAdmin, Holder, Mined, Dropped,
      SetWalletStatus, bridgeVars

\* Every step keeps the markers and the guard.
LEMMA GuardKept ==
  ASSUME Guarded, Next
  PROVE  Marked' /\ ReplayGuarded'
<1>1. ASSUME UNCHANGED <<sent, fate, processed>>  PROVE Marked' /\ ReplayGuarded'
  BY <1>1, GuardStill
<1>2. CASE \E r \in Requests : Issue(r) \/ BridgeTransfer(r) \/ InsertRow(r) \/ InsertFails(r)
  BY <1>1, <1>2 DEF Issue, BridgeTransfer, InsertRow, InsertFails, chainVars, contractVars
<1>3. ASSUME NEW t \in Transfers, SagaStep(t) \/ Resume(t) \/ OperatorReverses(t)
      PROVE  Marked' /\ ReplayGuarded'
  <2>1. CASE BridgeBurn(t) \/ BridgeMint(t) \/ Refund(t)
    BY <2>1, GuardSends
  <2>2. CASE ~(BridgeBurn(t) \/ BridgeMint(t) \/ Refund(t))
    BY <1>1, <1>3, <2>2
    DEF SagaStep, Load, LoadFails, BridgeOut, Credit, Undo, BridgeCompensate, Books, WaitBurn, WaitMint,
        Wait, UpdateStatus, Resume, OperatorReverses, chainVars, contractVars
  <2> QED
    BY <2>1, <2>2
<1>4. ASSUME NEW h \in 1..Len(sent), Mined(h) \/ Dropped(h)  PROVE Marked' /\ ReplayGuarded'
  <2>1. CASE Execute(h)
    BY <2>1, GuardExecutes
  <2>2. CASE Revert(h) \/ Drop(h)
    <3>1. PICK f \in {"reverted", "dropped"} : Fated(h, f)
      BY <2>2 DEF Revert, Drop
    <3>2. \A i \in 1..Len(sent) : fate'[i] = "done" => fate[i] = "done"
      BY <3>1, Decided DEF Fates, Guarded
    <3> QED
      BY <2>2, <3>1, <3>2, GuardStill DEF Revert, Drop, Fated, contractVars
  <2> QED
    BY <1>4, <2>1, <2>2 DEF Mined, Dropped
<1>5. CASE ChainAdmin \/ Holder
  BY <1>1, <1>5 DEF ChainAdmin, Holder, TogglePause, ToggleBlacklist, ApproveDelegate, HolderMoves
<1>6. CASE Crash \/ \E w \in Wallets, s \in {"ACTIVE", "FROZEN", "CLOSED"} : SetWalletStatus(w, s)
  BY <1>1, <1>6 DEF Crash, SetWalletStatus, chainVars, contractVars
<1> QED
  BY <1>2, <1>3, <1>4, <1>5, <1>6 DEF Next

LEMMA Guarding == Spec => []Guarded
<1>1. ASSUME Init  PROVE Guarded
  <2>1. TypeOK
    BY <1>1, IInvInit DEF IInv
  <2>2. sent = << >> /\ processed = [c \in Chain |-> {}] /\ \A t \in Transfers : saga[t] = "none"
    BY <1>1 DEF Init, ChainInit
  <2> QED
    BY <2>1, <2>2 DEF Guarded, OnlyBridgesBurn, Marked, ReplayGuarded
<1>2. ASSUME Guarded, UNCHANGED vars  PROVE Guarded'
  <2>1. Marked' /\ ReplayGuarded'
    BY <1>2, GuardStill DEF vars, chainVars, contractVars
  <2>2. TypeOK' /\ OnlyBridgesBurn'
    BY <1>2 DEF Guarded, TypeOK, OnlyBridgesBurn, IsBridge, vars, bridgeVars, chainVars, contractVars
  <2> QED
    BY <2>1, <2>2 DEF Guarded
<1>3. Guarded /\ [Next]_vars => Guarded'
  BY <1>2, TypeKept, BurnsKept, GuardKept DEF Guarded
<1> QED
  BY <1>1, <1>3, PTL DEF Spec

\* No correlation id is minted or burned twice, however often a saga is run again,
\* a wait is given up or a reply is lost; and every variable keeps its type.
THEOREM NothingTakesEffectTwice == Spec => [](TypeOK /\ ReplayGuarded)
<1>1. Guarded => TypeOK /\ ReplayGuarded
  BY DEF Guarded
<1> QED
  BY <1>1, Guarding, PTL

(***************************************************************************)
(* The books in numbers.  Every figure of the journal is a sum of amounts  *)
(* over a set of transfers, those that have posted a leg or executed a     *)
(* transaction, so that what is due of two figures is due of each transfer.*)
(***************************************************************************)
LEMMA Amounts ==
  /\ IsFiniteSet(Transfers) /\ \A t \in Transfers : Amount[t] = Order[t].amount /\ Amount[t] \in Nat
  /\ \A T \in SUBSET Transfers : IsFiniteSet(T) /\ Sum(T) \in Nat
<1>1. IsFiniteSet(Transfers) /\ \A t \in Transfers : Amount[t] = Order[t].amount /\ Amount[t] \in Nat
  BY OrdersWellFormed DEF Amount
<1>2. ASSUME NEW T \in SUBSET Transfers  PROVE IsFiniteSet(T) /\ Sum(T) \in Nat
  BY <1>1, FS_Subset, SumIsNat DEF Sum
<1> QED BY <1>1, <1>2

\* One transfer more counts once.
LEMMA SumJoins ==
  ASSUME NEW T \in SUBSET Transfers, NEW t \in Transfers
  PROVE  Sum(T \union {t}) = IF t \in T THEN Sum(T) ELSE Sum(T) + Order[t].amount
<1>1. CASE t \in T
  <2>1. T \union {t} = T
    BY <1>1
  <2> QED BY <1>1, <2>1
<1>2. CASE t \notin T
  <2>1. IsFiniteSet(T) /\ \A u \in T \union {t} : Amount[u] \in Int
    BY Amounts
  <2>2. Sum(T \union {t}) = Sum(T) + Amount[t]
    BY <1>2, <2>1, SumAdds DEF Sum
  <2> QED BY <1>2, <2>2, Amounts
<1> QED BY <1>1, <1>2

\* Only a leg the engine takes, or one already there, enters the journal.
LEMMA OnlyPostable ==
  ASSUME [Next]_vars
  PROVE  \/ posted' = posted
         \/ \E leg \in Leg, t \in Transfers :
              (Has(leg, t) \/ Postable(leg, t)) /\ posted' = posted \union {<<leg, t>>}
<1>1. ASSUME NEW leg \in Leg, NEW t \in Transfers, Post(leg, t) \/ Refuse(leg, t)
      PROVE  \/ posted' = posted
             \/ (Has(leg, t) \/ Postable(leg, t)) /\ posted' = posted \union {<<leg, t>>}
  BY <1>1 DEF Post, Refuse, ledgerVars
<1>2. "reserve" \in Leg /\ "deliver" \in Leg /\ "undo" \in Leg /\ "compensate" \in Leg
  BY DEF Leg
<1>3. CASE \E r \in Requests : Issue(r) \/ BridgeTransfer(r) \/ InsertRow(r) \/ InsertFails(r)
  <2> PICK r \in Requests : Issue(r) \/ BridgeTransfer(r) \/ InsertRow(r) \/ InsertFails(r)
    BY <1>3
  <2>1. r[1] \in Transfers
    BY DEF Requests
  <2> QED
    BY <1>1, <1>2, <2>1 DEF Issue, BridgeTransfer, InsertRow, InsertFails, ledgerVars
<1>4. CASE \E t \in Transfers : SagaStep(t) \/ Resume(t) \/ OperatorReverses(t)
  <2> PICK t \in Transfers : SagaStep(t) \/ Resume(t) \/ OperatorReverses(t)
    BY <1>4
  <2>1. CASE BridgeOut(t) \/ Credit(t) \/ Undo(t) \/ BridgeCompensate(t)
    BY <1>1, <1>2, <2>1 DEF BridgeOut, Credit, Undo, BridgeCompensate, Books
  <2>2. CASE OperatorReverses(t)
    BY <1>2, <2>2 DEF OperatorReverses
  <2>3. CASE ~(BridgeOut(t) \/ Credit(t) \/ Undo(t) \/ BridgeCompensate(t) \/ OperatorReverses(t))
    BY <2>3 DEF SagaStep, Load, LoadFails, BridgeBurn, BridgeMint, Refund, Submit, WaitBurn, WaitMint, Wait,
       UpdateStatus, Resume, ledgerVars
  <2> QED BY <2>1, <2>2, <2>3
<1>5. CASE \/ \E h \in 1..Len(sent) : Mined(h) \/ Dropped(h)
           \/ \E w \in Wallets, s \in {"ACTIVE", "FROZEN", "CLOSED"} : SetWalletStatus(w, s)
           \/ Crash \/ ChainAdmin \/ Holder \/ UNCHANGED vars
  BY <1>5 DEF Mined, Dropped, SetWalletStatus, Crash, ChainAdmin, Holder, vars, bridgeVars, ledgerVars
<1> QED BY <1>3, <1>4, <1>5 DEF Next

\* The transfers of a wallet that have posted a leg.
From(w, leg) == {t \in Transfers : Order[t].source = w /\ Has(leg, t)}
Into(w) == {t \in Transfers : Order[t].target = w /\ Has("deliver", t)}

\* Posting a leg that is not there moves one balance.
LEMMA LegMoves ==
  ASSUME NEW leg \in Leg, NEW t \in Transfers, NEW w \in Wallets, ~Has(leg, t),
         posted' = posted \union {<<leg, t>>}
  PROVE  Balance(w)' =
           IF leg = "reserve" /\ Order[t].source = w THEN Balance(w) - Order[t].amount
           ELSE IF leg = "deliver" /\ Order[t].target = w THEN Balance(w) + Order[t].amount
           ELSE IF leg \in {"undo", "compensate"} /\ Order[t].source = w THEN Balance(w) + Order[t].amount
           ELSE Balance(w)
<1>1. \A l \in Leg : From(w, l)' = IF l = leg /\ Order[t].source = w THEN From(w, l) \union {t} ELSE From(w, l)
  BY DEF From, Has
<1>2. Into(w)' = IF leg = "deliver" /\ Order[t].target = w THEN Into(w) \union {t} ELSE Into(w)
  BY DEF Into, Has
<1>3. t \notin From(w, leg) /\ (leg = "deliver" => t \notin Into(w))
  BY DEF From, Into
<1>4. \A l \in Leg : Sum(From(w, l)') = IF l = leg /\ Order[t].source = w
                                        THEN Sum(From(w, l)) + Order[t].amount ELSE Sum(From(w, l))
  <2> TAKE l \in Leg
  <2>1. From(w, l) \in SUBSET Transfers
    BY DEF From
  <2> QED BY <1>1, <1>3, <2>1, SumJoins
<1>5. Sum(Into(w)') = IF leg = "deliver" /\ Order[t].target = w THEN Sum(Into(w)) + Order[t].amount ELSE Sum(Into(w))
  <2>1. Into(w) \in SUBSET Transfers
    BY DEF Into
  <2> QED BY <1>2, <1>3, <2>1, SumJoins
<1>6. /\ \A l \in Leg : Sum(From(w, l)) \in Nat
      /\ Sum(Into(w)) \in Nat /\ Opening[w] \in Nat /\ Order[t].amount \in Nat
  <2>1. Into(w) \in SUBSET Transfers /\ \A l \in Leg : From(w, l) \in SUBSET Transfers
    BY DEF Into, From
  <2> QED BY <2>1, Amounts, OrdersWellFormed
<1>7. Balance(w) = Opening[w] - Sum(From(w, "reserve")) + Sum(From(w, "undo"))
                   + Sum(From(w, "compensate")) + Sum(Into(w))
  BY DEF Balance, From, Into
<1>8. Balance(w)' = Opening[w] - Sum(From(w, "reserve")') + Sum(From(w, "undo")')
                    + Sum(From(w, "compensate")') + Sum(Into(w)')
  BY DEF Balance, From, Into, Sum, Amount, Has
<1>9. leg \in {"reserve", "deliver", "undo", "compensate"} /\ Leg = {"reserve", "deliver", "undo", "compensate"}
  BY DEF Leg
<1> HIDE DEF From, Into, Sum
<1> QED BY <1>4, <1>5, <1>6, <1>7, <1>8, <1>9

LEMMA BalanceIsInt ==
  ASSUME NEW w \in Wallets
  PROVE  Balance(w) \in Int
<1>1. Into(w) \in SUBSET Transfers /\ \A l \in Leg : From(w, l) \in SUBSET Transfers
  BY DEF Into, From
<1>2. Sum(Into(w)) \in Nat /\ \A l \in Leg : Sum(From(w, l)) \in Nat
  BY <1>1, Amounts
<1> QED BY <1>2, OrdersWellFormed DEF Balance, From, Into, Leg

\* Whatever fails, races or is run twice, no wallet is overdrawn: the reserving
\* leg alone takes from a wallet, and the engine takes it only if funded.
THEOREM NeverOverdrawn == Spec => []NoOverdraft
<1>1. ASSUME Init  PROVE NoOverdraft
  <2> SUFFICES ASSUME NEW w \in Wallets  PROVE Balance(w) >= 0
    BY DEF NoOverdraft
  <2>1. Into(w) = {} /\ \A l \in Leg : From(w, l) = {}
    BY <1>1 DEF Init, Into, From, Has
  <2>2. Sum({}) = 0
    BY SumOfNothing DEF Sum
  <2>3. Balance(w) = Opening[w] - Sum(From(w, "reserve")) + Sum(From(w, "undo"))
                     + Sum(From(w, "compensate")) + Sum(Into(w))
    BY DEF Balance, From, Into
  <2>4. From(w, "reserve") = {} /\ From(w, "undo") = {} /\ From(w, "compensate") = {}
    BY <2>1 DEF Leg
  <2>5. Opening[w] \in Nat
    BY OrdersWellFormed
  <2>6. /\ Sum(From(w, "reserve")) = 0 /\ Sum(From(w, "undo")) = 0
        /\ Sum(From(w, "compensate")) = 0 /\ Sum(Into(w)) = 0
    BY <2>1, <2>2, <2>4
  <2> QED BY <2>3, <2>5, <2>6
<1>2. ASSUME NoOverdraft, [Next]_vars  PROVE NoOverdraft'
  <2> SUFFICES ASSUME NEW w \in Wallets  PROVE Balance(w)' >= 0
    BY DEF NoOverdraft
  <2>1. Balance(w) >= 0 /\ Balance(w) \in Int
    BY <1>2, BalanceIsInt DEF NoOverdraft
  <2>2. CASE posted' = posted
    BY <2>1, <2>2 DEF Balance, Sum, Amount, Has
  <2>3. ASSUME NEW leg \in Leg, NEW t \in Transfers, Has(leg, t) \/ Postable(leg, t),
               posted' = posted \union {<<leg, t>>}
        PROVE  Balance(w)' >= 0
    <3>1. CASE Has(leg, t)
      <4>1. posted' = posted
        BY <2>3, <3>1 DEF Has
      <4> QED BY <2>2, <4>1
    <3>2. CASE ~Has(leg, t)
      <4>1. leg = "reserve" /\ Order[t].source = w => Balance(w) >= Order[t].amount
        BY <2>3, <3>2 DEF Postable
      <4>2. Order[t].amount \in Nat
        BY OrdersWellFormed
      <4> HIDE DEF Balance
      <4> QED BY <2>1, <2>3, <3>2, <4>1, <4>2, LegMoves
    <3> QED BY <3>1, <3>2
  <2> QED BY <1>2, <2>2, <2>3, OnlyPostable
<1> QED BY <1>1, <1>2, PTL DEF Spec
(***************************************************************************)
(* The supply is what the executed transactions leave.                     *)
(***************************************************************************)
LEMMA HoldingsFinite == IsFiniteSet(Chain \X Addresses)
<1>1. IsFiniteSet({"ETHEREUM"})
  BY FS_Singleton
<1>2. IsFiniteSet({"ETHEREUM"} \union {"SOLANA"})
  BY <1>1, FS_AddElement
<1>3. Chain = {"ETHEREUM"} \union {"SOLANA"}
  BY DEF Chain
<1> QED BY <1>2, <1>3, TokensAtStart, FS_Product

LEMMA HoldingsAreInts ==
  ASSUME NEW old \in [Chain -> [Addresses -> Nat]]
  PROVE  old \in [Chain -> [Addresses -> Int]]
<1>1. \A c \in Chain : old[c] \in [Addresses -> Nat]
  OBVIOUS
<1>2. \A c \in Chain : old[c] \in [Addresses -> Int]
  BY <1>1
<1> QED BY <1>2

\* Tokens changing at one address change the supply by as much.
LEMMA SupplyChanges ==
  ASSUME NEW old \in [Chain -> [Addresses -> Int]], NEW new \in [Chain -> [Addresses -> Int]],
         NEW c \in Chain, NEW a \in Addresses,
         \A d \in Chain, b \in Addresses : d # c \/ b # a => new[d][b] = old[d][b]
  PROVE  TokensIn(new) = TokensIn(old) + (new[c][a] - old[c][a])
<1> DEFINE S == Chain \X Addresses
           fun == [x \in S |-> old[x[1]][x[2]]]
           gun == [x \in S |-> new[x[1]][x[2]]]
<1>1. IsFiniteSet(S)
  BY HoldingsFinite
<1>2. <<c, a>> \in S /\ fun[<<c, a>>] = old[c][a] /\ gun[<<c, a>>] = new[c][a]
  OBVIOUS
<1>3. \A x \in S : fun[x] \in Int /\ gun[x] \in Int
  OBVIOUS
<1>4. \A x \in S \ {<<c, a>>} : gun[x] = fun[x]
  OBVIOUS
<1>5. TokensIn(old) = SumFunctionOnSet(fun, S) /\ TokensIn(new) = SumFunctionOnSet(gun, S)
  BY DEF TokensIn, SumFunction
<1>6. SumFunctionOnSet(gun, S) = SumFunctionOnSet(fun, S) + (gun[<<c, a>>] - fun[<<c, a>>])
  <2> HIDE DEF fun, gun, S
  <2> QED BY <1>1, <1>2, <1>3, <1>4, SumChanges
<1> QED BY <1>2, <1>5, <1>6

LEMMA SupplyIsInt ==
  ASSUME NEW old \in [Chain -> [Addresses -> Int]]
  PROVE  TokensIn(old) \in Int
<1> DEFINE S == Chain \X Addresses
           fun == [x \in S |-> old[x[1]][x[2]]]
<1>1. IsFiniteSet(S)
  BY HoldingsFinite
<1>2. \A x \in S : fun[x] \in Int
  OBVIOUS
<1>3. TokensIn(old) = SumFunctionOnSet(fun, S)
  BY DEF TokensIn, SumFunction
<1> HIDE DEF fun, S
<1> QED BY <1>1, <1>2, <1>3, SumIsInt

LEMMA CirculationIsInt == InitialCirculation \in Int
<1>1. OpeningTokens \in [Chain -> [Addresses -> Int]]
  BY TokensAtStart, HoldingsAreInts
<1> QED BY <1>1, SupplyIsInt, BooksAgreeAtStart

\* A holder's own transfer leaves the supply as it is.
LEMMA HolderKeepsSupply ==
  ASSUME TypeOK, NEW c \in Chain, NEW a \in Addresses, NEW b \in Addresses, HolderMoves(c, a, b)
  PROVE  Supply' = Supply
<1> DEFINE mid == [tokens EXCEPT ![c] = [tokens[c] EXCEPT ![a] = tokens[c][a] - 1]]
<1>1. tokens \in [Chain -> [Addresses -> Int]] /\ tokens[c][a] \in Int /\ tokens[c][b] \in Int /\ a # b
  BY DEF TypeOK, HolderMoves
<1>2. tokens' = [tokens EXCEPT ![c] = [[tokens[c] EXCEPT ![a] = tokens[c][a] - 1]
                                         EXCEPT ![b] = tokens[c][b] + 1]]
  BY <1>1 DEF HolderMoves
<1>3. mid \in [Chain -> [Addresses -> Int]] /\ tokens' \in [Chain -> [Addresses -> Int]]
  BY <1>1, <1>2
<1>4. /\ \A d \in Chain, x \in Addresses : d # c \/ x # a => mid[d][x] = tokens[d][x]
      /\ mid[c][a] = tokens[c][a] - 1
  BY <1>1
<1>5. /\ \A d \in Chain, x \in Addresses : d # c \/ x # b => tokens'[d][x] = mid[d][x]
      /\ tokens'[c][b] = mid[c][b] + 1 /\ mid[c][b] \in Int
  BY <1>1, <1>2
<1>6. TokensIn(mid) = TokensIn(tokens) - 1
  <2> HIDE DEF mid
  <2>1. TokensIn(mid) = TokensIn(tokens) + (mid[c][a] - tokens[c][a])
    BY <1>1, <1>3, <1>4, SupplyChanges
  <2> QED BY <1>1, <1>4, <2>1, SupplyIsInt
<1>7. TokensIn(tokens') = TokensIn(mid) + 1
  <2> HIDE DEF mid
  <2>1. TokensIn(tokens') = TokensIn(mid) + (tokens'[c][b] - mid[c][b])
    BY <1>3, <1>5, SupplyChanges
  <2> QED BY <1>3, <1>5, <2>1, SupplyIsInt
<1>8. TokensIn(tokens) \in Int
  BY <1>1, SupplyIsInt
<1> HIDE DEF mid
<1> QED BY <1>6, <1>7, <1>8 DEF Supply

\* Who has executed what.
Minters == {t \in Transfers : Minted(t)}
Reminters == {t \in Transfers : Reminted(t)}
Burners == {t \in Transfers : Burned(t)}

LEMMA SupplyStill ==
  ASSUME TokensAccounted, Supply' = Supply, \A kind, id : Ran(kind, id)' <=> Ran(kind, id)
  PROVE  TokensAccounted'
<1>1. /\ {t \in Transfers : Minted(t)}' = {t \in Transfers : Minted(t)}
      /\ {t \in Transfers : Reminted(t)}' = {t \in Transfers : Reminted(t)}
      /\ {t \in Transfers : Burned(t)}' = {t \in Transfers : Burned(t)}
  BY DEF Minted, Reminted, Burned
<1> QED BY <1>1 DEF TokensAccounted, Sum, Amount, InitialCirculation, Tokened

\* An execution mints or burns the amount of its transfer, for the first time.
LEMMA SupplyExecutes ==
  ASSUME Guarded, ReplayGuarded', TokensAccounted, NEW h \in 1..Len(sent), Execute(h)
  PROVE  TokensAccounted'
<1> DEFINE tx == sent[h]
           c == tx.chain
           a == tx.address
           t == tx.id[1]
<1>1. /\ \A i \in 1..Len(sent) : i # h => fate'[i] = fate[i]
      /\ fate'[h] = "done" /\ fate[h] = "pending" /\ sent' = sent
  BY Decided DEF Execute, Fated, Guarded, Fates
<1>2. sent \in Seq(Txs) /\ TypeOK /\ Marked
  BY DEF Guarded, TypeOK, Txs, Tag
<1>3. tx \in Txs
  BY <1>2
<1>4. /\ c \in Chain /\ a \in Addresses /\ t \in Transfers /\ tx.kind \in {"mint", "burn"}
      /\ tx.id = <<t, tx.id[2]>> /\ tx.id[2] \in Tag
  BY <1>3 DEF Txs, Kind
<1>5. tx.amount = Order[t].amount /\ (tx.kind = "burn" => tx.id[2] = "own") /\ Order[t].amount \in Nat
  BY <1>2, <1>4, OrdersWellFormed DEF Marked
<1>6. TokensIn(tokens') = TokensIn(tokens) + Moved(tx)
  <2>1. tokens' = [tokens EXCEPT ![c] = [tokens[c] EXCEPT ![a] = tokens[c][a] + Moved(tx)]]
    BY DEF Execute
  <2>2. Moved(tx) \in Int /\ tokens[c][a] \in Int /\ tokens \in [Chain -> [Addresses -> Int]]
    <3>1. tokens \in [Chain -> [Addresses -> Nat]]
      BY <1>2 DEF TypeOK
    <3>2. tokens \in [Chain -> [Addresses -> Int]]
      BY <3>1, HoldingsAreInts
    <3>3. tx.amount \in Int /\ -tx.amount \in Int
      BY <1>5
    <3> QED BY <1>4, <3>2, <3>3 DEF Moved
  <2> HIDE DEF tx, c, a
  <2>3. /\ tokens' \in [Chain -> [Addresses -> Int]] /\ tokens'[c][a] = tokens[c][a] + Moved(tx)
        /\ \A d \in Chain, b \in Addresses : d # c \/ b # a => tokens'[d][b] = tokens[d][b]
    BY <1>4, <2>1, <2>2
  <2>4. TokensIn(tokens') = TokensIn(tokens) + (tokens'[c][a] - tokens[c][a])
    BY <1>4, <2>2, <2>3, SupplyChanges
  <2> QED BY <2>2, <2>3, <2>4
<1>7. ~Ran(tx.kind, tx.id)
  BY <1>1 DEF ReplayGuarded, Ran
<1>8. \A kind, id : Ran(kind, id)' <=> Ran(kind, id) \/ (kind = tx.kind /\ id = tx.id)
  BY <1>1 DEF Ran
<1> HIDE DEF tx, c, a, t
<1>9. /\ Minters' = IF tx.kind = "mint" /\ tx.id[2] = "own" THEN Minters \union {t} ELSE Minters
      /\ Reminters' = IF tx.kind = "mint" /\ tx.id[2] = "compensation" THEN Reminters \union {t} ELSE Reminters
      /\ Burners' = IF tx.kind = "burn" THEN Burners \union {t} ELSE Burners
  BY <1>4, <1>5, <1>8 DEF Minters, Reminters, Burners, Minted, Reminted, Burned
<1>10. /\ tx.kind = "mint" /\ tx.id[2] = "own" => t \notin Minters
       /\ tx.kind = "mint" /\ tx.id[2] = "compensation" => t \notin Reminters
       /\ tx.kind = "burn" => t \notin Burners
  BY <1>4, <1>5, <1>7 DEF Minters, Reminters, Burners, Minted, Reminted, Burned
<1>11. Minters \in SUBSET Transfers /\ Reminters \in SUBSET Transfers /\ Burners \in SUBSET Transfers
  BY DEF Minters, Reminters, Burners
<1>12. Sum(Minters) \in Nat /\ Sum(Reminters) \in Nat /\ Sum(Burners) \in Nat
  BY <1>11, Amounts
<1>13. /\ Sum(Minters') = IF tx.kind = "mint" /\ tx.id[2] = "own"
                          THEN Sum(Minters) + Order[t].amount ELSE Sum(Minters)
       /\ Sum(Reminters') = IF tx.kind = "mint" /\ tx.id[2] = "compensation"
                            THEN Sum(Reminters) + Order[t].amount ELSE Sum(Reminters)
       /\ Sum(Burners') = IF tx.kind = "burn" THEN Sum(Burners) + Order[t].amount ELSE Sum(Burners)
  BY <1>4, <1>9, <1>10, <1>11, SumJoins
<1>14. Supply = InitialCirculation + Sum(Minters) + Sum(Reminters) - Sum(Burners)
  BY DEF TokensAccounted, Minters, Reminters, Burners
<1>15. Moved(tx) = IF tx.kind = "mint" THEN Order[t].amount ELSE -Order[t].amount
  BY <1>5 DEF Moved
<1>16. TokensIn(tokens) \in Int /\ InitialCirculation \in Int
  <2>1. tokens \in [Chain -> [Addresses -> Nat]]
    BY <1>2 DEF TypeOK
  <2>2. tokens \in [Chain -> [Addresses -> Int]]
    BY <2>1, HoldingsAreInts
  <2> QED BY <2>2, SupplyIsInt, CirculationIsInt
<1>17. TokensIn(tokens') = InitialCirculation + Sum(Minters') + Sum(Reminters') - Sum(Burners')
  <2>1. TokensIn(tokens) = InitialCirculation + Sum(Minters) + Sum(Reminters) - Sum(Burners)
    BY <1>14 DEF Supply
  <2>2. Order[t].amount \in Nat
    BY <1>5
  <2>3. CASE tx.kind = "burn"
    <3>1. Moved(tx) = 0 - Order[t].amount
      BY <1>15, <2>2, <2>3
    <3>2. /\ Sum(Minters') = Sum(Minters) /\ Sum(Reminters') = Sum(Reminters)
          /\ Sum(Burners') = Sum(Burners) + Order[t].amount
      BY <1>13, <2>3
    <3> QED BY <1>6, <1>12, <1>16, <2>1, <2>2, <3>1, <3>2, SMTT(30)
  <2>4. CASE tx.kind = "mint" /\ tx.id[2] = "own"
    <3>1. Moved(tx) = Order[t].amount
      BY <1>15, <2>4
    <3>2. /\ Sum(Minters') = Sum(Minters) + Order[t].amount /\ Sum(Reminters') = Sum(Reminters)
          /\ Sum(Burners') = Sum(Burners)
      BY <1>13, <2>4
    <3> QED BY <1>6, <1>12, <1>16, <2>1, <2>2, <3>1, <3>2, SMTT(30)
  <2>5. CASE tx.kind = "mint" /\ tx.id[2] = "compensation"
    <3>1. Moved(tx) = Order[t].amount
      BY <1>15, <2>5
    <3>2. /\ Sum(Minters') = Sum(Minters) /\ Sum(Reminters') = Sum(Reminters) + Order[t].amount
          /\ Sum(Burners') = Sum(Burners)
      BY <1>13, <2>5
    <3> QED BY <1>6, <1>12, <1>16, <2>1, <2>2, <3>1, <3>2, SMTT(30)
  <2> QED BY <1>4, <2>3, <2>4, <2>5 DEF Tag
<1> QED BY <1>17 DEF TokensAccounted, Supply, Minters, Reminters, Burners, Sum, Amount, InitialCirculation, Tokened


\* A call of a chain sends a transaction or nothing.
LEMMA SendsOrStill ==
  ASSUME Guarded, NEW t \in Transfers, BridgeBurn(t) \/ BridgeMint(t) \/ Refund(t)
  PROVE  /\ UNCHANGED contractVars
         /\ \/ \E tx \in Txs : Submitted(tx)
            \/ UNCHANGED <<sent, fate>>
<1>1. "burn" \in Kind /\ "mint" \in Kind /\ "own" \in Tag /\ "compensation" \in Tag
  BY DEF Kind, Tag
<1>2. ASSUME NEW c \in Chain, NEW kind \in Kind, NEW tag \in Tag, NEW pc, NEW yes, NEW no,
             Submit(t, pc, Tx(t, c, kind, tag), yes, no)
      PROVE  /\ UNCHANGED contractVars
             /\ \/ \E tx \in Txs : Submitted(tx)
                \/ UNCHANGED <<sent, fate>>
  <2>1. Tx(t, c, kind, tag) \in Txs
    BY TxTyped
  <2>2. Submitted(Tx(t, c, kind, tag)) \/ UNCHANGED chainVars
    BY <1>2 DEF Submit
  <2> QED BY <2>1, <2>2 DEF Submitted, chainVars
<1>3. CASE BridgeMint(t)
  <2>1. TargetChain(t) \in Chain
    BY OrdersWellFormed DEF TargetChain
  <2> QED BY <1>1, <1>2, <1>3, <2>1 DEF BridgeMint
<1>4. CASE BridgeBurn(t) \/ Refund(t)
  <2>1. IsBridge(t)
    BY <1>4 DEF Guarded, OnlyBridgesBurn, BridgeBurn, Refund, Submit
  <2>2. SourceChain(t) \in Chain
    BY <2>1, OrdersWellFormed DEF IsBridge, SourceChain
  <2> QED BY <1>1, <1>2, <1>4, <2>2 DEF BridgeBurn, Refund
<1> QED BY <1>3, <1>4

\* Every step accounts for what it does to the supply.
LEMMA AccountKept ==
  ASSUME Guarded, TokensAccounted, [Next]_vars, ReplayGuarded'
  PROVE  TokensAccounted'
<1>1. TypeOK
  BY DEF Guarded
<1>2. CASE \E h \in 1..Len(sent) : Execute(h)
  BY <1>2, SupplyExecutes
<1>3. CASE \E c \in Chain, a, b \in Addresses : HolderMoves(c, a, b)
  <2> PICK c \in Chain, a \in Addresses, b \in Addresses : HolderMoves(c, a, b)
    BY <1>3
  <2>1. Supply' = Supply
    BY <1>1, HolderKeepsSupply
  <2>2. \A kind, id : Ran(kind, id)' <=> Ran(kind, id)
    BY <1>1, NothingRan DEF HolderMoves
  <2> QED BY <2>1, <2>2, SupplyStill
<1>4. CASE /\ tokens' = tokens
           /\ \/ \E h \in 1..Len(sent) : Revert(h) \/ Drop(h)
              \/ \E tx \in Txs : Submitted(tx)
              \/ UNCHANGED <<sent, fate>>
  <2>1. Supply' = Supply
    BY <1>4 DEF Supply, TokensIn
  <2>2. \A kind, id : Ran(kind, id)' <=> Ran(kind, id)
    BY <1>1, <1>4, NothingRan
  <2> QED BY <2>1, <2>2, SupplyStill
<1>5. ASSUME NEW t \in Transfers, BridgeBurn(t) \/ BridgeMint(t) \/ Refund(t)
      PROVE  /\ tokens' = tokens
             /\ \/ \E tx \in Txs : Submitted(tx)
                \/ UNCHANGED <<sent, fate>>
  BY <1>5, SendsOrStill DEF contractVars
<1>6. CASE \E t \in Transfers : SagaStep(t) \/ Resume(t) \/ OperatorReverses(t)
  <2> PICK t \in Transfers : SagaStep(t) \/ Resume(t) \/ OperatorReverses(t)
    BY <1>6
  <2>1. CASE BridgeBurn(t) \/ BridgeMint(t) \/ Refund(t)
    BY <1>4, <1>5, <2>1
  <2>2. CASE ~(BridgeBurn(t) \/ BridgeMint(t) \/ Refund(t))
    BY <1>4, <2>2
    DEF SagaStep, Load, LoadFails, BridgeOut, Credit, Undo, BridgeCompensate, Books, WaitBurn, WaitMint,
        Wait, UpdateStatus, Resume, OperatorReverses, chainVars, contractVars
  <2> QED BY <2>1, <2>2
<1>7. CASE \E h \in 1..Len(sent) : Mined(h) \/ Dropped(h)
  BY <1>2, <1>4, <1>7 DEF Mined, Dropped, Revert, Drop, contractVars
<1>8. CASE ChainAdmin \/ Holder
  BY <1>3, <1>4, <1>8 DEF ChainAdmin, Holder, TogglePause, ToggleBlacklist, ApproveDelegate
<1>9. CASE \/ \E r \in Requests : Issue(r) \/ BridgeTransfer(r) \/ InsertRow(r) \/ InsertFails(r)
           \/ \E w \in Wallets, s \in {"ACTIVE", "FROZEN", "CLOSED"} : SetWalletStatus(w, s)
           \/ Crash \/ UNCHANGED vars
  BY <1>4, <1>9 DEF Issue, BridgeTransfer, InsertRow, InsertFails, SetWalletStatus, Crash, vars, chainVars,
     contractVars
<1> QED BY <1>6, <1>7, <1>8, <1>9 DEF Next


\* At the start nothing has run, and the supply is what the journal opens with;
\* from then on each transaction that takes effect accounts for its amount.
THEOREM SupplyAccounted == Spec => []TokensAccounted
<1>1. ASSUME Init  PROVE TokensAccounted
  <2>1. sent = << >> /\ tokens = OpeningTokens
    BY <1>1 DEF Init, ChainInit
  <2>2. Minters = {} /\ Reminters = {} /\ Burners = {}
    BY <2>1 DEF Minters, Reminters, Burners, Minted, Reminted, Burned, Ran
  <2>3. Sum({}) = 0
    BY SumOfNothing DEF Sum
  <2>4. Sum(Minters) = 0 /\ Sum(Reminters) = 0 /\ Sum(Burners) = 0
    BY <2>2, <2>3
  <2>5. Supply = InitialCirculation
    BY <2>1, BooksAgreeAtStart DEF Supply
  <2>7. InitialCirculation \in Int
    BY CirculationIsInt
  <2>8. Supply = InitialCirculation + Sum(Minters) + Sum(Reminters) - Sum(Burners)
    BY <2>4, <2>5, <2>7
  <2> QED BY <2>8 DEF TokensAccounted, Minters, Reminters, Burners
<1>2. Guarded /\ TokensAccounted /\ [Next]_vars /\ Guarded' => TokensAccounted'
  BY AccountKept DEF Guarded
<1> QED BY <1>1, <1>2, Guarding, PTL DEF Spec

(***************************************************************************)
(* Weighing figures of the books against figures of the chains.            *)
(***************************************************************************)
\* What transfer by transfer weighs no more weighs no more in all.
In(T) == [t \in Transfers |-> IF t \in T THEN Order[t].amount ELSE 0]
Heavy(P, Q, R, S) == [t \in Transfers |-> In(P)[t] + In(Q)[t] + In(R)[t] + In(S)[t]]

LEMMA SumIsOverAll ==
  ASSUME NEW T \in SUBSET Transfers
  PROVE  Sum(T) = SumFunctionOnSet(In(T), Transfers)
<1>1. \A t \in Transfers : Amount[t] = Order[t].amount /\ Amount[t] \in Int
  BY Amounts
<1>2. \A t \in Transfers : In(T)[t] = IF t \in T THEN Order[t].amount ELSE 0
  BY DEF In
<1>3. IsFiniteSet(Transfers) /\ IsFiniteSet(T)
  BY Amounts
<1>4. SumFunctionOnSet(In(T), Transfers) = SumFunctionOnSet(In(T), T)
  <2>1. (\A t \in Transfers : In(T)[t] \in Int) /\ (\A t \in Transfers \ T : In(T)[t] = 0)
    BY <1>1, <1>2
  <2> QED BY <1>3, <2>1, SumOfPart
<1>5. SumFunctionOnSet(In(T), T) = SumFunctionOnSet(Amount, T)
  <2>1. \A t \in T : In(T)[t] = Amount[t]
    BY <1>1, <1>2
  <2> QED BY <1>3, <2>1, SumAgrees
<1> QED BY <1>4, <1>5 DEF Sum

LEMMA HeavySum ==
  ASSUME NEW A \in SUBSET Transfers, NEW B \in SUBSET Transfers,
         NEW C2 \in SUBSET Transfers, NEW D \in SUBSET Transfers
  PROVE  SumFunctionOnSet(Heavy(A, B, C2, D), Transfers) = Sum(A) + Sum(B) + Sum(C2) + Sum(D)
<1> DEFINE f == [t \in Transfers |-> In(A)[t] + In(B)[t]]
           g == [t \in Transfers |-> In(C2)[t] + In(D)[t]]
<1>1. IsFiniteSet(Transfers) /\ \A T \in SUBSET Transfers : \A t \in Transfers : In(T)[t] \in Int
  BY Amounts DEF In
<1>2. /\ \A t \in Transfers : f[t] \in Int /\ f[t] = In(A)[t] + In(B)[t]
      /\ \A t \in Transfers : g[t] \in Int /\ g[t] = In(C2)[t] + In(D)[t]
  BY <1>1
<1>3. \A t \in Transfers : Heavy(A, B, C2, D)[t] = f[t] + g[t]
  BY <1>1 DEF Heavy
<1> HIDE DEF f, g
<1>4. SumFunctionOnSet(f, Transfers) = Sum(A) + Sum(B)
  BY <1>1, <1>2, SumOfSums, SumIsOverAll
<1>5. SumFunctionOnSet(g, Transfers) = Sum(C2) + Sum(D)
  BY <1>1, <1>2, SumOfSums, SumIsOverAll
<1>6. SumFunctionOnSet(Heavy(A, B, C2, D), Transfers) = SumFunctionOnSet(f, Transfers) + SumFunctionOnSet(g, Transfers)
  BY <1>1, <1>2, <1>3, SumOfSums
<1>7. Sum(A) \in Nat /\ Sum(B) \in Nat /\ Sum(C2) \in Nat /\ Sum(D) \in Nat
  BY Amounts
<1> QED BY <1>4, <1>5, <1>6, <1>7

LEMMA Weigh ==
  ASSUME NEW A \in SUBSET Transfers, NEW B \in SUBSET Transfers,
         NEW C2 \in SUBSET Transfers, NEW D \in SUBSET Transfers,
         NEW E \in SUBSET Transfers, NEW F \in SUBSET Transfers,
         NEW G \in SUBSET Transfers, NEW H \in SUBSET Transfers,
         \A t \in Transfers : In(A)[t] + In(B)[t] + In(C2)[t] + In(D)[t]
                                <= In(E)[t] + In(F)[t] + In(G)[t] + In(H)[t]
  PROVE  Sum(A) + Sum(B) + Sum(C2) + Sum(D) <= Sum(E) + Sum(F) + Sum(G) + Sum(H)
<1>1. IsFiniteSet(Transfers) /\ \A T \in SUBSET Transfers : \A t \in Transfers : In(T)[t] \in Int
  BY Amounts DEF In
<1>2. \A t \in Transfers : /\ Heavy(A, B, C2, D)[t] \in Int /\ Heavy(E, F, G, H)[t] \in Int
                           /\ Heavy(A, B, C2, D)[t] <= Heavy(E, F, G, H)[t]
  BY <1>1 DEF Heavy
<1>3. SumFunctionOnSet(Heavy(A, B, C2, D), Transfers) <= SumFunctionOnSet(Heavy(E, F, G, H), Transfers)
  BY <1>1, <1>2, SumIsBounded
<1> QED BY <1>3, HeavySum


\* A re-mint is sent, and then the journal gives the money back.
LEMMA RemintKept ==
  ASSUME TypeOK, RemintedFirst, [Next]_vars
  PROVE  RemintedFirst'
<1>1. \A t \in Transfers : Refunds(t) \subseteq Refunds(t)'
  <2>1. Len(sent) \in Nat /\ sent \in Seq(Txs)
    BY DEF TypeOK, Txs, Tag
  <2>2. CASE sent' = sent
    BY <2>2 DEF Refunds, Sends
  <2>3. ASSUME NEW tx, sent' = Append(sent, tx)
        PROVE  \A t \in Transfers : Refunds(t) \subseteq Refunds(t)'
    <3>1. Len(sent') = Len(sent) + 1 /\ \A h \in 1..Len(sent) : sent'[h] = sent[h]
      BY <2>1, <2>3
    <3> QED BY <2>1, <3>1 DEF Refunds, Sends
  <2>4. sent' = sent \/ \E tx : sent' = Append(sent, tx)
    BY DEF Next, Issue, BridgeTransfer, InsertRow, InsertFails, SagaStep, Load, LoadFails, BridgeOut, Credit,
      Undo, BridgeCompensate, Books, BridgeBurn, BridgeMint, Refund, Submit, Submitted, WaitBurn, WaitMint, Wait,
      UpdateStatus, Resume, OperatorReverses, SetWalletStatus, Crash, ChainAdmin, Holder, TogglePause,
      ToggleBlacklist, ApproveDelegate, HolderMoves, Mined, Dropped, Execute, Revert, Drop, Fated, chainVars, vars
  <2> QED BY <2>2, <2>3, <2>4
<1>2. ASSUME NEW t \in Transfers, saga'[t] = "compensate", saga[t] # "compensate"
      PROVE  Refunds(t)' # {}
  <2>1. Refund(t)
    BY <1>2
    DEF Next, Issue, BridgeTransfer, InsertRow, InsertFails, SagaStep, Load, LoadFails, BridgeOut, Credit,
      Undo, BridgeCompensate, Books, BridgeBurn, BridgeMint, Refund, Submit, WaitBurn, WaitMint, Wait,
      UpdateStatus, Resume, OperatorReverses, SetWalletStatus, Crash, ChainAdmin, Holder, Mined, Dropped,
      bridgeVars, vars, Goto, MintFailed, Writes, TypeOK, Requests
  <2>2. Submitted(Tx(t, SourceChain(t), "mint", "compensation"))
    BY <1>2, <2>1 DEF Refund, Submit, Goto, TypeOK
  <2> DEFINE tx == Tx(t, SourceChain(t), "mint", "compensation")
  <2>3. tx.kind = "mint" /\ tx.id = <<t, "compensation">>
    BY DEF Tx
  <2>4. sent' = Append(sent, tx) /\ Len(sent) \in Nat /\ sent \in Seq(Txs)
    BY <2>2 DEF Submitted, TypeOK, Txs, Tag
  <2> HIDE DEF tx
  <2>5. Len(sent') = Len(sent) + 1 /\ sent'[Len(sent) + 1] = tx
    BY <2>4
  <2> QED BY <2>3, <2>4, <2>5 DEF Refunds, Sends
<1>3. ASSUME NEW t \in Transfers, "compensate" \in Legs(t)', "compensate" \notin Legs(t)
      PROVE  saga[t] = "compensate"
  <2>1. <<"compensate", t>> \in posted' /\ <<"compensate", t>> \notin posted
    BY <1>3 DEF Legs, Has
  <2>2. ASSUME NEW leg, NEW u, Post(leg, u) \/ Refuse(leg, u)
        PROVE  leg = "compensate" /\ u = t
    <3>1. posted' \subseteq posted \union {<<leg, u>>}
      BY <2>2 DEF Post, Refuse, ledgerVars
    <3> QED BY <2>1, <3>1
  <2>3. ASSUME NEW u, OperatorReverses(u)  PROVE FALSE
    BY <2>1, <2>3 DEF OperatorReverses
  <2>4. posted' # posted
    BY <2>1
  <2> HIDE DEF Post, Refuse
  <2>5. \E u \in Transfers : BridgeOut(u) \/ Credit(u) \/ Undo(u) \/ BridgeCompensate(u) \/
          (\E r \in Requests : Issue(r))
    BY <2>3, <2>4
    DEF Next, BridgeTransfer, InsertRow, InsertFails, SagaStep, Load, LoadFails,
      BridgeBurn, BridgeMint, Refund, Submit, WaitBurn, WaitMint, Wait,
      UpdateStatus, Resume, SetWalletStatus, Crash, ChainAdmin, Holder, Mined, Dropped,
      bridgeVars, ledgerVars, vars
  <2>6. PICK u \in Transfers : BridgeOut(u) \/ Credit(u) \/ Undo(u) \/ BridgeCompensate(u) \/
          (\E r \in Requests : Issue(r))
    BY <2>5
  <2>7. ASSUME NEW r \in Requests, Issue(r)  PROVE FALSE
    BY <2>2, <2>4, <2>7 DEF Issue
  <2>8. BridgeCompensate(u)
    BY <2>2, <2>6, <2>7 DEF BridgeOut, Credit, Undo, Books
  <2> QED BY <2>2, <2>8 DEF BridgeCompensate, Books
<1> QED BY <1>1, <1>2, <1>3 DEF RemintedFirst

LEMMA Reminting == Spec => []RemintedFirst
<1>1. Init => RemintedFirst
  BY DEF Init, RemintedFirst, Legs, Has
<1>2. Guarded /\ RemintedFirst /\ [Next]_vars => RemintedFirst'
  BY RemintKept DEF Guarded
<1> QED BY <1>1, <1>2, Guarding, PTL DEF Spec


\* What the phase of a transfer says of its legs and its transactions.
LEMMA PhaseTells ==
  ASSUME NEW t \in Transfers, InSomePhase(t)
  PROVE  /\ ~(Minted(t) /\ Reminted(t))
         /\ IF IsBridge(t) THEN Minted(t) \/ Reminted(t) => Burned(t) ELSE ~Burned(t) /\ ~Reminted(t)
         /\ Minted(t) => Legs(t) \in {{"reserve"}, {"reserve", "deliver"}}
         /\ Burned(t) => "reserve" \in Legs(t) /\ "undo" \notin Legs(t)
         /\ "deliver" \in Legs(t) => Minted(t)
         /\ "compensate" \in Legs(t) => IsBridge(t)
         /\ Legs(t) \in {{}, {"reserve"}, {"reserve", "deliver"}, {"reserve", "undo"}, {"reserve", "compensate"}}
<1>1. /\ Void(Burns(t)) => ~Burned(t)
      /\ Void(Mints(t)) => ~Minted(t)
      /\ Burns(t) = {} => ~Burned(t)
      /\ Mints(t) = {} => ~Minted(t)
      /\ Refunds(t) = {} => ~Reminted(t)
      /\ Final(Burns(t)) => Burned(t)
      /\ Final(Mints(t)) => Minted(t)
  BY Stands DEF Void, Final
<1>2. CASE Unstarted(t)
  BY <1>1, <1>2 DEF Unstarted
<1>3. CASE Burning(t)
  BY <1>1, <1>3 DEF Burning
<1>4. CASE Unburned(t)
  BY <1>1, <1>4 DEF Unburned
<1>5. CASE Minting(t)
  BY <1>1, <1>5 DEF Minting, Paid
<1>6. CASE Unminted(t)
  BY <1>1, <1>6 DEF Unminted
<1>7. CASE Credited(t)
  BY <1>1, <1>7 DEF Credited, Paid
<1>8. CASE Refunding(t)
  BY <1>1, <1>8 DEF Refunding
<1> QED BY <1>2, <1>3, <1>4, <1>5, <1>6, <1>7, <1>8 DEF InSomePhase

\* Tokens never exceed what the journal has issued.
THEOREM NothingDoubles ==
  ASSUME NoIsNo
  PROVE  Spec => []NothingDoubled
<1> DEFINE Issued == {t \in Transfers : ~IsBridge(t) /\ Has("reserve", t)}
           Unissued == {t \in Transfers : ~IsBridge(t) /\ Has("undo", t)}
<1>1. ASSUME IInv, TokensAccounted  PROVE NothingDoubled
  <2>1. /\ Minters \in SUBSET Transfers /\ Reminters \in SUBSET Transfers /\ Burners \in SUBSET Transfers
        /\ Issued \in SUBSET Transfers /\ Unissued \in SUBSET Transfers /\ {} \in SUBSET Transfers
    BY DEF Minters, Reminters, Burners
  <2>2. ASSUME NEW t \in Transfers
        PROVE  In(Minters)[t] + In(Reminters)[t] + In(Unissued)[t] + In({})[t]
                 <= In(Burners)[t] + In(Issued)[t] + In({})[t] + In({})[t]
    <3>1. InSomePhase(t) /\ Order[t].amount \in Nat
      BY <1>1, OrdersWellFormed DEF IInv, SagaInPhase
    <3>2. "reserve" \in Leg /\ "undo" \in Leg
      BY DEF Leg
    <3>3. /\ Minted(t) /\ ~IsBridge(t) => Has("reserve", t) /\ ~Has("undo", t)
          /\ Has("undo", t) => Has("reserve", t)
          /\ ~(Minted(t) /\ Reminted(t))
          /\ IF IsBridge(t) THEN Minted(t) \/ Reminted(t) => Burned(t) ELSE ~Burned(t) /\ ~Reminted(t)
      BY <3>1, <3>2, PhaseTells, Stands
    <3>4. /\ In(Minters)[t] = IF Minted(t) THEN Order[t].amount ELSE 0
          /\ In(Reminters)[t] = IF Reminted(t) THEN Order[t].amount ELSE 0
          /\ In(Burners)[t] = IF Burned(t) THEN Order[t].amount ELSE 0
          /\ In(Issued)[t] = IF ~IsBridge(t) /\ Has("reserve", t) THEN Order[t].amount ELSE 0
          /\ In(Unissued)[t] = IF ~IsBridge(t) /\ Has("undo", t) THEN Order[t].amount ELSE 0
          /\ In({})[t] = 0
      BY DEF In, Minters, Reminters, Burners
    <3> QED BY <3>1, <3>3, <3>4
  <2>3. Supply = InitialCirculation + Sum(Minters) + Sum(Reminters) - Sum(Burners)
    BY <1>1 DEF TokensAccounted, Minters, Reminters, Burners
  <2>4. Circulation = InitialCirculation + Sum(Issued) - Sum(Unissued)
    BY DEF Circulation
  <2> HIDE DEF Issued, Unissued
  <2>5. Sum(Minters) + Sum(Reminters) + Sum(Unissued) + Sum({})
          <= Sum(Burners) + Sum(Issued) + Sum({}) + Sum({})
    BY <2>1, <2>2, Weigh
  <2>6. /\ Sum(Minters) \in Nat /\ Sum(Reminters) \in Nat /\ Sum(Burners) \in Nat
        /\ Sum(Issued) \in Nat /\ Sum(Unissued) \in Nat /\ Sum({}) \in Nat
    BY <2>1, Amounts
  <2>7. InitialCirculation \in Int
    BY CirculationIsInt
  <2>8. Sum({}) = 0
    BY SumOfNothing DEF Sum
  <2> QED BY <2>3, <2>4, <2>5, <2>6, <2>7, <2>8 DEF NothingDoubled
<1> QED BY <1>1, Invariance, SupplyAccounted, PTL

\* What the journal owes, wallet by wallet, is a sum over the transfers again.
TokenedLegs(leg) == {t \in Transfers : Order[t].source \in Tokened /\ Has(leg, t)}
Deliveries == {t \in Transfers : Has("deliver", t)}

LEMMA SourcesSummed ==
  ASSUME NEW leg
  PROVE  SumFunctionOnSet([w \in Tokened |-> Sum(From(w, leg))], Tokened) = Sum(TokenedLegs(leg))
<1> DEFINE S == {t \in Transfers : Has(leg, t)}
           of == [t \in Transfers |-> Order[t].source]
           parts == [w \in Tokened |-> SumFunctionOnSet(Amount, {x \in S : of[x] = w})]
<1>1. IsFiniteSet(Tokened)
  BY OrdersWellFormed, FS_Subset DEF Tokened
<1>2. IsFiniteSet(S) /\ \A x \in S : Amount[x] \in Int
  BY Amounts
<1>3. SumFunctionOnSet(parts, Tokened) = SumFunctionOnSet(Amount, {x \in S : of[x] \in Tokened})
  <2> HIDE DEF S, of
  <2> QED BY <1>1, <1>2, SumOfFibres
<1>4. {x \in S : of[x] \in Tokened} = TokenedLegs(leg)
  BY DEF TokenedLegs
<1>5. \A w \in Tokened : {x \in S : of[x] = w} = From(w, leg)
  BY DEF From
<1>6. parts = [w \in Tokened |-> Sum(From(w, leg))]
  <2> HIDE DEF S, of
  <2> QED BY <1>5 DEF Sum
<1> QED BY <1>3, <1>4, <1>6 DEF Sum

LEMMA TargetsSummed ==
  SumFunctionOnSet([w \in Tokened |-> Sum(Into(w))], Tokened) = Sum(Deliveries)
<1> DEFINE S == {t \in Transfers : Has("deliver", t)}
           of == [t \in Transfers |-> Order[t].target]
           parts == [w \in Tokened |-> SumFunctionOnSet(Amount, {x \in S : of[x] = w})]
<1>1. IsFiniteSet(Tokened)
  BY OrdersWellFormed, FS_Subset DEF Tokened
<1>2. IsFiniteSet(S) /\ \A x \in S : Amount[x] \in Int
  BY Amounts
<1>3. SumFunctionOnSet(parts, Tokened) = SumFunctionOnSet(Amount, {x \in S : of[x] \in Tokened})
  <2> HIDE DEF S, of
  <2> QED BY <1>1, <1>2, SumOfFibres
<1>4. {x \in S : of[x] \in Tokened} = Deliveries
  BY OrdersWellFormed DEF Deliveries, Tokened, Chain
<1>5. \A w \in Tokened : {x \in S : of[x] = w} = Into(w)
  BY DEF Into
<1>6. parts = [w \in Tokened |-> Sum(Into(w))]
  <2> HIDE DEF S, of
  <2> QED BY <1>5 DEF Sum
<1> QED BY <1>3, <1>4, <1>6 DEF Sum

LEMMA OwedIs ==
  Owed = InitialCirculation - Sum(TokenedLegs("reserve")) + Sum(TokenedLegs("undo"))
           + Sum(TokenedLegs("compensate")) + Sum(Deliveries)
<1> DEFINE bal == [w \in Tokened |-> Balance(w)]
           spent == [w \in Tokened |-> Sum(From(w, "reserve"))]
           undone == [w \in Tokened |-> Sum(From(w, "undo"))]
           given == [w \in Tokened |-> Sum(From(w, "compensate"))]
           got == [w \in Tokened |-> Sum(Into(w))]
           held == [w \in Tokened |-> bal[w] + spent[w]]
           before == [w \in Tokened |-> Opening[w] + undone[w]]
           added == [w \in Tokened |-> given[w] + got[w]]
           S(f) == SumFunctionOnSet(f, Tokened)
<1>1. IsFiniteSet(Tokened) /\ Tokened \subseteq Wallets
  BY OrdersWellFormed, FS_Subset DEF Tokened
<1>2. ASSUME NEW w \in Tokened
      PROVE  /\ Opening[w] \in Int /\ bal[w] \in Int
             /\ spent[w] \in Int /\ undone[w] \in Int /\ given[w] \in Int /\ got[w] \in Int
             /\ bal[w] = Opening[w] - spent[w] + undone[w] + given[w] + got[w]
  <2>1. Opening[w] \in Int /\ Balance(w) \in Int
    BY <1>1, BalanceIsInt, OrdersWellFormed
  <2>2. Into(w) \in SUBSET Transfers /\ \A leg : From(w, leg) \in SUBSET Transfers
    BY DEF Into, From
  <2>3. Sum(Into(w)) \in Int /\ \A leg : Sum(From(w, leg)) \in Int
    BY <2>2, Amounts
  <2>4. Balance(w) = Opening[w] - Sum(From(w, "reserve")) + Sum(From(w, "undo"))
                     + Sum(From(w, "compensate")) + Sum(Into(w))
    BY DEF Balance, From, Into
  <2> QED BY <2>1, <2>3, <2>4
<1>3. \A w \in Tokened : held[w] = before[w] + added[w] /\ held[w] \in Int /\ before[w] \in Int /\ added[w] \in Int
  BY <1>2
<1>4. \A w \in Tokened : /\ held[w] = bal[w] + spent[w] /\ before[w] = Opening[w] + undone[w]
                         /\ added[w] = given[w] + got[w]
  OBVIOUS
<1>5. S(bal) = Owed
  BY DEF Owed
<1>6. /\ S(spent) = Sum(TokenedLegs("reserve")) /\ S(undone) = Sum(TokenedLegs("undo"))
      /\ S(given) = Sum(TokenedLegs("compensate")) /\ S(got) = Sum(Deliveries)
  BY SourcesSummed, TargetsSummed
<1>7. S(Opening) = InitialCirculation
  BY DEF InitialCirculation
<1> HIDE DEF bal, spent, undone, given, got, held, before, added
<1>8. S(held) = S(bal) + S(spent)
  BY <1>1, <1>2, <1>4, SumOfSums
<1>9. S(before) = S(Opening) + S(undone)
  BY <1>1, <1>2, <1>4, SumOfSums
<1>10. S(added) = S(given) + S(got)
  BY <1>1, <1>2, <1>4, SumOfSums
<1>11. S(held) = S(before) + S(added)
  BY <1>1, <1>3, SumOfSums
<1>12. /\ S(bal) \in Int /\ S(spent) \in Int /\ S(undone) \in Int /\ S(given) \in Int /\ S(got) \in Int
       /\ S(Opening) \in Int
  BY <1>1, <1>2, SumIsInt
<1>13. S(bal) = S(Opening) - S(spent) + S(undone) + S(given) + S(got)
  <2> HIDE DEF S
  <2> QED BY <1>8, <1>9, <1>10, <1>11, <1>12
<1> QED BY <1>5, <1>6, <1>7, <1>13

\* Re-mints that have been sent: done, still to come, or lost.
Awaited == BeingRefunded \union RefundLost

LEMMA RefundFates ==
  ASSUME TypeOK, NEW t \in Transfers, Refunds(t) # {}
  PROVE  Reminted(t) \/ t \in Awaited
<1>1. ASSUME NEW h \in Refunds(t)  PROVE fate[h] \in {"pending", "done", "reverted", "dropped"}
  <2>1. fate \in Seq(Fates) /\ h \in 1..Len(fate)
    BY <1>1 DEF TypeOK, Refunds, Sends
  <2>2. fate[h] \in Fates
    BY <2>1
  <2> QED BY <2>2 DEF Fates
<1>2. CASE \E h \in Refunds(t) : fate[h] = "done"
  BY <1>2, Stands DEF Final
<1>3. CASE ~Reminted(t) /\ \E h \in Refunds(t) : fate[h] = "pending"
  BY <1>3 DEF Awaited, BeingRefunded
<1>4. CASE \A h \in Refunds(t) : fate[h] \notin {"done", "pending"}
  BY <1>1, <1>4 DEF Awaited, RefundLost, Void
<1> QED BY <1>2, <1>3, <1>4

LEMMA AwaitedInParts ==
  Sum(Awaited) = Sum(BeingRefunded) + Sum(RefundLost)
<1>1. BeingRefunded \intersect RefundLost = {}
  BY DEF BeingRefunded, RefundLost, Void
<1>2. BeingRefunded \in SUBSET Transfers /\ RefundLost \in SUBSET Transfers
  BY DEF BeingRefunded, RefundLost
<1>3. /\ IsFiniteSet(BeingRefunded) /\ IsFiniteSet(RefundLost)
      /\ \A t \in BeingRefunded \union RefundLost : Amount[t] \in Int
  BY <1>2, Amounts
<1> QED BY <1>1, <1>3, SumOfUnion DEF Sum, Awaited

\* What the journal owes its users is on a chain, on its way back to one, or the
\* tokens of a re-mint that was lost: nothing else ever goes missing.
THEOREM LossesAccounted ==
  ASSUME NoIsNo
  PROVE  Spec => []OnlyRefundsLose
<1>1. ASSUME IInv, TokensAccounted, RemintedFirst  PROVE OnlyRefundsLose
  <2>1. /\ Minters \in SUBSET Transfers /\ Reminters \in SUBSET Transfers /\ Burners \in SUBSET Transfers
        /\ Awaited \in SUBSET Transfers /\ Deliveries \in SUBSET Transfers
        /\ \A leg : TokenedLegs(leg) \in SUBSET Transfers
    BY DEF Minters, Reminters, Burners, Awaited, BeingRefunded, RefundLost, Deliveries, TokenedLegs
  <2>2. ASSUME NEW t \in Transfers
        PROVE  In(TokenedLegs("undo"))[t] + In(TokenedLegs("compensate"))[t] + In(Deliveries)[t] + In(Burners)[t]
                 <= In(Minters)[t] + In(Reminters)[t] + In(Awaited)[t] + In(TokenedLegs("reserve"))[t]
    <3> DEFINE src == Order[t].source \in Tokened
    <3>1. InSomePhase(t) /\ Order[t].amount \in Nat
      BY <1>1, OrdersWellFormed DEF IInv, SagaInPhase
    <3>2. \A leg \in Leg : Has(leg, t) <=> leg \in Legs(t)
      BY Stands
    <3>3. /\ "compensate" \in Legs(t) => Reminted(t) \/ t \in Awaited
          /\ IsBridge(t) => src
      <4>1. "compensate" \in Legs(t) => Refunds(t) # {}
        BY <1>1 DEF RemintedFirst
      <4>2. "compensate" \in Legs(t) => Reminted(t) \/ t \in Awaited
        BY <1>1, <4>1, RefundFates DEF IInv
      <4>3. IsBridge(t) => src
        BY OrdersWellFormed DEF IsBridge, Tokened, Chain
      <4> QED BY <4>2, <4>3
    <3>4. /\ ~(Minted(t) /\ Reminted(t))
          /\ Burned(t) => IsBridge(t) /\ Has("reserve", t) /\ ~Has("undo", t)
          /\ Has("deliver", t) => Minted(t) /\ Has("reserve", t) /\ ~Has("undo", t) /\ ~Has("compensate", t)
          /\ Has("compensate", t) => IsBridge(t) /\ Has("reserve", t) /\ ~Has("undo", t)
          /\ Has("undo", t) => Has("reserve", t)
      BY <3>1, <3>2, PhaseTells DEF Leg
    <3>5. Has("compensate", t) => Reminted(t) \/ t \in Awaited
      BY <3>2, <3>3 DEF Leg
    <3>6. /\ In(Minters)[t] = IF Minted(t) THEN Order[t].amount ELSE 0
          /\ In(Reminters)[t] = IF Reminted(t) THEN Order[t].amount ELSE 0
          /\ In(Burners)[t] = IF Burned(t) THEN Order[t].amount ELSE 0
          /\ In(Deliveries)[t] = IF Has("deliver", t) THEN Order[t].amount ELSE 0
          /\ In(Awaited)[t] = IF t \in Awaited THEN Order[t].amount ELSE 0
          /\ In(TokenedLegs("reserve"))[t] = IF src /\ Has("reserve", t) THEN Order[t].amount ELSE 0
          /\ In(TokenedLegs("undo"))[t] = IF src /\ Has("undo", t) THEN Order[t].amount ELSE 0
          /\ In(TokenedLegs("compensate"))[t] = IF src /\ Has("compensate", t) THEN Order[t].amount ELSE 0
      BY DEF In, Minters, Reminters, Burners, Deliveries, TokenedLegs
    <3> HIDE DEF src
    <3> QED BY <3>1, <3>3, <3>4, <3>5, <3>6
  <2>3. Supply = InitialCirculation + Sum(Minters) + Sum(Reminters) - Sum(Burners)
    BY <1>1 DEF TokensAccounted, Minters, Reminters, Burners
  <2>4. Sum(TokenedLegs("undo")) + Sum(TokenedLegs("compensate")) + Sum(Deliveries) + Sum(Burners)
          <= Sum(Minters) + Sum(Reminters) + Sum(Awaited) + Sum(TokenedLegs("reserve"))
    BY <2>1, <2>2, Weigh
  <2>5. /\ Sum(Minters) \in Nat /\ Sum(Reminters) \in Nat /\ Sum(Burners) \in Nat
        /\ Sum(Awaited) \in Nat /\ Sum(Deliveries) \in Nat
        /\ Sum(TokenedLegs("undo")) \in Nat /\ Sum(TokenedLegs("compensate")) \in Nat
        /\ Sum(TokenedLegs("reserve")) \in Nat
    BY <2>1, Amounts
  <2>6. InitialCirculation \in Int
    BY CirculationIsInt
  <2>7. BeingRefunded \in SUBSET Transfers /\ RefundLost \in SUBSET Transfers
    BY DEF BeingRefunded, RefundLost
  <2>8. Sum(BeingRefunded) \in Nat /\ Sum(RefundLost) \in Nat
    BY <2>7, Amounts
  <2> QED BY <2>3, <2>4, <2>5, <2>6, <2>8, OwedIs, AwaitedInParts DEF OnlyRefundsLose
<1> QED BY <1>1, Invariance, SupplyAccounted, Reminting, PTL


(***************************************************************************)
(* One failure is seen through.                                            *)
(***************************************************************************)
\* A saga that is over is left alone, by its own steps as by the others'.
LEMMA OverIsQuiet ==
  ASSUME NoIsNo, IInv, [Next]_vars, NEW t \in Transfers, saga[t] \in {"failed", "over"}
  PROVE  Quiet(t)
<1>1. ASSUME UNCHANGED <<posted, sent, fate>>  PROVE Quiet(t)
  BY <1>1, StillChains, StillLegs DEF Quiet
<1>2. CASE \E u \in Transfers : SagaStep(u) \/ Resume(u) \/ OperatorReverses(u)
  <2> PICK u \in Transfers : SagaStep(u)
    BY <1>2 DEF Resume, OperatorReverses, Spend, NoIsNo
  <2>1. CASE u # t
    <3>1. Elsewhere(u)
      BY OutStep, CreditStep, UndoStep, CompensateStep, BurnStep, MintStep, RefundStep,
         WaitBurnStep, WaitMintStep, LoadStep, StatusStep DEF SagaStep
    <3> QED BY <2>1, <3>1 DEF Elsewhere
  <2>2. CASE u = t
    <3>1. UpdateStatus(t)
      BY <2>2 DEF SagaStep, Load, LoadFails, BridgeOut, Credit, Undo, BridgeCompensate, Books, BridgeBurn,
         BridgeMint, Refund, Submit, WaitBurn, WaitMint, Wait
    <3> QED BY <1>1, <3>1 DEF UpdateStatus, chainVars
  <2> QED BY <2>1, <2>2
<1>3. ASSUME NEW r \in Requests, Issue(r)  PROVE Quiet(t)
  <2>1. r[1] \in Transfers /\ ~IsBridge(r[1]) /\ UNCHANGED <<sent, fate>>
    BY <1>3 DEF Issue, Requests, chainVars
  <2>2. posted' = posted \/ posted' = posted \union {<<"reserve", r[1]>>}
    BY <1>3 DEF Issue, Post, Refuse, ledgerVars
  <2>3. r[1] = t => "reserve" \in Legs(t)
    BY <2>1 DEF IInv, IssuedFirst
  <2>4. Legs(t)' = Legs(t)
    BY <2>1, <2>2, <2>3, StillLegs, LegPosted DEF Leg
  <2> QED BY <2>1, <2>4, StillChains DEF Quiet
<1>4. CASE \E h \in 1..Len(sent) : Mined(h) \/ Dropped(h)
  <2> PICK h \in 1..Len(sent) : Mined(h) \/ Dropped(h)
    BY <1>4
  <2>1. PICK f \in Fates : Fated(h, f)
    BY DEF Mined, Dropped, Execute, Revert, Drop, Fates
  <2>2. posted' = posted
    BY DEF Mined, Dropped, bridgeVars, ledgerVars
  <2>3. /\ \A i \in 1..Len(sent) : fate[i] # "pending" => fate'[i] = fate[i]
        /\ \A kind, id : Sends(kind, id)' = Sends(kind, id)
    BY <2>1, Decided DEF IInv
  <2> QED BY <2>2, <2>3, StillLegs DEF Quiet, Burns, Mints, Refunds
<1>5. CASE \/ \E r \in Requests : BridgeTransfer(r) \/ InsertRow(r) \/ InsertFails(r)
           \/ \E w \in Wallets, s \in {"ACTIVE", "FROZEN", "CLOSED"} : SetWalletStatus(w, s)
           \/ Crash \/ ChainAdmin \/ Holder \/ UNCHANGED vars
  BY <1>1, <1>5
  DEF BridgeTransfer, InsertRow, InsertFails, SetWalletStatus, Crash, ChainAdmin, Holder, TogglePause,
      ToggleBlacklist, ApproveDelegate, HolderMoves, vars, bridgeVars, ledgerVars, chainVars
<1> QED BY <1>2, <1>3, <1>4, <1>5 DEF Next

\* A marker is left by the execution that earns it.
LEMMA EarnedKept ==
  ASSUME Guarded, MarkersEarned, [Next]_vars
  PROVE  MarkersEarned'
<1>1. TypeOK /\ Len(sent) \in Nat /\ sent \in Seq(Txs)
  BY DEF Guarded, TypeOK, Txs, Tag
<1>2. ASSUME processed' = processed, Len(sent') >= Len(sent), Len(sent') \in Nat,
             \A h \in 1..Len(sent) : sent'[h] = sent[h] /\ (fate[h] = "done" => fate'[h] = "done")
      PROVE  MarkersEarned'
  <2>1. \A h \in 1..Len(sent) : h \in 1..Len(sent')
    BY <1>1, <1>2
  <2>2. \A h \in 1..Len(sent) : Marker(sent'[h]) = Marker(sent[h])
    BY <1>2
  <2> QED BY <1>2, <2>1, <2>2 DEF MarkersEarned
<1>3. ASSUME UNCHANGED <<processed, sent, fate>>  PROVE MarkersEarned'
  BY <1>1, <1>2, <1>3
<1>4. ASSUME NEW tx \in Txs, Submitted(tx)  PROVE MarkersEarned'
  <2>1. /\ Len(sent') = Len(sent) + 1
        /\ \A h \in 1..Len(sent) : sent'[h] = sent[h] /\ fate'[h] = fate[h]
    BY <1>1, <1>4, NewSend
  <2>2. processed' = processed
    BY <1>4 DEF Submitted, contractVars
  <2> QED BY <1>1, <1>2, <2>1, <2>2
<1>5. ASSUME NEW h \in 1..Len(sent), Revert(h) \/ Drop(h)  PROVE MarkersEarned'
  <2>1. PICK f \in {"reverted", "dropped"} : Fated(h, f)
    BY <1>5 DEF Revert, Drop
  <2>2. /\ \A i \in 1..Len(sent) : i # h => fate'[i] = fate[i]
        /\ fate[h] = "pending" /\ sent' = sent
    BY <1>1, <2>1, Decided DEF Fated, Fates
  <2>3. processed' = processed
    BY <1>5 DEF Revert, Drop, contractVars
  <2> QED BY <1>1, <1>2, <2>2, <2>3
<1>6. ASSUME NEW h \in 1..Len(sent), Execute(h)  PROVE MarkersEarned'
  <2> DEFINE tx == sent[h]
  <2>1. /\ \A i \in 1..Len(sent) : i # h => fate'[i] = fate[i]
        /\ fate'[h] = "done" /\ fate[h] = "pending" /\ sent' = sent
    BY <1>1, <1>6, Decided DEF Execute, Fated, Fates
  <2>2. processed' = [processed EXCEPT ![tx.chain] = processed[tx.chain] \union {Marker(tx)}]
    BY <1>6 DEF Execute
  <2>3. DOMAIN processed = Chain
    BY DEF Guarded, Marked
  <2> SUFFICES ASSUME NEW c \in Chain, NEW m \in processed'[c]
               PROVE  \E i \in 1..Len(sent) : fate'[i] = "done" /\ sent[i].chain = c /\ Marker(sent[i]) = m
    BY <2>1 DEF MarkersEarned, Marker
  <2>4. CASE m \in processed[c]
    <3>1. PICK i \in 1..Len(sent) : fate[i] = "done" /\ sent[i].chain = c /\ Marker(sent[i]) = m
      BY <2>4 DEF MarkersEarned
    <3>2. fate'[i] = "done"
      BY <2>1, <3>1
    <3> QED BY <3>1, <3>2
  <2>5. CASE m \notin processed[c]
    <3>1. c = tx.chain /\ m = Marker(tx)
      BY <2>2, <2>3, <2>5
    <3> QED BY <2>1, <3>1
  <2> QED BY <2>4, <2>5
<1>7. ASSUME NEW t \in Transfers, BridgeBurn(t) \/ BridgeMint(t) \/ Refund(t)
      PROVE  MarkersEarned'
  <2>1. (\E tx \in Txs : Submitted(tx)) \/ UNCHANGED <<processed, sent, fate>>
    BY <1>7, SendsOrStill DEF contractVars
  <2> QED BY <1>3, <1>4, <2>1
<1>8. CASE \E t \in Transfers : SagaStep(t) \/ Resume(t) \/ OperatorReverses(t)
  <2> PICK t \in Transfers : SagaStep(t) \/ Resume(t) \/ OperatorReverses(t)
    BY <1>8
  <2>1. CASE ~(BridgeBurn(t) \/ BridgeMint(t) \/ Refund(t))
    BY <1>3, <2>1
    DEF SagaStep, Load, LoadFails, BridgeOut, Credit, Undo, BridgeCompensate, Books, WaitBurn, WaitMint,
        Wait, UpdateStatus, Resume, OperatorReverses, chainVars, contractVars
  <2> QED BY <1>7, <2>1
<1>9. CASE \E h \in 1..Len(sent) : Mined(h) \/ Dropped(h)
  BY <1>5, <1>6, <1>9 DEF Mined, Dropped
<1>10. CASE \/ \E r \in Requests : Issue(r) \/ BridgeTransfer(r) \/ InsertRow(r) \/ InsertFails(r)
            \/ \E w \in Wallets, s \in {"ACTIVE", "FROZEN", "CLOSED"} : SetWalletStatus(w, s)
            \/ Crash \/ ChainAdmin \/ Holder \/ UNCHANGED vars
  BY <1>3, <1>10
  DEF Issue, BridgeTransfer, InsertRow, InsertFails, SetWalletStatus, Crash, ChainAdmin, Holder, TogglePause,
      ToggleBlacklist, ApproveDelegate, HolderMoves, vars, chainVars, contractVars
<1> QED BY <1>8, <1>9, <1>10 DEF Next

LEMMA Earning == Spec => []MarkersEarned
<1>1. Init => MarkersEarned
  BY DEF Init, ChainInit, MarkersEarned
<1>2. Guarded /\ MarkersEarned /\ [Next]_vars => MarkersEarned'
  BY EarnedKept
<1> QED BY <1>1, <1>2, Guarding, PTL DEF Spec


LEMMA SentIsTx ==
  ASSUME TypeOK, NEW h \in 1..Len(sent)
  PROVE  sent[h] \in Txs
<1>1. sent \in Seq(Txs)
  BY DEF TypeOK, Txs, Tag
<1> QED BY <1>1

\* A mint that has not run meets no obstacle but trouble on Ethereum.
LEMMA MintMeetsTroubleOnly ==
  ASSUME Guarded, IInv, MarkersEarned, NEW tx \in Txs, tx.kind = "mint",
         tx.chain = ChainFor("mint", tx.id), ~Ran("mint", tx.id)
  PROVE  Executable(tx) \/ (tx.chain = "ETHEREUM" /\ Troubled)
<1> DEFINE t == tx.id[1]
<1>1. tx.chain \in Chain /\ t \in Transfers /\ tx.id = <<t, tx.id[2]>>
  BY DEF Txs
<1>2. ASSUME Marker(tx) \in processed[tx.chain]  PROVE FALSE
  <2>1. PICK h \in 1..Len(sent) : fate[h] = "done" /\ sent[h].chain = tx.chain /\ Marker(sent[h]) = Marker(tx)
    BY <1>1, <1>2 DEF MarkersEarned
  <2>2. sent[h] \in Txs
    BY SentIsTx DEF Guarded
  <2>3. sent[h].id = tx.id
    BY <2>1 DEF Marker
  <2>4. sent[h].kind = "burn" /\ tx.chain = "SOLANA"
    <3>1. sent[h].kind # "mint"
      BY <2>1, <2>3 DEF Ran
    <3> QED BY <1>1, <2>1, <2>2, <3>1 DEF Marker, Txs, Kind, Chain
  <2>5. tx.id[2] = "own" /\ sent[h].chain = SourceChain(t)
    BY <2>3, <2>4 DEF Guarded, Marked, ChainFor
  <2>6. tx.chain = TargetChain(t)
    BY <2>5 DEF ChainFor
  <2>7. IsBridge(t)
    <3>1. h \in Burns(t)
      BY <1>1, <2>3, <2>4, <2>5 DEF Burns, Sends
    <3>2. InSomePhase(t)
      BY <1>1 DEF IInv, SagaInPhase
    <3> QED BY <3>1, <3>2 DEF InSomePhase, Unstarted, Burning, Unburned, Minting, Unminted, Credited, Refunding, Paid
  <2> QED BY <1>1, <2>1, <2>5, <2>6, <2>7, OrdersWellFormed DEF IsBridge, SourceChain, TargetChain
<1>3. Marker(tx) \notin processed[tx.chain]
  BY <1>2
<1> QED BY <1>3 DEF Executable, Troubled

\* A pending transaction of a transfer that sends one of its kind has not run.
LEMMA PendingHasNotRun ==
  ASSUME NEW h \in 1..Len(sent), fate[h] = "pending", Single(Sends(sent[h].kind, sent[h].id))
  PROVE  ~Ran(sent[h].kind, sent[h].id)
BY DEF Ran, Single, Sends

\* The same of a mint or re-mint already sent.
LEMMA SentMeetsTroubleOnly ==
  ASSUME Guarded, IInv, MarkersEarned, NEW h \in 1..Len(sent), fate[h] = "pending", sent[h].kind = "mint",
         ~Executable(sent[h])
  PROVE  sent[h].chain = "ETHEREUM" /\ Troubled
<1> DEFINE tx == sent[h]
           t == tx.id[1]
<1>1. tx \in Txs
  BY SentIsTx DEF Guarded
<1>2. t \in Transfers /\ tx.id = <<t, tx.id[2]>> /\ tx.id[2] \in Tag
  BY <1>1 DEF Txs
<1>3. InSomePhase(t)
  BY <1>2 DEF IInv, SagaInPhase
<1>4. h \in Sends("mint", tx.id)
  BY DEF Sends
<1>5. Single(Sends("mint", tx.id))
  <2>1. CASE tx.id[2] = "own"
    <3>1. h \in Mints(t) /\ ~Void(Mints(t)) /\ Mints(t) = Sends("mint", tx.id)
      BY <1>2, <1>4, <2>1 DEF Mints, Void
    <3> QED
      BY <1>3, <3>1 DEF InSomePhase, Unstarted, Burning, Unburned, Minting, Unminted, Credited, Refunding, Paid
  <2>2. CASE tx.id[2] = "compensation"
    <3>1. h \in Refunds(t) /\ Refunds(t) = Sends("mint", tx.id)
      BY <1>2, <1>4, <2>2 DEF Refunds
    <3> QED
      BY <1>3, <3>1 DEF InSomePhase, Unstarted, Burning, Unburned, Minting, Unminted, Credited, Refunding, Paid
  <2> QED BY <1>2, <2>1, <2>2 DEF Tag
<1>6. ~Ran("mint", tx.id)
  BY <1>5, PendingHasNotRun
<1>7. tx.chain = ChainFor("mint", tx.id)
  BY DEF Guarded, Marked
<1> HIDE DEF tx, t
<1>8. Executable(tx) \/ (tx.chain = "ETHEREUM" /\ Troubled)
  BY <1>1, <1>6, <1>7, MintMeetsTroubleOnly DEF tx
<1> QED BY <1>8 DEF tx

\* What may have gone wrong so far.
LEMMA Mishap ==
  ASSUME OneFailure, TypeOK
  PROVE  /\ left \in {0, 1} /\ NoIsNo
         /\ \A m : Spend(m) => m \in {"drop", "refusal", "admin", "holder"} /\ left = 1 /\ left' = 0
<1>1. left \in 0..MaxMishaps /\ MaxMishaps \in Nat /\ MaxMishaps <= 1
  BY OrdersWellFormed DEF OneFailure, TypeOK
<1>2. left \in {0, 1}
  BY <1>1
<1>3. NoIsNo
  BY DEF OneFailure, NoIsNo
<1>4. ASSUME NEW m, Spend(m)
      PROVE  m \in {"drop", "refusal", "admin", "holder"} /\ left = 1 /\ left' = 0
  BY <1>2, <1>4 DEF OneFailure, Spend
<1> QED BY <1>2, <1>3, <1>4

SeenThroughSoFar == Guarded /\ IInv /\ MarkersEarned /\ FailedOnce

LEMMA MishapsOnce ==
  ASSUME OneFailure, TypeOK, [Next]_vars
  PROVE  left' = left \/ (left = 1 /\ left' = 0)
<1>1. \A m : Spend(m) => left = 1 /\ left' = 0
  BY Mishap
<1> HIDE DEF Spend
<1>2. CASE \E r \in Requests : Issue(r) \/ BridgeTransfer(r) \/ InsertRow(r) \/ InsertFails(r)
  BY <1>1, <1>2 DEF Issue, BridgeTransfer, InsertRow, InsertFails, Post, Refuse
<1>3. CASE \E t \in Transfers : SagaStep(t) \/ Resume(t) \/ OperatorReverses(t)
  BY <1>1, <1>3
  DEF SagaStep, Load, LoadFails, BridgeOut, Credit, Undo, BridgeCompensate, Books, Post, Refuse, BridgeBurn,
      BridgeMint, Refund, Submit, WaitBurn, WaitMint, Wait, UpdateStatus, Resume, OperatorReverses
<1>4. CASE \/ \E h \in 1..Len(sent) : Mined(h) \/ Dropped(h)
           \/ \E w \in Wallets, s \in {"ACTIVE", "FROZEN", "CLOSED"} : SetWalletStatus(w, s)
           \/ Crash \/ ChainAdmin \/ Holder \/ UNCHANGED vars
  BY <1>1, <1>4 DEF Mined, Dropped, SetWalletStatus, Crash, ChainAdmin, Holder, vars, bridgeVars
<1> QED BY <1>2, <1>3, <1>4 DEF Next

LEMMA WalletsStay ==
  ASSUME OneFailure, TypeOK, [Next]_vars
  PROVE  wallet' = wallet
<1>1. ~Spend("wallet")
  BY Mishap
<1>2. \A w \in Wallets, s \in {"ACTIVE", "FROZEN", "CLOSED"} : ~SetWalletStatus(w, s)
  BY <1>1 DEF SetWalletStatus
<1> QED BY <1>2
  DEF Next, Issue, BridgeTransfer, InsertRow, InsertFails, SagaStep, Load, LoadFails, BridgeOut, Credit, Undo,
      BridgeCompensate, Books, Post, Refuse, BridgeBurn, BridgeMint, Refund, Submit, WaitBurn, WaitMint, Wait,
      UpdateStatus, Resume, OperatorReverses, Crash, ChainAdmin, Holder, Mined, Dropped, vars, bridgeVars, ledgerVars

\* Nothing is lost by a step that loses no mint and no re-mint and leaves
\* Ethereum alone.
LEMMA CalmStep ==
  ASSUME OneFailure, TypeOK, FailedOnce, [Next]_vars, UNCHANGED <<paused, blacklisted>>,
         \A t \in Transfers : MintLost(t)' => MintLost(t),
         \A t \in Transfers : Lost(Refunds(t))' => Lost(Refunds(t))
  PROVE  FailedOnce'
<1>1. wallet' = wallet /\ (left' = left \/ (left = 1 /\ left' = 0))
  BY WalletsStay, MishapsOnce
<1>2. Troubled' <=> Troubled
  BY DEF Troubled
<1>3. \A t \in Transfers : TargetChain(t)' = TargetChain(t)
  BY DEF TargetChain
<1> QED BY <1>1, <1>2, <1>3 DEF FailedOnce


LEMMA LossKept ==
  ASSUME NEW t \in Transfers, Mints(t)' = Mints(t), Refunds(t)' = Refunds(t),
         \A h \in 1..Len(sent) : fate'[h] \in {"reverted", "dropped"} => fate[h] \in {"reverted", "dropped"},
         saga'[t] = "refund" => MintLost(t)
  PROVE  (MintLost(t)' => MintLost(t)) /\ (Lost(Refunds(t))' => Lost(Refunds(t)))
<1>1. Mints(t) \subseteq 1..Len(sent) /\ Refunds(t) \subseteq 1..Len(sent)
  BY DEF Mints, Refunds, Sends
<1>2. (Lost(Mints(t))' => Lost(Mints(t))) /\ (Lost(Refunds(t))' => Lost(Refunds(t)))
  BY <1>1 DEF Lost
<1> QED BY <1>2 DEF MintLost

\* The steps of a saga that leave mints and re-mints alone.
LEMMA SagaIsCalm ==
  ASSUME OneFailure, SeenThroughSoFar, NEW t \in Transfers, SagaStep(t), ~BridgeMint(t), ~Refund(t)
  PROVE  FailedOnce'
<1>1. TypeOK /\ NoIsNo /\ [Next]_vars /\ IInv /\ Guarded /\ FailedOnce
  BY Mishap DEF SeenThroughSoFar, Guarded, Next
<1>2. UNCHANGED contractVars
  BY SendsOrStill, <1>1
  DEF SagaStep, Load, LoadFails, BridgeOut, Credit, Undo, BridgeCompensate, Books, WaitBurn, WaitMint, Wait,
      UpdateStatus, chainVars
<1>3. \A u \in Transfers : saga'[u] = "refund" => MintLost(u)
  <2>1. ASSUME WaitMint(t), saga'[t] = "refund"  PROVE MintLost(t)
    <3>1. saga[t] = "waitMint" /\ hash[t] \in Mints(t)
      BY <1>1, <2>1 DEF WaitMint, Wait, IInv, SagaInPhase
    <3>2. fate[hash[t]] \in {"reverted", "dropped"}
      BY <1>1, <2>1 DEF WaitMint, Wait, Goto, TypeOK, NoIsNo, Spend
    <3> QED BY <3>1, <3>2 DEF MintLost, Lost
  <2>2. ASSUME ~WaitMint(t), saga'[t] = "refund"  PROVE saga[t] = "refund"
    BY <1>1, <2>2
    DEF SagaStep, Load, LoadFails, BridgeOut, Credit, Undo, BridgeCompensate, Books, BridgeBurn, Submit, WaitBurn,
        Wait, UpdateStatus, Writes, Goto, TypeOK
  <2>3. \A u \in Transfers \ {t} : saga'[u] = saga[u]
    BY <1>1
    DEF SagaStep, Load, LoadFails, BridgeOut, Credit, Undo, BridgeCompensate, Books, BridgeBurn, Submit, WaitBurn,
        WaitMint, Wait, UpdateStatus, Goto, TypeOK
  <2> QED BY <2>1, <2>2, <2>3 DEF MintLost
<1>4. /\ \A u \in Transfers : Mints(u)' = Mints(u) /\ Refunds(u)' = Refunds(u)
      /\ \A h \in 1..Len(sent) : fate'[h] = fate[h]
  <2>1. CASE UNCHANGED <<sent, fate>>
    BY <2>1, StillChains
  <2>2. CASE ~UNCHANGED <<sent, fate>>
    <3>1. BridgeBurn(t)
      BY <2>2
      DEF SagaStep, Load, LoadFails, BridgeOut, Credit, Undo, BridgeCompensate, Books, WaitBurn, WaitMint, Wait,
          UpdateStatus, chainVars
    <3>2. IsBridge(t) /\ SourceChain(t) \in Chain /\ "burn" \in Kind /\ "own" \in Tag
      BY <1>1, <3>1, OrdersWellFormed DEF Guarded, OnlyBridgesBurn, BridgeBurn, Submit, IsBridge, SourceChain, Kind, Tag
    <3>3. Submitted(Tx(t, SourceChain(t), "burn", "own")) /\ posted' = posted
      BY <2>2, <3>1 DEF BridgeBurn, Submit, chainVars, ledgerVars
    <3> QED BY <1>1, <3>2, <3>3, OwnSend DEF Quiet
  <2> QED BY <2>1, <2>2
<1>5. \A u \in Transfers : (MintLost(u)' => MintLost(u)) /\ (Lost(Refunds(u))' => Lost(Refunds(u)))
  BY <1>3, <1>4, LossKept
<1> QED BY <1>1, <1>2, <1>5, CalmStep DEF contractVars

\* A mint that is refused is the one failure.
LEMMA MintOfOneFailure ==
  ASSUME OneFailure, SeenThroughSoFar, NEW t \in Transfers, BridgeMint(t)
  PROVE  FailedOnce'
<1> DEFINE tx == Tx(t, TargetChain(t), "mint", "own")
<1>1. TypeOK /\ NoIsNo /\ [Next]_vars /\ IInv /\ Guarded /\ FailedOnce /\ MarkersEarned
  BY Mishap DEF SeenThroughSoFar, Guarded, Next, SagaStep
<1>2. saga[t] = "mint" /\ Mints(t) = {}
  BY <1>1 DEF BridgeMint, Submit, IInv, SagaInPhase
<1>3. TargetChain(t) \in Chain /\ "mint" \in Kind /\ "own" \in Tag
  BY OrdersWellFormed DEF TargetChain, Kind, Tag
<1>4. tx \in Txs /\ tx.kind = "mint" /\ tx.id = <<t, "own">> /\ tx.chain = ChainFor("mint", tx.id)
      /\ tx.chain = TargetChain(t)
  <2>1. tx \in Txs /\ tx.kind = "mint" /\ tx.id = <<t, "own">>
    BY <1>3, TxTyped
  <2> QED BY <2>1 DEF ChainFor, Tx
<1>5. Submit(t, "mint", tx, "mintSubmitted", MintFailed(t))
  BY DEF BridgeMint
<1>6. wallet' = wallet /\ (left' = left \/ (left = 1 /\ left' = 0))
  BY <1>1, WalletsStay, MishapsOnce
<1>7. UNCHANGED contractVars
  BY <1>1, SendsOrStill
<1>8. Troubled' <=> Troubled
  BY <1>7 DEF Troubled, contractVars
<1>9. \A u \in Transfers : TargetChain(u)' = TargetChain(u)
  BY DEF TargetChain
<1>10. \A u \in Transfers \ {t} : saga'[u] = saga[u]
  BY <1>1 DEF BridgeMint, Submit, Goto, TypeOK
<1>11. CASE Submitted(tx) /\ saga' = [saga EXCEPT ![t] = "mintSubmitted"]
  <2>1. posted' = posted
    BY <1>5 DEF Submit, ledgerVars
  <2>2. /\ \A u \in Transfers \ {t} : Quiet(u)
        /\ Mints(t)' = Mints(t) \union {Len(sent) + 1} /\ Refunds(t)' = Refunds(t)
        /\ \A h \in 1..Len(sent) : fate'[h] = fate[h]
    BY <1>1, <1>3, <1>11, <2>1, OwnSend
  <2>3. fate'[Len(sent) + 1] = "pending"
    <3> HIDE DEF tx
    <3> QED BY <1>1, <1>4, <1>11, NewSend
  <2>4. \A u \in Transfers \ {t} : (MintLost(u)' => MintLost(u)) /\ (Lost(Refunds(u))' => Lost(Refunds(u)))
    <3>1. \A u \in Transfers \ {t} : Mints(u)' = Mints(u) /\ Refunds(u)' = Refunds(u)
      BY <2>2 DEF Quiet
    <3> QED BY <1>10, <2>2, <3>1, LossKept DEF MintLost
  <2>5. ~Lost(Mints(t))' /\ saga'[t] # "refund" /\ Refunds(t) \subseteq 1..Len(sent)
    BY <1>1, <1>2, <1>11, <2>2, <2>3 DEF Lost, TypeOK, Refunds, Sends
  <2>6. (MintLost(t)' => MintLost(t)) /\ (Lost(Refunds(t))' => Lost(Refunds(t)))
    BY <2>2, <2>5 DEF MintLost, Lost
  <2> QED BY <1>1, <1>7, <2>4, <2>6, CalmStep DEF contractVars
<1>12. CASE UNCHANGED <<sent, fate>> /\ (Spend("refusal") \/ ~Accepts(tx))
  <2>1. \A u \in Transfers \ {t} : (MintLost(u)' => MintLost(u))
    BY <1>10, <1>12, StillChains, LossKept DEF MintLost
  <2>2. \A u \in Transfers : Lost(Refunds(u))' => Lost(Refunds(u))
    BY <1>12, StillChains DEF Lost
  <2>3. left' = 0 /\ (Troubled => TargetChain(t) = "ETHEREUM" /\ left = 0) /\ (~Troubled => left = 1)
    <3>1. CASE Spend("refusal")
      BY <1>1, <3>1, Mishap DEF FailedOnce
    <3>2. CASE ~Accepts(tx)
      <4>1. tx.address \in Base58
        BY <1>4 DEF OneFailure, Txs
      <4>2. ~Ran("mint", tx.id)
        BY <1>2, <1>4 DEF Ran, Mints, Sends
      <4> HIDE DEF tx
      <4>3. Executable(tx) \/ (tx.chain = "ETHEREUM" /\ Troubled)
        BY <1>1, <1>4, <4>2, MintMeetsTroubleOnly
      <4>4. tx.chain = "ETHEREUM" /\ Troubled
        BY <3>2, <4>1, <4>3 DEF Accepts
      <4>5. left = 0
        BY <1>1, <4>4 DEF FailedOnce
      <4> QED BY <1>4, <1>6, <4>4, <4>5
    <3> QED BY <1>12, <3>1, <3>2
  <2>4. \A u \in Transfers : MintLost(u)' => left' = 0 /\ (Troubled' => TargetChain(u)' = "ETHEREUM")
    BY <1>1, <1>8, <1>9, <2>1, <2>3 DEF FailedOnce
  <2> QED BY <1>1, <1>6, <2>2, <2>3, <2>4 DEF FailedOnce
<1> QED
  <2> HIDE DEF tx
  <2>1. ~Spend("lostReply")
    BY <1>1 DEF NoIsNo, Spend
  <2> QED BY <1>5, <1>11, <1>12, <2>1 DEF Submit, Goto, chainVars

\* A re-mint is only sent once the failure has happened.
LEMMA RefundOfOneFailure ==
  ASSUME OneFailure, SeenThroughSoFar, NEW t \in Transfers, Refund(t)
  PROVE  FailedOnce'
<1> DEFINE tx == Tx(t, SourceChain(t), "mint", "compensation")
<1>1. TypeOK /\ NoIsNo /\ [Next]_vars /\ IInv /\ Guarded /\ FailedOnce
  BY Mishap DEF SeenThroughSoFar, Guarded, Next, SagaStep
<1>2. saga[t] = "refund" /\ Refunds(t) = {} /\ IsBridge(t)
  BY <1>1 DEF Refund, Submit, IInv, SagaInPhase, Refunding
<1>3. SourceChain(t) \in Chain /\ "mint" \in Kind /\ "compensation" \in Tag
  BY <1>2, OrdersWellFormed DEF SourceChain, IsBridge, Kind, Tag
<1>4. tx \in Txs
  BY <1>3, TxTyped
<1>5. Submit(t, "refund", tx, "compensate", "failed")
  BY DEF Refund
<1>6. UNCHANGED contractVars
  BY <1>1, SendsOrStill
<1>7. \A u \in Transfers : saga'[u] = "refund" => MintLost(u)
  BY <1>1 DEF Refund, Submit, Goto, TypeOK, MintLost
<1>8. CASE Submitted(tx)
  <2>1. posted' = posted
    BY <1>5 DEF Submit, ledgerVars
  <2>2. /\ \A u \in Transfers \ {t} : Quiet(u)
        /\ Mints(t)' = Mints(t) /\ Refunds(t)' = Refunds(t) \union {Len(sent) + 1}
        /\ \A h \in 1..Len(sent) : fate'[h] = fate[h]
    BY <1>1, <1>3, <1>8, <2>1, OwnSend
  <2>3. fate'[Len(sent) + 1] = "pending"
    <3> HIDE DEF tx
    <3> QED BY <1>1, <1>4, <1>8, NewSend
  <2>4. \A u \in Transfers \ {t} : (MintLost(u)' => MintLost(u)) /\ (Lost(Refunds(u))' => Lost(Refunds(u)))
    <3>1. \A u \in Transfers \ {t} : Mints(u)' = Mints(u) /\ Refunds(u)' = Refunds(u)
      BY <2>2 DEF Quiet
    <3> QED BY <1>7, <2>2, <3>1, LossKept
  <2>5. MintLost(t) /\ ~Lost(Refunds(t))'
    BY <1>2, <2>2, <2>3 DEF MintLost, Lost
  <2> QED BY <1>1, <1>6, <2>4, <2>5, CalmStep DEF contractVars
<1>9. CASE UNCHANGED <<sent, fate>>
  <2>1. \A u \in Transfers : (MintLost(u)' => MintLost(u)) /\ (Lost(Refunds(u))' => Lost(Refunds(u)))
    BY <1>7, <1>9, StillChains, LossKept
  <2> QED BY <1>1, <1>6, <2>1, CalmStep DEF contractVars
<1> QED
  <2> HIDE DEF tx
  <2> QED BY <1>5, <1>8, <1>9 DEF Submit, chainVars

\* A transaction that is reverted meets trouble on Ethereum, which spares the
\* re-mints: their mints were Ethereum's.
LEMMA RevertOfOneFailure ==
  ASSUME OneFailure, SeenThroughSoFar, NEW h \in 1..Len(sent), Mined(h), Revert(h)
  PROVE  FailedOnce'
<1> DEFINE t == sent[h].id[1]
<1>1. TypeOK /\ [Next]_vars /\ IInv /\ Guarded /\ FailedOnce /\ MarkersEarned
  BY DEF SeenThroughSoFar, Guarded, Next
<1>2. /\ \A i \in 1..Len(sent) : i # h => fate'[i] = fate[i]
      /\ fate[h] = "pending" /\ \A kind, id : Sends(kind, id)' = Sends(kind, id)
  BY <1>1, Decided DEF Revert, Fates
<1>3. \A u \in Transfers : Mints(u)' = Mints(u) /\ Refunds(u)' = Refunds(u)
  BY <1>2 DEF Mints, Refunds
<1>4. /\ saga' = saga /\ wallet' = wallet /\ left' = left
      /\ (Troubled' <=> Troubled) /\ \A u \in Transfers : TargetChain(u)' = TargetChain(u)
  BY DEF Mined, bridgeVars, ledgerVars, Revert, contractVars, Troubled, TargetChain
<1>5. \A S \in SUBSET (1..Len(sent)) : h \notin S => Lost(S)' = Lost(S)
  BY <1>2 DEF Lost
<1>6. \A u \in Transfers : Mints(u) \in SUBSET (1..Len(sent)) /\ Refunds(u) \in SUBSET (1..Len(sent))
  BY DEF Mints, Refunds, Sends
<1>7. sent[h] \in Txs /\ t \in Transfers /\ sent[h].id = <<t, sent[h].id[2]>>
  BY <1>1, SentIsTx DEF Txs
<1>8. CASE sent[h].kind # "mint"
  <2>1. \A u \in Transfers : h \notin Mints(u) /\ h \notin Refunds(u)
    BY <1>8 DEF Mints, Refunds, Sends
  <2> QED BY <1>1, <1>3, <1>4, <1>5, <1>6, <2>1 DEF FailedOnce, MintLost, Lost
<1>9. CASE sent[h].kind = "mint"
  <2>1. sent[h].chain = "ETHEREUM" /\ Troubled
    BY <1>1, <1>2, <1>9, SentMeetsTroubleOnly DEF Revert
  <2>2. left = 0
    BY <1>1, <2>1 DEF FailedOnce
  <2>3. sent[h].chain = ChainFor("mint", sent[h].id)
    BY <1>1, <1>9 DEF Guarded, Marked
  <2>4. CASE sent[h].id[2] # "own"
    <3>1. sent[h].id = <<t, "compensation">>
      BY <1>7, <2>4 DEF Txs, Tag
    <3>2. h \in Refunds(t)
      BY <1>9, <3>1 DEF Refunds, Sends
    <3>3. SourceChain(t) = "ETHEREUM"
      BY <2>1, <2>3, <2>4 DEF ChainFor
    <3>4. TargetChain(t) = "ETHEREUM"
      BY <1>1, <1>7, <2>1, <3>2 DEF FailedOnce, MintLost
    <3>5. IsBridge(t)
      <4>1. InSomePhase(t)
        BY <1>1, <1>7 DEF IInv, SagaInPhase
      <4> QED BY <3>2, <4>1
        DEF InSomePhase, Unstarted, Burning, Unburned, Minting, Unminted, Credited, Refunding, Paid
    <3> QED BY <1>7, <3>3, <3>4, <3>5, OrdersWellFormed DEF IsBridge, SourceChain, TargetChain
  <2>5. CASE sent[h].id[2] = "own"
    <3>1. TargetChain(t) = "ETHEREUM"
      BY <2>1, <2>3, <2>5 DEF ChainFor
    <3>2. \A u \in Transfers : h \notin Refunds(u) /\ (h \in Mints(u) => u = t)
      BY <1>7, <2>5 DEF Mints, Refunds, Sends
    <3> HIDE DEF t
    <3>3. \A u \in Transfers : MintLost(u)' => MintLost(u) \/ u = t
      BY <1>3, <1>4, <1>5, <1>6, <3>2 DEF MintLost
    <3>4. \A u \in Transfers : Lost(Refunds(u))' = Lost(Refunds(u))
      <4>1. \A u \in Transfers : Lost(Refunds(u))' <=> \E i \in Refunds(u) : fate'[i] \in {"reverted", "dropped"}
        BY <1>3 DEF Lost
      <4> QED BY <1>2, <1>6, <3>2, <4>1 DEF Lost
    <3> QED BY <1>1, <1>4, <2>2, <3>1, <3>3, <3>4 DEF FailedOnce
  <2> QED BY <2>4, <2>5
<1> QED BY <1>8, <1>9

LEMMA FailedOnceKept ==
  ASSUME OneFailure, SeenThroughSoFar, [Next]_vars
  PROVE  FailedOnce'
<1>1. TypeOK /\ NoIsNo /\ IInv /\ Guarded /\ FailedOnce /\ MarkersEarned
  BY Mishap DEF SeenThroughSoFar, Guarded
<1>2. \A m : Spend(m) => m \in {"drop", "refusal", "admin", "holder"} /\ left = 1 /\ left' = 0
  BY <1>1, Mishap
<1>3. ASSUME left = 1, left' = 0
      PROVE  ~Troubled /\ \A u \in Transfers : ~MintLost(u)
  BY <1>1, <1>3 DEF FailedOnce
<1>4. ASSUME UNCHANGED <<sent, fate, paused, blacklisted>>,
             \A u \in Transfers : saga'[u] = "refund" => saga[u] = "refund"
      PROVE  FailedOnce'
  BY <1>1, <1>4, StillChains, LossKept, CalmStep DEF MintLost
<1>5. ASSUME NEW r \in Requests, Issue(r) \/ BridgeTransfer(r) \/ InsertRow(r) \/ InsertFails(r)
      PROVE  FailedOnce'
  <2>1. UNCHANGED chainVars
    BY <1>5 DEF Issue, BridgeTransfer, InsertRow, InsertFails
  <2>2. \A u \in Transfers : saga'[u] = "refund" => saga[u] = "refund"
    BY <1>1, <1>5 DEF Issue, BridgeTransfer, InsertRow, InsertFails, Goto, TypeOK
  <2> QED BY <1>4, <2>1, <2>2 DEF chainVars, contractVars
<1>6. ASSUME NEW t \in Transfers, SagaStep(t) \/ Resume(t) \/ OperatorReverses(t)
      PROVE  FailedOnce'
  <2>1. SagaStep(t)
    BY <1>2, <1>6 DEF Resume, OperatorReverses
  <2> QED BY <2>1, SagaIsCalm, MintOfOneFailure, RefundOfOneFailure
<1>7. ASSUME NEW h \in 1..Len(sent), Mined(h)
      PROVE  FailedOnce'
  <2>1. CASE Execute(h)
    <3>1. /\ \A i \in 1..Len(sent) : i # h => fate'[i] = fate[i]
          /\ fate'[h] = "done" /\ \A kind, id : Sends(kind, id)' = Sends(kind, id)
      BY <1>1, <2>1, Decided DEF Execute, Fates
    <3>2. \A u \in Transfers : Mints(u)' = Mints(u) /\ Refunds(u)' = Refunds(u)
      BY <3>1 DEF Mints, Refunds
    <3>3. saga' = saga /\ UNCHANGED <<paused, blacklisted>>
      BY <1>7, <2>1 DEF Mined, bridgeVars, Execute
    <3>4. \A i \in 1..Len(sent) : fate'[i] \in {"reverted", "dropped"} => fate[i] \in {"reverted", "dropped"}
      BY <3>1
    <3>5. \A u \in Transfers : (MintLost(u)' => MintLost(u)) /\ (Lost(Refunds(u))' => Lost(Refunds(u)))
      BY <3>2, <3>3, <3>4, LossKept DEF MintLost
    <3> QED BY <1>1, <3>3, <3>5, CalmStep
  <2> QED BY <1>7, <2>1, RevertOfOneFailure DEF Mined
<1>8. ASSUME NEW h \in 1..Len(sent), Dropped(h)
      PROVE  FailedOnce'
  <2>1. left = 1 /\ left' = 0
    BY <1>2, <1>8 DEF Dropped
  <2>2. ~Troubled /\ \A u \in Transfers : ~MintLost(u)
    BY <1>3, <2>1
  <2>3. \A kind, id : Sends(kind, id)' = Sends(kind, id)
    BY <1>1, <1>8, Decided DEF Dropped, Drop, Fates
  <2>4. \A u \in Transfers : ~Lost(Refunds(u))'
    BY <2>2, <2>3 DEF MintLost, Refunds, Lost
  <2>5. ~Troubled' /\ wallet' = wallet
    BY <1>8, <2>2 DEF Dropped, Drop, contractVars, ledgerVars, Troubled
  <2> QED BY <1>1, <2>1, <2>4, <2>5 DEF FailedOnce
<1>9. CASE ChainAdmin
  <2>1. left = 1 /\ left' = 0
    BY <1>2, <1>9 DEF ChainAdmin
  <2>2. \A u \in Transfers : ~MintLost(u)
    BY <1>3, <2>1
  <2>3. UNCHANGED <<wallet, saga, sent, fate>>
    BY <1>9 DEF ChainAdmin, TogglePause, ToggleBlacklist, ledgerVars
  <2>4. \A u \in Transfers : ~MintLost(u)' /\ (Lost(Refunds(u))' <=> Lost(Refunds(u)))
    BY <2>2, <2>3 DEF MintLost, Lost, Mints, Refunds, Sends
  <2> QED BY <1>1, <2>1, <2>3, <2>4 DEF FailedOnce
<1>10. CASE Holder \/ UNCHANGED vars
  BY <1>4, <1>10 DEF Holder, ApproveDelegate, HolderMoves, vars, bridgeVars, chainVars, contractVars
<1>11. CASE Crash \/ \E w \in Wallets, s \in {"ACTIVE", "FROZEN", "CLOSED"} : SetWalletStatus(w, s)
  BY <1>2, <1>11 DEF Crash, SetWalletStatus
<1> QED BY <1>5, <1>6, <1>7, <1>8, <1>9, <1>10, <1>11 DEF Next

LEMMA FailingOnce ==
  ASSUME OneFailure
  PROVE  Spec => []SeenThroughSoFar
<1>1. Init => FailedOnce
  <2> SUFFICES ASSUME Init  PROVE FailedOnce
    OBVIOUS
  <2>1. /\ sent = << >> /\ \A t \in Transfers : saga[t] = "none"
        /\ \A w \in Wallets : wallet[w] = "ACTIVE"
        /\ ~Troubled
    BY DEF Init, ChainInit, Troubled
  <2>2. \A t \in Transfers : Mints(t) = {} /\ Refunds(t) = {}
    BY <2>1 DEF Mints, Refunds, Sends
  <2> QED BY <2>1, <2>2 DEF FailedOnce, MintLost, Lost
<1>2. Guarded /\ IInv /\ MarkersEarned /\ FailedOnce /\ [Next]_vars => FailedOnce'
  BY FailedOnceKept DEF SeenThroughSoFar
<1>3. NoIsNo
  BY DEF OneFailure, NoIsNo
<1>4. Spec => []IInv
  BY <1>3, Invariance
<1> QED BY <1>1, <1>2, <1>4, Guarding, Earning, PTL DEF Spec, SeenThroughSoFar

LEMMA EndedStays ==
  ASSUME NEW u \in Transfers, Quiet(u), Ended(u)
  PROVE  Ended(u)'
<1>1. Legs(u)' = Legs(u)
  BY DEF Quiet
<1> QED BY <1>1, PhasesSurvive DEF Ended

\* A re-mint is never refused.
LEMMA RefundIsTaken ==
  ASSUME OneFailure, SeenThroughSoFar, NEW t \in Transfers, Refund(t)
  PROVE  saga'[t] = "compensate"
<1> DEFINE tx == Tx(t, SourceChain(t), "mint", "compensation")
<1>1. TypeOK /\ IInv /\ Guarded /\ FailedOnce /\ MarkersEarned
  BY DEF SeenThroughSoFar, Guarded
<1>2. saga[t] = "refund" /\ Refunds(t) = {} /\ IsBridge(t)
  BY <1>1 DEF Refund, Submit, IInv, SagaInPhase, Refunding
<1>3. SourceChain(t) \in Chain /\ SourceChain(t) # TargetChain(t) /\ "mint" \in Kind /\ "compensation" \in Tag
  BY <1>2, OrdersWellFormed DEF SourceChain, TargetChain, IsBridge, Kind, Tag
<1>4. tx \in Txs /\ tx.kind = "mint" /\ tx.id = <<t, "compensation">> /\ tx.chain = SourceChain(t)
  <2>1. tx \in Txs /\ tx.kind = "mint" /\ tx.id = <<t, "compensation">>
    BY <1>3, TxTyped
  <2> QED BY <2>1 DEF Tx
<1>5. Submit(t, "refund", tx, "compensate", "failed")
  BY DEF Refund
<1>6. left = 0 /\ (Troubled => TargetChain(t) = "ETHEREUM")
  BY <1>1, <1>2 DEF FailedOnce, MintLost
<1>7. tx.address \in Base58
  BY <1>4 DEF OneFailure, Txs
<1>8. ~Ran("mint", tx.id)
  BY <1>2, <1>4 DEF Ran, Refunds, Sends
<1>9. tx.chain = ChainFor("mint", tx.id)
  BY <1>4 DEF ChainFor
<1> HIDE DEF tx
<1>10. Executable(tx)
  BY <1>1, <1>3, <1>4, <1>6, <1>8, <1>9, MintMeetsTroubleOnly
<1>11. Accepts(tx)
  BY <1>7, <1>10 DEF Accepts
<1>12. ~Spend("refusal") /\ ~Spend("lostReply")
  BY <1>6 DEF Spend
<1>13. Goto(t, "compensate")
  BY <1>5, <1>11, <1>12 DEF Submit
<1> QED BY <1>1, <1>13 DEF Goto, TypeOK

\* A saga comes to its end with nothing left to do.
LEMMA EndsWell ==
  ASSUME OneFailure, SeenThroughSoFar, IInv', NEW t \in Transfers, SagaStep(t),
         saga[t] \notin {"failed", "over"}, saga'[t] \in {"failed", "over"}
  PROVE  Ended(t)'
<1>1. TypeOK /\ IInv /\ Guarded /\ FailedOnce
  BY DEF SeenThroughSoFar, Guarded
<1>2. ~Spend("fault") /\ ~Spend("early")
  BY <1>1, Mishap
<1>3. "none" \notin {"failed", "over"} /\ saga[t] \in DOMAIN Writes \union Running \union {"none", "dead"}
  BY <1>1 DEF TypeOK
<1>4. wallet[Order[t].source] = "ACTIVE" /\ wallet[Order[t].target] = "ACTIVE"
  BY <1>1, OrdersWellFormed DEF FailedOnce
<1>5. SagaInPhase(t) /\ SagaInPhase(t)'
  BY <1>1 DEF IInv
<1>6. CASE BridgeOut(t)
  <2>1. saga[t] = "out" /\ Unstarted(t) /\ Legs(t) = {}
    BY <1>5, <1>6 DEF BridgeOut, Books, SagaInPhase
  <2>2. UNCHANGED <<posted, sent, fate>>
    BY <1>1, <1>2, <1>6 DEF BridgeOut, Books, Goto, Refuse, TypeOK, ledgerVars, chainVars
  <2>3. Quiet(t)
    BY <2>2, StillChains, StillLegs DEF Quiet
  <2> QED BY <2>1, <2>3, EndedStays DEF Ended
<1>7. CASE Credit(t)
  <2>1. Refuse("deliver", t)
    BY <1>1, <1>7 DEF Credit, Books, Goto, TypeOK
  <2>2. Postable("deliver", t)
    BY <1>4 DEF Postable
  <2> QED BY <1>2, <2>1, <2>2 DEF Refuse
<1>8. CASE Undo(t)
  <2>1. saga[t] = "undo" /\ Legs(t) = {"reserve"} /\ saga'[t] = "failed"
    BY <1>1, <1>5, <1>8 DEF Undo, Books, SagaInPhase, Goto, TypeOK
  <2>2. Has("reserve", t)
    BY <2>1 DEF Legs
  <2>3. Postable("undo", t)
    BY <1>4, <2>2 DEF Postable
  <2>4. Post("undo", t)
    BY <1>2, <1>8, <2>3 DEF Undo, Books, Refuse
  <2>5. "undo" \in Legs(t)'
    BY <2>4 DEF Post, Legs, Has, Leg
  <2>6. Abandoned(t)'
    BY <1>5, <2>1 DEF SagaInPhase
  <2> QED BY <2>5, <2>6 DEF Abandoned, Unstarted, Ended
<1>9. CASE BridgeCompensate(t)
  <2>1. saga[t] = "compensate" /\ saga'[t] \in {"failed", "over"}
    BY <1>9 DEF BridgeCompensate, Books
  <2>2. Refuse("compensate", t)
    BY <1>1, <1>9, <2>1 DEF BridgeCompensate, Books, Goto, TypeOK
  <2>3. Postable("compensate", t)
    BY <1>4 DEF Postable
  <2> QED BY <1>2, <2>2, <2>3 DEF Refuse
<1>10. CASE Refund(t)
  BY <1>10, RefundIsTaken
<1>11. CASE UpdateStatus(t)
  <2>1. UNCHANGED <<posted, sent, fate>>
    BY <1>11 DEF UpdateStatus, chainVars
  <2>2. Quiet(t)
    BY <2>1, StillChains, StillLegs DEF Quiet
  <2>3. saga[t] \in {"complete", "compensated"}
    BY <1>1, <1>11 DEF UpdateStatus, Writes, Goto, TypeOK
  <2>4. Ended(t)
    BY <1>5, <2>3 DEF SagaInPhase, Ended
  <2> QED BY <2>2, <2>4, EndedStays
<1>12. CASE Load(t) \/ LoadFails(t) \/ BridgeBurn(t) \/ WaitBurn(t) \/ BridgeMint(t) \/ WaitMint(t)
  <2>1. saga'[t] \in {"out", "mint", "waitBurn", "undo", "burnConfirmed", "mintSubmitted", "refund", "deliver"}
    BY <1>1, <1>2, <1>12
    DEF Load, LoadFails, BridgeBurn, BridgeMint, Submit, WaitBurn, WaitMint, Wait, Goto, MintFailed, TypeOK
  <2> QED BY <2>1
<1> QED BY <1>6, <1>7, <1>8, <1>9, <1>10, <1>11, <1>12 DEF SagaStep

LEMMA SeenOutKept ==
  ASSUME OneFailure, SeenThroughSoFar, SeenOut, IInv', [Next]_vars
  PROVE  SeenOut'
<1>1. TypeOK /\ IInv /\ NoIsNo
  BY Mishap DEF SeenThroughSoFar, Guarded
<1>2. \A m : Spend(m) => m \in {"drop", "refusal", "admin", "holder"}
  BY <1>1, Mishap
<1>3. ASSUME NEW u \in Transfers, saga[u] \in {"failed", "over"}  PROVE Ended(u)'
  BY <1>1, <1>3, OverIsQuiet, EndedStays DEF SeenOut
<1>4. CASE \E t \in Transfers : SagaStep(t) \/ Resume(t) \/ OperatorReverses(t)
  <2> PICK t \in Transfers : SagaStep(t)
    BY <1>2, <1>4 DEF Resume, OperatorReverses
  <2>1. \A u \in Transfers \ {t} : saga'[u] = saga[u]
    BY <1>1
    DEF SagaStep, Load, LoadFails, BridgeOut, Credit, Undo, BridgeCompensate, Books, BridgeBurn, BridgeMint, Refund,
        Submit, WaitBurn, WaitMint, Wait, UpdateStatus, Goto, TypeOK
  <2>2. saga'[t] # "dead"
    BY <1>1
    DEF SagaStep, Load, LoadFails, BridgeOut, Credit, Undo, BridgeCompensate, Books, BridgeBurn, BridgeMint, Refund,
        Submit, WaitBurn, WaitMint, Wait, UpdateStatus, Goto, Writes, MintFailed, TypeOK
  <2> QED BY <1>3, <2>1, <2>2, EndsWell DEF SeenOut
<1>5. CASE \E r \in Requests : Issue(r) \/ BridgeTransfer(r) \/ InsertRow(r) \/ InsertFails(r)
  <2>1. saga' = saga \/ \E t \in Transfers : saga' = [saga EXCEPT ![t] = "load"]
    BY <1>5 DEF Issue, BridgeTransfer, InsertRow, InsertFails, Goto, Requests
  <2>2. \A u \in Transfers : saga'[u] \in {saga[u], "load"}
    BY <1>1, <2>1 DEF TypeOK
  <2> QED BY <1>3, <2>2 DEF SeenOut
<1>6. CASE Crash
  BY <1>2, <1>6 DEF Crash
<1>7. CASE \/ \E h \in 1..Len(sent) : Mined(h) \/ Dropped(h)
           \/ \E w \in Wallets, s \in {"ACTIVE", "FROZEN", "CLOSED"} : SetWalletStatus(w, s)
           \/ ChainAdmin \/ Holder \/ UNCHANGED vars
  <2>1. saga' = saga
    BY <1>7 DEF Mined, Dropped, SetWalletStatus, ChainAdmin, Holder, vars, bridgeVars
  <2> QED BY <1>3, <2>1 DEF SeenOut
<1> QED BY <1>4, <1>5, <1>6, <1>7 DEF Next

LEMMA SeeingOut ==
  ASSUME OneFailure
  PROVE  Spec => []SeenOut
<1>1. Init => SeenOut
  BY DEF Init, SeenOut
<1>2. SeenThroughSoFar /\ SeenOut /\ [Next]_vars /\ SeenThroughSoFar' => SeenOut'
  BY SeenOutKept DEF SeenThroughSoFar
<1>3. Spec => []SeenThroughSoFar
  BY FailingOnce
<1> QED BY <1>1, <1>2, <1>3, PTL DEF Spec

\* After one failure no re-mint is lost, so all the journal owes is on a chain or
\* on its way back to one.
THEOREM OwedIsCovered ==
  ASSUME OneFailure
  PROVE  Spec => []OwedIsOnChain
<1>1. ASSUME SeenThroughSoFar, OnlyRefundsLose  PROVE OwedIsOnChain
  <2>1. RefundLost = {}
    BY <1>1 DEF SeenThroughSoFar, FailedOnce, Lost, RefundLost, Void
  <2>2. Sum(RefundLost) = 0
    BY <2>1, SumOfNothing DEF Sum
  <2>3. Sum(BeingRefunded) \in Nat
    BY Amounts DEF BeingRefunded
  <2>4. Supply \in Int
    <3>1. tokens \in [Chain -> [Addresses -> Int]]
      BY <1>1, HoldingsAreInts DEF SeenThroughSoFar, Guarded, TypeOK
    <3> QED BY <3>1, SupplyIsInt DEF Supply
  <2> QED BY <1>1, <2>2, <2>3, <2>4 DEF OnlyRefundsLose, OwedIsOnChain
<1>2. NoIsNo
  BY DEF OneFailure, NoIsNo
<1>3. Spec => []OnlyRefundsLose
  BY <1>2, LossesAccounted
<1>4. Spec => []SeenThroughSoFar
  BY FailingOnce
<1> QED BY <1>1, <1>3, <1>4, PTL

\* After one failure every final status tells the whole truth: a failed transfer
\* has touched nothing, a compensated one is back on its chain or on its way.
THEOREM StatusTrueOnce ==
  ASSUME OneFailure
  PROVE  Spec => []StatusIsTrue
<1>1. ASSUME SeenThroughSoFar, SeenOut, RemintedFirst, StatusStands  PROVE StatusIsTrue
  <2> SUFFICES ASSUME NEW t \in Transfers
               PROVE  /\ row[t] = "COMPLETED" => Minted(t) /\ InLedger(t) = "target"
                      /\ row[t] = "FAILED" => OnChain(t) = "untouched" /\ InLedger(t) \in {"none", "source"}
                      /\ row[t] = "COMPENSATED" =>
                           /\ Burned(t) /\ ~Minted(t) /\ InLedger(t) = "source"
                           /\ Reminted(t) \/ t \in BeingRefunded
    BY DEF StatusIsTrue
  <2>1. TypeOK /\ StatusInPhase(t) /\ FailedOnce
    BY <1>1 DEF SeenThroughSoFar, IInv
  <2>2. /\ "deliver" \in Leg /\ "undo" \in Leg /\ "compensate" \in Leg /\ "reserve" \in Leg
    BY DEF Leg
  <2>3. /\ Void(Burns(t)) => ~Burned(t)
        /\ Void(Mints(t)) => ~Minted(t)
        /\ Burns(t) = {} => ~Burned(t)
        /\ Mints(t) = {} => ~Minted(t)
        /\ Refunds(t) = {} => ~Reminted(t)
        /\ Final(Burns(t)) => Burned(t)
    BY Stands DEF Void, Final
  <2>4. CASE row[t] = "COMPLETED"
    BY <1>1, <2>4 DEF StatusStands
  <2>5. CASE row[t] = "FAILED"
    <3>1. Abandoned(t) /\ Ended(t)
      BY <1>1, <2>1, <2>5 DEF StatusInPhase, SeenOut
    <3>2. \/ Unstarted(t) /\ Legs(t) = {}
          \/ (Unburned(t) \/ Unminted(t)) /\ "undo" \in Legs(t)
      BY <3>1 DEF Abandoned, Ended, Credited, Unstarted, Unburned, Unminted, Refunding
    <3>3. ~Burned(t) /\ ~Minted(t) /\ ~Reminted(t)
      BY <2>3, <3>2 DEF Unstarted, Unburned, Unminted
    <3>4. Legs(t) \in {{}, {"reserve", "undo"}}
      BY <3>2 DEF Unburned, Unminted
    <3>5. InLedger(t) \in {"none", "source"}
      BY <2>2, <3>4, Stands DEF InLedger
    <3> QED BY <2>5, <3>3, <3>5 DEF OnChain
  <2>6. CASE row[t] = "COMPENSATED"
    <3>1. Refunding(t) /\ Legs(t) = {"reserve", "compensate"}
      BY <2>1, <2>6 DEF StatusInPhase, Refunding
    <3>2. Burned(t) /\ ~Minted(t)
      BY <2>3, <3>1 DEF Refunding
    <3>3. InLedger(t) = "source"
      BY <2>2, <3>1, Stands DEF InLedger
    <3>4. Refunds(t) # {} /\ ~Lost(Refunds(t))
      BY <1>1, <2>1, <3>1 DEF RemintedFirst, FailedOnce
    <3>5. t \notin RefundLost
      BY <3>4 DEF RefundLost, Lost, Void
    <3>6. Reminted(t) \/ t \in BeingRefunded
      BY <2>1, <3>4, <3>5, RefundFates DEF Awaited
    <3> QED BY <2>6, <3>2, <3>3, <3>6
  <2> QED BY <2>4, <2>5, <2>6
<1>2. NoIsNo
  BY DEF OneFailure, NoIsNo
<1>3. Spec => []StatusStands
  BY <1>2, StatusTold
<1>4. (Spec => []SeenThroughSoFar) /\ (Spec => []SeenOut)
  BY FailingOnce, SeeingOut
<1> QED BY <1>1, <1>3, <1>4, Reminting, PTL

\* Where a transfer stands once nothing is under way.
LEMMA RestTells ==
  ASSUME OneFailure, SeenThroughSoFar, SeenOut, RemintedFirst, AtRest, NEW t \in Transfers
  PROVE  \/ ~Minted(t) /\ ~Reminted(t) /\ ~Burned(t) /\ Legs(t) \subseteq {"reserve"}
              /\ (IsBridge(t) => Legs(t) = {})
         \/ Minted(t) /\ ~Reminted(t) /\ (Burned(t) <=> IsBridge(t)) /\ Legs(t) = {"reserve", "deliver"}
         \/ ~Minted(t) /\ ~Reminted(t) /\ ~Burned(t) /\ Legs(t) = {"reserve", "undo"}
         \/ IsBridge(t) /\ ~Minted(t) /\ Reminted(t) /\ Burned(t) /\ Legs(t) = {"reserve", "compensate"}
<1>1. SagaInPhase(t) /\ FailedOnce /\ TypeOK /\ RemintedFirst
  BY DEF SeenThroughSoFar, IInv
<1>2. saga[t] = "none" \/ Ended(t)
  BY <1>1 DEF AtRest, SeenOut, TypeOK
<1>3. /\ Void(Burns(t)) => ~Burned(t)
      /\ Void(Mints(t)) => ~Minted(t)
      /\ Burns(t) = {} => ~Burned(t)
      /\ Mints(t) = {} => ~Minted(t)
      /\ Refunds(t) = {} => ~Reminted(t)
      /\ Final(Burns(t)) => Burned(t)
      /\ Final(Mints(t)) => Minted(t)
  BY Stands DEF Void, Final
<1>4. CASE saga[t] = "none" \/ (Unstarted(t) /\ Legs(t) = {})
  BY <1>1, <1>3, <1>4 DEF SagaInPhase, Unstarted
<1>5. CASE Credited(t)
  BY <1>3, <1>5 DEF Credited, Paid
<1>6. CASE (Unburned(t) \/ Unminted(t)) /\ "undo" \in Legs(t)
  BY <1>3, <1>6 DEF Unburned, Unminted
<1>7. CASE Refunding(t) /\ "compensate" \in Legs(t)
  <2>1. PICK h \in Refunds(t) : TRUE
    BY <1>1, <1>7 DEF RemintedFirst
  <2>2. fate[h] \notin {"pending", "reverted", "dropped"} /\ h \in 1..Len(sent)
    BY <1>1, <2>1 DEF FailedOnce, Lost, AtRest, Refunds, Sends
  <2>3. fate[h] = "done"
    <3>1. fate \in Seq(Fates) /\ h \in 1..Len(fate)
      BY <1>1, <2>2 DEF TypeOK
    <3>2. fate[h] \in Fates
      BY <3>1
    <3> QED BY <2>2, <3>2 DEF Fates
  <2>4. Reminted(t)
    BY <2>1, <2>3, Stands DEF Final
  <2> QED BY <1>3, <1>7, <2>4 DEF Refunding
<1> QED BY <1>2, <1>4, <1>5, <1>6, <1>7 DEF Ended

\* Once nothing is under way the books and the chains agree, if at most one
\* transaction is lost, one call refused, one contract paused or one address
\* blacklisted, or one token moved by its holder.
THEOREM BooksAgreeAtRest ==
  ASSUME OneFailure
  PROVE  Spec => []ReconciledAtRest
<1> DEFINE Legged(leg) == {t \in Transfers : Has(leg, t)}
           Issued == {t \in Transfers : ~IsBridge(t) /\ Has("reserve", t)}
           Unissued == {t \in Transfers : ~IsBridge(t) /\ Has("undo", t)}
           Back == Legged("undo") \union Legged("compensate")
<1>1. ASSUME SeenThroughSoFar, SeenOut, RemintedFirst, TokensAccounted, AtRest  PROVE LegA
  <2>1. /\ Minters \in SUBSET Transfers /\ Reminters \in SUBSET Transfers /\ Burners \in SUBSET Transfers
        /\ Issued \in SUBSET Transfers /\ Unissued \in SUBSET Transfers /\ {} \in SUBSET Transfers
        /\ Back \in SUBSET Transfers /\ \A leg : Legged(leg) \in SUBSET Transfers
    BY DEF Minters, Reminters, Burners
  <2>2. ASSUME NEW t \in Transfers
        PROVE  /\ In(Minters)[t] + In(Reminters)[t] + In(Unissued)[t] + In(Legged("reserve"))[t]
                    = In(Burners)[t] + In(Issued)[t] + In(Legged("deliver"))[t] + In(Back)[t]
               /\ In(Legged("undo"))[t] + In(Legged("compensate"))[t] + In({})[t] + In({})[t]
                    = In(Back)[t] + In({})[t] + In({})[t] + In({})[t]
    <3>1. Order[t].amount \in Nat
      BY OrdersWellFormed
    <3>2. "reserve" \in Leg /\ "deliver" \in Leg /\ "undo" \in Leg /\ "compensate" \in Leg
      BY DEF Leg
    <3>3. \A leg \in Leg : Has(leg, t) <=> leg \in Legs(t)
      BY Stands
    <3>4. \/ ~Minted(t) /\ ~Reminted(t) /\ ~Burned(t) /\ Legs(t) \subseteq {"reserve"}
               /\ (IsBridge(t) => Legs(t) = {})
          \/ Minted(t) /\ ~Reminted(t) /\ (Burned(t) <=> IsBridge(t)) /\ Legs(t) = {"reserve", "deliver"}
          \/ ~Minted(t) /\ ~Reminted(t) /\ ~Burned(t) /\ Legs(t) = {"reserve", "undo"}
          \/ IsBridge(t) /\ ~Minted(t) /\ Reminted(t) /\ Burned(t) /\ Legs(t) = {"reserve", "compensate"}
      BY <1>1, RestTells
    <3>5. \/ /\ ~Minted(t) /\ ~Reminted(t) /\ ~Burned(t) /\ (Has("reserve", t) => ~IsBridge(t))
             /\ ~Has("deliver", t) /\ ~Has("undo", t) /\ ~Has("compensate", t)
          \/ /\ Minted(t) /\ ~Reminted(t) /\ (Burned(t) <=> IsBridge(t))
             /\ Has("reserve", t) /\ Has("deliver", t) /\ ~Has("undo", t) /\ ~Has("compensate", t)
          \/ /\ ~Minted(t) /\ ~Reminted(t) /\ ~Burned(t)
             /\ Has("reserve", t) /\ ~Has("deliver", t) /\ Has("undo", t) /\ ~Has("compensate", t)
          \/ /\ IsBridge(t) /\ ~Minted(t) /\ Reminted(t) /\ Burned(t)
             /\ Has("reserve", t) /\ ~Has("deliver", t) /\ ~Has("undo", t) /\ Has("compensate", t)
      BY <3>2, <3>3, <3>4
    <3>6. /\ In(Minters)[t] = IF Minted(t) THEN Order[t].amount ELSE 0
          /\ In(Reminters)[t] = IF Reminted(t) THEN Order[t].amount ELSE 0
          /\ In(Burners)[t] = IF Burned(t) THEN Order[t].amount ELSE 0
          /\ In(Issued)[t] = IF ~IsBridge(t) /\ Has("reserve", t) THEN Order[t].amount ELSE 0
          /\ In(Unissued)[t] = IF ~IsBridge(t) /\ Has("undo", t) THEN Order[t].amount ELSE 0
          /\ \A leg : In(Legged(leg))[t] = IF Has(leg, t) THEN Order[t].amount ELSE 0
          /\ In(Back)[t] = IF Has("undo", t) \/ Has("compensate", t) THEN Order[t].amount ELSE 0
          /\ In({})[t] = 0
      BY DEF In, Minters, Reminters, Burners
    <3> HIDE DEF Legged, Issued, Unissued, Back
    <3> QED BY <3>1, <3>5, <3>6
  <2>3. Supply = InitialCirculation + Sum(Minters) + Sum(Reminters) - Sum(Burners)
    BY <1>1 DEF TokensAccounted, Minters, Reminters, Burners
  <2>4. Circulation = InitialCirculation + Sum(Issued) - Sum(Unissued)
    BY DEF Circulation
  <2>5. InTransit = Sum(Legged("reserve")) - Sum(Legged("deliver")) - Sum(Legged("undo")) - Sum(Legged("compensate"))
    BY DEF InTransit
  <2> HIDE DEF Legged, Issued, Unissued, Back
  <2>6. /\ Sum(Minters) \in Nat /\ Sum(Reminters) \in Nat /\ Sum(Burners) \in Nat /\ Sum({}) \in Nat
        /\ Sum(Issued) \in Nat /\ Sum(Unissued) \in Nat /\ Sum(Back) \in Nat
        /\ Sum(Legged("reserve")) \in Nat /\ Sum(Legged("deliver")) \in Nat
        /\ Sum(Legged("undo")) \in Nat /\ Sum(Legged("compensate")) \in Nat
    BY <2>1, Amounts
  <2>7. \A T \in SUBSET Transfers : \A t \in Transfers : In(T)[t] \in Int
    BY Amounts DEF In
  <2>8. Sum(Minters) + Sum(Reminters) + Sum(Unissued) + Sum(Legged("reserve"))
          = Sum(Burners) + Sum(Issued) + Sum(Legged("deliver")) + Sum(Back)
    <3>1. \A t \in Transfers :
            /\ In(Minters)[t] + In(Reminters)[t] + In(Unissued)[t] + In(Legged("reserve"))[t]
                 <= In(Burners)[t] + In(Issued)[t] + In(Legged("deliver"))[t] + In(Back)[t]
            /\ In(Burners)[t] + In(Issued)[t] + In(Legged("deliver"))[t] + In(Back)[t]
                 <= In(Minters)[t] + In(Reminters)[t] + In(Unissued)[t] + In(Legged("reserve"))[t]
      BY <2>1, <2>2, <2>7
    <3>2. Sum(Minters) + Sum(Reminters) + Sum(Unissued) + Sum(Legged("reserve"))
            <= Sum(Burners) + Sum(Issued) + Sum(Legged("deliver")) + Sum(Back)
      BY <2>1, <3>1, Weigh
    <3>3. Sum(Burners) + Sum(Issued) + Sum(Legged("deliver")) + Sum(Back)
            <= Sum(Minters) + Sum(Reminters) + Sum(Unissued) + Sum(Legged("reserve"))
      BY <2>1, <3>1, Weigh
    <3> QED BY <2>6, <3>2, <3>3
  <2>9. Sum(Legged("undo")) + Sum(Legged("compensate")) + Sum({}) + Sum({})
          = Sum(Back) + Sum({}) + Sum({}) + Sum({})
    <3>1. \A t \in Transfers :
            /\ In(Legged("undo"))[t] + In(Legged("compensate"))[t] + In({})[t] + In({})[t]
                 <= In(Back)[t] + In({})[t] + In({})[t] + In({})[t]
            /\ In(Back)[t] + In({})[t] + In({})[t] + In({})[t]
                 <= In(Legged("undo"))[t] + In(Legged("compensate"))[t] + In({})[t] + In({})[t]
      BY <2>1, <2>2, <2>7
    <3>2. Sum(Legged("undo")) + Sum(Legged("compensate")) + Sum({}) + Sum({})
            <= Sum(Back) + Sum({}) + Sum({}) + Sum({})
      BY <2>1, <3>1, Weigh
    <3>3. Sum(Back) + Sum({}) + Sum({}) + Sum({})
            <= Sum(Legged("undo")) + Sum(Legged("compensate")) + Sum({}) + Sum({})
      BY <2>1, <3>1, Weigh
    <3> QED BY <2>6, <3>2, <3>3
  <2>10. InitialCirculation \in Int /\ Sum({}) = 0
    BY CirculationIsInt, SumOfNothing DEF Sum
  <2> QED BY <2>3, <2>4, <2>5, <2>6, <2>8, <2>9, <2>10 DEF LegA
<1>2. SeenThroughSoFar /\ SeenOut /\ RemintedFirst /\ TokensAccounted => ReconciledAtRest
  BY <1>1 DEF ReconciledAtRest
<1>3. (Spec => []SeenThroughSoFar) /\ (Spec => []SeenOut)
  BY FailingOnce, SeeingOut
<1> QED BY <1>2, <1>3, Reminting, SupplyAccounted, PTL

=============================================================================
