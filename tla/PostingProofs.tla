--------------------------- MODULE PostingProofs ---------------------------
(***************************************************************************)
(* Proofs about Posting, for any number of callers, accounts, requests,    *)
(* closures, retries and faults.                                           *)
(*                                                                         *)
(* IInv says what each label of a session has earned: rows locked in id    *)
(* order, statuses checked on locked rows, a snapshot that is right about  *)
(* every account nobody has posted to since (Fresh).  A commit is refused  *)
(* when it is not right about the accounts at hand, so it posts to the     *)
(* current balances, which is what Journal does in one step; and a key     *)
(* that is checked and waited for is new when the commit records it.       *)
(*                                                                         *)
(* ReversalsUnique, AnswersUnique and EngineImplementsJournal assume       *)
(* CallerReversalKeys = {}: reversals carry the key Reverse makes itself.  *)
(* The run reversal_keys shows what happens when a client sends another.   *)
(***************************************************************************)
EXTENDS Posting, Sums, TLAPS

\* The contra of a request is a request.
LEMMA ReversalShape ==
  ASSUME NEW r, IsRequest(r), NEW id \in Nat, NEW key
  PROVE  IsRequest(ReversalOf(r, id, key))
BY DEF IsRequest, ReversalOf, Named

\* Everything that can be posted has the shape of a request.
LEMMA PostingShape ==
  ASSUME NEW n \in Nat, NEW r \in Postings(n) \union {NoRequest}
  PROVE  IsRequest(r)
<1>1. CASE r = NoRequest
  BY <1>1 DEF NoRequest, IsRequest
<1>2. CASE r \in Requests
  BY <1>2, RequestsWellFormed
<1>3. CASE r \notin Requests /\ r # NoRequest
  <2>1. PICK s, id, key : s \in Requests /\ id \in 1..n /\ r = ReversalOf(s, id, key)
    BY <1>3 DEF Postings
  <2>2. QED BY <2>1, RequestsWellFormed, ReversalShape
<1>4. QED BY <1>1, <1>2, <1>3

\* What can be posted only grows with the journal.
LEMMA PostingsGrow ==
  ASSUME NEW n \in Nat
  PROVE  Postings(n) \subseteq Postings(n + 1)
BY DEF Postings

\* A posting turns balances into balances.
LEMMA AppliedTyped ==
  ASSUME NEW r, IsRequest(r), NEW bal \in [Accounts -> Int]
  PROVE  Applied(r, bal) \in [Accounts -> Int]
BY NormalSides DEF IsRequest, Applied, Named, Signed, Side

\* What is legitimate can be posted.
LEMMA LegitimateIsPosting ==
  ASSUME Typed, NEW r, Legitimate(journal, r)
  PROVE  r \in Postings(Len(journal))
<1>1. CASE r \in Requests
  BY <1>1 DEF Postings
<1>2. CASE r \notin Requests
  <2>1. PICK id \in 1..Len(journal) :
          /\ journal[id].type # "REVERSAL"
          /\ \E key \in ReversalKeys(id) : r = ReversalOf(journal[id], id, key)
    BY <1>2 DEF Legitimate
  <2>2. journal[id] \in Postings(Len(journal))
    BY DEF Typed
  <2>3. journal[id] \in Requests
    BY <2>1, <2>2 DEF Postings, ReversalOf
  <2>4. ReversalKeys(id) \subseteq
          {<<"reversal", m>> : m \in 1..Len(journal)} \union CallerReversalKeys
    BY DEF ReversalKeys
  <2>5. QED BY <2>1, <2>3, <2>4 DEF Postings
<1>3. QED BY <1>1, <1>2

\* What can be posted is a client's request or a reversal.
LEMMA PostsOrReverses ==
  ASSUME NEW txs, NEW r, Legitimate(txs, r)
  PROVE  \/ r \in Requests /\ r.type = "POST" /\ r.reverses = 0
         \/ r.type = "REVERSAL"
<1>1. CASE r \in Requests
  BY <1>1, RequestsWellFormed
<1>2. CASE r \notin Requests
  BY <1>2 DEF Legitimate, ReversalOf
<1>3. QED BY <1>1, <1>2

\* A reversal names the transaction it undoes, and takes one of its keys.
LEMMA ContraShape ==
  ASSUME NEW txs, NEW r, Legitimate(txs, r), r.type = "REVERSAL"
  PROVE  /\ r.reverses \in 1..Len(txs)
         /\ r.key \in ReversalKeys(r.reverses)
         /\ txs[r.reverses].type # "REVERSAL"
         /\ r = ReversalOf(txs[r.reverses], r.reverses, r.key)
<1>1. r \notin Requests
  BY RequestsWellFormed
<1>2. QED BY <1>1 DEF Legitimate, ReversalOf

\* The empty journal satisfies the invariant.
THEOREM IInvInit == Init => IInv
<1> SUFFICES ASSUME Init PROVE IInv
  OBVIOUS
<1> USE DEF Init, J!JInit
<1>1. Typed
  BY RetriesPositive DEF Typed, View, NoView, Labels, AccountStatus
<1>2. JournalSound /\ CommittersDiffer
  BY DEF JournalSound, CommittersDiffer
<1>3. ASSUME NEW p \in Callers PROVE SessionSound(p)
  BY DEF SessionSound, InTransaction, Named, NoRequest, Unlocked
<1>4. QED BY <1>1, <1>2, <1>3 DEF IInv

\* A step outside journal, statuses and sessions keeps it.
LEMMA Framed ==
  ASSUME IInv, Typed', UNCHANGED <<posted, status, session>>
  PROVE  IInv'
<1> USE DEF posted, session
<1>1. journal' = journal
  OBVIOUS
<1>2. JournalSound' /\ CommittersDiffer'
  BY <1>1 DEF IInv, JournalSound, CommittersDiffer
<1>3. ASSUME NEW p \in Callers PROVE SessionSound(p)'
  BY DEF IInv, SessionSound, Legitimate, ReversalKeys, InTransaction, Fresh, Recorded, Unlocked
<1>4. QED BY <1>2, <1>3 DEF IInv

\* So does a stuttering step.
LEMMA Stutters ==
  ASSUME IInv, UNCHANGED <<posted, status, closures, session, closing>>
  PROVE  IInv'
<1>1. Typed'
  BY DEF IInv, Typed, posted, session
<1>2. QED BY <1>1, Framed

\* A session survives what leaves it and the database alone.
LEMMA OthersKept ==
  ASSUME NEW q \in Callers, SessionSound(q), UNCHANGED <<journal, balance, status>>,
         pc'[q] = pc[q], op'[q] = op[q], view'[q] = view[q],
         stale'[q] = stale[q], held'[q] = held[q]
  PROVE  SessionSound(q)'
BY DEF SessionSound, Legitimate, InTransaction, Fresh, Recorded, Unlocked

\* Leaving a transaction, for whatever reason but a commit, keeps the invariant.
LEMMA LeavesKept ==
  ASSUME IInv, NEW p \in Callers,
         NEW label \in {"idle", "lookup", "begin", "flag"},
         NEW r, (label = "idle" /\ r = NoRequest) \/ Legitimate(journal, r),
         label = "flag" => r.type = "REVERSAL",
         NEW n \in 0..SerializationRetries - 1,
         Leaves(p, label, r, n),
         UNCHANGED <<journal, balance, status, closures, closing>>,
         reversedBy' \in Seq(0..Len(journal)), Len(reversedBy') = Len(journal)
  PROVE  IInv'
<1> USE DEF Leaves, Outside
<1>1. r \in Postings(Len(journal)) \union {NoRequest}
  BY LegitimateIsPosting DEF IInv
<1>2. Typed'
  <2>1. Typed /\ label \in Labels
    BY DEF IInv, Labels
  <2>2. view' \in [Callers -> View]
    BY <2>1 DEF Typed, View, NoView
  <2>3. QED BY <1>1, <2>1, <2>2 DEF Typed
<1>3. JournalSound'
  <2>1. journal' = journal
    OBVIOUS
  <2>2. QED BY <2>1 DEF IInv, JournalSound
<1>4. ASSUME NEW q \in Callers PROVE SessionSound(q)'
  <2>1. CASE q # p
    BY <2>1, OthersKept DEF IInv, Typed
  <2>2. CASE q = p
    <3>1. pc'[p] = label /\ op'[p] = r /\ held'[p] = {}
      BY DEF IInv, Typed
    <3>2. Legitimate(journal, r)' <=> Legitimate(journal, r)
      BY DEF Legitimate
    <3>3. QED BY <2>2, <3>1, <3>2 DEF SessionSound, InTransaction
  <2>3. QED BY <2>1, <2>2
<1>5. CommittersDiffer'
  BY DEF IInv, Typed, CommittersDiffer
<1>6. QED BY <1>2, <1>3, <1>4, <1>5 DEF IInv

\* Going on inside a transaction does, if the next label is earned.
LEMMA ProceedsKept ==
  ASSUME IInv, NEW p \in Callers, pc[p] # "idle",
         NEW label \in {"begin", "write", "commit"}, Proceeds(p, label),
         label # "begin" => 
           /\ InTransaction(p) 
           /\ held[p] = Named(op[p]) /\ Postable(op[p], status) /\ Balanced(op[p]),
         label = "commit" =>
           /\ Recorded(op[p].key) = {} /\ Funded(op[p], view[p].balance)
           /\ ~KeyPending(p),
         UNCHANGED <<posted, status, closures, closing>>
  PROVE  IInv'
<1> USE DEF Proceeds, posted
<1>1. Typed'
  <2>1. Typed /\ label \in Labels
    BY DEF IInv, Labels
  <2>2. QED BY <2>1 DEF Typed
<1>2. JournalSound'
  BY DEF IInv, JournalSound, Legitimate
<1>3. ASSUME NEW q \in Callers PROVE SessionSound(q)'
  <2>1. CASE q # p
    BY <2>1, OthersKept DEF IInv, Typed
  <2>2. CASE q = p
    <3>1. pc'[p] = label /\ SessionSound(p)
      BY DEF IInv, Typed
    <3>2. QED
      BY <2>2, <3>1 DEF SessionSound, InTransaction, Legitimate, Fresh, Recorded, Unlocked
  <2>3. QED BY <2>1, <2>2
<1>4. CommittersDiffer'
  BY DEF IInv, Typed, CommittersDiffer, KeyPending
<1>5. QED BY <1>1, <1>2, <1>3, <1>4 DEF IInv

\* A commit keeps every type.
LEMMA PublishTyped ==
  ASSUME IInv, NEW p \in Callers, NEW label \in {"idle", "flag"}, NEW r \in {NoRequest, op[p]},
         Publish(p, label, r)
  PROVE  Typed'
<1>0. Typed /\ label \in Labels
  BY DEF IInv, Labels
<1>1. op[p] \in Postings(Len(journal))
  BY LegitimateIsPosting DEF IInv, SessionSound, Publish
<1>2. Len(journal') = Len(journal) + 1 /\ Len(journal) \in Nat
  BY <1>0, <1>1 DEF Typed, Publish
<1>3. journal' \in Seq(Postings(Len(journal')))
  BY <1>0, <1>1, <1>2, PostingsGrow DEF Typed, Publish
<1>4. balance' \in [Accounts -> Int]
  <2>1. view[p].balance \in [Accounts -> Int]
    BY <1>0 DEF Typed, View
  <2>2. Applied(op[p], view[p].balance) \in [Accounts -> Int]
    BY <1>1, <1>2, <2>1, AppliedTyped, PostingShape
  <2>3. QED BY <1>0, <2>2 DEF Typed, Publish
<1>5. reversedBy' \in Seq(0..Len(journal')) /\ Len(reversedBy') = Len(journal')
  BY <1>0, <1>2 DEF Typed, Publish
<1>6. /\ pc' \in [Callers -> Labels]
      /\ op' \in [Callers -> Postings(Len(journal')) \union {NoRequest}]
  BY <1>0, <1>1, <1>2, PostingsGrow DEF Typed, Publish, Outside
<1>7. /\ attempt' \in [Callers -> 0..SerializationRetries - 1]
      /\ moved' \in [Callers -> SUBSET Accounts]
      /\ held' \in [Callers -> SUBSET Accounts]
      /\ view' \in [Callers -> View]
  BY <1>0, <1>1, <1>2, RetriesPositive DEF Typed, Publish, Outside, View, NoView
<1>8. stale' \in [Callers -> SUBSET Accounts]
  BY <1>0, <1>1, <1>2, PostingShape DEF Typed, Publish, IsRequest, Named
<1>9. QED
  BY <1>0, <1>1, <1>3, <1>4, <1>5, <1>6, <1>7, <1>8 DEF Typed, Publish

\* What was legitimate before a commit is so after it.
LEMMA LegitimateKept ==
  ASSUME Typed, NEW p \in Callers, NEW label, NEW s, Publish(p, label, s),
         op[p] \in Postings(Len(journal))
  PROVE  \A r : Legitimate(journal, r) => Legitimate(journal', r)
<1>1. \A id \in 1..Len(journal) : id \in 1..Len(journal') /\ journal'[id] = journal[id]
  BY DEF Typed, Publish
<1>2. QED BY <1>1 DEF Legitimate, ReversalKeys

\* A commit keeps the invariant: sessions whose accounts it wrote are stale
\* from then on, and nobody else was about to commit the same key.
LEMMA PublishKept ==
  ASSUME IInv, NEW p \in Callers, NEW label \in {"idle", "flag"}, NEW r \in {NoRequest, op[p]},
         Publish(p, label, r),
         label = "idle" => r = NoRequest,
         label = "flag" => r = op[p] /\ op[p].type = "REVERSAL"
  PROVE  IInv'
<1> DEFINE n == Len(journal)
<1>1. /\ Typed /\ pc[p] = "commit" /\ SessionSound(p)
      /\ op[p] \in Postings(n) /\ Legitimate(journal, op[p])
  BY LegitimateIsPosting DEF IInv, SessionSound, Publish
<1>2. Typed'
  BY PublishTyped
<1>3. /\ n \in Nat /\ Len(journal') = n + 1 /\ journal'[n + 1] = op[p]
      /\ \A i \in 1..n : journal'[i] = journal[i]
  BY <1>1 DEF Typed, Publish
<1>4. JournalSound'
  <2>1. ASSUME NEW i \in 1..n + 1 PROVE Legitimate(journal', journal'[i])
    <3>1. Legitimate(journal, journal'[i])
      BY <1>1, <1>3 DEF IInv, JournalSound
    <3>2. QED BY <1>1, <3>1, LegitimateKept
  <2>2. ASSUME NEW i \in 1..n + 1, NEW j \in 1..n + 1, journal'[i].key = journal'[j].key
        PROVE  i = j
    <3>1. \A k \in 1..n : journal[k].key # op[p].key
      BY <1>1 DEF SessionSound, Recorded
    <3>2. QED BY <1>3, <2>2, <3>1 DEF IInv, JournalSound
  <2>3. 1..Len(journal') = 1..n + 1
    BY <1>3
  <2>4. QED BY <2>1, <2>2, <2>3 DEF JournalSound, Legitimate, ReversalKeys
<1>5. ASSUME NEW q \in Callers PROVE SessionSound(q)'
  <2>1. CASE q = p
    <3>1. pc'[p] = label /\ op'[p] = r /\ held'[p] = {}
      BY <1>1 DEF Typed, Publish, Outside
    <3>2. label = "flag" => Legitimate(journal', op[p])
      BY <1>1, LegitimateKept
    <3>3. QED BY <2>1, <3>1, <3>2 DEF SessionSound, InTransaction
  <2>2. CASE q # p
    <3>1. /\ pc'[q] = pc[q] /\ op'[q] = op[q] /\ view'[q] = view[q] /\ held'[q] = held[q]
          /\ InTransaction(q) => stale'[q] = stale[q] \union Named(op[p])
          /\ status' = status
      BY <1>1, <2>2 DEF Typed, Publish, Outside
    <3>2. SessionSound(q)
      BY DEF IInv
    <3>3. pc[q] # "idle" => Legitimate(journal', op[q])
      BY <1>1, <3>2, LegitimateKept DEF SessionSound
    <3>4. ASSUME InTransaction(q) PROVE Fresh(q)'
      <4>1. ASSUME NEW a \in Named(op[q]), a \notin stale[q], a \notin Named(op[p])
            PROVE  view[q].balance[a] = balance'[a]
        <5>1. op[q] \in Postings(n)
          BY <1>1, <3>2, <3>4, LegitimateIsPosting DEF SessionSound, InTransaction
        <5>2. a \in Accounts
          BY <1>3, <5>1, <4>1, PostingShape DEF IsRequest, Named
        <5>3. balance'[a] = balance[a]
          BY <4>1, <5>2 DEF Publish
        <5>4. QED BY <3>2, <3>4, <4>1, <5>3 DEF SessionSound, Fresh
      <4>2. QED BY <3>1, <3>4, <4>1 DEF Fresh
    <3>5. pc[q] = "commit" => (Recorded(op[q].key) = {})'
      <4>1. pc[q] = "commit" => op[q].key # op[p].key
        BY <1>1, <2>2 DEF IInv, CommittersDiffer
      <4>2. QED BY <1>3, <3>1, <3>2, <4>1 DEF SessionSound, Recorded
    <3>6. QED
      BY <3>1, <3>2, <3>3, <3>4, <3>5 DEF SessionSound, InTransaction, Unlocked
  <2>3. QED BY <2>1, <2>2
<1>6. CommittersDiffer'
  BY <1>1 DEF IInv, Typed, CommittersDiffer, Publish, Outside
<1>7. QED BY <1>2, <1>4, <1>5, <1>6 DEF IInv

\* A change of status waits for the row, so no checked session is contradicted.
LEMMA StatusKept ==
  ASSUME IInv, NEW a \in Accounts, NEW s \in AccountStatus, Restatus(a, s),
         closing' \subseteq Wallets
  PROVE  IInv'
<1>0. Typed /\ \A q \in Callers : a \notin held[q]
  BY DEF IInv, Restatus, RowFree
<1>1. Typed'
  BY <1>0 DEF Typed, Restatus, posted
<1>2. journal' = journal
  BY DEF Restatus, posted
<1>3. JournalSound' /\ CommittersDiffer'
  BY <1>2 DEF IInv, JournalSound, CommittersDiffer, Restatus
<1>4. ASSUME NEW q \in Callers PROVE SessionSound(q)'
  <2>1. SessionSound(q)
    BY DEF IInv
  <2>2. held[q] = Named(op[q]) /\ Postable(op[q], status) => Postable(op[q], status')
    BY <1>0 DEF Postable, Restatus, Typed
  <2>3. QED
    BY <2>1, <2>2 DEF SessionSound, Restatus, posted, InTransaction, Fresh, Recorded,
         Legitimate, ReversalKeys, Unlocked
<1>5. QED BY <1>1, <1>3, <1>4 DEF IInv

\* The snapshot is fresh when it is taken.
LEMMA BeginKept ==
  ASSUME IInv, NEW p \in Callers, Begin(p)
  PROVE  IInv'
<1>0. Typed
  BY DEF IInv
<1>1. Typed'
  BY <1>0 DEF Typed, Begin, posted, View, Labels
<1>2. JournalSound' /\ CommittersDiffer'
  <2>1. journal' = journal
    BY DEF Begin, posted
  <2>2. QED BY <1>0, <2>1 DEF Typed, IInv, JournalSound, CommittersDiffer, Begin
<1>3. ASSUME NEW q \in Callers PROVE SessionSound(q)'
  <2>1. CASE q # p
    BY <1>0, <2>1, OthersKept DEF IInv, Begin, posted, Typed
  <2>2. CASE q = p
    <3>1. view'[p].balance = balance /\ pc'[p] = "lock"
      BY <1>0 DEF Begin, Typed
    <3>2. SessionSound(p)
      BY DEF IInv
    <3>3. QED
      BY <2>2, <3>1, <3>2 DEF SessionSound, Begin, posted, InTransaction, Fresh,
                             Legitimate, ReversalKeys, Unlocked
  <2>3. QED BY <2>1, <2>2
<1>4. QED BY <1>1, <1>2, <1>3 DEF IInv

\* Rows are taken in id order, each by one caller.
LEMMA LockRowKept ==
  ASSUME IInv, NEW p \in Callers, LockRow(p)
  PROVE  IInv'
<1>0. Typed /\ SessionSound(p)
  BY DEF IInv
<1>1. op[p] \in Postings(Len(journal)) /\ Named(op[p]) \subseteq Int
  <2>1. op[p] \in Postings(Len(journal))
    BY <1>0, LegitimateIsPosting DEF SessionSound, LockRow
  <2>2. Len(journal) \in Nat
    BY <1>0 DEF Typed
  <2>3. QED
    BY <2>1, <2>2, PostingShape, AccountsAreOrdered DEF IsRequest, Named
<1>2. PICK a \in Named(op[p]) : IsNextRow(p, a) /\ held' = [held EXCEPT ![p] = @ \union {a}]
  BY DEF LockRow
<1>3. a \in Accounts
  <2>1. Len(journal) \in Nat
    BY <1>0 DEF Typed
  <2>2. QED BY <1>1, <2>1, PostingShape DEF IsRequest, Named
<1>4. Typed'
  BY <1>0, <1>2, <1>3 DEF Typed, LockRow, posted
<1>5. journal' = journal
  BY DEF LockRow, posted
<1>6. JournalSound' /\ CommittersDiffer'
  BY <1>5 DEF IInv, JournalSound, CommittersDiffer, LockRow
<1>7. ASSUME NEW q \in Callers PROVE SessionSound(q)'
  <2>1. CASE q # p
    BY <1>0, <1>2, <2>1, OthersKept DEF IInv, LockRow, posted, Typed
  <2>2. CASE q = p
    <3>1. held'[p] = held[p] \union {a}
      BY <1>0, <1>2 DEF Typed
    <3>2. \A x \in held'[p], y \in Unlocked(p)' : x < y
      BY <1>0, <1>1, <1>2, <3>1 DEF SessionSound, Unlocked, IsNextRow, LockRow
    <3>3. QED
      BY <1>0, <1>5, <2>2, <3>1, <3>2
      DEF SessionSound, LockRow, posted, InTransaction, Fresh
  <2>3. QED BY <2>1, <2>2
<1>8. QED BY <1>4, <1>6, <1>7 DEF IInv

\* A call starts with a legitimate request.
LEMMA StartKept ==
  ASSUME IInv, NEW p \in Callers, NEW r, Legitimate(journal, r), Start(p, r)
  PROVE  IInv'
BY LeavesKept, RetriesPositive DEF IInv, Typed, Start, posted

\* An error ends the call.
LEMMA FailsKept ==
  ASSUME IInv, NEW p \in Callers, Fails(p),
         UNCHANGED <<posted, status, closures, closing>>
  PROVE  IInv'
<1>1. 0 \in 0..SerializationRetries - 1
  BY RetriesPositive
<1>2. reversedBy' \in Seq(0..Len(journal)) /\ Len(reversedBy') = Len(journal)
  BY DEF IInv, Typed, posted
<1>3. QED BY <1>1, <1>2, LeavesKept DEF Fails, posted

\* An answer ends it, or goes on to flag the original.
LEMMA ReturnsKept ==
  ASSUME IInv, NEW p \in Callers, pc[p] # "idle", NEW id, Returns(p, id),
         UNCHANGED <<posted, status, closures, closing>>
  PROVE  IInv'
<1>1. Typed /\ Legitimate(journal, op[p])
  BY DEF IInv, SessionSound
<1>2. CASE op[p].type = "REVERSAL"
  <2>1. Leaves(p, "flag", op[p], 0)
    BY <1>2 DEF Returns, After
  <2>2. QED BY <1>1, <1>2, <2>1, LeavesKept, RetriesPositive DEF Typed, posted
<1>3. CASE op[p].type # "REVERSAL"
  <2>1. Leaves(p, "idle", NoRequest, 0)
    BY <1>3 DEF Returns, After
  <2>2. QED BY <2>1, FailsKept DEF Fails
<1>4. QED BY <1>2, <1>3

\* Reverse asks for the contra of a transaction that is no reversal itself.
LEMMA CallReverseKept ==
  ASSUME IInv, NEW p \in Callers, CallReverse(p)
  PROVE  IInv'
<1>1. PICK id \in 1..Len(journal) : StartReversal(p, id) \/ AlreadyReversed(p, id)
  BY DEF CallReverse
<1>2. CASE StartReversal(p, id)
  <2>1. PICK key \in ReversalKeys(id) : Start(p, ReversalOf(journal[id], id, key))
    BY <1>2 DEF StartReversal
  <2>2. Legitimate(journal, ReversalOf(journal[id], id, key))
    BY <1>2 DEF Legitimate, StartReversal
  <2>3. QED BY <2>1, <2>2, StartKept
<1>3. CASE AlreadyReversed(p, id)
  BY <1>3, Stutters DEF AlreadyReversed
<1>4. QED BY <1>1, <1>2, <1>3

\* ValidatePostings earns the label "write".
LEMMA CheckKept ==
  ASSUME IInv, NEW p \in Callers, Check(p)
  PROVE  IInv'
<1>1. CASE Accepted(p) /\ Proceeds(p, "write")
  <2>1. SessionSound(p)
    BY DEF IInv
  <2>2. held[p] = Named(op[p])
    BY <2>1 DEF SessionSound, Check, Unlocked
  <2>3. QED
    BY <1>1, <2>2, ProceedsKept DEF Check, Accepted, InTransaction
<1>2. CASE Fails(p)
  BY <1>2, FailsKept DEF Check
<1>3. QED BY <1>1, <1>2 DEF Check

\* The unique key and the funds check earn the label "commit".
LEMMA WriteKept ==
  ASSUME IInv, NEW p \in Callers, Write(p)
  PROVE  IInv'
<1>1. CASE Recorded(op[p].key) = {} /\ Funded(op[p], view[p].balance) /\ Proceeds(p, "commit")
  <2>1. SessionSound(p)
    BY DEF IInv
  <2>2. QED
    BY <1>1, <2>1, ProceedsKept DEF Write, SessionSound, InTransaction
<1>2. CASE Fails(p)
  BY <1>2, FailsKept DEF Write
<1>3. CASE \E id \in Recorded(op[p].key) : Returns(p, id)
  BY <1>3, ReturnsKept DEF Write
<1>4. QED BY <1>1, <1>2, <1>3 DEF Write

\* The fast path answers from the journal.
LEMMA LookupKept ==
  ASSUME IInv, NEW p \in Callers, Lookup(p)
  PROVE  IInv'
<1>1. CASE Proceeds(p, "begin")
  BY <1>1, ProceedsKept DEF Lookup
<1>2. CASE \E id \in Recorded(op[p].key) : Returns(p, id)
  BY <1>2, ReturnsKept DEF Lookup
<1>3. QED BY <1>1, <1>2 DEF Lookup

\* An aborted attempt starts anew or gives up.
LEMMA AbortKept ==
  ASSUME IInv, NEW p \in Callers, Abort(p)
  PROVE  IInv'
<1>1. CASE attempt[p] + 1 < SerializationRetries /\ Leaves(p, "begin", op[p], attempt[p] + 1)
  <2>1. Typed /\ Legitimate(journal, op[p])
    BY DEF IInv, SessionSound, Abort, InTransaction
  <2>2. attempt[p] + 1 \in 0..SerializationRetries - 1
    BY <1>1, <2>1, RetriesPositive DEF Typed
  <2>3. QED
    BY <1>1, <2>1, <2>2, LeavesKept DEF Typed, Abort, posted
<1>2. CASE Fails(p)
  BY <1>2, FailsKept DEF Abort
<1>3. QED BY <1>1, <1>2 DEF Abort

\* Flagging the original changes reversedBy only.
LEMMA FlagKept ==
  ASSUME IInv, NEW p \in Callers, Flag(p)
  PROVE  IInv'
<1>1. PICK rev \in Recorded(op[p].key) :
        reversedBy' = [reversedBy EXCEPT ![op[p].reverses] =
                         IF @ = 0 THEN rev ELSE @]
  BY DEF Flag
<1>2. rev \in 0..Len(journal) /\ Typed
  BY DEF Recorded, IInv, Typed
<1>3. reversedBy' \in Seq(0..Len(journal)) /\ Len(reversedBy') = Len(journal)
  <2>1. op[p].reverses \in 1..Len(reversedBy)
    BY <1>2, ContraShape DEF IInv, SessionSound, Flag, Typed
  <2>2. QED
    BY <1>1, <1>2, <2>1 DEF Typed
<1>4. Leaves(p, "idle", NoRequest, 0) /\ UNCHANGED <<journal, balance, status, closures, closing>>
  BY DEF Flag, Fails
<1>5. 0 \in 0..SerializationRetries - 1
  BY RetriesPositive
<1>6. QED
  BY <1>3, <1>4, <1>5, LeavesKept

\* A commit, acknowledged or not.
LEMMA CommitKept ==
  ASSUME IInv, NEW p \in Callers, Commit(p) \/ CommitUnacknowledged(p)
  PROVE  IInv'
<1>1. CASE op[p].type = "REVERSAL" /\ Commit(p)
  BY <1>1, PublishKept DEF Commit, After
<1>2. CASE op[p].type # "REVERSAL" /\ Commit(p)
  BY <1>2, PublishKept DEF Commit, After
<1>3. CASE CommitUnacknowledged(p)
  BY <1>3, PublishKept DEF CommitUnacknowledged
<1>4. QED BY <1>1, <1>2, <1>3

\* Freezing, thawing and closing a wallet.
LEMMA OperatorKept ==
  ASSUME IInv, NEW a \in Wallets, FreezeOrThaw(a) \/ ReadBeforeClose(a) \/ CloseWallet(a)
  PROVE  IInv'
<1>0. a \in Accounts /\ Typed
  BY WalletsAreAccounts DEF IInv
<1>1. CASE FreezeOrThaw(a)
  BY <1>0, <1>1, StatusKept DEF FreezeOrThaw, AccountStatus, Typed
<1>2. CASE ReadBeforeClose(a)
  <2>1. Typed'
    BY <1>0, <1>2 DEF Typed, ReadBeforeClose, posted, session
  <2>2. QED
    BY <1>2, <2>1, Framed DEF ReadBeforeClose
<1>3. CASE CloseWallet(a)
  BY <1>0, <1>3, StatusKept DEF CloseWallet, AccountStatus, Typed
<1>4. QED BY <1>1, <1>2, <1>3

\* The invariant is inductive: every step of every process keeps it.
THEOREM IInvStep == IInv /\ [Next]_vars => IInv'
<1> SUFFICES ASSUME IInv, [Next]_vars PROVE IInv'
  OBVIOUS
<1>1. CASE UNCHANGED vars
  BY <1>1, Stutters DEF vars
<1>2. ASSUME NEW p \in Callers, Step(p) PROVE IInv'
  BY <1>2, LookupKept, BeginKept, LockRowKept, CheckKept, WriteKept, CommitKept,
     AbortKept, FlagKept DEF Step
<1>3. ASSUME NEW p \in Callers, Call(p) PROVE IInv'
  BY <1>3, StartKept DEF Call, Legitimate
<1>4. ASSUME NEW p \in Callers, CallReverse(p) PROVE IInv'
  BY <1>4, CallReverseKept
<1>5. ASSUME NEW p \in Callers, ConnectionLost(p) PROVE IInv'
  BY <1>5, FailsKept DEF ConnectionLost
<1>6. ASSUME NEW p \in Callers, CommitUnacknowledged(p) PROVE IInv'
  BY <1>6, CommitKept
<1>7. ASSUME NEW c \in Closable, ClosePeriod(c) PROVE IInv'
  <2>1. Typed'
    BY <1>7 DEF IInv, Typed, ClosePeriod, posted, session
  <2>2. QED BY <1>7, <2>1, Framed DEF ClosePeriod
<1>8. QED
  BY <1>1, <1>2, <1>3, <1>4, <1>5, <1>6, <1>7, OperatorKept DEF Next, Quiet

\* The invariant holds in every state, for any number of callers, accounts,
\* requests and retries.
THEOREM Invariance == Spec => []IInv
BY IInvInit, IInvStep, PTL DEF Spec

\* Nothing but a commit changes the journal or a balance.
LEMMA OnlyCommitsPost ==
  ASSUME [Next]_vars
  PROVE  \/ UNCHANGED <<journal, balance>>
         \/ \E p \in Callers : Commit(p) \/ CommitUnacknowledged(p)
<1>1. CASE UNCHANGED vars
  BY <1>1 DEF vars, posted
<1>2. ASSUME NEW p \in Callers, Step(p) PROVE Commit(p) \/ UNCHANGED <<journal, balance>>
  BY <1>2 DEF Step, Lookup, Begin, LockRow, Check, Write, Abort, Flag, posted
<1>3. ASSUME NEW p \in Callers, Call(p) \/ CallReverse(p) \/ ConnectionLost(p)
      PROVE  UNCHANGED <<journal, balance>>
  BY <1>3 DEF Call, CallReverse, StartReversal, AlreadyReversed, Start, ConnectionLost, posted
<1>4. ASSUME NEW a \in Wallets, FreezeOrThaw(a) \/ ReadBeforeClose(a) \/ CloseWallet(a)
      PROVE  UNCHANGED <<journal, balance>>
  BY <1>4 DEF FreezeOrThaw, ReadBeforeClose, CloseWallet, Restatus, posted
<1>5. ASSUME NEW c \in Closable, ClosePeriod(c) PROVE UNCHANGED <<journal, balance>>
  BY <1>5 DEF ClosePeriod, posted
<1>6. QED BY <1>1, <1>2, <1>3, <1>4, <1>5 DEF Next, Quiet

\* In every reachable state the database and the sessions hold what their
\* columns and variables are meant to hold (TypeOK).
THEOREM TypeCorrect == Spec => []TypeOK
<1>1. IInv => TypeOK
  <2> SUFFICES ASSUME IInv PROVE TypeOK
    OBVIOUS
  <2>1. Typed /\ Len(journal) \in Nat
    BY DEF IInv, Typed
  <2>2. ASSUME NEW i \in 1..Len(journal) PROVE IsRequest(journal[i])
    BY <2>1, PostingShape DEF Typed
  <2>3. ASSUME NEW p \in Callers
        PROVE  /\ pc[p] \in Labels
               /\ IsRequest(op[p])
               /\ attempt[p] \in 0..SerializationRetries - 1
               /\ view[p].balance \in [Accounts -> Int]
               /\ held[p] \subseteq Named(op[p])
    BY <2>1, PostingShape DEF Typed, View, IInv, SessionSound
  <2>4. QED BY <2>1, <2>2, <2>3 DEF TypeOK, Typed
<1>2. QED BY <1>1, Invariance, PTL

\* One posting keeps the balances of protected accounts non-negative unless a
\* reversal has named them: the funds check made on the snapshot is good at
\* the commit, because a snapshot that has gone stale is never committed.
LEMMA PublishKeepsFunds ==
  ASSUME IInv, OnlyReversalsOverdraw, NEW p \in Callers, NEW label, NEW r,
         Publish(p, label, r)
  PROVE  OnlyReversalsOverdraw'
<1> DEFINE n == Len(journal)
<1>1. /\ Typed /\ SessionSound(p) /\ pc[p] = "commit"
      /\ Legitimate(journal, op[p]) /\ op[p] \in Postings(n)
  BY LegitimateIsPosting DEF IInv, SessionSound, Publish
<1>2. /\ n \in Nat /\ Len(journal') = n + 1 /\ journal'[n + 1] = op[p]
      /\ \A i \in 1..n : journal'[i] = journal[i]
  BY <1>1 DEF Typed, Publish
<1>3. SUFFICES ASSUME NEW a \in Protected, balance'[a] < 0
               PROVE  \E i \in 1..n + 1 :
                        journal'[i].type = "REVERSAL" /\ a \in Named(journal'[i])
  BY <1>2 DEF OnlyReversalsOverdraw, Protected
<1>4. a \in Accounts /\ balance[a] \in Int
  BY <1>1, WalletsAreAccounts DEF Typed, Protected
<1>5. CASE a \notin Named(op[p])
  <2>1. balance'[a] = balance[a]
    BY <1>4, <1>5 DEF Publish
  <2>2. QED
    BY <1>2, <1>3, <2>1 DEF OnlyReversalsOverdraw
<1>6. CASE a \in Named(op[p]) /\ op[p].type = "REVERSAL"
  BY <1>2, <1>6
<1>7. CASE a \in Named(op[p]) /\ op[p].type # "REVERSAL"
  <2>1. op[p] \in Requests
    BY <1>1, <1>7, PostsOrReverses
  <2>2. /\ balance'[a] = Applied(op[p], view[p].balance)[a]
        /\ balance'[a] = view[p].balance[a] + Signed(a, op[p].lines[a])
    BY <1>4, <1>7 DEF Publish, Applied
  <2>3. view[p].balance[a] = balance[a]
    BY <1>1, <1>7 DEF SessionSound, InTransaction, Fresh, Publish, Conflict
  <2>4. Signed(a, op[p].lines[a]) \in Int
    BY <1>7, <2>1, RequestsWellFormed DEF IsRequest, Signed, Named
  <2>5. a \notin op[p].guarded
    <3>1. balance'[a] \in Int
      BY <1>4, <2>2, <2>3, <2>4
    <3>2. a \in op[p].guarded => balance'[a] >= 0
      BY <1>1, <2>2 DEF SessionSound, Funded
    <3>3. QED BY <1>3, <3>1, <3>2
  <2>6. ~(Signed(a, op[p].lines[a]) < 0)
    BY <1>7, <2>1, <2>5 DEF Protected
  <2>7. balance[a] < 0
    BY <1>3, <1>4, <2>2, <2>3, <2>4, <2>6
  <2>8. QED
    BY <1>2, <1>3, <2>7 DEF OnlyReversalsOverdraw
<1>8. QED BY <1>5, <1>6, <1>7

\* However many requests race, a wallet every flow guards is overdrawn only
\* by a reversal (OnlyReversalsOverdraw).
THEOREM FundsProtected == Spec => []OnlyReversalsOverdraw
<1>1. Init => OnlyReversalsOverdraw
  BY WalletsAreAccounts DEF Init, J!JInit, OnlyReversalsOverdraw, Protected
<1>2. IInv /\ OnlyReversalsOverdraw /\ [Next]_vars => OnlyReversalsOverdraw'
  <2> SUFFICES ASSUME IInv, OnlyReversalsOverdraw, [Next]_vars
               PROVE  OnlyReversalsOverdraw'
    OBVIOUS
  <2>1. CASE UNCHANGED <<journal, balance>>
    BY <2>1 DEF OnlyReversalsOverdraw
  <2>2. CASE \E p \in Callers : Commit(p) \/ CommitUnacknowledged(p)
    BY <2>2, PublishKeepsFunds DEF Commit, CommitUnacknowledged
  <2>3. QED BY <2>1, <2>2, OnlyCommitsPost
<1>3. QED BY <1>1, <1>2, Invariance, PTL DEF Spec

\* The balances a commit writes are those of its snapshot, which are the
\* present ones, with the new lines on top.
LEMMA PublishOnTop ==
  ASSUME IInv, NEW p \in Callers, NEW label, NEW r, Publish(p, label, r), NEW a \in Accounts
  PROVE  /\ a \in Named(op[p]) =>
              /\ Signed(a, op[p].lines[a]) \in Int
              /\ balance'[a] = balance[a] + Signed(a, op[p].lines[a])
         /\ a \notin Named(op[p]) => balance'[a] = balance[a]
<1>1. /\ Typed /\ SessionSound(p) /\ pc[p] = "commit" /\ ~Conflict(p)
      /\ Legitimate(journal, op[p]) /\ op[p] \in Postings(Len(journal))
  BY LegitimateIsPosting DEF IInv, SessionSound, Publish
<1>2. IsRequest(op[p])
  BY <1>1, PostingShape DEF Typed
<1>3. ASSUME a \in Named(op[p])
      PROVE  balance'[a] = view[p].balance[a] + Signed(a, op[p].lines[a]) /\ view[p].balance[a] = balance[a]
  BY <1>1, <1>3 DEF SessionSound, InTransaction, Fresh, Publish, Conflict, Applied
<1>4. a \in Named(op[p]) => Signed(a, op[p].lines[a]) \in Int
  BY <1>2 DEF IsRequest, Signed, Named
<1>5. a \notin Named(op[p]) => balance'[a] = balance[a]
  BY DEF Publish
<1> QED BY <1>3, <1>4, <1>5

\* Lines are amounts, finitely many.
LEMMA LinesTyped ==
  ASSUME IInv, NEW a \in Accounts
  PROVE  /\ IsFiniteSet(DOMAIN Lines(a)) /\ DOMAIN Lines(a) \subseteq 1..Len(journal)
         /\ \A i \in DOMAIN Lines(a) : Lines(a)[i] \in Int
<1>1. Len(journal) \in Nat /\ \A i \in 1..Len(journal) : journal[i] \in Postings(Len(journal))
  BY DEF IInv, Typed
<1>2. \A i \in 1..Len(journal) : IsRequest(journal[i])
  BY <1>1, PostingShape
<1>3. \A i \in DOMAIN Lines(a) : Lines(a)[i] \in Int
  BY <1>2 DEF Lines, IsRequest, Signed, Named
<1>4. DOMAIN Lines(a) \subseteq 1..Len(journal)
  BY DEF Lines
<1>5. IsFiniteSet(DOMAIN Lines(a))
  <2>1. IsFiniteSet(1..Len(journal))
    BY <1>1, FS_Interval
  <2> QED BY <2>1, <1>4, FS_Subset
<1> QED BY <1>3, <1>4, <1>5

\* One posting keeps the running balances and the lines in agreement.
LEMMA PublishKeepsAgreement ==
  ASSUME IInv, IInv', RunningBalancesAgree, NEW p \in Callers, NEW label, NEW r, Publish(p, label, r)
  PROVE  RunningBalancesAgree'
<1> DEFINE n == Len(journal)
<1> SUFFICES ASSUME NEW a \in Accounts PROVE balance'[a] = SumFunction(Lines(a)')
  BY DEF RunningBalancesAgree
<1> DEFINE L == Lines(a)
           M == Lines(a)'
<1>1. n \in Nat /\ journal' = Append(journal, op[p]) /\ journal \in Seq(Postings(n)) /\ a \in Accounts
  BY DEF IInv, Typed, Publish
<1>2. /\ Len(journal') = n + 1 /\ journal'[n + 1] = op[p]
      /\ \A i \in 1..n : journal'[i] = journal[i]
  BY <1>1
<1>3. \A i \in DOMAIN L : i \in DOMAIN M /\ M[i] = L[i]
  BY <1>1, <1>2 DEF Lines
<1>4. SumFunctionOnSet(M, DOMAIN L) = balance[a]
  <2>1. SumFunctionOnSet(L, DOMAIN L) = balance[a]
    BY DEF RunningBalancesAgree, SumFunction
  <2>2. SumFunctionOnSet(L, DOMAIN L) = SumFunctionOnSet(M, DOMAIN L)
    BY <1>3, LinesTyped, SumAgrees
  <2> QED BY <2>1, <2>2
<1>5. CASE a \in Named(op[p])
  <2>1. DOMAIN M = DOMAIN L \union {n + 1} /\ M[n + 1] = Signed(a, op[p].lines[a])
    BY <1>1, <1>2, <1>5 DEF Lines
  <2>2. n + 1 \notin DOMAIN L /\ IsFiniteSet(DOMAIN L)
    BY <1>1, LinesTyped
  <2>3. \A i \in DOMAIN L \union {n + 1} : M[i] \in Int
    BY <2>1, <1>3, <1>5, LinesTyped, PublishOnTop
  <2>4. SumFunctionOnSet(M, DOMAIN L \union {n + 1}) = SumFunctionOnSet(M, DOMAIN L) + M[n + 1]
    BY <2>2, <2>3, SumAdds
  <2> QED BY <2>1, <2>4, <1>4, <1>5, PublishOnTop DEF SumFunction
<1>6. CASE a \notin Named(op[p])
  <2>1. DOMAIN M = DOMAIN L
    BY <1>1, <1>2, <1>6 DEF Lines
  <2> QED BY <2>1, <1>4, <1>6, PublishOnTop DEF SumFunction
<1> QED BY <1>5, <1>6

\* The O(1) balance of every account is the O(n) one, however postings race
\* (RunningBalancesAgree): no commit loses another's update.
THEOREM RunningBalancesSound == Spec => []RunningBalancesAgree
<1>1. Init => RunningBalancesAgree
  <2> SUFFICES ASSUME Init, NEW a \in Accounts PROVE balance[a] = SumFunction(Lines(a))
    BY DEF RunningBalancesAgree
  <2>1. balance[a] = 0 /\ DOMAIN Lines(a) = {}
    BY DEF Init, J!JInit, Lines
  <2> QED BY <2>1, SumOfNothing DEF SumFunction
<1>2. IInv /\ IInv' /\ RunningBalancesAgree /\ [Next]_vars => RunningBalancesAgree'
  <2> SUFFICES ASSUME IInv, IInv', RunningBalancesAgree, [Next]_vars
               PROVE  RunningBalancesAgree'
    OBVIOUS
  <2>1. CASE UNCHANGED <<journal, balance>>
    BY <2>1 DEF RunningBalancesAgree, Lines
  <2>2. CASE \E p \in Callers : Commit(p) \/ CommitUnacknowledged(p)
    BY <2>2, PublishKeepsAgreement DEF Commit, CommitUnacknowledged
  <2> QED BY <2>1, <2>2, OnlyCommitsPost
<1> QED BY <1>1, <1>2, Invariance, PTL DEF Spec

\* What one posting adds to the balances of a currency comes to nothing.
LEMMA LinesCancel ==
  ASSUME NEW q, IsRequest(q), Balanced(q), NEW c,
         NEW S \in SUBSET Accounts, \A a \in Accounts : a \in S <=> Currency[a] = c,
         NEW d, \A a \in Accounts : d[a] = IF a \in Named(q) THEN q.lines[a] ELSE 0
  PROVE  (\A a \in S : d[a] \in Int) /\ SumFunctionOnSet(d, S) = 0
<1> DEFINE T == {a \in Named(q) : Currency[a] = c}
<1>1. T \in SUBSET S /\ IsFiniteSet(S) /\ IsFiniteSet(T)
  <2>1. T \in SUBSET S /\ S \in SUBSET Accounts
    BY DEF IsRequest, Named
  <2> HIDE DEF T
  <2> QED BY <2>1, AccountsFinite, FS_Subset
<1>2. /\ \A a \in S : d[a] \in Int
      /\ \A a \in S \ T : d[a] = 0
      /\ \A a \in T : d[a] = q.lines[a]
  BY DEF IsRequest, Named
<1>3. SumFunctionOnSet(d, S) = SumFunctionOnSet(d, T)
  <2> HIDE DEF T
  <2> QED BY <1>1, <1>2, SumOfPart
<1>4. SumFunctionOnSet(d, T) = SumFunctionOnSet(q.lines, T)
  <2> HIDE DEF T
  <2> QED BY <1>1, <1>2, SumAgrees
<1>5. SumFunctionOnSet(q.lines, T) = 0
  <2>1. CASE c \in Currencies(q)
    BY <2>1 DEF Balanced
  <2>2. CASE c \notin Currencies(q)
    <3>1. T = {}
      BY <2>2 DEF Currencies
    <3> QED BY <3>1, SumOfNothing
  <2> QED BY <2>1, <2>2
<1> QED BY <1>2, <1>3, <1>4, <1>5

\* A commit puts balanced lines on top of the present balances.
LEMMA PublishKeepsTrialBalance ==
  ASSUME IInv, TrialBalanced, NEW p \in Callers, NEW label, NEW r, Publish(p, label, r)
  PROVE  TrialBalanced'
<1> SUFFICES ASSUME NEW c \in {Currency[a] : a \in Accounts}
             PROVE  SumFunctionOnSet(NetDebit', {a \in Accounts : Currency[a] = c}) = 0
  BY DEF TrialBalanced
<1> DEFINE S == {a \in Accounts : Currency[a] = c}
           d == [a \in Accounts |-> IF a \in Named(op[p]) THEN op[p].lines[a] ELSE 0]
<1>1. IsRequest(op[p]) /\ Balanced(op[p]) /\ balance \in [Accounts -> Int]
  <2>1. Typed /\ SessionSound(p) /\ pc[p] = "commit" /\ op[p] \in Postings(Len(journal))
    BY LegitimateIsPosting DEF IInv, SessionSound, Publish
  <2> QED BY <2>1, PostingShape DEF SessionSound, Typed
<1>2. (\A a \in S : d[a] \in Int) /\ SumFunctionOnSet(d, S) = 0
  <2>1. /\ S \in SUBSET Accounts /\ \A a \in Accounts : a \in S <=> Currency[a] = c
        /\ \A a \in Accounts : d[a] = IF a \in Named(op[p]) THEN op[p].lines[a] ELSE 0
    OBVIOUS
  <2> HIDE DEF S, d
  <2> QED BY <1>1, <2>1, LinesCancel
<1>3. IsFiniteSet(S) /\ S \subseteq Accounts
  BY AccountsFinite, FS_Subset
<1>4. ASSUME NEW a \in Accounts
      PROVE  /\ NetDebit[a] \in Int /\ d[a] \in Int /\ NetDebit'[a] = NetDebit[a] + d[a]
  <2>1. NetDebit[a] = Signed(a, balance[a]) /\ NetDebit'[a] = Signed(a, balance'[a]) /\ balance[a] \in Int
    BY <1>1 DEF NetDebit
  <2>2. CASE a \in Named(op[p])
    <3>1. balance'[a] = balance[a] + Signed(a, op[p].lines[a]) /\ op[p].lines[a] \in Int /\ d[a] = op[p].lines[a]
      BY <1>1, <2>2, PublishOnTop DEF IsRequest, Named
    <3> HIDE DEF d
    <3>2. CASE Normal[a] = "DEBIT"
      BY <2>1, <3>1, <3>2 DEF Signed
    <3>3. CASE Normal[a] # "DEBIT"
      BY <2>1, <3>1, <3>3 DEF Signed
    <3> QED BY <3>2, <3>3
  <2>3. CASE a \notin Named(op[p])
    <3>1. balance'[a] = balance[a] /\ d[a] = 0
      BY <2>3, PublishOnTop
    <3> QED BY <2>1, <3>1 DEF Signed
  <2> QED BY <2>2, <2>3
<1>5. SumFunctionOnSet(NetDebit, S) = 0
  BY DEF TrialBalanced
<1> HIDE DEF S, d
<1>6. SumFunctionOnSet(NetDebit', S) = SumFunctionOnSet(NetDebit, S) + SumFunctionOnSet(d, S)
  BY <1>3, <1>4, SumOfSums
<1> QED BY <1>2, <1>5, <1>6 DEF S

\* A number that is twice itself is its own negative: it is nothing.
LEMMA TwiceItself ==
  ASSUME NEW n \in Int, n + n = n
  PROVE  -n = n
OBVIOUS

\* The whole-ledger check (TrialBalanced): however postings race, and whatever is
\* reversed, the running balances of a currency add up to nothing.
THEOREM TrialBalanceHolds == Spec => []TrialBalanced
<1>1. Init => TrialBalanced
  <2> SUFFICES ASSUME Init, NEW c \in {Currency[a] : a \in Accounts}
               PROVE  SumFunctionOnSet(NetDebit, {a \in Accounts : Currency[a] = c}) = 0
    BY DEF TrialBalanced
  <2> DEFINE S == {a \in Accounts : Currency[a] = c}
  <2>1. IsFiniteSet(S) /\ S \subseteq Accounts
    BY AccountsFinite, FS_Subset
  <2>2. \A a \in Accounts : NetDebit[a] = 0
    <3> SUFFICES ASSUME NEW a \in Accounts PROVE Signed(a, balance[a]) = 0
      BY DEF NetDebit
    <3>1. balance[a] = 0
      BY DEF Init, J!JInit
    <3>2. balance[a] \in Int /\ balance[a] + balance[a] = balance[a]
      BY <3>1
    <3>3. -balance[a] = balance[a]
      BY <3>2, TwiceItself
    <3>4. Signed(a, balance[a]) = balance[a]
      BY <3>3 DEF Signed
    <3> QED BY <3>1, <3>4
  <2> HIDE DEF S
  <2>3. SumFunctionOnSet(NetDebit, S) = 0
    BY <2>1, <2>2, SumOfZeros
  <2> QED BY <2>3 DEF S
<1>2. IInv /\ TrialBalanced /\ [Next]_vars => TrialBalanced'
  <2> SUFFICES ASSUME IInv, TrialBalanced, [Next]_vars PROVE TrialBalanced'
    OBVIOUS
  <2>1. CASE UNCHANGED <<journal, balance>>
    BY <2>1 DEF TrialBalanced, NetDebit
  <2>2. CASE \E p \in Callers : Commit(p) \/ CommitUnacknowledged(p)
    BY <2>2, PublishKeepsTrialBalance DEF Commit, CommitUnacknowledged
  <2> QED BY <2>1, <2>2, OnlyCommitsPost
<1> QED BY <1>1, <1>2, Invariance, PTL DEF Spec

\* Where reversals carry the key Reverse makes itself, nothing is reversed
\* twice (ReversedAtMostOnce): the unique key of the journal sees to it.
THEOREM ReversalsUnique ==
  ASSUME CallerReversalKeys = {}
  PROVE  Spec => []ReversedAtMostOnce
<1>1. IInv => ReversedAtMostOnce
  <2> SUFFICES ASSUME IInv, NEW i \in 1..Len(journal), NEW j \in 1..Len(journal),
                      journal[i].reverses = journal[j].reverses,
                      journal[i].reverses # 0
               PROVE  i = j
    BY DEF ReversedAtMostOnce
  <2>1. ASSUME NEW k \in 1..Len(journal), journal[k].reverses # 0
        PROVE  journal[k].key = <<"reversal", journal[k].reverses>>
    <3>1. Legitimate(journal, journal[k])
      BY DEF IInv, JournalSound
    <3>2. journal[k].type = "REVERSAL"
      BY <2>1, <3>1, PostsOrReverses
    <3>3. QED BY <3>1, <3>2, ContraShape DEF ReversalKeys
  <2>2. QED BY <2>1 DEF IInv, JournalSound
<1>2. QED BY <1>1, Invariance, PTL

\* A client gets the transaction that is recorded under its key.
LEMMA ReplyTrue ==
  ASSUME IInv, AnswersTrue, NEW p \in Callers, pc[p] # "idle", NEW id \in Recorded(op[p].key),
         Reply(p, id), UNCHANGED posted
  PROVE  AnswersTrue'
<1>1. id \in 1..Len(journal) /\ journal[id].key = op[p].key
  BY DEF Recorded
<1>2. op[p].type # "REVERSAL" => op[p].key[1] # "undo"
  BY PostsOrReverses, ClientKeys DEF IInv, SessionSound
<1>3. \A x \in answers' : x \in answers \/ (op[p].type # "REVERSAL" /\ x = <<op[p].key, id>>)
  BY DEF Reply
<1>4. UNCHANGED <<journal, reversedBy>>
  BY DEF posted
<1>5. ASSUME NEW x \in answers'
      PROVE  /\ x[2] \in 1..Len(journal)
             /\ \/ x[1] = journal[x[2]].key /\ x[1][1] # "undo"
                \/ \E i \in 1..Len(journal) :
                     x[1] = <<"undo", i>> /\ journal[x[2]].key = <<"reversal", i>>
  <2>1. CASE x \in answers
    BY <2>1 DEF AnswersTrue
  <2>2. CASE op[p].type # "REVERSAL" /\ x = <<op[p].key, id>>
    BY <1>1, <1>2, <2>2
  <2> QED BY <1>3, <2>1, <2>2
<1> QED BY <1>4, <1>5 DEF AnswersTrue

\* So does the one whose posting is the new transaction.
LEMMA PublishTrue ==
  ASSUME IInv, AnswersTrue, NEW p \in Callers, NEW label, NEW r, Publish(p, label, r),
         Reply(p, Len(journal) + 1) \/ UNCHANGED answers
  PROVE  AnswersTrue'
<1> DEFINE n == Len(journal)
<1>1. /\ n \in Nat /\ Len(journal') = n + 1 /\ journal'[n + 1] = op[p]
      /\ \A i \in 1..n : journal'[i] = journal[i] /\ reversedBy'[i] = reversedBy[i]
      /\ reversedBy'[n + 1] = 0
      /\ \A i \in 1..n : reversedBy[i] \in 0..n
  BY DEF IInv, Typed, Publish
<1>2. op[p].type # "REVERSAL" => op[p].key[1] # "undo"
  BY PostsOrReverses, ClientKeys DEF IInv, SessionSound, Publish
<1>3. \A x \in answers' :
        x \in answers \/ (op[p].type # "REVERSAL" /\ x = <<op[p].key, n + 1>>)
  BY DEF Reply
<1>4. \A id \in 1..n + 1 :
        reversedBy'[id] # 0 => journal'[reversedBy'[id]].key = <<"reversal", id>>
  BY <1>1 DEF AnswersTrue
<1>5. ASSUME NEW x \in answers'
      PROVE  /\ x[2] \in 1..n + 1
             /\ \/ x[1] = journal'[x[2]].key /\ x[1][1] # "undo"
                \/ \E id \in 1..n + 1 :
                     x[1] = <<"undo", id>> /\ journal'[x[2]].key = <<"reversal", id>>
  <2>1. CASE x \in answers
    BY <1>1, <2>1 DEF AnswersTrue
  <2>2. CASE op[p].type # "REVERSAL" /\ x = <<op[p].key, n + 1>>
    BY <1>1, <1>2, <2>2
  <2> QED BY <1>3, <2>1, <2>2
<1> QED BY <1>1, <1>4, <1>5 DEF AnswersTrue

\* Reverse answers with the reversal it has linked, or found linked.
LEMMA UndoneTrue ==
  ASSUME IInv, AnswersTrue, journal' = journal, NEW id \in 1..Len(journal),
         NEW rev \in 1..Len(journal), journal[rev].key = <<"reversal", id>>,
         Undone(id, rev),
         \A i \in 1..Len(journal) : reversedBy'[i] = reversedBy[i] \/ (i = id /\ reversedBy'[i] = rev)
  PROVE  AnswersTrue'
<1>1. \A i \in 1..Len(journal) :
        reversedBy'[i] # 0 => journal[reversedBy'[i]].key = <<"reversal", i>>
  BY DEF AnswersTrue
<1>2. \A x \in answers' : x \in answers \/ x = << <<"undo", id>>, rev>>
  BY DEF Undone
<1> QED BY <1>1, <1>2 DEF AnswersTrue

\* Every step keeps the answers true.
LEMMA AnswersKept ==
  ASSUME CallerReversalKeys = {}, IInv, AnswersTrue, [Next]_vars
  PROVE  AnswersTrue'
<1>1. ASSUME UNCHANGED <<posted, answers>> PROVE AnswersTrue'
  BY <1>1 DEF posted, AnswersTrue
<1>2. ASSUME NEW p \in Callers, Lookup(p) \/ Write(p) PROVE AnswersTrue'
  BY <1>1, <1>2, ReplyTrue DEF Lookup, Write, Returns
<1>3. ASSUME NEW p \in Callers, Commit(p) \/ CommitUnacknowledged(p) PROVE AnswersTrue'
  BY <1>3, PublishTrue DEF Commit, CommitUnacknowledged
<1>4. ASSUME NEW p \in Callers, Flag(p) PROVE AnswersTrue'
  <2> DEFINE id == op[p].reverses
  <2>1. /\ id \in 1..Len(journal) /\ op[p].key = <<"reversal", id>>
        /\ journal' = journal /\ Typed
    BY <1>4, ContraShape DEF IInv, SessionSound, Flag, ReversalKeys
  <2>2. PICK rev \in Recorded(op[p].key) :
          /\ reversedBy' = [reversedBy EXCEPT ![id] = IF @ = 0 THEN rev ELSE @]
          /\ Undone(id, rev)
    BY <1>4 DEF Flag
  <2>3. \A i \in 1..Len(journal) :
          reversedBy'[i] = reversedBy[i] \/ (i = id /\ reversedBy'[i] = rev)
    BY <2>1, <2>2 DEF Typed
  <2> QED BY <2>1, <2>2, <2>3, UndoneTrue DEF Recorded
<1>5. ASSUME NEW p \in Callers, CallReverse(p) PROVE AnswersTrue'
  <2>1. PICK id \in 1..Len(journal) : StartReversal(p, id) \/ AlreadyReversed(p, id)
    BY <1>5 DEF CallReverse
  <2>2. CASE StartReversal(p, id)
    BY <1>1, <2>2 DEF StartReversal, Start
  <2>3. CASE AlreadyReversed(p, id)
    <3>1. reversedBy[id] \in 1..Len(journal) /\ UNCHANGED <<journal, reversedBy>>
      BY <2>3 DEF AlreadyReversed, IInv, Typed, posted
    <3>2. journal[reversedBy[id]].key = <<"reversal", id>>
      BY <2>3 DEF AlreadyReversed, AnswersTrue
    <3> QED BY <2>3, <3>1, <3>2, UndoneTrue DEF AlreadyReversed
  <2> QED BY <2>1, <2>2, <2>3
<1>6. ASSUME NEW p \in Callers,
             Begin(p) \/ LockRow(p) \/ Check(p) \/ Abort(p) \/ Call(p) \/ ConnectionLost(p)
      PROVE  AnswersTrue'
  BY <1>1, <1>6 DEF Begin, LockRow, Check, Abort, Call, Start, ConnectionLost
<1>7. ASSUME NEW a \in Wallets, FreezeOrThaw(a) \/ ReadBeforeClose(a) \/ CloseWallet(a)
      PROVE  AnswersTrue'
  BY <1>1, <1>7 DEF FreezeOrThaw, ReadBeforeClose, CloseWallet, Restatus
<1>8. ASSUME NEW c \in Closable, ClosePeriod(c) PROVE AnswersTrue'
  BY <1>1, <1>8 DEF ClosePeriod
<1>9. CASE UNCHANGED vars
  BY <1>1, <1>9 DEF vars
<1> QED BY <1>2, <1>3, <1>4, <1>5, <1>6, <1>7, <1>8, <1>9 DEF Next, Step, Quiet

\* Where reversals carry the key Reverse makes itself, whoever repeats a call,
\* from any goroutine and after any failure, gets the answer the others got
\* (OneAnswerPerKey).
THEOREM AnswersUnique ==
  ASSUME CallerReversalKeys = {}
  PROVE  Spec => []OneAnswerPerKey
<1>1. Init => AnswersTrue
  BY DEF Init, J!JInit, AnswersTrue
<1>2. IInv /\ AnswersTrue /\ [Next]_vars => AnswersTrue'
  BY AnswersKept
<1>3. IInv /\ AnswersTrue => OneAnswerPerKey
  <2> SUFFICES ASSUME IInv, AnswersTrue, NEW x \in answers, NEW y \in answers, x[1] = y[1]
               PROVE  x[2] = y[2]
    BY DEF OneAnswerPerKey
  <2>1. x[2] \in 1..Len(journal) /\ y[2] \in 1..Len(journal)
    BY DEF AnswersTrue
  <2>2. journal[x[2]].key = journal[y[2]].key
    <3>1. CASE x[1][1] = "undo"
      <4>1. PICK i \in 1..Len(journal) :
              x[1] = <<"undo", i>> /\ journal[x[2]].key = <<"reversal", i>>
        BY <3>1 DEF AnswersTrue
      <4>2. PICK j \in 1..Len(journal) :
              y[1] = <<"undo", j>> /\ journal[y[2]].key = <<"reversal", j>>
        BY <3>1 DEF AnswersTrue
      <4>3. <<"undo", i>> = <<"undo", j>>
        BY <4>1, <4>2
      <4>4. i = j
        BY <4>3
      <4> QED BY <4>1, <4>2, <4>4
    <3>2. CASE x[1][1] # "undo"
      BY <3>2 DEF AnswersTrue
    <3> QED BY <3>1, <3>2
  <2> QED BY <2>1, <2>2 DEF IInv, JournalSound
<1> QED BY <1>1, <1>2, <1>3, Invariance, PTL DEF Spec

-----------------------------------------------------------------------------
(* Nobody waits forever for a lock.                                        *)

\* A caller waits for a row, or for a commit with its key, and then it is at
\* that label; it has one next row, which is an account.
LEMMA WaitsWhere ==
  ASSUME IInv, NEW p \in Callers
  PROVE  /\ \A q \in Callers : WaitsFor(p, q) =>
              \/ pc[p] = "lock" /\ \E a \in held[q] : IsNextRow(p, a)
              \/ pc[p] = "write" /\ pc[q] = "commit"
         /\ pc[p] = "lock" => \A a : IsNextRow(p, a) => a \in Accounts /\ a \in Int
         /\ pc[p] = "lock" => \A a, b : IsNextRow(p, a) /\ IsNextRow(p, b) => a = b
<1>1. ASSUME pc[p] = "lock", NEW a, IsNextRow(p, a) PROVE a \in Accounts /\ a \in Int
  <2>1. op[p] \in Postings(Len(journal)) /\ Len(journal) \in Nat
    BY <1>1, LegitimateIsPosting DEF IInv, SessionSound, Typed
  <2> QED BY <1>1, <2>1, PostingShape, AccountsAreOrdered
          DEF IsRequest, Named, IsNextRow, Unlocked
<1>2. ASSUME pc[p] = "lock", NEW a, NEW b, IsNextRow(p, a), IsNextRow(p, b) PROVE a = b
  <2>1. a \in Int /\ b \in Int
    BY <1>1, <1>2
  <2>2. a <= b /\ b <= a
    BY <1>2 DEF IsNextRow
  <2> QED BY <2>1, <2>2
<1> QED BY <1>1, <1>2 DEF WaitsFor

\* However many goroutines post, no set of them is deadlocked (NoWaitCycle):
\* rows are taken in the order of their ids, so who has come furthest waits
\* for none of the others.
THEOREM NoDeadlock == Spec => []NoWaitCycle
<1>1. IInv => NoWaitCycle
  <2> SUFFICES ASSUME IInv, NEW S \in (SUBSET Callers) \ {{}}
               PROVE  \E p \in S : \A q \in S : ~WaitsFor(p, q)
    BY DEF NoWaitCycle
  <2> DEFINE next == [p \in S |-> CHOOSE a : IsNextRow(p, a)]
  <2>1. CASE \E p \in S : pc[p] \notin {"lock", "write"}
    BY <2>1, WaitsWhere
  <2>2. CASE (\A p \in S : pc[p] \in {"lock", "write"}) /\ \E p \in S : pc[p] = "write"
    BY <2>2, WaitsWhere
  <2>3. CASE \E p \in S : pc[p] = "lock" /\ \A a : ~IsNextRow(p, a)
    BY <2>3, WaitsWhere
  <2>4. CASE \A p \in S : pc[p] = "lock" /\ \E a : IsNextRow(p, a)
    <3>1. ASSUME NEW p \in S PROVE IsNextRow(p, next[p]) /\ next[p] \in Int
      BY <2>4, WaitsWhere
    <3>2. PICK p \in S : \A q \in S : next[q] <= next[p]
      <4>1. IsFiniteSet(S)
        BY CallersFinite, FS_Subset
      <4> HIDE DEF next
      <4> QED BY <4>1, <3>1, HasGreatest
    <3>3. ASSUME NEW q \in S, WaitsFor(p, q) PROVE FALSE
      <4>1. PICK a \in held[q] : IsNextRow(p, a)
        BY <2>4, <3>3, WaitsWhere
      <4>2. a = next[p]
        BY <2>4, <3>1, <4>1, WaitsWhere
      <4>3. next[q] \in Unlocked(q)
        BY <3>1 DEF IsNextRow
      <4>4. a < next[q]
        BY <4>1, <4>3 DEF IInv, SessionSound
      <4> QED BY <3>1, <3>2, <4>2, <4>4
    <3> QED BY <3>3
  <2> QED BY <2>1, <2>2, <2>3, <2>4
<1> QED BY <1>1, Invariance, PTL

-----------------------------------------------------------------------------
(* The engine implements Journal.                                          *)

\* Journal's copy of the vocabulary of Accounting is this module's.
LEMMA SameVocabulary ==
  /\ \A r, st : J!Postable(r, st) <=> Postable(r, st)
  /\ \A r : J!Balanced(r) <=> Balanced(r)
  /\ \A r, b : J!Funded(r, b) <=> Funded(r, b)
  /\ \A r, b : J!Applied(r, b) = Applied(r, b)
  /\ \A r, id, key : J!ReversalOf(r, id, key) = ReversalOf(r, id, key)
  /\ J!AccountStatus = AccountStatus
<1> USE DEF J!Named, Named
<1>1. \A r, st : J!Postable(r, st) <=> Postable(r, st)
  BY DEF J!Postable, Postable
<1>2. \A r : J!Balanced(r) <=> Balanced(r)
  BY Zenon DEF J!Balanced, Balanced, J!Currencies, Currencies,
               J!SumFunctionOnSet, SumFunctionOnSet, J!FoldFunctionOnSet, FoldFunctionOnSet,
               J!MapThenFoldSet, MapThenFoldSet
<1>3. \A r, b : J!Applied(r, b) = Applied(r, b)
  BY DEF J!Applied, Applied, J!Signed, Signed
<1>4. \A r, b : J!Funded(r, b) <=> Funded(r, b)
  BY <1>3 DEF J!Funded, Funded
<1>5. \A r, id, key : J!ReversalOf(r, id, key) = ReversalOf(r, id, key)
  BY DEF J!ReversalOf, ReversalOf
<1>6. J!AccountStatus = AccountStatus
  BY DEF J!AccountStatus, AccountStatus
<1>7. QED BY <1>1, <1>2, <1>3, <1>4, <1>5, <1>6

\* A commit posts to the current balances: its snapshot is fresh for them.
LEMMA CommitPosts ==
  ASSUME IInv, NEW p \in Callers, NEW label, NEW r, Publish(p, label, r)
  PROVE  J!PostTx(op[p])
<1>1. /\ Typed /\ SessionSound(p) /\ pc[p] = "commit"
      /\ op[p] \in Postings(Len(journal)) /\ Len(journal) \in Nat
  <2>1. Typed /\ SessionSound(p) /\ pc[p] = "commit"
    BY DEF IInv, Publish
  <2>2. QED BY <2>1, LegitimateIsPosting DEF SessionSound, Typed
<1>2. op[p].key \notin J!Keys
  BY <1>1 DEF SessionSound, Recorded, J!Keys
<1>3. \A a \in Named(op[p]) : view[p].balance[a] = balance[a]
  BY <1>1 DEF SessionSound, InTransaction, Fresh, Publish, Conflict
<1>4. \A a \in Named(op[p]) :
        a \in Accounts /\ Applied(op[p], view[p].balance)[a] = Applied(op[p], balance)[a]
  BY <1>1, <1>3, PostingShape DEF Applied, IsRequest, Named
<1>5. Funded(op[p], balance)
  BY <1>1, <1>4, PostingShape DEF SessionSound, Funded, IsRequest, Named
<1>6. balance' = Applied(op[p], balance)
  BY <1>4 DEF Publish, Applied
<1>7. Postable(op[p], status) /\ Balanced(op[p])
  BY <1>1 DEF SessionSound
<1>8. QED
  BY <1>2, <1>5, <1>6, <1>7, SameVocabulary DEF J!PostTx, Publish

\* So it is one step of Journal, posting or reversal.
LEMMA CommitImplements ==
  ASSUME CallerReversalKeys = {}, IInv, NEW p \in Callers, NEW label, NEW r,
         Publish(p, label, r)
  PROVE  J!JNext
<1>1. Legitimate(journal, op[p]) /\ J!PostTx(op[p])
  BY CommitPosts DEF IInv, SessionSound, Publish
<1>2. CASE op[p] \in Requests
  BY <1>1, <1>2 DEF J!JNext, J!PostRequest
<1>3. CASE op[p].type = "REVERSAL"
  <2>1. /\ op[p].reverses \in 1..Len(journal)
        /\ journal[op[p].reverses].type # "REVERSAL"
        /\ op[p] = ReversalOf(journal[op[p].reverses], op[p].reverses,
                              <<"reversal", op[p].reverses>>)
    BY <1>1, <1>3, ContraShape DEF ReversalKeys
  <2>2. QED BY <1>1, <2>1, SameVocabulary DEF J!JNext, J!PostReversal
<1>4. QED BY <1>1, <1>2, <1>3, PostsOrReverses

\* Flagging is the other half of a reversal, or changes nothing.
LEMMA FlagImplements ==
  ASSUME CallerReversalKeys = {}, IInv, NEW p \in Callers, Flag(p)
  PROVE  J!JNext \/ UNCHANGED J!jvars
<1> DEFINE id == op[p].reverses
<1>1. /\ Typed /\ SessionSound(p) /\ pc[p] = "flag"
      /\ Legitimate(journal, op[p]) /\ op[p].type = "REVERSAL"
  BY DEF IInv, SessionSound, Flag
<1>2. id \in 1..Len(journal) /\ op[p].key = <<"reversal", id>>
  BY <1>1, ContraShape DEF ReversalKeys
<1>3. PICK rev \in Recorded(op[p].key) :
        reversedBy' = [reversedBy EXCEPT ![id] = IF @ = 0 THEN rev ELSE @]
  BY DEF Flag
<1>4. rev \in 1..Len(journal) /\ journal[rev].reverses = id
  <2>1. rev \in 1..Len(journal) /\ journal[rev].key = <<"reversal", id>>
    BY <1>2, <1>3 DEF Recorded
  <2>2. Legitimate(journal, journal[rev])
    BY <2>1 DEF IInv, JournalSound
  <2>3. journal[rev] \notin Requests
    BY <2>1, ClientKeys
  <2>4. journal[rev].key = <<"reversal", journal[rev].reverses>>
    BY <2>2, <2>3, PostsOrReverses, ContraShape DEF ReversalKeys
  <2>5. QED BY <2>1, <2>4
<1>5. UNCHANGED <<journal, balance, status>>
  BY DEF Flag
<1>6. CASE reversedBy[id] = 0
  BY <1>2, <1>3, <1>4, <1>5, <1>6 DEF J!JNext, J!LinkReversal, J!MarkReversed
<1>7. CASE reversedBy[id] # 0
  <2>1. reversedBy' = reversedBy
    BY <1>1, <1>2, <1>3, <1>7 DEF Typed
  <2>2. QED BY <1>5, <2>1 DEF J!jvars
<1>8. QED BY <1>6, <1>7

\* Every behaviour of the engine, with any number of callers, accounts and
\* requests, is a behaviour of the atomic journal (ImplementsJournal).
THEOREM EngineImplementsJournal ==
  ASSUME CallerReversalKeys = {}
  PROVE  Spec => ImplementsJournal
<1>1. Init => J!JInit
  BY DEF Init
<1>2. IInv /\ [Next]_vars => [J!JNext]_(J!jvars)
  <2> SUFFICES ASSUME IInv, [Next]_vars PROVE J!JNext \/ UNCHANGED J!jvars
    OBVIOUS
  <2> USE DEF J!jvars
  <2>1. CASE UNCHANGED vars
    BY <2>1 DEF vars, posted
  <2>2. ASSUME NEW p \in Callers, Step(p) \/ CommitUnacknowledged(p)
        PROVE  J!JNext \/ UNCHANGED J!jvars
    <3>1. CASE Commit(p) \/ CommitUnacknowledged(p)
      BY <3>1, CommitImplements DEF Commit, CommitUnacknowledged
    <3>2. CASE Flag(p)
      BY <3>2, FlagImplements
    <3>3. CASE Lookup(p) \/ Begin(p) \/ LockRow(p) \/ Check(p) \/ Write(p) \/ Abort(p)
      BY <3>3 DEF Lookup, Begin, LockRow, Check, Write, Abort, posted
    <3>4. QED BY <2>2, <3>1, <3>2, <3>3 DEF Step
  <2>3. ASSUME NEW p \in Callers, Call(p) \/ CallReverse(p) \/ ConnectionLost(p)
        PROVE  UNCHANGED J!jvars
    BY <2>3 DEF Call, CallReverse, StartReversal, AlreadyReversed, Start, ConnectionLost, posted
  <2>4. ASSUME NEW a \in Wallets, FreezeOrThaw(a) \/ ReadBeforeClose(a) \/ CloseWallet(a)
        PROVE  J!JNext \/ UNCHANGED J!jvars
    <3>1. a \in Accounts
      BY WalletsAreAccounts
    <3>2. ASSUME NEW s \in AccountStatus, Restatus(a, s) PROVE J!JNext
      BY <3>1, <3>2, SameVocabulary
      DEF J!JNext, J!ChangeStatus, J!SetStatus, Restatus, posted
    <3>3. QED
      BY <2>4, <3>2 DEF FreezeOrThaw, ReadBeforeClose, CloseWallet, AccountStatus, posted
  <2>5. ASSUME NEW c \in Closable, ClosePeriod(c) PROVE UNCHANGED J!jvars
    BY <2>5 DEF ClosePeriod, posted
  <2>6. QED BY <2>1, <2>2, <2>3, <2>4, <2>5 DEF Next, Quiet
<1>3. QED
  BY <1>1, <1>2, Invariance, PTL DEF Spec, ImplementsJournal, J!JSpec
=============================================================================
