-------------------------- MODULE RedemptionProofs --------------------------
(***************************************************************************)
(* Proofs about Redemption, for any number of redemptions, confirmations   *)
(* and reversals and any fee schedule.  A redemption is paid at most once, *)
(* and never once its reversal is on record: every transaction is filed    *)
(* under the key that names what it posts.                                 *)
(*                                                                         *)
(* The rest is about amounts.  By the same fact a transaction is in force  *)
(* or not, so each balance is a sum over what is in force (SumsHold): the  *)
(* reserve exceeds circulation by the dust of the settlements that stand,  *)
(* less than a cent each, and the chain differs from circulation by what   *)
(* is on its way.                                                          *)
(***************************************************************************)
EXTENDS Redemption, Sums, TLAPS

\* What a call works on is one of the transactions its operation is about.
LEMMA TaskOfConfirm ==
  ASSUME NEW c \in Calls, Confirms(c)
  PROVE  Of(c) = Redeem(Of(c)[2])
BY RedemptionInputs DEF Confirms, Of, Redeem

\* Posting under its own name keeps the journal so filed, and adds nothing else.
LEMMA PostFiles ==
  ASSUME KeyNamesEntry, NEW e, Post(e, e)
  PROVE  /\ KeyNamesEntry'
         /\ journal' \in {journal, journal \union {[key |-> e, entry |-> e]}}
BY DEF KeyNamesEntry, Post, books

\* How the journal may grow in one step: not at all, by the settlement a
\* confirmation has read up to, or by a transaction that settles nothing.
Grows ==
  \/ journal' = journal
  \/ \E c \in Calls :
       /\ Confirms(c) /\ call[c] = "read"
       /\ journal' = journal \union {[key |-> Settle(Of(c)[2]), entry |-> Settle(Of(c)[2])]}
  \/ \E e : /\ \A r \in Redemptions : e # Settle(r)
            /\ journal' = journal \union {[key |-> e, entry |-> e]}

\* Every step keeps the journal filed by name and grows it only in those ways.
LEMMA StepFiles ==
  ASSUME KeyNamesEntry, [Next]_vars
  PROVE  KeyNamesEntry' /\ Grows
<1>a. ASSUME NEW e, Post(e, e), \A r \in Redemptions : e # Settle(r)
      PROVE  KeyNamesEntry' /\ Grows
  BY <1>a, PostFiles DEF Grows
<1>b. ASSUME UNCHANGED journal
      PROVE  KeyNamesEntry' /\ Grows
  BY <1>b DEF KeyNamesEntry, Grows
<1>1. ASSUME NEW i \in Issuances, PostIssue(i) \/ Mint(i) \/ PostDeliver(i)
      PROVE  KeyNamesEntry' /\ Grows
  <2>1. CASE PostIssue(i)
    BY <1>a, <2>1 DEF PostIssue, Issue, Settle
  <2>2. CASE Mint(i)
    BY <1>b, <2>2 DEF Mint, books
  <2>3. CASE PostDeliver(i)
    BY <1>a, <2>3 DEF PostDeliver, Deliver, Settle
  <2> QED
    BY <1>1, <2>1, <2>2, <2>3
<1>2. ASSUME NEW r \in Redemptions, PostRedeem(r) \/ Burn(r)
      PROVE  KeyNamesEntry' /\ Grows
  <2>1. CASE PostRedeem(r)
    BY <1>a, <2>1 DEF PostRedeem, Redeem, Settle
  <2>2. CASE Burn(r)
    BY <1>b, <2>2 DEF Burn, books
  <2> QED
    BY <1>2, <2>1, <2>2
<1>3. ASSUME NEW c \in Calls,
             Read(c) \/ PostSettlement(c) \/ PostContra(c) \/ Flag(c) \/ Abandon(c)
      PROVE  KeyNamesEntry' /\ Grows
  <2>1. CASE Read(c) \/ Flag(c) \/ Abandon(c)
    BY <1>b, <2>1 DEF Read, Flag, Abandon, books
  <2>2. CASE PostSettlement(c)
    <3>1. Confirms(c) /\ call[c] = "read"
      BY <2>2 DEF PostSettlement
    <3>2. CASE UNCHANGED journal
      BY <1>b, <3>2
    <3>3. CASE Post(Settle(Of(c)[2]), Settle(Of(c)[2]))
      BY <3>1, <3>3, PostFiles DEF Grows
    <3> QED
      BY <2>2, <3>2, <3>3 DEF PostSettlement, SettlementKey, books
  <2>3. CASE PostContra(c)
    BY <1>a, <2>3 DEF PostContra, Contra, Settle
  <2> QED
    BY <1>3, <2>1, <2>2, <2>3
<1>4. ASSUME ReadNext \/ Tick \/ UNCHANGED vars
      PROVE  KeyNamesEntry' /\ Grows
  BY <1>b, <1>4 DEF ReadNext, Tick, vars, books
<1> QED
  BY <1>1, <1>2, <1>3, <1>4 DEF Next

\* The journal is filed by name in every reachable state.
LEMMA Filed == Spec => []KeyNamesEntry
<1>1. Init => KeyNamesEntry
  BY DEF Init, KeyNamesEntry
<1>2. KeyNamesEntry /\ [Next]_vars => KeyNamesEntry'
  BY StepFiles
<1> QED
  BY <1>1, <1>2, PTL DEF Spec

\* ConfirmRedemption releases the fiat of a redemption at most once, however
\* many clients confirm it, retry, or reverse the settlement in between.
THEOREM PaidOnce == Spec => []PaidAtMostOnce
<1>1. KeyNamesEntry => PaidAtMostOnce
  BY DEF KeyNamesEntry, PaidAtMostOnce
<1> QED
  BY <1>1, Filed, PTL

-----------------------------------------------------------------------------
(* Amounts.                                                                *)

\* The arithmetic of a whole number of cents, and of a part of one.
LEMMA CentsAndUnits ==
  ASSUME NEW a \in Int
  PROVE  /\ Convert(a, PegDecimals, USDXDecimals) = a * 10000
         /\ Convert(a, USDXDecimals, PegDecimals) \in Int
         /\ a - Convert(a, USDXDecimals, PegDecimals) * 10000 \in 0..Cent - 1
BY DEF Convert, PegDecimals, USDXDecimals, Cent

\* A fee is an amount.
LEMMA FeeIsAmount ==
  ASSUME NEW a \in Int, NEW bps \in 0..BpsDenominator
  PROVE  ApplyBps(a, bps) \in Int
<1>1. a * bps \in Int
  BY DEF BpsDenominator
<1> QED BY <1>1 DEF ApplyBps, BpsDenominator

\* What is issued is worth its backing; what a redemption releases is worth the
\* tokens less a part of a cent.
LEMMA Worth ==
  /\ \A i \in Issuances :
       /\ Gross[i] \in Int /\ Backing(i) \in Int /\ IssueFee(i) \in Int /\ Issued(i) \in Int
       /\ Issued(i) = Backing(i) * 10000 /\ Units[i] = Issued(i)
  /\ \A r \in Redemptions :
       /\ Amount[r] \in Int /\ Released(r) \in Int /\ RedeemFee(r) \in Int
       /\ Dust[r] = Amount[r] - Released(r) * 10000 /\ Dust[r] \in 0..Cent - 1
<1>1. ASSUME NEW i \in Issuances
      PROVE  /\ Gross[i] \in Int /\ Backing(i) \in Int /\ IssueFee(i) \in Int
             /\ Issued(i) = Backing(i) * 10000 /\ Units[i] = Issued(i)
  <2>1. Gross[i] \in Int /\ IssueFee(i) \in Int
    BY RedemptionInputs, FeeIsAmount DEF IssueFee
  <2>2. Backing(i) \in Int
    BY <2>1 DEF Backing
  <2>3. Issued(i) = Backing(i) * 10000 /\ Units[i] = Issued(i)
    BY <2>2, CentsAndUnits DEF Issued, Units
  <2> QED BY <2>1, <2>2, <2>3
<1>2. ASSUME NEW r \in Redemptions
      PROVE  /\ Amount[r] \in Int /\ Released(r) \in Int /\ RedeemFee(r) \in Int
             /\ Dust[r] = Amount[r] - Released(r) * 10000 /\ Dust[r] \in 0..Cent - 1
  BY RedemptionInputs, FeeIsAmount, CentsAndUnits DEF Released, RedeemFee, Dust
<1> QED BY <1>1, <1>2

\* The effects of the four originals.
LEMMA Effects ==
  /\ \A i \in Issuances :
       /\ Effect(Issue(i)) = Lines(-Gross[i], Backing(i), IssueFee(i), 0, Issued(i), Issued(i))
       /\ Effect(Deliver(i)) = Lines(0, 0, 0, Issued(i), -Issued(i), 0)
  /\ \A r \in Redemptions :
       /\ Effect(Redeem(r)) = Lines(0, 0, 0, -Amount[r], Amount[r], 0)
       /\ Effect(Settle(r)) = Lines(Released(r) - RedeemFee(r), -Released(r), RedeemFee(r),
                                    0, -Amount[r], -Amount[r])
BY DEF Effect, Issue, Deliver, Redeem, Settle

\* Every original is one of the four.
LEMMA FourOriginals ==
  ASSUME NEW o \in Originals
  PROVE  \/ \E i \in Issuances : o = Issue(i) \/ o = Deliver(i)
         \/ \E r \in Redemptions : o = Redeem(r) \/ o = Settle(r)
BY DEF Originals, Issue, Deliver, Redeem, Settle

\* An entry moves amounts, and a contra moves them back.
LEMMA MovesTyped ==
  /\ \A o \in Originals, a \in Account :
       /\ Moves(o, a) = Effect(o)[a] /\ Moves(Contra(o), a) = -Effect(o)[a]
       /\ Effect(o)[a] \in Int
  /\ \A e \in Entries, a \in Account : Moves(e, a) \in Int
<1>1. ASSUME NEW o \in Originals, NEW a \in Account
      PROVE  /\ Moves(o, a) = Effect(o)[a] /\ Moves(Contra(o), a) = -Effect(o)[a]
             /\ Effect(o)[a] \in Int
  <2>1. o[1] # "reversal"
    BY DEF Originals
  <2>2. Effect(o)[a] \in Int
    BY FourOriginals, Effects, Worth DEF Lines, Account
  <2> QED BY <2>1, <2>2 DEF Moves, Contra
<1> QED BY <1>1 DEF Entries

-----------------------------------------------------------------------------
(* What a step does to the journal.                                        *)

\* A new entry e is posted under its own name.
Records(e) ==
  /\ ~Posted(e) /\ \A o \in Originals : e = Contra(o) => Posted(o)
  /\ journal' = journal \union {[key |-> e, entry |-> e]}
  /\ balance' = [a \in Account |-> balance[a] + Moves(e, a)]

\* Post records an entry or finds it recorded.
LEMMA PostRecords ==
  ASSUME KeyNamesEntry, NEW e, Post(e, e), \A o \in Originals : e = Contra(o) => Posted(o)
  PROVE  UNCHANGED <<books, check>> \/ (Records(e) /\ Disturb)
<1>1. e \notin Keys => ~Posted(e)
  BY DEF KeyNamesEntry, Keys, Posted
<1> QED BY <1>1 DEF Post, Records

\* The names of what a call may post.
LEMMA TasksNamed ==
  ASSUME NEW c \in Calls
  PROVE  /\ Of(c) \in Originals /\ Contra(Of(c)) \in Entries
         /\ Confirms(c) => Of(c)[2] \in Redemptions
BY RedemptionInputs DEF Of, Confirms, Originals, Entries, Contra, Redeem

\* No original is a contra.
LEMMA OriginalsAreNot ==
  /\ Originals \subseteq Entries
  /\ \A o, p \in Originals : o # Contra(p) /\ (Contra(o) = Contra(p) => o = p)
  /\ \A i \in Issuances : Issue(i) \in Originals /\ Deliver(i) \in Originals
  /\ \A r \in Redemptions : Redeem(r) \in Originals /\ Settle(r) \in Originals
BY DEF Originals, Contra, Entries, Issue, Deliver, Redeem, Settle

\* A step records one entry, moves one token, or moves nothing.
LEMMA StepRecords ==
  ASSUME KeyNamesEntry, ContrasFollow, [Next]_vars
  PROVE  \/ UNCHANGED <<books, chains>> /\ (UNCHANGED check \/ ReadNext \/ Tick)
         \/ UNCHANGED books /\ Disturb
         \/ \E e \in Entries : Records(e) /\ Disturb /\ UNCHANGED chains
<1> DEFINE Goal == \/ UNCHANGED <<books, chains>> /\ (UNCHANGED check \/ ReadNext \/ Tick)
                   \/ UNCHANGED books /\ Disturb
                   \/ \E e \in Entries : Records(e) /\ Disturb /\ UNCHANGED chains
<1>1. ASSUME NEW e \in Entries, Post(e, e), UNCHANGED chains,
             \A o \in Originals : e = Contra(o) => Posted(o)
      PROVE  Goal
  BY <1>1, PostRecords
<1>2. ASSUME NEW o \in Originals, Post(o, o), UNCHANGED chains PROVE Goal
  BY <1>1, <1>2, OriginalsAreNot
<1>3. ASSUME NEW i \in Issuances, PostIssue(i) \/ PostDeliver(i) PROVE Goal
  <2> HIDE DEF Goal
  <2> QED BY <1>2, <1>3, OriginalsAreNot DEF PostIssue, PostDeliver
<1>4. ASSUME NEW r \in Redemptions, PostRedeem(r) PROVE Goal
  <2> HIDE DEF Goal
  <2> QED BY <1>2, <1>4, OriginalsAreNot DEF PostRedeem
<1>5. ASSUME NEW c \in Calls, PostSettlement(c) PROVE Goal
  <2>1. CASE UNCHANGED <<books, check>>
    BY <1>5, <2>1 DEF PostSettlement
  <2>2. CASE Post(Settle(Of(c)[2]), Settle(Of(c)[2]))
    <3>1. Settle(Of(c)[2]) \in Originals /\ UNCHANGED chains
      BY <1>5, TasksNamed, OriginalsAreNot DEF PostSettlement
    <3> HIDE DEF Goal
    <3> QED BY <1>2, <2>2, <3>1
  <2> QED BY <1>5, <2>1, <2>2 DEF PostSettlement, SettlementKey
<1>6. ASSUME NEW c \in Calls, PostContra(c) PROVE Goal
  <2>1. Posted(Of(c)) /\ Post(Contra(Of(c)), Contra(Of(c))) /\ UNCHANGED chains
    BY <1>6 DEF PostContra, ContrasFollow
  <2>2. \A o \in Originals : Contra(Of(c)) = Contra(o) => Posted(o)
    BY <2>1, TasksNamed, OriginalsAreNot
  <2> HIDE DEF Goal
  <2> QED BY <1>1, <2>1, <2>2, TasksNamed
<1>7. ASSUME NEW i \in Issuances, Mint(i) PROVE Goal
  BY <1>7 DEF Mint
<1>8. ASSUME NEW r \in Redemptions, Burn(r) PROVE Goal
  BY <1>8 DEF Burn
<1>9. ASSUME NEW c \in Calls, Read(c) \/ Flag(c) \/ Abandon(c) PROVE Goal
  BY <1>9 DEF Read, Flag, Abandon
<1>10. ASSUME ReadNext \/ Tick \/ UNCHANGED vars PROVE Goal
  BY <1>10 DEF ReadNext, Tick, vars
<1>11. Goal
  <2> HIDE DEF Goal
  <2>1. CASE \E i \in Issuances : PostIssue(i) \/ Mint(i) \/ PostDeliver(i)
    BY <2>1, <1>3, <1>7
  <2>2. CASE \E r \in Redemptions : PostRedeem(r) \/ Burn(r)
    BY <2>2, <1>4, <1>8
  <2>3. CASE \E c \in Calls :
               Read(c) \/ PostSettlement(c) \/ PostContra(c) \/ Flag(c) \/ Abandon(c)
    BY <2>3, <1>5, <1>6, <1>9
  <2> QED BY <2>1, <2>2, <2>3, <1>10 DEF Next
<1> QED BY <1>11

\* After it has been recorded an entry is posted, as are those that were.
LEMMA RecordedIsPosted ==
  ASSUME NEW e, Records(e)
  PROVE  \A x : Posted(x)' <=> (Posted(x) \/ x = e)
<1> DEFINE new == [key |-> e, entry |-> e]
<1>1. new.entry = e
  OBVIOUS
<1>2. \A t : t \in journal' <=> t \in journal \/ t = new
  BY DEF Records
<1> HIDE DEF new
<1> QED BY <1>1, <1>2 DEF Posted

\* What is posted in one step takes force if it is an original, and takes the
\* force of what it undoes.
LEMMA LiveMoves ==
  ASSUME ContrasFollow, NEW e, Records(e), NEW o \in Originals
  PROVE  /\ Live(o)' <=> ((Live(o) \/ e = o) /\ e # Contra(o))
         /\ e = o => ~Live(o)
         /\ e = Contra(o) => Live(o)
BY RecordedIsPosted, OriginalsAreNot DEF Live, ContrasFollow, Records

-----------------------------------------------------------------------------
(* Types.                                                                  *)

\* A check reads at most four sources.
LEMMA SeenTyped ==
  ASSUME TypeOK
  PROVE  seen \in Seq(Int) /\ \E n \in 0..4 : n = Len(seen) /\ (Complete <=> n = 4)
<1>1. Len(Sources) = 4
  BY DEF Sources
<1>2. seen \in Seq(Int)
  BY DEF TypeOK
<1>3. Len(seen) <= 4
  BY <1>1 DEF TypeOK
<1>4. PICK n \in Nat : n = Len(seen)
  BY <1>2
<1>5. n \in 0..4
  BY <1>3, <1>4
<1> QED BY <1>1, <1>2, <1>4, <1>5 DEF Complete

\* Every step keeps the types.
LEMMA TypesKept ==
  ASSUME TypeOK, KeyNamesEntry, ContrasFollow, [Next]_vars,
         IsFiniteSet(minted), IsFiniteSet(burned)
  PROVE  TypeOK'
<1>1. journal' \subseteq [key : Entries, entry : Entries] /\ balance' \in [Account -> Int]
  <2>1. CASE UNCHANGED books
    BY <2>1 DEF TypeOK, books
  <2>2. ASSUME NEW e \in Entries, Records(e)
        PROVE  journal' \subseteq [key : Entries, entry : Entries] /\ balance' \in [Account -> Int]
    BY <2>2, MovesTyped DEF TypeOK, Records
  <2> QED BY <2>1, <2>2, StepRecords
<1>2. /\ reversed' \subseteq Originals /\ minted' \subseteq Issuances
      /\ burned' \subseteq Redemptions
      /\ call' \in [Calls -> {"idle", "read", "posted", "over"}]
  <2>1. CASE UNCHANGED <<reversed, minted, burned, call>>
    BY <2>1 DEF TypeOK
  <2>2. CASE \E c \in Calls :
               Read(c) \/ PostSettlement(c) \/ PostContra(c) \/ Flag(c) \/ Abandon(c)
    BY <2>2, TasksNamed
       DEF TypeOK, Read, PostSettlement, PostContra, Flag, Abandon, At, chains
  <2>3. CASE (\E i \in Issuances : Mint(i)) \/ (\E r \in Redemptions : Burn(r))
    BY <2>3 DEF TypeOK, Mint, Burn
  <2> QED
    BY <2>1, <2>2, <2>3
       DEF Next, vars, chains, PostIssue, PostDeliver, PostRedeem, ReadNext, Tick
<1>3. seen' \in Seq(Int) /\ Len(seen') <= 4
  <2>1. CASE UNCHANGED check \/ Disturb
    <3>1. seen' = seen
      BY <2>1 DEF check, Disturb
    <3>2. Len(Sources) = 4
      BY DEF Sources
    <3> QED BY <3>1, <3>2 DEF TypeOK
  <2>2. CASE Tick
    <3>1. seen' = << >>
      BY <2>2 DEF Tick
    <3> QED BY <3>1
  <2>3. CASE ReadNext
    <3>1. PICK n \in 0..3 : n = Len(seen)
      <4>1. ~Complete
        BY <2>3 DEF ReadNext
      <4>2. PICK n \in 0..4 : n = Len(seen) /\ n # 4
        BY <4>1, SeenTyped
      <4>3. n \in 0..3
        BY <4>2
      <4> QED BY <4>2, <4>3
    <3>2. \A k \in 1..4 : Current(Sources[k]) \in Int
      <4>1. Supply \in Int
        <5>1. SumFunctionOnSet(Units, minted) \in Int
          BY Worth, SumIsInt DEF TypeOK
        <5>2. SumFunctionOnSet(Amount, burned) \in Int
          BY Worth, SumIsInt DEF TypeOK
        <5> QED BY <5>1, <5>2 DEF Supply
      <4>2. \A a \in Account : balance[a] \in Int
        BY DEF TypeOK
      <4> QED BY <4>1, <4>2 DEF Current, Sources, Account
    <3>3. seen' = Append(seen, Current(Sources[n + 1]))
      BY <2>3, <3>1 DEF ReadNext
    <3>4. n + 1 \in 1..4
      OBVIOUS
    <3>5. Current(Sources[n + 1]) \in Int
      BY <3>2, <3>4
    <3>6. seen \in Seq(Int)
      BY SeenTyped
    <3>7. seen' \in Seq(Int) /\ Len(seen') = n + 1
      <4> HIDE DEF Current, Sources
      <4> QED BY <3>1, <3>3, <3>5, <3>6
    <3> QED BY <3>4, <3>7
  <2> QED BY <2>1, <2>2, <2>3, StepRecords
<1>5. moved' \in BOOLEAN
  <2>1. moved \in BOOLEAN
    BY DEF TypeOK
  <2>2. moved' = moved \/ moved' = TRUE \/ moved' = FALSE
    BY StepRecords DEF check, Disturb, ReadNext, Tick
  <2> QED BY <2>1, <2>2
<1>4. Len(Sources) = 4
  BY DEF Sources
<1> QED BY <1>1, <1>2, <1>3, <1>4, <1>5 DEF TypeOK

\* Every step keeps the filing, and lets a contra only follow its original.
LEMMA OrderKept ==
  ASSUME TypeOK, KeyNamesEntry, ContrasFollow, [Next]_vars
  PROVE  ContrasFollow'
<1>1. \A e \in Originals : Posted(Contra(e))' => Posted(e)'
  <2>1. CASE UNCHANGED books
    BY <2>1 DEF books, Posted, ContrasFollow
  <2>2. ASSUME NEW e \in Entries, Records(e), NEW o \in Originals, Posted(Contra(o))'
        PROVE  Posted(o)'
    BY <2>2, RecordedIsPosted DEF Records, ContrasFollow
  <2> QED BY <2>1, <2>2, StepRecords
<1>2. \A x : Posted(x) => Posted(x)'
  <2>1. CASE UNCHANGED books
    BY <2>1 DEF books, Posted
  <2> QED BY <2>1, StepRecords, RecordedIsPosted
<1>3. ASSUME NEW c \in Calls, call'[c] \in {"read", "posted"}
      PROVE  call[c] \in {"read", "posted"} \/ Posted(Of(c))
  <2>1. CASE UNCHANGED call
    BY <1>3, <2>1
  <2>2. CASE \E d \in Calls :
               Read(d) \/ PostSettlement(d) \/ PostContra(d) \/ Flag(d) \/ Abandon(d)
    BY <1>3, <2>2 DEF TypeOK, Read, PostSettlement, PostContra, Flag, Abandon, At
  <2> QED
    BY <2>1, <2>2
       DEF Next, vars, PostIssue, Mint, PostDeliver, PostRedeem, Burn, ReadNext, Tick
<1> QED BY <1>1, <1>2, <1>3 DEF ContrasFollow, Of

\* What an undisturbed check has read does not change behind its back.
LEMMA SeenKept ==
  ASSUME TypeOK, KeyNamesEntry, ContrasFollow, SeenIsCurrent, [Next]_vars
  PROVE  SeenIsCurrent'
<1>1. CASE Disturb
  <2> SUFFICES ASSUME ~moved' PROVE \A k \in 1..Len(seen') : FALSE
    BY DEF SeenIsCurrent
  <2>1. seen' = << >>
    BY <1>1 DEF Disturb
  <2> QED BY <2>1
<1>2. CASE UNCHANGED <<books, chains, check>>
  BY <1>2 DEF SeenIsCurrent, books, chains, check, Current, Supply
<1>3. CASE UNCHANGED <<books, chains>> /\ Tick
  BY <1>3 DEF SeenIsCurrent, Tick
<1>4. CASE UNCHANGED <<books, chains>> /\ ReadNext
  <2>1. \A s : Current(s)' = Current(s)
    BY <1>4 DEF Current, Supply, books, chains
  <2>2. seen' = Append(seen, Current(Sources[Len(seen) + 1])) /\ moved' = moved
    BY <1>4 DEF ReadNext
  <2>3. \A k \in 1..Len(seen') : k \in 1..Len(seen) \/ k = Len(seen) + 1
    BY <2>2, SeenTyped
  <2>4. \A k \in 1..Len(seen) : seen'[k] = seen[k]
    BY <2>2, SeenTyped
  <2>5. seen'[Len(seen) + 1] = Current(Sources[Len(seen) + 1])
    BY <2>2, SeenTyped
  <2> QED BY <2>1, <2>2, <2>3, <2>4, <2>5 DEF SeenIsCurrent
<1> QED BY <1>1, <1>2, <1>3, <1>4, StepRecords DEF books, chains, check

-----------------------------------------------------------------------------
(* Sums.                                                                   *)

\* One more of the things summed up.
LEMMA OneMore ==
  ASSUME NEW fun, NEW S, IsFiniteSet(S), NEW y, y \notin S,
         \A x \in S \union {y} : fun[x] \in Int, NEW T, T = S \union {y}
  PROVE  IsFiniteSet(T) /\ SumFunctionOnSet(fun, T) = SumFunctionOnSet(fun, S) + fun[y]
BY SumAdds, FS_AddElement

\* The same backwards: without y, the sum is less by what y counts.
LEMMA OneLess ==
  ASSUME NEW fun, NEW S, IsFiniteSet(S), NEW y \in S, \A x \in S : fun[x] \in Int,
         NEW T, T = S \ {y}
  PROVE  /\ IsFiniteSet(T) /\ SumFunctionOnSet(fun, T) \in Int
         /\ SumFunctionOnSet(fun, S) = SumFunctionOnSet(fun, T) + fun[y]
<1>1. IsFiniteSet(T)
  BY FS_Subset
<1>2. SumFunctionOnSet(fun, S) = fun[y] + SumFunctionOnSet(fun, T)
  BY SumTakesOut
<1>3. SumFunctionOnSet(fun, T) \in Int
  BY <1>1, SumIsInt
<1> QED BY <1>1, <1>2, <1>3

SumsHold ==
  /\ \A S \in {Delivered, Redeemed, StillSettled} : IsFiniteSet(S)
  /\ InTransitExplained /\ SurplusIsDust

\* Surplus, without the conversion.
LEMMA SurplusIs ==
  ASSUME TypeOK
  PROVE  Surplus = balance["reserve"] * 10000 - balance["circulation"]
BY CentsAndUnits DEF TypeOK, Surplus, Account

\* The sets the sums are over, in terms of what is in force.
LEMMA InForce ==
  /\ Delivered = {i \in Issuances : Live(Deliver(i))}
  /\ Redeemed = {r \in Redemptions : Live(Redeem(r))}
  /\ StillSettled = {r \in Redemptions : Live(Settle(r))}
BY DEF Delivered, Redeemed, StillSettled, Settled, Live

\* How an entry changes what is in force.
LEMMA ForceMoves ==
  ASSUME ContrasFollow, NEW e, Records(e)
  PROVE  /\ Delivered' = {i \in Issuances :
              (Live(Deliver(i)) \/ e = Deliver(i)) /\ e # Contra(Deliver(i))}
         /\ Redeemed' = {r \in Redemptions :
              (Live(Redeem(r)) \/ e = Redeem(r)) /\ e # Contra(Redeem(r))}
         /\ StillSettled' = {r \in Redemptions :
              (Live(Settle(r)) \/ e = Settle(r)) /\ e # Contra(Settle(r))}
         /\ \A o \in Originals : (e = o => ~Live(o)) /\ (e = Contra(o) => Live(o))
<1>1. /\ Delivered' = {i \in Issuances : Live(Deliver(i))'}
      /\ Redeemed' = {r \in Redemptions : Live(Redeem(r))'}
      /\ StillSettled' = {r \in Redemptions : Live(Settle(r))'}
  BY DEF Delivered, Redeemed, StillSettled, Settled, Live
<1> QED BY <1>1, LiveMoves, OriginalsAreNot

\* Entries of different kinds, or about different things, differ.
LEMMA NamesDiffer ==
  /\ \A i, j : /\ Issue(i) # Deliver(j) /\ Issue(i) # Redeem(j) /\ Issue(i) # Settle(j)
               /\ Deliver(i) # Redeem(j) /\ Deliver(i) # Settle(j) /\ Redeem(i) # Settle(j)
               /\ (Deliver(i) = Deliver(j) => i = j) /\ (Redeem(i) = Redeem(j) => i = j)
               /\ (Settle(i) = Settle(j) => i = j)
  /\ \A o, i : /\ Contra(o) # Issue(i) /\ Contra(o) # Deliver(i)
               /\ Contra(o) # Redeem(i) /\ Contra(o) # Settle(i)
  /\ \A o, p : Contra(o) = Contra(p) => o = p
BY DEF Issue, Deliver, Redeem, Settle, Contra

\* Nothing in force, no balance: the sums hold at the start.
LEMMA SumsInit ==
  ASSUME Init
  PROVE  SumsHold
<1>1. Delivered = {} /\ Redeemed = {} /\ StillSettled = {}
  BY DEF Init, Delivered, Redeemed, StillSettled, Settled, Live, Posted
<1>2. Surplus = 0
  BY CentsAndUnits DEF Init, Account, Surplus
<1> QED
  BY <1>1, <1>2, SumOfNothing, FS_EmptySet
     DEF SumsHold, InTransitExplained, SurplusIsDust, Init, Account

\* What one entry does to the two differences and to the sets in force.
LEMMA SumsKept ==
  ASSUME TypeOK, TypeOK', ContrasFollow, SumsHold, NEW e \in Entries, Records(e)
  PROVE  SumsHold'
<1> DEFINE D == SumFunctionOnSet(Units, Delivered)
           R == SumFunctionOnSet(Amount, Redeemed)
           U == SumFunctionOnSet(Dust, StillSettled)
<1>1. /\ IsFiniteSet(Delivered) /\ IsFiniteSet(Redeemed) /\ IsFiniteSet(StillSettled)
      /\ \A i \in Issuances : Units[i] \in Int
      /\ \A r \in Redemptions : Amount[r] \in Int /\ Dust[r] \in Int
      /\ D \in Int /\ R \in Int /\ U \in Int
  <2>1. /\ IsFiniteSet(Delivered) /\ IsFiniteSet(Redeemed) /\ IsFiniteSet(StillSettled)
    BY DEF SumsHold
  <2>2. /\ \A i \in Issuances : Units[i] \in Int
        /\ \A r \in Redemptions : Amount[r] \in Int /\ Dust[r] \in Int
    BY Worth
  <2>3. D \in Int /\ R \in Int /\ U \in Int
    BY <2>1, <2>2, InForce, SumIsInt
  <2> QED BY <2>1, <2>2, <2>3
<1>2. /\ balance["circulation"] - balance["suspense"] = D - R
      /\ balance["reserve"] * 10000 - balance["circulation"] = U
      /\ \A a \in {"circulation", "suspense", "reserve"} :
           balance[a] \in Int /\ Moves(e, a) \in Int /\ balance'[a] = balance[a] + Moves(e, a)
  <2>1. balance["circulation"] - balance["suspense"] = D - R
    BY DEF SumsHold, InTransitExplained
  <2>2. balance["reserve"] * 10000 - balance["circulation"] = U
    BY SurplusIs DEF SumsHold, SurplusIsDust
  <2>3. \A a \in Account :
          balance[a] \in Int /\ Moves(e, a) \in Int /\ balance'[a] = balance[a] + Moves(e, a)
    BY MovesTyped DEF TypeOK, Records
  <2> QED BY <2>1, <2>2, <2>3 DEF Account
<1>3. SUFFICES
        /\ IsFiniteSet(Delivered') /\ IsFiniteSet(Redeemed') /\ IsFiniteSet(StillSettled')
        /\ Moves(e, "circulation") - Moves(e, "suspense") =
             (SumFunctionOnSet(Units, Delivered') - D) - (SumFunctionOnSet(Amount, Redeemed') - R)
        /\ Moves(e, "reserve") * 10000 - Moves(e, "circulation") =
             SumFunctionOnSet(Dust, StillSettled') - U
        /\ SumFunctionOnSet(Units, Delivered') \in Int
        /\ SumFunctionOnSet(Amount, Redeemed') \in Int
        /\ SumFunctionOnSet(Dust, StillSettled') \in Int
  <2>1. Surplus' = balance'["reserve"] * 10000 - balance'["circulation"]
    BY CentsAndUnits DEF TypeOK, Surplus, Account
  <2> HIDE DEF D, R, U
  <2> QED BY <1>1, <1>2, <2>1 DEF SumsHold, InTransitExplained, SurplusIsDust
<1>4. \A o \in Originals, a \in Account :
        /\ e = o => Moves(e, a) = Effect(o)[a]
        /\ e = Contra(o) => Moves(e, a) = -Effect(o)[a]
  BY MovesTyped
<1>5. Delivered \subseteq Issuances /\ Redeemed \subseteq Redemptions /\ StillSettled \subseteq Redemptions
  BY InForce
<1>6. CASE \E i \in Issuances : e = Issue(i) \/ e = Contra(Issue(i))
  <2>1. PICK i \in Issuances : e = Issue(i) \/ e = Contra(Issue(i))
    BY <1>6
  <2>0. /\ \A x \in Issuances : e # Deliver(x) /\ e # Contra(Deliver(x))
        /\ \A x \in Redemptions : e # Redeem(x) /\ e # Contra(Redeem(x))
        /\ \A x \in Redemptions : e # Settle(x) /\ e # Contra(Settle(x))
    BY <2>1, NamesDiffer
  <2>2. Delivered' = Delivered /\ Redeemed' = Redeemed /\ StillSettled' = StillSettled
    BY <2>0, ForceMoves, InForce
  <2>3. /\ Moves(e, "circulation") = Moves(e, "suspense")
        /\ Moves(e, "reserve") * 10000 = Moves(e, "circulation")
    BY <1>4, <2>1, OriginalsAreNot, Effects, Worth DEF Lines, Account
  <2> HIDE DEF D, R, U
  <2> QED BY <1>1, <1>2, <2>2, <2>3 DEF D, R, U
<1>7. CASE \E i \in Issuances : e = Deliver(i)
  <2>1. PICK i \in Issuances : e = Deliver(i)
    BY <1>7
  <2>0. /\ \A x \in Issuances : e # Contra(Deliver(x)) /\ (e = Deliver(x) <=> x = i)
        /\ \A x \in Redemptions : e # Redeem(x) /\ e # Contra(Redeem(x))
        /\ \A x \in Redemptions : e # Settle(x) /\ e # Contra(Settle(x))
    BY <2>1, NamesDiffer
  <2>2. Delivered' = Delivered \union {i} /\ i \notin Delivered
    BY <2>0, <2>1, ForceMoves, InForce, OriginalsAreNot
  <2>3. Redeemed' = Redeemed /\ StillSettled' = StillSettled
    BY <2>0, <2>1, ForceMoves, InForce, OriginalsAreNot
  <2>4. IsFiniteSet(Delivered') /\ SumFunctionOnSet(Units, Delivered') = D + Units[i]
    BY <1>1, <1>5, <2>2, OneMore
  <2>5. /\ Moves(e, "circulation") - Moves(e, "suspense") = Issued(i)
        /\ Moves(e, "reserve") * 10000 - Moves(e, "circulation") = 0
    BY <1>4, <2>1, OriginalsAreNot, Effects, Worth DEF Lines, Account
  <2> QED BY <1>1, <2>3, <2>4, <2>5, Worth
<1>8. CASE \E i \in Issuances : e = Contra(Deliver(i))
  <2>1. PICK i \in Issuances : e = Contra(Deliver(i))
    BY <1>8
  <2>0. /\ \A x \in Issuances : e # Deliver(x) /\ (e = Contra(Deliver(x)) <=> x = i)
        /\ \A x \in Redemptions : e # Redeem(x) /\ e # Contra(Redeem(x))
        /\ \A x \in Redemptions : e # Settle(x) /\ e # Contra(Settle(x))
    BY <2>1, NamesDiffer
  <2>2. Delivered' = Delivered \ {i} /\ i \in Delivered
    BY <2>0, <2>1, ForceMoves, InForce, OriginalsAreNot
  <2>3. Redeemed' = Redeemed /\ StillSettled' = StillSettled
    BY <2>0, <2>1, ForceMoves, InForce, OriginalsAreNot
  <2>4. IsFiniteSet(Delivered') /\ SumFunctionOnSet(Units, Delivered') = D - Units[i]
    BY <1>1, <1>5, <2>2, OneLess
  <2>5. /\ Moves(e, "circulation") - Moves(e, "suspense") = -Issued(i)
        /\ Moves(e, "reserve") * 10000 - Moves(e, "circulation") = 0
    BY <1>4, <2>1, OriginalsAreNot, Effects, Worth DEF Lines, Account
  <2> QED BY <1>1, <2>3, <2>4, <2>5, Worth
<1>9. CASE \E r \in Redemptions : e = Redeem(r)
  <2>1. PICK r \in Redemptions : e = Redeem(r)
    BY <1>9
  <2>0. /\ \A x \in Issuances : e # Deliver(x) /\ e # Contra(Deliver(x))
        /\ \A x \in Redemptions : e # Contra(Redeem(x)) /\ (e = Redeem(x) <=> x = r)
        /\ \A x \in Redemptions : e # Settle(x) /\ e # Contra(Settle(x))
    BY <2>1, NamesDiffer
  <2>2. Redeemed' = Redeemed \union {r} /\ r \notin Redeemed
    BY <2>0, <2>1, ForceMoves, InForce, OriginalsAreNot
  <2>3. Delivered' = Delivered /\ StillSettled' = StillSettled
    BY <2>0, <2>1, ForceMoves, InForce, OriginalsAreNot
  <2>4. IsFiniteSet(Redeemed') /\ SumFunctionOnSet(Amount, Redeemed') = R + Amount[r]
    BY <1>1, <1>5, <2>2, OneMore
  <2>5. /\ Moves(e, "circulation") - Moves(e, "suspense") = -Amount[r]
        /\ Moves(e, "reserve") * 10000 - Moves(e, "circulation") = 0
    BY <1>4, <2>1, OriginalsAreNot, Effects, Worth DEF Lines, Account
  <2> QED BY <1>1, <2>3, <2>4, <2>5, Worth
<1>10. CASE \E r \in Redemptions : e = Contra(Redeem(r))
  <2>1. PICK r \in Redemptions : e = Contra(Redeem(r))
    BY <1>10
  <2>0. /\ \A x \in Issuances : e # Deliver(x) /\ e # Contra(Deliver(x))
        /\ \A x \in Redemptions : e # Redeem(x) /\ (e = Contra(Redeem(x)) <=> x = r)
        /\ \A x \in Redemptions : e # Settle(x) /\ e # Contra(Settle(x))
    BY <2>1, NamesDiffer
  <2>2. Redeemed' = Redeemed \ {r} /\ r \in Redeemed
    BY <2>0, <2>1, ForceMoves, InForce, OriginalsAreNot
  <2>3. Delivered' = Delivered /\ StillSettled' = StillSettled
    BY <2>0, <2>1, ForceMoves, InForce, OriginalsAreNot
  <2>4. IsFiniteSet(Redeemed') /\ SumFunctionOnSet(Amount, Redeemed') = R - Amount[r]
    BY <1>1, <1>5, <2>2, OneLess
  <2>5. /\ Moves(e, "circulation") - Moves(e, "suspense") = Amount[r]
        /\ Moves(e, "reserve") * 10000 - Moves(e, "circulation") = 0
    BY <1>4, <2>1, OriginalsAreNot, Effects, Worth DEF Lines, Account
  <2> QED BY <1>1, <2>3, <2>4, <2>5, Worth
<1>11. CASE \E r \in Redemptions : e = Settle(r)
  <2>1. PICK r \in Redemptions : e = Settle(r)
    BY <1>11
  <2>0. /\ \A x \in Issuances : e # Deliver(x) /\ e # Contra(Deliver(x))
        /\ \A x \in Redemptions : e # Redeem(x) /\ e # Contra(Redeem(x))
        /\ \A x \in Redemptions : e # Contra(Settle(x)) /\ (e = Settle(x) <=> x = r)
    BY <2>1, NamesDiffer
  <2>2. StillSettled' = StillSettled \union {r} /\ r \notin StillSettled
    BY <2>0, <2>1, ForceMoves, InForce, OriginalsAreNot
  <2>3. Delivered' = Delivered /\ Redeemed' = Redeemed
    BY <2>0, <2>1, ForceMoves, InForce, OriginalsAreNot
  <2>4. IsFiniteSet(StillSettled') /\ SumFunctionOnSet(Dust, StillSettled') = U + Dust[r]
    BY <1>1, <1>5, <2>2, OneMore
  <2>5. /\ Moves(e, "circulation") - Moves(e, "suspense") = 0
        /\ Moves(e, "reserve") * 10000 - Moves(e, "circulation") = Dust[r]
    BY <1>4, <2>1, OriginalsAreNot, Effects, Worth DEF Lines, Account
  <2> QED BY <1>1, <2>3, <2>4, <2>5, Worth
<1>12. CASE \E r \in Redemptions : e = Contra(Settle(r))
  <2>1. PICK r \in Redemptions : e = Contra(Settle(r))
    BY <1>12
  <2>0. /\ \A x \in Issuances : e # Deliver(x) /\ e # Contra(Deliver(x))
        /\ \A x \in Redemptions : e # Redeem(x) /\ e # Contra(Redeem(x))
        /\ \A x \in Redemptions : e # Settle(x) /\ (e = Contra(Settle(x)) <=> x = r)
    BY <2>1, NamesDiffer
  <2>2. StillSettled' = StillSettled \ {r} /\ r \in StillSettled
    BY <2>0, <2>1, ForceMoves, InForce, OriginalsAreNot
  <2>3. Delivered' = Delivered /\ Redeemed' = Redeemed
    BY <2>0, <2>1, ForceMoves, InForce, OriginalsAreNot
  <2>4. IsFiniteSet(StillSettled') /\ SumFunctionOnSet(Dust, StillSettled') = U - Dust[r]
    BY <1>1, <1>5, <2>2, OneLess
  <2>5. /\ Moves(e, "circulation") - Moves(e, "suspense") = 0
        /\ Moves(e, "reserve") * 10000 - Moves(e, "circulation") = -Dust[r]
    <3>1. \A a \in Account : Moves(e, a) = -Effect(Settle(r))[a]
      BY <1>4, <2>1, OriginalsAreNot
    <3>2. /\ Effect(Settle(r))["circulation"] = -Amount[r]
          /\ Effect(Settle(r))["suspense"] = -Amount[r]
          /\ Effect(Settle(r))["reserve"] = -Released(r)
      BY Effects DEF Lines
    <3>3. /\ Moves(e, "circulation") = -(-Amount[r]) /\ Moves(e, "suspense") = -(-Amount[r])
          /\ Moves(e, "reserve") = -(-Released(r))
      BY <3>1, <3>2 DEF Account
    <3>4. Amount[r] \in Int /\ Released(r) \in Int /\ Dust[r] = Amount[r] - Released(r) * 10000
      BY Worth
    <3> QED BY <3>3, <3>4
  <2> QED BY <1>1, <2>3, <2>4, <2>5, Worth
<1> QED BY <1>6, <1>7, <1>8, <1>9, <1>10, <1>11, <1>12, FourOriginals DEF Entries


-----------------------------------------------------------------------------
(* The invariant, and what follows from it.                                *)

\* The invariant holds in every state, whatever is issued, redeemed, settled
\* and reversed, by however many calls.
THEOREM Invariance == Spec => []IInv
<1> DEFINE Fin == IsFiniteSet(minted) /\ IsFiniteSet(burned)
           I == TypeOK /\ KeyNamesEntry /\ ContrasFollow /\ SeenIsCurrent /\ Fin /\ SumsHold
<1>1. Init => I
  <2> SUFFICES ASSUME Init PROVE I
    OBVIOUS
  <2>1. TypeOK
    <3>1. Len(Sources) = 4 /\ << >> \in Seq(Int) /\ Len(<< >>) = 0
      BY DEF Sources
    <3>2. seen \in Seq(Int) /\ Len(seen) <= Len(Sources)
      BY <3>1 DEF Init
    <3>3. moved \in BOOLEAN
      BY DEF Init
    <3> QED BY <3>2, <3>3, RedemptionInputs DEF Init, TypeOK, Account
  <2>2. KeyNamesEntry /\ ContrasFollow /\ SeenIsCurrent /\ Fin
    BY FS_EmptySet DEF Init, KeyNamesEntry, ContrasFollow, Posted, SeenIsCurrent
  <2> QED BY <2>1, <2>2, SumsInit
<1>2. I /\ [Next]_vars => I'
  <2> SUFFICES ASSUME I, [Next]_vars PROVE I'
    OBVIOUS
  <2>1. TypeOK'
    BY TypesKept
  <2>2. KeyNamesEntry' /\ ContrasFollow' /\ SeenIsCurrent'
    BY StepFiles, OrderKept, SeenKept
  <2>3. Fin'
    <3>1. CASE UNCHANGED chains
      BY <3>1 DEF chains
    <3>2. CASE (\E i \in Issuances : Mint(i)) \/ (\E r \in Redemptions : Burn(r))
      BY <3>2, FS_AddElement DEF Mint, Burn
    <3> QED
      BY <3>1, <3>2
         DEF Next, vars, PostIssue, PostDeliver, PostRedeem, Read, PostSettlement,
             PostContra, Flag, Abandon, ReadNext, Tick
  <2>4. SumsHold'
    <3>1. CASE UNCHANGED books
      BY <3>1
         DEF books, SumsHold, InTransitExplained, SurplusIsDust, Surplus, Delivered, Redeemed,
             StillSettled, Settled, Live, Posted
    <3> QED BY <2>1, <3>1, SumsKept, StepRecords
  <2> QED BY <2>1, <2>2, <2>3, <2>4
<1>3. I => IInv
  BY DEF IInv, SumsHold
<1> HIDE DEF I
<1> QED BY <1>1, <1>2, <1>3, PTL DEF Spec

\* The rows of the journal, the progress of the calls and the readings of a
\* check are what they are declared to be (TypeOK).
THEOREM TypeCorrect == Spec => []TypeOK
<1>1. IInv => TypeOK
  BY DEF IInv
<1> QED BY <1>1, Invariance, PTL

\* USD-X is backed, to within a cent for each settlement in force, whatever the
\* amounts and the fees (BackedWithinRounding).
THEOREM BackingHolds == Spec => []BackedWithinRounding
<1>1. IInv => BackedWithinRounding
  <2> SUFFICES ASSUME IInv PROVE BackedWithinRounding
    OBVIOUS
  <2> DEFINE Most == [r \in Redemptions |-> Cent - 1]
  <2>1. /\ IsFiniteSet(StillSettled) /\ StillSettled \subseteq Redemptions
        /\ Surplus = SumFunctionOnSet(Dust, StillSettled)
    BY DEF IInv, SurplusIsDust, StillSettled, Settled
  <2>2. \A r \in StillSettled :
          Dust[r] \in Nat /\ Most[r] = Cent - 1 /\ Dust[r] <= Cent - 1 /\ Cent - 1 \in Nat
    <3>1. Cent - 1 = 9999
      BY DEF Cent, USDXDecimals, PegDecimals
    <3>2. \A r \in Redemptions : Dust[r] \in 0..Cent - 1
      BY Worth
    <3> QED BY <2>1, <3>1, <3>2
  <2>3. SumFunctionOnSet(Dust, StillSettled) \in Nat
    BY <2>1, <2>2, SumIsNat
  <2>4. SumFunctionOnSet(Dust, StillSettled) <= SumFunctionOnSet(Most, StillSettled)
    <3> HIDE DEF Most
    <3> QED BY <2>1, <2>2, SumIsBounded
  <2>5. SumFunctionOnSet(Most, StillSettled) = (Cent - 1) * Cardinality(StillSettled)
    <3>1. Cent - 1 \in Int
      BY DEF Cent, USDXDecimals, PegDecimals
    <3> HIDE DEF Most
    <3> QED BY <2>1, <2>2, <3>1, SumOfEqual
  <2> QED BY <2>1, <2>3, <2>4, <2>5 DEF BackedWithinRounding
<1> QED BY <1>1, Invariance, PTL

\* A check that nothing has disturbed finds books and chains in agreement when
\* there is no loose end (LegAExplained): Leg A raises no false alarm.
THEOREM LegAHolds == Spec => []LegAExplained
<1>1. IInv => LegAExplained
  <2> SUFFICES ASSUME IInv, Complete, ~moved, ~LooseEnd PROVE LegA
    BY DEF LegAExplained
  <2>1. Len(seen) = 4 /\ \A k \in 1..4 : seen[k] = Current(Sources[k])
    BY DEF IInv, SeenIsCurrent, Complete, Sources
  <2>2. /\ seen[1] = Supply /\ seen[2] = balance["circulation"] /\ seen[3] = balance["suspense"]
    BY <2>1 DEF Current, Sources
  <2>3. Supply = balance["circulation"] - balance["suspense"]
    BY DEF IInv, InTransitExplained, Supply, LooseEnd
  <2> QED BY <2>2, <2>3 DEF LegA, ExpectedOnChain
<1> QED BY <1>1, Invariance, PTL

-----------------------------------------------------------------------------
(* A reversal that is on record is final.                                  *)

\* A flag that is set stays set, and a confirmation does not get past it.
LEMMA FlagHolds ==
  ASSUME TypeOK, [Next]_vars
  PROVE  /\ reversed \subseteq reversed'
         /\ \A c \in Calls :
              call'[c] = "read" /\ call[c] # "read" => Of(c) \notin reversed
<1>1. CASE UNCHANGED <<reversed, call>>
  BY <1>1
<1>2. ASSUME NEW c \in Calls, reversed \subseteq reversed', NEW pc, At(c, pc),
             pc = "read" => Of(c) \notin reversed
      PROVE  /\ reversed \subseteq reversed'
             /\ \A d \in Calls :
                  call'[d] = "read" /\ call[d] # "read" => Of(d) \notin reversed
  BY <1>2 DEF At, TypeOK
<1>3. ASSUME NEW c \in Calls,
             Read(c) \/ PostSettlement(c) \/ PostContra(c) \/ Flag(c) \/ Abandon(c)
      PROVE  /\ reversed \subseteq reversed'
             /\ \A d \in Calls :
                  call'[d] = "read" /\ call[d] # "read" => Of(d) \notin reversed
  <2>1. CASE Read(c)
    BY <1>2, <2>1 DEF Read, Refused
  <2>2. CASE PostSettlement(c) \/ PostContra(c) \/ Flag(c) \/ Abandon(c)
    BY <1>2, <2>2 DEF PostSettlement, PostContra, Flag, Abandon
  <2> QED
    BY <1>3, <2>1, <2>2
<1> QED
  BY <1>1, <1>3
     DEF Next, vars, PostIssue, Mint, PostDeliver, PostRedeem, Burn, ReadNext, Tick

\* Once the reversal of a redemption is on record and every confirmation that
\* began before has ended, no confirmation begins and none releases its fiat.
THEOREM ReversalFinal == Spec => ReversedStaysUnpaid
<1>1. ASSUME KeyNamesEntry, [Next]_vars, NEW r \in Redemptions, CalledOff(r)
      PROVE  r \notin Settled'
  <2>1. \A t \in journal : t.entry # Settle(r)
    BY <1>1 DEF CalledOff, Settled, Posted
  <2>2. SUFFICES \A t \in journal' : t.entry # Settle(r)
    BY DEF Settled, Posted
  <2>3. Grows
    BY <1>1, StepFiles
  <2>4. CASE journal' = journal
    BY <2>1, <2>4
  <2>5. ASSUME NEW c \in Calls, Confirms(c), call[c] = "read",
               journal' = journal \union
                 {[key |-> Settle(Of(c)[2]), entry |-> Settle(Of(c)[2])]}
        PROVE  \A t \in journal' : t.entry # Settle(r)
    <3>1. Of(c) # Redeem(r)
      BY <1>1, <2>5 DEF CalledOff
    <3>2. Of(c)[2] # r
      BY <2>5, <3>1, TaskOfConfirm
    <3>3. Settle(Of(c)[2]) # Settle(r)
      BY <3>2 DEF Settle
    <3> QED
      BY <2>1, <2>5, <3>3
  <2>6. ASSUME NEW e, \A s \in Redemptions : e # Settle(s),
               journal' = journal \union {[key |-> e, entry |-> e]}
        PROVE  \A t \in journal' : t.entry # Settle(r)
    BY <2>1, <2>6
  <2> QED
    BY <2>3, <2>4, <2>5, <2>6 DEF Grows
<1>2. ASSUME TypeOK, [Next]_vars, NEW r \in Redemptions, CalledOff(r)
      PROVE  /\ Redeem(r) \in reversed'
             /\ \A c \in Calls : Confirms(c) /\ Of(c) = Redeem(r) => call'[c] # "read"
  BY <1>2, FlagHolds DEF CalledOff
<1>3. KeyNamesEntry /\ TypeOK /\ [Next]_vars
        => [\A r \in Redemptions : CalledOff(r) => CalledOff(r)']_vars
  BY <1>1, <1>2 DEF CalledOff, Confirms, Of
<1> QED
  BY <1>3, Filed, TypeCorrect, PTL DEF Spec, ReversedStaysUnpaid
=============================================================================
