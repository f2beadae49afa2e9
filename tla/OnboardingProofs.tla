-------------------------- MODULE OnboardingProofs --------------------------
(***************************************************************************)
(* What is proved of Onboarding, for any number of requests, subjects and  *)
(* organisations, any faults and any number of logins: one party, one      *)
(* organisation and one wallet, whoever raced whom.                        *)
(*                                                                         *)
(* Tables only grow, so what a request, the cache or an answer has learnt  *)
(* stays true; the invariant says what each of them has learnt.            *)
(***************************************************************************)
EXTENDS Onboarding, TLAPS

Grown == parties \subseteq parties' /\ orgs \subseteq orgs' /\ wallets \subseteq wallets'

\* What is known of a subject stays true while the tables grow.
LEMMA SoundStays ==
  ASSUME Grown, NEW s, NEW id, NEW o, Sound(s, id, o)
  PROVE  Sound(s, id, o)'
BY DEF Grown, Sound

\* No label is lost by moving another request on.
Moves(p) ==
  /\ \A q \in Requests \ {p} :
       /\ pc'[q] = pc[q] /\ subject'[q] = subject[q]
       /\ party'[q] = party[q] /\ org'[q] = org[q]

\* The sessions of the others are untouched by a step of p.
LEMMA OthersKept ==
  ASSUME IInv, Grown, NEW p \in Requests, Moves(p), SessionSound(p)'
  PROVE  \A q \in Requests : SessionSound(q)'
BY SoundStays DEF IInv, Moves, SessionSound

\* At the start nobody knows anything.
LEMMA InitSound == Init => IInv
BY OnboardingInputs
   DEF Init, IInv, TypeOK, UniqueRows, MembersSound, AnswersSound, SessionSound, Labels

\* A request that is over knows nothing, and the tables are as they were.
LEMMA EndsKept ==
  ASSUME IInv, NEW p \in Requests, Ends(p)
  PROVE  /\ Moves(p) /\ SessionSound(p)'
         /\ pc' \in [Requests -> Labels]
         /\ subject' \in [Requests -> Subjects \union {None}]
         /\ party' \in [Requests -> PartyId \union {None}]
         /\ org' \in [Requests -> OrgId \union {None}]
         /\ caller' \in [Requests -> {"identity", "bff"}]
         /\ gone' \in [Requests -> BOOLEAN]
BY DEF IInv, TypeOK, Ends, Goto, Moves, SessionSound, Labels

\* A step that only moves p on, to a label its knowledge suffices for.
LEMMA GotoKept ==
  ASSUME IInv, Grown, NEW p \in Requests, NEW label \in Labels, Goto(p, label),
         UNCHANGED known, SessionSound(p)'
  PROVE  /\ pc' \in [Requests -> Labels]
         /\ \A q \in Requests : SessionSound(q)'
<1>1. pc' \in [Requests -> Labels] /\ Moves(p)
  BY DEF IInv, TypeOK, Goto, Moves, known
<1> QED
  BY <1>1, OthersKept

\* A step that leaves the tables alone keeps their invariants.
LEMMA TablesStay ==
  ASSUME IInv, UNCHANGED <<identity, wallets>>
  PROVE  UniqueRows' /\ MembersSound' /\ Grown
BY DEF IInv, identity, UniqueRows, MembersSound, Sound, Grown

\* What one step leaves of the budget.
LEMMA SpendKept ==
  ASSUME IInv, UNCHANGED budget \/ Spend
  PROVE  UNCHANGED logins /\ left' \in 0..MaxFaults
BY OnboardingInputs DEF IInv, TypeOK, budget, Spend

\* Answers given before stay sound while the tables grow.
LEMMA AnswersStay ==
  ASSUME IInv, Grown, UNCHANGED <<cache, headers, shown>>
  PROVE  AnswersSound'
BY SoundStays DEF IInv, AnswersSound, Grown, TypeOK

-----------------------------------------------------------------------------
(* One lemma per operation.                                                *)

\* A request that has just come knows only whose token it carries.
LEMMA ReceiveKept ==
  ASSUME IInv, NEW p \in Requests, NEW s \in Subjects, Receive(p, s)
  PROVE  IInv'
<1>1. UniqueRows' /\ MembersSound' /\ Grown
  BY TablesStay DEF Receive, ledger
<1>2. AnswersSound'
  BY <1>1, AnswersStay DEF Receive, ledger
<1>3. TypeOK'
  <2>1. logins' \in 0..MaxLogins
    BY OnboardingInputs DEF IInv, TypeOK, Receive
  <2> QED
    BY <2>1 DEF IInv, TypeOK, Receive, Goto, identity, ledger, Labels
<1>4. SessionSound(p)'
  BY DEF IInv, TypeOK, SessionSound, Receive, Goto
<1>5. Moves(p)
  BY DEF IInv, TypeOK, Moves, Receive, Goto
<1> QED
  BY <1>1, <1>2, <1>3, <1>4, <1>5, OthersKept DEF IInv

\* The headers of an admitted request are as sound as the resolution it is
\* admitted on.
LEMMA AdmitKept ==
  ASSUME IInv, NEW p \in Requests, NEW r \in Resolution, Admit(p, r),
         subject[p] \in Subjects, Sound(subject[p], r.party, r.org),
         UNCHANGED <<identity, ledger>>,
         cache' = cache \/ cache' = [cache EXCEPT ![subject[p]] = r],
         UNCHANGED logins, left' \in 0..MaxFaults
  PROVE  IInv'
<1>1. UniqueRows' /\ MembersSound' /\ Grown
  BY TablesStay DEF ledger
<1>2. TypeOK'
  <2>1. r.party \in PartyId /\ r.org \in OrgId \union {None}
    BY DEF Resolution
  <2>2. headers' \subseteq [subject : Subjects, party : PartyId, org : OrgId \union {None}]
    BY <2>1 DEF IInv, TypeOK, Admit
  <2>3. cache' \in [Subjects -> Resolution \union {None}]
    BY DEF IInv, TypeOK
  <2> QED
    BY <2>1, <2>2, <2>3 DEF IInv, TypeOK, Admit, Goto, identity, ledger, Labels
<1>3. Sound(subject[p], r.party, r.org)'
  BY <1>1 DEF Admit, Grown, Sound
<1>4. AnswersSound'
  <2>1. \A h \in headers' : Sound(h.subject, h.party, h.org)'
    BY <1>1, <1>3, SoundStays DEF Admit, IInv, AnswersSound
  <2>2. (\A s \in Subjects : cache[s] # None => Sound(s, cache[s].party, cache[s].org))'
    <3>1. CASE cache' = cache
      BY <1>1, <3>1 DEF IInv, AnswersSound, Grown, Sound
    <3>2. CASE cache' = [cache EXCEPT ![subject[p]] = r]
      BY <1>1, <1>3, <3>2 DEF IInv, TypeOK, AnswersSound, Admit, Grown, Sound
    <3> QED
      BY <3>1, <3>2
  <2> QED
    BY <2>1, <2>2 DEF IInv, AnswersSound, ledger
<1>5. SessionSound(p)'
  BY <1>3, OnboardingInputs DEF IInv, TypeOK, SessionSound, Admit, Goto
<1>6. Moves(p)
  BY DEF IInv, TypeOK, Moves, Admit, Goto
<1> QED
  BY <1>1, <1>2, <1>4, <1>5, <1>6, OthersKept DEF IInv

\* What the cache has is sound, and a miss learns nothing.
LEMMA CacheGetKept ==
  ASSUME IInv, NEW p \in Requests, CacheGet(p)
  PROVE  IInv'
<1>1. subject[p] \in Subjects
  BY DEF IInv, SessionSound, CacheGet
<1>2. CASE cache[subject[p]] # None /\ Admit(p, cache[subject[p]]) /\ UNCHANGED budget
  <2>1. cache[subject[p]] \in Resolution
    BY <1>1, <1>2 DEF IInv, TypeOK
  <2>2. Sound(subject[p], cache[subject[p]].party, cache[subject[p]].org)
    BY <1>1, <1>2 DEF IInv, AnswersSound
  <2>3. UNCHANGED logins /\ left' \in 0..MaxFaults
    BY <1>2, SpendKept
  <2> QED
    BY <1>1, <1>2, <2>1, <2>2, <2>3, AdmitKept DEF CacheGet
<1>3. ASSUME Goto(p, "find"), UNCHANGED <<known, headers>>, UNCHANGED budget \/ Spend
      PROVE  IInv'
  <2>1. UniqueRows' /\ MembersSound' /\ Grown
    BY TablesStay DEF CacheGet, ledger
  <2>2. AnswersSound'
    BY <1>3, <2>1, AnswersStay DEF CacheGet, ledger
  <2>3. SessionSound(p)'
    BY <1>1, <1>3 DEF IInv, TypeOK, SessionSound, CacheGet, Goto, known
  <2>4. "find" \in Labels
    BY DEF Labels
  <2>5. pc' \in [Requests -> Labels] /\ \A q \in Requests : SessionSound(q)'
    BY <1>3, <2>1, <2>3, <2>4, GotoKept
  <2>6. UNCHANGED logins /\ left' \in 0..MaxFaults
    BY <1>3, SpendKept
  <2>7. TypeOK'
    BY <1>3, <2>5, <2>6 DEF IInv, TypeOK, CacheGet, identity, ledger, known
  <2> QED
    BY <2>1, <2>2, <2>5, <2>7 DEF IInv
<1> QED
  BY <1>2, <1>3 DEF CacheGet

\* What identity has answered is sound, so the cache may keep it.
LEMMA CacheSetKept ==
  ASSUME IInv, NEW p \in Requests, CacheSet(p)
  PROVE  IInv'
<1> DEFINE r == [party |-> party[p], org |-> org[p]]
<1>1. subject[p] \in Subjects /\ Sound(subject[p], r.party, r.org)
  BY DEF IInv, SessionSound, CacheSet
<1>2. r \in Resolution
  BY <1>1 DEF IInv, TypeOK, Sound, Resolution
<1>3. UNCHANGED logins /\ left' \in 0..MaxFaults
  BY SpendKept DEF CacheSet
<1>4. cache' = cache \/ cache' = [cache EXCEPT ![subject[p]] = r]
  BY DEF CacheSet
<1>5. Admit(p, r) /\ UNCHANGED <<identity, ledger>>
  BY DEF CacheSet
<1> HIDE DEF r
<1> QED
  BY <1>1, <1>2, <1>3, <1>4, <1>5, AdmitKept

\* A request ends, and nothing but the budget and the answers given has changed.
LEMMA OverKept ==
  ASSUME IInv, NEW p \in Requests, Ends(p), UNCHANGED <<identity, accounts, wallets, cache, headers>>,
         shown' \subseteq wallets,
         UNCHANGED logins, left' \in 0..MaxFaults
  PROVE  IInv'
<1>1. UniqueRows' /\ MembersSound' /\ Grown
  BY TablesStay
<1>2. AnswersSound'
  BY <1>1, SoundStays DEF IInv, AnswersSound, TypeOK
<1>3. TypeOK'
  BY EndsKept DEF IInv, TypeOK, identity
<1> QED
  BY <1>1, <1>2, <1>3, EndsKept, OthersKept DEF IInv

\* An entry less is no answer more.
LEMMA ExpireKept ==
  ASSUME IInv, NEW s \in Subjects, Expire(s)
  PROVE  IInv'
<1>1. UniqueRows' /\ MembersSound' /\ Grown
  BY TablesStay DEF Expire, ledger
<1>2. AnswersSound'
  BY <1>1, SoundStays DEF IInv, AnswersSound, TypeOK, Expire, ledger
<1>3. TypeOK'
  BY DEF IInv, TypeOK, Expire, identity, ledger, known, budget
<1>4. \A p \in Requests : SessionSound(p)'
  BY <1>1, SoundStays DEF IInv, SessionSound, Expire, known
<1> QED
  BY <1>1, <1>2, <1>3, <1>4 DEF IInv

\* An answer nobody waits for changes nothing.
LEMMA UnheardKept ==
  ASSUME IInv, NEW p \in Requests, Unheard(p)
  PROVE  IInv'
<1>1. UNCHANGED logins /\ left' \in 0..MaxFaults
  BY SpendKept DEF Unheard
<1>2. shown' \subseteq wallets
  BY DEF Unheard, ledger, IInv, AnswersSound
<1>3. Ends(p) /\ UNCHANGED <<identity, accounts, wallets, cache, headers>>
  BY DEF Unheard, ledger
<1> QED
  BY <1>1, <1>2, <1>3, OverKept

\* A row of parties is the party of its subject.
LEMMA FindBySubjectKept ==
  ASSUME IInv, NEW p \in Requests, FindBySubject(p)
  PROVE  IInv'
<1>1. UniqueRows' /\ MembersSound' /\ Grown
  BY TablesStay DEF FindBySubject, ledger
<1>2. AnswersSound'
  BY <1>1, AnswersStay DEF FindBySubject, ledger
<1>3. subject[p] \in Subjects /\ org[p] = None
  BY DEF IInv, SessionSound, FindBySubject
<1>4. CASE PartyOf(subject[p]) = {} /\ Goto(p, "insert") /\ UNCHANGED party
  <2>1. SessionSound(p)'
    BY <1>3, <1>4 DEF IInv, TypeOK, SessionSound, FindBySubject, Goto
  <2>2. TypeOK'
    BY <1>4 DEF IInv, TypeOK, FindBySubject, Goto, identity, ledger, budget, Labels
  <2>3. Moves(p)
    BY <1>4 DEF IInv, TypeOK, Moves, FindBySubject, Goto
  <2> QED
    BY <1>1, <1>2, <2>1, <2>2, <2>3, OthersKept DEF IInv
<1>5. ASSUME NEW r \in PartyOf(subject[p]),
             party' = [party EXCEPT ![p] = r.id], Goto(p, "primary")
      PROVE  IInv'
  <2>1. r \in parties /\ r = [subject |-> subject[p], id |-> r.id] /\ r.id \in PartyId
    BY DEF PartyOf, IInv, TypeOK
  <2>2. SessionSound(p)'
    BY <1>1, <1>3, <1>5, <2>1 DEF IInv, TypeOK, SessionSound, FindBySubject, Goto, Sound, Grown
  <2>3. TypeOK'
    BY <1>5, <2>1 DEF IInv, TypeOK, FindBySubject, Goto, identity, ledger, budget, Labels
  <2>4. Moves(p)
    BY <1>5 DEF IInv, TypeOK, Moves, FindBySubject, Goto
  <2> QED
    BY <1>1, <1>2, <2>2, <2>3, <2>4, OthersKept DEF IInv
<1> QED
  BY <1>4, <1>5 DEF FindBySubject

\* The row that is inserted is the first of its subject.
LEMMA InsertKept ==
  ASSUME IInv, NEW p \in Requests, Insert(p)
  PROVE  IInv'
<1>1. subject[p] \in Subjects /\ org[p] = None
  BY DEF IInv, SessionSound, Insert
<1>2. CASE PartyOf(subject[p]) = {} /\ NewParty(p)
  <2> DEFINE id == <<p, subject[p]>>
  <2> DEFINE row == [subject |-> subject[p], id |-> id]
  <2>1. id \in PartyId /\ id[2] = subject[p]
    BY <1>1 DEF PartyId
  <2>2. parties' = parties \union {row} /\ party' = [party EXCEPT ![p] = id]
    BY <1>2 DEF NewParty
  <2>3. row.subject = subject[p] /\ row.id = id /\ row \in [subject : Subjects, id : PartyId]
    BY <1>1, <2>1
  <2>4. \A q \in parties : q.subject # row.subject
    BY <1>2, <2>3 DEF PartyOf
  <2>5. Grown
    BY <2>2 DEF Grown, Insert, ledger
  <2>6. /\ pc' = [pc EXCEPT ![p] = AfterInsert(p)]
        /\ \/ AfterInsert(p) = "org" /\ OrgAttr[subject[p]] # None
           \/ AfterInsert(p) = "wallet"
    BY <1>2 DEF NewParty, Goto, AfterInsert
  <2> HIDE DEF id
  <2>7. SessionSound(p)'
    BY <1>1, <2>2, <2>6 DEF IInv, TypeOK, SessionSound, Insert, Sound
  <2> HIDE DEF row
  <2>8. UniqueRows'
    BY <2>1, <2>2, <2>3, <2>4 DEF IInv, UniqueRows, Insert, ledger
  <2>9. MembersSound'
    BY <2>5 DEF IInv, MembersSound, Insert, Grown, Sound
  <2>10. AnswersSound'
    BY <2>5, AnswersStay DEF Insert, ledger
  <2>11. TypeOK'
    BY <2>1, <2>2, <2>3, <2>6 DEF IInv, TypeOK, Insert, ledger, budget, Labels
  <2>12. Moves(p)
    BY <2>2, <2>6 DEF IInv, TypeOK, Moves, Insert
  <2> QED
    BY <2>5, <2>7, <2>8, <2>9, <2>10, <2>11, <2>12, OthersKept DEF IInv
<1>3. ASSUME NEW r \in PartyOf(subject[p]), party' = [party EXCEPT ![p] = r.id],
             Goto(p, "primary"), UNCHANGED parties
      PROVE  IInv'
  <2>1. r \in parties /\ r = [subject |-> subject[p], id |-> r.id] /\ r.id \in PartyId
    BY DEF PartyOf, IInv, TypeOK
  <2>2. UniqueRows' /\ MembersSound' /\ Grown
    BY <1>3, TablesStay DEF Insert, identity, ledger
  <2>3. AnswersSound'
    BY <2>2, AnswersStay DEF Insert, ledger
  <2>4. SessionSound(p)'
    BY <1>1, <1>3, <2>1 DEF IInv, TypeOK, SessionSound, Insert, Goto, Sound
  <2>5. TypeOK'
    BY <1>3, <2>1 DEF IInv, TypeOK, Insert, Goto, ledger, budget, Labels
  <2>6. Moves(p)
    BY <1>3 DEF IInv, TypeOK, Moves, Insert, Goto
  <2> QED
    BY <2>2, <2>3, <2>4, <2>5, <2>6, OthersKept DEF IInv
<1> QED
  BY <1>2, <1>3 DEF Insert

\* A party's id tells whose it is, so its membership is its subject's.
LEMMA PrimaryOrgKept ==
  ASSUME IInv, NEW p \in Requests, PrimaryOrg(p)
  PROVE  IInv'
<1>1. UniqueRows' /\ MembersSound' /\ Grown
  BY TablesStay DEF PrimaryOrg, ledger
<1>2. AnswersSound'
  BY <1>1, AnswersStay DEF PrimaryOrg, ledger
<1>3. subject[p] \in Subjects /\ Sound(subject[p], party[p], org[p])
  BY DEF IInv, SessionSound, PrimaryOrg
<1>4. party[p][2] = subject[p]
  BY <1>3 DEF Sound, IInv, UniqueRows
<1>5. \E o \in OrgId \union {None} : org' = [org EXCEPT ![p] = o] /\ Sound(subject[p], party[p], o)
  <2>1. CASE UNCHANGED org
    BY <1>3, <2>1 DEF IInv, TypeOK
  <2>2. ASSUME NEW m \in members, m.party = party[p], org' = [org EXCEPT ![p] = m.org]
        PROVE  m.org \in OrgId /\ Sound(subject[p], party[p], m.org)
    BY <1>4, <2>2 DEF IInv, TypeOK, MembersSound
  <2> QED
    BY <2>1, <2>2 DEF PrimaryOrg
<1>6. PICK o \in OrgId \union {None} :
        org' = [org EXCEPT ![p] = o] /\ Sound(subject[p], party[p], o)
  BY <1>5
<1>7. pc' = [pc EXCEPT ![p] = "remember"]
  BY DEF PrimaryOrg, Goto
<1>8. SessionSound(p)'
  BY <1>1, <1>3, <1>6, <1>7 DEF IInv, TypeOK, SessionSound, PrimaryOrg, Sound, Grown
<1>9. TypeOK'
  BY <1>6, <1>7 DEF IInv, TypeOK, PrimaryOrg, identity, ledger, budget, Labels
<1>10. Moves(p)
  BY <1>6, <1>7 DEF IInv, TypeOK, Moves, PrimaryOrg
<1> QED
  BY <1>1, <1>2, <1>8, <1>9, <1>10, OthersKept DEF IInv

\* The organisation of an attribute is inserted once and returned ever after.
LEMMA EnsureOrgKept ==
  ASSUME IInv, NEW p \in Requests, EnsureOrg(p)
  PROVE  IInv'
<1> DEFINE a == OrgAttr[subject[p]]
<1>1. subject[p] \in Subjects /\ Sound(subject[p], party[p], org[p]) /\ a \in Attrs
  BY OnboardingInputs DEF IInv, SessionSound, EnsureOrg
<1>2. pc' = [pc EXCEPT ![p] = "join"]
  BY DEF EnsureOrg, Goto
<1>3. \E o \in OrgId :
        /\ org' = [org EXCEPT ![p] = o]
        /\ [attr |-> a, id |-> o] \in orgs'
        /\ \/ UNCHANGED orgs
           \/ orgs' = orgs \union {[attr |-> a, id |-> o]} /\ OrgOf(a) = {}
  <2>1. CASE /\ OrgOf(a) = {} /\ orgs' = orgs \union {[attr |-> a, id |-> <<p, a>>]}
             /\ org' = [org EXCEPT ![p] = <<p, a>>]
    BY <1>1, <2>1 DEF OrgId
  <2>2. ASSUME NEW o \in OrgOf(a), org' = [org EXCEPT ![p] = o.id], UNCHANGED orgs
        PROVE  o.id \in OrgId /\ [attr |-> a, id |-> o.id] \in orgs'
    <3>1. o \in orgs /\ o = [attr |-> a, id |-> o.id] /\ o.id \in OrgId
      BY DEF OrgOf, IInv, TypeOK
    <3> QED
      BY <2>2, <3>1
  <2> QED
    BY <2>1, <2>2 DEF EnsureOrg
<1>4. PICK o \in OrgId :
        /\ org' = [org EXCEPT ![p] = o]
        /\ [attr |-> a, id |-> o] \in orgs'
        /\ \/ UNCHANGED orgs
           \/ orgs' = orgs \union {[attr |-> a, id |-> o]} /\ OrgOf(a) = {}
  BY <1>3
<1>5. Grown
  BY <1>4 DEF Grown, EnsureOrg, ledger
<1>6. o # None
  BY OnboardingInputs DEF OrgId
<1>7. SessionSound(p)'
  BY <1>1, <1>2, <1>4, <1>5, <1>6 DEF IInv, TypeOK, SessionSound, EnsureOrg, Sound, Grown
<1> HIDE DEF a
<1>8. UniqueRows'
  <2>1. \A q, r \in orgs' : q.attr = r.attr => q = r
    BY <1>4 DEF OrgOf, IInv, UniqueRows
  <2> QED
    BY <2>1 DEF IInv, UniqueRows, EnsureOrg, ledger
<1>9. MembersSound'
  BY <1>5 DEF IInv, MembersSound, EnsureOrg, Grown, Sound
<1>10. AnswersSound'
  BY <1>5, AnswersStay DEF EnsureOrg, ledger
<1>11. TypeOK'
  <2>1. orgs' \subseteq [attr : Attrs, id : OrgId]
    BY <1>1, <1>4 DEF IInv, TypeOK
  <2> QED
    BY <1>2, <1>4, <2>1 DEF IInv, TypeOK, EnsureOrg, ledger, budget, Labels
<1>12. Moves(p)
  BY <1>2, <1>4 DEF IInv, TypeOK, Moves, EnsureOrg
<1> QED
  BY <1>5, <1>7, <1>8, <1>9, <1>10, <1>11, <1>12, OthersKept DEF IInv

\* A party joins the organisation of its own subject.
LEMMA EnsureMembershipKept ==
  ASSUME IInv, NEW p \in Requests, EnsureMembership(p)
  PROVE  IInv'
<1> DEFINE m == [party |-> party[p], org |-> org[p]]
<1>1. subject[p] \in Subjects /\ Sound(subject[p], party[p], org[p]) /\ org[p] # None
  BY DEF IInv, SessionSound, EnsureMembership
<1>2. party[p] \in PartyId /\ org[p] \in OrgId /\ party[p][2] = subject[p]
  BY <1>1 DEF IInv, TypeOK, Sound, UniqueRows
<1>3. m.party = party[p] /\ m.org = org[p] /\ m \in [party : PartyId, org : OrgId]
  BY <1>2
<1>4. members' = members \union {m}
  BY DEF EnsureMembership
<1> HIDE DEF m
<1>5. Grown /\ UniqueRows'
  BY DEF Grown, EnsureMembership, ledger, IInv, UniqueRows
<1>6. MembersSound'
  BY <1>1, <1>2, <1>3, <1>4 DEF IInv, MembersSound, EnsureMembership, Sound
<1>7. AnswersSound'
  BY <1>5, AnswersStay DEF EnsureMembership, ledger
<1>8. SessionSound(p)'
  BY <1>1 DEF IInv, TypeOK, SessionSound, EnsureMembership, Goto, known, Sound
<1>9. TypeOK'
  BY <1>3, <1>4 DEF IInv, TypeOK, EnsureMembership, Goto, ledger, known, budget, Labels
<1>10. Moves(p)
  BY DEF IInv, TypeOK, Moves, EnsureMembership, Goto, known
<1> QED
  BY <1>5, <1>6, <1>7, <1>8, <1>9, <1>10, OthersKept DEF IInv

\* A wallet is shown as it is stored; then identity goes on to its answer, and
\* the BFF is done.
LEMMA ShownKept ==
  ASSUME IInv, NEW p \in Requests, pc[p] \in {"wallet", "reread"},
         NEW w \in WalletOf(party[p]), Shows(p, w.id), Ensured(p),
         UNCHANGED <<identity, accounts, wallets, cache, budget, headers>>
  PROVE  IInv'
<1>1. w \in wallets /\ w = [owner |-> party[p], id |-> w.id]
  BY DEF WalletOf, IInv, TypeOK
<1>2. shown' \subseteq wallets
  BY <1>1 DEF Shows, IInv, AnswersSound
<1>3. UNCHANGED logins /\ left' \in 0..MaxFaults
  BY SpendKept
<1>4. CASE Goto(p, "remember") /\ UNCHANGED known
  <2>1. UniqueRows' /\ MembersSound' /\ Grown
    BY TablesStay
  <2>2. AnswersSound'
    BY <1>2, <2>1 DEF IInv, AnswersSound, Grown, Sound
  <2>3. SessionSound(p)'
    BY <1>4, <2>1 DEF IInv, TypeOK, SessionSound, Goto, known, Sound, Grown
  <2>4. "remember" \in Labels
    BY DEF Labels
  <2>5. pc' \in [Requests -> Labels] /\ \A q \in Requests : SessionSound(q)'
    BY <1>4, <2>1, <2>3, <2>4, GotoKept
  <2>6. TypeOK'
    BY <1>2, <1>3, <1>4, <2>5 DEF IInv, TypeOK, identity, known
  <2> QED
    BY <2>1, <2>2, <2>5, <2>6 DEF IInv
<1>5. CASE Ends(p)
  BY <1>2, <1>3, <1>5, OverKept
<1> QED
  BY <1>4, <1>5 DEF Ensured

\* A wallet that is found is shown; without one the tables stay as they are.
LEMMA WalletForKept ==
  ASSUME IInv, NEW p \in Requests, WalletFor(p)
  PROVE  IInv'
<1>1. CASE Goto(p, "create") /\ UNCHANGED <<shown, known>>
  <2>1. UniqueRows' /\ MembersSound' /\ Grown
    BY TablesStay DEF WalletFor
  <2>2. AnswersSound'
    BY <1>1, <2>1, AnswersStay DEF WalletFor
  <2>3. SessionSound(p)'
    BY <1>1, <2>1 DEF IInv, TypeOK, SessionSound, WalletFor, Goto, known, Sound, Grown
  <2>4. "create" \in Labels
    BY DEF Labels
  <2>5. pc' \in [Requests -> Labels] /\ \A q \in Requests : SessionSound(q)'
    BY <1>1, <2>1, <2>3, <2>4, GotoKept
  <2>6. TypeOK'
    BY <1>1, <2>5 DEF IInv, TypeOK, WalletFor, identity, known, budget
  <2> QED
    BY <2>1, <2>2, <2>5, <2>6 DEF IInv
<1>2. ASSUME NEW w \in WalletOf(party[p]), Shows(p, w.id), Ensured(p)
      PROVE  IInv'
  BY <1>2, ShownKept DEF WalletFor
<1> QED
  BY <1>1, <1>2 DEF WalletFor

\* The wallet that is read again is a stored one.
LEMMA RereadKept ==
  ASSUME IInv, NEW p \in Requests, Reread(p)
  PROVE  IInv'
BY ShownKept DEF Reread

\* The wallet that is stored is the first of its owner.
LEMMA CreateWalletKept ==
  ASSUME IInv, NEW p \in Requests, CreateWallet(p)
  PROVE  IInv'
<1> DEFINE w == [owner |-> party[p], id |-> <<p, party[p]>>]
<1>1. subject[p] \in Subjects /\ Sound(subject[p], party[p], org[p])
  BY DEF IInv, SessionSound, CreateWallet
<1>2. party[p] \in PartyId
  BY <1>1 DEF IInv, TypeOK, Sound
<1>3. w.owner = party[p] /\ w \in [owner : PartyId, id : WalletId]
  BY <1>2 DEF WalletId
<1>4. /\ accounts' = accounts \union {w}
      /\ wallets' = IF WalletOf(party[p]) = {} THEN wallets \union {w} ELSE wallets
  BY DEF CreateWallet
<1>5. pc' = [pc EXCEPT ![p] = "reread"] /\ UNCHANGED <<identity, shown, cache, known, budget, headers>>
  BY DEF CreateWallet, Goto
<1> HIDE DEF w
<1>6. Grown
  BY <1>4, <1>5 DEF Grown, identity
<1>7. UniqueRows'
  <2>1. \A u, v \in wallets' : u.owner = v.owner => u = v
    BY <1>3, <1>4 DEF WalletOf, IInv, UniqueRows
  <2> QED
    BY <1>5, <2>1 DEF IInv, UniqueRows, identity
<1>8. MembersSound'
  BY <1>5 DEF IInv, MembersSound, Sound, identity
<1>9. AnswersSound'
  BY <1>5, <1>6, AnswersStay
<1>10. SessionSound(p)'
  BY <1>1, <1>5 DEF IInv, TypeOK, SessionSound, known, Sound, identity
<1>11. TypeOK'
  <2>1. /\ accounts' \subseteq [owner : PartyId, id : WalletId]
        /\ wallets' \subseteq [owner : PartyId, id : WalletId]
    BY <1>3, <1>4 DEF IInv, TypeOK
  <2> QED
    BY <1>5, <2>1 DEF IInv, TypeOK, identity, known, budget, Labels
<1>12. Moves(p)
  BY <1>5 DEF IInv, TypeOK, Moves, known
<1> QED
  BY <1>6, <1>7, <1>8, <1>9, <1>10, <1>11, <1>12, OthersKept DEF IInv

\* Whatever a request has done when it fails was sound before.
LEMMA FailKept ==
  ASSUME IInv, NEW p \in Requests, Fail(p)
  PROVE  IInv'
<1>1. UNCHANGED logins /\ left' \in 0..MaxFaults
  BY SpendKept DEF Fail
<1>2. CASE AtWallet(p) /\ Goto(p, "remember") /\ UNCHANGED known
  <2>1. UniqueRows' /\ MembersSound' /\ Grown
    BY TablesStay DEF Fail, ledger
  <2>2. AnswersSound'
    BY <2>1, AnswersStay DEF Fail, ledger
  <2>3. SessionSound(p)'
    BY <1>2, <2>1 DEF IInv, TypeOK, SessionSound, AtWallet, Goto, known, Sound, Grown
  <2>4. "remember" \in Labels
    BY DEF Labels
  <2>5. pc' \in [Requests -> Labels] /\ \A q \in Requests : SessionSound(q)'
    BY <1>2, <2>1, <2>3, <2>4, GotoKept
  <2>6. TypeOK'
    BY <1>1, <1>2, <2>5 DEF IInv, TypeOK, Fail, identity, ledger, known
  <2> QED
    BY <2>1, <2>2, <2>5, <2>6 DEF IInv
<1>3. CASE Ends(p)
  <2>1. shown' \subseteq wallets /\ UNCHANGED <<identity, accounts, wallets, cache, headers>>
    BY DEF Fail, ledger, IInv, AnswersSound
  <2> QED
    BY <1>1, <1>3, <2>1, OverKept
<1> QED
  BY <1>2, <1>3 DEF Fail

\* That nobody waits any more changes no table and no answer.
LEMMA TimeoutKept ==
  ASSUME IInv, NEW p \in Requests, Timeout(p)
  PROVE  IInv'
<1>1. UniqueRows' /\ MembersSound' /\ Grown
  BY TablesStay DEF Timeout, ledger
<1>2. AnswersSound'
  BY <1>1, AnswersStay DEF Timeout, ledger
<1>3. UNCHANGED logins /\ left' \in 0..MaxFaults
  BY SpendKept DEF Timeout
<1>4. TypeOK'
  <2>1. gone' \in [Requests -> BOOLEAN]
    BY Zenon DEF IInv, TypeOK, Timeout
  <2> QED
    BY <1>3, <2>1 DEF IInv, TypeOK, Timeout, identity, ledger
<1>5. \A q \in Requests : SessionSound(q)'
  BY <1>1, SoundStays DEF IInv, SessionSound, Timeout
<1> QED
  BY <1>1, <1>2, <1>4, <1>5 DEF IInv

\* The invariant is about nothing but the variables.
LEMMA StutterKept ==
  ASSUME IInv, UNCHANGED vars
  PROVE  IInv'
BY DEF IInv, vars, identity, ledger, known, budget, TypeOK, UniqueRows, MembersSound,
       AnswersSound, SessionSound, Sound

-----------------------------------------------------------------------------
(* The theorems.                                                           *)

\* Every step of every request keeps the invariant: what the tables, the cache
\* and the requests under way say of a subject agrees, for any number of them.
THEOREM Invariance == Spec => []IInv
<1>1. Init => IInv
  BY InitSound
<1>2. IInv /\ [Next]_vars => IInv'
  <2> SUFFICES ASSUME IInv, [Next]_vars PROVE IInv'
    OBVIOUS
  <2>1. ASSUME NEW p \in Requests, NEW s \in Subjects, Receive(p, s) PROVE IInv'
    BY <2>1, ReceiveKept
  <2>2. ASSUME NEW p \in Requests, CacheGet(p) \/ CacheSet(p) \/ Unheard(p) PROVE IInv'
    BY <2>2, CacheGetKept, CacheSetKept, UnheardKept
  <2>3. ASSUME NEW p \in Requests,
               \/ FindBySubject(p) \/ Insert(p) \/ PrimaryOrg(p)
               \/ EnsureOrg(p) \/ EnsureMembership(p)
        PROVE  IInv'
    BY <2>3, FindBySubjectKept, InsertKept, PrimaryOrgKept, EnsureOrgKept, EnsureMembershipKept
  <2>4. ASSUME NEW p \in Requests, WalletFor(p) \/ CreateWallet(p) \/ Reread(p) PROVE IInv'
    BY <2>4, WalletForKept, CreateWalletKept, RereadKept
  <2>5. ASSUME NEW p \in Requests, Fail(p) \/ Timeout(p) PROVE IInv'
    BY <2>5, FailKept, TimeoutKept
  <2>6. ASSUME NEW s \in Subjects, Expire(s) PROVE IInv'
    BY <2>6, ExpireKept
  <2>7. CASE UNCHANGED vars
    BY <2>7, StutterKept
  <2> QED
    BY <2>1, <2>2, <2>3, <2>4, <2>5, <2>6, <2>7 DEF Next, Step
<1> QED
  BY <1>1, <1>2, PTL DEF Spec

\* Tables, cache and requests hold values of their kind: none joins an
\* organisation, or asks for a wallet, without an id for it.
THEOREM TypeCorrect == Spec => []TypeOK
<1>1. IInv => TypeOK
  BY DEF IInv
<1> QED
  BY <1>1, Invariance, PTL

\* A subject is admitted as one party, however its first logins raced.
THEOREM OnePartyAlways == Spec => []OneParty
<1>1. IInv => OneParty
  <2> SUFFICES ASSUME IInv, NEW h \in headers, NEW i \in headers, h.subject = i.subject
               PROVE  h.party = i.party
    BY DEF OneParty
  <2> DEFINE row(x) == [subject |-> x.subject, id |-> x.party]
  <2>1. row(h) \in parties /\ row(i) \in parties /\ row(h).subject = row(i).subject
    BY DEF IInv, AnswersSound, Sound
  <2>2. row(h) = row(i)
    BY <2>1 DEF IInv, UniqueRows
  <2> QED
    BY <2>2
<1> QED
  BY <1>1, Invariance, PTL

\* Colleagues are told the same organisation, whoever came first.
THEOREM ColleaguesAlways == Spec => []ColleaguesShareOrg
<1>1. IInv => ColleaguesShareOrg
  <2> SUFFICES ASSUME IInv, NEW h \in headers, NEW i \in headers,
                      h.org # None, i.org # None, OrgAttr[h.subject] = OrgAttr[i.subject]
               PROVE  h.org = i.org
    BY DEF ColleaguesShareOrg
  <2> DEFINE row(x) == [attr |-> OrgAttr[x.subject], id |-> x.org]
  <2>1. row(h) \in orgs /\ row(i) \in orgs /\ row(h).attr = row(i).attr
    BY DEF IInv, AnswersSound, Sound
  <2>2. row(h) = row(i)
    BY <2>1 DEF IInv, UniqueRows
  <2> QED
    BY <2>2
<1> QED
  BY <1>1, Invariance, PTL

\* Whoever ensures a party's wallet is answered with the one that is stored.
THEOREM OneWalletAlways == Spec => []OneWallet
<1>1. IInv => OneWallet
  BY DEF IInv, AnswersSound, UniqueRows, OneWallet
<1> QED
  BY <1>1, Invariance, PTL

-----------------------------------------------------------------------------
(* A party that is made is seen through.                                   *)

\* What is complete stays complete.
LEMMA CompleteStays ==
  ASSUME parties \subseteq parties', members \subseteq members', wallets \subseteq wallets', NEW r
  PROVE  (Joined(r.subject) => Joined(r.subject)') /\ (Complete(r) => Complete(r)')
BY DEF Joined, PartyOf, Complete, WalletOf

\* Rows are added, none is taken away.
LEMMA RowsStay ==
  ASSUME [Next]_vars
  PROVE  parties \subseteq parties' /\ members \subseteq members' /\ wallets \subseteq wallets'
BY DEF Next, Receive, Step, CacheGet, CacheSet, Unheard, FindBySubject, Insert, NewParty, PrimaryOrg, EnsureOrg,
       EnsureMembership, WalletFor, CreateWallet, Reread, Fail, Timeout, Expire, vars, identity, ledger

\* A step of p leaves the others at work.
LEMMA OthersAtWork ==
  ASSUME NEW p \in Requests, [Next]_vars,
         \A q \in Requests \ {p} : pc'[q] = pc[q] /\ caller'[q] = caller[q] /\ party'[q] = party[q]
  PROVE  \A q \in Requests \ {p} : \A r : AtWork(q, r) => AtWork(q, r)'
<1>1. \A r : Joined(r.subject) => Joined(r.subject)'
  BY RowsStay, CompleteStays
<1> QED BY <1>1 DEF AtWork, Provisioning, AtWallet

\* What the steps of one request do to it.
LEMMA StepMoves ==
  ASSUME IInv, NEW p \in Requests, (\E s \in Subjects : Receive(p, s)) \/ Step(p) \/ Fail(p) \/ Timeout(p)
  PROVE  \A q \in Requests \ {p} : pc'[q] = pc[q] /\ caller'[q] = caller[q] /\ party'[q] = party[q]
BY DEF IInv, TypeOK, Receive, Step, CacheGet, CacheSet, Admit, Unheard, Ends, Goto, FindBySubject, Insert, NewParty,
       PrimaryOrg, EnsureOrg, EnsureMembership, WalletFor, CreateWallet, Reread, Ensured, Fail, Timeout, known

\* The BFF is only heard of at the wallet.
LEMMA CallerKept ==
  ASSUME IInv, CarriedOn, NEW p \in Requests,
         (\E s \in Subjects : Receive(p, s)) \/ Step(p) \/ Fail(p) \/ Timeout(p)
  PROVE  caller'[p] = "bff" => AtWallet(p)'
<1>1. /\ pc \in [Requests -> Labels] /\ caller \in [Requests -> {"identity", "bff"}]
      /\ caller[p] = "bff" => AtWallet(p)
  BY DEF IInv, TypeOK, CarriedOn
<1>2. CASE Receive(p, subject'[p]) \/ Step(p) \/ (\E s \in Subjects : Receive(p, s))
  BY <1>1, <1>2
  DEF Receive, Step, CacheGet, CacheSet, Admit, Unheard, Ends, Goto, FindBySubject, Insert, NewParty, AfterInsert,
      PrimaryOrg, EnsureOrg, EnsureMembership, WalletFor, CreateWallet, Reread, Ensured, known, AtWallet
<1>3. CASE Fail(p) \/ Timeout(p)
  BY <1>1, <1>3 DEF Fail, Timeout, Ends, Goto, known, AtWallet, InIdentity
<1> QED BY <1>2, <1>3

\* The request that makes a party goes on with it until it is complete.
LEMMA WorkGoesOn ==
  ASSUME IInv, CarriedOn, NEW p \in Requests, Step(p), ~Spend, NEW r \in parties, AtWork(p, r)
  PROVE  Complete(r)' \/ AtWork(p, r)'
<1>1. /\ pc \in [Requests -> Labels] /\ party \in [Requests -> PartyId \union {None}]
      /\ r.id = party[p]
  BY DEF IInv, TypeOK, AtWork
<1>2. caller[p] = "identity"
  BY DEF AtWork, Provisioning, IInv, TypeOK, CarriedOn, AtWallet
<1>3. [Next]_vars
  BY DEF Next
<1>4. (Joined(r.subject) => Joined(r.subject)') /\ (Complete(r) => Complete(r)')
  BY <1>3, RowsStay, CompleteStays
<1>5. pc[p] \in {"org", "join", "wallet", "create", "reread"}
  BY DEF AtWork, Provisioning, AtWallet
<1>6. CASE EnsureOrg(p)
  BY <1>1, <1>6 DEF EnsureOrg, Goto, AtWork, Provisioning, AtWallet
<1>7. CASE EnsureMembership(p)
  <2>1. [party |-> r.id, org |-> org[p]] \in members' /\ parties' = parties
    BY <1>1, <1>7 DEF EnsureMembership
  <2>2. Joined(r.subject)'
    BY <2>1 DEF Joined, PartyOf
  <2>3. pc'[p] = "wallet" /\ party' = party /\ caller' = caller
    BY <1>1, <1>7 DEF EnsureMembership, Goto, known
  <2> QED BY <1>1, <1>2, <2>2, <2>3 DEF AtWork, Provisioning, AtWallet
<1>8. CASE WalletFor(p) \/ Reread(p)
  <2>1. Joined(r.subject)
    BY <1>8 DEF WalletFor, Reread, AtWork, AtWallet
  <2>2. CASE WalletOf(party[p]) # {}
    BY <1>1, <1>4, <2>1, <2>2 DEF Complete
  <2>3. CASE WalletOf(party[p]) = {}
    <3>1. pc'[p] = "create" /\ party' = party /\ caller' = caller
      BY <1>1, <1>8, <2>3 DEF WalletFor, Reread, Goto, known
    <3> QED BY <1>1, <1>2, <1>4, <2>1, <3>1 DEF AtWork, Provisioning, AtWallet
  <2> QED BY <2>2, <2>3
<1>9. CASE CreateWallet(p)
  <2>1. pc'[p] = "reread" /\ party' = party /\ caller' = caller /\ Joined(r.subject)
    BY <1>1, <1>9 DEF CreateWallet, Goto, known, AtWork, AtWallet
  <2> QED BY <1>1, <1>2, <1>4, <2>1 DEF AtWork, Provisioning, AtWallet
<1>10. CASE CacheGet(p) \/ CacheSet(p) \/ Unheard(p) \/ FindBySubject(p) \/ Insert(p) \/ PrimaryOrg(p)
  BY <1>5, <1>10 DEF CacheGet, CacheSet, Unheard, FindBySubject, Insert, PrimaryOrg
<1> QED BY <1>6, <1>7, <1>8, <1>9, <1>10 DEF Step

\* A new party has the request that makes it.
LEMMA NewAtWork ==
  ASSUME IInv, CarriedOn, [Next]_vars, NEW r \in parties', r \notin parties
  PROVE  \E p \in Requests : AtWork(p, r)'
<1>1. PICK p \in Requests : Insert(p) /\ NewParty(p)
  BY DEF Next, Receive, Step, CacheGet, CacheSet, Unheard, FindBySubject, Insert, PrimaryOrg, EnsureOrg,
       EnsureMembership, WalletFor, CreateWallet, Reread, Fail, Timeout, Expire, vars, identity
<1>2. /\ r.subject = subject[p] /\ r.id = <<p, subject[p]>> /\ r \in parties'
      /\ party'[p] = r.id /\ pc'[p] = AfterInsert(p) /\ caller' = caller
  BY <1>1 DEF NewParty, Insert, Goto, IInv, TypeOK
<1>3. caller'[p] = "identity"
  BY <1>1, <1>2 DEF Insert, IInv, TypeOK, CarriedOn, AtWallet
<1>4. CASE OrgAttr[subject[p]] # None
  BY <1>2, <1>3, <1>4 DEF AfterInsert, AtWork, Provisioning, AtWallet
<1>5. CASE OrgAttr[subject[p]] = None
  <2>1. Joined(r.subject)'
    BY <1>2, <1>5 DEF Joined, PartyOf
  <2> QED BY <1>2, <1>3, <1>5, <2>1 DEF AfterInsert, AtWork, Provisioning, AtWallet
<1> QED BY <1>4, <1>5

LEMMA CarriedOnKept ==
  ASSUME IInv, CarriedOn, [Next]_vars
  PROVE  CarriedOn'
<1>1. \A r : Complete(r) => Complete(r)'
  BY RowsStay, CompleteStays
<1>2. ASSUME NEW p \in Requests, (\E s \in Subjects : Receive(p, s)) \/ Step(p) \/ Fail(p) \/ Timeout(p)
      PROVE  CarriedOn'
  <2>1. \A q \in Requests \ {p} : pc'[q] = pc[q] /\ caller'[q] = caller[q] /\ party'[q] = party[q]
    BY <1>2, StepMoves
  <2>2. \A q \in Requests : caller'[q] = "bff" => AtWallet(q)'
    BY <1>2, <2>1, CallerKept DEF CarriedOn, AtWallet
  <2>3. \A q \in Requests \ {p} : \A r : AtWork(q, r) => AtWork(q, r)'
    BY <2>1, OthersAtWork
  <2>4. ASSUME left' = MaxFaults, NEW r \in parties'
        PROVE  Complete(r)' \/ \E q \in Requests : AtWork(q, r)'
    <3>1. left = MaxFaults /\ ~Spend
      <4>1. left \in 0..MaxFaults /\ MaxFaults \in Nat
        BY OnboardingInputs DEF IInv, TypeOK
      <4>2. left' = left \/ Spend
        BY <1>2 DEF Receive, Step, CacheGet, CacheSet, Unheard, FindBySubject, Insert, PrimaryOrg, EnsureOrg,
             EnsureMembership, WalletFor, CreateWallet, Reread, Fail, Timeout, budget
      <4> QED BY <2>4, <4>1, <4>2 DEF Spend
    <3>2. CASE r \notin parties
      BY <3>2, <2>4, NewAtWork
    <3>3. CASE r \in parties /\ AtWork(p, r)
      <4>1. CASE Step(p)
        BY <3>1, <3>3, <4>1, WorkGoesOn
      <4>2. CASE \E s \in Subjects : Receive(p, s)
        BY <3>3, <4>2 DEF Receive, AtWork, Provisioning, AtWallet
      <4> QED BY <1>2, <3>1, <4>1, <4>2 DEF Fail, Timeout
    <3>4. CASE r \in parties /\ ~AtWork(p, r)
      BY <1>1, <2>3, <3>1, <3>4 DEF CarriedOn
    <3> QED BY <3>2, <3>3, <3>4
  <2> QED BY <2>2, <2>4 DEF CarriedOn
<1>3. CASE (\E s \in Subjects : Expire(s)) \/ UNCHANGED vars
  <2>1. UNCHANGED <<identity, ledger, pc, known, budget>>
    BY <1>3 DEF Expire, vars
  <2>2. \A q, r : AtWork(q, r)' <=> AtWork(q, r)
    BY <2>1 DEF AtWork, Provisioning, AtWallet, Joined, PartyOf, identity, known
  <2> QED BY <1>1, <2>1, <2>2 DEF CarriedOn, AtWallet, identity, known, budget
<1> QED BY <1>2, <1>3 DEF Next

\* Unless something fails, a party without its organisation or its wallet has
\* a request at work that will see to it.
THEOREM PartiesSeenThrough == Spec => []SeenThrough
<1>1. Init => CarriedOn
  BY DEF Init, CarriedOn
<1>2. IInv /\ CarriedOn /\ [Next]_vars => CarriedOn'
  BY CarriedOnKept
<1>3. CarriedOn => SeenThrough
  BY DEF CarriedOn, SeenThrough, Complete, AtWork
<1> QED BY <1>1, <1>2, <1>3, Invariance, PTL DEF Spec
=============================================================================
