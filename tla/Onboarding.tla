----------------------------- MODULE Onboarding -----------------------------
(***************************************************************************)
(* How a login becomes a party with an organisation and a wallet.  There   *)
(* is no sign-up: the auth proxy resolves the subject of each request      *)
(* (services/auth-proxy, resolver.go), identity creates what it has not    *)
(* seen before (services/identity, provisioning.service.ts), and both      *)
(* identity and the BFF's wallet list call EnsureWallet of the core ledger *)
(* (wallets.go).                                                           *)
(*                                                                         *)
(* A request goes its way one statement at a time; every table is the set  *)
(* of its rows.  Ids are random in the code, here a row has the id of the  *)
(* request that inserted it, and of whom it is for.                        *)
(***************************************************************************)
EXTENDS Naturals

CONSTANTS
  Requests,   \* HTTP requests under way at the same time
  Subjects,   \* Keycloak subjects
  Attrs,      \* values of Keycloak's org_id attribute
  OrgAttr,    \* per subject: its org_id, or None for a person
  None,       \* no organisation, no entry
  MaxLogins,  \* how many requests there are in all
  MaxFaults   \* how many calls may fail or time out

ASSUME OnboardingInputs ==
  /\ OrgAttr \in [Subjects -> Attrs \union {None}] /\ MaxLogins \in Nat /\ MaxFaults \in Nat
  /\ None \notin Attrs \union (Requests \X Subjects) \union (Requests \X Attrs)

PartyId == Requests \X Subjects
OrgId == Requests \X Attrs
WalletId == Requests \X PartyId

VARIABLES
  parties, orgs, members,   \* identity's tables
  accounts, wallets,        \* the core ledger's, as far as they go
  cache,       \* the auth proxy's Redis: per subject a resolution, or None
  pc,          \* the next statement of each request
  subject,     \* whose token it carries
  party, org,  \* what has been resolved of it
  caller,      \* who has called EnsureWallet: "identity" or "bff"
  gone,        \* has the auth proxy stopped waiting for identity?
  logins, left,   \* requests and faults still to come
  headers,     \* history: the X-User-Id and X-Org-Id of admitted requests
  shown        \* history: the wallets EnsureWallet has answered with

identity == <<parties, orgs, members>>
ledger == <<accounts, wallets, shown>>
known == <<subject, party, org, caller, gone>>
budget == <<logins, left>>
vars == <<identity, ledger, cache, pc, known, budget, headers>>

Resolution == [party : PartyId, org : OrgId \union {None}]

Init ==
  /\ parties = {} /\ orgs = {} /\ members = {}
  /\ accounts = {} /\ wallets = {} /\ shown = {} /\ headers = {}
  /\ cache = [s \in Subjects |-> None]
  /\ pc = [p \in Requests |-> "idle"]
  /\ subject = [p \in Requests |-> None]
  /\ party = [p \in Requests |-> None]
  /\ org = [p \in Requests |-> None]
  /\ caller = [p \in Requests |-> "identity"]
  /\ gone = [p \in Requests |-> FALSE]
  /\ logins = MaxLogins /\ left = MaxFaults

Goto(p, label) == pc' = [pc EXCEPT ![p] = label]

\* The request is over, and what was known of it forgotten.
Ends(p) ==
  /\ Goto(p, "idle")
  /\ subject' = [subject EXCEPT ![p] = None]
  /\ party' = [party EXCEPT ![p] = None]
  /\ org' = [org EXCEPT ![p] = None]
  /\ caller' = [caller EXCEPT ![p] = "identity"]
  /\ gone' = [gone EXCEPT ![p] = FALSE]

Spend == left > 0 /\ left' = left - 1 /\ UNCHANGED logins

PartyOf(s) == {r \in parties : r.subject = s}
OrgOf(a) == {o \in orgs : o.attr = a}
WalletOf(id) == {w \in wallets : w.owner = id}

(***************************************************************************)
(* The auth proxy and the BFF                                              *)
(***************************************************************************)
Receive(p, s) ==
  /\ pc[p] = "idle" /\ logins > 0 /\ Goto(p, "cached")
  /\ subject' = [subject EXCEPT ![p] = s]
  /\ logins' = logins - 1
  /\ UNCHANGED <<identity, ledger, cache, party, org, caller, gone, left, headers>>

\* The request is forwarded with its identity headers; the BFF ensures a wallet
\* before it lists them.
Admit(p, r) ==
  /\ headers' = headers \union {[subject |-> subject[p], party |-> r.party, org |-> r.org]}
  /\ party' = [party EXCEPT ![p] = r.party]
  /\ org' = [org EXCEPT ![p] = r.org]
  /\ caller' = [caller EXCEPT ![p] = "bff"]
  /\ Goto(p, "wallet")
  /\ UNCHANGED <<subject, gone>>

\* A cache that fails is a cache that misses.
CacheGet(p) ==
  /\ pc[p] = "cached"
  /\ \/ /\ cache[subject[p]] # None
        /\ Admit(p, cache[subject[p]]) /\ UNCHANGED budget
     \/ /\ cache[subject[p]] = None
        /\ Goto(p, "find") /\ UNCHANGED <<known, budget, headers>>
     \/ Spend /\ Goto(p, "find") /\ UNCHANGED <<known, headers>>
  /\ UNCHANGED <<identity, ledger, cache>>

CacheSet(p) ==
  LET r == [party |-> party[p], org |-> org[p]] IN
  /\ pc[p] = "remember" /\ ~gone[p]
  /\ Admit(p, r)
  /\ \/ cache' = [cache EXCEPT ![subject[p]] = r] /\ UNCHANGED budget
     \/ Spend /\ UNCHANGED cache
  /\ UNCHANGED <<identity, ledger>>

\* Nobody waits for identity's answer any more.
Unheard(p) ==
  /\ pc[p] = "remember" /\ gone[p] /\ Ends(p)
  /\ UNCHANGED <<identity, ledger, cache, budget, headers>>

\* Mutant: entries without a time to live.
NeverExpires(s) == FALSE /\ UNCHANGED vars

Expire(s) ==
  /\ cache[s] # None
  /\ cache' = [cache EXCEPT ![s] = None]
  /\ UNCHANGED <<identity, ledger, pc, known, budget, headers>>

(***************************************************************************)
(* resolveBySubject and provision                                          *)
(***************************************************************************)
FindBySubject(p) ==
  /\ pc[p] = "find"
  /\ \/ PartyOf(subject[p]) = {} /\ Goto(p, "insert") /\ UNCHANGED party
     \/ \E r \in PartyOf(subject[p]) :
          party' = [party EXCEPT ![p] = r.id] /\ Goto(p, "primary")
  /\ UNCHANGED <<identity, ledger, cache, subject, org, caller, gone, budget, headers>>

\* The winner goes on to the organisation, if it has one, and to the wallet.
AfterInsert(p) == IF OrgAttr[subject[p]] # None THEN "org" ELSE "wallet"

NewParty(p) ==
  /\ parties' = parties \union {[subject |-> subject[p], id |-> <<p, subject[p]>>]}
  /\ party' = [party EXCEPT ![p] = <<p, subject[p]>>]
  /\ Goto(p, AfterInsert(p))

\* Mutant: keycloak_subject is not unique.
InsertAnyway(p) ==
  /\ pc[p] = "insert" /\ NewParty(p)
  /\ UNCHANGED <<orgs, members, ledger, cache, subject, org, caller, gone, budget, headers>>

\* keycloak_subject is unique: whoever comes second re-reads the winner's row,
\* and answers with the organisation that has by then.
Insert(p) ==
  /\ pc[p] = "insert"
  /\ \/ PartyOf(subject[p]) = {} /\ NewParty(p)
     \/ \E r \in PartyOf(subject[p]) :
          /\ party' = [party EXCEPT ![p] = r.id]
          /\ Goto(p, "primary") /\ UNCHANGED parties
  /\ UNCHANGED <<orgs, members, ledger, cache, subject, org, caller, gone, budget, headers>>

PrimaryOrg(p) ==
  LET mine == {m \in members : m.party = party[p]} IN
  /\ pc[p] = "primary" /\ Goto(p, "remember")
  /\ \/ mine = {} /\ UNCHANGED org
     \/ \E m \in mine : org' = [org EXCEPT ![p] = m.org]
  /\ UNCHANGED <<identity, ledger, cache, subject, party, caller, gone, budget, headers>>

\* Mutant: no conflict clause and no unique org_id.
EnsureOrgAnew(p) ==
  LET a == OrgAttr[subject[p]] IN
  /\ pc[p] = "org" /\ Goto(p, "join")
  /\ orgs' = orgs \union {[attr |-> a, id |-> <<p, a>>]}
  /\ org' = [org EXCEPT ![p] = <<p, a>>]
  /\ UNCHANGED <<parties, members, ledger, cache, subject, party, caller, gone, budget, headers>>

\* ON CONFLICT DO UPDATE returns the row there is.
EnsureOrg(p) ==
  LET a == OrgAttr[subject[p]] IN
  /\ pc[p] = "org" /\ Goto(p, "join")
  /\ \/ /\ OrgOf(a) = {}
        /\ orgs' = orgs \union {[attr |-> a, id |-> <<p, a>>]}
        /\ org' = [org EXCEPT ![p] = <<p, a>>]
     \/ \E o \in OrgOf(a) : org' = [org EXCEPT ![p] = o.id] /\ UNCHANGED orgs
  /\ UNCHANGED <<parties, members, ledger, cache, subject, party, caller, gone, budget, headers>>

\* Mutant: an organisation is ensured and nobody joins it.
NotJoined(p) ==
  /\ pc[p] = "join" /\ Goto(p, "wallet")
  /\ UNCHANGED <<identity, ledger, cache, known, budget, headers>>

EnsureMembership(p) ==
  /\ pc[p] = "join" /\ Goto(p, "wallet")
  /\ members' = members \union {[party |-> party[p], org |-> org[p]]}
  /\ UNCHANGED <<parties, orgs, ledger, cache, known, budget, headers>>

(***************************************************************************)
(* EnsureWallet                                                            *)
(***************************************************************************)
\* identity goes on to answer the auth proxy, the BFF its client.
Ensured(p) ==
  \/ caller[p] = "identity" /\ Goto(p, "remember") /\ UNCHANGED known
  \/ caller[p] = "bff" /\ Ends(p)

Shows(p, id) == shown' = shown \union {[owner |-> party[p], id |-> id]}

WalletFor(p) ==
  /\ pc[p] = "wallet"
  /\ \/ WalletOf(party[p]) = {} /\ Goto(p, "create") /\ UNCHANGED <<shown, known>>
     \/ \E w \in WalletOf(party[p]) : Shows(p, w.id) /\ Ensured(p)
  /\ UNCHANGED <<identity, accounts, wallets, cache, budget, headers>>

\* One transaction: the account always, the wallet unless another has come first.
CreateWallet(p) ==
  LET w == [owner |-> party[p], id |-> <<p, party[p]>>] IN
  /\ pc[p] = "create" /\ Goto(p, "reread")
  /\ accounts' = accounts \union {w}
  /\ wallets' = IF WalletOf(party[p]) = {} THEN wallets \union {w} ELSE wallets
  /\ UNCHANGED <<identity, shown, cache, known, budget, headers>>

\* Mutant: the wallet is returned as it was made up, not as it was stored.
ReturnOwn(p) ==
  /\ pc[p] = "reread"
  /\ Shows(p, <<p, party[p]>>) /\ Ensured(p)
  /\ UNCHANGED <<identity, accounts, wallets, cache, budget, headers>>

Reread(p) ==
  /\ pc[p] = "reread"
  /\ \E w \in WalletOf(party[p]) : Shows(p, w.id) /\ Ensured(p)
  /\ UNCHANGED <<identity, accounts, wallets, cache, budget, headers>>

(***************************************************************************)
(* Faults                                                                  *)
(***************************************************************************)
AtWallet(p) == pc[p] \in {"wallet", "create", "reread"}

InIdentity(p) ==
  \/ pc[p] \in {"find", "insert", "primary", "org", "join"}
  \/ AtWallet(p) /\ caller[p] = "identity"

\* A statement or a call fails and the request with it: what it has done so far
\* stays.  identity only logs that the core ledger has failed.
Fail(p) ==
  /\ pc[p] # "idle" /\ Spend
  /\ \/ AtWallet(p) /\ caller[p] = "identity" /\ Goto(p, "remember") /\ UNCHANGED known
     \/ ~(AtWallet(p) /\ caller[p] = "identity") /\ Ends(p)
  /\ UNCHANGED <<identity, ledger, cache, headers>>

\* The auth proxy waits five seconds; identity does not notice.
Timeout(p) ==
  /\ InIdentity(p) /\ ~gone[p] /\ Spend
  /\ gone' = [gone EXCEPT ![p] = TRUE]
  /\ UNCHANGED <<identity, ledger, cache, pc, subject, party, org, caller, headers>>

Step(p) ==
  \/ CacheGet(p) \/ CacheSet(p) \/ Unheard(p)
  \/ FindBySubject(p) \/ Insert(p) \/ PrimaryOrg(p) \/ EnsureOrg(p) \/ EnsureMembership(p)
  \/ WalletFor(p) \/ CreateWallet(p) \/ Reread(p)

Next ==
  \/ \E p \in Requests, s \in Subjects : Receive(p, s)
  \/ \E p \in Requests : Step(p) \/ Fail(p) \/ Timeout(p)
  \/ \E s \in Subjects : Expire(s)

Spec == Init /\ [][Next]_vars

\* A request that has been received goes on, and entries expire.
FairSpec ==
  /\ Spec
  /\ \A p \in Requests : WF_vars(Step(p))
  /\ \A s \in Subjects : WF_vars(Expire(s))

(***************************************************************************)
(* Properties                                                              *)
(***************************************************************************)
Labels ==
  {"idle", "cached", "remember", "find", "insert", "primary", "org", "join",
   "wallet", "create", "reread"}

\* Every table holds rows of its kind, and every request values of theirs: none
\* joins an organisation, or asks for a wallet, without an id for it.
TypeOK ==
  /\ parties \subseteq [subject : Subjects, id : PartyId]
  /\ orgs \subseteq [attr : Attrs, id : OrgId]
  /\ members \subseteq [party : PartyId, org : OrgId]
  /\ accounts \subseteq [owner : PartyId, id : WalletId]
  /\ wallets \subseteq [owner : PartyId, id : WalletId]
  /\ cache \in [Subjects -> Resolution \union {None}]
  /\ pc \in [Requests -> Labels]
  /\ subject \in [Requests -> Subjects \union {None}]
  /\ party \in [Requests -> PartyId \union {None}]
  /\ org \in [Requests -> OrgId \union {None}]
  /\ caller \in [Requests -> {"identity", "bff"}] /\ gone \in [Requests -> BOOLEAN]
  /\ logins \in 0..MaxLogins /\ left \in 0..MaxFaults
  /\ headers \subseteq [subject : Subjects, party : PartyId, org : OrgId \union {None}]
  /\ shown \subseteq [owner : PartyId, id : WalletId]

\* However many first logins of one subject race, fail or are cached, every
\* request of it is admitted as the same party (parties.repository.ts:30).
OneParty ==
  \A h, i \in headers : h.subject = i.subject => h.party = i.party

\* Two subjects of one organisation are never told two organisations, whoever of
\* them came first (orgs.repository.ts:23).
ColleaguesShareOrg ==
  \A h, i \in headers :
    /\ h.org # None /\ i.org # None
    /\ OrgAttr[h.subject] = OrgAttr[i.subject]
    => h.org = i.org

\* "Two concurrent first-time requests both end up with the same wallet rather
\* than two" (wallets.go:18), and it is the stored one.
OneWallet ==
  /\ shown \subseteq wallets
  /\ \A v, w \in shown : v.owner = w.owner => v.id = w.id

\* "A wallet and the account behind it are created together or not at all": no
\* account is left without its wallet (wallets.go:10).
NoOrphanAccount == accounts \subseteq wallets

\* Whoever loses the race of two first logins takes the party for "already created
\* (and, below, wallet-provisioned)" by the winner (provisioning.service.ts:72).
LoserFindsWallet ==
  [][\A p \in Requests :
       pc[p] = "insert" /\ pc'[p] = "primary" => WalletOf(party'[p]) # {}]_vars

Joined(s) ==
  \E r \in PartyOf(s) :
    OrgAttr[s] # None => \E m \in members : m.party = r.id

Provisioning(p) ==
  \/ pc[p] \in {"org", "join"}
  \/ AtWallet(p) /\ caller[p] = "identity"

\* A party is made by one request, which sees it through: unless something
\* fails, a party without its organisation or wallet has that request at work
\* (provisioning.service.ts:78).
SeenThrough ==
  left = MaxFaults =>
    \A r \in parties :
      \/ Joined(r.subject) /\ WalletOf(r.id) # {}
      \/ \E p \in Requests : Provisioning(p) /\ party[p] = r.id

\* The loser of two first logins may be told of no organisation, and the cache
\* repeats it; once the membership exists that passes and does not come back
\* (resolver.go:99).
StaleAnswerFades ==
  \A s \in Subjects :
    OrgAttr[s] # None =>
      (Joined(s) ~> [](cache[s] # None => cache[s].org # None))

-----------------------------------------------------------------------------
(* The invariant behind the safety properties; see OnboardingProofs.       *)

\* The unique keys of the tables, and the id of a party tells whose it is.
UniqueRows ==
  /\ \A r, q \in parties : r.subject = q.subject => r = q
  /\ \A o, q \in orgs : o.attr = q.attr => o = q
  /\ \A v, w \in wallets : v.owner = w.owner => v = w
  /\ \A r \in parties : r.id[2] = r.subject

\* s is the party id, and is with the organisation o or none is known yet.
Sound(s, id, o) ==
  /\ [subject |-> s, id |-> id] \in parties
  /\ o # None => [attr |-> OrgAttr[s], id |-> o] \in orgs

MembersSound == \A m \in members : Sound(m.party[2], m.party, m.org)

\* What a request knows when it reaches its label.
SessionSound(p) ==
  /\ pc[p] # "idle" => subject[p] \in Subjects
  /\ pc[p] \in {"idle", "cached", "find", "insert"} => org[p] = None
  /\ pc[p] \notin {"idle", "cached", "find", "insert"} => Sound(subject[p], party[p], org[p])
  /\ pc[p] = "org" => OrgAttr[subject[p]] # None
  /\ pc[p] = "join" => org[p] # None

AnswersSound ==
  /\ \A s \in Subjects : cache[s] # None => Sound(s, cache[s].party, cache[s].org)
  /\ \A h \in headers : Sound(h.subject, h.party, h.org)
  /\ shown \subseteq wallets

IInv ==
  /\ TypeOK /\ UniqueRows /\ MembersSound /\ AnswersSound
  /\ \A p \in Requests : SessionSound(p)

\* Identity's requests come to the wallet by way of the organisation, and a
\* party is complete or has the request that made it at work.
Complete(r) == Joined(r.subject) /\ WalletOf(r.id) # {}
AtWork(p, r) == Provisioning(p) /\ party[p] = r.id /\ (AtWallet(p) => Joined(r.subject))
CarriedOn ==
  /\ \A p \in Requests : caller[p] = "bff" => AtWallet(p)
  /\ left = MaxFaults => \A r \in parties : Complete(r) \/ \E p \in Requests : AtWork(p, r)
=============================================================================
