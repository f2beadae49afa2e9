------------------------------ MODULE MCPortal ------------------------------
(***************************************************************************)
(* Instances, for TLC, of the path from the portal to the services: the    *)
(* logins behind the auth proxy, identity's replicas, and the portal's     *)
(* modules.  They share no variable, so a behaviour is about one of them,  *)
(* and the others stand still.                                             *)
(***************************************************************************)
EXTENDS Onboarding, Replica, Session, Channel, Lists, Feed, Conversion, TLC

CONSTANTS first, second, alice, bob, carol, acme, p1

\* Two of the users are of one company.
MCOrgAttr == [s \in Subjects |-> IF s = carol THEN None ELSE acme]

\* second has the newer image: it ships one migration more.
Images == first :> 1 @@ second :> 2

VARIABLE part

Parts == {"onboarding", "replica", "session", "channel", "lists", "feed", "conversion"}

portalVars == <<part, vars, replicaVars, sessionVars, channelVars, listVars, feedVars, conversionVars>>

PortalInit ==
  /\ part \in Parts
  /\ Init /\ ReplicaInit /\ SessionInit /\ ChannelInit /\ ListsInit /\ FeedInit /\ ConversionInit
  /\ part # "lists" => slice = "wallet"

\* Requests are alike, and so are alice and bob: every behaviour is, but for their
\* names, one whose first login is made by p1 and is not bob's.
FirstLogin == logins = MaxLogins => subject'[p1] \in Subjects \ {bob}

PortalNext ==
  /\ UNCHANGED part
  /\ \/ part = "onboarding" /\ Next /\ FirstLogin
        /\ UNCHANGED <<replicaVars, sessionVars, channelVars, listVars, feedVars, conversionVars>>
     \/ part = "replica" /\ ReplicaNext
        /\ UNCHANGED <<vars, sessionVars, channelVars, listVars, feedVars, conversionVars>>
     \/ part = "session" /\ SessionNext
        /\ UNCHANGED <<vars, replicaVars, channelVars, listVars, feedVars, conversionVars>>
     \/ part = "channel" /\ ChannelNext
        /\ UNCHANGED <<vars, replicaVars, sessionVars, listVars, feedVars, conversionVars>>
     \/ part = "lists" /\ ListsNext
        /\ UNCHANGED <<vars, replicaVars, sessionVars, channelVars, feedVars, conversionVars>>
     \/ part = "feed" /\ FeedNext
        /\ UNCHANGED <<vars, replicaVars, sessionVars, channelVars, listVars, conversionVars>>
     \/ part = "conversion" /\ ConversionNext
        /\ UNCHANGED <<vars, replicaVars, sessionVars, channelVars, listVars, feedVars>>

\* Each part is scheduled as its own specification says (FairSpec of Onboarding,
\* ReplicaFairness, ChannelFairness).
PortalFairness ==
  /\ \A p \in Requests : WF_vars(part = "onboarding" /\ Step(p))
  /\ \A s \in Subjects : WF_vars(part = "onboarding" /\ Expire(s))
  /\ \A r \in Replicas : WF_replicaVars(part = "replica" /\ BootStep(r))
  /\ \A s \in Sockets :
       /\ WF_channelVars(part = "channel" /\ Opens(s))
       /\ WF_channelVars(part = "channel" /\ FailsToOpen(s))
       /\ WF_channelVars(part = "channel" /\ Closes(s))
  /\ WF_channelVars(part = "channel" /\ \E s \in Sockets : TimerFires(s))

PortalSpec == PortalInit /\ [][PortalNext]_portalVars /\ PortalFairness

\* The liveness properties, each of the behaviours that are about its part:
\* StaleAnswerFades of Onboarding,
AnswersFade == part = "onboarding" => StaleAnswerFades

\* EveryReplicaServes of Replica,
ReplicaServes == part = "replica" => EveryReplicaServes

\* and Reconnects of Channel.
MonitorReconnects == part = "channel" => Reconnects
=============================================================================
