---------------------------- MODULE CoreSecurity ----------------------------
(***************************************************************************)
(* CoreSecurityManager (src/lib/security.ts): which announcements of other *)
(* peers are let through.  The rate limiter, the tracker of each peer's    *)
(* resources with its two maps, and the bans that warnings lead to.        *)
(*                                                                         *)
(* canAnnounceToDHT awaits the validator of the resource's protocol twice, *)
(* and other calls run meanwhile.  A deadline (the interval between        *)
(* announcements, the end of a temporary ban) passes at any moment.        *)
(***************************************************************************)
EXTENDS Naturals, FiniteSets

CONSTANTS
    RemotePeers,
    Resources,      \* pairs of a resource type and id
    ResourceTypes,
    TypeOf,         \* TypeOf[r]: the type of resource r
    Validated,      \* the types whose protocol has registered a validator
    Valid,          \* the resources whose data the validator accepts
    MaxPerPeer,     \* MAX_DHT_RESOURCES_PER_PEER
    MaxPerType,     \* MAX_DHT_RESOURCES_PER_TYPE_PER_PEER
    TempBanAt,      \* warnings that lead to a temporary ban, five in the code
    BanAt           \* warnings that lead to a ban for good, ten in the code

ASSUME CoreSecurityAssumption ==
    /\ TypeOf \in [Resources -> ResourceTypes]
    /\ Validated \subseteq ResourceTypes /\ Valid \subseteq Resources
    /\ IsFiniteSet(Resources)
    /\ MaxPerPeer \in Nat /\ MaxPerType \in Nat
    /\ TempBanAt \in Nat \ {0} /\ BanAt \in Nat \ {0} /\ TempBanAt <= BanAt

VARIABLES
    cooling,     \* the peers whose last announcement is too recent
    resources,   \* resources[p]: peerResources
    byType,      \* byType[p][t]: peerResourcesByType
    warnings,    \* warnings[p]: warningCount, which stops counting at BanAt
    banned,      \* blacklist
    tempBanned,  \* the peers with a temporary ban that has not ended
    announcing   \* calls of canAnnounceToDHT that await the validator

trackerVars == <<resources, byType>>
banVars == <<warnings, banned, tempBanned>>
securityVars == <<cooling, trackerVars, banVars, announcing>>

Announcing == [peer : RemotePeers, resource : Resources, asked : {"may", "valid"}]

SecurityTypeOK ==
    /\ cooling \subseteq RemotePeers
    /\ resources \in [RemotePeers -> SUBSET Resources]
    /\ byType \in [RemotePeers -> [ResourceTypes -> SUBSET Resources]]
    /\ warnings \in [RemotePeers -> 0 .. BanAt]
    /\ banned \subseteq RemotePeers /\ tempBanned \subseteq RemotePeers
    /\ announcing \subseteq Announcing

SecurityInit ==
    /\ cooling = {} /\ banned = {} /\ tempBanned = {} /\ announcing = {}
    /\ resources = [p \in RemotePeers |-> {}]
    /\ byType = [p \in RemotePeers |-> [t \in ResourceTypes |-> {}]]
    /\ warnings = [p \in RemotePeers |-> 0]

-----------------------------------------------------------------------------
(***************************************************************************)
(* CorePeerBanManager.                                                     *)
(***************************************************************************)
WarnPeer(p) ==
    LET count == IF warnings[p] = BanAt THEN BanAt ELSE warnings[p] + 1 IN
    /\ warnings' = [warnings EXCEPT ![p] = count]
    /\ tempBanned' = IF count >= TempBanAt THEN tempBanned \cup {p} ELSE tempBanned
    /\ banned' = IF count >= BanAt THEN banned \cup {p} ELSE banned

IsAllowed(p) == p \notin banned /\ p \notin tempBanned

BanPeer(p) ==
    /\ p \notin banned
    /\ banned' = banned \cup {p}
    /\ UNCHANGED <<cooling, trackerVars, warnings, tempBanned, announcing>>

UnbanPeer(p) ==
    /\ banned' = banned \ {p}
    /\ tempBanned' = tempBanned \ {p}
    /\ warnings' = [warnings EXCEPT ![p] = 0]
    /\ UNCHANGED <<cooling, trackerVars, announcing>>

TempBanEnds(p) ==
    /\ p \in tempBanned
    /\ tempBanned' = tempBanned \ {p}
    /\ UNCHANGED <<cooling, trackerVars, warnings, banned, announcing>>

-----------------------------------------------------------------------------
(***************************************************************************)
(* DHTAnnouncementRateLimiter and DHTResourceTracker.                      *)
(***************************************************************************)
\* The interval has passed, or the limiter's cleanup has forgotten the peer.
IntervalEnds(p) ==
    /\ p \in cooling
    /\ cooling' = cooling \ {p}
    /\ UNCHANGED <<trackerVars, banVars, announcing>>

\* Mutant: a resource of a full type is refused only when the peer is full too.
HasRoomForEither(p, r) ==
    \/ r \in resources[p] \/ Cardinality(resources[p]) < MaxPerPeer
    \/ r \in byType[p][TypeOf[r]]
    \/ Cardinality(byType[p][TypeOf[r]]) < MaxPerType

HasRoom(p, r) ==
    /\ r \in resources[p] \/ Cardinality(resources[p]) < MaxPerPeer
    /\ \/ r \in byType[p][TypeOf[r]]
       \/ Cardinality(byType[p][TypeOf[r]]) < MaxPerType

AddResource(p, r) ==
    /\ resources' = [resources EXCEPT ![p] = @ \cup {r}]
    /\ byType' = [byType EXCEPT ![p][TypeOf[r]] = @ \cup {r}]

\* Mutant: only the map of all resources is looked up.
RemoveResourceOnce(p, r) ==
    /\ resources' = [resources EXCEPT ![p] = @ \ {r}]
    /\ UNCHANGED <<cooling, byType, banVars, announcing>>

\* removeResource, called by P2PCoordinator.cleanup for what has expired.
RemoveResource(p, r) ==
    /\ resources' = [resources EXCEPT ![p] = @ \ {r}]
    /\ byType' = [byType EXCEPT ![p][TypeOf[r]] = @ \ {r}]
    /\ UNCHANGED <<cooling, banVars, announcing>>

-----------------------------------------------------------------------------
(***************************************************************************)
(* canAnnounceToDHT.                                                       *)
(***************************************************************************)
Asks(p, r) ==
    announcing' = announcing \cup [peer : {p}, resource : {r}, asked : {"may"}]

\* Up to the first await: the interval and the slot are taken before the validator is
\* asked.  A peer that is not allowed is refused without a change.
CanAnnounceToDHT(p, r) ==
    /\ IsAllowed(p)
    /\ \/ /\ p \in cooling
          /\ WarnPeer(p)
          /\ UNCHANGED <<cooling, trackerVars, announcing>>
       \/ /\ p \notin cooling
          /\ cooling' = cooling \cup {p}
          /\ \/ /\ ~HasRoom(p, r)
                /\ WarnPeer(p)
                /\ UNCHANGED <<trackerVars, announcing>>
             \/ /\ HasRoom(p, r)
                /\ AddResource(p, r)
                /\ \/ TypeOf[r] \in Validated /\ Asks(p, r)
                   \/ TypeOf[r] \notin Validated /\ UNCHANGED announcing
                /\ UNCHANGED banVars

\* canAnnounceResource of the validator has answered: a refusal leaves the slot taken.
MayAnnounce(c, may) ==
    /\ c.asked = "may"
    /\ announcing' = (announcing \ {c}) \cup
                         (IF may THEN {[c EXCEPT !.asked = "valid"]} ELSE {})
    /\ UNCHANGED <<cooling, trackerVars, banVars>>

\* validateResourceAnnouncement has answered, again without a change to the slot.
AnnouncementChecked(c) ==
    /\ c.asked = "valid"
    /\ announcing' = announcing \ {c}
    /\ \/ c.resource \in Valid /\ UNCHANGED banVars
       \/ c.resource \notin Valid /\ WarnPeer(c.peer)
    /\ UNCHANGED <<cooling, trackerVars>>

-----------------------------------------------------------------------------
\* No peer has more resources than the limits allow, though calls overlap at the
\* validator and resources expire meanwhile.
LimitsHold ==
    \A p \in RemotePeers :
        /\ Cardinality(resources[p]) <= MaxPerPeer
        /\ \A t \in ResourceTypes : Cardinality(byType[p][t]) <= MaxPerType

\* The two maps of the tracker agree: each resource is counted under its type and for
\* its peer, or under neither, so that neither limit is reached by what is gone.
TrackerAgrees ==
    \A p \in RemotePeers, t \in ResourceTypes :
        byType[p][t] = {r \in resources[p] : TypeOf[r] = t}
=============================================================================
