------------------------------- MODULE MCLive -------------------------------
(***************************************************************************)
(* Instances for TLC of the components that owe something in the end: the  *)
(* lock, join, the bootstrap manager, the node, and a node that advertises with  *)
(* one that discovers; and of the election.  They share nothing: part      *)
(* names the one that runs in a behaviour, and the others stay in one of   *)
(* their initial states.                                                   *)
(***************************************************************************)
EXTENDS MuSig2Join, Election, BootstrapManager, P2PNode, Discovery

CONSTANTS p1, p2, p3, t1, a1, a2, c1, c2, Parts

\* Three signers; each asks once.
Distinct == [p \in Peers |-> CASE p = p1 -> 1 [] p = p2 -> 2 [] p = p3 -> 3]
OnceEach == [p \in Peers |-> 1]

\* The lock has one more task: one may wait for a promise that another one overwrote.
FourTasks == Requests \cup {t1}

\* The routing table is empty, has a peer, or has enough; no peers, no table.
Networks == {<<FALSE, 0>>, <<TRUE, 0>>, <<TRUE, 1>>, <<TRUE, 3>>}

\* A signer, and a request that expires soon.
AdsOfCalls == [c \in Calls |-> IF c = c1 THEN a1 ELSE a2]
Lives == [c \in Calls |-> IF c = c1 THEN MaxLeft ELSE 1]
Profiles == [a \in Ads |-> [topic |-> IF a = a1 THEN "signers" ELSE "requests",
                            reputation |-> 50]]
Nobody == [s \in Subs |-> [topic |-> "signers", minReputation |-> 0]]

VARIABLE part

nodeSide == <<electionVars, bootstrapVars, nodeVars>>
liveVars == <<part, joinVars, nodeSide, discoveryVars>>

LiveInit ==
    /\ part \in Parts
    /\ JoinInit /\ ElectionInit /\ BootstrapInit /\ NodeInit /\ DiscoveryInit
    /\ part # "election" =>
           /\ signers = [i \in Indices |-> i + 1]
           /\ electionMethod = "lexicographic" /\ hashValue = 0
    /\ part # "bootstrap" => connections = {}

\* Bound: one of the calls of advertise is made.
OneCall == DiscoveryNext /\ Cardinality(used') <= 1

LiveNext ==
    /\ UNCHANGED part
    /\ \/ /\ part = "lock" /\ LockNext
          /\ UNCHANGED <<hostState, peerState, asked, acks, nodeSide, discoveryVars>>
       \/ part = "join" /\ JoinNext /\ UNCHANGED <<nodeSide, discoveryVars>>
       \/ part = "discovery" /\ OneCall /\ UNCHANGED <<joinVars, nodeSide>>
       \/ /\ part = "election" /\ ElectionNext
          /\ UNCHANGED <<joinVars, bootstrapVars, nodeVars, discoveryVars>>
       \/ /\ part = "bootstrap" /\ BootstrapNext
          /\ UNCHANGED <<joinVars, electionVars, nodeVars, discoveryVars>>
       \/ /\ part = "node" /\ NodeNext
          /\ UNCHANGED <<joinVars, electionVars, bootstrapVars, discoveryVars>>

LiveSpec == LiveInit /\ [][LiveNext]_liveVars

\* The fairness of each component, for its part.
PartFairness ==
    /\ \A t \in Tasks : /\ WF_lockVars(part = "lock" /\ WakeUp(t))
                       /\ WF_lockVars(part = "lock" /\ Release(t))
    /\ \A p \in Peers : WF_joinVars(part = "join" /\ JoinSession(p))
    /\ \A r \in Requests :
          /\ WF_joinVars(part = "join" /\ r \in asked /\ HandleSessionJoin(r))
          /\ WF_joinVars(part = "join" /\ Coordinator(r))
          /\ WF_joinVars(part = "join" /\
                         \E a \in acks : a.request = r /\ HandleSessionJoinAck(a))
    /\ WF_bootstrapVars(part = "bootstrap" /\ HealthCheck)
    /\ \A c \in StartCalls : WF_bootstrapVars(part = "bootstrap" /\ StartManagerResume(c))
    /\ \A p \in BootstrapPeers :
          /\ WF_bootstrapVars(part = "bootstrap" /\ ReconnectTimerFires(p))
          /\ \A c \in StartCalls \cup {0} :
                WF_bootstrapVars(part = "bootstrap" /\ (DialSucceeds(p, c) \/ DialFails(p, c)))
    /\ WF_nodeVars(part = "node" /\ MonitorTick)
    /\ \A f \in Flushes : WF_nodeVars(part = "node" /\ FlushStep(f))
    /\ WF_discoveryVars(part = "discovery" /\ DiscoveryTick)
    /\ WF_discoveryVars(part = "discovery" /\ PublishOne)
    /\ WF_discoveryVars(part = "discovery" /\ DeliverOne)
    /\ WF_discoveryVars(part = "discovery" /\ AdvertiserGoesOn)
    /\ WF_discoveryVars(part = "discovery" /\ DiscovererGoesOn)

FairPartsSpec == LiveSpec /\ PartFairness
=============================================================================
