------------------------------ MODULE MCParts ------------------------------
(***************************************************************************)
(* Instances for TLC of the components that are checked by themselves.     *)
(* They share nothing: part names the one that runs in a behaviour, and    *)
(* the others stay in one of their initial states.  The handlers of join   *)
(* requests are tasks of the lock.  The parts of discovery are those of    *)
(* MCDiscovery, which declares part.                                       *)
(***************************************************************************)
EXTENDS MuSig2Join, ReplayProtection, BootstrapManager, P2PPeers, MuSig2Ingress,
        MCDiscovery

CONSTANTS p1, p2, p3, p4, m1, m2, m3, m4, r1, r2, r3, u1, u2, u3, u4, t1, t2

\* A signer, one that has restarted and is two peers, a peer with the coordinator's key,
\* and one with a key of others.  Those that the application adds do not ask.
Restarted == [p \in Peers |-> IF p = p1 THEN 1 ELSE IF p = p4 THEN 0 ELSE 2]
Once == [p \in Peers |-> IF p \in Manual THEN 0 ELSE 1]
FourTasks == Requests \cup {t1, t2}

\* Senders with clocks behind and ahead, a message without a timestamp, two that come
\* in sequence.
Stamps == [m \in Ids |-> IF m = m1 THEN 0
                         ELSE IF m = m2 THEN 1
                         ELSE IF m = m3 THEN 2 ELSE 4]
OneStream == [m \in Ids |-> "s"]
Numbers == [m \in Ids |-> IF m = m2 THEN 0 ELSE IF m = m3 THEN 1 ELSE NoSequence]

\* The network has nothing for the node, or the DHT is ready and has enough.
NothingOrEnough == {<<FALSE, 0>>, <<TRUE, 3>>}

\* A good message, one to make it forgotten, and the ways to be refused.
Senders == [m \in Msgs |-> "q"]
Flaws == [m \in Msgs |-> IF m = u1 THEN "none" ELSE IF m = u2 THEN "structure"
                         ELSE IF m = u3 THEN "fields" ELSE "format"]
Kinds == [r \in Resources |-> IF r = r3 THEN "other" ELSE "musig2-session"]

joinOnly == <<hostState, peerState, asked, acks>>
nodeSide == <<bootstrapVars, peersVars>>
messageSide == <<joinVars, replayVars, ingressVars>>

partsVars == <<partVars, messageSide, nodeSide>>

PartsInit ==
    /\ PartInit
    /\ JoinInit /\ ReplayInit /\ BootstrapInit /\ PeersInit /\ IngressInit
    /\ part # "bootstrap" => connections = {}

MessagePartNext ==
    \/ /\ part = "lock" /\ LockNext
       /\ UNCHANGED <<joinOnly, replayVars, ingressVars>>
    \/ part = "join" /\ JoinNext /\ UNCHANGED <<replayVars, ingressVars>>
    \/ part = "replay" /\ ReplayNext /\ UNCHANGED <<joinVars, ingressVars>>
    \/ part = "ingress" /\ IngressNext /\ UNCHANGED <<joinVars, replayVars>>

\* Bound: no stop while a start is under way, and no start during a stop.
NodeInTurn == NodeNext /\ (startPC' = "idle" \/ stopPC' = "idle")

\* Bound: nothing is announced.
PeersAlone == PeersNext /\ made' = made

NodePartNext ==
    \/ part = "bootstrap" /\ BootstrapNext /\ UNCHANGED peersVars
    \/ part = "node" /\ NodeInTurn /\ UNCHANGED <<bootstrapVars, peersOnlyVars>>
    \/ part = "peers" /\ PeersAlone /\ UNCHANGED bootstrapVars

PartsNext ==
    \/ MessagePartNext /\ UNCHANGED <<partVars, nodeSide>>
    \/ NodePartNext /\ UNCHANGED <<partVars, messageSide>>
    \/ PartNext /\ UNCHANGED <<messageSide, nodeSide>>

PartsSpec == PartsInit /\ [][PartsNext]_partsVars
=============================================================================
