------------------------------ MODULE P2PPeers ------------------------------
(***************************************************************************)
(* What a P2PCoordinator (src/lib/coordinator.ts) keeps in step with its   *)
(* libp2p node while that comes and goes: the stream handlers of the       *)
(* registered protocols, and what it knows and tells of its peers.         *)
(*                                                                         *)
(* The application registers protocols at any time, also before the node   *)
(* is there and while start() or stop() await.  libp2p reports a peer to   *)
(* the listeners of a running node only, which a failed start closes; the  *)
(* addresses of a peer are left out.                                       *)
(***************************************************************************)
EXTENDS P2PNode

CONSTANTS
    Protocols,
    Streaming,  \* the protocols whose handler has a handleStream
    NodePeers   \* the peers that libp2p meets

ASSUME PeersAssumption == Streaming \subseteq Protocols

VARIABLES
    protocols,  \* the keys of protocolHandlers
    streams,    \* the protocols that the libp2p node has a handler for
    connected,  \* the peers that the libp2p node has connections to
    peerInfo,   \* the keys of peerInfo
    told        \* history: peers with an event CONNECTED and no DISCONNECTED after it

peersOnlyVars == <<protocols, streams, connected, peerInfo, told>>
peersVars == <<nodeVars, peersOnlyVars>>

PeersTypeOK ==
    /\ NodeTypeOK
    /\ protocols \subseteq Protocols /\ streams \subseteq Streaming
    /\ connected \subseteq NodePeers /\ peerInfo \subseteq NodePeers
    /\ told \subseteq NodePeers

PeersInit ==
    /\ NodeInit
    /\ protocols = {} /\ streams = {}
    /\ connected = {} /\ peerInfo = {} /\ told = {}

-----------------------------------------------------------------------------
\* Mutant: the stream handler waits for a start that has come to its end.
RegisterProtocolWhenConnected(h) ==
    /\ h \notin protocols
    /\ protocols' = protocols \cup {h}
    /\ streams' = IF connectionState \in Operational /\ h \in Streaming
                  THEN streams \cup {h} ELSE streams
    /\ UNCHANGED <<nodeVars, connected, peerInfo, told>>

\* registerProtocol throws for a protocol that it has.
RegisterProtocol(h) ==
    /\ h \notin protocols
    /\ protocols' = protocols \cup {h}
    /\ streams' = IF node /\ h \in Streaming THEN streams \cup {h} ELSE streams
    /\ UNCHANGED <<nodeVars, connected, peerInfo, told>>

UnregisterProtocol(h) ==
    /\ h \in protocols
    /\ protocols' = protocols \ {h}
    /\ streams' = IF node THEN streams \ {h} ELSE streams
    /\ UNCHANGED <<nodeVars, connected, peerInfo, told>>

\* _registerProtocolStreamHandlers and _setupEventHandlers for a node that is new.
SetUpNode ==
    /\ NodeIsCreated
    /\ \/ /\ startPC' = "starting"
          /\ streams' = protocols \cap Streaming
          /\ connected' = {}
       \/ /\ startPC' = "idle"
          /\ UNCHANGED <<streams, connected>>
    /\ UNCHANGED <<protocols, peerInfo, told>>

\* The end of stop() and shutdown(): the maps are cleared and the listeners removed.
ForgetNode ==
    /\ NodeIsClosed \/ (~node /\ (StopNodeResume \/ ShutdownNode))
    /\ protocols' = {} /\ peerInfo' = {} /\ told' = {}
    /\ streams' = {} /\ connected' = {}

-----------------------------------------------------------------------------
\* The events of libp2p.  The routing table changes with the peers.
IsUp == node /\ startPC \notin {"creating", "starting"} /\ connectionState # "error"

OnPeerConnect(p) ==
    /\ IsUp /\ p \notin connected
    /\ NetworkChanges /\ hasPeers'
    /\ connected' = connected \cup {p}
    /\ peerInfo' = peerInfo \cup {p}
    /\ told' = told \cup {p}
    /\ UNCHANGED <<protocols, streams>>

\* DISCONNECTED is emitted for a peer that is known, and stays so.
OnPeerDisconnect(p) ==
    /\ p \in connected
    /\ NetworkChanges /\ (hasPeers' <=> connected # {p})
    /\ connected' = connected \ {p}
    /\ told' = IF p \in peerInfo THEN told \ {p} ELSE told
    /\ UNCHANGED <<protocols, streams, peerInfo>>

\* peer:discovery and peer:update, which differ in the addresses.
PeerIsSeen(p) ==
    /\ IsUp
    /\ peerInfo' = peerInfo \cup {p}
    /\ UNCHANGED <<nodeVars, protocols, streams, connected, told>>

\* All else that the node does.
NodeAlone ==
    /\ \/ StartNode \/ NodeIsStarted \/ BootstrapIsDone \/ StopNode
       \/ node /\ (StopNodeResume \/ ShutdownNode)
       \/ MonitorTick \/ QueueCleanupTick
       \/ \E key \in ResourceKeys : AnnounceResource(key)
       \/ \E f \in Flushes : FlushStep(f)
    /\ UNCHANGED peersOnlyVars

PeersNext ==
    \/ NodeAlone \/ SetUpNode \/ ForgetNode
    \/ \E h \in Protocols : RegisterProtocol(h) \/ UnregisterProtocol(h)
    \/ \E p \in NodePeers : OnPeerConnect(p) \/ OnPeerDisconnect(p) \/ PeerIsSeen(p)

PeersSpec == PeersInit /\ [][PeersNext]_peersVars

-----------------------------------------------------------------------------
\* While there is a node, streams of exactly the registered protocols are taken, and
\* the application has been told exactly of the peers that are connected: wherever in
\* start(), stop() and a start over again the registrations and connections fall.
NodeIsInStep ==
    node => streams = protocols \cap Streaming /\ told = connected
=============================================================================
