------------------------------- MODULE P2PNode -------------------------------
(***************************************************************************)
(* The life of a P2PCoordinator: start, stop and shutdown, the monitor of  *)
(* the connection state, and the announcements it hands to the DHT queue   *)
(* (src/lib/coordinator.ts).                                               *)
(*                                                                         *)
(* start() is cut where it awaits: the making of the libp2p node, its      *)
(* start, and the initial dials of the bootstrap manager.  stop() awaits   *)
(* the bootstrap manager and then node.stop(), shutdown() the latter.  The *)
(* application starts a node that does not run or failed to, and may stop  *)
(* it any time, also while start() is under way.                           *)
(*                                                                         *)
(* Of the DHT, only the size of its routing table is seen: none, one peer, *)
(* or enough.  The local copies of resources are left out.                 *)
(***************************************************************************)
EXTENDS DHTQueue

CONSTANT NetworkStates  \* pairs: are there peers, and the size of the routing table

Enough == 3

ASSUME NodeAssumption ==
    /\ NetworkStates \subseteq BOOLEAN \X Nat
    /\ <<FALSE, 0>> \in NetworkStates

Operational == {"connected", "dht_initializing", "dht_ready", "fully_operational"}
ConnectionStates == Operational \cup {"disconnected", "connecting", "error"}

VARIABLES
    node,              \* this.node is set
    startPC, stopPC,   \* how far start(), and stop() or shutdown(), have come
    connectionState,
    monitor,           \* the connection state monitor runs
    gossipSubMonitor,  \* the mesh monitor runs
    dhtCleanup,        \* cleanupIntervalId is set
    queueCleanup,      \* the cleanup interval of the queue is set
    wasDHTReady,
    hasPeers, tableSize,
    stopped            \* history: stop() was the last call and met no other

lifeVars == <<node, startPC, stopPC, connectionState, monitor, gossipSubMonitor, dhtCleanup,
              queueCleanup, wasDHTReady, hasPeers, tableSize, stopped>>
nodeVars == <<lifeVars, queueVars>>

NodeTypeOK ==
    /\ QueueTypeOK
    /\ node \in BOOLEAN
    /\ startPC \in {"idle", "creating", "starting", "bootstrapping"}
    /\ stopPC \in {"idle", "stopping", "closing"}
    /\ connectionState \in ConnectionStates
    /\ {monitor, gossipSubMonitor, dhtCleanup, queueCleanup} \subseteq BOOLEAN
    /\ {wasDHTReady, hasPeers, stopped} \subseteq BOOLEAN
    /\ <<hasPeers, tableSize>> \in NetworkStates
    /\ ~node => tableSize = 0 /\ ~hasPeers

\* The constructor starts two cleanup intervals.
NodeInit ==
    /\ QueueInit
    /\ node = FALSE
    /\ startPC = "idle" /\ stopPC = "idle"
    /\ connectionState = "disconnected"
    /\ monitor = FALSE /\ gossipSubMonitor = FALSE
    /\ dhtCleanup = TRUE /\ queueCleanup = TRUE
    /\ wasDHTReady = FALSE
    /\ hasPeers = FALSE /\ tableSize = 0
    /\ stopped = FALSE

\* getDHTStats().isReady
IsReady == node /\ tableSize > 0

-----------------------------------------------------------------------------
\* start(), up to its first await; a node whose start failed is replaced.
StartNode ==
    /\ ~node \/ connectionState = "error"
    /\ startPC = "idle" /\ stopPC = "idle"
    /\ startPC' = "creating"
    /\ connectionState' = "connecting"
    /\ stopped' = FALSE
    /\ UNCHANGED <<node, stopPC, monitor, gossipSubMonitor, dhtCleanup, queueCleanup,
                   wasDHTReady, hasPeers, tableSize, queueVars>>

\* createLibp2p; when it rejects, the connection state stays as it is.
NodeIsCreated ==
    /\ startPC = "creating"
    /\ \/ node' = TRUE /\ startPC' = "starting"
       \/ node' = node /\ startPC' = "idle"
    /\ UNCHANGED <<stopPC, connectionState, monitor, gossipSubMonitor, dhtCleanup,
                   queueCleanup, wasDHTReady, hasPeers, tableSize, stopped, queueVars>>

\* Mutant: the node is not missed when it is gone.
NodeIsStartedUnchecked ==
    /\ startPC = "starting"
    /\ connectionState' = "connected"
    /\ startPC' = "bootstrapping"
    /\ UNCHANGED <<node, stopPC, monitor, gossipSubMonitor, dhtCleanup, queueCleanup,
                   wasDHTReady, hasPeers, tableSize, stopped, queueVars>>

\* node.start(), and with a node that is gone, a TypeError; the catch block.
NodeIsStarted ==
    /\ startPC = "starting"
    /\ \/ node /\ connectionState' = "connected" /\ startPC' = "bootstrapping"
       \/ connectionState' = "error" /\ startPC' = "idle"
    /\ UNCHANGED <<node, stopPC, monitor, gossipSubMonitor, dhtCleanup, queueCleanup,
                   wasDHTReady, hasPeers, tableSize, stopped, queueVars>>

\* The initial dials have ended; GossipSubMonitor.start throws without a node.
BootstrapIsDone ==
    /\ startPC = "bootstrapping"
    /\ startPC' = "idle"
    /\ IF node
       THEN gossipSubMonitor' = TRUE /\ monitor' = TRUE /\ UNCHANGED connectionState
       ELSE connectionState' = "error" /\ UNCHANGED <<gossipSubMonitor, monitor>>
    /\ UNCHANGED <<node, stopPC, dhtCleanup, queueCleanup, wasDHTReady, hasPeers,
                   tableSize, stopped, queueVars>>

\* stop(), up to its first await.
StopNode ==
    /\ stopPC = "idle"
    /\ stopPC' = "stopping"
    /\ monitor' = FALSE
    /\ stopped' = (startPC = "idle")
    /\ UNCHANGED <<node, startPC, connectionState, gossipSubMonitor, dhtCleanup,
                   queueCleanup, wasDHTReady, hasPeers, tableSize, queueVars>>

\* The end of stop() and shutdown(), without a node.
Disconnect ==
    /\ stopPC' = "idle"
    /\ connectionState' = "disconnected"

\* Mutant: the interval of the queue is forgotten.
StopNodeResumeKeepsInterval ==
    /\ stopPC = "stopping"
    /\ gossipSubMonitor' = FALSE
    /\ dhtCleanup' = FALSE
    /\ ClearQueue
    /\ IF node THEN stopPC' = "closing" /\ UNCHANGED connectionState ELSE Disconnect
    /\ UNCHANGED <<node, startPC, monitor, queueCleanup, wasDHTReady, hasPeers, tableSize,
                   stopped>>

\* stop(), from there to node.stop().
StopNodeResume ==
    /\ stopPC = "stopping"
    /\ gossipSubMonitor' = FALSE
    /\ queueCleanup' = FALSE /\ dhtCleanup' = FALSE
    /\ ClearQueue
    /\ IF node THEN stopPC' = "closing" /\ UNCHANGED connectionState ELSE Disconnect
    /\ UNCHANGED <<node, startPC, monitor, wasDHTReady, hasPeers, tableSize, stopped>>

\* shutdown(), up to node.stop(): the queue and the mesh monitor are left alone.
ShutdownNode ==
    /\ stopPC = "idle"
    /\ monitor' = FALSE
    /\ dhtCleanup' = FALSE
    /\ stopped' = FALSE
    /\ IF node THEN stopPC' = "closing" /\ UNCHANGED connectionState ELSE Disconnect
    /\ UNCHANGED <<node, startPC, gossipSubMonitor, queueCleanup, wasDHTReady, hasPeers,
                   tableSize, queueVars>>

\* node.stop() has ended.
NodeIsClosed ==
    /\ stopPC = "closing"
    /\ node' = FALSE
    /\ hasPeers' = FALSE /\ tableSize' = 0
    /\ Disconnect
    /\ UNCHANGED <<startPC, monitor, gossipSubMonitor, dhtCleanup, queueCleanup,
                   wasDHTReady, stopped, queueVars>>

-----------------------------------------------------------------------------
\* announceResource on a DHT server; with the DHT ready it puts, and nothing changes here.
AnnounceResource(key) ==
    /\ node
    /\ ~IsReady
    /\ Enqueue(key)
    /\ UNCHANGED lifeVars

\* _updateConnectionState
NextConnectionState ==
    CASE ~node -> "disconnected"
      [] node /\ ~hasPeers ->
             IF connectionState = "connecting" THEN "connecting" ELSE "connected"
      [] node /\ hasPeers /\ ~IsReady ->
             CASE connectionState = "connecting" -> "connected"
               [] connectionState = "connected"  -> "dht_initializing"
               [] OTHER                          -> connectionState
      [] node /\ hasPeers /\ IsReady /\ tableSize < Enough ->
             IF connectionState = "fully_operational" THEN connectionState ELSE "dht_ready"
      [] OTHER -> "fully_operational"

\* _checkDHTReadyAndFlush: only the edge is acted upon.
CheckDHTReadyAndFlush ==
    /\ wasDHTReady' = IsReady
    /\ IF IsReady /\ ~wasDHTReady THEN BeginFlush ELSE UNCHANGED queueVars

\* A tick of the monitor, every two seconds.
MonitorTick ==
    /\ monitor
    /\ connectionState' = NextConnectionState
    /\ IF node THEN CheckDHTReadyAndFlush ELSE UNCHANGED <<wasDHTReady, queueVars>>
    /\ UNCHANGED <<node, startPC, stopPC, monitor, gossipSubMonitor, dhtCleanup,
                   queueCleanup, hasPeers, tableSize, stopped>>

\* A step of a flush: a batch, the end of a put (an error counts as success), the end.
FlushStep(f) ==
    /\ \/ FlushBatch(f, IsReady)
       \/ \E e \in sending[f] : FlushSent(f, e)
       \/ EndFlush(f)
    /\ UNCHANGED lifeVars

QueueCleanupTick ==
    /\ queueCleanup
    /\ ExpireQueued
    /\ UNCHANGED lifeVars

\* The network: peers come and go, the routing table fills and empties.
NetworkChanges ==
    /\ node
    /\ \E s \in NetworkStates : hasPeers' = s[1] /\ tableSize' = s[2]
    /\ UNCHANGED <<node, startPC, stopPC, connectionState, monitor, gossipSubMonitor,
                   dhtCleanup, queueCleanup, wasDHTReady, stopped, queueVars>>

NodeNext ==
    \/ StartNode \/ NodeIsCreated \/ NodeIsStarted \/ BootstrapIsDone
    \/ StopNode \/ StopNodeResume \/ ShutdownNode \/ NodeIsClosed
    \/ MonitorTick \/ QueueCleanupTick \/ NetworkChanges
    \/ \E key \in ResourceKeys : AnnounceResource(key)
    \/ \E f \in Flushes : FlushStep(f)

NodeSpec == NodeInit /\ [][NodeNext]_nodeVars

\* The interval fires; awaits of flush() end (puts are aborted after five seconds).
NodeFairness ==
    /\ WF_nodeVars(MonitorTick)
    /\ \A f \in Flushes : WF_nodeVars(FlushStep(f))

FairNodeSpec == NodeSpec /\ NodeFairness

-----------------------------------------------------------------------------
\* Outside start(), an operational connection state means that there is a node:
\* a stop that overlaps a start ends in DISCONNECTED or ERROR.
OperationalMeansNode == connectionState \in Operational => node

\* stop() that met no start() leaves no interval and no node behind, and an idle
\* connection state, until the next start: nothing is left that could flush the queue.
StopLeavesNothing ==
    stopped /\ stopPC = "idle" =>
        /\ ~monitor /\ ~gossipSubMonitor /\ ~dhtCleanup /\ ~queueCleanup
        /\ ~node
        /\ connectionState = "disconnected"

\* An announcement that is queued when the monitor has seen the DHT not ready is
\* flushed once it is ready for long enough.
EdgeFlushes ==
    \A k \in ResourceKeys :
        k \in QueuedKeys /\ monitor /\ node /\ ~wasDHTReady
            ~> k \notin QueuedKeys \/ ~IsReady \/ ~monitor

\* The same whatever the monitor has seen: what the queue promises its callers.
QueuedIsFlushed ==
    \A k \in ResourceKeys :
        k \in QueuedKeys /\ monitor /\ node ~> k \notin QueuedKeys \/ ~IsReady \/ ~monitor
=============================================================================
