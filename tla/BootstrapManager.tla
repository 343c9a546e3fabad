-------------------------- MODULE BootstrapManager --------------------------
(***************************************************************************)
(* The connections to bootstrap peers and their renewal                    *)
(* (src/lib/bootstrap-manager.ts).                                         *)
(*                                                                         *)
(* connections is the libp2p node's own view, which changes at any time    *)
(* and tells the manager by events: peer:connect when a peer without a     *)
(* connection gets one, peer:disconnect when it has none any more.  An     *)
(* event is handled at once, or is lost (the health check is there for     *)
(* that).  A dial of a connected peer gives its connection and no event.   *)
(*                                                                         *)
(* An await splits _connectToPeer into the dial and its outcome, and       *)
(* start() into the initial dials and what follows them.  Delays, which    *)
(* are random, are left out: a timer fires at any time.                    *)
(***************************************************************************)
EXTENDS Naturals, FiniteSets

CONSTANTS
    BootstrapPeers,        \* the peers of the addresses that start() gets
    MaxReconnectAttempts,
    MaxStarts,             \* bound: calls of start() that do anything
    MaxDials               \* bound: dials under way to a peer when one begins

ASSUME BootstrapAssumption ==
    /\ MaxReconnectAttempts \in Nat
    /\ MaxStarts \in Nat
    /\ MaxDials \in Nat \ {0}

VARIABLES
    nodeUp,             \* the libp2p node runs
    connections,        \* the peers it is connected to
    unnoticed,          \* those whose last disconnect event was lost
    isStarted,
    starts,             \* calls of start() so far
    startDials,         \* startDials[c]: initial dials that call c awaits
    pendingStarts,      \* calls of start() that have not set their interval
    tracked,            \* the keys of the map bootstrapPeers
    isConnected,        \* those with the flag set
    reconnectAttempts,
    reconnectTimers,    \* the peers with a timer
    dials,              \* dials[p]: dials under way, without those of start()
    healthCheckInterval, \* the field holds an interval
    leakedInterval       \* an interval runs that no field holds any more

managerVars == <<isStarted, starts, startDials, pendingStarts, tracked, isConnected,
                 reconnectAttempts, reconnectTimers, dials, healthCheckInterval,
                 leakedInterval>>
bootstrapVars == <<nodeUp, connections, unnoticed, managerVars>>

StartCalls == 1 .. MaxStarts

BootstrapTypeOK ==
    /\ nodeUp \in BOOLEAN
    /\ connections \subseteq BootstrapPeers
    /\ unnoticed \subseteq BootstrapPeers
    /\ isStarted \in BOOLEAN
    /\ starts \in 0 .. MaxStarts
    /\ startDials \in [StartCalls -> SUBSET BootstrapPeers]
    /\ pendingStarts \subseteq StartCalls
    /\ isConnected \subseteq tracked
    /\ tracked \subseteq BootstrapPeers
    /\ reconnectAttempts \in [BootstrapPeers -> 0 .. MaxReconnectAttempts]
    /\ reconnectTimers \subseteq BootstrapPeers
    /\ dials \in [BootstrapPeers -> 0 .. MaxDials]
    /\ healthCheckInterval \in BOOLEAN
    /\ leakedInterval \in BOOLEAN

\* The node has started and initialize() was called; peers may be connected already.
BootstrapInit ==
    /\ nodeUp = TRUE
    /\ connections \in SUBSET BootstrapPeers
    /\ unnoticed = {}
    /\ isStarted = FALSE
    /\ starts = 0
    /\ startDials = [c \in StartCalls |-> {}]
    /\ pendingStarts = {}
    /\ tracked = {}
    /\ isConnected = {}
    /\ reconnectAttempts = [p \in BootstrapPeers |-> 0]
    /\ reconnectTimers = {}
    /\ dials = [p \in BootstrapPeers |-> 0]
    /\ healthCheckInterval = FALSE
    /\ leakedInterval = FALSE

DialPending(p) == dials[p] > 0 \/ \E c \in StartCalls : p \in startDials[c]

-----------------------------------------------------------------------------
\* Mutant: the peer is not looked up in the map.
ScheduleReconnectUntracked(peers) ==
    LET due == {p \in peers : reconnectAttempts[p] < MaxReconnectAttempts}
    IN  /\ reconnectAttempts' = [p \in BootstrapPeers |->
               IF p \in due THEN reconnectAttempts[p] + 1 ELSE reconnectAttempts[p]]
        /\ reconnectTimers' = reconnectTimers \cup due

\* _scheduleReconnect of each of the peers; a new timer replaces the old one.
ScheduleReconnect(peers) ==
    LET due == {p \in peers \cap tracked : reconnectAttempts[p] < MaxReconnectAttempts}
    IN  /\ reconnectAttempts' = [p \in BootstrapPeers |->
               IF p \in due THEN reconnectAttempts[p] + 1 ELSE reconnectAttempts[p]]
        /\ reconnectTimers' = reconnectTimers \cup due

\* _handleBootstrapConnect, if the peer is in the map.
HandleBootstrapConnect(p) ==
    IF p \in tracked
    THEN /\ isConnected' = isConnected \cup {p}
         /\ reconnectAttempts' = [reconnectAttempts EXCEPT ![p] = 0]
         /\ reconnectTimers' = reconnectTimers \ {p}
    ELSE UNCHANGED <<isConnected, reconnectAttempts, reconnectTimers>>

\* Mutant: only a peer known to be connected is pursued.
HandleBootstrapDisconnectKnown(peers) ==
    /\ isConnected' = isConnected \ peers
    /\ IF isStarted
       THEN ScheduleReconnect(peers \cap isConnected)
       ELSE UNCHANGED <<reconnectAttempts, reconnectTimers>>

\* _handleBootstrapDisconnect of each of the peers that is in the map.
HandleBootstrapDisconnect(peers) ==
    /\ isConnected' = isConnected \ peers
    /\ IF isStarted
       THEN ScheduleReconnect(peers)
       ELSE UNCHANGED <<reconnectAttempts, reconnectTimers>>

-----------------------------------------------------------------------------
\* start(), up to its await: every entry is made anew; with isStarted it returns.
StartManager ==
    /\ ~isStarted
    /\ starts < MaxStarts
    /\ isStarted' = TRUE
    /\ starts' = starts + 1
    /\ tracked' = BootstrapPeers
    /\ isConnected' = {}
    /\ reconnectAttempts' = [p \in BootstrapPeers |-> 0]
    /\ startDials' = [startDials EXCEPT ![starts + 1] = BootstrapPeers]
    /\ pendingStarts' = pendingStarts \cup {starts + 1}
    /\ UNCHANGED <<nodeUp, connections, unnoticed, reconnectTimers, dials,
                   healthCheckInterval, leakedInterval>>

\* The rest of start(), when every initial dial has an outcome.
StartManagerResume(c) ==
    /\ c \in pendingStarts
    /\ startDials[c] = {}
    /\ pendingStarts' = pendingStarts \ {c}
    /\ healthCheckInterval' = TRUE
    /\ leakedInterval' = (leakedInterval \/ healthCheckInterval)
    /\ UNCHANGED <<nodeUp, connections, unnoticed, isStarted, starts, startDials, tracked,
                   isConnected, reconnectAttempts, reconnectTimers, dials>>

\* stop() does not ask whether the manager has started.
StopManager ==
    /\ isStarted' = FALSE
    /\ tracked' = {}
    /\ isConnected' = {}
    /\ reconnectTimers' = {}
    /\ healthCheckInterval' = FALSE
    /\ UNCHANGED <<nodeUp, connections, unnoticed, starts, startDials, pendingStarts,
                   reconnectAttempts, dials, leakedInterval>>

\* connect(): allowed before start() and after stop().
ConnectBootstrap(p) ==
    /\ dials[p] < MaxDials
    /\ tracked' = tracked \cup {p}
    /\ reconnectAttempts' = [reconnectAttempts EXCEPT ![p] = IF p \in tracked THEN @ ELSE 0]
    /\ dials' = [dials EXCEPT ![p] = @ + 1]
    /\ UNCHANGED <<nodeUp, connections, unnoticed, isStarted, starts, startDials,
                   pendingStarts, isConnected, reconnectTimers, healthCheckInterval,
                   leakedInterval>>

\* reconnect(): it throws for a peer that is not in the map.
ReconnectBootstrap(p) ==
    /\ p \in tracked
    /\ dials[p] < MaxDials
    /\ reconnectTimers' = reconnectTimers \ {p}
    /\ reconnectAttempts' = [reconnectAttempts EXCEPT ![p] = 0]
    /\ dials' = [dials EXCEPT ![p] = @ + 1]
    /\ UNCHANGED <<nodeUp, connections, unnoticed, isStarted, starts, startDials,
                   pendingStarts, tracked, isConnected, healthCheckInterval,
                   leakedInterval>>

ReconnectTimerFires(p) ==
    /\ p \in reconnectTimers
    /\ dials[p] < MaxDials
    /\ reconnectTimers' = reconnectTimers \ {p}
    /\ dials' = [dials EXCEPT ![p] = IF p \in tracked THEN @ + 1 ELSE @]
    /\ UNCHANGED <<nodeUp, connections, unnoticed, isStarted, starts, startDials,
                   pendingStarts, tracked, isConnected, reconnectAttempts,
                   healthCheckInterval, leakedInterval>>

\* A dial under way to p gets its outcome: the initial one of call c, or for c = 0
\* one that start() does not await.
DialSettles(p, c) ==
    IF c = 0
    THEN dials[p] > 0 /\ dials' = [dials EXCEPT ![p] = @ - 1] /\ UNCHANGED startDials
    ELSE /\ p \in startDials[c]
         /\ startDials' = [startDials EXCEPT ![c] = @ \ {p}]
         /\ UNCHANGED dials

\* The event, or none when the peer is connected already, then the end of the dial.
DialSucceeds(p, c) ==
    /\ nodeUp
    /\ DialSettles(p, c)
    /\ connections' = connections \cup {p}
    /\ unnoticed' = unnoticed \ {p}
    /\ IF p \in connections
       THEN UNCHANGED <<isConnected, reconnectAttempts, reconnectTimers>>
       ELSE HandleBootstrapConnect(p)
    /\ UNCHANGED <<nodeUp, isStarted, starts, pendingStarts, tracked, healthCheckInterval,
                   leakedInterval>>

\* Refused, timed out, or the node is down; a connection made meanwhile is no help.
DialFails(p, c) ==
    /\ DialSettles(p, c)
    /\ ScheduleReconnect({p})
    /\ UNCHANGED <<nodeUp, connections, unnoticed, isStarted, starts, pendingStarts,
                   tracked, isConnected, healthCheckInterval, leakedInterval>>

-----------------------------------------------------------------------------
\* Somebody else's connection: an incoming one, or libp2p's own discovery.
PeerConnects(p) ==
    /\ nodeUp
    /\ p \notin connections
    /\ connections' = connections \cup {p}
    /\ unnoticed' = unnoticed \ {p}
    /\ HandleBootstrapConnect(p)
    /\ UNCHANGED <<nodeUp, isStarted, starts, startDials, pendingStarts, tracked, dials,
                   healthCheckInterval, leakedInterval>>

PeerDisconnects(p) ==
    /\ p \in connections
    /\ connections' = connections \ {p}
    /\ HandleBootstrapDisconnect({p})
    /\ UNCHANGED <<nodeUp, unnoticed, isStarted, starts, startDials, pendingStarts,
                   tracked, dials, healthCheckInterval, leakedInterval>>

DisconnectEventIsLost(p) ==
    /\ p \in connections
    /\ connections' = connections \ {p}
    /\ unnoticed' = unnoticed \cup {p}
    /\ UNCHANGED <<nodeUp, managerVars>>

\* Mutant: the flag is cleared and nothing else is done.
HealthCheckOnlyMarks ==
    /\ healthCheckInterval \/ leakedInterval
    /\ isConnected' = isConnected \cap connections
    /\ unnoticed' = unnoticed \ isConnected
    /\ UNCHANGED <<nodeUp, connections, isStarted, starts, startDials, pendingStarts,
                   tracked, reconnectAttempts, reconnectTimers, dials, healthCheckInterval,
                   leakedInterval>>

\* _performHealthCheck: only peers believed to be connected are looked at.
HealthCheck ==
    /\ healthCheckInterval \/ leakedInterval
    /\ HandleBootstrapDisconnect(isConnected \ connections)
    /\ unnoticed' = unnoticed \ isConnected
    /\ UNCHANGED <<nodeUp, connections, isStarted, starts, startDials, pendingStarts,
                   tracked, dials, healthCheckInterval, leakedInterval>>

\* node.stop() by stop() or shutdown(): every connection is closed with its event.
NodeStops ==
    /\ nodeUp
    /\ nodeUp' = FALSE
    /\ connections' = {}
    /\ HandleBootstrapDisconnect(connections)
    /\ UNCHANGED <<unnoticed, isStarted, starts, startDials, pendingStarts, tracked, dials,
                   healthCheckInterval, leakedInterval>>

\* A new node and initialize().
NodeStarts ==
    /\ ~nodeUp
    /\ nodeUp' = TRUE
    /\ UNCHANGED <<connections, unnoticed, managerVars>>

BootstrapNext ==
    \/ StartManager \/ StopManager \/ HealthCheck \/ NodeStops \/ NodeStarts
    \/ \E c \in StartCalls : StartManagerResume(c)
    \/ \E p \in BootstrapPeers :
           \/ ConnectBootstrap(p) \/ ReconnectBootstrap(p) \/ ReconnectTimerFires(p)
           \/ \E c \in StartCalls \cup {0} : DialSucceeds(p, c) \/ DialFails(p, c)
           \/ PeerConnects(p) \/ PeerDisconnects(p) \/ DisconnectEventIsLost(p)

BootstrapSpec == BootstrapInit /\ [][BootstrapNext]_bootstrapVars

\* Dials end (connectionTimeout aborts them), awaits resume, timers fire.
BootstrapFairness ==
    /\ WF_bootstrapVars(HealthCheck)
    /\ \A c \in StartCalls : WF_bootstrapVars(StartManagerResume(c))
    /\ \A p \in BootstrapPeers : WF_bootstrapVars(ReconnectTimerFires(p))
    /\ \A p \in BootstrapPeers, c \in StartCalls \cup {0} :
           WF_bootstrapVars(DialSucceeds(p, c) \/ DialFails(p, c))

FairBootstrapSpec == BootstrapSpec /\ BootstrapFairness

-----------------------------------------------------------------------------
\* While the manager runs, a peer in the map that has no connection is pursued: a dial
\* is under way, or a timer will make one, or the attempts are used up.  Only a loss
\* whose event was lost is excepted, until it is noticed.
LostPeerIsPursued ==
    isStarted =>
        \A p \in tracked \ (connections \cup unnoticed) :
            \/ DialPending(p)
            \/ p \in reconnectTimers
            \/ reconnectAttempts[p] >= MaxReconnectAttempts

\* No timer is left for a peer that is not in the map: none survives stop(), and
\* none is made by a dial that fails after it.
TimersAreOfTrackedPeers == reconnectTimers \subseteq tracked

\* A peer believed to be connected that is not is found out by the health check and
\* dialled again, though nobody told of the loss.
LossIsNoticed ==
    \A p \in BootstrapPeers :
        p \in isConnected /\ isStarted
            ~> \/ p \in connections \/ ~isStarted \/ DialPending(p)
               \/ reconnectAttempts[p] >= MaxReconnectAttempts
=============================================================================
