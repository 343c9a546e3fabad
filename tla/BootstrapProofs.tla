--------------------------- MODULE BootstrapProofs ---------------------------
(***************************************************************************)
(* Proofs about BootstrapManager, for any set of peers and any bounds.     *)
(* TimersAreOfTrackedPeers is inductive with the types; LostPeerIsPursued  *)
(* needs both, for a timer that fires must find its peer in the map.       *)
(***************************************************************************)
EXTENDS BootstrapManager, TLAPS

BootstrapIInv == BootstrapTypeOK /\ TimersAreOfTrackedPeers

-----------------------------------------------------------------------------
\* _scheduleReconnect keeps the types, gives every peer in the map a timer unless its
\* attempts are used up, and takes none away.
LEMMA ScheduleReconnectPursues ==
    ASSUME NEW peers \in SUBSET BootstrapPeers, BootstrapIInv, ScheduleReconnect(peers)
    PROVE  /\ reconnectAttempts' \in [BootstrapPeers -> 0 .. MaxReconnectAttempts]
           /\ reconnectTimers \subseteq reconnectTimers'
           /\ reconnectTimers' \subseteq tracked
           /\ \A p \in BootstrapPeers : reconnectAttempts'[p] >= reconnectAttempts[p]
           /\ \A p \in peers \cap tracked :
                  p \in reconnectTimers' \/ reconnectAttempts'[p] >= MaxReconnectAttempts
  <1>. USE BootstrapAssumption DEF BootstrapIInv, BootstrapTypeOK, TimersAreOfTrackedPeers
  <1>1. reconnectAttempts \in [BootstrapPeers -> 0 .. MaxReconnectAttempts]
    OBVIOUS
  <1>2. \A p \in BootstrapPeers : reconnectAttempts'[p] \in 0 .. MaxReconnectAttempts
                                   /\ reconnectAttempts'[p] >= reconnectAttempts[p]
    BY <1>1 DEF ScheduleReconnect
  <1>3. reconnectAttempts' \in [BootstrapPeers -> 0 .. MaxReconnectAttempts]
    BY <1>1, <1>2 DEF ScheduleReconnect
  <1>4. \A p \in peers \cap tracked :
            p \in reconnectTimers' \/ reconnectAttempts'[p] >= MaxReconnectAttempts
    BY <1>1 DEF ScheduleReconnect
  <1>5. reconnectTimers \subseteq reconnectTimers' /\ reconnectTimers' \subseteq tracked
    BY DEF ScheduleReconnect
  <1>. QED BY <1>2, <1>3, <1>4, <1>5

\* _handleBootstrapConnect keeps the types and what is known of the other peers.
LEMMA ConnectKeeps ==
    ASSUME NEW p \in BootstrapPeers, BootstrapIInv, HandleBootstrapConnect(p)
    PROVE  /\ isConnected' \subseteq tracked
           /\ reconnectAttempts' \in [BootstrapPeers -> 0 .. MaxReconnectAttempts]
           /\ reconnectTimers' \subseteq tracked
           /\ \A q \in BootstrapPeers \ {p} :
                  /\ reconnectAttempts'[q] = reconnectAttempts[q]
                  /\ q \in reconnectTimers' <=> q \in reconnectTimers
  BY BootstrapAssumption
     DEF HandleBootstrapConnect, BootstrapIInv, BootstrapTypeOK, TimersAreOfTrackedPeers

\* _handleBootstrapDisconnect keeps the types, and pursues the peers while it runs.
LEMMA DisconnectPursues ==
    ASSUME NEW peers \in SUBSET BootstrapPeers, BootstrapIInv, HandleBootstrapDisconnect(peers)
    PROVE  /\ isConnected' \subseteq tracked
           /\ reconnectAttempts' \in [BootstrapPeers -> 0 .. MaxReconnectAttempts]
           /\ reconnectTimers \subseteq reconnectTimers'
           /\ reconnectTimers' \subseteq tracked
           /\ \A p \in BootstrapPeers : reconnectAttempts'[p] >= reconnectAttempts[p]
           /\ isStarted => \A p \in peers \cap tracked :
                  p \in reconnectTimers' \/ reconnectAttempts'[p] >= MaxReconnectAttempts
  <1>1. isConnected' \subseteq tracked
    BY DEF HandleBootstrapDisconnect, BootstrapIInv, BootstrapTypeOK
  <1>2. CASE isStarted
    BY <1>1, <1>2, ScheduleReconnectPursues DEF HandleBootstrapDisconnect
  <1>3. CASE ~isStarted
    BY <1>1, <1>3, BootstrapAssumption
       DEF HandleBootstrapDisconnect, BootstrapIInv, BootstrapTypeOK, TimersAreOfTrackedPeers
  <1>. QED BY <1>2, <1>3

\* The end of a dial takes one away and leaves those to other peers.
LEMMA SettlingKeeps ==
    ASSUME NEW p \in BootstrapPeers, NEW c \in StartCalls \cup {0}, BootstrapIInv,
           DialSettles(p, c)
    PROVE  /\ dials' \in [BootstrapPeers -> 0 .. MaxDials]
           /\ startDials' \in [StartCalls -> SUBSET BootstrapPeers]
           /\ \A q \in BootstrapPeers \ {p} : DialPending(q) => DialPending(q)'
  <1>. USE BootstrapAssumption DEF BootstrapIInv, BootstrapTypeOK, StartCalls
  <1>1. CASE c = 0
    <2>1. dials' = [dials EXCEPT ![p] = @ - 1] /\ dials[p] > 0 /\ startDials' = startDials
      BY <1>1 DEF DialSettles
    <2>2. dials[p] - 1 \in 0 .. MaxDials
      BY <2>1
    <2>3. dials' \in [BootstrapPeers -> 0 .. MaxDials]
      BY <2>1, <2>2
    <2>. QED BY <2>1, <2>3 DEF DialPending
  <1>2. CASE c # 0
    <2>1. /\ startDials' = [startDials EXCEPT ![c] = startDials[c] \ {p}] /\ c \in StartCalls
          /\ dials' = dials
      BY <1>2 DEF DialSettles
    <2>2. startDials' \in [StartCalls -> SUBSET BootstrapPeers]
      BY <2>1
    <2>3. ASSUME NEW q \in BootstrapPeers \ {p}, NEW d \in StartCalls, q \in startDials[d]
          PROVE  q \in startDials'[d]
      BY <2>1, <2>3
    <2>. QED BY <2>1, <2>2, <2>3 DEF DialPending
  <1>. QED BY <1>1, <1>2

-----------------------------------------------------------------------------
LEMMA BootstrapInitIInv == BootstrapInit => BootstrapIInv
  <1>. SUFFICES ASSUME BootstrapInit PROVE BootstrapIInv
    OBVIOUS
  <1>. USE BootstrapAssumption DEF BootstrapInit
  <1>1. startDials \in [StartCalls -> SUBSET BootstrapPeers]
    OBVIOUS
  <1>2. /\ reconnectAttempts \in [BootstrapPeers -> 0 .. MaxReconnectAttempts]
        /\ dials \in [BootstrapPeers -> 0 .. MaxDials]
    OBVIOUS
  <1>3. starts \in 0 .. MaxStarts /\ pendingStarts \subseteq StartCalls
    OBVIOUS
  <1>4. /\ nodeUp \in BOOLEAN /\ isStarted \in BOOLEAN
        /\ healthCheckInterval \in BOOLEAN /\ leakedInterval \in BOOLEAN
        /\ connections \subseteq BootstrapPeers
    OBVIOUS
  <1>5. /\ {unnoticed, tracked, isConnected, reconnectTimers} = {{}}
    OBVIOUS
  <1>. QED BY <1>1, <1>2, <1>3, <1>4, <1>5 DEF BootstrapIInv, BootstrapTypeOK, TimersAreOfTrackedPeers

LEMMA BootstrapStepIInv ==
    BootstrapIInv /\ [BootstrapNext]_bootstrapVars => BootstrapIInv'
  <1>. SUFFICES ASSUME BootstrapIInv, [BootstrapNext]_bootstrapVars
                PROVE  BootstrapIInv'
    OBVIOUS
  <1>. USE BootstrapAssumption
  <1>1. CASE StartManager
    BY <1>1 DEF StartManager, BootstrapIInv, BootstrapTypeOK, TimersAreOfTrackedPeers, StartCalls
  <1>2. ASSUME NEW c \in StartCalls, StartManagerResume(c) PROVE BootstrapIInv'
    BY <1>2 DEF StartManagerResume, BootstrapIInv, BootstrapTypeOK, TimersAreOfTrackedPeers
  <1>3. CASE StopManager
    BY <1>3 DEF StopManager, BootstrapIInv, BootstrapTypeOK, TimersAreOfTrackedPeers
  <1>4. ASSUME NEW p \in BootstrapPeers, ConnectBootstrap(p) PROVE BootstrapIInv'
    BY <1>4 DEF ConnectBootstrap, BootstrapIInv, BootstrapTypeOK, TimersAreOfTrackedPeers
  <1>5. ASSUME NEW p \in BootstrapPeers, ReconnectBootstrap(p) PROVE BootstrapIInv'
    BY <1>5 DEF ReconnectBootstrap, BootstrapIInv, BootstrapTypeOK, TimersAreOfTrackedPeers
  <1>6. ASSUME NEW p \in BootstrapPeers, ReconnectTimerFires(p) PROVE BootstrapIInv'
    BY <1>6 DEF ReconnectTimerFires, BootstrapIInv, BootstrapTypeOK, TimersAreOfTrackedPeers
  <1>7. ASSUME NEW p \in BootstrapPeers, NEW c \in StartCalls \cup {0}, DialSucceeds(p, c)
        PROVE  BootstrapIInv'
    <2>1. /\ isConnected' \subseteq tracked
          /\ reconnectAttempts' \in [BootstrapPeers -> 0 .. MaxReconnectAttempts]
          /\ reconnectTimers' \subseteq tracked
      <3>1. CASE p \in connections
        BY <1>7, <3>1
           DEF DialSucceeds, BootstrapIInv, BootstrapTypeOK, TimersAreOfTrackedPeers
      <3>2. CASE p \notin connections
        BY <1>7, <3>2, ConnectKeeps DEF DialSucceeds
      <3>. QED BY <3>1, <3>2
    <2>2. /\ dials' \in [BootstrapPeers -> 0 .. MaxDials]
          /\ startDials' \in [StartCalls -> SUBSET BootstrapPeers]
      BY <1>7, SettlingKeeps DEF DialSucceeds
    <2>. QED
      BY <1>7, <2>1, <2>2
         DEF DialSucceeds, BootstrapIInv, BootstrapTypeOK, TimersAreOfTrackedPeers
  <1>8. ASSUME NEW p \in BootstrapPeers, NEW c \in StartCalls \cup {0}, DialFails(p, c)
        PROVE  BootstrapIInv'
    <2>1. /\ reconnectAttempts' \in [BootstrapPeers -> 0 .. MaxReconnectAttempts]
          /\ reconnectTimers' \subseteq tracked
      BY <1>8, ScheduleReconnectPursues DEF DialFails
    <2>2. /\ dials' \in [BootstrapPeers -> 0 .. MaxDials]
          /\ startDials' \in [StartCalls -> SUBSET BootstrapPeers]
      BY <1>8, SettlingKeeps DEF DialFails
    <2>. QED
      BY <1>8, <2>1, <2>2
         DEF DialFails, BootstrapIInv, BootstrapTypeOK, TimersAreOfTrackedPeers
  <1>9. ASSUME NEW p \in BootstrapPeers, PeerConnects(p) PROVE BootstrapIInv'
    BY <1>9, ConnectKeeps
       DEF PeerConnects, BootstrapIInv, BootstrapTypeOK, TimersAreOfTrackedPeers
  <1>10. ASSUME NEW p \in BootstrapPeers, PeerDisconnects(p) PROVE BootstrapIInv'
    <2>1. /\ isConnected' \subseteq tracked
          /\ reconnectAttempts' \in [BootstrapPeers -> 0 .. MaxReconnectAttempts]
          /\ reconnectTimers' \subseteq tracked
      BY <1>10, DisconnectPursues DEF PeerDisconnects
    <2>. QED
      BY <1>10, <2>1
         DEF PeerDisconnects, BootstrapIInv, BootstrapTypeOK, TimersAreOfTrackedPeers
  <1>11. ASSUME NEW p \in BootstrapPeers, DisconnectEventIsLost(p) PROVE BootstrapIInv'
    BY <1>11 DEF DisconnectEventIsLost, managerVars, BootstrapIInv, BootstrapTypeOK,
                 TimersAreOfTrackedPeers
  <1>12. CASE HealthCheck
    <2>1. isConnected \ connections \in SUBSET BootstrapPeers
      BY DEF BootstrapIInv, BootstrapTypeOK
    <2>2. /\ isConnected' \subseteq tracked
          /\ reconnectAttempts' \in [BootstrapPeers -> 0 .. MaxReconnectAttempts]
          /\ reconnectTimers' \subseteq tracked
      BY <1>12, <2>1, DisconnectPursues DEF HealthCheck
    <2>. QED
      BY <1>12, <2>2 DEF HealthCheck, BootstrapIInv, BootstrapTypeOK, TimersAreOfTrackedPeers
  <1>13. CASE NodeStops
    <2>1. connections \in SUBSET BootstrapPeers
      BY DEF BootstrapIInv, BootstrapTypeOK
    <2>2. /\ isConnected' \subseteq tracked
          /\ reconnectAttempts' \in [BootstrapPeers -> 0 .. MaxReconnectAttempts]
          /\ reconnectTimers' \subseteq tracked
      BY <1>13, <2>1, DisconnectPursues DEF NodeStops
    <2>. QED
      BY <1>13, <2>2 DEF NodeStops, BootstrapIInv, BootstrapTypeOK, TimersAreOfTrackedPeers
  <1>14. CASE NodeStarts
    BY <1>14 DEF NodeStarts, managerVars, BootstrapIInv, BootstrapTypeOK,
                 TimersAreOfTrackedPeers
  <1>15. CASE UNCHANGED bootstrapVars
    BY <1>15 DEF bootstrapVars, managerVars, BootstrapIInv, BootstrapTypeOK,
                 TimersAreOfTrackedPeers
  <1>. QED
    BY <1>1, <1>2, <1>3, <1>4, <1>5, <1>6, <1>7, <1>8, <1>9, <1>10, <1>11, <1>12, <1>13,
       <1>14, <1>15 DEF BootstrapNext

-----------------------------------------------------------------------------
LEMMA BootstrapInvariant == BootstrapSpec => []BootstrapIInv
  BY BootstrapInitIInv, BootstrapStepIInv, PTL DEF BootstrapSpec

\* Every variable of the manager keeps its type; attempts and dials their bounds.
THEOREM BootstrapTypeCorrect == BootstrapSpec => []BootstrapTypeOK
  <1>1. BootstrapIInv => BootstrapTypeOK
    BY DEF BootstrapIInv
  <1>. QED BY <1>1, BootstrapInvariant, PTL

\* No timer of _scheduleReconnect is left for a peer that is not in the map, so none
\* survives stop().
THEOREM NoTimerSurvives == BootstrapSpec => []TimersAreOfTrackedPeers
  <1>1. BootstrapIInv => TimersAreOfTrackedPeers
    BY DEF BootstrapIInv
  <1>. QED BY <1>1, BootstrapInvariant, PTL

\* What is left to dials and timers in a step that changes neither.
LEMMA PursuitIsKept ==
    ASSUME BootstrapIInv, BootstrapIInv', LostPeerIsPursued, NEW p \in tracked', isStarted',
           isStarted, p \in tracked, p \notin connections \cup unnoticed,
           DialPending(p) => DialPending(p)',
           p \in reconnectTimers => p \in reconnectTimers',
           reconnectAttempts'[p] >= reconnectAttempts[p]
    PROVE  \/ DialPending(p)' \/ p \in reconnectTimers'
           \/ reconnectAttempts'[p] >= MaxReconnectAttempts
  <1>1. p \in BootstrapPeers
    BY DEF BootstrapIInv, BootstrapTypeOK
  <1>2. /\ reconnectAttempts[p] \in Nat
        /\ reconnectAttempts'[p] \in Nat
        /\ MaxReconnectAttempts \in Nat
    BY <1>1, BootstrapAssumption DEF BootstrapIInv, BootstrapTypeOK
  <1>. QED BY <1>2 DEF LostPeerIsPursued

LEMMA PursuitStep ==
    BootstrapIInv /\ BootstrapIInv' /\ LostPeerIsPursued /\ [BootstrapNext]_bootstrapVars
        => LostPeerIsPursued'
  <1>. DEFINE Lost(p) == p \in tracked \ (connections \cup unnoticed)
              Pursued(p) == \/ DialPending(p) \/ p \in reconnectTimers
                            \/ reconnectAttempts[p] >= MaxReconnectAttempts
  <1>. SUFFICES ASSUME BootstrapIInv, BootstrapIInv', LostPeerIsPursued,
                       [BootstrapNext]_bootstrapVars, isStarted',
                       NEW p \in tracked', p \notin connections', p \notin unnoticed'
                PROVE  Pursued(p)'
    BY DEF LostPeerIsPursued
  <1>0. /\ p \in BootstrapPeers
        /\ tracked \subseteq BootstrapPeers
        /\ isConnected \subseteq tracked
        /\ connections \subseteq BootstrapPeers
        /\ \A q \in BootstrapPeers : reconnectAttempts[q] \in Nat
        /\ \A q \in BootstrapPeers : dials[q] \in Nat
    BY BootstrapAssumption DEF BootstrapIInv, BootstrapTypeOK
  <1>. USE <1>0
  <1>k. ASSUME isStarted, Lost(p), DialPending(p) => DialPending(p)',
               p \in reconnectTimers => p \in reconnectTimers',
               reconnectAttempts'[p] >= reconnectAttempts[p]
        PROVE  Pursued(p)'
    BY <1>k, PursuitIsKept
  <1>1. CASE StartManager
    <2>1. /\ starts + 1 \in StartCalls
          /\ startDials \in [StartCalls -> SUBSET BootstrapPeers]
      BY <1>1, BootstrapAssumption DEF StartManager, StartCalls, BootstrapIInv, BootstrapTypeOK
    <2>2. p \in startDials'[starts + 1]
      BY <1>1, <2>1 DEF StartManager
    <2>. QED BY <2>1, <2>2 DEF DialPending
  <1>2. ASSUME NEW c \in StartCalls, StartManagerResume(c) PROVE Pursued(p)'
    BY <1>2, <1>k DEF StartManagerResume, DialPending
  <1>3. CASE StopManager
    BY <1>3 DEF StopManager
  <1>4. ASSUME NEW q \in BootstrapPeers, ConnectBootstrap(q) PROVE Pursued(p)'
    <2>1. CASE p = q
      BY <1>4, <2>1 DEF ConnectBootstrap, DialPending, BootstrapIInv, BootstrapTypeOK
    <2>2. CASE p # q
      BY <1>4, <2>2, <1>k DEF ConnectBootstrap, DialPending, BootstrapIInv, BootstrapTypeOK
    <2>. QED BY <2>1, <2>2
  <1>5. ASSUME NEW q \in BootstrapPeers, ReconnectBootstrap(q) PROVE Pursued(p)'
    <2>1. CASE p = q
      BY <1>5, <2>1 DEF ReconnectBootstrap, DialPending, BootstrapIInv, BootstrapTypeOK
    <2>2. CASE p # q
      BY <1>5, <2>2, <1>k DEF ReconnectBootstrap, DialPending, BootstrapIInv, BootstrapTypeOK
    <2>. QED BY <2>1, <2>2
  <1>6. ASSUME NEW q \in BootstrapPeers, ReconnectTimerFires(q) PROVE Pursued(p)'
    <2>1. q \in tracked
      BY <1>6 DEF ReconnectTimerFires, BootstrapIInv, TimersAreOfTrackedPeers
    <2>2. CASE p = q
      BY <1>6, <2>1, <2>2
         DEF ReconnectTimerFires, DialPending, BootstrapIInv, BootstrapTypeOK
    <2>3. CASE p # q
      BY <1>6, <2>3, <1>k DEF ReconnectTimerFires, DialPending, BootstrapIInv, BootstrapTypeOK
    <2>. QED BY <2>2, <2>3
  <1>7. ASSUME NEW q \in BootstrapPeers, NEW c \in StartCalls \cup {0}, DialSucceeds(q, c)
        PROVE  Pursued(p)'
    <2>1. p # q /\ isStarted /\ Lost(p)
      BY <1>7 DEF DialSucceeds
    <2>2. DialPending(p) => DialPending(p)'
      BY <1>7, <2>1, SettlingKeeps DEF DialSucceeds
    <2>3. /\ p \in reconnectTimers => p \in reconnectTimers'
          /\ reconnectAttempts'[p] >= reconnectAttempts[p]
      <3>1. CASE q \in connections
        BY <1>7, <3>1 DEF DialSucceeds
      <3>2. CASE q \notin connections
        BY <1>7, <2>1, <3>2, ConnectKeeps DEF DialSucceeds
      <3>. QED BY <3>1, <3>2
    <2>. QED BY <2>1, <2>2, <2>3, <1>k
  <1>8. ASSUME NEW q \in BootstrapPeers, NEW c \in StartCalls \cup {0}, DialFails(q, c)
        PROVE  Pursued(p)'
    <2>1. isStarted /\ Lost(p)
      BY <1>8 DEF DialFails
    <2>2. CASE p = q
      BY <1>8, <2>1, <2>2, ScheduleReconnectPursues DEF DialFails
    <2>3. CASE p # q
      <3>1. DialPending(p) => DialPending(p)'
        BY <1>8, <2>3, SettlingKeeps DEF DialFails
      <3>2. /\ p \in reconnectTimers => p \in reconnectTimers'
            /\ reconnectAttempts'[p] >= reconnectAttempts[p]
        BY <1>8, ScheduleReconnectPursues DEF DialFails
      <3>. QED BY <2>1, <3>1, <3>2, <1>k
    <2>. QED BY <2>2, <2>3
  <1>9. ASSUME NEW q \in BootstrapPeers, PeerConnects(q) PROVE Pursued(p)'
    <2>1. p # q /\ isStarted /\ Lost(p)
      BY <1>9 DEF PeerConnects
    <2>2. /\ p \in reconnectTimers => p \in reconnectTimers'
          /\ reconnectAttempts'[p] >= reconnectAttempts[p]
      BY <1>9, <2>1, ConnectKeeps DEF PeerConnects
    <2>. QED BY <1>9, <2>1, <2>2, <1>k DEF PeerConnects, DialPending
  <1>10. ASSUME NEW q \in BootstrapPeers, PeerDisconnects(q) PROVE Pursued(p)'
    <2>1. isStarted /\ p \in tracked /\ p \notin unnoticed
      BY <1>10 DEF PeerDisconnects
    <2>2. CASE p = q
      BY <1>10, <2>1, <2>2, DisconnectPursues DEF PeerDisconnects
    <2>3. CASE p # q
      <3>1. Lost(p)
        BY <1>10, <2>1, <2>3 DEF PeerDisconnects
      <3>2. /\ p \in reconnectTimers => p \in reconnectTimers'
            /\ reconnectAttempts'[p] >= reconnectAttempts[p]
        BY <1>10, DisconnectPursues DEF PeerDisconnects
      <3>. QED BY <1>10, <2>1, <3>1, <3>2, <1>k DEF PeerDisconnects, DialPending
    <2>. QED BY <2>2, <2>3
  <1>11. ASSUME NEW q \in BootstrapPeers, DisconnectEventIsLost(q) PROVE Pursued(p)'
    BY <1>11, <1>k DEF DisconnectEventIsLost, managerVars, DialPending
  <1>12. CASE HealthCheck
    <2>1. isStarted /\ p \in tracked /\ p \notin connections
      BY <1>12 DEF HealthCheck
    <2>2. isConnected \ connections \in SUBSET BootstrapPeers
      OBVIOUS
    <2>3. CASE p \in isConnected
      BY <1>12, <2>1, <2>2, <2>3, DisconnectPursues DEF HealthCheck
    <2>4. CASE p \notin isConnected
      <3>1. Lost(p)
        BY <1>12, <2>1, <2>4 DEF HealthCheck
      <3>2. /\ p \in reconnectTimers => p \in reconnectTimers'
            /\ reconnectAttempts'[p] >= reconnectAttempts[p]
        BY <1>12, <2>2, DisconnectPursues DEF HealthCheck
      <3>. QED BY <1>12, <2>1, <3>1, <3>2, <1>k DEF HealthCheck, DialPending
    <2>. QED BY <2>3, <2>4
  <1>13. CASE NodeStops
    <2>1. isStarted /\ p \in tracked /\ p \notin unnoticed
      BY <1>13 DEF NodeStops
    <2>2. CASE p \in connections
      BY <1>13, <2>1, <2>2, DisconnectPursues DEF NodeStops
    <2>3. CASE p \notin connections
      <3>1. /\ p \in reconnectTimers => p \in reconnectTimers'
            /\ reconnectAttempts'[p] >= reconnectAttempts[p]
        BY <1>13, DisconnectPursues DEF NodeStops
      <3>. QED BY <1>13, <2>1, <2>3, <3>1, <1>k DEF NodeStops, DialPending
    <2>. QED BY <2>2, <2>3
  <1>14. CASE NodeStarts
    BY <1>14, <1>k DEF NodeStarts, managerVars, DialPending
  <1>15. CASE UNCHANGED bootstrapVars
    BY <1>15, <1>k DEF bootstrapVars, managerVars, DialPending
  <1>. QED
    BY <1>1, <1>2, <1>3, <1>4, <1>5, <1>6, <1>7, <1>8, <1>9, <1>10, <1>11, <1>12, <1>13,
       <1>14, <1>15 DEF BootstrapNext

\* While it runs, the manager pursues every peer in its map whose connection it knows to
\* be lost: _scheduleReconnect, the timers, the dials and the health check leave no gap.
THEOREM NoPeerIsGivenUp == BootstrapSpec => []LostPeerIsPursued
  <1>1. BootstrapInit => LostPeerIsPursued
    BY DEF BootstrapInit, LostPeerIsPursued
  <1>. QED BY <1>1, PursuitStep, BootstrapInvariant, PTL DEF BootstrapSpec
=============================================================================
