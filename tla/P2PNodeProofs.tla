---------------------------- MODULE P2PNodeProofs ----------------------------
(***************************************************************************)
(* Proofs about the life of a node, for any keys, bounds and network,      *)
(* what it keeps in step with libp2p, for any protocols and peers, and its *)
(* queue of announcements, for any number of flushes that overlap.         *)
(***************************************************************************)
EXTENDS P2PPeers, FiniteSetTheorems, TLAPS

\* Inside stop(), what is stopped already; it keeps other calls of start() out.
StopProgress ==
    stopped =>
        /\ startPC = "idle"
        /\ ~monitor
        /\ stopPC # "stopping" => ~gossipSubMonitor /\ ~dhtCleanup /\ ~queueCleanup
        /\ stopPC = "idle" => ~node /\ connectionState = "disconnected"

LifeIInv == OperationalMeansNode /\ StopProgress

-----------------------------------------------------------------------------
LEMMA NextStateNeedsNode ==
    ~node => NextConnectionState = "disconnected"
  BY DEF NextConnectionState

LEMMA LifeInit == NodeInit => LifeIInv
  BY DEF NodeInit, LifeIInv, OperationalMeansNode, StopProgress, Operational

LEMMA LifeStep == LifeIInv /\ [NodeNext]_nodeVars => LifeIInv'
  <1>. SUFFICES ASSUME LifeIInv, [NodeNext]_nodeVars PROVE LifeIInv'
    OBVIOUS
  <1>. USE DEF LifeIInv, OperationalMeansNode, StopProgress, Operational
  <1>k. ASSUME UNCHANGED lifeVars PROVE LifeIInv'
    BY <1>k DEF lifeVars
  <1>1. CASE StartNode
    BY <1>1 DEF StartNode
  <1>2. CASE NodeIsCreated
    BY <1>2 DEF NodeIsCreated
  <1>3. CASE NodeIsStarted
    BY <1>3 DEF NodeIsStarted
  <1>4. CASE BootstrapIsDone
    BY <1>4 DEF BootstrapIsDone
  <1>5. CASE StopNode
    BY <1>5 DEF StopNode
  <1>6. CASE StopNodeResume
    BY <1>6 DEF StopNodeResume, Disconnect
  <1>7. CASE ShutdownNode
    BY <1>7 DEF ShutdownNode, Disconnect
  <1>8. CASE NodeIsClosed
    BY <1>8 DEF NodeIsClosed, Disconnect
  <1>9. CASE MonitorTick
    <2>1. ~stopped /\ stopped' = stopped /\ node' = node
      BY <1>9 DEF MonitorTick
    <2>2. ~node => connectionState' = "disconnected"
      BY <1>9, NextStateNeedsNode DEF MonitorTick
    <2>. QED BY <2>1, <2>2
  <1>10. CASE QueueCleanupTick
    BY <1>10, <1>k DEF QueueCleanupTick
  <1>11. CASE NetworkChanges
    BY <1>11 DEF NetworkChanges
  <1>12. CASE \E key \in ResourceKeys : AnnounceResource(key)
    BY <1>12, <1>k DEF AnnounceResource
  <1>13. CASE \E f \in Flushes : FlushStep(f)
    BY <1>13, <1>k DEF FlushStep
  <1>14. CASE UNCHANGED nodeVars
    BY <1>14, <1>k DEF nodeVars
  <1>. QED
    BY <1>1, <1>2, <1>3, <1>4, <1>5, <1>6, <1>7, <1>8, <1>9, <1>10, <1>11, <1>12, <1>13,
       <1>14 DEF NodeNext

LEMMA LifeInvariant == NodeSpec => []LifeIInv
  BY LifeInit, LifeStep, PTL DEF NodeSpec

\* However start(), stop() and shutdown() overlap, an operational connection state is
\* reported only while there is a node.
THEOREM OperationalNeedsNode == NodeSpec => []OperationalMeansNode
  <1>1. LifeIInv => OperationalMeansNode
    BY DEF LifeIInv
  <1>. QED BY <1>1, LifeInvariant, PTL

\* stop() that met no start() leaves no interval and no node behind.
THEOREM StopIsComplete == NodeSpec => []StopLeavesNothing
  <1>1. LifeIInv => StopLeavesNothing
    BY DEF LifeIInv, StopProgress, StopLeavesNothing
  <1>. QED BY <1>1, LifeInvariant, PTL

-----------------------------------------------------------------------------
(***************************************************************************)
(* Protocols and peers.  A node that is being started, or whose start has  *)
(* failed, has no connection that anybody was told of: that is what lets   *)
(* it be replaced.                                                         *)
(***************************************************************************)
IsFresh == startPC \in {"creating", "starting"} \/ connectionState = "error" \/ ~node

NobodyTold == IsFresh => told = {} /\ connected = {}

PeersIInv == NodeIsInStep /\ NobodyTold /\ connected \subseteq peerInfo

LEMMA PeersStep == PeersIInv /\ [PeersNext]_peersVars => PeersIInv'
  <1>. SUFFICES ASSUME PeersIInv, [PeersNext]_peersVars PROVE PeersIInv'
    OBVIOUS
  <1>. USE DEF PeersIInv, NodeIsInStep, NobodyTold, IsFresh
  \* A step that touches neither the maps nor what makes a node fresh.
  <1>k. ASSUME UNCHANGED <<peersOnlyVars, node>>, IsFresh' => IsFresh PROVE PeersIInv'
    BY <1>k DEF peersOnlyVars
  <1>1. CASE NodeAlone
    <2>1. CASE StartNode
      BY <1>1, <2>1, <1>k DEF NodeAlone, StartNode
    <2>2. CASE NodeIsStarted
      BY <1>1, <2>2, <1>k DEF NodeAlone, NodeIsStarted
    <2>3. CASE BootstrapIsDone
      BY <1>1, <2>3, <1>k DEF NodeAlone, BootstrapIsDone
    <2>4. CASE StopNode
      BY <1>1, <2>4, <1>k DEF NodeAlone, StopNode
    <2>5. CASE node /\ (StopNodeResume \/ ShutdownNode)
      BY <1>1, <2>5, <1>k DEF NodeAlone, StopNodeResume, ShutdownNode
    <2>6. CASE MonitorTick
      <3>1. node' = node /\ startPC' = startPC
        BY <2>6 DEF MonitorTick
      <3>2. connectionState' = "error" => connectionState = "error"
        BY <2>6 DEF MonitorTick, NextConnectionState
      <3>. QED BY <1>1, <1>k, <3>1, <3>2 DEF NodeAlone
    <2>7. CASE \/ QueueCleanupTick
               \/ \E key \in ResourceKeys : AnnounceResource(key)
               \/ \E f \in Flushes : FlushStep(f)
      <3>1. UNCHANGED lifeVars
        BY <2>7 DEF QueueCleanupTick, AnnounceResource, FlushStep
      <3>. QED BY <1>1, <1>k, <3>1 DEF NodeAlone, lifeVars
    <2>. QED BY <1>1, <2>1, <2>2, <2>3, <2>4, <2>5, <2>6, <2>7 DEF NodeAlone
  <1>2. CASE SetUpNode
    BY <1>2 DEF SetUpNode, NodeIsCreated
  <1>3. CASE ForgetNode
    BY <1>3 DEF ForgetNode
  <1>4. ASSUME NEW h \in Protocols, RegisterProtocol(h) \/ UnregisterProtocol(h)
        PROVE  PeersIInv'
    BY <1>4 DEF RegisterProtocol, UnregisterProtocol, nodeVars, lifeVars
  <1>5. ASSUME NEW p \in NodePeers, OnPeerConnect(p) PROVE PeersIInv'
    BY <1>5 DEF OnPeerConnect, NetworkChanges, IsUp
  <1>6. ASSUME NEW p \in NodePeers, OnPeerDisconnect(p) PROVE PeersIInv'
    BY <1>6 DEF OnPeerDisconnect, NetworkChanges
  <1>7. ASSUME NEW p \in NodePeers, PeerIsSeen(p) PROVE PeersIInv'
    BY <1>7 DEF PeerIsSeen, nodeVars, lifeVars
  <1>8. CASE UNCHANGED peersVars
    BY <1>8, <1>k DEF peersVars, nodeVars, lifeVars
  <1>. QED
    BY <1>1, <1>2, <1>3, <1>4, <1>5, <1>6, <1>7, <1>8 DEF PeersNext

\* While there is a node, it takes streams of exactly the registered protocols, and the
\* application has been told of exactly the connected peers.
THEOREM NodeKeepsInStep == PeersSpec => []NodeIsInStep
  <1>1. PeersInit => PeersIInv
    BY DEF PeersInit, NodeInit, PeersIInv, NodeIsInStep, NobodyTold
  <1>2. PeersIInv => NodeIsInStep
    BY DEF PeersIInv
  <1>. QED BY <1>1, <1>2, PeersStep, PTL DEF PeersSpec

\* The maps of protocols and peers are changes of the node's own steps: what holds of a
\* node by itself holds of it here.
LEMMA PeersAreNodeSteps == [PeersNext]_peersVars => [NodeNext]_nodeVars
  <1>. SUFFICES ASSUME [PeersNext]_peersVars PROVE [NodeNext]_nodeVars
    OBVIOUS
  <1>1. CASE NodeAlone
    BY <1>1 DEF NodeAlone, NodeNext
  <1>2. CASE SetUpNode \/ ForgetNode
    BY <1>2 DEF SetUpNode, ForgetNode, NodeNext
  <1>3. CASE \E h \in Protocols : RegisterProtocol(h) \/ UnregisterProtocol(h)
    BY <1>3 DEF RegisterProtocol, UnregisterProtocol
  <1>4. CASE \E p \in NodePeers : OnPeerConnect(p) \/ OnPeerDisconnect(p)
    BY <1>4 DEF OnPeerConnect, OnPeerDisconnect, NodeNext
  <1>5. CASE \E p \in NodePeers : PeerIsSeen(p)
    BY <1>5 DEF PeerIsSeen
  <1>6. CASE UNCHANGED peersVars
    BY <1>6 DEF peersVars
  <1>. QED BY <1>1, <1>2, <1>3, <1>4, <1>5, <1>6 DEF PeersNext

\* A node with its protocols and peers is a node: every step of it is one of NodeSpec or
\* leaves the node alone.
THEOREM PeersImplementNode == PeersSpec => NodeSpec
  <1>1. PeersInit => NodeInit
    BY DEF PeersInit
  <1>. QED BY <1>1, PeersAreNodeSteps, PTL DEF PeersSpec, NodeSpec
-----------------------------------------------------------------------------
(***************************************************************************)
(* The queue of the node.  Taking keys out of it leaves a queue with what  *)
(* was in it, without these keys.                                          *)
(***************************************************************************)
LEMMA PlaceExists ==
    ASSUME NEW n \in Nat, NEW S \in SUBSET (1 .. n), NEW k \in 1 .. Cardinality(S)
    PROVE  \E i \in S : Cardinality({j \in S : j <= i}) = k
  <1> DEFINE Upto(i) == {j \in S : j <= i}
             rank == [i \in S |-> Cardinality(Upto(i))]
             size == Cardinality(S)
  <1>1. IsFiniteSet(S) /\ size \in Nat
    <2>1. IsFiniteSet(1 .. n)
      BY FS_Interval
    <2>2. IsFiniteSet(S)
      BY <2>1, FS_Subset
    <2>. QED BY <2>2, FS_CardinalityType
  <1>2. ASSUME NEW i \in S PROVE IsFiniteSet(Upto(i)) /\ Cardinality(Upto(i)) \in Nat
    <2>1. Upto(i) \in SUBSET S
      OBVIOUS
    <2>2. IsFiniteSet(Upto(i))
      BY <1>1, <2>1, FS_Subset
    <2>. QED BY <2>2, FS_CardinalityType
  <1>3. ASSUME NEW i \in S PROVE rank[i] \in 1 .. size
    <2>1. Upto(i) \in SUBSET S /\ Upto(i) # {}
      OBVIOUS
    <2>2. Cardinality(Upto(i)) <= size
      BY <1>1, <2>1, FS_Subset
    <2>3. Cardinality(Upto(i)) # 0
      BY <1>2, <2>1, FS_EmptySet
    <2>. QED BY <1>1, <1>2, <2>2, <2>3
  <1>4. ASSUME NEW i \in S, NEW j \in S, i < j PROVE rank[i] # rank[j]
    <2>1. Upto(i) \in SUBSET Upto(j) /\ Upto(i) # Upto(j)
      <3>1. \A l \in S : l \in Nat
        OBVIOUS
      <3>2. j \in Upto(j) /\ j \notin Upto(i) /\ \A l \in Upto(i) : l \in S /\ l <= j
        BY <1>4, <3>1
      <3>. QED BY <3>2
    <2>2. IsFiniteSet(Upto(j))
      BY <1>2
    <2>. QED
      BY <2>1, <2>2, FS_Subset
  <1>5. rank \in [S -> 1 .. size]
    BY <1>3
  <1>6. \A i, j \in S : rank[i] = rank[j] => i = j
    BY <1>4
  <1>7. IsFiniteSet(1 .. size) /\ Cardinality(1 .. size) = size
    BY <1>1, FS_Interval
  <1>8. rank \in Surjection(S, 1 .. size)
    <2>1. rank \in Injection(S, 1 .. size)
      BY <1>5, <1>6 DEF Injection, IsInjective
    <2>. QED BY <1>7, <2>1, FS_Injection
  <1>. QED BY <1>8 DEF Surjection

QueueShape ==
    /\ pendingQueue \in Seq(Entries)
    /\ \A i, j \in DOMAIN pendingQueue :
           KeyOf(pendingQueue[i]) = KeyOf(pendingQueue[j]) => i = j

LEMMA WithoutKeysKeeps ==
    ASSUME QueueShape, NEW keys
    PROVE  LET queue == WithoutKeys(keys) IN
           /\ queue \in Seq(Entries) /\ Len(queue) <= Len(pendingQueue)
           /\ (\E e \in Pending : KeyOf(e) \in keys) => Len(queue) < Len(pendingQueue)
           /\ \A i \in DOMAIN queue : queue[i] \in Pending /\ KeyOf(queue[i]) \notin keys
           /\ \A i, j \in DOMAIN queue : KeyOf(queue[i]) = KeyOf(queue[j]) => i = j
  <1> DEFINE n == Len(pendingQueue)
             kept == {i \in DOMAIN pendingQueue : KeyOf(pendingQueue[i]) \notin keys}
             Upto(i) == {j \in kept : j <= i}
             place == [k \in 1 .. Cardinality(kept) |->
                           CHOOSE i \in kept : Cardinality(Upto(i)) = k]
             queue == WithoutKeys(keys)
  <1>1. /\ n \in Nat /\ DOMAIN pendingQueue = 1 .. n
        /\ \A i \in 1 .. n : pendingQueue[i] \in Entries /\ pendingQueue[i] \in Pending
    BY DEF QueueShape, Pending, ToSet
  <1>2. kept \in SUBSET (1 .. n)
    BY <1>1
  <1>3. /\ Cardinality(kept) \in Nat /\ Cardinality(kept) <= n
        /\ kept # 1 .. n => Cardinality(kept) < n
    <2> HIDE DEF n, kept
    <2>1. IsFiniteSet(1 .. n) /\ Cardinality(1 .. n) = n
      BY <1>1, FS_Interval
    <2>2. IsFiniteSet(kept) /\ Cardinality(kept) <= n /\ (Cardinality(kept) = n => kept = 1 .. n)
      <3>1. /\ IsFiniteSet(kept) /\ Cardinality(kept) <= Cardinality(1 .. n)
            /\ Cardinality(1 .. n) = Cardinality(kept) => 1 .. n = kept
        BY <1>2, <2>1, FS_Subset
      <3>. QED BY <2>1, <3>1
    <2>. QED BY <1>1, <2>2, FS_CardinalityType
  <1>4. ASSUME NEW k \in 1 .. Cardinality(kept)
        PROVE  place[k] \in kept /\ Cardinality(Upto(place[k])) = k
    <2>1. \E i \in kept : Cardinality(Upto(i)) = k
      BY <1>1, <1>2, PlaceExists
    <2>2. place[k] = CHOOSE i \in kept : Cardinality(Upto(i)) = k
      OBVIOUS
    <2> HIDE DEF kept, Upto, place
    <2>. QED BY <2>1, <2>2
  <1>5. queue = [k \in 1 .. Cardinality(kept) |-> pendingQueue[place[k]]]
    BY DEF WithoutKeys
  <1> HIDE DEF queue, place
  <1>6. /\ queue \in Seq(Entries) /\ Len(queue) = Cardinality(kept)
        /\ DOMAIN queue = 1 .. Cardinality(kept)
        /\ \A k \in 1 .. Cardinality(kept) : queue[k] = pendingQueue[place[k]]
    <2> HIDE DEF n, kept, Upto
    <2>1. \A k \in 1 .. Cardinality(kept) : pendingQueue[place[k]] \in Entries
      BY <1>1, <1>2, <1>4
    <2> DEFINE c == Cardinality(kept)
    <2>2. queue = [k \in 1 .. c |-> pendingQueue[place[k]]] /\ c \in Nat
      BY <1>3, <1>5
    <2>3. queue \in Seq(Entries)
      BY <2>1, <2>2
    <2> HIDE DEF c
    <2>4. DOMAIN queue = 1 .. c /\ Len(queue) = c
      BY <2>2, <2>3
    <2>. QED BY <2>2, <2>3, <2>4 DEF c
  <1>7. ASSUME NEW e \in Pending, KeyOf(e) \in keys PROVE kept # 1 .. n
    BY <1>1, <1>7 DEF Pending, ToSet
  <1>8. \A k \in 1 .. Cardinality(kept) :
            queue[k] \in Pending /\ KeyOf(queue[k]) \notin keys
    BY <1>1, <1>2, <1>4, <1>6
  <1>9. ASSUME NEW k \in 1 .. Cardinality(kept), NEW l \in 1 .. Cardinality(kept),
               KeyOf(queue[k]) = KeyOf(queue[l])
        PROVE  k = l
    <2>1. place[k] \in 1 .. n /\ place[l] \in 1 .. n
      <3> HIDE DEF kept, n, Upto
      <3>. QED BY <1>2, <1>4
    <2>2. KeyOf(pendingQueue[place[k]]) = KeyOf(pendingQueue[place[l]])
      BY <1>6, <1>9
    <2>3. place[k] = place[l]
      BY <1>1, <2>1, <2>2 DEF QueueShape
    <2>. QED BY <1>4, <2>3
  <1>. QED BY <1>3, <1>6, <1>7, <1>8, <1>9 DEF queue
\* The flushes that will try an entry, and those that await a put of it.
Untried(e) == {f \in Flushes : e \in untried[f]}
Sending(e) == {f \in Flushes : e \in sending[f]}

FlushesOK ==
    /\ flushing \subseteq Flushes
    /\ untried \in [Flushes -> SUBSET Entries] /\ sending \in [Flushes -> SUBSET Entries]
    /\ \A f \in Flushes :
           /\ untried[f] \cap sending[f] = {}
           /\ f \notin flushing => untried[f] = {} /\ sending[f] = {}

\* Nobody knows of an entry that is not made yet.
NotYetMade ==
    \A e \in Entries : e[2] > made =>
        e \notin Pending /\ attempts[e] = 0 /\ Untried(e) = {} /\ Sending(e) = {}

\* Each flush tries an entry once, and what is queued has failed for the last time only
\* if somebody awaits a put of it.
TriesOK ==
    /\ \A e \in Entries : attempts[e] + Cardinality(Untried(e)) <= MaxRetries + MaxFlushes
    /\ \A e \in Pending : attempts[e] <= MaxRetries + Cardinality(Sending(e))

QueueInv ==
    /\ QueueShape /\ Len(pendingQueue) <= MaxQueueSize
    /\ made \in 0 .. MaxEntries
    /\ attempts \in [Entries -> Nat]
    /\ FlushesOK /\ NotYetMade /\ TriesOK /\ RetriesAreLimited

LEMMA Disjoint ==
    ASSUME NEW F, IsFiniteSet(F), NEW U \in SUBSET F, NEW S \in SUBSET F, U \cap S = {}
    PROVE  /\ Cardinality(U) \in Nat /\ Cardinality(S) \in Nat
           /\ Cardinality(U) + Cardinality(S) <= Cardinality(F)
  <1>1. IsFiniteSet(U) /\ IsFiniteSet(S)
    BY FS_Subset
  <1>2. /\ Cardinality(U) \in Nat /\ Cardinality(S) \in Nat /\ Cardinality({}) = 0
    BY <1>1, FS_CardinalityType, FS_EmptySet
  <1>3. Cardinality(U \cup S) = Cardinality(U) + Cardinality(S) - Cardinality({})
    BY <1>1, FS_Union
  <1>4. U \cup S \in SUBSET F
    OBVIOUS
  <1>5. Cardinality(U \cup S) <= Cardinality(F)
    BY <1>4, FS_Subset
  <1>. QED BY <1>2, <1>3, <1>5

LEMMA FlushSets ==
    ASSUME NEW e
    PROVE  /\ IsFiniteSet(Untried(e)) /\ Cardinality(Untried(e)) \in Nat
           /\ IsFiniteSet(Sending(e)) /\ Cardinality(Sending(e)) \in Nat
  <1>1. IsFiniteSet(Flushes)
    BY QueueAssumption, FS_Interval DEF Flushes
  <1>2. Untried(e) \in SUBSET Flushes /\ Sending(e) \in SUBSET Flushes
    BY DEF Untried, Sending
  <1>3. IsFiniteSet(Untried(e)) /\ IsFiniteSet(Sending(e))
    BY <1>1, <1>2, FS_Subset
  <1>. QED BY <1>3, FS_CardinalityType

\* A queue with less in it, while nothing is tried or sent.
LEMMA ShrunkQueue ==
    ASSUME QueueInv, QueueShape', Len(pendingQueue') <= MaxQueueSize, Pending' \subseteq Pending,
           UNCHANGED <<made, attempts, flushing, untried, sending>>
    PROVE  QueueInv'
  <1>1. FlushesOK'
    BY DEF QueueInv, FlushesOK
  <1>2. \A e : Untried(e)' = Untried(e) /\ Sending(e)' = Sending(e)
    BY DEF Untried, Sending
  <1>3. NotYetMade' /\ TriesOK' /\ RetriesAreLimited'
    BY <1>2 DEF QueueInv, NotYetMade, TriesOK, RetriesAreLimited
  <1>. QED BY <1>1, <1>3 DEF QueueInv

LEMMA PendingOf ==
    ASSUME QueueShape
    PROVE  /\ Pending = {pendingQueue[i] : i \in 1 .. Len(pendingQueue)}
           /\ Pending \subseteq Entries
           /\ DOMAIN pendingQueue = 1 .. Len(pendingQueue) /\ Len(pendingQueue) \in Nat
  BY DEF QueueShape, Pending, ToSet

\* enqueue: in either case the new last entry is alone with its key.
LEMMA EnqueueKeeps ==
    ASSUME QueueInv, NEW key \in ResourceKeys, Enqueue(key) PROVE QueueInv'
  <1>1. /\ QueueShape /\ Len(pendingQueue) <= MaxQueueSize /\ made \in 0 .. MaxEntries
        /\ UNCHANGED <<attempts, flushing, untried, sending>>
    BY DEF QueueInv, Enqueue
  <1>2. ASSUME NEW s \in Seq(Entries), NEW e \in Entries, pendingQueue' = Append(s, e),
               \A i, j \in DOMAIN s : KeyOf(s[i]) = KeyOf(s[j]) => i = j,
               \A i \in DOMAIN s : s[i] \in Pending /\ KeyOf(s[i]) # KeyOf(e)
        PROVE  QueueShape' /\ Pending' \subseteq Pending \cup {e}
    <2> DEFINE n == Len(s)
    <2>1. /\ n \in Nat /\ DOMAIN s = 1 .. n
          /\ pendingQueue' \in Seq(Entries) /\ DOMAIN pendingQueue' = 1 .. n + 1
          /\ \A i \in 1 .. n : pendingQueue'[i] = s[i]
          /\ pendingQueue'[n + 1] = e
      BY <1>2
    <2>2. \A i \in 1 .. n + 1 : i = n + 1 \/ i \in 1 .. n
      BY <2>1
    <2> HIDE DEF n
    <2>3. \A i, j \in 1 .. n + 1 :
              KeyOf(pendingQueue'[i]) = KeyOf(pendingQueue'[j]) => i = j
      BY <1>2, <2>1, <2>2
    <2>4. \A i \in 1 .. n + 1 : pendingQueue'[i] \in Pending \cup {e}
      BY <1>2, <2>1, <2>2
    <2>. QED BY <2>1, <2>3, <2>4 DEF QueueShape, Pending, ToSet
  <1>3. CASE key \in QueuedKeys
    <2> DEFINE s == WithoutKeys({key})
               e == EntryOf(key)
    <2>1. e \in Pending /\ KeyOf(e) = key
      BY <1>3 DEF QueuedKeys, EntryOf
    <2>2. e \in Entries
      BY <1>1, <2>1, PendingOf
    <2>3. pendingQueue' = Append(s, e) /\ made' = made
      BY <1>3 DEF Enqueue
    <2> HIDE DEF e
    <2>4. /\ s \in Seq(Entries) /\ Len(s) < Len(pendingQueue)
          /\ \A i \in DOMAIN s : s[i] \in Pending /\ KeyOf(s[i]) \notin {key}
          /\ \A i, j \in DOMAIN s : KeyOf(s[i]) = KeyOf(s[j]) => i = j
      BY <1>1, <2>1, WithoutKeysKeeps
    <2> HIDE DEF s
    <2>5. QueueShape' /\ Pending' \subseteq Pending \cup {e}
      BY <1>2, <2>1, <2>2, <2>3, <2>4
    <2>6. Len(pendingQueue') <= MaxQueueSize
      BY <1>1, <2>2, <2>3, <2>4, PendingOf, QueueAssumption
    <2>. QED BY <1>1, <2>1, <2>3, <2>5, <2>6, ShrunkQueue
  <1>4. CASE key \notin QueuedKeys
    <2> DEFINE s == MakeRoomInQueue
               e == <<key, made + 1>>
    <2>1. made < MaxEntries /\ made' = made + 1 /\ pendingQueue' = Append(s, e)
      BY <1>4 DEF Enqueue
    <2>2. e \in Entries /\ KeyOf(e) = key /\ e[2] = made + 1 /\ made' \in 0 .. MaxEntries
      BY <1>1, <2>1, QueueAssumption DEF Entries, KeyOf
    <2> DEFINE n == Len(pendingQueue)
    <2>3. /\ pendingQueue \in Seq(Entries) /\ n \in Nat /\ DOMAIN pendingQueue = 1 .. n
          /\ \A i \in 1 .. n : pendingQueue[i] \in Pending
      BY <1>1, PendingOf DEF QueueShape
    <2>4. /\ s \in Seq(Entries) /\ Len(s) + 1 <= MaxQueueSize
          /\ \/ DOMAIN s = 1 .. n /\ s = pendingQueue
             \/ /\ DOMAIN s = 1 .. n - 1
                /\ \A i \in 1 .. n - 1 : i + 1 \in 1 .. n /\ s[i] = pendingQueue[i + 1]
      <3>0. MaxQueueSize \in Nat \ {0} /\ n <= MaxQueueSize
        BY <1>1, QueueAssumption
      <3>1. s = IF n >= MaxQueueSize THEN Tail(pendingQueue) ELSE pendingQueue
        BY DEF MakeRoomInQueue
      <3> HIDE DEF s
      <3>2. CASE n >= MaxQueueSize
        <4>1. s = Tail(pendingQueue) /\ pendingQueue # <<>> /\ n \in Nat \ {0}
          BY <2>3, <3>0, <3>1, <3>2
        <4>2. /\ s \in Seq(Entries) /\ Len(s) = n - 1 /\ DOMAIN s = 1 .. n - 1
              /\ \A i \in 1 .. n - 1 : s[i] = pendingQueue[i + 1]
          BY <2>3, <4>1
        <4> HIDE DEF n
        <4>. QED BY <3>0, <4>1, <4>2
      <3>3. CASE ~(n >= MaxQueueSize)
        <4>1. s = pendingQueue
          BY <3>1, <3>3
        <4>. QED BY <2>3, <3>0, <3>3, <4>1
      <3>. QED BY <3>2, <3>3
    <2> HIDE DEF s, e, n
    <2>5. \A i \in DOMAIN s : s[i] \in Pending
      BY <2>3, <2>4
    <2>6. ASSUME NEW i \in DOMAIN s, NEW j \in DOMAIN s, KeyOf(s[i]) = KeyOf(s[j])
          PROVE  i = j
      <3>1. CASE s = pendingQueue
        BY <1>1, <2>6, <3>1 DEF QueueShape
      <3>2. CASE /\ DOMAIN s = 1 .. n - 1
                 /\ \A l \in 1 .. n - 1 : l + 1 \in 1 .. n /\ s[l] = pendingQueue[l + 1]
        <4>1. /\ i \in 1 .. n - 1 /\ j \in 1 .. n - 1
              /\ i + 1 \in 1 .. n /\ s[i] = pendingQueue[i + 1]
              /\ j + 1 \in 1 .. n /\ s[j] = pendingQueue[j + 1]
          BY <3>2
        <4>2. \A a, b \in 1 .. n : KeyOf(pendingQueue[a]) = KeyOf(pendingQueue[b]) => a = b
          BY <1>1, <2>3 DEF QueueShape
        <4>3. KeyOf(pendingQueue[i + 1]) = KeyOf(pendingQueue[j + 1])
          BY <2>6, <4>1
        <4> DEFINE a == i + 1
                   c == j + 1
        <4>4. a \in 1 .. n /\ c \in 1 .. n /\ KeyOf(pendingQueue[a]) = KeyOf(pendingQueue[c])
          BY <4>1, <4>3
        <4> HIDE DEF a, c
        <4>5. a = c
          BY <4>2, <4>4
        <4>. QED BY <2>3, <4>1, <4>5 DEF a, c
      <3>. QED BY <2>4, <3>1, <3>2
    <2>7. \A i \in DOMAIN s : KeyOf(s[i]) # KeyOf(e)
      BY <1>4, <2>2, <2>5 DEF QueuedKeys
    <2>8. QueueShape' /\ Pending' \subseteq Pending \cup {e}
      BY <1>2, <2>1, <2>2, <2>4, <2>5, <2>6, <2>7
    <2>9. Len(pendingQueue') <= MaxQueueSize
      BY <2>1, <2>2, <2>4
    <2>10. FlushesOK' /\ \A x : Untried(x)' = Untried(x) /\ Sending(x)' = Sending(x)
      BY <1>1 DEF QueueInv, FlushesOK, Untried, Sending
    <2>11. NotYetMade'
      <3>1. ASSUME NEW x \in Entries, x[2] > made'
            PROVE  x \notin Pending' /\ attempts[x] = 0 /\ Untried(x) = {} /\ Sending(x) = {}
        <4>1. x[2] > made /\ x # e
          BY <1>1, <2>1, <2>2, <3>1 DEF Entries
        <4>. QED BY <2>8, <4>1 DEF QueueInv, NotYetMade
      <3>. QED BY <1>1, <2>10, <3>1 DEF NotYetMade
    <2>12. TriesOK'
      <3>1. attempts[e] <= MaxRetries + Cardinality(Sending(e))
        <4>1. attempts[e] = 0
          BY <1>1, <2>2 DEF QueueInv, NotYetMade
        <4>. QED BY <4>1, FlushSets, QueueAssumption
      <3>. QED BY <1>1, <2>8, <2>10, <3>1 DEF QueueInv, TriesOK
    <2>13. RetriesAreLimited'
      <3>1. attempts[e] = 0
        BY <1>1, <2>2 DEF QueueInv, NotYetMade
      <3>. QED BY <1>1, <2>8, <3>1 DEF QueueInv, RetriesAreLimited
    <2>. QED BY <1>1, <2>2, <2>8, <2>9, <2>10, <2>11, <2>12, <2>13 DEF QueueInv
  <1>. QED BY <1>3, <1>4
\* A flush that begins has not tried anything yet, nor does it await a put.
LEMMA BeginFlushKeeps ==
    ASSUME QueueInv, BeginFlush PROVE QueueInv'
  <1>1. CASE UNCHANGED queueVars
    <2>1. QueueShape' /\ Pending' = Pending
      BY <1>1 DEF queueVars, QueueInv, QueueShape, Pending
    <2>. QED BY <1>1, <2>1, ShrunkQueue DEF queueVars, QueueInv
  <1>2. ASSUME NEW f \in Flushes \ flushing,
               flushing' = flushing \cup {f},
               untried' = [untried EXCEPT ![f] = Pending],
               UNCHANGED <<pendingQueue, made, attempts, sending>>
        PROVE  QueueInv'
    <2>1. Pending \subseteq Entries /\ Pending' = Pending /\ QueueShape'
      BY <1>2, PendingOf DEF QueueInv, QueueShape, Pending
    <2>2. untried[f] = {} /\ sending[f] = {}
      BY DEF QueueInv, FlushesOK
    <2>3. /\ untried'[f] = Pending /\ \A g \in Flushes : g # f => untried'[g] = untried[g]
          /\ untried' \in [Flushes -> SUBSET Entries]
      BY <1>2, <2>1 DEF QueueInv, FlushesOK
    <2>4. FlushesOK'
      BY <1>2, <2>2, <2>3 DEF QueueInv, FlushesOK
    <2>5. \A e : Sending(e)' = Sending(e)
      BY <1>2 DEF Sending
    <2>6. \A e : e \notin Pending => Untried(e)' = Untried(e)
      BY <2>2, <2>3 DEF Untried
    <2>7. NotYetMade'
      BY <1>2, <2>1, <2>5, <2>6 DEF QueueInv, NotYetMade
    <2>8. TriesOK'
      <3>1. ASSUME NEW e \in Pending
            PROVE  attempts[e] + Cardinality(Untried(e)') <= MaxRetries + MaxFlushes
        <4>1. /\ attempts[e] \in Nat /\ attempts[e] <= MaxRetries + Cardinality(Sending(e))
          BY <2>1 DEF QueueInv, TriesOK
        <4>2. Untried(e)' \cap Sending(e)' = {}
          BY <2>4 DEF FlushesOK, Untried, Sending
        <4>3. /\ Cardinality(Untried(e)') \in Nat /\ Cardinality(Sending(e)') \in Nat
              /\ Cardinality(Untried(e)') + Cardinality(Sending(e)') <= MaxFlushes
          <5> DEFINE U == Untried(e)'
                     S == Sending(e)'
          <5>1. IsFiniteSet(Flushes) /\ Cardinality(Flushes) = MaxFlushes /\ MaxFlushes \in Nat
            BY QueueAssumption, FS_Interval DEF Flushes
          <5>2. U \in SUBSET Flushes /\ S \in SUBSET Flushes /\ U \cap S = {}
            BY <4>2 DEF Untried, Sending
          <5> HIDE DEF U, S
          <5>. QED BY <5>1, <5>2, Disjoint DEF U, S
        <4>. QED BY <2>5, <4>1, <4>3, QueueAssumption
      <3>. QED BY <1>2, <2>1, <2>5, <2>6, <3>1 DEF QueueInv, TriesOK
    <2>9. RetriesAreLimited'
      BY <1>2, <2>1 DEF QueueInv, RetriesAreLimited
    <2>. QED BY <1>2, <2>1, <2>4, <2>7, <2>8, <2>9 DEF QueueInv
  <1>. QED BY <1>1, <1>2 DEF BeginFlush

\* A batch: a try more, and a flush less that is to try.
LEMMA FlushBatchKeeps ==
    ASSUME QueueInv, NEW f \in Flushes, NEW ready \in BOOLEAN, FlushBatch(f, ready)
    PROVE  QueueInv'
  <1>1. PICK batch \in SUBSET untried[f] :
            /\ untried' = [untried EXCEPT ![f] = @ \ batch]
            /\ attempts' = [e \in Entries |->
                               IF e \in batch THEN attempts[e] + 1 ELSE attempts[e]]
            /\ \/ ready /\ sending' = [sending EXCEPT ![f] = batch] /\ UNCHANGED pendingQueue
               \/ ~ready /\ pendingQueue' = DropExhausted(batch) /\ UNCHANGED sending
            /\ UNCHANGED <<made, flushing>>
    BY DEF FlushBatch
  <1>2. f \in flushing /\ sending[f] = {}
    BY DEF FlushBatch
  <1>3. /\ untried'[f] = untried[f] \ batch /\ untried' \in [Flushes -> SUBSET Entries]
        /\ \A g \in Flushes : g # f => untried'[g] = untried[g]
        /\ batch \subseteq Entries
    BY <1>1 DEF QueueInv, FlushesOK
  <1>4. /\ attempts' \in [Entries -> Nat]
        /\ \A e \in Entries : attempts'[e] = IF e \in batch THEN attempts[e] + 1 ELSE attempts[e]
    BY <1>1 DEF QueueInv
  <1>5. /\ sending' \in [Flushes -> SUBSET Entries]
        /\ sending'[f] = IF ready THEN batch ELSE {}
        /\ \A g \in Flushes : g # f => sending'[g] = sending[g]
    BY <1>1, <1>2, <1>3 DEF QueueInv, FlushesOK
  <1>6. FlushesOK'
    BY <1>1, <1>2, <1>3, <1>5 DEF QueueInv, FlushesOK
  <1>7. \A e : IF e \in batch
                THEN /\ f \in Untried(e) /\ Untried(e)' = Untried(e) \ {f}
                     /\ f \notin Sending(e)
                     /\ Sending(e)' = IF ready THEN Sending(e) \cup {f} ELSE Sending(e)
                ELSE Untried(e)' = Untried(e) /\ Sending(e)' = Sending(e)
    BY <1>2, <1>3, <1>5 DEF Untried, Sending
  <1>8. /\ QueueShape' /\ Len(pendingQueue') <= MaxQueueSize /\ Pending' \subseteq Pending
        /\ \A e \in Pending' : e \in batch /\ ~ready => attempts[e] + 1 < MaxRetries
    <2>1. CASE ready
      BY <1>1, <2>1 DEF QueueInv, QueueShape, Pending
    <2>2. CASE ~ready
      <3> DEFINE keys == {KeyOf(e) : e \in {b \in batch : attempts[b] + 1 >= MaxRetries}}
      <3>1. pendingQueue' = WithoutKeys(keys)
        BY <1>1, <2>2 DEF DropExhausted
      <3>2. \A e \in batch : attempts[e] + 1 >= MaxRetries => KeyOf(e) \in keys
        OBVIOUS
      <3> HIDE DEF keys
      <3>3. /\ pendingQueue' \in Seq(Entries) /\ Len(pendingQueue') <= Len(pendingQueue)
            /\ \A i \in DOMAIN pendingQueue' :
                   pendingQueue'[i] \in Pending /\ KeyOf(pendingQueue'[i]) \notin keys
            /\ \A i, j \in DOMAIN pendingQueue' :
                   KeyOf(pendingQueue'[i]) = KeyOf(pendingQueue'[j]) => i = j
        BY <3>1, WithoutKeysKeeps DEF QueueInv
      <3>4. QueueShape' /\ \A e \in Pending' : e \in Pending /\ KeyOf(e) \notin keys
        BY <3>3 DEF QueueShape, Pending, ToSet
      <3>5. Len(pendingQueue') <= MaxQueueSize
        BY <3>3, <3>4, QueueAssumption DEF QueueInv, QueueShape
      <3>6. \A e \in batch : attempts[e] \in Nat
        BY <1>3 DEF QueueInv
      <3>. QED BY <3>2, <3>4, <3>5, <3>6, QueueAssumption
    <2>. QED BY <2>1, <2>2
  <1>9. NotYetMade'
    BY <1>1, <1>4, <1>7, <1>8 DEF QueueInv, NotYetMade
  <1>10. TriesOK'
    <2>1. ASSUME NEW e \in Entries
          PROVE  attempts'[e] + Cardinality(Untried(e)') <= MaxRetries + MaxFlushes
      <3>1. attempts[e] + Cardinality(Untried(e)) <= MaxRetries + MaxFlushes /\ attempts[e] \in Nat
        BY DEF QueueInv, TriesOK
      <3>2. CASE e \in batch
        <4>1. Cardinality(Untried(e)') = Cardinality(Untried(e)) - 1
          BY <1>7, <3>2, FlushSets, FS_RemoveElement
        <4>. QED BY <1>4, <3>1, <3>2, <4>1, FlushSets
      <3>3. CASE e \notin batch
        BY <1>4, <1>7, <3>1, <3>3
      <3>. QED BY <3>2, <3>3
    <2>2. ASSUME NEW e \in Pending'
          PROVE  attempts'[e] <= MaxRetries + Cardinality(Sending(e)')
      <3>1. /\ e \in Entries /\ attempts[e] \in Nat
            /\ attempts[e] <= MaxRetries + Cardinality(Sending(e))
        BY <1>8, PendingOf DEF QueueInv, TriesOK
      <3>2. Cardinality(Sending(e)) \in Nat /\ MaxRetries \in Nat
        BY FlushSets, QueueAssumption
      <3>3. CASE e \in batch /\ ready
        <4>1. Cardinality(Sending(e)') = Cardinality(Sending(e)) + 1
          BY <1>7, <3>3, FlushSets, FS_AddElement
        <4>. QED BY <1>4, <3>1, <3>2, <3>3, <4>1
      <3>4. CASE e \in batch /\ ~ready
        <4>1. attempts[e] + 1 < MaxRetries /\ Sending(e)' = Sending(e)
          BY <1>7, <1>8, <3>4
        <4>. QED BY <1>4, <3>1, <3>2, <3>4, <4>1
      <3>5. CASE e \notin batch
        BY <1>4, <1>7, <3>1, <3>5
      <3>. QED BY <3>3, <3>4, <3>5
    <2>. QED BY <2>1, <2>2 DEF TriesOK
  <1>11. RetriesAreLimited'
    <2>1. ASSUME NEW e \in Pending', attempts'[e] # 0, ~(attempts'[e] < MaxRetries)
          PROVE  \E g \in Flushes : e \in sending'[g]
      <3>1. e \in Pending /\ e \in Entries
        BY <1>8, PendingOf DEF QueueInv
      <3>2. CASE e \in batch
        <4>1. ready
          BY <1>4, <1>8, <2>1, <3>1, <3>2
        <4>. QED BY <1>5, <3>2, <4>1
      <3>3. CASE e \notin batch
        <4>1. PICK g \in Flushes : e \in sending[g]
          BY <1>4, <2>1, <3>1, <3>3 DEF QueueInv, RetriesAreLimited
        <4>. QED BY <1>2, <1>5, <4>1
      <3>. QED BY <3>2, <3>3
    <2>. QED BY <2>1 DEF RetriesAreLimited
  <1>. QED BY <1>1, <1>4, <1>6, <1>8, <1>9, <1>10, <1>11 DEF QueueInv

\* A put has ended: its key has left the queue, so that nothing queued has lost a put.
LEMMA FlushSentKeeps ==
    ASSUME QueueInv, NEW f \in Flushes, NEW e \in sending[f], FlushSent(f, e)
    PROVE  QueueInv'
  <1>1. /\ sending' = [sending EXCEPT ![f] = @ \ {e}]
        /\ pendingQueue' = WithoutKeys({KeyOf(e)})
        /\ UNCHANGED <<made, attempts, flushing, untried>>
    BY DEF FlushSent
  <1>2. /\ pendingQueue' \in Seq(Entries) /\ Len(pendingQueue') <= Len(pendingQueue)
        /\ \A i \in DOMAIN pendingQueue' :
               pendingQueue'[i] \in Pending /\ KeyOf(pendingQueue'[i]) \notin {KeyOf(e)}
        /\ \A i, j \in DOMAIN pendingQueue' :
               KeyOf(pendingQueue'[i]) = KeyOf(pendingQueue'[j]) => i = j
    BY <1>1, WithoutKeysKeeps DEF QueueInv
  <1>3. QueueShape' /\ \A x \in Pending' : x \in Pending /\ x # e
    BY <1>2 DEF QueueShape, Pending, ToSet
  <1>4. Len(pendingQueue') <= MaxQueueSize
    BY <1>2, <1>3, QueueAssumption DEF QueueInv, QueueShape
  <1>5. /\ sending' \in [Flushes -> SUBSET Entries] /\ sending'[f] = sending[f] \ {e}
        /\ \A g \in Flushes : g # f => sending'[g] = sending[g]
    BY <1>1 DEF QueueInv, FlushesOK
  <1>6. FlushesOK'
    BY <1>1, <1>5 DEF QueueInv, FlushesOK
  <1>7. /\ \A x : Untried(x)' = Untried(x)
        /\ \A x : x # e => Sending(x)' = Sending(x)
        /\ Sending(e)' \subseteq Sending(e)
    BY <1>1, <1>5 DEF Untried, Sending
  <1>8. NotYetMade'
    BY <1>1, <1>3, <1>7 DEF QueueInv, NotYetMade
  <1>9. TriesOK'
    BY <1>1, <1>3, <1>7 DEF QueueInv, TriesOK
  <1>10. RetriesAreLimited'
    BY <1>1, <1>3, <1>5 DEF QueueInv, RetriesAreLimited
  <1>. QED BY <1>1, <1>3, <1>4, <1>6, <1>8, <1>9, <1>10 DEF QueueInv

LEMMA EndFlushKeeps ==
    ASSUME QueueInv, NEW f \in Flushes, EndFlush(f) PROVE QueueInv'
  <1>1. FlushesOK'
    BY DEF EndFlush, QueueInv, FlushesOK
  <1>2. QueueShape' /\ Pending' = Pending
    BY DEF EndFlush, QueueInv, QueueShape, Pending
  <1>3. \A e : Untried(e)' = Untried(e) /\ Sending(e)' = Sending(e)
    BY DEF EndFlush, Untried, Sending
  <1>4. NotYetMade' /\ TriesOK' /\ RetriesAreLimited'
    BY <1>2, <1>3 DEF EndFlush, QueueInv, NotYetMade, TriesOK, RetriesAreLimited
  <1>. QED BY <1>1, <1>2, <1>4 DEF EndFlush, QueueInv

LEMMA RestOf ==
    ASSUME NEW T, NEW s \in Seq(T), NEW n \in 0 .. Len(s)
    PROVE  LET rest == SubSeq(s, n + 1, Len(s)) IN
           /\ rest \in Seq(T) /\ Len(rest) = Len(s) - n /\ DOMAIN rest = 1 .. Len(s) - n
           /\ \A i \in 1 .. Len(s) - n : rest[i] = s[n + i]
  OBVIOUS

LEMMA ExpireQueuedKeeps ==
    ASSUME QueueInv, ExpireQueued PROVE QueueInv'
  <1> DEFINE len == Len(pendingQueue)
  <1>1. PICK n \in 1 .. len : pendingQueue' = SubSeq(pendingQueue, n + 1, len)
    BY DEF ExpireQueued
  <1>2. /\ pendingQueue \in Seq(Entries) /\ len \in Nat /\ DOMAIN pendingQueue = 1 .. len
        /\ \A i \in 1 .. len : pendingQueue[i] \in Pending
    BY PendingOf DEF QueueInv, QueueShape
  <1>3. /\ pendingQueue' \in Seq(Entries) /\ Len(pendingQueue') = len - n
        /\ DOMAIN pendingQueue' = 1 .. len - n
        /\ \A i \in 1 .. len - n : n + i \in 1 .. len /\ pendingQueue'[i] = pendingQueue[n + i]
    <2>1. n \in 0 .. len /\ \A i \in 1 .. len - n : n + i \in 1 .. len
      BY <1>2
    <2>. QED BY <1>1, <1>2, <2>1, RestOf
  <1> HIDE DEF len
  <1>4. \A i, j \in 1 .. len - n :
            KeyOf(pendingQueue'[i]) = KeyOf(pendingQueue'[j]) => i = j
    <2>1. ASSUME NEW i \in 1 .. len - n, NEW j \in 1 .. len - n,
                 KeyOf(pendingQueue'[i]) = KeyOf(pendingQueue'[j])
          PROVE  i = j
      <3>1. n + i = n + j
        BY <1>2, <1>3, <2>1 DEF QueueInv, QueueShape
      <3>. QED BY <1>2, <3>1
    <2>. QED BY <2>1
  <1>5. QueueShape'
    BY <1>3, <1>4 DEF QueueShape
  <1>6. Pending' \subseteq Pending
    BY <1>2, <1>3 DEF Pending, ToSet
  <1>7. Len(pendingQueue') <= MaxQueueSize
    <2>1. len <= MaxQueueSize
      BY DEF QueueInv, len
    <2>. QED BY <1>2, <1>3, <2>1, QueueAssumption
  <1>. QED BY <1>5, <1>6, <1>7, ShrunkQueue DEF ExpireQueued

LEMMA ClearQueueKeeps ==
    ASSUME QueueInv, ClearQueue PROVE QueueInv'
  <1>1. pendingQueue' = <<>>
    BY DEF ClearQueue
  <1>2. QueueShape' /\ Pending' = {} /\ Len(pendingQueue') <= MaxQueueSize
    BY <1>1, QueueAssumption DEF QueueShape, Pending, ToSet
  <1>. QED BY <1>2, ShrunkQueue DEF ClearQueue
-----------------------------------------------------------------------------
(***************************************************************************)
(* Types.  The queue stays within its size, with one entry for each key,   *)
(* and no entry is tried more often than it may fail and flushes overlap.  *)
(***************************************************************************)
LifeTypeOK ==
    /\ node \in BOOLEAN
    /\ startPC \in {"idle", "creating", "starting", "bootstrapping"}
    /\ stopPC \in {"idle", "stopping", "closing"}
    /\ connectionState \in ConnectionStates
    /\ {monitor, gossipSubMonitor, dhtCleanup, queueCleanup} \subseteq BOOLEAN
    /\ {wasDHTReady, hasPeers, stopped} \subseteq BOOLEAN
    /\ <<hasPeers, tableSize>> \in NetworkStates
    /\ ~node => tableSize = 0 /\ ~hasPeers

LEMMA QueueStep ==
    ASSUME LifeTypeOK, QueueInv, [NodeNext]_nodeVars PROVE QueueInv'
  <1>k. ASSUME UNCHANGED queueVars PROVE QueueInv'
    <2>1. QueueShape' /\ Pending' = Pending
      BY <1>k DEF queueVars, QueueInv, QueueShape, Pending
    <2>. QED BY <1>k, <2>1, ShrunkQueue DEF queueVars, QueueInv
  <1>1. CASE \/ StartNode \/ NodeIsCreated \/ NodeIsStarted \/ BootstrapIsDone
             \/ StopNode \/ ShutdownNode \/ NodeIsClosed \/ NetworkChanges \/ UNCHANGED nodeVars
    BY <1>1, <1>k DEF StartNode, NodeIsCreated, NodeIsStarted, BootstrapIsDone, StopNode,
                      ShutdownNode, NodeIsClosed, NetworkChanges, nodeVars
  <1>2. CASE StopNodeResume
    BY <1>2, ClearQueueKeeps DEF StopNodeResume
  <1>3. CASE MonitorTick
    BY <1>3, <1>k, BeginFlushKeeps DEF MonitorTick, CheckDHTReadyAndFlush
  <1>4. CASE QueueCleanupTick
    BY <1>4, ExpireQueuedKeeps DEF QueueCleanupTick
  <1>5. ASSUME NEW key \in ResourceKeys, AnnounceResource(key) PROVE QueueInv'
    BY <1>5, EnqueueKeeps DEF AnnounceResource
  <1>6. ASSUME NEW f \in Flushes, FlushStep(f) PROVE QueueInv'
    <2>1. IsReady \in BOOLEAN
      BY DEF IsReady, LifeTypeOK
    <2>. QED BY <1>6, <2>1, FlushBatchKeeps, FlushSentKeeps, EndFlushKeeps DEF FlushStep
  <1>. QED BY <1>1, <1>2, <1>3, <1>4, <1>5, <1>6 DEF NodeNext

LEMMA LifeTypeStep ==
    ASSUME LifeTypeOK, [NodeNext]_nodeVars PROVE LifeTypeOK'
  <1>. USE DEF LifeTypeOK, ConnectionStates, Operational
  <1>k. ASSUME UNCHANGED lifeVars PROVE LifeTypeOK'
    BY <1>k DEF lifeVars
  <1>1. CASE StartNode
    BY <1>1 DEF StartNode
  <1>2. CASE NodeIsCreated
    BY <1>2 DEF NodeIsCreated
  <1>3. CASE NodeIsStarted
    BY <1>3 DEF NodeIsStarted
  <1>4. CASE BootstrapIsDone
    BY <1>4 DEF BootstrapIsDone
  <1>5. CASE StopNode
    BY <1>5 DEF StopNode
  <1>6. CASE StopNodeResume
    BY <1>6 DEF StopNodeResume, Disconnect
  <1>7. CASE ShutdownNode
    BY <1>7 DEF ShutdownNode, Disconnect
  <1>8. CASE NodeIsClosed
    BY <1>8, NodeAssumption DEF NodeIsClosed, Disconnect
  <1>9. CASE MonitorTick
    <2>1. connectionState' \in ConnectionStates
      BY <1>9 DEF MonitorTick, NextConnectionState
    <2>2. wasDHTReady' \in BOOLEAN
      BY <1>9 DEF MonitorTick, CheckDHTReadyAndFlush, IsReady
    <2>. QED BY <1>9, <2>1, <2>2 DEF MonitorTick
  <1>10. CASE NetworkChanges
    <2>1. PICK s \in NetworkStates : hasPeers' = s[1] /\ tableSize' = s[2]
      BY <1>10 DEF NetworkChanges
    <2>2. s = <<hasPeers', tableSize'>> /\ hasPeers' \in BOOLEAN
      BY <2>1, NodeAssumption
    <2>. QED BY <1>10, <2>2 DEF NetworkChanges
  <1>11. CASE \/ QueueCleanupTick \/ UNCHANGED nodeVars
              \/ \E key \in ResourceKeys : AnnounceResource(key)
              \/ \E f \in Flushes : FlushStep(f)
    BY <1>11, <1>k DEF QueueCleanupTick, AnnounceResource, FlushStep, nodeVars
  <1>. QED
    BY <1>1, <1>2, <1>3, <1>4, <1>5, <1>6, <1>7, <1>8, <1>9, <1>10, <1>11 DEF NodeNext

LEMMA QueueIsTyped == QueueInv => QueueTypeOK
  <1>. SUFFICES ASSUME QueueInv PROVE QueueTypeOK
    OBVIOUS
  <1>1. ASSUME NEW e \in Entries PROVE attempts[e] \in 0 .. MaxRetries + MaxFlushes
    BY FlushSets, QueueAssumption DEF QueueInv, TriesOK
  <1>. QED BY <1>1 DEF QueueInv, QueueShape, FlushesOK, QueueTypeOK

LEMMA QueueInvariant == NodeSpec => [](LifeTypeOK /\ QueueInv)
  <1>1. NodeInit => LifeTypeOK /\ QueueInv
    <2>. SUFFICES ASSUME NodeInit PROVE LifeTypeOK /\ QueueInv
      OBVIOUS
    <2>1. LifeTypeOK
      BY NodeAssumption DEF NodeInit, LifeTypeOK, ConnectionStates
    <2>2. QueueShape /\ Pending = {} /\ Len(pendingQueue) <= MaxQueueSize
      BY QueueAssumption DEF NodeInit, QueueInit, QueueShape, Pending, ToSet
    <2>3. \A e : Untried(e) = {} /\ Sending(e) = {} /\ Cardinality({}) = 0
      BY FS_EmptySet DEF NodeInit, QueueInit, Untried, Sending
    <2>4. FlushesOK /\ NotYetMade
      BY <2>2, <2>3 DEF NodeInit, QueueInit, FlushesOK, NotYetMade
    <2>5. TriesOK
      <3>1. \A e \in Entries : attempts[e] = 0
        BY DEF NodeInit, QueueInit
      <3>2. 0 + 0 <= MaxRetries + MaxFlushes
        BY QueueAssumption
      <3>. QED BY <2>2, <2>3, <3>1, <3>2 DEF TriesOK
    <2>6. RetriesAreLimited
      BY <2>2 DEF RetriesAreLimited
    <2>. QED BY <2>1, <2>2, <2>4, <2>5, <2>6, QueueAssumption DEF NodeInit, QueueInit, QueueInv
  <1>2. LifeTypeOK /\ QueueInv /\ [NodeNext]_nodeVars => LifeTypeOK' /\ QueueInv'
    BY LifeTypeStep, QueueStep
  <1>. QED BY <1>1, <1>2, PTL DEF NodeSpec

\* However calls of flush() overlap, the queue of a node keeps within its size, has one entry
\* for each key and tries no entry more than MaxRetries + MaxFlushes times.
THEOREM NodeTypeCorrect == NodeSpec => []NodeTypeOK
  <1>1. LifeTypeOK /\ QueueInv => NodeTypeOK
    BY QueueIsTyped DEF LifeTypeOK, NodeTypeOK
  <1>. QED BY <1>1, QueueInvariant, PTL

\* What is queued has tries left, or the put of its last try is awaited.
THEOREM QueueGivesUp == NodeSpec => []RetriesAreLimited
  <1>1. QueueInv => RetriesAreLimited
    BY DEF QueueInv
  <1>. QED BY <1>1, QueueInvariant, PTL

PeerMapsOK ==
    /\ protocols \subseteq Protocols /\ streams \subseteq Streaming
    /\ connected \subseteq NodePeers /\ peerInfo \subseteq NodePeers
    /\ told \subseteq NodePeers

\* The same of a node with its protocols and peers, of which it keeps no other than those there are.
THEOREM PeersTypeCorrect == PeersSpec => []PeersTypeOK
  <1>1. PeersInit => PeerMapsOK
    BY DEF PeersInit, PeerMapsOK
  <1>2. PeerMapsOK /\ [PeersNext]_peersVars => PeerMapsOK'
    <2>. SUFFICES ASSUME PeerMapsOK, [PeersNext]_peersVars PROVE PeerMapsOK'
      OBVIOUS
    <2>. USE PeersAssumption DEF PeerMapsOK
    <2>1. CASE NodeAlone \/ UNCHANGED peersVars
      BY <2>1 DEF NodeAlone, peersVars, peersOnlyVars
    <2>2. CASE SetUpNode \/ ForgetNode
      BY <2>2 DEF SetUpNode, ForgetNode
    <2>3. ASSUME NEW h \in Protocols, RegisterProtocol(h) \/ UnregisterProtocol(h)
          PROVE  PeerMapsOK'
      BY <2>3 DEF RegisterProtocol, UnregisterProtocol
    <2>4. ASSUME NEW p \in NodePeers,
                 OnPeerConnect(p) \/ OnPeerDisconnect(p) \/ PeerIsSeen(p)
          PROVE  PeerMapsOK'
      BY <2>4 DEF OnPeerConnect, OnPeerDisconnect, PeerIsSeen
    <2>. QED BY <2>1, <2>2, <2>3, <2>4 DEF PeersNext
  <1>3. NodeTypeOK /\ PeerMapsOK => PeersTypeOK
    BY DEF PeersTypeOK, PeerMapsOK
  <1>. QED BY <1>1, <1>2, <1>3, NodeTypeCorrect, PeersImplementNode, PTL DEF PeersSpec
=============================================================================
