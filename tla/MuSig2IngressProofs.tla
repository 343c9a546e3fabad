------------------------ MODULE MuSig2IngressProofs ------------------------
(***************************************************************************)
(* Theorems about the ingress, for any peers, messages and limits: the     *)
(* limits on resources, the maps of their tracker, the blocked peers, and  *)
(* that a message is handled once.                                         *)
(***************************************************************************)
EXTENDS MuSig2Ingress, FiniteSetTheorems, SequenceTheorems, TLAPS

-----------------------------------------------------------------------------
(***************************************************************************)
(* The resource tracker.                                                   *)
(***************************************************************************)
TrackerTypeOK ==
    /\ resources \in [RemotePeers -> SUBSET Resources]
    /\ byType \in [RemotePeers -> [ResourceTypes -> SUBSET Resources]]
    /\ announcing \subseteq Announcing

TrackerInv == TrackerTypeOK /\ LimitsHold /\ TrackerAgrees

\* A set that is full gets no member, and one that loses a member stays within the limit.
LEMMA WithinLimit ==
    ASSUME NEW S, IsFiniteSet(S), NEW x, NEW limit \in Nat, Cardinality(S) <= limit
    PROVE  /\ x \in S \/ Cardinality(S) < limit => Cardinality(S \cup {x}) <= limit
           /\ Cardinality(S \ {x}) <= limit
<1>1. Cardinality(S) \in Nat
  BY FS_CardinalityType
<1>2. ASSUME x \in S \/ Cardinality(S) < limit PROVE Cardinality(S \cup {x}) <= limit
  <2>1. CASE x \in S
    <3>1. S \cup {x} = S
      BY <2>1
    <3>. QED
      BY <3>1
  <2>2. CASE x \notin S
    <3>1. Cardinality(S \cup {x}) = Cardinality(S) + 1
      BY <2>2, FS_AddElement
    <3>. QED
      BY <1>1, <1>2, <2>2, <3>1
  <2>. QED
    BY <2>1, <2>2
<1>3. Cardinality(S \ {x}) <= limit
  <2>1. S \ {x} \in SUBSET S
    OBVIOUS
  <2>2. Cardinality(S \ {x}) <= Cardinality(S) /\ Cardinality(S \ {x}) \in Nat
    BY <2>1, FS_Subset, FS_CardinalityType
  <2>. QED
    BY <1>1, <2>2
<1>. QED
  BY <1>2, <1>3

LEMMA ResourcesAreFinite ==
    ASSUME NEW S \in SUBSET Resources PROVE IsFiniteSet(S)
  BY CoreSecurityAssumption, FS_Subset

\* Limits that hold of one peer and one type of its resources, and of all that stays.
LEMMA LimitsAfter ==
    ASSUME LimitsHold, NEW p \in RemotePeers, NEW t \in ResourceTypes,
           Cardinality(resources'[p]) <= MaxPerPeer, Cardinality(byType'[p][t]) <= MaxPerType,
           \A q \in RemotePeers : q # p => resources'[q] = resources[q],
           \A q \in RemotePeers, u \in ResourceTypes :
               q # p \/ u # t => byType'[q][u] = byType[q][u]
    PROVE  LimitsHold'
<1>1. ASSUME NEW q \in RemotePeers PROVE Cardinality(resources'[q]) <= MaxPerPeer
  <2>1. CASE q = p
    BY <2>1
  <2>2. CASE q # p
    BY <2>2 DEF LimitsHold
  <2>. QED
    BY <2>1, <2>2
<1>2. ASSUME NEW q \in RemotePeers, NEW u \in ResourceTypes
      PROVE  Cardinality(byType'[q][u]) <= MaxPerType
  <2>1. CASE q = p /\ u = t
    BY <2>1
  <2>2. CASE q # p \/ u # t
    BY <2>2 DEF LimitsHold
  <2>. QED
    BY <2>1, <2>2
<1>. QED
  BY <1>1, <1>2 DEF LimitsHold

LEMMA AddResourceKeeps ==
    ASSUME TrackerInv, NEW p \in RemotePeers, NEW r \in Resources,
           HasRoom(p, r), AddResource(p, r), announcing' \subseteq Announcing
    PROVE  TrackerInv'
<1> USE DEF TrackerInv, TrackerTypeOK
<1> DEFINE t == TypeOf[r]
<1>0. t \in ResourceTypes /\ MaxPerPeer \in Nat /\ MaxPerType \in Nat
  BY CoreSecurityAssumption
<1>1. /\ resources'[p] = resources[p] \cup {r}
      /\ \A q \in RemotePeers : q # p => resources'[q] = resources[q]
      /\ resources' \in [RemotePeers -> SUBSET Resources]
  BY DEF AddResource
<1>2. /\ byType'[p][t] = byType[p][t] \cup {r}
      /\ \A q \in RemotePeers, u \in ResourceTypes :
             q # p \/ u # t => byType'[q][u] = byType[q][u]
      /\ byType' \in [RemotePeers -> [ResourceTypes -> SUBSET Resources]]
  BY <1>0 DEF AddResource
<1>3. LimitsHold'
  <2>1. IsFiniteSet(resources[p]) /\ IsFiniteSet(byType[p][t])
    BY <1>0, ResourcesAreFinite
  <2>2. Cardinality(resources'[p]) <= MaxPerPeer
    BY <1>0, <1>1, <2>1, WithinLimit DEF HasRoom, LimitsHold
  <2>3. Cardinality(byType'[p][t]) <= MaxPerType
    <3>1. Cardinality(byType[p][t]) <= MaxPerType
      BY <1>0 DEF LimitsHold
    <3>2. r \in byType[p][t] \/ Cardinality(byType[p][t]) < MaxPerType
      BY DEF HasRoom
    <3>3. Cardinality(byType[p][t] \cup {r}) <= MaxPerType
      <4> DEFINE S == byType[p][t]
      <4>1. IsFiniteSet(S) /\ Cardinality(S) <= MaxPerType /\ (r \in S \/ Cardinality(S) < MaxPerType)
        BY <2>1, <3>1, <3>2
      <4> HIDE DEF S, t
      <4>2. Cardinality(S \cup {r}) <= MaxPerType
        BY <1>0, <4>1, WithinLimit
      <4>. QED
        BY <4>2 DEF S
    <3>. QED
      BY <1>2, <3>3
  <2> HIDE DEF t
  <2>. QED
    BY <1>0, <1>1, <1>2, <2>2, <2>3, LimitsAfter
<1>4. TrackerAgrees'
  BY <1>0, <1>1, <1>2 DEF TrackerAgrees
<1>. QED
  BY <1>1, <1>2, <1>3, <1>4

LEMMA RemoveResourceKeeps ==
    ASSUME TrackerInv, NEW p \in RemotePeers, NEW r \in Resources, RemoveResource(p, r)
    PROVE  TrackerInv'
<1> USE DEF TrackerInv, TrackerTypeOK
<1> DEFINE t == TypeOf[r]
<1>0. t \in ResourceTypes /\ MaxPerPeer \in Nat /\ MaxPerType \in Nat
  BY CoreSecurityAssumption
<1>1. /\ resources'[p] = resources[p] \ {r}
      /\ \A q \in RemotePeers : q # p => resources'[q] = resources[q]
      /\ resources' \in [RemotePeers -> SUBSET Resources]
  BY DEF RemoveResource
<1>2. /\ byType'[p][t] = byType[p][t] \ {r}
      /\ \A q \in RemotePeers, u \in ResourceTypes :
             q # p \/ u # t => byType'[q][u] = byType[q][u]
      /\ byType' \in [RemotePeers -> [ResourceTypes -> SUBSET Resources]]
  BY <1>0 DEF RemoveResource
<1>3. LimitsHold'
  <2>1. IsFiniteSet(resources[p]) /\ IsFiniteSet(byType[p][t])
    BY <1>0, ResourcesAreFinite
  <2>2. Cardinality(resources'[p]) <= MaxPerPeer
    BY <1>0, <1>1, <2>1, WithinLimit DEF LimitsHold
  <2>3. Cardinality(byType'[p][t]) <= MaxPerType
    <3>1. Cardinality(byType[p][t]) <= MaxPerType
      BY <1>0 DEF LimitsHold
    <3>2. Cardinality(byType[p][t] \ {r}) <= MaxPerType
      BY <1>0, <2>1, <3>1, WithinLimit
    <3>. QED
      BY <1>2, <3>2
  <2> HIDE DEF t
  <2>. QED
    BY <1>0, <1>1, <1>2, <2>2, <2>3, LimitsAfter
<1>4. TrackerAgrees'
  BY <1>0, <1>1, <1>2 DEF TrackerAgrees
<1>5. announcing' \subseteq Announcing
  BY DEF RemoveResource
<1>. QED
  BY <1>1, <1>2, <1>3, <1>4, <1>5

LEMMA TrackerInit == IngressInit => TrackerInv
<1> SUFFICES ASSUME IngressInit PROVE TrackerInv
  OBVIOUS
<1> USE CoreSecurityAssumption DEF IngressInit, SecurityInit
<1>1. TrackerTypeOK
  BY DEF TrackerTypeOK
<1>2. LimitsHold
  BY FS_EmptySet DEF LimitsHold
<1>3. TrackerAgrees
  BY DEF TrackerAgrees
<1>. QED
  BY <1>1, <1>2, <1>3 DEF TrackerInv

\* A step that leaves the tracker alone keeps its invariant.
LEMMA TrackerStutter ==
    ASSUME TrackerInv, UNCHANGED trackerVars, announcing' \subseteq Announcing
    PROVE  TrackerInv'
  BY DEF TrackerInv, TrackerTypeOK, LimitsHold, TrackerAgrees, trackerVars

LEMMA TrackerStep == TrackerInv /\ [IngressNext]_ingressVars => TrackerInv'
<1> SUFFICES ASSUME TrackerInv, [IngressNext]_ingressVars PROVE TrackerInv'
  OBVIOUS
<1>0. announcing \subseteq Announcing
  BY DEF TrackerInv, TrackerTypeOK
<1>1. ASSUME NEW m \in Msgs, RefuseAtNode(m) \/ HandleIncomingStream(m) PROVE TrackerInv'
  BY <1>0, <1>1, TrackerStutter
  DEF RefuseAtNode, HandleIncomingStream, securityVars, trackerVars
<1>2. ASSUME \/ HandleMessageResume \/ ClearViolations \/ UNCHANGED ingressVars
             \/ \E p \in RemotePeers : UnblockPeer(p)
      PROVE  TrackerInv'
  BY <1>0, <1>2, TrackerStutter
  DEF HandleMessageResume, ClearViolations, UnblockPeer, ingressVars, securityVars, trackerVars
<1>3. ASSUME NEW p \in RemotePeers,
             BanPeer(p) \/ UnbanPeer(p) \/ TempBanEnds(p) \/ IntervalEnds(p)
      PROVE  TrackerInv'
  BY <1>0, <1>3, TrackerStutter
  DEF BanPeer, UnbanPeer, TempBanEnds, IntervalEnds, trackerVars
<1>4. ASSUME NEW p \in RemotePeers, NEW r \in Resources, CanAnnounceToDHT(p, r)
      PROVE  TrackerInv'
  <2>1. announcing' \subseteq Announcing
    BY <1>0, <1>4 DEF CanAnnounceToDHT, Asks, Announcing
  <2>2. CASE HasRoom(p, r) /\ AddResource(p, r)
    BY <2>1, <2>2, AddResourceKeeps
  <2>3. CASE UNCHANGED trackerVars
    BY <2>1, <2>3, TrackerStutter
  <2>. QED
    BY <1>4, <2>2, <2>3 DEF CanAnnounceToDHT
<1>5. ASSUME NEW p \in RemotePeers, NEW r \in Resources, RemoveResource(p, r)
      PROVE  TrackerInv'
  BY <1>5, RemoveResourceKeeps
<1>6. ASSUME NEW c \in announcing, MayAnnounce(c, c.peer \notin blocked)
      PROVE  TrackerInv'
  <2>1. c \in Announcing /\ [c EXCEPT !.asked = "valid"] \in Announcing
    BY <1>0 DEF Announcing
  <2>. QED
    BY <1>0, <1>6, <2>1, TrackerStutter DEF MayAnnounce
<1>7. ASSUME NEW c \in announcing, AnnouncementChecked(c) PROVE TrackerInv'
  BY <1>0, <1>7, TrackerStutter DEF AnnouncementChecked
<1>. QED
  BY <1>1, <1>2, <1>3, <1>4, <1>5, <1>6, <1>7 DEF IngressNext, AnnouncementStep

\* No peer ever has more resources than the limits of CoreSecurityManager allow.
THEOREM LimitsAreKept == IngressSpec => []LimitsHold
<1>1. TrackerInv => LimitsHold
  BY DEF TrackerInv
<1>. QED
  BY <1>1, TrackerInit, TrackerStep, PTL DEF IngressSpec

\* The two maps of the resource tracker agree in every state.
THEOREM TrackerIsConsistent == IngressSpec => []TrackerAgrees
<1>1. TrackerInv => TrackerAgrees
  BY DEF TrackerInv
<1>. QED
  BY <1>1, TrackerInit, TrackerStep, PTL DEF IngressSpec

-----------------------------------------------------------------------------
(***************************************************************************)
(* The blocked peers.                                                      *)
(***************************************************************************)
BlockInv ==
    /\ violations \in [RemotePeers -> 0 .. MaxInvalid]
    /\ blocked \subseteq RemotePeers
    /\ BlockedIffTooMany

LEMMA BlockStep == BlockInv /\ [IngressNext]_ingressVars => BlockInv'
<1> SUFFICES ASSUME BlockInv, [IngressNext]_ingressVars PROVE BlockInv'
  OBVIOUS
<1> USE DEF BlockInv
<1>0. MaxInvalid \in Nat \ {0} /\ Sender \in [Msgs -> RemotePeers]
  BY IngressAssumption
<1>1. ASSUME UNCHANGED validatorVars PROVE BlockInv'
  BY <1>1 DEF validatorVars, BlockedIffTooMany
<1>2. ASSUME NEW p \in RemotePeers, TrackValidationViolation(p) PROVE BlockInv'
  BY <1>0, <1>2 DEF TrackValidationViolation, BlockedIffTooMany
<1>3. ASSUME NEW m \in Msgs, HandleIncomingStream(m) PROVE BlockInv'
  <2>1. Sender[m] \in RemotePeers
    BY <1>0
  <2>. QED
    BY <1>1, <1>2, <1>3, <2>1 DEF HandleIncomingStream, ValidateMessageSecurity
<1>4. ASSUME NEW p \in RemotePeers, UnblockPeer(p) PROVE BlockInv'
  BY <1>0, <1>4 DEF UnblockPeer, BlockedIffTooMany
<1>5. ASSUME ClearViolations PROVE BlockInv'
  BY <1>0, <1>5 DEF ClearViolations, BlockedIffTooMany
<1>6. ASSUME \/ \E m \in Msgs : RefuseAtNode(m)
             \/ HandleMessageResume \/ AnnouncementStep \/ UNCHANGED ingressVars
      PROVE  BlockInv'
  BY <1>1, <1>6 DEF RefuseAtNode, HandleMessageResume, AnnouncementStep, ingressVars, messageVars
<1>. QED
  BY <1>3, <1>4, <1>5, <1>6 DEF IngressNext

\* A peer is blocked exactly when its violations since it was unblocked reach the limit.
THEOREM BlockedPeersAreTheViolators == IngressSpec => []BlockedIffTooMany
<1>1. IngressInit => BlockInv
  BY IngressAssumption DEF IngressInit, BlockInv, BlockedIffTooMany
<1>2. BlockInv => BlockedIffTooMany
  BY DEF BlockInv
<1>. QED
  BY <1>1, <1>2, BlockStep, PTL DEF IngressSpec

-----------------------------------------------------------------------------
(***************************************************************************)
(* Copies of a message.  What was handled, or waits to be, is known to a   *)
(* memory or was forgotten by it; a second copy gets past the node only    *)
(* when the node has forgotten the first.                                  *)
(***************************************************************************)
IsGood(m) == Defect[m] \in {"none", "unsigned"} /\ ~SignatureIsMissing(m)

MessagesTypeOK ==
    /\ nodeSeen \in Seq(Msgs) /\ handlerSeen \in Seq(Msgs) /\ handling \in Seq(Msgs)
    /\ emitted \in [Msgs -> 0 .. 2]

KnownAtNode(m) == m \in ToSet(nodeSeen) \/ m \in forgotByNode
KnownAtHandler(m) == m \in ToSet(handlerSeen) \/ m \in forgotByHandler

AwaitingAreKnown ==
    \A i \in DOMAIN handling :
        /\ Defect[handling[i]] \in {"none", "unsigned", "structure"}
        /\ IsGood(handling[i]) => KnownAtNode(handling[i])

EmittedAreKnown ==
    \A m \in Msgs : emitted[m] > 0 => IsGood(m) /\ KnownAtNode(m) /\ KnownAtHandler(m)

CopiesWereForgotten ==
    \A i \in DOMAIN handling :
        /\ IsGood(handling[i])
        /\ emitted[handling[i]] > 0 \/ \E j \in DOMAIN handling : j # i /\ handling[j] = handling[i]
        => handling[i] \in forgotByNode

OnceInv ==
    MessagesTypeOK /\ AwaitingAreKnown /\ EmittedAreKnown /\ CopiesWereForgotten /\ HandledOnce

\* What a memory drops and what it keeps is all it had.
LEMMA SplitMemory ==
    ASSUME NEW s \in Seq(Msgs), NEW n \in 0 .. Len(s)
    PROVE  /\ Without(s, n) \in Seq(Msgs)
           /\ \A m \in ToSet(s) : m \in ToSet(Without(s, n)) \/ m \in ToSet(SubSeq(s, 1, n))
<1>1. /\ Without(s, n) \in Seq(Msgs)
      /\ Len(Without(s, n)) = Len(s) - n
      /\ \A i \in 1 .. Len(s) - n : Without(s, n)[i] = s[n + i]
  BY DEF Without
<1>2. /\ Len(SubSeq(s, 1, n)) = n
      /\ \A i \in 1 .. n : SubSeq(s, 1, n)[i] = s[i]
  OBVIOUS
<1>3. ASSUME NEW i \in 1 .. Len(s)
      PROVE  s[i] \in ToSet(Without(s, n)) \/ s[i] \in ToSet(SubSeq(s, 1, n))
  <2>1. CASE i <= n
    BY <1>2, <2>1 DEF ToSet
  <2>2. CASE i > n
    <3>1. i - n \in 1 .. Len(s) - n /\ s[i] = Without(s, n)[i - n]
      BY <1>1, <2>2
    <3>. QED
      BY <1>1, <3>1 DEF ToSet
  <2>. QED
    BY <2>1, <2>2
<1>4. ASSUME NEW m \in ToSet(s) PROVE \E i \in 1 .. Len(s) : m = s[i]
  BY DEF ToSet
<1>. QED
  BY <1>1, <1>3, <1>4

\* Append adds its element and keeps the others.
LEMMA AppendMembers ==
    ASSUME NEW s \in Seq(Msgs), NEW m \in Msgs
    PROVE  Append(s, m) \in Seq(Msgs) /\ ToSet(Append(s, m)) = ToSet(s) \cup {m}
<1>1. /\ Append(s, m) \in Seq(Msgs)
      /\ DOMAIN s = 1 .. Len(s) /\ DOMAIN Append(s, m) = 1 .. Len(s) + 1
      /\ \A i \in 1 .. Len(s) : Append(s, m)[i] = s[i]
      /\ Append(s, m)[Len(s) + 1] = m
      /\ Len(s) \in Nat
  OBVIOUS
<1>2. ASSUME NEW i \in 1 .. Len(s) + 1 PROVE Append(s, m)[i] \in ToSet(s) \cup {m}
  <2>1. i \in 1 .. Len(s) \/ i = Len(s) + 1
    BY <1>1
  <2>. QED
    BY <1>1, <2>1 DEF ToSet
<1>3. ASSUME NEW k \in ToSet(s) \cup {m} PROVE k \in ToSet(Append(s, m))
  <2>1. CASE k = m
    <3>1. Len(s) + 1 \in 1 .. Len(s) + 1
      BY <1>1
    <3>. QED
      BY <1>1, <2>1, <3>1 DEF ToSet
  <2>2. CASE k \in ToSet(s)
    <3>1. PICK i \in 1 .. Len(s) : k = s[i]
      BY <1>1, <2>2 DEF ToSet
    <3>2. i \in 1 .. Len(s) + 1 /\ Append(s, m)[i] = k
      BY <1>1, <3>1
    <3>. QED
      BY <1>1, <3>2 DEF ToSet
  <2>. QED
    BY <1>3, <2>1, <2>2
<1>4. \A k : k \in ToSet(Append(s, m)) => \E i \in 1 .. Len(s) + 1 : k = Append(s, m)[i]
  BY <1>1 DEF ToSet
<1>. QED
  BY <1>1, <1>2, <1>3, <1>4

\* The node knows what it knew, and the new message.
LEMMA NodeRemembers ==
    ASSUME MessagesTypeOK, NEW m \in Msgs, RememberAtNode(m)
    PROVE  /\ nodeSeen' \in Seq(Msgs)
           /\ forgotByNode \subseteq forgotByNode'
           /\ \A k \in Msgs : IsGood(k) /\ (k = m \/ KnownAtNode(k)) => KnownAtNode(k)'
<1> DEFINE all == Append(nodeSeen, m)
           gone == IF Len(all) > NodeLimit THEN NodeBatch ELSE 0
<1>1. /\ all \in Seq(Msgs) /\ ToSet(all) = ToSet(nodeSeen) \cup {m}
  BY AppendMembers DEF MessagesTypeOK
<1>2. gone \in 0 .. Len(all)
  <2>1. NodeLimit \in Nat /\ NodeBatch \in 1 .. NodeLimit
    BY IngressAssumption
  <2>. QED
    BY <1>1, <2>1
<1>3. /\ nodeSeen' = Without(all, gone)
      /\ forgotByNode' = forgotByNode \cup Good(ToSet(SubSeq(all, 1, gone)))
  BY DEF RememberAtNode
<1> HIDE DEF all, gone
<1>4. \A k \in ToSet(all) : k \in ToSet(nodeSeen') \/ k \in ToSet(SubSeq(all, 1, gone))
  BY <1>1, <1>2, <1>3, SplitMemory
<1>5. nodeSeen' \in Seq(Msgs)
  BY <1>1, <1>2, <1>3, SplitMemory
<1>6. ASSUME NEW k \in Msgs, IsGood(k), k = m \/ KnownAtNode(k) PROVE KnownAtNode(k)'
  BY <1>1, <1>3, <1>4, <1>6 DEF KnownAtNode, IsGood, Good
<1>. QED
  BY <1>3, <1>5, <1>6 DEF IsGood, SignatureIsMissing

\* Likewise the handler.
LEMMA HandlerRemembers ==
    ASSUME MessagesTypeOK, NEW m \in Msgs, RememberAtHandler(m)
    PROVE  /\ handlerSeen' \in Seq(Msgs)
           /\ forgotByHandler \subseteq forgotByHandler'
           /\ \A k \in Msgs : IsGood(k) /\ (k = m \/ KnownAtHandler(k)) => KnownAtHandler(k)'
<1> DEFINE gone == IF Len(handlerSeen) >= HandlerLimit THEN HandlerBatch ELSE 0
           kept == Without(handlerSeen, gone)
<1>1. handlerSeen \in Seq(Msgs)
  BY DEF MessagesTypeOK
<1>2. gone \in 0 .. Len(handlerSeen)
  <2>1. HandlerLimit \in Nat /\ HandlerBatch \in 1 .. HandlerLimit
    BY IngressAssumption
  <2>. QED
    BY <1>1, <2>1
<1>3. /\ handlerSeen' = Append(kept, m)
      /\ forgotByHandler' = forgotByHandler \cup Good(ToSet(SubSeq(handlerSeen, 1, gone)))
  BY DEF RememberAtHandler
<1>4. kept \in Seq(Msgs)
  BY <1>1, <1>2, SplitMemory
<1>5. \A k \in ToSet(handlerSeen) : k \in ToSet(kept) \/ k \in ToSet(SubSeq(handlerSeen, 1, gone))
  BY <1>1, <1>2, SplitMemory
<1> HIDE DEF kept, gone
<1>6. handlerSeen' \in Seq(Msgs) /\ ToSet(handlerSeen') = ToSet(kept) \cup {m}
  BY <1>3, <1>4, AppendMembers
<1>7. ASSUME NEW k \in Msgs, IsGood(k), k = m \/ KnownAtHandler(k) PROVE KnownAtHandler(k)'
  BY <1>3, <1>5, <1>6, <1>7 DEF KnownAtHandler, IsGood, Good
<1>. QED
  BY <1>3, <1>6, <1>7

\* A message enters the await only when the node does not remember a copy of it.
LEMMA StreamKeepsOnce ==
    ASSUME OnceInv, NEW m \in Msgs, HandleIncomingStream(m) PROVE OnceInv'
<1> USE DEF OnceInv
<1>1. /\ nodeSeen' \in Seq(Msgs) /\ forgotByNode \subseteq forgotByNode'
      /\ \A k \in Msgs : IsGood(k) /\ (k = m \/ KnownAtNode(k)) => KnownAtNode(k)'
  BY NodeRemembers DEF HandleIncomingStream
<1>2. UNCHANGED <<handlerSeen, forgotByHandler, emitted>>
  BY DEF HandleIncomingStream
<1>3. \/ handling' = handling
      \/ /\ handling' = Append(handling, m)
         /\ Defect[m] \in {"none", "unsigned", "structure"}
  BY IngressAssumption DEF HandleIncomingStream, ValidateMessageSecurity, Defects, Insecure
<1>4. handling \in Seq(Msgs) /\ \A i \in DOMAIN handling : handling[i] \in Msgs
  BY DEF MessagesTypeOK
<1>5. MessagesTypeOK'
  <2>1. handling' \in Seq(Msgs)
    BY <1>3, <1>4
  <2>. QED
    BY <1>1, <1>2, <2>1 DEF MessagesTypeOK
<1>6. EmittedAreKnown'
  BY <1>1, <1>2 DEF EmittedAreKnown, IsGood, SignatureIsMissing, KnownAtHandler
<1>7. HandledOnce'
  BY <1>1, <1>2 DEF HandledOnce
<1>8. CASE handling' = handling
  <2>1. AwaitingAreKnown'
    BY <1>1, <1>4, <1>8 DEF AwaitingAreKnown, IsGood, SignatureIsMissing
  <2>2. CopiesWereForgotten'
    BY <1>1, <1>2, <1>4, <1>8 DEF CopiesWereForgotten, IsGood, SignatureIsMissing
  <2>. QED
    BY <1>5, <1>6, <1>7, <2>1, <2>2
<1>9. CASE /\ handling' = Append(handling, m)
           /\ Defect[m] \in {"none", "unsigned", "structure"}
  <2> DEFINE n == Len(handling)
  <2>1. /\ n \in Nat /\ DOMAIN handling = 1 .. n /\ DOMAIN handling' = 1 .. n + 1
        /\ \A i \in 1 .. n : handling'[i] = handling[i] /\ handling[i] \in Msgs
        /\ handling'[n + 1] = m
    BY <1>4, <1>9
  <2>2. \A i \in 1 .. n + 1 : i = n + 1 \/ i \in 1 .. n
    BY <2>1
  <2> HIDE DEF n
  <2>3. AwaitingAreKnown'
    BY <1>1, <1>9, <2>1, <2>2 DEF AwaitingAreKnown, IsGood, SignatureIsMissing
  <2>4. ASSUME IsGood(m), emitted[m] > 0 \/ \E j \in 1 .. n : handling[j] = m
        PROVE  m \in forgotByNode'
    <3>1. m \notin ToSet(nodeSeen)
      BY DEF HandleIncomingStream
    <3>2. KnownAtNode(m)
      BY <2>1, <2>4 DEF AwaitingAreKnown, EmittedAreKnown
    <3>. QED
      BY <1>1, <3>1, <3>2 DEF KnownAtNode
  <2>5. ASSUME NEW i \in 1 .. n + 1, IsGood(handling'[i]),
               \/ emitted[handling'[i]] > 0
               \/ \E j \in 1 .. n + 1 : j # i /\ handling'[j] = handling'[i]
        PROVE  handling'[i] \in forgotByNode'
    <3>1. CASE handling'[i] = m
      <4>1. emitted[m] > 0 \/ \E j \in 1 .. n : handling[j] = m
        BY <2>1, <2>2, <2>5, <3>1
      <4>. QED
        BY <2>4, <2>5, <3>1, <4>1
    <3>2. CASE handling'[i] # m
      <4>1. i \in 1 .. n
        BY <2>1, <2>2, <3>2
      <4>2. \/ emitted[handling[i]] > 0
            \/ \E j \in 1 .. n : j # i /\ handling[j] = handling[i]
        BY <2>1, <2>2, <2>5, <3>2, <4>1
      <4>. QED
        BY <1>1, <2>1, <2>5, <4>1, <4>2 DEF CopiesWereForgotten
    <3>. QED
      BY <3>1, <3>2
  <2>6. CopiesWereForgotten'
    BY <1>2, <2>1, <2>5 DEF CopiesWereForgotten, IsGood, SignatureIsMissing
  <2>. QED
    BY <1>5, <1>6, <1>7, <2>3, <2>6
<1>. QED
  BY <1>3, <1>8, <1>9

\* What leaves the await is emitted only when the handler does not remember a copy.
LEMMA ResumeKeepsOnce ==
    ASSUME OnceInv, HandleMessageResume PROVE OnceInv'
<1> USE DEF OnceInv
<1> DEFINE m == Head(handling)
           n == Len(handling)
<1>1. /\ handling \in Seq(Msgs) /\ handling # <<>> /\ handling' = Tail(handling)
      /\ UNCHANGED <<nodeSeen, forgotByNode>>
  BY DEF HandleMessageResume, MessagesTypeOK
<1>2. /\ n \in Nat \ {0} /\ DOMAIN handling = 1 .. n /\ DOMAIN handling' = 1 .. n - 1
      /\ \A i \in 1 .. n - 1 : handling'[i] = handling[i + 1] /\ i + 1 \in 1 .. n
      /\ \A i \in 1 .. n : handling[i] \in Msgs
      /\ m = handling[1] /\ 1 \in 1 .. n /\ handling' \in Seq(Msgs)
  BY <1>1
<1>3. m \in Msgs /\ Defect[m] \in {"none", "unsigned", "structure"}
  BY <1>2 DEF AwaitingAreKnown
<1>4. IsGood(m) => KnownAtNode(m)
  BY <1>2 DEF AwaitingAreKnown
<1> HIDE DEF m, n
<1>5. AwaitingAreKnown'
  BY <1>1, <1>2 DEF AwaitingAreKnown, IsGood, SignatureIsMissing, KnownAtNode
<1>6. CASE UNCHANGED <<handlerSeen, forgotByHandler, emitted>>
  <2>1. MessagesTypeOK'
    BY <1>1, <1>2, <1>6 DEF MessagesTypeOK
  <2>2. EmittedAreKnown' /\ HandledOnce'
    BY <1>1, <1>6 DEF EmittedAreKnown, HandledOnce, IsGood, SignatureIsMissing, KnownAtNode,
                      KnownAtHandler
  <2>3. CopiesWereForgotten'
    <3>1. ASSUME NEW i \in 1 .. n - 1, IsGood(handling[i + 1]),
                 \/ emitted[handling[i + 1]] > 0
                 \/ \E j \in 1 .. n - 1 : j # i /\ handling[j + 1] = handling[i + 1]
          PROVE  handling[i + 1] \in forgotByNode
      <4>1. \/ emitted[handling[i + 1]] > 0
            \/ \E j \in 1 .. n : j # i + 1 /\ handling[j] = handling[i + 1]
        BY <1>2, <3>1
      <4>. QED
        BY <1>2, <3>1, <4>1 DEF CopiesWereForgotten
    <3>. QED
      BY <1>1, <1>2, <1>6, <3>1 DEF CopiesWereForgotten, IsGood, SignatureIsMissing
  <2>. QED
    BY <1>5, <2>1, <2>2, <2>3
<1>7. CASE /\ ~SignatureIsMissing(m) /\ m \notin ToSet(handlerSeen)
           /\ RememberAtHandler(m)
           /\ emitted' = [emitted EXCEPT ![m] =
                             IF Defect[m] = "structure" \/ @ = 2 THEN @ ELSE @ + 1]
  <2>1. /\ handlerSeen' \in Seq(Msgs) /\ forgotByHandler \subseteq forgotByHandler'
        /\ \A k \in Msgs : IsGood(k) /\ (k = m \/ KnownAtHandler(k)) => KnownAtHandler(k)'
    BY <1>3, <1>7, HandlerRemembers
  <2>2. /\ emitted' \in [Msgs -> 0 .. 2]
        /\ \A k \in Msgs : k # m => emitted'[k] = emitted[k]
        /\ Defect[m] = "structure" => emitted'[m] = emitted[m]
        /\ emitted'[m] > 1 => emitted'[m] = emitted[m] \/ emitted[m] > 0
    BY <1>3, <1>7 DEF MessagesTypeOK
  <2>3. MessagesTypeOK'
    BY <1>1, <1>2, <2>1, <2>2 DEF MessagesTypeOK
  <2>4. Defect[m] # "structure" => IsGood(m) /\ KnownAtNode(m)
    BY <1>3, <1>4, <1>7 DEF IsGood
  <2>5. EmittedAreKnown'
    <3>1. ASSUME NEW k \in Msgs, emitted'[k] > 0
          PROVE  IsGood(k) /\ KnownAtNode(k) /\ KnownAtHandler(k)'
      <4>1. CASE emitted'[k] = emitted[k]
        BY <2>1, <3>1, <4>1 DEF EmittedAreKnown
      <4>2. CASE k = m /\ Defect[m] # "structure"
        BY <2>1, <2>4, <4>2
      <4>. QED
        BY <2>2, <4>1, <4>2
    <3>. QED
      BY <1>1, <3>1 DEF EmittedAreKnown, IsGood, SignatureIsMissing, KnownAtNode
  <2>6. HandledOnce'
    <3>1. ASSUME NEW k \in Msgs, emitted'[k] > 1
          PROVE  k \in forgotByNode /\ k \in forgotByHandler'
      <4>1. CASE emitted'[k] = emitted[k]
        BY <2>1, <3>1, <4>1 DEF HandledOnce
      <4>2. CASE k = m /\ emitted[m] > 0
        <5>1. IsGood(m) /\ KnownAtHandler(m)
          BY <1>3, <4>2 DEF EmittedAreKnown
        <5>2. m \in forgotByHandler
          BY <1>7, <5>1 DEF KnownAtHandler
        <5>3. m \in forgotByNode
          BY <1>2, <4>2, <5>1 DEF CopiesWereForgotten
        <5>. QED
          BY <2>1, <4>2, <5>2, <5>3
      <4>. QED
        BY <2>2, <3>1, <4>1, <4>2
    <3>. QED
      BY <1>1, <3>1 DEF HandledOnce
  <2>7. CopiesWereForgotten'
    <3>1. ASSUME NEW i \in 1 .. n - 1, IsGood(handling[i + 1]),
                 \/ emitted'[handling[i + 1]] > 0
                 \/ \E j \in 1 .. n - 1 : j # i /\ handling[j + 1] = handling[i + 1]
          PROVE  handling[i + 1] \in forgotByNode
      <4>1. i + 1 \in 1 .. n /\ i + 1 # 1 /\ handling[i + 1] \in Msgs
        BY <1>2
      <4>2. \/ emitted[handling[i + 1]] > 0
            \/ \E j \in 1 .. n : j # i + 1 /\ handling[j] = handling[i + 1]
        <5>1. CASE handling[i + 1] = m
          BY <1>2, <4>1, <5>1
        <5>2. CASE handling[i + 1] # m
          BY <1>2, <2>2, <3>1, <4>1, <5>2
        <5>. QED
          BY <5>1, <5>2
      <4>. QED
        BY <1>2, <3>1, <4>1, <4>2 DEF CopiesWereForgotten
    <3>. QED
      BY <1>1, <1>2, <3>1 DEF CopiesWereForgotten, IsGood, SignatureIsMissing
  <2>. QED
    BY <1>5, <2>3, <2>5, <2>6, <2>7
<1>. QED
  BY <1>6, <1>7 DEF HandleMessageResume, m

LEMMA OnceStep == OnceInv /\ [IngressNext]_ingressVars => OnceInv'
<1> SUFFICES ASSUME OnceInv, [IngressNext]_ingressVars PROVE OnceInv'
  OBVIOUS
<1>1. CASE \E m \in Msgs : HandleIncomingStream(m)
  BY <1>1, StreamKeepsOnce
<1>2. CASE HandleMessageResume
  BY <1>2, ResumeKeepsOnce
<1>3. CASE UNCHANGED <<memoryVars, handling, emitted>>
  BY <1>3 DEF OnceInv, MessagesTypeOK, AwaitingAreKnown, EmittedAreKnown, CopiesWereForgotten,
              HandledOnce, KnownAtNode, KnownAtHandler, IsGood, SignatureIsMissing, memoryVars
<1>4. CASE \/ \E m \in Msgs : RefuseAtNode(m)
           \/ \E p \in RemotePeers : UnblockPeer(p)
           \/ ClearViolations \/ AnnouncementStep \/ UNCHANGED ingressVars
  BY <1>3, <1>4 DEF RefuseAtNode, UnblockPeer, ClearViolations, AnnouncementStep, ingressVars,
                    messageVars
<1>. QED
  BY <1>1, <1>2, <1>4 DEF IngressNext

\* A message is handled again only after both memories have made room for others.
THEOREM CopiesAreHandledOnce == IngressSpec => []HandledOnce
<1>1. IngressInit => OnceInv
  BY DEF IngressInit, OnceInv, MessagesTypeOK, AwaitingAreKnown, EmittedAreKnown,
         CopiesWereForgotten, HandledOnce
<1>2. OnceInv => HandledOnce
  BY DEF OnceInv
<1>. QED
  BY <1>1, <1>2, OnceStep, PTL DEF IngressSpec
-----------------------------------------------------------------------------
(***************************************************************************)
(* Types.  What the invariants above leave open: the bans, the bounds of   *)
(* the memories and the history.                                           *)
(***************************************************************************)
BansTypeOK ==
    /\ cooling \subseteq RemotePeers
    /\ warnings \in [RemotePeers -> 0 .. BanAt]
    /\ banned \subseteq RemotePeers /\ tempBanned \subseteq RemotePeers

BoundsOK ==
    /\ Len(nodeSeen) <= NodeLimit /\ Len(handlerSeen) <= HandlerLimit
    /\ Len(handling) <= MaxHandling
    /\ forgotByNode \subseteq Msgs /\ forgotByHandler \subseteq Msgs

LEMMA WarningKeepsType ==
    ASSUME BansTypeOK, NEW p \in RemotePeers, WarnPeer(p), cooling' \subseteq RemotePeers
    PROVE  BansTypeOK'
<1>1. BanAt \in Nat \ {0}
  BY CoreSecurityAssumption
<1> DEFINE count == IF warnings[p] = BanAt THEN BanAt ELSE warnings[p] + 1
<1>2. count \in 0 .. BanAt
  BY <1>1 DEF BansTypeOK
<1>3. /\ warnings' = [warnings EXCEPT ![p] = count]
      /\ tempBanned' \subseteq tempBanned \cup {p} /\ banned' \subseteq banned \cup {p}
  BY DEF WarnPeer
<1> HIDE DEF count
<1>. QED
  BY <1>2, <1>3 DEF BansTypeOK

LEMMA BansStep ==
    ASSUME BansTypeOK, announcing \subseteq Announcing, [IngressNext]_ingressVars
    PROVE  BansTypeOK'
<1>1. ASSUME UNCHANGED <<cooling, banVars>> PROVE BansTypeOK'
  BY <1>1 DEF BansTypeOK, banVars
<1>2. ASSUME NEW m \in Msgs, RefuseAtNode(m) PROVE BansTypeOK'
  BY <1>2, IngressAssumption, WarningKeepsType DEF RefuseAtNode, BansTypeOK
<1>3. CASE \/ \E m \in Msgs : HandleIncomingStream(m)
           \/ \E p \in RemotePeers : UnblockPeer(p)
           \/ HandleMessageResume \/ ClearViolations \/ UNCHANGED ingressVars
  BY <1>1, <1>3 DEF HandleIncomingStream, UnblockPeer, HandleMessageResume, ClearViolations,
                    ingressVars, securityVars
<1>4. ASSUME NEW p \in RemotePeers,
             BanPeer(p) \/ UnbanPeer(p) \/ TempBanEnds(p) \/ IntervalEnds(p)
      PROVE  BansTypeOK'
  BY <1>4, CoreSecurityAssumption
  DEF BansTypeOK, BanPeer, UnbanPeer, TempBanEnds, IntervalEnds, banVars
<1>5. ASSUME NEW p \in RemotePeers, NEW r \in Resources, CanAnnounceToDHT(p, r)
      PROVE  BansTypeOK'
  <2>1. cooling' \subseteq RemotePeers
    BY <1>5 DEF CanAnnounceToDHT, BansTypeOK
  <2>2. CASE WarnPeer(p)
    BY <2>1, <2>2, WarningKeepsType
  <2>3. CASE UNCHANGED banVars
    BY <2>1, <2>3 DEF BansTypeOK, banVars
  <2>. QED
    BY <1>5, <2>2, <2>3 DEF CanAnnounceToDHT
<1>6. ASSUME NEW p \in RemotePeers, NEW r \in Resources, RemoveResource(p, r)
      PROVE  BansTypeOK'
  BY <1>1, <1>6 DEF RemoveResource
<1>7. ASSUME NEW c \in announcing, MayAnnounce(c, c.peer \notin blocked) PROVE BansTypeOK'
  BY <1>1, <1>7 DEF MayAnnounce
<1>8. ASSUME NEW c \in announcing, AnnouncementChecked(c) PROVE BansTypeOK'
  <2>1. c.peer \in RemotePeers
    BY DEF Announcing
  <2>2. UNCHANGED cooling /\ (WarnPeer(c.peer) \/ UNCHANGED banVars)
    BY <1>8 DEF AnnouncementChecked
  <2>. QED
    BY <1>1, <2>1, <2>2, WarningKeepsType DEF BansTypeOK
<1>. QED
  BY <1>2, <1>3, <1>4, <1>5, <1>6, <1>7, <1>8 DEF IngressNext, AnnouncementStep

\* A memory that makes room drops at least one message.
LEMMA BoundsStep ==
    ASSUME MessagesTypeOK, BoundsOK, [IngressNext]_ingressVars
    PROVE  BoundsOK'
<1> USE DEF BoundsOK
<1>1. /\ NodeLimit \in Nat /\ NodeBatch \in 1 .. NodeLimit
      /\ HandlerLimit \in Nat /\ HandlerBatch \in 1 .. HandlerLimit /\ MaxHandling \in Nat
  BY IngressAssumption
<1>2. /\ nodeSeen \in Seq(Msgs) /\ handlerSeen \in Seq(Msgs) /\ handling \in Seq(Msgs)
  BY DEF MessagesTypeOK
<1>3. \A ms : Good(ms) \subseteq ms
  BY DEF Good
<1>4. ASSUME NEW s \in Seq(Msgs), NEW n \in 0 .. Len(s)
      PROVE  Len(Without(s, n)) = Len(s) - n /\ ToSet(SubSeq(s, 1, n)) \subseteq Msgs
  <2>1. /\ Len(Without(s, n)) = Len(s) - n
        /\ SubSeq(s, 1, n) \in Seq(Msgs)
    BY DEF Without
  <2>. QED
    BY <2>1 DEF ToSet
<1>5. ASSUME NEW m \in Msgs, HandleIncomingStream(m) PROVE BoundsOK'
  <2> DEFINE all == Append(nodeSeen, m)
             gone == IF Len(all) > NodeLimit THEN NodeBatch ELSE 0
  <2>1. all \in Seq(Msgs) /\ Len(all) = Len(nodeSeen) + 1
    BY <1>2
  <2>2. gone \in 0 .. Len(all) /\ Len(all) - gone <= NodeLimit
    BY <1>1, <1>2, <2>1
  <2>3. /\ nodeSeen' = Without(all, gone)
        /\ forgotByNode' = forgotByNode \cup Good(ToSet(SubSeq(all, 1, gone)))
    BY <1>5 DEF HandleIncomingStream, RememberAtNode
  <2> HIDE DEF all, gone
  <2>4. Len(nodeSeen') <= NodeLimit /\ forgotByNode' \subseteq Msgs
    <3>1. /\ Len(Without(all, gone)) = Len(all) - gone
          /\ ToSet(SubSeq(all, 1, gone)) \subseteq Msgs
      BY <1>4, <2>1, <2>2
    <3>. QED
      BY <1>3, <2>2, <2>3, <3>1
  <2>5. Len(handling') <= MaxHandling
    <3>1. Len(handling) < MaxHandling /\ (handling' = handling \/ handling' = Append(handling, m))
      BY <1>5 DEF HandleIncomingStream, ValidateMessageSecurity
    <3>. QED
      BY <1>1, <1>2, <3>1
  <2>. QED
    BY <1>5, <2>4, <2>5 DEF HandleIncomingStream
<1>6. ASSUME HandleMessageResume PROVE BoundsOK'
  <2>1. Len(handling') <= MaxHandling
    BY <1>1, <1>2, <1>6 DEF HandleMessageResume
  <2>2. CASE UNCHANGED <<handlerSeen, forgotByHandler>>
    BY <1>6, <2>1, <2>2 DEF HandleMessageResume
  <2>3. CASE RememberAtHandler(Head(handling))
    <3> DEFINE gone == IF Len(handlerSeen) >= HandlerLimit THEN HandlerBatch ELSE 0
               kept == Without(handlerSeen, gone)
    <3>1. gone \in 0 .. Len(handlerSeen) /\ Len(handlerSeen) - gone + 1 <= HandlerLimit
      BY <1>1, <1>2
    <3>2. /\ handlerSeen' = Append(kept, Head(handling))
          /\ forgotByHandler' = forgotByHandler \cup Good(ToSet(SubSeq(handlerSeen, 1, gone)))
      BY <2>3 DEF RememberAtHandler
    <3>3. kept \in Seq(Msgs)
      BY <1>2, <3>1, SplitMemory
    <3> HIDE DEF gone
    <3>4. /\ Len(kept) = Len(handlerSeen) - gone
          /\ ToSet(SubSeq(handlerSeen, 1, gone)) \subseteq Msgs
      BY <1>2, <1>4, <3>1
    <3> HIDE DEF kept
    <3>5. Len(handlerSeen') = Len(kept) + 1
      BY <3>2, <3>3
    <3>6. forgotByHandler' \subseteq Msgs
      BY <1>3, <3>2, <3>4
    <3>. QED
      BY <1>6, <2>1, <3>1, <3>4, <3>5, <3>6 DEF HandleMessageResume
  <2>. QED
    BY <1>6, <2>2, <2>3 DEF HandleMessageResume
<1>7. CASE \/ \E m \in Msgs : RefuseAtNode(m)
           \/ \E p \in RemotePeers : UnblockPeer(p)
           \/ ClearViolations \/ AnnouncementStep \/ UNCHANGED ingressVars
  BY <1>7 DEF RefuseAtNode, UnblockPeer, ClearViolations, AnnouncementStep, ingressVars,
              messageVars, memoryVars
<1>. QED
  BY <1>5, <1>6, <1>7 DEF IngressNext

\* The memories stay within their limits and every other variable of the ingress and of the
\* security manager has its type, warnings, bans and calls under way included.
THEOREM IngressTypeCorrect == IngressSpec => []IngressTypeOK
<1> DEFINE Inv == TrackerInv /\ BlockInv /\ OnceInv /\ BansTypeOK /\ BoundsOK
<1>1. IngressInit => Inv
  <2>1. IngressInit => OnceInv
    BY DEF IngressInit, OnceInv, MessagesTypeOK, AwaitingAreKnown, EmittedAreKnown,
           CopiesWereForgotten, HandledOnce
  <2>2. IngressInit => BlockInv
    BY IngressAssumption DEF IngressInit, BlockInv, BlockedIffTooMany
  <2>3. IngressInit => BansTypeOK /\ BoundsOK
    BY IngressAssumption, CoreSecurityAssumption
    DEF IngressInit, SecurityInit, BansTypeOK, BoundsOK
  <2>. QED
    BY <2>1, <2>2, <2>3, TrackerInit
<1>2. Inv /\ [IngressNext]_ingressVars => Inv'
  BY TrackerStep, BlockStep, OnceStep, BansStep, BoundsStep
  DEF OnceInv, TrackerInv, TrackerTypeOK
<1>3. Inv => IngressTypeOK
  BY DEF TrackerInv, TrackerTypeOK, BlockInv, OnceInv, MessagesTypeOK, BansTypeOK, BoundsOK,
         IngressTypeOK, SecurityTypeOK
<1>. QED
  BY <1>1, <1>2, <1>3, PTL DEF IngressSpec
=============================================================================
