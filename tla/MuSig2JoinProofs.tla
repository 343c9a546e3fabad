-------------------------- MODULE MuSig2JoinProofs --------------------------
(***************************************************************************)
(* Theorems about the promise lock, for any set of tasks, and about        *)
(* joining, for any peers, signers and number of tries.                    *)
(***************************************************************************)
EXTENDS MuSig2Join, FiniteSetTheorems, FunctionTheorems, TLAPS

-----------------------------------------------------------------------------
(***************************************************************************)
(* The lock.                                                               *)
(***************************************************************************)
\* The entry belongs to a running operation, every waiter waits for a task whose
\* promise is resolved or will be, and a task with a pending promise is running
\* or has not started.
LockInv == LockTypeOK /\ LockedMeansHeld /\ NoStrandedWaiter

\* Every step of the lock keeps the invariant.
LEMMA LockStep == LockInv /\ [LockNext]_lockVars => LockInv'
<1> SUFFICES ASSUME LockInv, [LockNext]_lockVars PROVE LockInv'
  OBVIOUS
<1> USE LockAssumption DEF LockInv, LockTypeOK, LockedMeansHeld, NoStrandedWaiter
<1>1. ASSUME NEW t \in Tasks, Acquire(t) PROVE LockInv'
  <2>1. CASE locks = None /\ Take(t) /\ UNCHANGED <<resolved, waitsFor>>
    BY <1>1, <2>1 DEF Acquire, Take
  <2>2. CASE /\ locks # None
             /\ waitsFor' = [waitsFor EXCEPT ![t] = locks]
             /\ pc' = [pc EXCEPT ![t] = "waiting"]
             /\ UNCHANGED <<locks, resolved>>
    <3>1. pc[t] = "idle" /\ locks # t
      BY <1>1, <2>2 DEF Acquire
    <3>2. LockTypeOK'
      BY <2>2
    <3>3. LockedMeansHeld'
      BY <2>2, <3>1
    <3>4. NoStrandedWaiter'
      <4> SUFFICES ASSUME NEW u \in Tasks, pc'[u] = "waiting"
                   PROVE  waitsFor'[u] \in resolved' \/ pc'[waitsFor'[u]] = "holding"
        OBVIOUS
      <4>1. CASE u = t
        BY <2>2, <3>1, <4>1
      <4>2. CASE u # t
        <5>1. /\ pc[u] = "waiting" /\ waitsFor'[u] = waitsFor[u]
          BY <2>2, <4>2
        <5> QED
          BY <2>2, <3>1, <5>1
      <4> QED
        BY <4>1, <4>2
    <3> QED
      BY <3>2, <3>3, <3>4
  <2> QED
    BY <1>1, <2>1, <2>2 DEF Acquire
<1>2. ASSUME NEW t \in Tasks, WakeUp(t) PROVE LockInv'
  BY <1>2 DEF WakeUp, Take
<1>3. ASSUME NEW t \in Tasks, TryAcquire(t) PROVE LockInv'
  BY <1>3 DEF TryAcquire, Take
<1>4. ASSUME NEW t \in Tasks, Release(t) PROVE LockInv'
  BY <1>4 DEF Release
<1>5. CASE ForceRelease
  BY <1>5 DEF ForceRelease
<1>6. CASE UNCHANGED lockVars
  BY <1>6 DEF lockVars
<1> QED
  BY <1>1, <1>2, <1>3, <1>4, <1>5, <1>6 DEF LockNext

\* The lock's invariant holds throughout.
LEMMA LockInvariant == LockSpec => []LockInv
<1>1. LockInit => LockInv
  BY LockAssumption
  DEF LockInit, LockInv, LockTypeOK, LockedMeansHeld, NoStrandedWaiter
<1> QED
  BY <1>1, LockStep, PTL DEF LockSpec

\* Every variable of the lock always has its type.
THEOREM LockTypeCorrect == LockSpec => []LockTypeOK
<1>1. LockInv => LockTypeOK
  BY DEF LockInv
<1> QED
  BY <1>1, LockInvariant, PTL

\* For any number of tasks, the map only ever holds the promise of an operation
\* that is still running, in spite of releases that delete another's entry.
THEOREM EntryIsHeld == LockSpec => []LockedMeansHeld
<1>1. LockInv => LockedMeansHeld
  BY DEF LockInv
<1> QED
  BY <1>1, LockInvariant, PTL

\* For any number of tasks, no task waits for a promise that nobody resolves.
THEOREM NobodyStranded == LockSpec => []NoStrandedWaiter
<1>1. LockInv => NoStrandedWaiter
  BY DEF LockInv
<1> QED
  BY <1>1, LockInvariant, PTL

-----------------------------------------------------------------------------
(***************************************************************************)
(* Joining.                                                                *)
(***************************************************************************)
LEMMA RequestsOfPeers == \A r \in Requests : r.peer \in Peers
  BY DEF Requests

\* The participants are peers.
PeersOnly == participants \subseteq Peers

LEMMA OnlyPeers == JoinSpec => []PeersOnly
<1>1. JoinInit => PeersOnly
  BY DEF JoinInit, PeersOnly
<1>2. PeersOnly /\ [JoinNext]_joinVars => PeersOnly'
  BY RequestsOfPeers
  DEF PeersOnly, JoinNext, JoinSession, AddParticipant, RemoveParticipant,
      HandleSessionJoin, Coordinator, GetLock, CheckAndAdd, FinishJoin,
      HandleSessionJoinAck, DropSession, CleanupCoordinator, joinVars, hostState
<1> QED
  BY <1>1, <1>2, PTL DEF JoinSpec

\* Two participants have the same signer index only when the application added one of
\* them by hand, for any number of handlers that hold the lock at once: the check and the
\* addition are one stretch of code between awaits, and addParticipant does not look.
THEOREM IndexSharedByHand == JoinSpec => []SharedOnlyByHand
<1>1. JoinInit => SharedOnlyByHand
  BY DEF JoinInit, SharedOnlyByHand
<1>2. SharedOnlyByHand /\ [JoinNext]_joinVars => SharedOnlyByHand'
  <2> SUFFICES ASSUME SharedOnlyByHand, [JoinNext]_joinVars
               PROVE  SharedOnlyByHand'
    OBVIOUS
  <2>1. ASSUME NEW r \in Requests, CheckAndAdd(r) PROVE SharedOnlyByHand'
    BY <2>1 DEF CheckAndAdd, MayJoin, Taken, SharedOnlyByHand
  <2>2. ASSUME NEW p \in Peers, AddParticipant(p) PROVE SharedOnlyByHand'
    BY <2>2 DEF AddParticipant, SharedOnlyByHand
  <2>3. ASSUME participants' \subseteq participants PROVE SharedOnlyByHand'
    BY <2>3 DEF SharedOnlyByHand
  <2> QED
    BY <2>1, <2>2, <2>3
    DEF JoinNext, JoinSession, RemoveParticipant, HandleSessionJoin, Coordinator,
        GetLock, FinishJoin, HandleSessionJoinAck, DropSession, CleanupCoordinator, joinVars, hostState
<1> QED
  BY <1>1, <1>2, PTL DEF JoinSpec

\* If addParticipant is only called with peers that are alone with their key, no two
\* participants have the same signer index.
THEOREM IndexUnique ==
    ASSUME \A p \in Manual, q \in Peers : Index[q] = Index[p] => q = p
    PROVE  JoinSpec => []NoIndexTwice
<1>1. SharedOnlyByHand /\ PeersOnly => NoIndexTwice
  BY DEF SharedOnlyByHand, PeersOnly, NoIndexTwice
<1> QED
  BY <1>1, IndexSharedByHand, OnlyPeers, PTL

\* Indexes that are pairwise different and one fewer than the signers are all but one.
LEMMA FullMap ==
    ASSUME NEW ps \in SUBSET Peers, \A p, q \in ps : Index[p] = Index[q] => p = q,
           AllJoined(ps)
    PROVE  \E i \in SignerIndexes : {Index[p] : p \in ps} = SignerIndexes \ {i}
<1> DEFINE is == {Index[p] : p \in ps}
           f == [p \in ps |-> Index[p]]
<1>1. IsFiniteSet(ps)
  BY JoinAssumption, FS_Subset
<1>2. f \in Bijection(ps, is)
  <2>1. f \in [ps -> is] /\ \A a, b \in ps : f[a] = f[b] => a = b
    OBVIOUS
  <2>2. \A t \in is : \E s \in ps : f[s] = t
    OBVIOUS
  <2> HIDE DEF f, is
  <2> QED
    BY <2>1, <2>2, Fun_IsBij
<1>3. IsFiniteSet(is) /\ Cardinality(is) = Cardinality(ps)
  <2> HIDE DEF f, is
  <2> QED
    BY <1>1, <1>2, FS_Bijection, Fun_ExistsBij
<1>4. is \subseteq SignerIndexes
  BY JoinAssumption
<1>. HIDE DEF is, f
<1>5. Cardinality(is) = Cardinality(SignerIndexes) - 1
  BY <1>3 DEF AllJoined
<1>6. Cardinality(SignerIndexes) \in Nat /\ Cardinality(is) \in Nat
  BY <1>3, JoinAssumption, FS_CardinalityType
<1>7. PICK i \in SignerIndexes : i \notin is
  <2>1. is # SignerIndexes
    BY <1>5, <1>6
  <2>. QED
    BY <2>1, <1>4
<1>8. IsFiniteSet(SignerIndexes \ {i})
      /\ Cardinality(SignerIndexes \ {i}) = Cardinality(SignerIndexes) - 1
  BY JoinAssumption, FS_RemoveElement
<1>9. is = SignerIndexes \ {i}
  BY <1>4, <1>5, <1>7, <1>8, FS_Subset
<1> QED
  BY <1>9 DEF is

\* Whoever joins, is added by hand or is dropped: when SESSION_READY is emitted, every
\* other signer has a participant, or a participant has the coordinator's own key, or one
\* that was added by hand has the key of another.
THEOREM ReadyExplained == JoinSpec => ReadyIsExplained
<1>1. ASSUME SharedOnlyByHand', PeersOnly', [JoinNext]_joinVars, emissions' # emissions
      PROVE  \/ {Index[p] : p \in participants'} = Needed
             \/ \E p \in participants' : Index[p] = Own
             \/ \E p \in participants' \cap Manual, q \in participants' :
                    p # q /\ Index[p] = Index[q]
  <2>1. AllJoined(participants')
    BY <1>1 DEF JoinNext, JoinSession, AddParticipant, RemoveParticipant,
                HandleSessionJoin, Coordinator, GetLock, CheckAndAdd, FinishJoin,
                HandleSessionJoinAck, DropSession, CleanupCoordinator, joinVars, hostState
  <2>2. SUFFICES ASSUME \A p \in participants' : Index[p] # Own,
                        \A p \in participants' \cap Manual, q \in participants' :
                            Index[p] = Index[q] => p = q
                 PROVE  {Index[p] : p \in participants'} = Needed
    OBVIOUS
  <2>3. /\ participants' \in SUBSET Peers
        /\ \A p, q \in participants' : Index[p] = Index[q] => p = q
    BY <1>1, <2>2 DEF SharedOnlyByHand, PeersOnly
  <2>4. PICK i \in SignerIndexes :
            {Index[p] : p \in participants'} = SignerIndexes \ {i}
    BY <2>1, <2>3, FullMap
  <2>5. i = Own
    BY <2>2, <2>4, JoinAssumption
  <2> QED
    BY <2>4, <2>5 DEF Needed
<1>2. SharedOnlyByHand' /\ PeersOnly' /\ [JoinNext]_joinVars
      => [emissions' # emissions =>
              \/ {Index[p] : p \in participants'} = Needed
              \/ \E p \in participants' : Index[p] = Own
              \/ \E p \in participants' \cap Manual, q \in participants' :
                     p # q /\ Index[p] = Index[q]]_joinVars
  BY <1>1
<1> QED
  BY <1>2, IndexSharedByHand, OnlyPeers, PTL DEF JoinSpec, ReadyIsExplained

\* If addParticipant is only called with peers that are alone with their key, joining
\* implements the abstract specification of a session's membership, also with a participant
\* that has the coordinator's own key: every step of a handler, of the application or of a
\* joiner is one of its steps or leaves members and announcements alone.
THEOREM ImplementsMembership ==
    ASSUME \A p \in Manual, q \in Peers : Index[q] = Index[p] => q = p
    PROVE  JoinSpec => JoinImplementsMembership
<1> DEFINE members == {Index[p] : p \in participants}
<1>1. JoinInit => Membership!MembershipInit
  BY DEF JoinInit, Membership!MembershipInit
<1>2. ASSUME NoIndexTwice, NoIndexTwice', PeersOnly, PeersOnly', [JoinNext]_joinVars
      PROVE  [Membership!MembershipNext]_(Membership!membershipVars)
  <2> USE <1>2 DEF Membership!MembershipNext, Membership!membershipVars
  <2>1. AllJoined(participants') => Membership!AllButOne(members')
    <3>1. /\ participants' \in SUBSET Peers
          /\ \A p, q \in participants' : Index[p] = Index[q] => p = q
      BY DEF NoIndexTwice, PeersOnly
    <3> QED
      BY <3>1, FullMap DEF Membership!AllButOne
  <2>2. ASSUME NEW p \in Peers, p \notin participants,
               participants' = participants \cup {p}
        PROVE  Index[p] \in SignerIndexes \ members /\ members' = members \cup {Index[p]}
    BY <2>2, JoinAssumption DEF NoIndexTwice, PeersOnly
  <2>3. ASSUME NEW r \in Requests, CheckAndAdd(r)
        PROVE  Membership!MembershipNext \/ UNCHANGED Membership!membershipVars
    <3>1. CASE participants' = participants
      BY <2>3, <3>1 DEF CheckAndAdd
    <3>2. CASE participants' # participants
      <4>1. /\ r.peer \in Peers /\ r.peer \notin participants
            /\ participants' = participants \cup {r.peer}
            /\ emissions' = emissions
        BY <2>3, <3>2, RequestsOfPeers DEF CheckAndAdd, MayJoin
      <4> QED
        BY <4>1, <2>2 DEF Membership!Enter
    <3> QED
      BY <3>1, <3>2
  <2>4. ASSUME NEW p \in Peers, AddParticipant(p) PROVE Membership!Enter
    <3>1. /\ p \notin participants /\ participants' = participants \cup {p}
          /\ emissions' = IF AllJoined(participants') THEN emissions + 1 ELSE emissions
      BY <2>4 DEF AddParticipant
    <3> QED
      BY <3>1, <2>1, <2>2 DEF Membership!Enter
  <2>5. ASSUME NEW p \in Peers, RemoveParticipant(p) PROVE Membership!Leave
    <3>1. /\ p \in participants /\ participants' = participants \ {p}
          /\ emissions' = emissions
      BY <2>5 DEF RemoveParticipant
    <3>2. members' = members \ {Index[p]}
      BY <3>1 DEF NoIndexTwice
    <3> QED
      BY <3>1, <3>2 DEF Membership!Leave
  <2>6. ASSUME NEW r \in Requests, FinishJoin(r)
        PROVE  Membership!Announce \/ UNCHANGED Membership!membershipVars
    <3>1. /\ participants' = participants
          /\ emissions' = IF answer[r] = "accept" /\ AllJoined(participants)
                          THEN emissions + 1 ELSE emissions
      BY <2>6 DEF FinishJoin
    <3> QED
      BY <3>1, <2>1 DEF Membership!Announce
  <2>7. ASSUME participants' = participants, emissions' = emissions
        PROVE  UNCHANGED Membership!membershipVars
    BY <2>7
  <2> QED
    BY <2>3, <2>4, <2>5, <2>6, <2>7
    DEF JoinNext, JoinSession, HandleSessionJoin, Coordinator, GetLock,
        HandleSessionJoinAck, DropSession, CleanupCoordinator, joinVars, hostState
<1> QED
  BY <1>1, <1>2, IndexUnique, OnlyPeers, PTL
  DEF JoinSpec, JoinImplementsMembership, Membership!MembershipSpec

\* While nobody is dropped, a peer that believes it is in the session is a
\* participant: also when requests are repeated, answers are lost or late, and the
\* application adds peers itself.
AcceptedIsParticipant ==
    /\ JoinedIsParticipant
    /\ \A a \in acks : a.accepted => a.request.peer \in participants
    /\ joiner \in [Peers -> {"none", "joining", "joined"}]

THEOREM JoinedIsIn ==
    ASSUME ~Drops
    PROVE  JoinSpec => []JoinedIsParticipant
<1>1. JoinInit => AcceptedIsParticipant
  BY DEF JoinInit, AcceptedIsParticipant, JoinedIsParticipant
<1>2. AcceptedIsParticipant /\ [JoinNext]_joinVars => AcceptedIsParticipant'
  <2> SUFFICES ASSUME AcceptedIsParticipant, [JoinNext]_joinVars
               PROVE  AcceptedIsParticipant'
    OBVIOUS
  <2> USE DEF AcceptedIsParticipant, JoinedIsParticipant
  <2>1. ASSUME NEW p \in Peers, JoinSession(p) PROVE AcceptedIsParticipant'
    BY <2>1 DEF JoinSession, hostState, lockVars
  <2>2. ASSUME NEW p \in Peers, AddParticipant(p) PROVE AcceptedIsParticipant'
    BY <2>2 DEF AddParticipant, peerState
  <2>3. ASSUME NEW r \in asked, HandleSessionJoin(r) PROVE AcceptedIsParticipant'
    BY <2>3 DEF HandleSessionJoin, SendJoinAck, hostState, peerState
  <2>4. ASSUME NEW r \in Requests, CheckAndAdd(r) PROVE AcceptedIsParticipant'
    BY <2>4 DEF CheckAndAdd, SendJoinAck, peerState
  <2>5. ASSUME NEW r \in Requests, GetLock(r) \/ FinishJoin(r)
        PROVE  AcceptedIsParticipant'
    BY <2>5 DEF GetLock, FinishJoin, hostState, peerState
  <2>6. ASSUME NEW a \in acks, HandleSessionJoinAck(a) PROVE AcceptedIsParticipant'
    BY <2>6 DEF HandleSessionJoinAck, hostState
  <2>7. ASSUME UNCHANGED joinVars PROVE AcceptedIsParticipant'
    BY <2>7 DEF joinVars, hostState, peerState
  <2>8. ~DropSession /\ ~CleanupCoordinator /\ \A p \in Peers : ~RemoveParticipant(p)
    BY DEF DropSession, CleanupCoordinator, RemoveParticipant
  <2> QED
    BY <2>1, <2>2, <2>3, <2>4, <2>5, <2>6, <2>7, <2>8 DEF JoinNext, Coordinator
<1>3. AcceptedIsParticipant => JoinedIsParticipant
  BY DEF AcceptedIsParticipant
<1> QED
  BY <1>1, <1>2, <1>3, PTL DEF JoinSpec

\* A step of joining is a step of the lock or leaves it alone.
LEMMA JoinStepsTheLock ==
    ASSUME asked \subseteq Requests, [JoinNext]_joinVars PROVE [LockNext]_lockVars
<1> USE JoinLockAssumption
<1>1. ASSUME NEW r \in Requests, HandleSessionJoin(r) \/ Coordinator(r)
      PROVE  [LockNext]_lockVars
  <2>1. r \in Tasks
    OBVIOUS
  <2>. QED
    BY <1>1, <2>1 DEF HandleSessionJoin, Coordinator, GetLock, CheckAndAdd, FinishJoin, LockNext
<1>2. CASE DropSession \/ CleanupCoordinator
  BY <1>2 DEF DropSession, CleanupCoordinator, LockNext
<1>3. CASE \/ \E p \in Peers : JoinSession(p) \/ AddParticipant(p) \/ RemoveParticipant(p)
           \/ \E a \in acks : HandleSessionJoinAck(a)
           \/ UNCHANGED joinVars
  BY <1>3 DEF JoinSession, AddParticipant, RemoveParticipant, HandleSessionJoinAck, joinVars
<1>. QED
  BY <1>1, <1>2, <1>3 DEF JoinNext

\* A request that has not been made has no handler: the next one is new to the lock.
Untried == \A r \in Requests : r.try > tries[r.peer] => pc[r] = "idle" /\ answer[r] = "none"

JoinIInv == LockInv /\ JoinTypeOK /\ Untried

LEMMA RequestFields ==
    /\ \A r \in Requests : r.peer \in Peers /\ r.try \in 1 .. Tries[r.peer]
    /\ \A p \in Peers, t \in Nat : t \in 1 .. Tries[p] => [peer |-> p, try |-> t] \in Requests
  BY DEF Requests

LEMMA AnswersAreAcks ==
    ASSUME acks \subseteq Acks, NEW r \in Requests, NEW accepted \in BOOLEAN,
           SendJoinAck(r, accepted)
    PROVE  acks' \subseteq Acks
  BY DEF SendJoinAck, Acks

\* An acquire concerns the task that makes it.
LEMMA AcquireTouchesOne ==
    ASSUME pc \in [Tasks -> {"idle", "waiting", "holding", "done"}], NEW r \in Tasks,
           Acquire(r) \/ UNCHANGED lockVars
    PROVE  \A q \in Tasks : q # r => pc'[q] = pc[q]
<1>1. \/ pc' = [pc EXCEPT ![r] = "holding"]
      \/ pc' = [pc EXCEPT ![r] = "waiting"]
      \/ pc' = pc
  BY DEF Acquire, Take, lockVars
<1>. QED
  BY <1>1

LEMMA JoinTypeStep == JoinIInv /\ [JoinNext]_joinVars => JoinIInv'
<1> SUFFICES ASSUME JoinIInv, [JoinNext]_joinVars PROVE JoinIInv'
  OBVIOUS
<1>0. LockInv'
  BY JoinStepsTheLock, LockStep DEF JoinIInv, JoinTypeOK
<1>. USE <1>0, JoinAssumption, JoinLockAssumption, RequestFields
     DEF JoinIInv, JoinTypeOK, Untried, LockInv
<1>1. ASSUME NEW p \in Peers, JoinSession(p) PROVE JoinIInv'
  <2>. DEFINE new == [peer |-> p, try |-> tries[p] + 1]
  <2>1. /\ tries' = [tries EXCEPT ![p] = tries[p] + 1] /\ tries[p] + 1 \in 1 .. Tries[p]
        /\ joiner' \in [Peers -> {"none", "joining", "joined"}]
        /\ asked' \subseteq asked \cup {new}
        /\ UNCHANGED <<lockVars, hostState, acks>>
    BY <1>1 DEF JoinSession
  <2>2. new \in Requests /\ new.try = tries'[new.peer] /\ pc[new] = "idle"
    BY <2>1
  <2>3. \A q \in Peers : tries'[q] \in Nat /\ tries[q] <= tries'[q] /\ tries'[q] <= Tries[q]
    BY <2>1
  <2>. QED
    BY <2>1, <2>2, <2>3 DEF lockVars, hostState
<1>2. ASSUME NEW r \in asked, HandleSessionJoin(r) PROVE JoinIInv'
  <2>1. r \in Requests /\ r.try <= tries[r.peer]
    OBVIOUS
  <2>2. \A q \in Tasks : q # r => pc'[q] = pc[q]
    <3>1. Acquire(r) \/ UNCHANGED lockVars
      BY <1>2 DEF HandleSessionJoin
    <3>2. r \in Tasks /\ pc \in [Tasks -> {"idle", "waiting", "holding", "done"}]
      BY <2>1 DEF LockTypeOK
    <3>. QED
      BY <3>1, <3>2, AcquireTouchesOne
  <2>3. acks' \subseteq Acks
    BY <1>2, <2>1, AnswersAreAcks DEF HandleSessionJoin
  <2>4. asked' = asked \ {r} /\ UNCHANGED <<hostState, peerState>>
    BY <1>2 DEF HandleSessionJoin
  <2>. QED
    BY <2>1, <2>2, <2>3, <2>4 DEF hostState, peerState
<1>3. ASSUME NEW r \in Requests, GetLock(r) \/ FinishJoin(r) PROVE JoinIInv'
  <2>1. pc[r] # "idle" /\ \A q \in Tasks : q # r => pc'[q] = pc[q]
    BY <1>3 DEF GetLock, FinishJoin, WakeUp, Take, Release, LockTypeOK
  <2>2. emissions' \in Nat /\ UNCHANGED <<hosted, participants, answer, peerState, asked, acks>>
    BY <1>3 DEF GetLock, FinishJoin, hostState
  <2>. QED
    BY <2>1, <2>2 DEF peerState
<1>4. ASSUME NEW r \in Requests, CheckAndAdd(r) PROVE JoinIInv'
  <2>1. pc[r] # "idle" /\ acks' \subseteq Acks
    BY <1>4, AnswersAreAcks DEF CheckAndAdd
  <2>2. /\ participants' \subseteq Peers
        /\ answer' \in [Requests -> {"none", "accept", "reject"}]
        /\ \A q \in Requests : q # r => answer'[q] = answer[q]
        /\ UNCHANGED <<lockVars, hosted, emissions, peerState, asked>>
    <3>1. /\ participants' = participants \cup {r.peer} \/ participants' = participants
          /\ \/ answer' = [answer EXCEPT ![r] = "accept"]
             \/ answer' = [answer EXCEPT ![r] = "reject"]
          /\ UNCHANGED <<lockVars, hosted, emissions, peerState, asked>>
      BY <1>4 DEF CheckAndAdd
    <3>2. r.peer \in Peers
      OBVIOUS
    <3>. QED
      BY <3>1, <3>2
  <2>. QED
    BY <2>1, <2>2 DEF lockVars, peerState
<1>5. ASSUME NEW a \in acks, HandleSessionJoinAck(a) PROVE JoinIInv'
  <2>1. a.request.peer \in Peers
    BY DEF Acks
  <2>. QED
    BY <1>5, <2>1 DEF HandleSessionJoinAck, lockVars, hostState
<1>6. ASSUME NEW p \in Peers, AddParticipant(p) \/ RemoveParticipant(p) PROVE JoinIInv'
  BY <1>6 DEF AddParticipant, RemoveParticipant, lockVars, peerState
<1>7. CASE DropSession \/ CleanupCoordinator
  BY <1>7 DEF DropSession, CleanupCoordinator, ForceRelease, lockVars, peerState
<1>8. CASE UNCHANGED joinVars
  BY <1>8 DEF joinVars, lockVars, hostState, peerState
<1>. QED
  BY <1>1, <1>2, <1>3, <1>4, <1>5, <1>6, <1>7, <1>8 DEF JoinNext, Coordinator

LEMMA JoinInvariant == JoinSpec => []JoinIInv
<1>1. JoinInit => JoinIInv
  <2>. SUFFICES ASSUME JoinInit PROVE JoinIInv
    OBVIOUS
  <2>1. LockInv
    BY LockAssumption
    DEF JoinInit, LockInit, LockInv, LockTypeOK, LockedMeansHeld, NoStrandedWaiter
  <2>2. JoinTypeOK /\ Untried
    BY <2>1, JoinAssumption, JoinLockAssumption
    DEF JoinInit, LockInit, LockInv, JoinTypeOK, Untried
  <2>. QED
    BY <2>1, <2>2 DEF JoinIInv
<1>. QED
  BY <1>1, JoinTypeStep, PTL DEF JoinSpec

\* For any peers and numbers of tries, every variable of joining has its type: a request
\* on its way has no handler yet, and nobody asks more often than it may.
THEOREM JoinTypeCorrect == JoinSpec => []JoinTypeOK
<1>1. JoinIInv => JoinTypeOK
  BY DEF JoinIInv
<1>. QED
  BY <1>1, JoinInvariant, PTL

\* The handlers of join requests use the lock as its specification says: each step is one
\* of the lock or leaves it alone, so that what holds of the lock holds of it here.
THEOREM JoinImplementsLock == JoinSpec => LockSpec
<1>1. JoinInit => LockInit
  BY DEF JoinInit
<1>2. JoinIInv /\ [JoinNext]_joinVars => [LockNext]_lockVars
  BY JoinStepsTheLock DEF JoinIInv, JoinTypeOK
<1>. QED
  BY <1>1, <1>2, JoinInvariant, PTL DEF JoinSpec, LockSpec
=============================================================================
