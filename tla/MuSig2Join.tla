----------------------------- MODULE MuSig2Join -----------------------------
(***************************************************************************)
(* Joining a MuSig2 session: joinSession at the joiners, _handleSessionJoin *)
(* at the coordinator under the SessionLock of the session id, and         *)
(* _handleSessionJoinAck at the joiners (src/lib/musig2/coordinator.ts).   *)
(*                                                                         *)
(* The coordinator starts a handler for every request that arrives; the    *)
(* handlers await the lock and their answer, and interleave there.  A peer *)
(* that restarts comes back with another peer id and the same key.  A      *)
(* request carries a key of the signers list (joinSession refuses any      *)
(* other), the coordinator's own included.                                 *)
(*                                                                         *)
(* Requests and answers travel as strings, and the receivers' validation   *)
(* refuses what is not an object: with Parses they are taken for the       *)
(* objects they stand for, as behind a receiver that parses them.          *)
(***************************************************************************)
EXTENDS SessionLock

CONSTANTS
    Peers,       \* peer ids of joiners
    Index,       \* Index[p]: index of the key of p in the signers list
    SignerIndexes, \* the indexes of the signers list
    Own,         \* the coordinator's own
    Tries,       \* bound: Tries[p], the calls of joinSession by peer p
    MaxReady,    \* bound: no addParticipant after so many SESSION_READY events
    Lossy,       \* a send may fail, before or after its delivery
    Drops,       \* the coordinator may remove a participant or the session
    Manual,      \* the peers that the application may call addParticipant with
    Parses       \* the receiver makes an object of a payload that came as a string

ASSUME JoinAssumption ==
    /\ IsFiniteSet(Peers)
    /\ IsFiniteSet(SignerIndexes) /\ Own \in SignerIndexes
    /\ Index \in [Peers -> SignerIndexes]
    /\ Tries \in [Peers -> Nat] /\ MaxReady \in Nat
    /\ Lossy \in BOOLEAN /\ Drops \in BOOLEAN /\ Parses \in BOOLEAN
    /\ Manual \subseteq Peers

Requests == UNION {[peer : {p}, try : 1 .. Tries[p]] : p \in Peers}

\* A task of the SessionLock is the handler of a request.
ASSUME JoinLockAssumption == Requests \subseteq Tasks /\ (Drops => Forced)

VARIABLES
    hosted,        \* the coordinator has the session
    participants,  \* the peers in its participants map
    answer,        \* answer[r]: what the handler of r has decided, if anything
    emissions,     \* how often SESSION_READY was emitted
    tries,         \* calls of joinSession made by each peer
    joiner,        \* what each peer has: no session, one it asked for, one it is in
    asked,         \* requests on their way
    acks           \* answers on their way

hostState == <<hosted, participants, answer, emissions>>
peerState == <<tries, joiner>>
joinVars == <<lockVars, hostState, peerState, asked, acks>>

Acks == [request : Requests, accepted : BOOLEAN]

JoinTypeOK ==
    /\ LockTypeOK
    /\ hosted \in BOOLEAN
    /\ participants \subseteq Peers
    /\ answer \in [Requests -> {"none", "accept", "reject"}]
    /\ emissions \in Nat
    /\ tries \in [Peers -> Nat] /\ \A p \in Peers : tries[p] <= Tries[p]
    /\ joiner \in [Peers -> {"none", "joining", "joined"}]
    /\ asked \subseteq {r \in Requests : r.try <= tries[r.peer] /\ pc[r] = "idle"}
    /\ acks \subseteq Acks

JoinInit ==
    /\ LockInit
    /\ hosted = TRUE
    /\ participants = {}
    /\ answer = [r \in Requests |-> "none"]
    /\ emissions = 0
    /\ tries = [p \in Peers |-> 0]
    /\ joiner = [p \in Peers |-> "none"]
    /\ asked = {}
    /\ acks = {}

-----------------------------------------------------------------------------
(***************************************************************************)
(* The joiners.                                                            *)
(***************************************************************************)
\* joinSession stores the session and sends the request.  A failed send, which
\* may still have delivered it, deletes the session again.
JoinSession(p) ==
    /\ joiner[p] = "none"
    /\ tries[p] < Tries[p]
    /\ tries' = [tries EXCEPT ![p] = @ + 1]
    /\ \/ /\ joiner' = [joiner EXCEPT ![p] = "joining"]
          /\ asked' = asked \cup {[peer |-> p, try |-> tries'[p]]}
       \/ /\ Lossy
          /\ UNCHANGED joiner
          /\ \/ asked' = asked \cup {[peer |-> p, try |-> tries'[p]]}
             \/ UNCHANGED asked
    /\ UNCHANGED <<lockVars, hostState, acks>>

\* _handleSessionJoinAck: an answer is taken for the session the peer has by now,
\* whichever request it was given to.
HandleSessionJoinAck(a) ==
    /\ acks' = acks \ {a}
    /\ \/ /\ Parses
          /\ joiner' = [joiner EXCEPT ![a.request.peer] =
                            IF @ = "none" \/ ~a.accepted THEN "none" ELSE "joined"]
       \/ ~Parses /\ UNCHANGED joiner
    /\ UNCHANGED <<lockVars, hostState, tries, asked>>

-----------------------------------------------------------------------------
(***************************************************************************)
(* The coordinator.                                                        *)
(***************************************************************************)
\* _sendJoinAck: a failure to send is logged, and the handler goes on.
SendJoinAck(r, accepted) ==
    \/ acks' = acks \cup {[request |-> r, accepted |-> accepted]}
    \/ Lossy /\ UNCHANGED acks

\* The validation of the message, and _handleSessionJoin up to the lock: without the
\* session it answers at once.
HandleSessionJoin(r) ==
    /\ asked' = asked \ {r}
    /\ \/ /\ Parses /\ hosted
          /\ Acquire(r)
          /\ UNCHANGED acks
       \/ /\ Parses /\ ~hosted
          /\ SendJoinAck(r, FALSE)
          /\ UNCHANGED lockVars
       \/ ~Parses /\ UNCHANGED <<lockVars, acks>>
    /\ UNCHANGED <<hostState, peerState>>

\* A handler that waited gets the lock, with every other one that waited.
GetLock(r) ==
    /\ WakeUp(r)
    /\ UNCHANGED <<hostState, peerState, asked, acks>>

Taken(i) == \E p \in participants : Index[p] = i

\* Mutant: only the peer id is looked for.
MayJoinById(p) == hosted /\ p \notin participants

MayJoin(p) == hosted /\ p \notin participants /\ ~Taken(Index[p])

\* Mutant: the map is written anew, and what another handler added is lost.
CheckAndAddLosesOthers(r) ==
    /\ pc[r] = "holding"
    /\ answer[r] = "none"
    /\ MayJoin(r.peer)
    /\ participants' = {r.peer}
    /\ answer' = [answer EXCEPT ![r] = "accept"]
    /\ SendJoinAck(r, TRUE)
    /\ UNCHANGED <<lockVars, hosted, emissions, peerState, asked>>

\* The locked operation, up to the await of its answer: check and add are one
\* stretch of code.
CheckAndAdd(r) ==
    /\ pc[r] = "holding"
    /\ answer[r] = "none"
    /\ \/ /\ MayJoin(r.peer)
          /\ participants' = participants \cup {r.peer}
          /\ answer' = [answer EXCEPT ![r] = "accept"]
          /\ SendJoinAck(r, TRUE)
       \/ /\ ~MayJoin(r.peer)
          /\ answer' = [answer EXCEPT ![r] = "reject"]
          /\ SendJoinAck(r, FALSE)
          /\ UNCHANGED participants
    /\ UNCHANGED <<lockVars, hosted, emissions, peerState, asked>>

\* Mutant: counts the coordinator among the participants.
AllJoinedOffByOne(ps) == Cardinality(ps) + 1 = Cardinality(SignerIndexes) - 1

AllJoined(ps) == Cardinality(ps) = Cardinality(SignerIndexes) - 1

\* The answer is sent: SESSION_READY if the map is full by now, and the release.
FinishJoin(r) ==
    /\ answer[r] # "none"
    /\ Release(r)
    /\ emissions' = IF answer[r] = "accept" /\ AllJoined(participants)
                    THEN emissions + 1 ELSE emissions
    /\ UNCHANGED <<hosted, participants, answer, peerState, asked, acks>>

\* addParticipant looks for the peer id only, and takes no lock.
AddParticipant(p) ==
    /\ p \in Manual
    /\ emissions < MaxReady
    /\ hosted
    /\ p \notin participants
    /\ participants' = participants \cup {p}
    /\ emissions' = IF AllJoined(participants') THEN emissions + 1 ELSE emissions
    /\ UNCHANGED <<lockVars, hosted, answer, peerState, asked, acks>>

RemoveParticipant(p) ==
    /\ Drops
    /\ hosted
    /\ p \in participants
    /\ participants' = participants \ {p}
    /\ UNCHANGED <<lockVars, hosted, answer, emissions, peerState, asked, acks>>

\* The session is aborted or expires; its object lives on in the handlers.
DropSession ==
    /\ Drops
    /\ hosted
    /\ hosted' = FALSE
    /\ UNCHANGED <<lockVars, participants, answer, emissions, peerState, asked,
                   acks>>

\* cleanup() clears the sessions and forces the locks open.
CleanupCoordinator ==
    /\ Drops
    /\ hosted' = FALSE
    /\ \/ ForceRelease
       \/ locks = None /\ UNCHANGED lockVars
    /\ UNCHANGED <<participants, answer, emissions, peerState, asked, acks>>

-----------------------------------------------------------------------------
Coordinator(r) == GetLock(r) \/ CheckAndAdd(r) \/ FinishJoin(r)

JoinNext ==
    \/ \E p \in Peers : JoinSession(p) \/ AddParticipant(p) \/ RemoveParticipant(p)
    \/ \E r \in asked : HandleSessionJoin(r)
    \/ \E r \in Requests : Coordinator(r)
    \/ \E a \in acks : HandleSessionJoinAck(a)
    \/ DropSession \/ CleanupCoordinator

JoinSpec == JoinInit /\ [][JoinNext]_joinVars

\* Peers ask until they run out of tries, requests and answers arrive, and the
\* event loop runs the handlers.
JoinFairness ==
    /\ \A p \in Peers : WF_joinVars(JoinSession(p))
    /\ \A r \in Requests :
          /\ WF_joinVars(r \in asked /\ HandleSessionJoin(r))
          /\ WF_joinVars(Coordinator(r))
          /\ WF_joinVars(\E a \in acks : a.request = r /\ HandleSessionJoinAck(a))

FairJoinSpec == JoinSpec /\ JoinFairness

-----------------------------------------------------------------------------
\* No two participants have the same signer index, though the lock may let several
\* handlers in ("Signer index already taken", coordinator.ts): where addParticipant is
\* called only with peers that are alone with their key.
NoIndexTwice ==
    \A p, q \in participants : Index[p] = Index[q] => p = q

\* Whomever the application adds, two participants have the same signer index only when
\* one of them was added by hand: addParticipant looks for the peer id only, while a
\* handler checks and adds in one stretch of code.
SharedOnlyByHand ==
    \A p, q \in participants :
        Index[p] = Index[q] => p = q \/ p \in Manual \/ q \in Manual

\* The signers that the coordinator waits for.
Needed == SignerIndexes \ {Own}

\* "All participants joined" (coordinator.ts, types.ts), with the two exceptions that the
\* code makes: when SESSION_READY is emitted and a signer is missing, then a participant
\* has the coordinator's own key, or two have the same and one of them was added by hand.
\* Handlers that hold the lock at once, requests made again and answers that are lost
\* never make the count come out early.
ReadyIsExplained ==
    [][emissions' # emissions =>
          \/ {Index[p] : p \in participants'} = Needed
          \/ \E p \in participants' : Index[p] = Own
          \/ \E p \in participants' \cap Manual, q \in participants' :
                 p # q /\ Index[p] = Index[q]]_joinVars

\* Joining implements the promise of SessionMembership: a free index for each who enters,
\* and no announcement before all but one have, though the handlers of several requests
\* hold the lock at once and each counts for itself.
Membership == INSTANCE SessionMembership
                  WITH Signers <- SignerIndexes,
                       members <- {Index[p] : p \in participants}, ready <- emissions
JoinImplementsMembership == Membership!MembershipSpec

\* A peer that believes it is in the session is a participant, as long as the
\* coordinator drops nobody.
JoinedIsParticipant ==
    \A p \in Peers : joiner[p] = "joined" => p \in participants

\* When nothing is lost and the receivers parse, every peer gets in once one has asked,
\* and the coordinator learns that the session is ready.
EveryoneJoins ==
    (\E p \in Peers : joiner[p] # "none")
        ~> emissions > 0 /\ \A p \in Peers : joiner[p] = "joined"
=============================================================================
