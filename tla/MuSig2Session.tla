---------------------------- MODULE MuSig2Session ----------------------------
(***************************************************************************)
(* The two signing rounds of one MuSig2 session, run by the                *)
(* MuSig2P2PCoordinator of every signer (src/lib/musig2/coordinator.ts).   *)
(*                                                                         *)
(* Every signer runs a single-threaded event loop.  An async method is     *)
(* split where it awaits its broadcast: the statements before the await    *)
(* are one action, the handling of the sender's own copy of the message    *)
(* (P2PCoordinator.broadcast hands it to the protocol handler before it    *)
(* resolves) is a second one, and the statements after the await are a     *)
(* third.  Handlers, timers and further calls run in between.              *)
(*                                                                         *)
(* A message may arrive late, in any order or never, but at most once      *)
(* (seenMessages, replay protection): net holds the copies on their way.   *)
(*                                                                         *)
(* A signer may make several session objects with the same session id, one *)
(* after the other; gen numbers them.  A continuation keeps a reference to *)
(* the object it started with and finds the maps by the session id.        *)
(*                                                                         *)
(* A signer either creates its session, over the message, and has its      *)
(* application add the others; or it joins an announced one: its session   *)
(* is over the digest that the announcement carries, and it comes to know  *)
(* the coordinator when its request is accepted.  (The lock and the awaits *)
(* of the coordinator's side of a join are in MuSig2Join.)                 *)
(*                                                                         *)
(* Left out, as they decide nothing here: the metrics, lastActivity, the   *)
(* flags of a participant, and usedNonces (a fresh nonce is never in it).  *)
(***************************************************************************)
EXTENDS Integers, FiniteSets

CONSTANTS
    N,             \* number of signers; a signer is its index in the session
    MaxGen,        \* bound: session objects a signer makes for the session id
    Creators,      \* the signers that call createSession, the others join
    Participants,  \* Participants[p]: signers that the application of a creator
                   \* adds by addParticipant once its session is made
    Elected,       \* the index electCoordinator returns
    Backup,        \* Backup[i]: what getBackupCoordinator returns for i
    CountsOwn,     \* the session manager counts a signer's own share when it
                   \* makes it (otherwise when the own broadcast comes back)
    KeepsFirst,    \* the session manager refuses a second share of an index
    Parses,        \* a receiver parses the payload, which is sent as a JSON
                   \* string; the code does not (see HandleMessage)
    WaitsForAll,   \* the application shares nonces once every signer has a
                   \* session and somebody in its participants map
    Faults,        \* the kinds of failure, and of outside events, that may happen
    MaxCalls       \* bound: the API starts no call of a signer that has this
                   \* many unfinished; aborts are never held back

Signers == 0 .. N - 1
NoIndex == -1

FaultKinds == {"send", "invalid", "reject", "abort", "disconnect", "timer",
               "expire", "cleanup", "confirm"}

ASSUME SessionAssumption ==
    /\ N \in Nat \ {0}
    /\ MaxGen \in Nat \ {0}
    /\ Creators \subseteq Signers
    /\ Participants \in [Signers -> SUBSET Signers]
    /\ Elected \in Signers
    /\ Backup \in [Signers -> Signers \cup {NoIndex}]
    /\ CountsOwn \in BOOLEAN
    /\ KeepsFirst \in BOOLEAN
    /\ Parses \in BOOLEAN
    /\ WaitsForAll \in BOOLEAN
    /\ Faults \subseteq FaultKinds
    /\ MaxCalls \in Nat

VARIABLES
    gen,             \* objects made so far; gen[p] is the one in the sessions map
    phase,           \* session.phase, or "absent" when the map has no session
    participants,    \* participants[p]: whom p sends to, the keys of its map
    coordinatorIndex,
    hasNonce,        \* session.myPublicNonce is set
    nonces,          \* nonces[p][q]: object of q whose nonces p holds, 0 if none
    sigs,            \* indexes whose partial signature p holds
    signed,          \* the partial signatures ever created, with their nonces
    sessionTimeout,  \* the timer in the session's slot of sessionTimeouts
    broadcastTimeout,
    calls,           \* async calls that wait for their broadcast
    net              \* messages on their way

roundVars == <<participants, coordinatorIndex, hasNonce, nonces, sigs, signed>>
timerVars == <<sessionTimeout, broadcastTimeout>>
vars == <<gen, phase, roundVars, timerVars, calls, net>>

Phases == {"absent", "INIT", "NONCE_EXCHANGE", "PARTIAL_SIG_EXCHANGE",
           "COMPLETE", "ABORTED"}
Gens == 0 .. MaxGen
Timers == {"none", "nonce", "sig"}
Views == [Signers -> Gens]
Ops == {"join", "nonce", "sig", "complete", "abort", "cleanup"}
Calls == [op : Ops, by : Signers, gen : Gens, stage : {"self", "resume"}]
Messages == [type : {"nonce", "sig", "complete", "abort",
                     "join", "accept", "reject"},
             from : Signers, to : Signers, gen : Gens]

NoNonces == [q \in Signers |-> 0]

HasAllNonces(view) == \A q \in Signers : view[q] # 0
HasAllPartialSignatures(p) == sigs[p] = Signers
IsCoordinator(p) == coordinatorIndex[p] = p

\* What the session of p is over: createSession is given the message, joinSession
\* gives the session manager the announcement's messageHash, sha256 of it.
SessionMessage(p) == IF p \in Creators THEN "message" ELSE "digest"

Init ==
    /\ gen = [p \in Signers |-> 0]
    /\ phase = [p \in Signers |-> "absent"]
    /\ participants = [p \in Signers |-> {}]
    /\ coordinatorIndex = [p \in Signers |-> NoIndex]
    /\ hasNonce = [p \in Signers |-> FALSE]
    /\ nonces = [p \in Signers |-> NoNonces]
    /\ sigs = [p \in Signers |-> {}]
    /\ signed = {}
    /\ sessionTimeout = [p \in Signers |-> "none"]
    /\ broadcastTimeout = [p \in Signers |-> FALSE]
    /\ calls = {}
    /\ net = {}

Call(p, op, stage) == [op |-> op, by |-> p, gen |-> gen[p], stage |-> stage]
Busy(p) == Cardinality({c \in calls : c.by = p}) >= MaxCalls
Returns(c) == calls' = calls \ {c}

ClearSessionTimeout(p) == sessionTimeout' = [sessionTimeout EXCEPT ![p] = "none"]
ClearBroadcastTimeout(p) ==
    broadcastTimeout' = [broadcastTimeout EXCEPT ![p] = FALSE]
SetPhase(p, ph) == phase' = [phase EXCEPT ![p] = ph]

SendAll(p, type) ==
    net' = net \cup {[type |-> type, from |-> p, to |-> q, gen |-> gen[p]] :
                         q \in participants[p]}

\* The promise of a broadcast is pending once its messages are on their way;
\* it rejects before anything is sent when the node is stopped.
Broadcast(p, op) ==
    \/ /\ SendAll(p, op)
       /\ calls' = calls \cup {Call(p, op, "self")}
    \/ /\ "send" \in Faults
       /\ UNCHANGED <<calls, net>>

-----------------------------------------------------------------------------
(***************************************************************************)
(* Making a session: createSession and joinSession both start from a fresh *)
(* object under the session id, and only if the map has none.              *)
(***************************************************************************)
NewSession(p, index, others) ==
    /\ phase[p] = "absent"
    /\ gen[p] < MaxGen
    /\ gen' = [gen EXCEPT ![p] = @ + 1]
    /\ SetPhase(p, "INIT")
    /\ participants' = [participants EXCEPT ![p] = others]
    /\ coordinatorIndex' = [coordinatorIndex EXCEPT ![p] = index]
    /\ hasNonce' = [hasNonce EXCEPT ![p] = FALSE]
    /\ nonces' = [nonces EXCEPT ![p] = NoNonces]
    /\ sigs' = [sigs EXCEPT ![p] = {}]
    /\ UNCHANGED <<signed, timerVars>>

\* The participants map starts empty; the application adds whom it adds next.
CreateSession(p) ==
    /\ p \in Creators
    /\ NewSession(p, Elected, Participants[p])
    /\ UNCHANGED <<calls, net>>

\* The request goes to the peer that announced the session; gen tells requests
\* of one signer apart and is read by nobody.
JoinSession(p) ==
    /\ p \notin Creators
    /\ ~Busy(p)
    /\ NewSession(p, NoIndex, {})
    /\ calls' = calls \cup {[op |-> "join", by |-> p, gen |-> gen'[p],
                             stage |-> "resume"]}
    /\ \E q \in Creators :
           net' = net \cup {[type |-> "join", from |-> p, to |-> q, gen |-> gen'[p]]}

\* sendTo resolves, or it throws and the catch block deletes the session id.
JoinSessionResume(c) ==
    /\ c.op = "join"
    /\ Returns(c)
    /\ \/ UNCHANGED phase
       \/ "send" \in Faults /\ SetPhase(c.by, "absent")
    /\ UNCHANGED <<gen, roundVars, timerVars, net>>

-----------------------------------------------------------------------------
(***************************************************************************)
(* The handlers, as the change they make to the maps of signer p.          *)
(***************************************************************************)
\* The session manager refuses a share (an index it has, an invalid share):
\* it throws, and the handler reports SESSION_ERROR and changes nothing.
Refuses(known) == (known /\ KeepsFirst) \/ "invalid" \in Faults

\* A share of a signer whose session is over something else may be found invalid.
RefusesSig(p, q) ==
    Refuses(q \in sigs[p]) \/ SessionMessage(p) # SessionMessage(q)

HandleNonceShare(p, q, g) ==
    \/ /\ phase[p] = "absent" \/ Refuses(nonces[p][q] # 0)
       /\ UNCHANGED <<phase, nonces, sessionTimeout>>
    \/ /\ phase[p] # "absent"
       /\ ~(KeepsFirst /\ nonces[p][q] # 0)
       /\ nonces' = [nonces EXCEPT ![p][q] = g]
       /\ \/ /\ HasAllNonces(nonces'[p])
             /\ SetPhase(p, "PARTIAL_SIG_EXCHANGE")
             /\ ClearSessionTimeout(p)
          \/ /\ ~HasAllNonces(nonces'[p])
             /\ UNCHANGED <<phase, sessionTimeout>>

\* Mutant: the signer's own signature is not waited for.
HandlePartialSigShareEarly(p, q) ==
    \/ /\ phase[p] = "absent" \/ RefusesSig(p, q)
       /\ UNCHANGED <<phase, sigs, timerVars>>
    \/ /\ phase[p] # "absent"
       /\ sigs' = [sigs EXCEPT ![p] = @ \cup {q}]
       /\ Signers \ {p} \subseteq sigs'[p]
       /\ SetPhase(p, "COMPLETE")
       /\ UNCHANGED timerVars

HandlePartialSigShare(p, q) ==
    \/ /\ phase[p] = "absent" \/ RefusesSig(p, q)
       /\ UNCHANGED <<phase, sigs, timerVars>>
    \/ /\ phase[p] # "absent"
       /\ ~(KeepsFirst /\ q \in sigs[p])
       /\ sigs' = [sigs EXCEPT ![p] = @ \cup {q}]
       /\ \/ /\ sigs'[p] = Signers
             /\ SetPhase(p, "COMPLETE")
             /\ ClearSessionTimeout(p)
             /\ broadcastTimeout' =
                    [broadcastTimeout EXCEPT ![p] = @ \/ IsCoordinator(p)]
          \/ /\ sigs'[p] # Signers
             /\ UNCHANGED <<phase, timerVars>>

HandleSessionComplete(p) ==
    phase' = [phase EXCEPT ![p] = IF @ = "absent" THEN @ ELSE "COMPLETE"]

\* Mutant: the object is marked and kept.
HandleSessionAbortKeeps(p) ==
    phase' = [phase EXCEPT ![p] = IF @ = "absent" THEN @ ELSE "ABORTED"]

\* Marks the object aborted and deletes it; the timers stay as they are.
HandleSessionAbort(p) == SetPhase(p, "absent")

\* _handleSessionJoinAck: an acceptance makes its sender a participant, if there
\* is a session; a rejection removes the session, whatever its phase.
HandleJoinAcceptance(p, q) ==
    participants' = IF phase[p] = "absent" THEN participants
                    ELSE [participants EXCEPT ![p] = @ \cup {q}]

HandleJoinRejection(p) == SetPhase(p, "absent")

Handle(p, type, q, g) ==
    \/ /\ type = "nonce"
       /\ HandleNonceShare(p, q, g)
       /\ UNCHANGED <<participants, sigs, broadcastTimeout>>
    \/ /\ type = "sig"
       /\ HandlePartialSigShare(p, q)
       /\ UNCHANGED <<participants, nonces>>
    \/ /\ type = "complete"
       /\ HandleSessionComplete(p)
       /\ UNCHANGED <<participants, nonces, sigs, timerVars>>
    \/ /\ type = "abort"
       /\ HandleSessionAbort(p)
       /\ UNCHANGED <<participants, nonces, sigs, timerVars>>
    \/ /\ type = "accept"
       /\ HandleJoinAcceptance(p, q)
       /\ UNCHANGED <<phase, nonces, sigs, timerVars>>
    \/ /\ type = "reject"
       /\ HandleJoinRejection(p)
       /\ UNCHANGED <<participants, nonces, sigs, timerVars>>

\* handleMessage: a payload that is still the JSON string is not an object, and
\* the message is dropped; so is, then, the sender's own copy.
HandleMessage(p, type, q, g) ==
    /\ \/ Parses /\ Handle(p, type, q, g)
       \/ ~Parses /\ UNCHANGED <<phase, participants, nonces, sigs, timerVars>>
    /\ UNCHANGED <<gen, coordinatorIndex, hasNonce, signed>>

Receive(m) ==
    /\ m.type # "join"
    /\ net' = net \ {m}
    /\ HandleMessage(m.to, m.type, m.from, m.gen)
    /\ UNCHANGED calls

\* A request is accepted from a peer that is not in the map of a session that is
\* there, unless it is refused for another reason (its signer's index is taken
\* by a peer id the signer had before); it is refused from every other peer.
Answer(m, answers) ==
    net' = (net \ {m}) \cup {[type |-> answer, from |-> m.to, to |-> m.from,
                              gen |-> m.gen] : answer \in answers}

HandleSessionJoin(m) ==
    \/ /\ phase[m.to] # "absent"
       /\ m.from \notin participants[m.to]
       /\ participants' = [participants EXCEPT ![m.to] = @ \cup {m.from}]
       /\ Answer(m, {"accept"})
    \/ /\ \/ phase[m.to] = "absent" \/ m.from \in participants[m.to]
          \/ "reject" \in Faults
       /\ Answer(m, {"reject"})
       /\ UNCHANGED participants

ReceiveJoin(m) ==
    /\ m.type = "join"
    /\ \/ Parses /\ HandleSessionJoin(m)
       \/ ~Parses /\ Answer(m, {}) /\ UNCHANGED participants
    /\ UNCHANGED <<gen, phase, coordinatorIndex, hasNonce, nonces, sigs, signed,
                   timerVars, calls>>

\* P2PCoordinator.broadcast gives the sender its own message last.
SelfDeliver(c) ==
    /\ c.stage = "self"
    /\ calls' = (calls \ {c}) \cup {[c EXCEPT !.stage = "resume"]}
    /\ HandleMessage(c.by, c.op, c.by, c.gen)
    /\ UNCHANGED net

-----------------------------------------------------------------------------
(***************************************************************************)
(* The API calls that run the rounds.                                      *)
(***************************************************************************)
ShareNonces(p) ==
    /\ phase[p] = "INIT"
    /\ ~hasNonce[p]
    /\ ~Busy(p)
    /\ WaitsForAll => \A q \in Signers : gen[q] > 0 /\ participants[q] # {}
    /\ hasNonce' = [hasNonce EXCEPT ![p] = TRUE]
    /\ nonces' = IF CountsOwn THEN [nonces EXCEPT ![p][p] = gen[p]] ELSE nonces
    /\ Broadcast(p, "nonce")
    /\ UNCHANGED <<gen, phase, participants, coordinatorIndex, sigs, signed, timerVars>>

\* Mutant: the phase moves on whatever it is by now.
ShareNoncesResumeUnchecked(c) ==
    /\ c.op = "nonce" /\ c.stage = "resume"
    /\ Returns(c)
    /\ sessionTimeout' = [sessionTimeout EXCEPT ![c.by] = "nonce"]
    /\ \/ c.gen = gen[c.by] /\ SetPhase(c.by, "NONCE_EXCHANGE")
       \/ c.gen # gen[c.by] /\ UNCHANGED phase
    /\ UNCHANGED <<gen, roundVars, broadcastTimeout, net>>

\* The phase is set on the object the call started with, the timer by its id.
ShareNoncesResume(c) ==
    /\ c.op = "nonce" /\ c.stage = "resume"
    /\ Returns(c)
    /\ sessionTimeout' = [sessionTimeout EXCEPT ![c.by] = "nonce"]
    /\ \/ /\ c.gen = gen[c.by] /\ phase[c.by] = "INIT"
          /\ SetPhase(c.by, "NONCE_EXCHANGE")
       \/ /\ ~(c.gen = gen[c.by] /\ phase[c.by] = "INIT")
          /\ UNCHANGED phase
    /\ UNCHANGED <<gen, roundVars, broadcastTimeout, net>>

\* Mutant: the phase is not checked.
SharePartialSignatureAnyPhase(p) ==
    /\ phase[p] # "absent"
    /\ hasNonce[p]
    /\ ~Busy(p)
    /\ signed' = signed \cup {[by |-> p, gen |-> gen[p], view |-> nonces[p]]}
    /\ sigs' = IF CountsOwn THEN [sigs EXCEPT ![p] = @ \cup {p}] ELSE sigs
    /\ Broadcast(p, "sig")
    /\ UNCHANGED <<gen, phase, participants, coordinatorIndex, hasNonce, nonces,
                   timerVars>>

\* createPartialSignature needs the secret nonce that generateNonces left.
SharePartialSignature(p) ==
    /\ phase[p] = "PARTIAL_SIG_EXCHANGE"
    /\ hasNonce[p]
    /\ ~Busy(p)
    /\ signed' = signed \cup {[by |-> p, gen |-> gen[p], view |-> nonces[p]]}
    /\ sigs' = IF CountsOwn THEN [sigs EXCEPT ![p] = @ \cup {p}] ELSE sigs
    /\ Broadcast(p, "sig")
    /\ UNCHANGED <<gen, phase, participants, coordinatorIndex, hasNonce, nonces,
                   timerVars>>

SharePartialSignatureResume(c) ==
    /\ c.op = "sig" /\ c.stage = "resume"
    /\ Returns(c)
    /\ sessionTimeout' = [sessionTimeout EXCEPT ![c.by] = "sig"]
    /\ UNCHANGED <<gen, phase, roundVars, broadcastTimeout, net>>

\* The broadcast error is caught, so the call goes on in either case.
FinalizeSession(p) ==
    /\ phase[p] # "absent"
    /\ HasAllPartialSignatures(p)
    /\ ~Busy(p)
    /\ ClearSessionTimeout(p)
    /\ ClearBroadcastTimeout(p)
    /\ \/ /\ SendAll(p, "complete")
          /\ calls' = calls \cup {Call(p, "complete", "self")}
       \/ /\ "send" \in Faults
          /\ UNCHANGED net
          /\ calls' = calls \cup {Call(p, "complete", "resume")}
    /\ UNCHANGED <<gen, phase, roundVars>>

FinalizeSessionResume(c) ==
    /\ c.op = "complete" /\ c.stage = "resume"
    /\ Returns(c)
    /\ UNCHANGED <<gen, phase, roundVars, timerVars, net>>

-----------------------------------------------------------------------------
(***************************************************************************)
(* Aborts: by the application, by a timer, by a lost participant.          *)
(***************************************************************************)
Abort(p) ==
    /\ phase[p] # "absent"
    /\ SetPhase(p, "ABORTED")
    /\ ClearSessionTimeout(p)
    /\ Broadcast(p, "abort")
    /\ UNCHANGED <<gen, roundVars, broadcastTimeout>>

AbortSession(p) == "abort" \in Faults /\ Abort(p)

\* Deletes whatever session is under the id by now.
AbortSessionResume(c) ==
    /\ c.op = "abort" /\ c.stage = "resume"
    /\ Returns(c)
    /\ SetPhase(c.by, "absent")
    /\ UNCHANGED <<gen, roundVars, timerVars, net>>

PeerDisconnected(p) ==
    /\ "disconnect" \in Faults
    /\ participants[p] # {}
    /\ phase[p] \in {"NONCE_EXCHANGE", "PARTIAL_SIG_EXCHANGE"}
    /\ Abort(p)

\* The phase in which the callback of each timer aborts the session.
ExpiresIn(timer) == IF timer = "nonce" THEN "INIT" ELSE "PARTIAL_SIG_EXCHANGE"

SessionTimeoutFires(p) ==
    /\ "timer" \in Faults
    /\ sessionTimeout[p] # "none"
    /\ \/ /\ phase[p] = ExpiresIn(sessionTimeout[p])
          /\ Abort(p)
       \/ /\ phase[p] # ExpiresIn(sessionTimeout[p])
          /\ ClearSessionTimeout(p)
          /\ UNCHANGED <<gen, phase, roundVars, broadcastTimeout, calls, net>>

\* _handleBroadcastTimeout: index 0 is falsy, and counts as no election data.
CanFailOver(p) ==
    /\ phase[p] # "absent"
    /\ coordinatorIndex[p] \notin {NoIndex, 0}
    /\ Backup[coordinatorIndex[p]] # NoIndex

\* Mutant: the next index, with no regard to who may take over.
BroadcastTimeoutNext(p) ==
    /\ broadcastTimeout[p]
    /\ coordinatorIndex' = [coordinatorIndex EXCEPT ![p] = @ + 1]
    /\ UNCHANGED <<gen, phase, participants, hasNonce, nonces, sigs, signed, timerVars,
                   calls, net>>

BroadcastTimeoutFires(p) ==
    /\ "timer" \in Faults
    /\ broadcastTimeout[p]
    /\ \/ /\ CanFailOver(p)
          /\ coordinatorIndex' =
                 [coordinatorIndex EXCEPT ![p] = Backup[coordinatorIndex[p]]]
          /\ UNCHANGED broadcastTimeout
       \/ /\ ~CanFailOver(p)
          /\ ClearBroadcastTimeout(p)
          /\ UNCHANGED coordinatorIndex
    /\ UNCHANGED <<gen, phase, participants, hasNonce, nonces, sigs, signed, sessionTimeout,
                   calls, net>>

\* The application has seen the broadcast.
NotifyBroadcastComplete(p) ==
    /\ "confirm" \in Faults
    /\ broadcastTimeout[p]
    /\ ClearBroadcastTimeout(p)
    /\ UNCHANGED <<gen, phase, roundVars, sessionTimeout, calls, net>>

\* _cleanupExpiredSessions drops a session that was idle for ten minutes.
CleanupExpiredSession(p) ==
    /\ "expire" \in Faults
    /\ phase[p] # "absent"
    /\ SetPhase(p, "absent")
    /\ ClearSessionTimeout(p)
    /\ UNCHANGED <<gen, roundVars, broadcastTimeout, calls, net>>

\* cleanup() stops the timers, then awaits the unsubscription, then clears.
Cleanup(p) ==
    /\ "cleanup" \in Faults
    /\ ~Busy(p)
    /\ calls' = calls \cup {Call(p, "cleanup", "resume")}
    /\ ClearSessionTimeout(p)
    /\ ClearBroadcastTimeout(p)
    /\ UNCHANGED <<gen, phase, roundVars, net>>

CleanupResume(c) ==
    /\ c.op = "cleanup"
    /\ Returns(c)
    /\ SetPhase(c.by, "absent")
    /\ UNCHANGED <<gen, roundVars, timerVars, net>>

-----------------------------------------------------------------------------
Api(p) ==
    \/ CreateSession(p) \/ JoinSession(p)
    \/ ShareNonces(p) \/ SharePartialSignature(p) \/ FinalizeSession(p)
    \/ AbortSession(p) \/ NotifyBroadcastComplete(p) \/ Cleanup(p)

Environment(p) ==
    \/ PeerDisconnected(p)
    \/ SessionTimeoutFires(p) \/ BroadcastTimeoutFires(p)
    \/ CleanupExpiredSession(p)

Continue(c) ==
    \/ SelfDeliver(c)
    \/ JoinSessionResume(c)
    \/ ShareNoncesResume(c) \/ SharePartialSignatureResume(c)
    \/ FinalizeSessionResume(c)
    \/ AbortSessionResume(c) \/ CleanupResume(c)

Next ==
    \/ \E p \in Signers : Api(p) \/ Environment(p)
    \/ \E c \in calls : Continue(c)
    \/ \E m \in net : Receive(m) \/ ReceiveJoin(m)

Spec == Init /\ [][Next]_vars

(***************************************************************************)
(* Fairness: a pending await is resolved (SelfDeliver and the resumptions  *)
(* are queued by the event loop), a sent message is delivered (libp2p      *)
(* streams are reliable while both peers run), an armed timer expires, and *)
(* the application goes through the rounds as the events tell it to.  No   *)
(* fairness is asked of aborts, of disconnections or of finalizeSession.   *)
(***************************************************************************)
FairCalls ==
    \A p \in Signers, op \in Ops :
        WF_vars(\E c \in calls : c.by = p /\ c.op = op /\ Continue(c))
FairNet ==
    \A m \in {n \in Messages : n.gen # 0 /\ n.to # n.from} :
        WF_vars(m \in net /\ (Receive(m) \/ ReceiveJoin(m)))
FairTimers ==
    \A p \in Signers :
        WF_vars(SessionTimeoutFires(p)) /\ WF_vars(BroadcastTimeoutFires(p))
FairApp ==
    \A p \in Signers :
        /\ WF_vars(CreateSession(p) \/ JoinSession(p))
        /\ WF_vars(ShareNonces(p))
        /\ WF_vars(SharePartialSignature(p) /\ sigs[p] # Signers)

FairSpec == Spec /\ FairCalls /\ FairNet /\ FairApp
TimedSpec == Spec /\ FairCalls /\ FairNet /\ FairTimers

-----------------------------------------------------------------------------
(***************************************************************************)
(* Properties.                                                             *)
(***************************************************************************)
\* Every variable has its type: the maps of session-scoped data, the timers,
\* the unfinished calls and the messages of the coordinator.
TypeOK ==
    /\ gen \in [Signers -> Gens]
    /\ phase \in [Signers -> Phases]
    /\ participants \in [Signers -> SUBSET Signers]
    /\ coordinatorIndex \in [Signers -> Signers \cup {NoIndex}]
    /\ hasNonce \in [Signers -> BOOLEAN]
    /\ nonces \in [Signers -> Views]
    /\ sigs \in [Signers -> SUBSET Signers]
    /\ signed \subseteq [by : Signers, gen : Gens, view : Views]
    /\ sessionTimeout \in [Signers -> Timers]
    /\ broadcastTimeout \in [Signers -> BOOLEAN]
    /\ calls \subseteq Calls
    /\ net \subseteq Messages

\* A secret nonce signs at most one view of the public nonces: two partial
\* signatures of one session object are over the same view, and the view is
\* complete.  Signing two views with one nonce would reveal the private key
\* ("Reuse Prevention", musig2/README.md).
NonceSignsOneView ==
    /\ \A s \in signed : HasAllNonces(s.view)
    /\ \A s, t \in signed : s.by = t.by /\ s.gen = t.gen => s.view = t.view

\* No session is COMPLETE, and no failover clock runs, before every signer has
\* made a partial signature: neither early shares, a SESSION_COMPLETE message
\* nor the signer's own copies may get a session there sooner.
CompleteImpliesAllSigned ==
    \A p \in Signers :
        phase[p] = "COMPLETE" \/ broadcastTimeout[p] =>
            \A q \in Signers : \E s \in signed : s.by = q

\* The rounds implement the promise of SigningRound, also when sessions are made anew under
\* their id while messages and calls of the old objects are about: with one object a signer
\* signs one view, of nonces of objects that were made, and nobody takes the session for
\* finished, or waits for its broadcast, before each signer has signed.
Round == INSTANCE SigningRound
         WITH Numbers <- Gens, objects <- gen, signatures <- signed,
              finished <- {p \in Signers : phase[p] = "COMPLETE" \/ broadcastTimeout[p]}
ImplementsRound == Round!SigningSpec

\* A COMPLETE session is only ever aborted or removed: no late nonce share and
\* no continuation of shareNonces moves it back into a round.
CompleteIsFinal ==
    [][\A p \in Signers :
          phase[p] = "COMPLETE" => phase'[p] \in {"COMPLETE", "ABORTED", "absent"}]_vars

\* An ABORTED session is only ever removed: the life cycle of musig2/HOWTO.md
\* has no arrow out of ABORTED, and handlers may not revive the session while
\* abortSession awaits its broadcast.
AbortedIsFinal ==
    [][\A p \in Signers :
          phase[p] = "ABORTED" => phase'[p] \in {"ABORTED", "absent"}]_vars

\* An abort removes the session here, and at every participant that its
\* message is on its way to, whatever calls of theirs are unfinished.
AbortRemoves ==
    \A p \in Signers :
        /\ phase[p] = "ABORTED" ~> phase[p] = "absent"
        /\ (\E m \in net : m.type = "abort" /\ m.to = p) ~> phase[p] = "absent"

\* If no session is aborted, removed or cleaned up, and the applications go
\* through the rounds, every signer's session becomes COMPLETE and stays so:
\* what createSession, shareNonces and sharePartialSignature are for, for
\* signers that each create the session over the message (see OneMessage).
EverySignerCompletes ==
    [](/\ \A p \in Signers : gen[p] = MaxGen => phase[p] \notin {"ABORTED", "absent"}
       /\ \A c \in calls : c.op # "cleanup")
    => \A p \in Signers : <>[](phase[p] = "COMPLETE")

\* The partial signatures of a session are over one message, or they do not add
\* up to a signature: the announcement names what joiners sign ("Message hash
\* being signed", types.ts), which is to be what its creator signs.
OneMessage ==
    \A s, t \in signed : SessionMessage(s.by) = SessionMessage(t.by)

\* A session that collects nonces and does not get them is given up after
\* nonceTimeout ("Timeout for nonce collection", types.ts).
NonceCollectionEnds ==
    \A p \in Signers :
        phase[p] = "NONCE_EXCHANGE" ~> phase[p] # "NONCE_EXCHANGE"

\* Whom a signer takes for the coordinator of a complete session comes to take
\* itself for it, a backup that takes over included (HOWTO.md, "Coordinator
\* Failover"), when no broadcast is ever confirmed.
BackupTakesOver ==
    \A p, q \in Signers :
        phase[p] = "COMPLETE" /\ coordinatorIndex[p] = q ~>
            coordinatorIndex[q] = q \/ phase[p] # "COMPLETE"
=============================================================================
