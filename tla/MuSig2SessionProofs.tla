------------------------- MODULE MuSig2SessionProofs -------------------------
(***************************************************************************)
(* Theorems about the signing rounds, for any number of signers, session   *)
(* objects and kinds of failure.                                           *)
(***************************************************************************)
EXTENDS MuSig2Session, TLAPS

-----------------------------------------------------------------------------
(***************************************************************************)
(* Type correctness.                                                       *)
(***************************************************************************)
\* What a handler leaves behind has its type (every on(...) listener of
\* _setupProtocolHandlers).
LEMMA HandleType ==
    ASSUME TypeOK,
           NEW p \in Signers, NEW q \in Signers, NEW g \in Gens, NEW type,
           HandleMessage(p, type, q, g)
    PROVE  /\ phase' \in [Signers -> Phases]
           /\ participants' \in [Signers -> SUBSET Signers]
           /\ nonces' \in [Signers -> Views]
           /\ sigs' \in [Signers -> SUBSET Signers]
           /\ sessionTimeout' \in [Signers -> Timers]
           /\ broadcastTimeout' \in [Signers -> BOOLEAN]
           /\ UNCHANGED <<gen, coordinatorIndex, hasNonce, signed>>
<1> USE DEF TypeOK, Phases, Timers, timerVars
<1>1. CASE /\ Parses /\ HandleNonceShare(p, q, g)
           /\ UNCHANGED <<participants, sigs, broadcastTimeout>>
  <2>1. [nonces EXCEPT ![p][q] = g] \in [Signers -> Views]
    BY DEF Views
  <2>2. nonces' \in [Signers -> Views]
    BY <1>1, <2>1 DEF HandleNonceShare
  <2>3. /\ phase' \in [Signers -> Phases]
        /\ sessionTimeout' \in [Signers -> Timers]
    BY <1>1 DEF HandleNonceShare, SetPhase, ClearSessionTimeout
  <2> QED
    BY <1>1, <2>2, <2>3 DEF HandleMessage
<1>2. CASE Parses /\ HandlePartialSigShare(p, q) /\ UNCHANGED <<participants, nonces>>
  <2>1. sigs' \in [Signers -> SUBSET Signers]
    BY <1>2 DEF HandlePartialSigShare
  <2>2. /\ phase' \in [Signers -> Phases]
        /\ sessionTimeout' \in [Signers -> Timers]
    BY <1>2 DEF HandlePartialSigShare, SetPhase, ClearSessionTimeout
  <2>3. [broadcastTimeout EXCEPT ![p] = @ \/ IsCoordinator(p)] \in [Signers -> BOOLEAN]
    <3>1. (broadcastTimeout[p] \/ IsCoordinator(p)) \in BOOLEAN
      BY Zenon
    <3> QED
      BY <3>1, Zenon
  <2>4. broadcastTimeout' \in [Signers -> BOOLEAN]
    BY <1>2, <2>3 DEF HandlePartialSigShare
  <2> QED
    BY <1>2, <2>1, <2>2, <2>4 DEF HandleMessage
<1>3. CASE Parses /\ HandleSessionComplete(p) /\ UNCHANGED <<participants, nonces, sigs, timerVars>>
  BY <1>3 DEF HandleSessionComplete, HandleMessage
<1>4. CASE Parses /\ SetPhase(p, "absent") /\ UNCHANGED <<participants, nonces, sigs, timerVars>>
  BY <1>4 DEF SetPhase, HandleMessage
<1>5. CASE ~Parses
  BY <1>5 DEF HandleMessage
<1>6. CASE Parses /\ HandleJoinAcceptance(p, q) /\ UNCHANGED <<phase, nonces, sigs, timerVars>>
  BY <1>6 DEF HandleJoinAcceptance, HandleMessage
<1> QED
  BY <1>1, <1>2, <1>3, <1>4, <1>5, <1>6
  DEF HandleMessage, Handle, HandleSessionAbort, HandleJoinRejection

\* Messages and unfinished calls of a broadcast have their types
\* (_broadcastToSessionParticipants).
LEMMA BroadcastType ==
    ASSUME TypeOK, NEW p \in Signers,
           NEW op \in {"nonce", "sig", "complete", "abort"}
    PROVE  /\ \A stage \in {"self", "resume"} : Call(p, op, stage) \in Calls
           /\ SendAll(p, op) => net' \subseteq Messages
           /\ Broadcast(p, op) => calls' \subseteq Calls /\ net' \subseteq Messages
<1>1. gen[p] \in Gens
  BY DEF TypeOK
<1>2. \A stage \in {"self", "resume"} : Call(p, op, stage) \in Calls
  BY <1>1 DEF Call, Calls, Ops
<1>3. SendAll(p, op) => net' \subseteq Messages
  BY <1>1, SessionAssumption DEF SendAll, Messages, TypeOK
<1> QED
  BY <1>2, <1>3 DEF Broadcast, TypeOK

\* Abort, from whichever caller, keeps the types.
LEMMA AbortType ==
    ASSUME TypeOK, NEW p \in Signers, Abort(p)
    PROVE  TypeOK'
<1>1. calls' \subseteq Calls /\ net' \subseteq Messages
  BY BroadcastType DEF Abort
<1> QED
  BY <1>1 DEF TypeOK, Abort, SetPhase, ClearSessionTimeout, roundVars, Phases, Timers

\* NewSession numbers the object within the bound.
LEMMA NewSessionType ==
    ASSUME TypeOK, NEW p \in Signers, NEW index \in Signers \cup {NoIndex},
           NEW others \in SUBSET Signers, NewSession(p, index, others)
    PROVE  /\ gen' \in [Signers -> Gens]
           /\ phase' \in [Signers -> Phases]
           /\ participants' \in [Signers -> SUBSET Signers]
           /\ coordinatorIndex' \in [Signers -> Signers \cup {NoIndex}]
           /\ hasNonce' \in [Signers -> BOOLEAN]
           /\ nonces' \in [Signers -> Views]
           /\ sigs' \in [Signers -> SUBSET Signers]
           /\ UNCHANGED <<signed, sessionTimeout, broadcastTimeout>>
<1>1. gen[p] + 1 \in Gens
  BY SessionAssumption DEF TypeOK, Gens, NewSession
<1>2. NoNonces \in Views
  BY SessionAssumption DEF NoNonces, Views, Gens
<1> QED
  BY <1>1, <1>2 DEF NewSession, TypeOK, SetPhase, Phases, timerVars

\* The answer to a request to join is one more message, to its sender
\* (_sendJoinAck).
LEMMA JoinAnswered ==
    ASSUME NEW m, ReceiveJoin(m)
    PROVE  \A n \in net' :
               \/ n \in net
               \/ \E answer \in {"accept", "reject"} :
                      n = [type |-> answer, from |-> m.to, to |-> m.from, gen |-> m.gen]
BY DEF ReceiveJoin, HandleSessionJoin, Answer

\* Every variable keeps its type in every step of the coordinators.
LEMMA TypeStep == TypeOK /\ [Next]_vars => TypeOK'
<1> SUFFICES ASSUME TypeOK, [Next]_vars PROVE TypeOK'
  OBVIOUS
<1>1. ASSUME NEW p \in Signers, CreateSession(p) PROVE TypeOK'
  <2>1. NewSession(p, Elected, Participants[p]) /\ UNCHANGED <<calls, net>>
    BY <1>1 DEF CreateSession
  <2> QED
    BY <2>1, NewSessionType, SessionAssumption DEF TypeOK
<1>2. ASSUME NEW p \in Signers, JoinSession(p) PROVE TypeOK'
  <2>1. NewSession(p, NoIndex, {})
    BY <1>2 DEF JoinSession
  <2>2. gen'[p] \in Gens
    BY <2>1, NewSessionType DEF TypeOK
  <2>3. calls' \subseteq Calls
    BY <1>2, <2>2 DEF JoinSession, Calls, Ops, TypeOK
  <2>4. net' \subseteq Messages
    BY <1>2, <2>2, SessionAssumption DEF JoinSession, Messages, TypeOK
  <2> QED
    BY <2>1, <2>3, <2>4, NewSessionType DEF TypeOK
<1>3. ASSUME NEW p \in Signers, ShareNonces(p) PROVE TypeOK'
  <2>1. calls' \subseteq Calls /\ net' \subseteq Messages
    BY <1>3, BroadcastType DEF ShareNonces
  <2>2. [nonces EXCEPT ![p][p] = gen[p]] \in [Signers -> Views]
    BY DEF TypeOK, Views
  <2>3. nonces' \in [Signers -> Views]
    BY <1>3, <2>2 DEF ShareNonces, TypeOK
  <2>4. hasNonce' \in [Signers -> BOOLEAN]
    BY <1>3 DEF ShareNonces, TypeOK
  <2> QED
    BY <1>3, <2>1, <2>3, <2>4 DEF ShareNonces, TypeOK, timerVars
<1>4. ASSUME NEW p \in Signers, SharePartialSignature(p) PROVE TypeOK'
  <2>1. calls' \subseteq Calls /\ net' \subseteq Messages
    BY <1>4, BroadcastType DEF SharePartialSignature
  <2>2. sigs' \in [Signers -> SUBSET Signers]
    BY <1>4 DEF SharePartialSignature, TypeOK
  <2>3. signed' \subseteq [by : Signers, gen : Gens, view : Views]
    BY <1>4 DEF SharePartialSignature, TypeOK
  <2> QED
    BY <1>4, <2>1, <2>2, <2>3 DEF SharePartialSignature, TypeOK, timerVars
<1>5. ASSUME NEW p \in Signers, FinalizeSession(p) PROVE TypeOK'
  <2>1. calls' \subseteq Calls /\ net' \subseteq Messages
    BY <1>5, BroadcastType DEF FinalizeSession, TypeOK
  <2> QED
    BY <1>5, <2>1
    DEF FinalizeSession, ClearSessionTimeout, ClearBroadcastTimeout, TypeOK,
        roundVars, Timers
<1>6. ASSUME NEW p \in Signers, Cleanup(p) PROVE TypeOK'
  <2>1. calls' \subseteq Calls
    BY <1>6 DEF Cleanup, Call, Calls, Ops, TypeOK
  <2> QED
    BY <1>6, <2>1
    DEF Cleanup, ClearSessionTimeout, ClearBroadcastTimeout, TypeOK, roundVars,
        Timers
<1>7. ASSUME NEW p \in Signers, SessionTimeoutFires(p) PROVE TypeOK'
  <2>1. CASE Abort(p)
    BY <2>1, AbortType
  <2>2. CASE ClearSessionTimeout(p) /\ UNCHANGED <<gen, phase, roundVars,
                                        broadcastTimeout, calls, net>>
    BY <2>2 DEF ClearSessionTimeout, TypeOK, roundVars, Timers
  <2> QED
    BY <1>7, <2>1, <2>2 DEF SessionTimeoutFires
<1>8. ASSUME NEW p \in Signers, BroadcastTimeoutFires(p) PROVE TypeOK'
  <2>1. coordinatorIndex' \in [Signers -> Signers \cup {NoIndex}]
    BY <1>8, SessionAssumption DEF BroadcastTimeoutFires, CanFailOver, TypeOK
  <2>2. broadcastTimeout' \in [Signers -> BOOLEAN]
    BY <1>8 DEF BroadcastTimeoutFires, ClearBroadcastTimeout, TypeOK
  <2> QED
    BY <1>8, <2>1, <2>2 DEF BroadcastTimeoutFires, TypeOK
<1>9. ASSUME NEW p \in Signers, NotifyBroadcastComplete(p) PROVE TypeOK'
  BY <1>9 DEF NotifyBroadcastComplete, ClearBroadcastTimeout, TypeOK, roundVars
<1>10. ASSUME NEW p \in Signers, CleanupExpiredSession(p) PROVE TypeOK'
  BY <1>10
  DEF CleanupExpiredSession, SetPhase, ClearSessionTimeout, TypeOK, roundVars,
      Phases, Timers
<1>11. ASSUME NEW c \in calls, SelfDeliver(c) PROVE TypeOK'
  <2>1. c \in Calls
    BY DEF TypeOK
  <2>2. c.by \in Signers /\ c.gen \in Gens
    BY <2>1 DEF Calls
  <2>3. [c EXCEPT !.stage = "resume"] \in Calls
    BY <2>1 DEF Calls
  <2>4. calls' \subseteq Calls /\ UNCHANGED net /\ HandleMessage(c.by, c.op, c.by, c.gen)
    BY <1>11, <2>3 DEF SelfDeliver, TypeOK
  <2> QED
    BY <2>2, <2>4, HandleType DEF TypeOK
<1>12. ASSUME NEW m \in net, Receive(m) PROVE TypeOK'
  <2>1. m.to \in Signers /\ m.from \in Signers /\ m.gen \in Gens
    BY DEF TypeOK, Messages
  <2> QED
    BY <1>12, <2>1, HandleType DEF Receive, TypeOK
<1>16. ASSUME NEW m \in net, ReceiveJoin(m) PROVE TypeOK'
  <2>1. m.to \in Signers /\ m.from \in Signers /\ m.gen \in Gens
    BY DEF TypeOK, Messages
  <2>2. participants' \in [Signers -> SUBSET Signers]
    BY <1>16, <2>1 DEF ReceiveJoin, HandleSessionJoin, TypeOK
  <2>3. net' \subseteq Messages
    BY <1>16, <2>1, JoinAnswered DEF TypeOK, Messages
  <2> QED
    BY <1>16, <2>2, <2>3 DEF ReceiveJoin, TypeOK, timerVars
<1>13. ASSUME NEW c \in calls, c.by \in Signers,
              \/ JoinSessionResume(c) \/ ShareNoncesResume(c)
              \/ SharePartialSignatureResume(c) \/ FinalizeSessionResume(c)
              \/ AbortSessionResume(c) \/ CleanupResume(c)
       PROVE  TypeOK'
  BY <1>13
  DEF JoinSessionResume, ShareNoncesResume, SharePartialSignatureResume,
      FinalizeSessionResume, AbortSessionResume, CleanupResume, Returns,
      SetPhase, TypeOK, roundVars, timerVars, Phases, Timers
<1>14. ASSUME UNCHANGED vars PROVE TypeOK'
  BY <1>14 DEF vars, roundVars, timerVars, TypeOK
<1>15. \A c \in calls : c.by \in Signers
  BY DEF TypeOK, Calls
<1> QED
  BY <1>1, <1>2, <1>3, <1>4, <1>5, <1>6, <1>7, <1>8, <1>9, <1>10, <1>11, <1>12,
     <1>13, <1>14, <1>15, <1>16, AbortType
  DEF Next, Api, Environment, Continue, AbortSession, PeerDisconnected

\* Every variable of the coordinators always has its type.
THEOREM TypeCorrect == Spec => []TypeOK
<1>1. Init => TypeOK
  BY SessionAssumption
  DEF Init, TypeOK, Phases, Timers, Gens, Views, NoNonces, Calls, Messages
<1> QED
  BY <1>1, TypeStep, PTL DEF Spec

-----------------------------------------------------------------------------
(***************************************************************************)
(* A secret nonce signs one view.  Inductive: while an object may sign, its *)
(* view is complete, and once it has signed, its view is the signed one;   *)
(* with a session manager that refuses a second share, a complete view     *)
(* cannot change.                                                          *)
(***************************************************************************)
NonceInv ==
    /\ \A p \in Signers :
           phase[p] = "PARTIAL_SIG_EXCHANGE" => HasAllNonces(nonces[p])
    /\ \A s \in signed : s.gen <= gen[s.by] /\ HasAllNonces(s.view)
    /\ \A s \in signed :
           s.gen = gen[s.by] => s.view = nonces[s.by] /\ hasNonce[s.by]
    /\ \A s, t \in signed : s.by = t.by /\ s.gen = t.gen => s.view = t.view

\* A step that leaves nonces and signatures alone, and moves no session into the
\* second round, keeps the invariant.
LEMMA NonceFrame ==
    ASSUME NonceInv, UNCHANGED <<gen, hasNonce, nonces, signed>>,
           \A p \in Signers : phase'[p] = "PARTIAL_SIG_EXCHANGE"
                                => phase[p] = "PARTIAL_SIG_EXCHANGE"
    PROVE  NonceInv'
BY DEF NonceInv, HasAllNonces

\* A message handler keeps the invariant: only _handleNonceShare touches it.
LEMMA HandleNonces ==
    ASSUME TypeOK, KeepsFirst, NonceInv,
           NEW p \in Signers, NEW q \in Signers, NEW g \in Gens, NEW type,
           HandleMessage(p, type, q, g)
    PROVE  NonceInv'
<1>0. UNCHANGED <<gen, hasNonce, signed>>
  BY DEF HandleMessage
<1>1. CASE Parses /\ HandleNonceShare(p, q, g)
  <2>1. CASE UNCHANGED <<phase, nonces, sessionTimeout>>
    BY <2>1, <1>0, NonceFrame
  <2>2. CASE /\ nonces[p][q] = 0
             /\ nonces' = [nonces EXCEPT ![p][q] = g]
             /\ \/ HasAllNonces(nonces'[p]) /\ SetPhase(p, "PARTIAL_SIG_EXCHANGE")
                \/ UNCHANGED phase
    <3>1. ~HasAllNonces(nonces[p])
      BY <2>2 DEF HasAllNonces
    <3>2. \A r \in Signers : r # p => nonces'[r] = nonces[r]
      BY <2>2 DEF TypeOK
    <3>3. \A r \in Signers : phase'[r] = "PARTIAL_SIG_EXCHANGE" => HasAllNonces(nonces'[r])
      <4> SUFFICES ASSUME NEW r \in Signers, phase'[r] = "PARTIAL_SIG_EXCHANGE"
                   PROVE  HasAllNonces(nonces'[r])
        OBVIOUS
      <4>1. CASE r # p
        BY <4>1, <2>2, <3>2 DEF SetPhase, NonceInv, TypeOK
      <4>2. CASE r = p
        BY <4>2, <2>2, <3>1 DEF SetPhase, NonceInv, TypeOK
      <4> QED
        BY <4>1, <4>2
    <3>4. \A s \in signed : s.by = p => s.gen # gen[p]
      BY <3>1 DEF NonceInv
    <3>5. \A s \in signed : s.by \in Signers
      BY DEF TypeOK
    <3> QED
      BY <1>0, <3>2, <3>3, <3>4, <3>5 DEF NonceInv, HasAllNonces
  <2> QED
    BY <1>1, <2>1, <2>2, KeepsFirst DEF HandleNonceShare
<1>2. CASE ~(Parses /\ HandleNonceShare(p, q, g))
  <2>1. UNCHANGED nonces
    BY <1>2 DEF HandleMessage, Handle
  <2>2. \A r \in Signers : phase'[r] = "PARTIAL_SIG_EXCHANGE"
                            => phase[r] = "PARTIAL_SIG_EXCHANGE"
    BY <1>2 DEF HandleMessage, Handle, HandlePartialSigShare, HandleSessionComplete,
                HandleSessionAbort, HandleJoinAcceptance, HandleJoinRejection, SetPhase,
                TypeOK
  <2> QED
    BY <1>0, <2>1, <2>2, NonceFrame
<1> QED
  BY <1>1, <1>2

\* Every step of the coordinators keeps the invariant.
LEMMA NonceStep ==
    ASSUME TypeOK, KeepsFirst, NonceInv, [Next]_vars
    PROVE  NonceInv'
<1>1. ASSUME NEW p \in Signers, NEW index, NEW others, NewSession(p, index, others) PROVE NonceInv'
  <2>1. /\ gen' = [gen EXCEPT ![p] = @ + 1]
        /\ phase' = [phase EXCEPT ![p] = "INIT"]
        /\ hasNonce' = [hasNonce EXCEPT ![p] = FALSE]
        /\ nonces' = [nonces EXCEPT ![p] = NoNonces]
        /\ UNCHANGED signed
    BY <1>1 DEF NewSession, SetPhase
  <2>2. \A r \in Signers : gen[r] \in Int
    BY SessionAssumption DEF TypeOK, Gens
  <2>3. \A s \in signed : s.by \in Signers /\ s.gen \in Int
    BY SessionAssumption DEF TypeOK, Gens
  <2>4. \A s \in signed : s.gen <= gen'[s.by] /\ (s.by = p => s.gen # gen'[p])
    BY <2>1, <2>2, <2>3 DEF NonceInv, TypeOK
  <2>5. \A r \in Signers : r # p => /\ nonces'[r] = nonces[r]
                                    /\ hasNonce'[r] = hasNonce[r]
                                    /\ phase'[r] = phase[r]
                                    /\ gen'[r] = gen[r]
    BY <2>1 DEF TypeOK
  <2>6. phase'[p] = "INIT"
    BY <2>1 DEF TypeOK
  <2> QED
    BY <2>1, <2>3, <2>4, <2>5, <2>6 DEF NonceInv, HasAllNonces
<1>2. ASSUME NEW p \in Signers, ShareNonces(p) PROVE NonceInv'
  <2>1. /\ ~hasNonce[p] /\ phase[p] = "INIT"
        /\ hasNonce' = [hasNonce EXCEPT ![p] = TRUE]
        /\ nonces' = [nonces EXCEPT ![p][p] = gen[p]] \/ nonces' = nonces
        /\ UNCHANGED <<gen, phase, signed>>
    BY <1>2 DEF ShareNonces
  <2>2. \A r \in Signers : r # p => /\ nonces'[r] = nonces[r]
                                    /\ hasNonce'[r] = hasNonce[r]
    BY <2>1 DEF TypeOK
  <2>3. \A s \in signed : s.by \in Signers /\ (s.by = p => s.gen # gen[p])
    BY <2>1 DEF NonceInv, TypeOK
  <2> QED
    BY <2>1, <2>2, <2>3 DEF NonceInv, HasAllNonces
<1>3. ASSUME NEW p \in Signers, SharePartialSignature(p) PROVE NonceInv'
  <2> DEFINE new == [by |-> p, gen |-> gen[p], view |-> nonces[p]]
  <2>1. /\ phase[p] = "PARTIAL_SIG_EXCHANGE" /\ hasNonce[p]
        /\ signed' = signed \cup {new}
        /\ UNCHANGED <<gen, phase, hasNonce, nonces>>
    BY <1>3 DEF SharePartialSignature
  <2>2. HasAllNonces(nonces[p])
    BY <2>1 DEF NonceInv
  <2>3. gen[p] <= gen[p]
    BY SessionAssumption DEF TypeOK, Gens
  <2>4. \A s \in signed : s.by = p /\ s.gen = gen[p] => s.view = nonces[p]
    BY DEF NonceInv
  <2> QED
    BY <2>1, <2>2, <2>3, <2>4 DEF NonceInv, HasAllNonces
<1>4. ASSUME NEW c \in calls, SelfDeliver(c) PROVE NonceInv'
  <2>1. c.by \in Signers /\ c.gen \in Gens
    BY DEF TypeOK, Calls
  <2> QED
    BY <1>4, <2>1, HandleNonces DEF SelfDeliver
<1>5. ASSUME NEW m \in net, Receive(m) PROVE NonceInv'
  <2>1. m.to \in Signers /\ m.from \in Signers /\ m.gen \in Gens
    BY DEF TypeOK, Messages
  <2> QED
    BY <1>5, <2>1, HandleNonces DEF Receive
<1>6. ASSUME NEW p \in Signers,
             \/ FinalizeSession(p) \/ AbortSession(p) \/ NotifyBroadcastComplete(p)
             \/ Cleanup(p) \/ Environment(p)
      PROVE  NonceInv'
  <2>1. UNCHANGED <<gen, hasNonce, nonces, signed>>
    BY <1>6
    DEF FinalizeSession, AbortSession, NotifyBroadcastComplete, Cleanup, Environment,
        PeerDisconnected, SessionTimeoutFires, BroadcastTimeoutFires,
        CleanupExpiredSession, Abort, roundVars
  <2>2. phase' = phase \/ SetPhase(p, "ABORTED") \/ SetPhase(p, "absent")
    BY <1>6
    DEF FinalizeSession, AbortSession, NotifyBroadcastComplete, Cleanup, Environment,
        PeerDisconnected, SessionTimeoutFires, BroadcastTimeoutFires,
        CleanupExpiredSession, Abort
  <2> QED
    BY <2>1, <2>2, NonceFrame DEF SetPhase, TypeOK
<1>7. ASSUME NEW c \in calls,
             \/ JoinSessionResume(c) \/ ShareNoncesResume(c)
             \/ SharePartialSignatureResume(c) \/ FinalizeSessionResume(c)
             \/ AbortSessionResume(c) \/ CleanupResume(c)
      PROVE  NonceInv'
  <2>1. UNCHANGED <<gen, hasNonce, nonces, signed>>
    BY <1>7
    DEF JoinSessionResume, ShareNoncesResume, SharePartialSignatureResume,
        FinalizeSessionResume, AbortSessionResume, CleanupResume, roundVars
  <2>2. \/ phase' = phase \/ SetPhase(c.by, "NONCE_EXCHANGE")
        \/ SetPhase(c.by, "absent")
    BY <1>7
    DEF JoinSessionResume, ShareNoncesResume, SharePartialSignatureResume,
        FinalizeSessionResume, AbortSessionResume, CleanupResume
  <2> QED
    BY <2>1, <2>2, NonceFrame DEF SetPhase, TypeOK
<1>8. CASE UNCHANGED vars
  BY <1>8, NonceFrame DEF vars, roundVars
<1>9. ASSUME NEW m \in net, ReceiveJoin(m) PROVE NonceInv'
  BY <1>9, NonceFrame DEF ReceiveJoin
<1> QED
  BY <1>1, <1>2, <1>3, <1>4, <1>5, <1>6, <1>7, <1>8, <1>9
  DEF Next, Api, Continue, CreateSession, JoinSession

\* However messages, calls, failures and restarts interleave, a secret nonce never
\* signs two views of the public nonces, given a session manager that refuses a
\* second nonce share of an index.
THEOREM NonceSafety ==
    ASSUME KeepsFirst
    PROVE  Spec => []NonceSignsOneView
<1>1. Init => NonceInv
  BY DEF Init, NonceInv
<1>2. TypeOK /\ NonceInv /\ [Next]_vars => NonceInv'
  BY NonceStep
<1>3. NonceInv => NonceSignsOneView
  BY DEF NonceInv, NonceSignsOneView
<1> QED
  BY <1>1, <1>2, <1>3, TypeCorrect, PTL DEF Spec

-----------------------------------------------------------------------------
(***************************************************************************)
(* No session completes before every signer has signed.  Inductive: a      *)
(* partial signature held, on its way or about to be handed back to its    *)
(* sender was made by its sender, and whoever sends SESSION_COMPLETE held  *)
(* every signature.                                                        *)
(***************************************************************************)
HasSigned(q) == \E s \in signed : s.by = q
AllSigned == \A q \in Signers : HasSigned(q)

CompleteInv ==
    /\ \A p \in Signers : phase[p] = "COMPLETE" \/ broadcastTimeout[p] => AllSigned
    /\ \A p \in Signers : \A q \in sigs[p] : HasSigned(q)
    /\ \A m \in net : /\ m.type = "sig" => HasSigned(m.from)
                      /\ m.type = "complete" => AllSigned
    /\ \A c \in calls : /\ c.op = "sig" => HasSigned(c.by)
                        /\ c.op = "complete" => AllSigned

\* A step that adds no signature, and no message or call of the second round,
\* and completes nothing, keeps the invariant.
LEMMA CompleteFrame ==
    ASSUME CompleteInv, signed \subseteq signed',
           \A p \in Signers : phase'[p] = "COMPLETE" => phase[p] = "COMPLETE",
           \A p \in Signers : broadcastTimeout'[p] => broadcastTimeout[p],
           \A p \in Signers : sigs'[p] \subseteq sigs[p],
           \A m \in net' : m \in net \/ m.type \notin {"sig", "complete"},
           \A c \in calls' : \/ c.op \notin {"sig", "complete"}
                             \/ \E d \in calls : d.op = c.op /\ d.by = c.by
    PROVE  CompleteInv'
<1>1. /\ \A q : HasSigned(q) => HasSigned(q)'
      /\ AllSigned => AllSigned'
  BY DEF HasSigned, AllSigned
<1>2. \A p \in Signers : phase'[p] = "COMPLETE" \/ broadcastTimeout'[p] => AllSigned'
  <2>1. \A p \in Signers : phase[p] = "COMPLETE" \/ broadcastTimeout[p] => AllSigned
    BY Zenon DEF CompleteInv
  <2> QED
    BY <1>1, <2>1, Zenon
<1>3. \A p \in Signers : \A q \in sigs'[p] : HasSigned(q)'
  BY <1>1 DEF CompleteInv
<1>4. \A m \in net' : /\ m.type = "sig" => HasSigned(m.from)'
                      /\ m.type = "complete" => AllSigned'
  BY <1>1 DEF CompleteInv
<1>5. \A c \in calls' : /\ c.op = "sig" => HasSigned(c.by)'
                        /\ c.op = "complete" => AllSigned'
  BY <1>1 DEF CompleteInv
<1> QED
  BY <1>2, <1>3, <1>4, <1>5 DEF CompleteInv

\* A message handler completes a session only with every signature in hand, or
\* on a SESSION_COMPLETE.
LEMMA HandleCompletes ==
    ASSUME TypeOK, CompleteInv,
           NEW p \in Signers, NEW q \in Signers, NEW g, NEW type,
           HandleMessage(p, type, q, g),
           type = "sig" => HasSigned(q),
           type = "complete" => AllSigned
    PROVE  /\ \A r \in Signers : phase'[r] = "COMPLETE" \/ broadcastTimeout'[r] => AllSigned
           /\ \A r \in Signers : \A x \in sigs'[r] : HasSigned(x)
<1>1. CASE Parses /\ type = "sig" /\ HandlePartialSigShare(p, q)
  <2>1. CASE UNCHANGED <<phase, sigs, timerVars>>
    BY <2>1 DEF timerVars, CompleteInv
  <2>2. CASE /\ sigs' = [sigs EXCEPT ![p] = @ \cup {q}]
             /\ sigs'[p] # Signers
             /\ UNCHANGED <<phase, timerVars>>
    BY <2>2, <1>1 DEF timerVars, CompleteInv, TypeOK
  <2>3. CASE sigs' = [sigs EXCEPT ![p] = @ \cup {q}] /\ sigs'[p] = Signers
    <3>1. \A r \in Signers : \A x \in sigs'[r] : HasSigned(x)
      BY <2>3, <1>1 DEF CompleteInv, TypeOK
    <3>2. AllSigned
      BY <3>1, <2>3 DEF AllSigned
    <3> QED
      BY <3>1, <3>2
  <2> QED
    BY <1>1, <2>1, <2>2, <2>3 DEF HandlePartialSigShare
<1>2. CASE Parses /\ type = "complete" /\ HandleSessionComplete(p)
           /\ UNCHANGED <<participants, nonces, sigs, timerVars>>
  BY <1>2 DEF timerVars, CompleteInv
<1>3. CASE /\ UNCHANGED <<sigs, broadcastTimeout>>
           /\ \A r \in Signers : phase'[r] = "COMPLETE" => phase[r] = "COMPLETE"
  BY <1>3 DEF CompleteInv
<1>4. CASE /\ Parses /\ HandleNonceShare(p, q, g)
           /\ UNCHANGED <<participants, sigs, broadcastTimeout>>
  <2>1. phase' = phase \/ SetPhase(p, "PARTIAL_SIG_EXCHANGE")
    BY <1>4 DEF HandleNonceShare
  <2> QED
    BY <1>3, <1>4, <2>1 DEF SetPhase, TypeOK
<1>5. CASE Parses /\ SetPhase(p, "absent") /\ UNCHANGED <<participants, nonces, sigs, timerVars>>
  BY <1>3, <1>5 DEF SetPhase, TypeOK, timerVars
<1>6. CASE ~Parses
  BY <1>3, <1>6 DEF HandleMessage, timerVars
<1>7. CASE Parses /\ HandleJoinAcceptance(p, q) /\ UNCHANGED <<phase, nonces, sigs, timerVars>>
  BY <1>3, <1>7 DEF timerVars
<1> QED
  BY <1>1, <1>2, <1>4, <1>5, <1>6, <1>7
  DEF HandleMessage, Handle, HandleSessionAbort, HandleJoinRejection

\* Every step of the coordinators keeps the invariant.
LEMMA CompleteStep ==
    ASSUME TypeOK, CompleteInv, [Next]_vars
    PROVE  CompleteInv'
<1>1. ASSUME NEW p \in Signers, NEW index, NEW others, NewSession(p, index, others),
             \A m \in net' : m \in net \/ m.type = "join",
             \A c \in calls' : c \in calls \/ c.op = "join"
      PROVE  CompleteInv'
  <2>1. /\ phase' = [phase EXCEPT ![p] = "INIT"]
        /\ sigs' = [sigs EXCEPT ![p] = {}]
        /\ UNCHANGED <<signed, broadcastTimeout>>
    BY <1>1 DEF NewSession, SetPhase, timerVars
  <2>2. \A r \in Signers : /\ phase'[r] = "COMPLETE" => phase[r] = "COMPLETE"
                           /\ sigs'[r] \subseteq sigs[r]
    BY <2>1 DEF TypeOK
  <2> QED
    BY <1>1, <2>1, <2>2, CompleteFrame
<1>2. ASSUME NEW p \in Signers, ShareNonces(p) PROVE CompleteInv'
  <2>1. Broadcast(p, "nonce") /\ UNCHANGED <<phase, sigs, signed, broadcastTimeout>>
    BY <1>2 DEF ShareNonces, timerVars
  <2>2. /\ \A m \in net' : m \in net \/ m.type = "nonce"
        /\ \A c \in calls' : c \in calls \/ c.op = "nonce"
    BY <2>1 DEF Broadcast, SendAll, Call
  <2> QED
    BY <2>1, <2>2, CompleteFrame
<1>3. ASSUME NEW p \in Signers, SharePartialSignature(p) PROVE CompleteInv'
  <2> DEFINE new == [by |-> p, gen |-> gen[p], view |-> nonces[p]]
  <2>1. /\ signed' = signed \cup {new}
        /\ sigs' = [sigs EXCEPT ![p] = @ \cup {p}] \/ sigs' = sigs
        /\ Broadcast(p, "sig")
        /\ UNCHANGED <<phase, broadcastTimeout>>
    BY <1>3 DEF SharePartialSignature, timerVars
  <2>2. /\ \A q : HasSigned(q) => HasSigned(q)'
        /\ AllSigned => AllSigned'
    BY <2>1 DEF HasSigned, AllSigned
  <2>3. HasSigned(p)'
    <3>1. new \in signed' /\ new.by = p
      BY <2>1
    <3> QED
      BY <3>1 DEF HasSigned
  <2>4. /\ \A m \in net' : m \in net \/ (m.type = "sig" /\ m.from = p)
        /\ \A c \in calls' : c \in calls \/ (c.op = "sig" /\ c.by = p)
    BY <2>1 DEF Broadcast, SendAll, Call
  <2>5. \A r \in Signers : \A q \in sigs'[r] : HasSigned(q)'
    BY <2>1, <2>2, <2>3 DEF CompleteInv, TypeOK
  <2>6. \A r \in Signers : phase'[r] = "COMPLETE" \/ broadcastTimeout'[r] => AllSigned'
    BY <2>1, <2>2 DEF CompleteInv
  <2>7. \A m \in net' : /\ m.type = "sig" => HasSigned(m.from)'
                        /\ m.type = "complete" => AllSigned'
    BY <2>2, <2>3, <2>4 DEF CompleteInv
  <2>8. \A c \in calls' : /\ c.op = "sig" => HasSigned(c.by)'
                          /\ c.op = "complete" => AllSigned'
    BY <2>2, <2>3, <2>4 DEF CompleteInv
  <2> QED
    BY <2>5, <2>6, <2>7, <2>8 DEF CompleteInv
<1>4. ASSUME NEW p \in Signers, FinalizeSession(p) PROVE CompleteInv'
  <2>1. AllSigned
    BY <1>4 DEF FinalizeSession, HasAllPartialSignatures, CompleteInv, AllSigned
  <2>2. AllSigned' /\ \A q : HasSigned(q) => HasSigned(q)'
    BY <1>4, <2>1 DEF FinalizeSession, roundVars, AllSigned, HasSigned
  <2>3. /\ \A m \in net' : m \in net \/ m.type = "complete"
        /\ \A c \in calls' : c \in calls \/ c.op = "complete"
    BY <1>4 DEF FinalizeSession, SendAll, Call
  <2>4. \A r \in Signers : \A q \in sigs'[r] : HasSigned(q)'
    BY <1>4, <2>2 DEF FinalizeSession, roundVars, CompleteInv
  <2> QED
    BY <2>2, <2>3, <2>4 DEF CompleteInv
<1>5. ASSUME NEW p \in Signers, Abort(p) PROVE CompleteInv'
  <2>1. /\ phase' = [phase EXCEPT ![p] = "ABORTED"]
        /\ Broadcast(p, "abort")
        /\ UNCHANGED <<sigs, signed, broadcastTimeout>>
    BY <1>5 DEF Abort, SetPhase, roundVars
  <2>2. /\ \A m \in net' : m \in net \/ m.type = "abort"
        /\ \A c \in calls' : c \in calls \/ c.op = "abort"
    BY <2>1 DEF Broadcast, SendAll, Call
  <2> QED
    BY <2>1, <2>2, CompleteFrame DEF TypeOK
<1>6. ASSUME NEW p \in Signers, Cleanup(p) PROVE CompleteInv'
  <2>1. /\ broadcastTimeout' = [broadcastTimeout EXCEPT ![p] = FALSE]
        /\ \A c \in calls' : c \in calls \/ c.op = "cleanup"
        /\ UNCHANGED <<phase, sigs, signed, net>>
    BY <1>6 DEF Cleanup, Call, ClearBroadcastTimeout, roundVars
  <2> QED
    BY <2>1, CompleteFrame DEF TypeOK
<1>7. ASSUME NEW p \in Signers,
             \/ ClearSessionTimeout(p) /\ UNCHANGED <<gen, phase, roundVars,
                                        broadcastTimeout, calls, net>>
             \/ BroadcastTimeoutFires(p) \/ NotifyBroadcastComplete(p)
             \/ CleanupExpiredSession(p)
      PROVE  CompleteInv'
  <2>1. /\ phase' = phase \/ phase' = [phase EXCEPT ![p] = "absent"]
        /\ \/ broadcastTimeout' = broadcastTimeout
           \/ broadcastTimeout' = [broadcastTimeout EXCEPT ![p] = FALSE]
        /\ UNCHANGED <<sigs, signed, calls, net>>
    BY <1>7
    DEF BroadcastTimeoutFires, NotifyBroadcastComplete, CleanupExpiredSession,
        ClearBroadcastTimeout, SetPhase, roundVars
  <2> QED
    BY <2>1, CompleteFrame DEF TypeOK
<1>8. ASSUME NEW p \in Signers, Environment(p) PROVE CompleteInv'
  BY <1>8, <1>5, <1>7 DEF Environment, PeerDisconnected, SessionTimeoutFires
<1>9. ASSUME NEW c \in calls, SelfDeliver(c) PROVE CompleteInv'
  <2>1. c.by \in Signers
    BY DEF TypeOK, Calls
  <2>2. /\ HandleMessage(c.by, c.op, c.by, c.gen) /\ UNCHANGED <<net, signed>>
        /\ \A d \in calls' : d \in calls \/ (d.op = c.op /\ d.by = c.by)
    <3>1. c \in Calls
      BY DEF TypeOK
    <3> QED
      BY <1>9, <3>1 DEF SelfDeliver, HandleMessage, Calls
  <2>3. /\ c.op = "sig" => HasSigned(c.by)
        /\ c.op = "complete" => AllSigned
    BY DEF CompleteInv
  <2>4. /\ \A r \in Signers : phase'[r] = "COMPLETE" \/ broadcastTimeout'[r] => AllSigned
        /\ \A r \in Signers : \A x \in sigs'[r] : HasSigned(x)
    BY <2>1, <2>2, <2>3, HandleCompletes
  <2> QED
    BY <2>2, <2>3, <2>4 DEF CompleteInv, HasSigned, AllSigned
<1>10. ASSUME NEW m \in net, Receive(m) PROVE CompleteInv'
  <2>1. m.to \in Signers /\ m.from \in Signers
    BY DEF TypeOK, Messages
  <2>2. /\ HandleMessage(m.to, m.type, m.from, m.gen)
        /\ net' \subseteq net /\ UNCHANGED <<calls, signed>>
    BY <1>10 DEF Receive, HandleMessage
  <2>3. /\ m.type = "sig" => HasSigned(m.from)
        /\ m.type = "complete" => AllSigned
    BY DEF CompleteInv
  <2>4. /\ \A r \in Signers : phase'[r] = "COMPLETE" \/ broadcastTimeout'[r] => AllSigned
        /\ \A r \in Signers : \A x \in sigs'[r] : HasSigned(x)
    BY <2>1, <2>2, <2>3, HandleCompletes
  <2> QED
    BY <2>2, <2>4 DEF CompleteInv, HasSigned, AllSigned
<1>11. ASSUME NEW c \in calls,
              \/ JoinSessionResume(c) \/ ShareNoncesResume(c)
              \/ SharePartialSignatureResume(c) \/ FinalizeSessionResume(c)
              \/ AbortSessionResume(c) \/ CleanupResume(c)
       PROVE  CompleteInv'
  <2>1. /\ UNCHANGED <<sigs, signed, broadcastTimeout, net>>
        /\ calls' \subseteq calls
    BY <1>11
    DEF JoinSessionResume, ShareNoncesResume, SharePartialSignatureResume,
        FinalizeSessionResume, AbortSessionResume, CleanupResume, Returns, roundVars,
        timerVars
  <2>2. \/ phase' = phase \/ SetPhase(c.by, "NONCE_EXCHANGE")
        \/ SetPhase(c.by, "absent")
    BY <1>11
    DEF JoinSessionResume, ShareNoncesResume, SharePartialSignatureResume,
        FinalizeSessionResume, AbortSessionResume, CleanupResume
  <2> QED
    BY <2>1, <2>2, CompleteFrame DEF SetPhase, TypeOK
<1>12. CASE UNCHANGED vars
  BY <1>12, CompleteFrame DEF vars, roundVars, timerVars
<1>13. ASSUME NEW p \in Signers, CreateSession(p) \/ JoinSession(p) PROVE CompleteInv'
  <2>1. CASE CreateSession(p)
    BY <2>1, <1>1 DEF CreateSession
  <2>2. CASE JoinSession(p)
    <3>1. NewSession(p, NoIndex, {})
      BY <2>2 DEF JoinSession
    <3>2. /\ \A m \in net' : m \in net \/ m.type = "join"
          /\ \A c \in calls' : c \in calls \/ c.op = "join"
      BY <2>2 DEF JoinSession
    <3> QED
      BY <3>1, <3>2, <1>1
  <2> QED
    BY <1>13, <2>1, <2>2
<1>14. ASSUME NEW m \in net, ReceiveJoin(m) PROVE CompleteInv'
  <2>1. \A n \in net' : n \in net \/ n.type \notin {"sig", "complete"}
    BY <1>14, JoinAnswered
  <2> QED
    BY <1>14, <2>1, CompleteFrame DEF ReceiveJoin, timerVars
<1> QED
  BY <1>2, <1>3, <1>4, <1>5, <1>6, <1>7, <1>8, <1>9, <1>10, <1>11, <1>12, <1>13, <1>14
  DEF Next, Api, Continue, AbortSession

\* However messages, calls and failures interleave, no session is COMPLETE and no
\* failover clock runs before every signer has made its partial signature.
THEOREM CompletionSafety == Spec => []CompleteImpliesAllSigned
<1>1. Init => CompleteInv
  BY DEF Init, CompleteInv
<1>2. TypeOK /\ CompleteInv /\ [Next]_vars => CompleteInv'
  BY CompleteStep
<1>3. CompleteInv => CompleteImpliesAllSigned
  BY DEF CompleteInv, CompleteImpliesAllSigned, AllSigned, HasSigned
<1> QED
  BY <1>1, <1>2, <1>3, TypeCorrect, PTL DEF Spec

-----------------------------------------------------------------------------
(***************************************************************************)
(* A complete session leaves the rounds for good, when a signer makes one  *)
(* session object only: then every signer's signature is by the object it  *)
(* has, whose view of the nonces is complete and cannot change any more.   *)
(***************************************************************************)
Numbered ==
    /\ \A p \in Signers : phase[p] # "absent" => gen[p] # 0
    /\ \A s \in signed : s.gen # 0

\* A session in the map is a numbered object, and so is one that has signed.
LEMMA NumberedStep ==
    ASSUME TypeOK, Numbered, [Next]_vars
    PROVE  Numbered'
<1>1. ASSUME NEW p \in Signers, NEW index, NEW others, NewSession(p, index, others) PROVE Numbered'
  <2>1. gen[p] + 1 # 0
    BY SessionAssumption DEF TypeOK, Gens
  <2> QED
    BY <1>1, <2>1 DEF NewSession, SetPhase, Numbered, TypeOK
<1>2. ASSUME NEW p \in Signers, SharePartialSignature(p) PROVE Numbered'
  BY <1>2 DEF SharePartialSignature, Numbered
<1>3. ASSUME UNCHANGED <<gen, signed>>,
             \A r \in Signers : phase'[r] # "absent" => phase[r] # "absent"
      PROVE  Numbered'
  BY <1>3 DEF Numbered
<1>4. ASSUME NEW p \in Signers, NEW q, NEW g, NEW type, HandleMessage(p, type, q, g)
      PROVE  Numbered'
  <2>1. UNCHANGED <<gen, signed>>
    BY <1>4 DEF HandleMessage
  <2>2. \A r \in Signers : phase'[r] # "absent" => phase[r] # "absent"
    BY <1>4
    DEF HandleMessage, Handle, HandleNonceShare, HandlePartialSigShare,
        HandleSessionComplete, HandleSessionAbort, HandleJoinAcceptance,
        HandleJoinRejection, SetPhase, TypeOK
  <2> QED
    BY <1>3, <2>1, <2>2
<1>5. ASSUME NEW c \in calls, SelfDeliver(c) PROVE Numbered'
  BY <1>4, <1>5 DEF SelfDeliver, TypeOK, Calls
<1>6. ASSUME NEW m \in net, Receive(m) PROVE Numbered'
  BY <1>4, <1>6 DEF Receive, TypeOK, Messages
<1>7. ASSUME NEW p \in Signers,
             \/ ShareNonces(p) \/ FinalizeSession(p) \/ AbortSession(p)
             \/ NotifyBroadcastComplete(p) \/ Cleanup(p) \/ Environment(p)
      PROVE  Numbered'
  <2>1. UNCHANGED <<gen, signed>>
    BY <1>7
    DEF ShareNonces, FinalizeSession, AbortSession, NotifyBroadcastComplete, Cleanup,
        Environment, PeerDisconnected, SessionTimeoutFires, BroadcastTimeoutFires,
        CleanupExpiredSession, Abort, roundVars
  <2>2. \/ phase' = phase \/ SetPhase(p, "absent")
        \/ phase[p] # "absent" /\ SetPhase(p, "ABORTED")
    BY <1>7
    DEF ShareNonces, FinalizeSession, AbortSession, NotifyBroadcastComplete, Cleanup,
        Environment, PeerDisconnected, SessionTimeoutFires, BroadcastTimeoutFires,
        CleanupExpiredSession, Abort
  <2> QED
    BY <1>3, <2>1, <2>2 DEF SetPhase, TypeOK
<1>8. ASSUME NEW c \in calls,
             \/ JoinSessionResume(c) \/ ShareNoncesResume(c)
             \/ SharePartialSignatureResume(c) \/ FinalizeSessionResume(c)
             \/ AbortSessionResume(c) \/ CleanupResume(c)
      PROVE  Numbered'
  <2>1. UNCHANGED <<gen, signed>>
    BY <1>8
    DEF JoinSessionResume, ShareNoncesResume, SharePartialSignatureResume,
        FinalizeSessionResume, AbortSessionResume, CleanupResume, roundVars
  <2>2. \/ phase' = phase \/ SetPhase(c.by, "absent")
        \/ phase[c.by] = "INIT" /\ SetPhase(c.by, "NONCE_EXCHANGE")
    BY <1>8
    DEF JoinSessionResume, ShareNoncesResume, SharePartialSignatureResume,
        FinalizeSessionResume, AbortSessionResume, CleanupResume
  <2> QED
    BY <1>3, <2>1, <2>2 DEF SetPhase, TypeOK
<1>9. CASE UNCHANGED vars
  BY <1>3, <1>9 DEF vars, roundVars
<1>10. ASSUME NEW m \in net, ReceiveJoin(m) PROVE Numbered'
  BY <1>3, <1>10 DEF ReceiveJoin
<1> QED
  BY <1>1, <1>2, <1>5, <1>6, <1>7, <1>8, <1>9, <1>10
  DEF Next, Api, Continue, CreateSession, JoinSession

\* The view of a complete session is complete.
LEMMA CompleteView ==
    ASSUME TypeOK, NonceInv, CompleteInv, Numbered, MaxGen = 1,
           NEW p \in Signers, phase[p] = "COMPLETE"
    PROVE  HasAllNonces(nonces[p])
<1>1. PICK s \in signed : s.by = p
  BY DEF CompleteInv, AllSigned, HasSigned
<1>2. s.gen = 1 /\ gen[p] = 1
  <2>1. s.gen \in 0 .. 1 /\ gen[p] \in 0 .. 1
    BY DEF TypeOK, Gens
  <2> QED
    BY <2>1 DEF Numbered
<1> QED
  BY <1>1, <1>2 DEF NonceInv

\* A handler never takes a session with a complete view back into a round.
LEMMA HandleFinal ==
    ASSUME TypeOK, KeepsFirst,
           NEW r \in Signers, phase[r] = "COMPLETE", HasAllNonces(nonces[r]),
           NEW p \in Signers, NEW q \in Signers, NEW g, NEW type,
           HandleMessage(p, type, q, g)
    PROVE  phase'[r] \in {"COMPLETE", "ABORTED", "absent"}
<1>1. CASE Parses /\ HandleNonceShare(p, q, g)
  <2>1. CASE p = r
    <3>1. nonces[p][q] # 0
      BY <2>1 DEF HasAllNonces
    <3> QED
      BY <1>1, <3>1 DEF HandleNonceShare
  <2>2. CASE p # r
    BY <1>1, <2>2 DEF HandleNonceShare, SetPhase, TypeOK
  <2> QED
    BY <2>1, <2>2
<1>2. CASE ~(Parses /\ HandleNonceShare(p, q, g))
  BY <1>2
  DEF HandleMessage, Handle, HandlePartialSigShare, HandleSessionComplete,
      HandleSessionAbort, HandleJoinAcceptance, HandleJoinRejection, SetPhase, TypeOK
<1> QED
  BY <1>1, <1>2

\* No step takes a complete session back into a round.
LEMMA FinalStep ==
    ASSUME TypeOK, KeepsFirst, MaxGen = 1, NonceInv, CompleteInv, Numbered,
           [Next]_vars, NEW r \in Signers, phase[r] = "COMPLETE"
    PROVE  phase'[r] \in {"COMPLETE", "ABORTED", "absent"}
<1>0. HasAllNonces(nonces[r])
  BY CompleteView
<1>1. ASSUME NEW c \in calls, SelfDeliver(c)
      PROVE  phase'[r] \in {"COMPLETE", "ABORTED", "absent"}
  BY <1>0, <1>1, HandleFinal DEF SelfDeliver, TypeOK, Calls
<1>2. ASSUME NEW m \in net, Receive(m)
      PROVE  phase'[r] \in {"COMPLETE", "ABORTED", "absent"}
  BY <1>0, <1>2, HandleFinal DEF Receive, TypeOK, Messages
<1>3. ASSUME NEW p \in Signers, Api(p) \/ Environment(p)
      PROVE  phase'[r] \in {"COMPLETE", "ABORTED", "absent"}
  <2>1. \/ phase' = phase \/ SetPhase(p, "absent") \/ SetPhase(p, "ABORTED")
        \/ phase[p] = "absent" /\ SetPhase(p, "INIT")
    BY <1>3
    DEF Api, Environment, CreateSession, JoinSession, NewSession, ShareNonces,
        SharePartialSignature, FinalizeSession, AbortSession, NotifyBroadcastComplete,
        Cleanup, PeerDisconnected, SessionTimeoutFires, BroadcastTimeoutFires,
        CleanupExpiredSession, Abort
  <2> QED
    BY <2>1 DEF SetPhase, TypeOK
<1>4. ASSUME NEW c \in calls, Continue(c), ~SelfDeliver(c)
      PROVE  phase'[r] \in {"COMPLETE", "ABORTED", "absent"}
  <2>1. \/ phase' = phase \/ SetPhase(c.by, "absent")
        \/ phase[c.by] = "INIT" /\ SetPhase(c.by, "NONCE_EXCHANGE")
    BY <1>4
    DEF Continue, JoinSessionResume, ShareNoncesResume, SharePartialSignatureResume,
        FinalizeSessionResume, AbortSessionResume, CleanupResume
  <2> QED
    BY <2>1 DEF SetPhase, TypeOK
<1>5. CASE UNCHANGED vars
  BY <1>5 DEF vars
<1>6. ASSUME NEW m \in net, ReceiveJoin(m)
      PROVE  phase'[r] \in {"COMPLETE", "ABORTED", "absent"}
  BY <1>6 DEF ReceiveJoin
<1> QED
  BY <1>1, <1>2, <1>3, <1>4, <1>5, <1>6 DEF Next

\* A complete session is only ever aborted or removed, when a signer makes one
\* session object for the session id and second shares are refused.
THEOREM CompletionIsFinal ==
    ASSUME KeepsFirst, MaxGen = 1
    PROVE  Spec => CompleteIsFinal
<1>1. Init => NonceInv /\ CompleteInv /\ Numbered
  BY DEF Init, NonceInv, CompleteInv, Numbered
<1>2. TypeOK /\ (NonceInv /\ CompleteInv /\ Numbered) /\ [Next]_vars
      => (NonceInv /\ CompleteInv /\ Numbered)'
  BY NonceStep, CompleteStep, NumberedStep
<1>3. TypeOK /\ (NonceInv /\ CompleteInv /\ Numbered) /\ [Next]_vars
      => [\A p \in Signers :
            phase[p] = "COMPLETE" => phase'[p] \in {"COMPLETE", "ABORTED", "absent"}]_vars
  BY FinalStep
<1> QED
  BY <1>1, <1>2, <1>3, TypeCorrect, PTL DEF Spec, CompleteIsFinal

-----------------------------------------------------------------------------
(***************************************************************************)
(* The rounds implement SigningRound.  To what is proved above it adds     *)
(* where nonces come from: those that a signer holds, or that are on their *)
(* way, are of session objects that their signer has made.                 *)
(***************************************************************************)
Provenance ==
    /\ \A p, q \in Signers : nonces[p][q] <= gen[q]
    /\ \A m \in net : m.type = "nonce" => m.gen <= gen[m.from]
    /\ \A c \in calls : c.gen <= gen[c.by]

\* What a step adds to what is on its way is of the sender's object in use.
LEMMA ProvenanceFrame ==
    ASSUME TypeOK, TypeOK', Provenance,
           \A q \in Signers : gen[q] <= gen'[q],
           \A p, q \in Signers : nonces'[p][q] <= gen'[q],
           \A m \in net' : \/ m \in net \/ m.type # "nonce"
                           \/ m.gen = gen[m.from],
           \A c \in calls' : \/ c.gen = gen'[c.by]
                             \/ \E d \in calls : d.by = c.by /\ d.gen = c.gen
    PROVE  Provenance'
<1>1. /\ \A q \in Signers : gen[q] \in Nat /\ gen'[q] \in Nat
      /\ \A m \in net' : m.gen \in Nat /\ m.from \in Signers
      /\ \A c \in calls' : c.gen \in Nat /\ c.by \in Signers
  BY SessionAssumption DEF TypeOK, Gens, Messages, Calls
<1>2. \A m \in net' : m.type = "nonce" => m.gen <= gen'[m.from]
  <2> SUFFICES ASSUME NEW m \in net', m.type = "nonce" PROVE m.gen <= gen'[m.from]
    OBVIOUS
  <2>1. m.gen <= gen[m.from]
    BY <1>1 DEF Provenance
  <2> QED
    BY <1>1, <2>1
<1>3. \A c \in calls' : c.gen <= gen'[c.by]
  <2> SUFFICES ASSUME NEW c \in calls' PROVE c.gen <= gen'[c.by]
    OBVIOUS
  <2>1. c.gen <= gen[c.by] \/ c.gen = gen'[c.by]
    BY DEF Provenance
  <2> QED
    BY <1>1, <2>1
<1> QED
  BY <1>2, <1>3 DEF Provenance

\* A handler takes over the number that its message carries.
LEMMA HandleProvenance ==
    ASSUME TypeOK, Provenance, NEW p \in Signers, NEW q \in Signers, NEW g \in Gens, NEW type,
           HandleMessage(p, type, q, g), type = "nonce" => g <= gen[q]
    PROVE  gen' = gen /\ \A r, s \in Signers : nonces'[r][s] <= gen[s]
<1>1. gen' = gen
  BY DEF HandleMessage
<1>2. CASE UNCHANGED nonces
  BY <1>1, <1>2 DEF Provenance
<1>3. CASE type = "nonce" /\ nonces' = [nonces EXCEPT ![p][q] = g]
  <2>1. nonces \in [Signers -> Views] /\ nonces[p] \in [Signers -> Gens]
    BY DEF TypeOK, Views
  <2>2. \A r, s \in Signers : nonces'[r][s] = IF r = p /\ s = q THEN g ELSE nonces[r][s]
    BY <1>3, <2>1 DEF Views
  <2> QED
    BY <1>1, <1>3, <2>2 DEF Provenance
<1> QED
  BY <1>2, <1>3 DEF HandleMessage, Handle, HandleNonceShare

LEMMA ProvenanceStep ==
    ASSUME TypeOK, Provenance, [Next]_vars
    PROVE  Provenance'
<1>1. TypeOK'
  BY TypeStep
<1>2. /\ gen \in [Signers -> Nat] /\ nonces \in [Signers -> Views]
      /\ \A q \in Signers : gen[q] <= gen[q]
      /\ \A p, q \in Signers : nonces[p][q] <= gen[q]
  BY SessionAssumption DEF TypeOK, Gens, Provenance
<1>3. ASSUME NEW p \in Signers, NEW index, NEW others, NewSession(p, index, others),
             \A m \in net' : m \in net \/ m.type # "nonce",
             \A c \in calls' : c \in calls \/ (c.by = p /\ c.gen = gen'[p])
      PROVE  Provenance'
  <2>1. /\ gen' = [gen EXCEPT ![p] = @ + 1]
        /\ nonces' = [nonces EXCEPT ![p] = NoNonces]
    BY <1>3 DEF NewSession
  <2>2. \A q \in Signers : gen[q] <= gen'[q] /\ gen'[q] \in Nat
    BY <1>2, <2>1
  <2>3. \A r, q \in Signers : nonces'[r][q] = IF r = p THEN 0 ELSE nonces[r][q]
    BY <1>2, <2>1 DEF NoNonces
  <2>4. ASSUME NEW r \in Signers, NEW q \in Signers PROVE nonces'[r][q] <= gen'[q]
    <3>1. nonces[r][q] \in Nat /\ nonces[r][q] <= gen[q] /\ gen[q] \in Nat /\ gen'[q] \in Nat
          /\ gen[q] <= gen'[q]
      BY <1>2, <2>2, SessionAssumption DEF Views, Gens
    <3> QED
      BY <2>3, <3>1
  <2> QED
    BY <1>1, <1>3, <2>2, <2>4, ProvenanceFrame
<1>4. ASSUME NEW p \in Signers, gen' = gen,
             \A r, q \in Signers : nonces'[r][q] <= gen[q],
             \A m \in net' : m \in net \/ (m.from = p /\ m.gen = gen[p]),
             \A c \in calls' : c \in calls \/ (c.by = p /\ c.gen = gen[p])
      PROVE  Provenance'
  BY <1>1, <1>2, <1>4, ProvenanceFrame
<1>5. ASSUME NEW p \in Signers, NEW op, Broadcast(p, op)
      PROVE  /\ \A m \in net' : m \in net \/ (m.from = p /\ m.gen = gen[p])
             /\ \A c \in calls' : c \in calls \/ (c.by = p /\ c.gen = gen[p])
  BY <1>5 DEF Broadcast, SendAll, Call
<1>6. ASSUME NEW p \in Signers, ShareNonces(p) PROVE Provenance'
  <2>1. /\ gen' = gen /\ Broadcast(p, "nonce")
        /\ nonces' = nonces \/ nonces' = [nonces EXCEPT ![p][p] = gen[p]]
    BY <1>6 DEF ShareNonces
  <2>2. \A r, q \in Signers : nonces'[r][q] = nonces[r][q] \/ (q = p /\ nonces'[r][q] = gen[p])
    BY <1>2, <2>1 DEF Views
  <2>3. \A r, q \in Signers : nonces'[r][q] <= gen[q]
    BY <1>2, <2>2
  <2> QED
    BY <1>4, <1>5, <2>1, <2>3
<1>7. ASSUME NEW p \in Signers, SharePartialSignature(p) \/ Abort(p) PROVE Provenance'
  <2>1. UNCHANGED <<gen, nonces>> /\ \E op : Broadcast(p, op)
    BY <1>7 DEF SharePartialSignature, Abort, roundVars
  <2> QED
    BY <1>2, <1>4, <1>5, <2>1
<1>8. ASSUME NEW p \in Signers, FinalizeSession(p) \/ Cleanup(p) PROVE Provenance'
  <2>1. /\ UNCHANGED <<gen, nonces>>
        /\ \A m \in net' : m \in net \/ (m.from = p /\ m.gen = gen[p])
        /\ \A c \in calls' : c \in calls \/ (c.by = p /\ c.gen = gen[p])
    BY <1>8 DEF FinalizeSession, Cleanup, SendAll, Call, roundVars
  <2> QED
    BY <1>2, <1>4, <2>1
<1>9. ASSUME gen' = gen, nonces' = nonces, net' \subseteq net, calls' \subseteq calls
      PROVE  Provenance'
  BY <1>9 DEF Provenance
<1>10. ASSUME NEW p \in Signers, Environment(p) PROVE Provenance'
  BY <1>7, <1>9, <1>10
  DEF Environment, PeerDisconnected, SessionTimeoutFires, BroadcastTimeoutFires,
      CleanupExpiredSession, roundVars
<1>11. ASSUME NEW p \in Signers, CreateSession(p) \/ JoinSession(p) PROVE Provenance'
  BY <1>3, <1>11 DEF CreateSession, JoinSession
<1>12. ASSUME NEW c \in calls, SelfDeliver(c) PROVE Provenance'
  <2>1. c.by \in Signers /\ c.gen \in Gens /\ c.gen <= gen[c.by]
    BY DEF TypeOK, Calls, Provenance
  <2>2. gen' = gen /\ \A r, s \in Signers : nonces'[r][s] <= gen[s]
    BY <1>12, <2>1, HandleProvenance DEF SelfDeliver
  <2>3. net' = net /\ \A d \in calls' : \E e \in calls : e.by = d.by /\ e.gen = d.gen
    BY <1>12 DEF SelfDeliver, TypeOK, Calls
  <2> QED
    BY <1>1, <1>2, <2>2, <2>3, ProvenanceFrame
<1>13. ASSUME NEW m \in net, Receive(m) PROVE Provenance'
  <2>1. /\ m.to \in Signers /\ m.from \in Signers /\ m.gen \in Gens
        /\ m.type = "nonce" => m.gen <= gen[m.from]
    BY DEF TypeOK, Messages, Provenance
  <2>2. gen' = gen /\ \A r, s \in Signers : nonces'[r][s] <= gen[s]
    BY <1>13, <2>1, HandleProvenance DEF Receive
  <2> QED
    BY <1>4, <1>13, <2>1, <2>2 DEF Receive
<1>14. ASSUME NEW c \in calls,
              \/ JoinSessionResume(c) \/ ShareNoncesResume(c)
              \/ SharePartialSignatureResume(c) \/ FinalizeSessionResume(c)
              \/ AbortSessionResume(c) \/ CleanupResume(c)
       PROVE  Provenance'
  BY <1>9, <1>14
  DEF JoinSessionResume, ShareNoncesResume, SharePartialSignatureResume,
      FinalizeSessionResume, AbortSessionResume, CleanupResume, Returns, roundVars
<1>15. ASSUME NEW p \in Signers, NotifyBroadcastComplete(p) PROVE Provenance'
  BY <1>9, <1>15 DEF NotifyBroadcastComplete, roundVars
<1>16. CASE UNCHANGED vars
  BY <1>9, <1>16 DEF vars, roundVars
<1>17. ASSUME NEW m \in net, ReceiveJoin(m) PROVE Provenance'
  <2>1. \A n \in net' : n \in net \/ n.type # "nonce"
    BY <1>17, JoinAnswered
  <2>2. UNCHANGED <<gen, nonces, calls>>
    BY <1>17 DEF ReceiveJoin
  <2> QED
    BY <2>1, <2>2 DEF Provenance
<1> QED
  BY <1>6, <1>7, <1>8, <1>10, <1>11, <1>12, <1>13, <1>14, <1>15, <1>16, <1>17
  DEF Next, Api, Continue, AbortSession

\* A step that finishes a session, or gives it up, is the step of one signer.
Finished == {p \in Signers : phase[p] = "COMPLETE" \/ broadcastTimeout[p]}

LEMMA OneFinishes ==
    ASSUME CompleteInv', NEW p \in Signers, UNCHANGED <<gen, signed>>,
           \A r \in Signers : r # p => phase'[r] = phase[r]
                                       /\ broadcastTimeout'[r] = broadcastTimeout[r]
    PROVE  Round!SigningNext
<1>1. CASE p \in Finished'
  <2>1. \A q \in Signers : \E s \in signed : s.by = q
    BY <1>1 DEF Finished, CompleteInv, AllSigned, HasSigned
  <2>2. Finished' = Finished \cup {p}
    BY <1>1 DEF Finished
  <2>3. Round!Finish(p)
    BY <2>1, <2>2 DEF Round!Finish, Round!AllHaveSigned, Finished
  <2> QED
    BY <2>3 DEF Round!SigningNext
<1>2. CASE p \notin Finished'
  <2>1. Finished' = Finished \ {p}
    BY <1>2 DEF Finished
  <2>2. Round!GiveUp(p)
    BY <2>1 DEF Round!GiveUp, Finished
  <2> QED
    BY <2>2 DEF Round!SigningNext
<1> QED
  BY <1>1, <1>2

\* What signs has a view of nonces that were made, and has signed no other.
LEMMA SignsAView ==
    ASSUME TypeOK, NonceInv, Provenance, NEW p \in Signers, SharePartialSignature(p)
    PROVE  Round!SigningNext
<1> DEFINE view == nonces[p]
<1>1. view \in [Signers -> Gens] /\ gen \in [Signers -> Nat] /\ Gens \subseteq Nat
  BY SessionAssumption DEF TypeOK, Views, Gens
<1>2. ASSUME NEW q \in Signers PROVE view[q] \in 1 .. gen[q]
  <2>1. view[q] # 0
    BY DEF SharePartialSignature, NonceInv, HasAllNonces
  <2>2. view[q] \in Nat /\ gen[q] \in Nat /\ view[q] <= gen[q]
    BY <1>1 DEF Provenance
  <2> QED
    BY <2>1, <2>2
<1>3. \A s \in signed : s.by = p /\ s.gen = gen[p] => s.view = view
  BY DEF NonceInv
<1>4. gen[p] > 0
  BY <1>1, <1>2
<1>5. /\ signed' = signed \cup {[by |-> p, gen |-> gen[p], view |-> view]}
      /\ UNCHANGED <<gen, phase, broadcastTimeout>>
  BY DEF SharePartialSignature, timerVars
<1>6. Finished' = Finished
  BY <1>5 DEF Finished
<1> HIDE DEF view
<1>7. Round!MaySign(p, view)
  BY <1>2, <1>3 DEF Round!MaySign
<1>8. Round!SignView(p, view)
  BY <1>4, <1>5, <1>6, <1>7 DEF Round!SignView, Finished
<1> QED
  BY <1>1, <1>8 DEF Round!SigningNext

LEMMA RoundStep ==
    ASSUME TypeOK, NonceInv, CompleteInv, CompleteInv', Provenance, [Next]_vars
    PROVE  [Round!SigningNext]_(Round!signingVars)
<1>1. ASSUME NEW p \in Signers, UNCHANGED <<gen, signed>>,
             \A r \in Signers : r # p => phase'[r] = phase[r]
                                         /\ broadcastTimeout'[r] = broadcastTimeout[r]
      PROVE  Round!SigningNext
  BY <1>1, OneFinishes
<1>2. ASSUME UNCHANGED <<gen, signed, phase, broadcastTimeout>>
      PROVE  UNCHANGED Round!signingVars
  BY <1>2 DEF Round!signingVars
<1>3. ASSUME NEW p \in Signers, NEW index, NEW others, NewSession(p, index, others) PROVE Round!SigningNext
  <2>1. /\ phase[p] = "absent" /\ phase' = [phase EXCEPT ![p] = "INIT"]
        /\ gen' = [gen EXCEPT ![p] = @ + 1] /\ UNCHANGED <<signed, broadcastTimeout>>
    BY <1>3 DEF NewSession, SetPhase, timerVars
  <2>2. Finished' = Finished
    BY <2>1 DEF Finished, TypeOK
  <2>3. Round!StartAfresh(p)
    BY <2>1, <2>2 DEF Round!StartAfresh, Finished
  <2> QED
    BY <2>3 DEF Round!SigningNext
<1>4. ASSUME NEW p \in Signers, NEW q, NEW g, NEW type, HandleMessage(p, type, q, g)
      PROVE  Round!SigningNext
  <2>1. /\ UNCHANGED <<gen, signed>>
        /\ \A r \in Signers : r # p => phase'[r] = phase[r]
                                       /\ broadcastTimeout'[r] = broadcastTimeout[r]
    BY <1>4
    DEF HandleMessage, Handle, HandleNonceShare, HandlePartialSigShare,
        HandleSessionComplete, HandleSessionAbort, HandleJoinAcceptance,
        HandleJoinRejection, SetPhase, timerVars, TypeOK
  <2> QED
    BY <1>1, <2>1
<1>5. ASSUME NEW c \in calls, SelfDeliver(c) PROVE Round!SigningNext
  BY <1>4, <1>5 DEF SelfDeliver, TypeOK, Calls
<1>6. ASSUME NEW m \in net, Receive(m) PROVE Round!SigningNext
  BY <1>4, <1>6 DEF Receive, TypeOK, Messages
<1>7. ASSUME NEW p \in Signers,
             \/ ShareNonces(p) \/ FinalizeSession(p) \/ AbortSession(p)
             \/ NotifyBroadcastComplete(p) \/ Cleanup(p) \/ Environment(p)
      PROVE  Round!SigningNext
  <2>1. UNCHANGED <<gen, signed>>
    BY <1>7
    DEF ShareNonces, FinalizeSession, AbortSession, NotifyBroadcastComplete, Cleanup,
        Environment, PeerDisconnected, SessionTimeoutFires, BroadcastTimeoutFires,
        CleanupExpiredSession, Abort, roundVars
  <2>2. phase' = phase \/ \E ph : SetPhase(p, ph)
    BY <1>7
    DEF ShareNonces, FinalizeSession, AbortSession, NotifyBroadcastComplete, Cleanup,
        Environment, PeerDisconnected, SessionTimeoutFires, BroadcastTimeoutFires,
        CleanupExpiredSession, Abort
  <2>3. broadcastTimeout' = broadcastTimeout \/ ClearBroadcastTimeout(p)
    BY <1>7
    DEF ShareNonces, FinalizeSession, AbortSession, NotifyBroadcastComplete, Cleanup,
        Environment, PeerDisconnected, SessionTimeoutFires, BroadcastTimeoutFires,
        CleanupExpiredSession, Abort, timerVars
  <2>4. \A r \in Signers : r # p => phase'[r] = phase[r]
                                    /\ broadcastTimeout'[r] = broadcastTimeout[r]
    BY <2>2, <2>3 DEF SetPhase, ClearBroadcastTimeout, TypeOK
  <2> QED
    BY <1>1, <2>1, <2>4
<1>8. ASSUME NEW c \in calls,
             \/ JoinSessionResume(c) \/ ShareNoncesResume(c)
             \/ SharePartialSignatureResume(c) \/ FinalizeSessionResume(c)
             \/ AbortSessionResume(c) \/ CleanupResume(c)
      PROVE  Round!SigningNext
  <2>1. UNCHANGED <<gen, signed, broadcastTimeout>> /\ c.by \in Signers
    BY <1>8
    DEF JoinSessionResume, ShareNoncesResume, SharePartialSignatureResume,
        FinalizeSessionResume, AbortSessionResume, CleanupResume, roundVars, timerVars,
        TypeOK, Calls
  <2>2. phase' = phase \/ \E ph : SetPhase(c.by, ph)
    BY <1>8
    DEF JoinSessionResume, ShareNoncesResume, SharePartialSignatureResume,
        FinalizeSessionResume, AbortSessionResume, CleanupResume
  <2>3. \A r \in Signers : r # c.by => phase'[r] = phase[r]
    BY <2>2 DEF SetPhase, TypeOK
  <2> QED
    BY <1>1, <2>1, <2>3
<1>9. CASE UNCHANGED vars
  BY <1>2, <1>9 DEF vars, roundVars, timerVars
<1>10. ASSUME NEW m \in net, ReceiveJoin(m) PROVE UNCHANGED Round!signingVars
  BY <1>2, <1>10 DEF ReceiveJoin, timerVars
<1> QED
  BY <1>3, <1>5, <1>6, <1>7, <1>8, <1>9, <1>10, SignsAView
  DEF Next, Api, Continue, CreateSession, JoinSession

\* The rounds implement SigningRound, for any number of signers and of session objects made
\* anew under one id, given a session manager that refuses a second nonce share of an
\* index: each step is one of the promise or leaves objects, signatures and who is
\* finished alone.
THEOREM SessionImplementsRound ==
    ASSUME KeepsFirst
    PROVE  Spec => ImplementsRound
<1>1. Init => NonceInv /\ CompleteInv /\ Provenance
  <2> SUFFICES ASSUME Init PROVE NonceInv /\ CompleteInv /\ Provenance
    OBVIOUS
  <2>1. NonceInv /\ CompleteInv
    BY DEF Init, NonceInv, CompleteInv
  <2>2. \A p, q \in Signers : nonces[p][q] = 0 /\ gen[q] = 0
    BY DEF Init, NoNonces
  <2>3. Provenance
    BY <2>2 DEF Init, Provenance
  <2> QED
    BY <2>1, <2>3
<1>2. Init => Round!SigningInit
  BY DEF Init, Round!SigningInit
<1>3. TypeOK /\ (NonceInv /\ CompleteInv /\ Provenance) /\ [Next]_vars
      => (NonceInv /\ CompleteInv /\ Provenance)'
  BY NonceStep, CompleteStep, ProvenanceStep
<1>4. TypeOK /\ (NonceInv /\ CompleteInv /\ Provenance) /\ [Next]_vars
      => [Round!SigningNext]_(Round!signingVars)
  BY <1>3, RoundStep
<1> QED
  BY <1>1, <1>2, <1>3, <1>4, TypeCorrect, PTL
  DEF Spec, ImplementsRound, Round!SigningSpec
=============================================================================
