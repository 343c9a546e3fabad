--------------------------- MODULE MuSig2Ingress ---------------------------
(***************************************************************************)
(* The way of a MuSig2 message from the stream of a peer to the event that *)
(* the coordinator listens to: _handleIncomingStream of P2PCoordinator     *)
(* (src/lib/coordinator.ts), handleMessage of MuSig2ProtocolHandler        *)
(* (src/lib/musig2/protocol.ts) and the checks of MuSig2SecurityValidator  *)
(* (src/lib/musig2/security.ts), which CoreSecurityManager asks about      *)
(* announcements too.                                                      *)
(*                                                                         *)
(* handleMessage awaits the validator, which decides at once: messages     *)
(* come out of that await in the order they went into it.  Two memories    *)
(* keep a copy of a message from being handled again; both are bounded.    *)
(* ReplayProtection models the second one with its clock and its sequence  *)
(* numbers; here the copies come while their timestamps are good.  The     *)
(* handler's own filter has no cleanup timer.                              *)
(***************************************************************************)
EXTENDS CoreSecurity, Sequences, SequencesExt

CONSTANTS
    Msgs,
    Sender,            \* Sender[m]: the peer whose stream brings m
    Defect,            \* Defect[m]: the first check that m fails, or "none"
    RequireSignatures,
    MaxInvalid,        \* maxInvalidMessagesPerPeer
    NodeLimit, NodeBatch,        \* 10000 and 1000: the memory of the node
    HandlerLimit, HandlerBatch,  \* maxSeenMessages and a tenth: that of the handler
    MaxHandling        \* bound: messages that await the validator

Defects == {"none", "oversized", "format", "large", "payload", "fields", "skew", "unsigned",
            "structure"}
Insecure == {"large", "payload", "fields", "skew"}

ASSUME IngressAssumption ==
    /\ Sender \in [Msgs -> RemotePeers]
    /\ Defect \in [Msgs -> Defects]
    /\ RequireSignatures \in BOOLEAN
    /\ MaxInvalid \in Nat \ {0}
    /\ NodeLimit \in Nat /\ HandlerLimit \in Nat
    /\ NodeBatch \in 1 .. NodeLimit /\ HandlerBatch \in 1 .. HandlerLimit
    /\ MaxHandling \in Nat \ {0}

VARIABLES
    nodeSeen,        \* seenMessages of the node, the oldest first
    handlerSeen,     \* seenMessages of the handler's ReplayProtection, likewise
    violations,      \* validationViolations
    blocked,         \* blockedPeers
    handling,        \* the messages that passed the validator, at the await
    emitted,         \* emitted[m]: events for m and its copies, up to two
    forgotByNode, forgotByHandler  \* history: good messages that made room for others

memoryVars == <<nodeSeen, handlerSeen, forgotByNode, forgotByHandler>>
validatorVars == <<violations, blocked>>
messageVars == <<memoryVars, validatorVars, handling, emitted>>
ingressVars == <<securityVars, messageVars>>

IngressTypeOK ==
    /\ SecurityTypeOK
    /\ nodeSeen \in Seq(Msgs) /\ Len(nodeSeen) <= NodeLimit
    /\ handlerSeen \in Seq(Msgs) /\ Len(handlerSeen) <= HandlerLimit
    /\ violations \in [RemotePeers -> 0 .. MaxInvalid]
    /\ blocked \subseteq RemotePeers
    /\ handling \in Seq(Msgs) /\ Len(handling) <= MaxHandling
    /\ emitted \in [Msgs -> 0 .. 2]
    /\ forgotByNode \subseteq Msgs /\ forgotByHandler \subseteq Msgs

IngressInit ==
    /\ SecurityInit
    /\ nodeSeen = <<>> /\ handlerSeen = <<>> /\ handling = <<>>
    /\ violations = [p \in RemotePeers |-> 0]
    /\ blocked = {}
    /\ emitted = [m \in Msgs |-> 0]
    /\ forgotByNode = {} /\ forgotByHandler = {}

-----------------------------------------------------------------------------
(***************************************************************************)
(* The two memories.                                                       *)
(***************************************************************************)
Without(seen, n) == SubSeq(seen, n + 1, Len(seen))

\* The history keeps only what may be handled at all.
SignatureIsMissing(m) == RequireSignatures /\ Defect[m] = "unsigned"
Good(ms) == {m \in ms : Defect[m] \in {"none", "unsigned"} /\ ~SignatureIsMissing(m)}

\* The node adds the hash and then removes a batch of the oldest.
RememberAtNode(m) ==
    LET all  == Append(nodeSeen, m)
        gone == IF Len(all) > NodeLimit THEN NodeBatch ELSE 0
    IN  /\ nodeSeen' = Without(all, gone)
        /\ forgotByNode' = forgotByNode \cup Good(ToSet(SubSeq(all, 1, gone)))

\* The handler makes room before it adds the id.
RememberAtHandler(m) ==
    LET gone == IF Len(handlerSeen) >= HandlerLimit THEN HandlerBatch ELSE 0
    IN  /\ handlerSeen' = Append(Without(handlerSeen, gone), m)
        /\ forgotByHandler' =
                forgotByHandler \cup Good(ToSet(SubSeq(handlerSeen, 1, gone)))

-----------------------------------------------------------------------------
(***************************************************************************)
(* MuSig2SecurityValidator.                                                *)
(***************************************************************************)
\* The count has no use above MaxInvalid, where the peer is blocked.
TrackValidationViolation(p) ==
    LET count == IF violations[p] = MaxInvalid THEN MaxInvalid ELSE violations[p] + 1 IN
    /\ violations' = [violations EXCEPT ![p] = count]
    /\ blocked' = IF count >= MaxInvalid THEN blocked \cup {p} ELSE blocked

\* validateMessage: a blocked peer is refused and not counted again.
ValidateMessageSecurity(m) ==
    \/ /\ Sender[m] \in blocked
       /\ UNCHANGED <<validatorVars, handling>>
    \/ /\ Sender[m] \notin blocked /\ Defect[m] \in Insecure
       /\ TrackValidationViolation(Sender[m])
       /\ UNCHANGED handling
    \/ /\ Sender[m] \notin blocked /\ Defect[m] \notin Insecure
       /\ handling' = Append(handling, m)
       /\ UNCHANGED validatorVars

UnblockPeer(p) ==
    /\ p \in blocked
    /\ blocked' = blocked \ {p}
    /\ violations' = [violations EXCEPT ![p] = 0]
    /\ UNCHANGED <<securityVars, memoryVars, handling, emitted>>

ClearViolations ==
    /\ blocked' = {}
    /\ violations' = [p \in RemotePeers |-> 0]
    /\ UNCHANGED <<securityVars, memoryVars, handling, emitted>>

-----------------------------------------------------------------------------
(***************************************************************************)
(* _handleIncomingStream, and handleMessage up to its await.               *)
(***************************************************************************)
\* An oversized message, or one that is read but has not the form of a message, costs its
\* sender a warning at the node.  What cannot be read as one at all throws there, is
\* dropped without a warning, and is none of Msgs.
RefuseAtNode(m) ==
    /\ Defect[m] \in {"oversized", "format"}
    /\ WarnPeer(Sender[m])
    /\ UNCHANGED <<cooling, trackerVars, announcing, messageVars>>

\* Mutant: the hash is remembered, and not looked up.
HandleIncomingStreamAgain(m) ==
    /\ Defect[m] \notin {"oversized", "format"}
    /\ Len(handling) < MaxHandling
    /\ \/ m \in ToSet(nodeSeen) /\ UNCHANGED <<nodeSeen, forgotByNode>>
       \/ m \notin ToSet(nodeSeen) /\ RememberAtNode(m)
    /\ ValidateMessageSecurity(m)
    /\ UNCHANGED <<securityVars, handlerSeen, forgotByHandler, emitted>>

HandleIncomingStream(m) ==
    /\ Defect[m] \notin {"oversized", "format"}
    /\ Len(handling) < MaxHandling
    /\ m \notin ToSet(nodeSeen)
    /\ RememberAtNode(m)
    /\ ValidateMessageSecurity(m)
    /\ UNCHANGED <<securityVars, handlerSeen, forgotByHandler, emitted>>

\* The rest of handleMessage: the signature, the replay filter, and the structure,
\* which is looked at when the id is remembered already.
HandleMessageResume ==
    /\ handling # <<>>
    /\ handling' = Tail(handling)
    /\ LET m == Head(handling) IN
       IF SignatureIsMissing(m) \/ m \in ToSet(handlerSeen)
       THEN UNCHANGED <<handlerSeen, forgotByHandler, emitted>>
       ELSE /\ RememberAtHandler(m)
            /\ emitted' = [emitted EXCEPT ![m] =
                               IF Defect[m] = "structure" \/ @ = 2 THEN @ ELSE @ + 1]
    /\ UNCHANGED <<securityVars, nodeSeen, forgotByNode, validatorVars>>

\* The calls of CoreSecurityManager; its validator refuses what a blocked peer announces.
AnnouncementStep ==
    /\ \/ \E p \in RemotePeers :
              \/ BanPeer(p) \/ UnbanPeer(p) \/ TempBanEnds(p) \/ IntervalEnds(p)
              \/ \E r \in Resources : CanAnnounceToDHT(p, r) \/ RemoveResource(p, r)
       \/ \E c \in announcing : MayAnnounce(c, c.peer \notin blocked) \/ AnnouncementChecked(c)
    /\ UNCHANGED messageVars

IngressNext ==
    \/ \E m \in Msgs : RefuseAtNode(m) \/ HandleIncomingStream(m)
    \/ HandleMessageResume
    \/ \E p \in RemotePeers : UnblockPeer(p)
    \/ ClearViolations
    \/ AnnouncementStep

IngressSpec == IngressInit /\ [][IngressNext]_ingressVars

-----------------------------------------------------------------------------
\* A peer is blocked exactly when it has made too many violations since it was last
\* unblocked: pardoning it gives it all its chances back.
BlockedIffTooMany == \A p \in RemotePeers : p \in blocked <=> violations[p] >= MaxInvalid

\* A message whose copies come again is handled again only when both memories have made
\* room: neither the order in which they fill nor the await between them lets one through.
HandledOnce ==
    \A m \in Msgs : emitted[m] > 1 => m \in forgotByNode /\ m \in forgotByHandler
=============================================================================
