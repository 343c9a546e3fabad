----------------------------- MODULE SigningRound -----------------------------
(***************************************************************************)
(* What the rounds of a MuSig2 session promise, whatever its messages,     *)
(* timers and calls do.  A signer starts afresh with a new object and a    *)
(* new secret nonce; with it, it signs one view of everybody's nonces, if  *)
(* it signs; and it takes the session for finished only when each signer   *)
(* has signed.  It may give up at any time.                                *)
(***************************************************************************)
EXTENDS Naturals

CONSTANTS
    Signers,
    Numbers  \* the numbers that objects may have

VARIABLES
    objects,     \* objects[p]: how many objects p has made; the last one is in use
    signatures,  \* partial signatures: by whom, of which object, over which nonces
    finished     \* who takes the session for finished

signingVars == <<objects, signatures, finished>>

SigningInit ==
    /\ objects = [p \in Signers |-> 0]
    /\ signatures = {}
    /\ finished = {}

-----------------------------------------------------------------------------
AllHaveSigned == \A q \in Signers : \E s \in signatures : s.by = q

\* A nonce that nobody signed another view with, and a nonce of each signer's objects.
MaySign(p, view) ==
    /\ \A s \in signatures : s.by = p /\ s.gen = objects[p] => s.view = view
    /\ \A q \in Signers : view[q] \in 1 .. objects[q]

StartAfresh(p) ==
    /\ objects' = [objects EXCEPT ![p] = @ + 1]
    /\ UNCHANGED <<signatures, finished>>

SignView(p, view) ==
    /\ objects[p] > 0
    /\ MaySign(p, view)
    /\ signatures' = signatures \cup {[by |-> p, gen |-> objects[p], view |-> view]}
    /\ UNCHANGED <<objects, finished>>

Finish(p) ==
    /\ AllHaveSigned
    /\ finished' = finished \cup {p}
    /\ UNCHANGED <<objects, signatures>>

GiveUp(p) ==
    /\ finished' = finished \ {p}
    /\ UNCHANGED <<objects, signatures>>

SigningNext ==
    \E p \in Signers :
        \/ StartAfresh(p) \/ Finish(p) \/ GiveUp(p)
        \/ \E view \in [Signers -> Numbers] : SignView(p, view)

SigningSpec == SigningInit /\ [][SigningNext]_signingVars
=============================================================================
