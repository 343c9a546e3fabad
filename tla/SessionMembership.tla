-------------------------- MODULE SessionMembership --------------------------
(***************************************************************************)
(* What joining a MuSig2 session promises: signers enter one by one, each  *)
(* under an index that is free, and the session is announced as ready only *)
(* when all of them but one have.  Nothing is promised of who is missing:  *)
(* the coordinator, unless a participant has its key.                      *)
(***************************************************************************)
EXTENDS Naturals

CONSTANT Signers  \* the indexes of the signers list

VARIABLES
    members,  \* the indexes that have a participant
    ready     \* how often the session was announced as ready

membershipVars == <<members, ready>>

MembershipInit == members = {} /\ ready = 0

AllButOne(ms) == \E i \in Signers : ms = Signers \ {i}

\* The last one to enter may be the one to announce.
Enter ==
    /\ \E i \in Signers \ members : members' = members \cup {i}
    /\ \/ ready' = ready
       \/ AllButOne(members') /\ ready' = ready + 1

Leave ==
    /\ \E i \in members : members' = members \ {i}
    /\ ready' = ready

Announce ==
    /\ AllButOne(members)
    /\ ready' = ready + 1
    /\ members' = members

MembershipNext == Enter \/ Leave \/ Announce

MembershipSpec == MembershipInit /\ [][MembershipNext]_membershipVars
=============================================================================
