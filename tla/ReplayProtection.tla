-------------------------- MODULE ReplayProtection --------------------------
(***************************************************************************)
(* The filter that lets a MuSig2 message through once                      *)
(* (src/lib/musig2/replay-protection.ts).                                  *)
(*                                                                         *)
(* A message is refused when its timestamp is too far from the clock of    *)
(* the receiver, when its id was seen, or when its sequence number is not  *)
(* above the last one of its stream (a signer in a session).  The ids are  *)
(* forgotten when they are old, and when there are too many of them.       *)
(*                                                                         *)
(* A copy of a message is the message: it has the same id, timestamp and   *)
(* sequence number.  The receiver's clock never goes back.                 *)
(***************************************************************************)
EXTENDS Integers, FiniteSets

CONSTANTS
    Ids,       \* the messages, named by their ids
    Stamp,     \* Stamp[m]: timestamp by the sender's clock, 0 if there is none
    Streams,   \* a signer in a session
    Stream,    \* Stream[m]: the stream of m
    Sequence,  \* Sequence[m]: its number in the stream, NoSequence if none
    MaxAge,    \* maxMessageAge
    MaxSeen,   \* maxSeenMessages
    ToRemove,  \* Math.ceil(maxSeenMessages * 0.1), in floating point
    MaxTime    \* bound: the clock stops there

NoSequence == -1

ASSUME ReplayAssumption ==
    /\ IsFiniteSet(Ids)
    /\ Stamp \in [Ids -> Nat]
    /\ Stream \in [Ids -> Streams]
    /\ Sequence \in [Ids -> Nat \cup {NoSequence}]
    /\ MaxAge \in Nat
    /\ MaxSeen \in Nat \ {0}
    /\ ToRemove \in 1 .. MaxSeen
    /\ MaxTime \in Nat

VARIABLES
    now,
    seenMessages,      \* the ids in the map
    seenAt,            \* seenAt[m]: their values there, 0 when m never was in it
    sessionSequences,  \* the last number of each stream
    accepted,          \* history: the messages that were let through
    dropped            \* history: ids that were in the map and removed too early

replayVars == <<now, seenMessages, seenAt, sessionSequences, accepted, dropped>>

ReplayTypeOK ==
    /\ now \in 0 .. MaxTime
    /\ seenMessages \subseteq Ids
    /\ seenAt \in [Ids -> 0 .. now]
    /\ sessionSequences \in [Streams -> Nat \cup {NoSequence}]
    /\ accepted \subseteq Ids
    /\ dropped \subseteq Ids

ReplayInit ==
    /\ now = 0
    /\ seenMessages = {}
    /\ seenAt = [m \in Ids |-> 0]
    /\ sessionSequences = [s \in Streams |-> NoSequence]
    /\ accepted = {}
    /\ dropped = {}

-----------------------------------------------------------------------------
Distance(a, b) == IF a <= b THEN b - a ELSE a - b

Fresh(m) == Stamp[m] # 0 => Distance(now, Stamp[m]) <= MaxAge

\* Mutant: the newest entries are removed.
OldestNewest(gone) ==
    \A m \in gone, k \in seenMessages \ gone : seenAt[m] >= seenAt[k]

\* Entries of the same time go in the order they came in, which is left open.
Oldest(gone) == \A m \in gone, k \in seenMessages \ gone : seenAt[m] <= seenAt[k]

\* The entries that recordMessageId removes before it adds one.
MakeRoom(gone) ==
    /\ gone \subseteq seenMessages
    /\ Oldest(gone)
    /\ Cardinality(gone) =
           IF Cardinality(seenMessages) >= MaxSeen THEN ToRemove ELSE 0

RecordMessageId(m) ==
    \E gone \in SUBSET seenMessages :
        /\ MakeRoom(gone)
        /\ seenMessages' = (seenMessages \ gone) \cup {m}
        /\ seenAt' = [seenAt EXCEPT ![m] = now]
        /\ dropped' = dropped \cup gone

InSequence(m) ==
    Sequence[m] = NoSequence \/ Sequence[m] > sessionSequences[Stream[m]]

\* validateMessage: the id is recorded before the sequence number is looked at, so
\* a message that comes out of order is refused for good.
ValidateMessage(m) ==
    /\ Fresh(m)
    /\ m \notin seenMessages
    /\ RecordMessageId(m)
    /\ \/ /\ InSequence(m)
          /\ accepted' = accepted \cup {m}
          /\ sessionSequences' = [sessionSequences EXCEPT ![Stream[m]] =
                                      IF Sequence[m] = NoSequence THEN @ ELSE Sequence[m]]
       \/ /\ ~InSequence(m)
          /\ UNCHANGED <<accepted, sessionSequences>>
    /\ UNCHANGED now

ClearSession(streams) ==
    /\ sessionSequences' = [s \in Streams |->
                                IF s \in streams THEN NoSequence ELSE sessionSequences[s]]
    /\ UNCHANGED <<now, seenMessages, seenAt, accepted, dropped>>

\* Mutant: entries are kept for the maximal age.
CleanupTooSoon ==
    /\ seenMessages' = {m \in seenMessages : now - seenAt[m] <= MaxAge}
    /\ UNCHANGED <<now, seenAt, sessionSequences, accepted, dropped>>

\* The timer, whenever it comes: entries are kept for twice the maximal age.
Cleanup ==
    /\ seenMessages' = {m \in seenMessages : now - seenAt[m] <= 2 * MaxAge}
    /\ UNCHANGED <<now, seenAt, sessionSequences, accepted, dropped>>

Clear ==
    /\ seenMessages' = {}
    /\ sessionSequences' = [s \in Streams |-> NoSequence]
    /\ dropped' = dropped \cup seenMessages
    /\ UNCHANGED <<now, seenAt, accepted>>

Tick ==
    /\ now < MaxTime
    /\ now' = now + 1
    /\ UNCHANGED <<seenMessages, seenAt, sessionSequences, accepted, dropped>>

ReplayNext ==
    \/ \E m \in Ids : ValidateMessage(m)
    \/ \E streams \in SUBSET Streams : ClearSession(streams)
    \/ Cleanup \/ Clear \/ Tick

ReplaySpec == ReplayInit /\ [][ReplayNext]_replayVars

-----------------------------------------------------------------------------
\* A message with a timestamp is let through once: the timer forgets its id only
\* when the timestamp is too old as well, however far the sender's clock is ahead.
\* Only an id that was removed to make room, or by clear(), may come again.
AcceptedOnce ==
    \A m \in accepted :
        \/ m \in seenMessages \cup dropped
        \/ Stamp[m] = 0
        \/ ~Fresh(m)

\* The map never has more than maxSeenMessages entries.
SeenIsBounded == Cardinality(seenMessages) <= MaxSeen

\* An id that makes room for another one is followed by at least as many newer ones
\* as the map keeps.
RoomIsMadeByTheOldest ==
    [][\A m \in seenMessages \ seenMessages' :
          dropped' # dropped /\ seenMessages' # {} =>
              Cardinality({k \in seenMessages' : seenAt'[k] >= seenAt[m]})
                  > MaxSeen - ToRemove]_replayVars
=============================================================================
