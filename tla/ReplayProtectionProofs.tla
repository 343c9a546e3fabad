----------------------- MODULE ReplayProtectionProofs -----------------------
(***************************************************************************)
(* Theorems about the replay filter, for any messages, clocks, ages and    *)
(* sizes.                                                                  *)
(***************************************************************************)
EXTENDS ReplayProtection, FiniteSetTheorems, TLAPS

\* What recordMessageId leaves in the map.
LEMMA Recorded ==
    ASSUME ReplayTypeOK, NEW m \in Ids, RecordMessageId(m)
    PROVE  /\ seenMessages' \subseteq seenMessages \cup {m}
           /\ m \in seenMessages'
           /\ seenMessages \ seenMessages' \subseteq dropped'
           /\ dropped \subseteq dropped' /\ dropped' \subseteq dropped \cup seenMessages
           /\ seenAt' = [seenAt EXCEPT ![m] = now]
  BY DEF RecordMessageId, MakeRoom

LEMMA ReplayTypeStep == ReplayTypeOK /\ [ReplayNext]_replayVars => ReplayTypeOK'
<1> SUFFICES ASSUME ReplayTypeOK, [ReplayNext]_replayVars PROVE ReplayTypeOK'
  OBVIOUS
<1> USE ReplayAssumption
<1>1. ASSUME NEW m \in Ids, ValidateMessage(m) PROVE ReplayTypeOK'
  <2>1. RecordMessageId(m) /\ now' = now
    BY <1>1 DEF ValidateMessage
  <2>2. seenMessages' \subseteq Ids /\ dropped' \subseteq Ids /\ seenAt' \in [Ids -> 0 .. now]
    BY <2>1, Recorded DEF ReplayTypeOK
  <2>3. /\ accepted' \subseteq Ids
        /\ sessionSequences' \in [Streams -> Nat \cup {NoSequence}]
    BY <1>1 DEF ValidateMessage, ReplayTypeOK
  <2> QED
    BY <2>1, <2>2, <2>3 DEF ReplayTypeOK
<1>2. ASSUME NEW streams \in SUBSET Streams, ClearSession(streams) PROVE ReplayTypeOK'
  BY <1>2 DEF ClearSession, ReplayTypeOK
<1>3. ASSUME Cleanup PROVE ReplayTypeOK'
  BY <1>3 DEF Cleanup, ReplayTypeOK
<1>4. ASSUME Clear PROVE ReplayTypeOK'
  BY <1>4 DEF Clear, ReplayTypeOK
<1>5. ASSUME Tick PROVE ReplayTypeOK'
  <2>1. seenAt' \in [Ids -> 0 .. now']
    BY <1>5 DEF Tick, ReplayTypeOK
  <2> QED
    BY <1>5, <2>1 DEF Tick, ReplayTypeOK
<1>6. ASSUME UNCHANGED replayVars PROVE ReplayTypeOK'
  BY <1>6 DEF replayVars, ReplayTypeOK
<1> QED
  BY <1>1, <1>2, <1>3, <1>4, <1>5, <1>6 DEF ReplayNext

\* The filter's state is of its type in every state.
THEOREM ReplayTypeCorrect == ReplaySpec => []ReplayTypeOK
<1>1. ReplayInit => ReplayTypeOK
  BY ReplayAssumption DEF ReplayInit, ReplayTypeOK
<1> QED
  BY <1>1, ReplayTypeStep, PTL DEF ReplaySpec

\* Why an id may be forgotten: a timestamp is at most maxMessageAge ahead of the time
\* its id was recorded at, so after twice that age the message is refused for its
\* timestamp.
NotAhead == \A m \in seenMessages : Stamp[m] <= seenAt[m] + MaxAge
Remembered ==
    \A m \in accepted :
        \/ m \in seenMessages \cup dropped
        \/ Stamp[m] = 0
        \/ Stamp[m] + MaxAge < now
ReplayInv == NotAhead /\ Remembered

LEMMA ReplayStep ==
    ReplayTypeOK /\ ReplayInv /\ [ReplayNext]_replayVars => ReplayInv'
<1> SUFFICES ASSUME ReplayTypeOK, ReplayInv, [ReplayNext]_replayVars PROVE ReplayInv'
  OBVIOUS
<1> USE ReplayAssumption DEF ReplayInv, NotAhead, Remembered
<1>1. ASSUME NEW m \in Ids, ValidateMessage(m) PROVE ReplayInv'
  <2>1. RecordMessageId(m) /\ now' = now /\ Fresh(m)
    BY <1>1 DEF ValidateMessage
  <2>2. Stamp[m] <= now + MaxAge
    BY <2>1 DEF Fresh, Distance, ReplayTypeOK
  <2>3. NotAhead'
    BY <2>1, <2>2, Recorded DEF ReplayTypeOK
  <2>4. accepted' \subseteq accepted \cup {m}
    BY <1>1 DEF ValidateMessage
  <2>5. Remembered'
    BY <2>1, <2>4, Recorded
  <2> QED
    BY <2>3, <2>5
<1>2. ASSUME NEW streams \in SUBSET Streams, ClearSession(streams) PROVE ReplayInv'
  BY <1>2 DEF ClearSession
<1>3. ASSUME Cleanup PROVE ReplayInv'
  <2>1. NotAhead'
    BY <1>3 DEF Cleanup
  <2>2. ASSUME NEW m \in seenMessages \ seenMessages' PROVE Stamp[m] + MaxAge < now
    <3>1. now - seenAt[m] > 2 * MaxAge
      BY <1>3, <2>2 DEF Cleanup, ReplayTypeOK
    <3>2. Stamp[m] \in Nat /\ seenAt[m] \in Nat /\ now \in Nat /\ MaxAge \in Nat
      BY <2>2 DEF ReplayTypeOK
    <3> QED
      BY <2>2, <3>1, <3>2
  <2>3. Remembered'
    BY <1>3, <2>2 DEF Cleanup
  <2> QED
    BY <2>1, <2>3
<1>4. ASSUME Clear PROVE ReplayInv'
  BY <1>4 DEF Clear
<1>5. ASSUME Tick PROVE ReplayInv'
  BY <1>5 DEF Tick, ReplayTypeOK
<1>6. ASSUME UNCHANGED replayVars PROVE ReplayInv'
  BY <1>6 DEF replayVars
<1> QED
  BY <1>1, <1>2, <1>3, <1>4, <1>5, <1>6 DEF ReplayNext

\* A message with a timestamp is let through once, unless its id was removed to make
\* room or by clear(): for any skew of the sender's clock and any schedule of the
\* cleanup timer.
THEOREM ReplaySafety == ReplaySpec => []AcceptedOnce
<1>1. ReplayInit => ReplayInv
  BY DEF ReplayInit, ReplayInv, NotAhead, Remembered
<1>2. ReplayTypeOK /\ ReplayInv => AcceptedOnce
  BY ReplayAssumption
  DEF ReplayInv, Remembered, AcceptedOnce, Fresh, Distance, ReplayTypeOK
<1> QED
  BY <1>1, <1>2, ReplayStep, ReplayTypeCorrect, PTL DEF ReplaySpec

\* The map never has more than maxSeenMessages entries, for any size of it.
THEOREM SeenBound == ReplaySpec => []SeenIsBounded
<1>1. ReplayInit => SeenIsBounded
  BY ReplayAssumption, FS_EmptySet DEF ReplayInit, SeenIsBounded
<1>2. ReplayTypeOK /\ SeenIsBounded /\ [ReplayNext]_replayVars => SeenIsBounded'
  <2> SUFFICES ASSUME ReplayTypeOK, SeenIsBounded, [ReplayNext]_replayVars
               PROVE  SeenIsBounded'
    OBVIOUS
  <2>1. IsFiniteSet(seenMessages)
    BY ReplayAssumption, FS_Subset DEF ReplayTypeOK
  <2>2. ASSUME seenMessages' \subseteq seenMessages PROVE SeenIsBounded'
    <3>1. /\ Cardinality(seenMessages') <= Cardinality(seenMessages)
          /\ Cardinality(seenMessages') \in Nat /\ Cardinality(seenMessages) \in Nat
      BY <2>1, <2>2, FS_Subset, FS_CardinalityType
    <3> QED
      BY <3>1, ReplayAssumption DEF SeenIsBounded
  <2>3. ASSUME NEW m \in Ids, RecordMessageId(m) PROVE SeenIsBounded'
    <3>1. PICK gone \in SUBSET seenMessages :
              MakeRoom(gone) /\ seenMessages' = (seenMessages \ gone) \cup {m}
      BY <2>3 DEF RecordMessageId
    <3>2. /\ IsFiniteSet(gone) /\ IsFiniteSet(seenMessages \ gone)
          /\ Cardinality(seenMessages \ gone) = Cardinality(seenMessages) - Cardinality(gone)
      <4>1. seenMessages \cap gone = gone
        OBVIOUS
      <4>2. IsFiniteSet(gone)
        BY <2>1, <3>1, FS_Subset
      <4>3. seenMessages \ gone \in SUBSET seenMessages
        OBVIOUS
      <4>4. IsFiniteSet(seenMessages \ gone)
        BY <2>1, <4>3, FS_Subset
      <4>5. Cardinality(seenMessages \ gone)
                = Cardinality(seenMessages) - Cardinality(seenMessages \cap gone)
        BY <2>1, <4>2, FS_Difference
      <4> QED
        BY <4>1, <4>2, <4>4, <4>5
    <3>3. Cardinality(seenMessages') <= Cardinality(seenMessages \ gone) + 1
      <4> DEFINE kept == seenMessages \ gone
      <4>1. IsFiniteSet(kept) /\ Cardinality(kept) \in Nat
        BY <3>2, FS_CardinalityType
      <4> HIDE DEF kept
      <4>2. m \in kept => Cardinality(kept \cup {m}) = Cardinality(kept)
        BY <4>1, FS_AddElement
      <4>3. m \notin kept => Cardinality(kept \cup {m}) = Cardinality(kept) + 1
        BY <4>1, FS_AddElement
      <4>4. Cardinality(kept \cup {m}) <= Cardinality(kept) + 1
        BY <4>1, <4>2, <4>3
      <4> QED
        BY <3>1, <4>4 DEF kept
    <3>4. /\ Cardinality(seenMessages') \in Nat /\ Cardinality(seenMessages) \in Nat
          /\ Cardinality(gone) \in Nat
      BY <2>1, <3>1, <3>2, FS_AddElement, FS_CardinalityType
    <3>5. Cardinality(seenMessages) - Cardinality(gone) <= MaxSeen - 1
      BY <3>1, <3>4, ReplayAssumption DEF SeenIsBounded, MakeRoom
    <3> HIDE DEF SeenIsBounded
    <3>6. Cardinality(seenMessages') <= MaxSeen
      BY <3>2, <3>3, <3>4, <3>5, ReplayAssumption
    <3> QED
      BY <3>6 DEF SeenIsBounded
  <2> QED
    BY <2>2, <2>3
    DEF ReplayNext, ValidateMessage, ClearSession, Cleanup, Clear, Tick, replayVars
<1> QED
  BY <1>1, <1>2, ReplayTypeCorrect, PTL DEF ReplaySpec

\* A step that gives up ids and keeps others makes room: after it the map holds the entries
\* that were not given up and one that is new, and none of them is older than one given up.
THEOREM OldestMakeRoom == ReplaySpec => RoomIsMadeByTheOldest
<1>1. ASSUME ReplayTypeOK, [ReplayNext]_replayVars, NEW old \in seenMessages \ seenMessages',
             dropped' # dropped, seenMessages' # {}
      PROVE  Cardinality({k \in seenMessages' : seenAt'[k] >= seenAt[old]}) > MaxSeen - ToRemove
  <2>1. PICK m \in Ids : m \notin seenMessages /\ RecordMessageId(m)
    BY <1>1 DEF ReplayNext, ValidateMessage, ClearSession, Cleanup, Clear, Tick, replayVars
  <2>2. PICK gone \in SUBSET seenMessages :
            /\ MakeRoom(gone)
            /\ seenMessages' = (seenMessages \ gone) \cup {m}
            /\ seenAt' = [seenAt EXCEPT ![m] = now]
    BY <2>1 DEF RecordMessageId
  <2>3. /\ old \in gone /\ seenMessages \subseteq Ids
        /\ seenAt \in [Ids -> 0 .. now] /\ now \in Nat
    BY <1>1, <2>2, ReplayAssumption DEF ReplayTypeOK
  <2>4. ASSUME NEW k \in seenMessages' PROVE seenAt'[k] >= seenAt[old]
    <3>1. seenAt[old] \in 0 .. now
      BY <2>3
    <3>2. CASE k = m
      BY <2>2, <2>3, <3>1, <3>2
    <3>3. CASE k # m
      <4>1. seenAt'[k] = seenAt[k] /\ seenAt[k] \in 0 .. now /\ seenAt[old] <= seenAt[k]
        BY <2>2, <2>3, <3>3 DEF MakeRoom, Oldest
      <4>. QED
        BY <3>1, <4>1, <2>3
    <3>. QED
      BY <3>2, <3>3
  <2>5. {k \in seenMessages' : seenAt'[k] >= seenAt[old]} = seenMessages'
    BY <2>4
  <2>6. /\ IsFiniteSet(seenMessages) /\ IsFiniteSet(gone) /\ IsFiniteSet(seenMessages \ gone)
        /\ Cardinality(seenMessages \ gone) = Cardinality(seenMessages) - Cardinality(gone)
        /\ Cardinality(seenMessages) \in Nat /\ Cardinality(gone) \in Nat
    <3>1. IsFiniteSet(seenMessages) /\ seenMessages \cap gone = gone
      BY <2>2, <2>3, ReplayAssumption, FS_Subset
    <3>. QED
      BY <2>2, <3>1, FS_Difference, FS_Subset, FS_CardinalityType
  <2>7. Cardinality(seenMessages') = Cardinality(seenMessages \ gone) + 1
    BY <2>1, <2>2, <2>6, FS_AddElement
  <2>8. Cardinality(gone) # 0
    BY <2>3, <2>6, FS_EmptySet
  <2>9. Cardinality(seenMessages) >= MaxSeen /\ Cardinality(gone) = ToRemove
    BY <2>2, <2>8 DEF MakeRoom
  <2>. QED
    BY <2>5, <2>6, <2>7, <2>9, ReplayAssumption
<1>2. ReplayTypeOK /\ [ReplayNext]_replayVars =>
          [\A m \in seenMessages \ seenMessages' :
               dropped' # dropped /\ seenMessages' # {} =>
                   Cardinality({k \in seenMessages' : seenAt'[k] >= seenAt[m]})
                       > MaxSeen - ToRemove]_replayVars
  BY <1>1
<1>. QED
  BY <1>2, ReplayTypeCorrect, PTL DEF ReplaySpec, RoomIsMadeByTheOldest
=============================================================================
