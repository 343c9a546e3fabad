-------------------------- MODULE DiscoveryProofs --------------------------
(***************************************************************************)
(* Proofs about discovery, for any advertisements, calls, subscriptions,   *)
(* copies, clocks and limits: the security validator, the advertiser by    *)
(* itself and under the extension of MuSig2, the discoverer with the       *)
(* searches on top of it, and a node that advertises together with one     *)
(* that discovers.                                                         *)
(*                                                                         *)
(* The validator comes first.  Its inductive invariant adds what the       *)
(* memory still owes to what has passed: the time of the last version seen *)
(* is no earlier, or what has passed is older than what is kept, and so    *)
(* too old to pass again.                                                  *)
(***************************************************************************)
EXTENDS Discovery, DiscoverySecurity, FiniteSetTheorems, SequenceTheorems,
        WellFoundedInduction, TLAPS

\* What has passed is covered by what is remembered, or is older than what is kept.
PassedIsCovered ==
    \A k \in AdKeys : \A i \in DOMAIN passed[k] :
        passed[k][i] <= seenAdvertisements[k] \/ passed[k][i] + KeepFor < clock

ValidatorIInv == ValidatorTypeOK /\ PassedIsCovered /\ OnlyNewerPasses

-----------------------------------------------------------------------------
\* A copy is of one of the keys, and its time of creation is a positive number.
LEMMA CopyType ==
    ASSUME NEW c \in Copies
    PROVE  /\ KeyOfCopy(c) \in AdKeys
           /\ Copy[c].peer \in AdPeers
           /\ Copy[c].createdAt \in Nat \ {0}
  BY ValidatorAssumption DEF KeyOfCopy, AdKeys

\* The bounds are numbers.
LEMMA BoundsType ==
    /\ MaxAdAge \in Nat /\ KeepFor \in Nat /\ MaxAdAge <= KeepFor
    /\ Weights \subseteq Nat /\ OperationLimit \in Nat /\ MaxClock \in Nat \ {0}
  BY ValidatorAssumption

\* The scores stay between 0 and 100.
LEMMA ScoreType ==
    ASSUME NEW n \in 0 .. 100, NEW by \in Nat
    PROVE  Raised(n + by) \in 0 .. 100 /\ Lowered(n, by) \in 0 .. 100
  BY DEF Raised, Lowered

-----------------------------------------------------------------------------
LEMMA ValidatorTypeInit == ValidatorInit => ValidatorTypeOK
<1> SUFFICES ASSUME ValidatorInit PROVE ValidatorTypeOK
  OBVIOUS
<1>1. passed \in [AdKeys -> Seq(Nat \ {0})]
  BY DEF ValidatorInit
<1>2. score \in [AdPeers -> 0 .. 100]
  BY DEF ValidatorInit, NewScore
<1>3. metAt \in [AdPeers -> 0 .. MaxClock] /\ clock \in 1 .. MaxClock
  BY BoundsType DEF ValidatorInit
<1>4. counts \in [AdPeers -> 0 .. OperationLimit]
  BY BoundsType DEF ValidatorInit
<1>5. seenAdvertisements \in [AdKeys -> Nat] /\ monitoring \in BOOLEAN
  BY DEF ValidatorInit
<1>. QED
  BY <1>1, <1>2, <1>3, <1>4, <1>5 DEF ValidatorTypeOK

LEMMA ValidatorTypeStep ==
    ValidatorTypeOK /\ [ValidatorNext]_securityCheckVars => ValidatorTypeOK'
<1> SUFFICES ASSUME ValidatorTypeOK, [ValidatorNext]_securityCheckVars
             PROVE  ValidatorTypeOK'
  OBVIOUS
<1> USE BoundsType DEF ValidatorTypeOK
<1>1. ASSUME NEW c \in Copies, ValidateAdvertisement(c) PROVE ValidatorTypeOK'
  <2>1. metAt' \in [AdPeers -> 0 .. MaxClock]
    <3>1. clock \in 0 .. MaxClock
      OBVIOUS
    <3>. QED
      BY <1>1, <3>1 DEF ValidateAdvertisement, GetReputation
  <2>2. seenAdvertisements' \in [AdKeys -> Nat]
    BY <1>1, CopyType DEF ValidateAdvertisement
  <2>3. passed' \in [AdKeys -> Seq(Nat \ {0})]
    <3>1. CASE UNCHANGED passed
      BY <3>1
    <3>2. CASE passed' = [passed EXCEPT ![KeyOfCopy(c)] = Append(@, Copy[c].createdAt)]
      <4>1. Append(passed[KeyOfCopy(c)], Copy[c].createdAt) \in Seq(Nat \ {0})
        BY CopyType, AppendProperties
      <4>. QED
        BY <3>2, <4>1
    <3>. QED
      BY <1>1, <3>1, <3>2 DEF ValidateAdvertisement
  <2>. QED
    BY <1>1, <2>1, <2>2, <2>3 DEF ValidateAdvertisement
<1>2. ASSUME NEW p \in AdPeers, CheckRateLimit(p) \/ OperationWindowEnds(p)
      PROVE  ValidatorTypeOK'
  <2>1. counts' \in [AdPeers -> 0 .. OperationLimit]
    <3>1. CASE CheckRateLimit(p)
      <4>1. counts[p] + 1 \in 0 .. OperationLimit /\ counts' = [counts EXCEPT ![p] = counts[p] + 1]
        BY <3>1 DEF CheckRateLimit
      <4>. QED
        BY <4>1
    <3>2. CASE OperationWindowEnds(p)
      <4>1. 0 \in 0 .. OperationLimit /\ counts' = [counts EXCEPT ![p] = 0]
        BY <3>2 DEF OperationWindowEnds
      <4>. QED
        BY <4>1
    <3>. QED
      BY <1>2, <3>1, <3>2
  <2>. QED
    BY <1>2, <2>1 DEF CheckRateLimit, OperationWindowEnds
<1>3. ASSUME NEW p \in AdPeers, NEW success \in BOOLEAN, NEW weight \in Weights,
             UpdateReputation(p, success, weight)
      PROVE  ValidatorTypeOK'
  <2>1. /\ Raised(score[p] + 2 * weight) \in 0 .. 100
        /\ Lowered(score[p], 5 * weight) \in 0 .. 100
    <3>1. score[p] \in 0 .. 100 /\ 2 * weight \in Nat /\ 5 * weight \in Nat
      OBVIOUS
    <3>. QED
      BY <3>1, ScoreType
  <2>2. score' \in [AdPeers -> 0 .. 100]
    BY <1>3, <2>1 DEF UpdateReputation
  <2>3. metAt' \in [AdPeers -> 0 .. MaxClock] /\ UNCHANGED <<clock, monitoring, seenAdvertisements, counts, passed>>
    <3>1. clock \in 0 .. MaxClock
      OBVIOUS
    <3>2. metAt' = [metAt EXCEPT ![p] = clock]
      BY <1>3 DEF UpdateReputation
    <3>. QED
      BY <1>3, <3>1, <3>2 DEF UpdateReputation
  <2>. QED
    BY <2>2, <2>3
<1>4. CASE StartMonitoring \/ StopMonitoring
  <2>1. monitoring' \in BOOLEAN /\ UNCHANGED <<clock, validatorMemory, passed>>
    BY <1>4 DEF StartMonitoring, StopMonitoring
  <2>. QED
    BY <2>1 DEF validatorMemory
<1>5. CASE CleanupValidator
  BY <1>5 DEF CleanupValidator, CleanupSeen, NewScore
<1>6. CASE ValidatorTick
  BY <1>6 DEF ValidatorTick, validatorMemory
<1>7. CASE UNCHANGED securityCheckVars
  BY <1>7 DEF securityCheckVars, validatorMemory
<1>. QED
  BY <1>1, <1>2, <1>3, <1>4, <1>5, <1>6, <1>7 DEF ValidatorNext

-----------------------------------------------------------------------------
LEMMA ValidatorIInvInit == ValidatorInit => ValidatorIInv
  BY ValidatorTypeInit DEF ValidatorInit, ValidatorIInv, PassedIsCovered, OnlyNewerPasses

\* What is no replay is newer than whatever of its key may not be too old.
LEMMA NoReplayIsNewer ==
    ASSUME ValidatorTypeOK, PassedIsCovered,
           NEW c \in Copies, ~CheckReplay(c),
           NEW i \in DOMAIN passed[KeyOfCopy(c)]
    PROVE  \/ passed[KeyOfCopy(c)][i] < Copy[c].createdAt
           \/ passed[KeyOfCopy(c)][i] + KeepFor < clock
<1> DEFINE k == KeyOfCopy(c)
<1>1. passed[k][i] \in Nat \ {0} /\ seenAdvertisements[k] \in Nat
  BY CopyType DEF ValidatorTypeOK
<1>2. passed[k][i] <= seenAdvertisements[k] \/ passed[k][i] + KeepFor < clock
  BY CopyType DEF PassedIsCovered
<1>3. seenAdvertisements[k] = 0 \/ seenAdvertisements[k] < Copy[c].createdAt
  BY <1>1, CopyType DEF CheckReplay
<1>. QED
  BY <1>1, <1>2, <1>3, CopyType

\* What passes is newer than all of its key that has passed.
LEMMA PassesIsNewest ==
    ASSUME ValidatorTypeOK, PassedIsCovered,
           NEW c \in Copies, ~CheckReplay(c), IsFresh(c),
           NEW i \in DOMAIN passed[KeyOfCopy(c)]
    PROVE  passed[KeyOfCopy(c)][i] < Copy[c].createdAt
<1> DEFINE k == KeyOfCopy(c)
<1>1. passed[k][i] \in Nat /\ clock \in Nat /\ KeepFor \in Nat /\ MaxAdAge \in Nat
  BY CopyType, BoundsType DEF ValidatorTypeOK
<1>2. passed[k][i] < Copy[c].createdAt \/ passed[k][i] + KeepFor < clock
  BY NoReplayIsNewer
<1>3. clock <= Copy[c].createdAt + MaxAdAge /\ MaxAdAge <= KeepFor
  BY BoundsType DEF IsFresh
<1>. QED
  BY <1>1, <1>2, <1>3, CopyType

LEMMA ValidatorIInvStep ==
    ValidatorIInv /\ [ValidatorNext]_securityCheckVars => ValidatorIInv'
<1> SUFFICES ASSUME ValidatorIInv, [ValidatorNext]_securityCheckVars
             PROVE  (PassedIsCovered /\ OnlyNewerPasses)'
  BY ValidatorTypeStep DEF ValidatorIInv
<1>0. ValidatorTypeOK /\ PassedIsCovered /\ OnlyNewerPasses
  BY DEF ValidatorIInv
<1>1. ASSUME NEW c \in Copies, ValidateAdvertisement(c)
      PROVE  (PassedIsCovered /\ OnlyNewerPasses)'
  <2> DEFINE k == KeyOfCopy(c)
             new == Copy[c].createdAt
  <2>0. k \in AdKeys /\ new \in Nat \ {0} /\ clock' = clock
    BY <1>1, CopyType DEF ValidateAdvertisement
  <2>1. CASE UNCHANGED <<seenAdvertisements, passed>>
    BY <1>0, <2>0, <2>1 DEF PassedIsCovered, OnlyNewerPasses
  <2>2. CASE /\ ~CheckReplay(c)
             /\ seenAdvertisements' = [seenAdvertisements EXCEPT ![k] = new]
             /\ UNCHANGED passed
    <3>1. seenAdvertisements'[k] = new /\ \A j \in AdKeys : j # k => seenAdvertisements'[j] = seenAdvertisements[j]
      BY <1>0, <2>0, <2>2 DEF ValidatorTypeOK
    <3>2. ASSUME NEW i \in DOMAIN passed[k]
          PROVE  passed[k][i] <= new \/ passed[k][i] + KeepFor < clock
      <4>1. passed[k][i] \in Nat
        BY <1>0, <2>0 DEF ValidatorTypeOK
      <4>. QED
        BY <1>0, <2>0, <2>2, <4>1, NoReplayIsNewer
    <3>3. PassedIsCovered'
      BY <1>0, <2>0, <2>2, <3>1, <3>2 DEF PassedIsCovered
    <3>. QED
      BY <1>0, <2>2, <3>3 DEF OnlyNewerPasses
  <2>3. CASE /\ ~CheckReplay(c) /\ IsAcceptable(c)
             /\ seenAdvertisements' = [seenAdvertisements EXCEPT ![k] = new]
             /\ passed' = [passed EXCEPT ![k] = Append(@, new)]
    <3>1. /\ seenAdvertisements'[k] = new
          /\ \A j \in AdKeys : j # k => seenAdvertisements'[j] = seenAdvertisements[j] /\ passed'[j] = passed[j]
      BY <1>0, <2>0, <2>3 DEF ValidatorTypeOK
    <3>2. passed[k] \in Seq(Nat \ {0}) /\ passed'[k] = Append(passed[k], new)
      BY <1>0, <2>0, <2>3 DEF ValidatorTypeOK
    <3>3. \A i \in DOMAIN passed[k] : passed[k][i] < new
      BY <1>0, <2>3, PassesIsNewest DEF IsAcceptable
    <3>4. /\ DOMAIN passed'[k] = 1 .. Len(passed[k]) + 1
          /\ DOMAIN passed[k] = 1 .. Len(passed[k]) /\ Len(passed[k]) \in Nat
          /\ passed'[k][Len(passed[k]) + 1] = new
          /\ \A i \in DOMAIN passed[k] : passed'[k][i] = passed[k][i] /\ passed[k][i] \in Nat
      BY <2>0, <3>2, AppendProperties
    <3>5. ASSUME NEW i \in DOMAIN passed'[k] PROVE passed'[k][i] <= new
      <4>1. CASE i \in DOMAIN passed[k]
        BY <2>0, <3>3, <3>4, <4>1
      <4>2. CASE i = Len(passed[k]) + 1
        BY <2>0, <3>4, <4>2
      <4>3. i \in DOMAIN passed[k] \/ i = Len(passed[k]) + 1
        <5> DEFINE n == Len(passed[k])
        <5>1. i \in 1 .. n + 1 /\ n \in Nat /\ DOMAIN passed[k] = 1 .. n
          BY <3>4
        <5> HIDE DEF n
        <5>. QED
          BY <5>1 DEF n
      <4>. QED
        BY <4>1, <4>2, <4>3
    <3>6. PassedIsCovered'
      BY <1>0, <2>0, <3>1, <3>5 DEF PassedIsCovered
    <3>7. ASSUME NEW i \in DOMAIN passed'[k], NEW j \in DOMAIN passed'[k], i < j
          PROVE  passed'[k][i] < passed'[k][j]
      <4>1. i \in DOMAIN passed[k]
        BY <3>4, <3>7
      <4>2. CASE j = Len(passed[k]) + 1
        BY <3>3, <3>4, <4>1, <4>2
      <4>3. CASE j \in DOMAIN passed[k]
        BY <1>0, <2>0, <3>4, <3>7, <4>1, <4>3 DEF OnlyNewerPasses
      <4>. QED
        BY <3>4, <4>2, <4>3
    <3>8. OnlyNewerPasses'
      BY <1>0, <3>1, <3>7 DEF OnlyNewerPasses
    <3>. QED
      BY <3>6, <3>8
  <2>. QED
    BY <1>1, <2>1, <2>2, <2>3 DEF ValidateAdvertisement
<1>2. ASSUME UNCHANGED <<clock, seenAdvertisements, passed>>
      PROVE  (PassedIsCovered /\ OnlyNewerPasses)'
  BY <1>0, <1>2 DEF PassedIsCovered, OnlyNewerPasses
<1>3. CASE CleanupValidator
  <2>1. ASSUME NEW k \in AdKeys, NEW i \in DOMAIN passed[k]
        PROVE  passed[k][i] <= seenAdvertisements'[k] \/ passed[k][i] + KeepFor < clock
    <3>1. passed[k][i] \in Nat /\ seenAdvertisements[k] \in Nat /\ clock \in Nat /\ KeepFor \in Nat
      BY <1>0, BoundsType DEF ValidatorTypeOK
    <3>2. passed[k][i] <= seenAdvertisements[k] \/ passed[k][i] + KeepFor < clock
      BY <1>0 DEF PassedIsCovered
    <3>3. seenAdvertisements'[k] = seenAdvertisements[k] \/ clock > seenAdvertisements[k] + KeepFor
      BY <1>3 DEF CleanupValidator, CleanupSeen, IsOld
    <3>. QED
      BY <3>1, <3>2, <3>3
  <2>2. UNCHANGED <<clock, passed>>
    BY <1>3 DEF CleanupValidator
  <2>. QED
    BY <1>0, <2>1, <2>2 DEF PassedIsCovered, OnlyNewerPasses
<1>4. CASE ValidatorTick
  <2>1. clock' = clock + 1 /\ UNCHANGED <<seenAdvertisements, passed>>
    BY <1>4 DEF ValidatorTick, validatorMemory
  <2>2. ASSUME NEW k \in AdKeys, NEW i \in DOMAIN passed[k]
        PROVE  passed[k][i] <= seenAdvertisements[k] \/ passed[k][i] + KeepFor < clock + 1
    <3>1. passed[k][i] \in Nat /\ clock \in Nat /\ KeepFor \in Nat
      BY <1>0, BoundsType DEF ValidatorTypeOK
    <3>. QED
      BY <1>0, <3>1 DEF PassedIsCovered
  <2>. QED
    BY <1>0, <2>1, <2>2 DEF PassedIsCovered, OnlyNewerPasses
<1>5. CASE StartMonitoring \/ StopMonitoring \/ UNCHANGED securityCheckVars
  <2>. QED
    BY <1>2, <1>5 DEF StartMonitoring, StopMonitoring, securityCheckVars, validatorMemory
<1>6. ASSUME NEW p \in AdPeers,
             \/ CheckRateLimit(p) \/ OperationWindowEnds(p)
             \/ \E success \in BOOLEAN, weight \in Weights :
                    UpdateReputation(p, success, weight)
      PROVE  (PassedIsCovered /\ OnlyNewerPasses)'
  BY <1>2, <1>6 DEF CheckRateLimit, OperationWindowEnds, UpdateReputation
<1>. QED
  BY <1>1, <1>3, <1>4, <1>5, <1>6 DEF ValidatorNext

-----------------------------------------------------------------------------
\* The validator's state is of its type in every state.
THEOREM ValidatorTypeCorrect == ValidatorSpec => []ValidatorTypeOK
  BY ValidatorTypeInit, ValidatorTypeStep, PTL DEF ValidatorSpec

\* No version of an advertisement passes the validator after that one or a newer one
\* has passed, however cleanups fall, if the policy asks for no more than what is kept.
THEOREM NewerOnly == ValidatorSpec => []OnlyNewerPasses
<1>1. ValidatorIInv => OnlyNewerPasses
  BY DEF ValidatorIInv
<1>. QED
  BY <1>1, ValidatorIInvInit, ValidatorIInvStep, PTL DEF ValidatorSpec
-----------------------------------------------------------------------------
(***************************************************************************)
(* The advertiser, by itself and under the discovery extension.  Whoever   *)
(* calls it, its state changes in one of a few ways.                       *)
(***************************************************************************)
Kinds == {"advertise", "refresh", "sweep"}

Refreshes(c, others) ==
    /\ c \in Calls
    /\ \E rearm \in BOOLEAN, kind \in Kinds :
           (rearm => c \in AutoRefresh) /\ StartRefresh(c, rearm, kind, others)

Withdraws(as) ==
    /\ as \subseteq {a \in Ads : active[a] # NoAd}
    /\ WithdrawAll(as)
    /\ \/ UNCHANGED advertising
       \/ advertising' = FALSE /\ as = {a \in Ads : active[a] # NoAd}
    /\ UNCHANGED <<used, left, authentic, due, publishing, operations>>

\* A call goes on after its await, and may start the next refresh of a sweep.
GoesOn(p) ==
    /\ Rearm(p)
    /\ \/ publishing' = publishing \ {p} /\ UNCHANGED <<left, authentic>>
       \/ \E c \in Calls : Refreshes(c, publishing \ {p})
    /\ UNCHANGED <<advertising, active, used, operations>>

AdvertiserStep ==
    \/ StartAdvertiser \/ RateWindowEnds \/ AdvertiserTick
    \/ \E c \in Calls : Advertise(c) \/ RefreshTimerFires(c)
    \/ \E c \in Calls : /\ Refreshes(c, publishing)
                        /\ UNCHANGED <<advertising, active, used, armed, due, handle,
                                       operations>>
    \/ \E as \in SUBSET Ads : Withdraws(as)
    \/ \E p \in publishing : Publish(p) \/ GoesOn(p)

\* Two ids never have the same record.
LEMMA RecordsDiffer ==
    ASSUME AdvertiserTypeOK
    PROVE  \A a, b \in Ads : active[a] # NoAd /\ active[a] = active[b] => a = b
  BY DEF AdvertiserTypeOK

LEMMA AdvertiserNextIsStep ==
    ASSUME AdvertiserTypeOK, AdvertiserNext PROVE AdvertiserStep
<1>1. CASE StopAdvertiser
  <2> DEFINE as == {a \in Ads : active[a] # NoAd}
  <2>1. Withdraws(as)
    BY <1>1 DEF StopAdvertiser, Withdraws
  <2>. QED
    BY <2>1 DEF AdvertiserStep
<1>2. CASE CleanupExpiredAds
  <2>1. Expired \in SUBSET Ads /\ Withdraws(Expired)
    BY <1>2 DEF CleanupExpiredAds, Withdraws, Expired
  <2>. QED
    BY <2>1 DEF AdvertiserStep
<1>3. ASSUME NEW a \in Ads, Withdraw(a) PROVE AdvertiserStep
  <2>1. {a} \in SUBSET Ads /\ Withdraws({a})
    BY <1>3 DEF Withdraw, Withdraws
  <2>. QED
    BY <2>1 DEF AdvertiserStep
<1>4. ASSUME NEW a \in Ads, NEW rearm \in BOOLEAN, Refresh(a, rearm) PROVE AdvertiserStep
  <2>1. active[a] \in Calls
    BY <1>4 DEF Refresh, AdvertiserTypeOK
  <2>2. Refreshes(active[a], publishing)
    BY <1>4, <2>1 DEF Refresh, Refreshes, Kinds
  <2>. QED
    BY <1>4, <2>1, <2>2 DEF Refresh, AdvertiserStep
<1>5. ASSUME NEW p \in publishing, EndPublication(p) PROVE AdvertiserStep
  <2>1. GoesOn(p)
    BY <1>5 DEF EndPublication, GoesOn
  <2>. QED
    BY <2>1 DEF AdvertiserStep
<1>6. ASSUME \/ StartAdvertiser \/ RateWindowEnds \/ AdvertiserTick
             \/ \E c \in Calls : Advertise(c) \/ RefreshTimerFires(c)
             \/ \E p \in publishing : Publish(p)
      PROVE  AdvertiserStep
  BY <1>6 DEF AdvertiserStep
<1>. QED
  BY <1>1, <1>2, <1>3, <1>4, <1>5, <1>6 DEF AdvertiserNext

LEMMA AdvertiserBounds ==
    /\ MaxLeft \in Nat /\ RefreshInterval \in Nat \ {0} /\ MaxOperations \in Nat
    /\ AdOf \in [Calls -> Ads] /\ Ttl \in [Calls -> 0 .. MaxLeft] /\ AutoRefresh \subseteq Calls
    /\ NoAd \notin Calls
  BY AdvertisementAssumption, AdvertiserAssumption

LEMMA RefreshType ==
    ASSUME AdvertiserTypeOK, NEW c, NEW others \in SUBSET Publication, Refreshes(c, others)
    PROVE  /\ left' \in [Calls -> 0 .. MaxLeft] /\ authentic' \subseteq Calls
           /\ publishing' \subseteq Publication
<1>0. /\ c \in Calls /\ Ttl[c] \in 0 .. MaxLeft
      /\ left' = [left EXCEPT ![c] = Ttl[c]] /\ authentic' = authentic \ {c}
  BY AdvertiserBounds DEF Refreshes, StartRefresh
<1>1. left' \in [Calls -> 0 .. MaxLeft] /\ authentic' \subseteq Calls /\ c \in Calls
  BY <1>0 DEF AdvertiserTypeOK
<1>2. left'[c] \in 0 .. MaxLeft
  BY <1>1
<1>3. ASSUME NEW rearm \in BOOLEAN, NEW kind \in Kinds
      PROVE  Serialized(c, kind, rearm) \in Publication
  BY <1>1, <1>2 DEF Serialized, Publication, Kinds
<1>. QED
  BY <1>1, <1>3 DEF Refreshes, StartRefresh

\* A publication that has been sent is one that was to be sent.
LEMMA SentPublication ==
    ASSUME NEW p \in publishing, publishing \subseteq Publication
    PROVE  [p EXCEPT !.sent = TRUE] \in Publication
  BY DEF Publication

LEMMA RearmType ==
    ASSUME AdvertiserTypeOK, NEW p \in publishing, Rearm(p)
    PROVE  /\ armed' \subseteq handle' /\ handle' \subseteq Calls
           /\ due' \in [Calls -> 0 .. RefreshInterval]
<1>1. p.call \in Calls /\ RefreshInterval \in 0 .. RefreshInterval
  BY AdvertiserBounds DEF AdvertiserTypeOK, Publication
<1>. QED
  BY <1>1 DEF Rearm, SetupRefreshTimer, AdvertiserTypeOK

\* What the timer refreshes.
LEMMA FiredRefreshes ==
    ASSUME AdvertiserTypeOK, NEW c \in Calls, RefreshTimerFires(c), active[AdOf[c]] # NoAd
    PROVE  Refreshes(active[AdOf[c]], publishing)
<1> DEFINE d == active[AdOf[c]]
<1>1. d \in Calls /\ (d \in AutoRefresh) \in BOOLEAN /\ "refresh" \in Kinds
  BY AdvertiserBounds DEF AdvertiserTypeOK, Kinds
<1>2. StartRefresh(d, d \in AutoRefresh, "refresh", publishing)
  BY DEF RefreshTimerFires
<1> HIDE DEF d
<1>3. Refreshes(d, publishing)
  BY <1>1, <1>2 DEF Refreshes
<1>. QED
  BY <1>3 DEF d

LEMMA AdvertiserTypeStep ==
    AdvertiserTypeOK /\ (AdvertiserStep \/ UNCHANGED advertiserVars) => AdvertiserTypeOK'
<1> SUFFICES ASSUME AdvertiserTypeOK, AdvertiserStep \/ UNCHANGED advertiserVars
             PROVE  AdvertiserTypeOK'
  OBVIOUS
<1> USE AdvertiserBounds DEF AdvertiserTypeOK
<1>1. CASE StartAdvertiser \/ RateWindowEnds
  <2>1. advertising' \in BOOLEAN
    BY <1>1 DEF StartAdvertiser, RateWindowEnds
  <2>2. operations' \in 0 .. MaxOperations
    BY <1>1 DEF StartAdvertiser, RateWindowEnds
  <2>. QED
    BY <1>1, <2>1, <2>2 DEF StartAdvertiser, RateWindowEnds
<1>2. CASE AdvertiserTick
  <2>1. left' \in [Calls -> 0 .. MaxLeft]
    BY <1>2 DEF AdvertiserTick, Less
  <2>2. \A c \in armed : due[c] - 1 \in 0 .. RefreshInterval
    BY <1>2 DEF AdvertiserTick, AdvertiserIdle
  <2>3. due' \in [Calls -> 0 .. RefreshInterval] /\ operations' \in 0 .. MaxOperations
    BY <1>2, <2>2 DEF AdvertiserTick
  <2>. QED
    BY <1>2, <2>1, <2>3 DEF AdvertiserTick
<1>3. ASSUME NEW c \in Calls, Advertise(c) PROVE AdvertiserTypeOK'
  <2>1. left' \in [Calls -> 0 .. MaxLeft] /\ left'[c] \in 0 .. MaxLeft
    BY <1>3 DEF Advertise
  <2>2. Serialized(c, "advertise", c \in AutoRefresh) \in Publication
    BY <2>1 DEF Serialized, Publication
  <2>3. operations' \in 0 .. MaxOperations
    BY <1>3 DEF Advertise, WithinRateLimits
  <2>4. /\ active' \in [Ads -> Calls \cup {NoAd}]
        /\ \A a \in Ads : active'[a] # NoAd => AdOf[active'[a]] = a
    BY <1>3 DEF Advertise
  <2>. QED
    BY <1>3, <2>1, <2>2, <2>3, <2>4 DEF Advertise, SignAdvertisement
<1>4. ASSUME NEW c \in Calls, RefreshTimerFires(c) PROVE AdvertiserTypeOK'
  <2> DEFINE d == active[AdOf[c]]
  <2>1. CASE d # NoAd
    <3>1. Refreshes(d, publishing)
      BY <1>4, <2>1, FiredRefreshes
    <3>2. /\ left' \in [Calls -> 0 .. MaxLeft] /\ authentic' \subseteq Calls
          /\ publishing' \subseteq Publication
      BY <3>1, RefreshType
    <3>. QED
      BY <1>4, <3>2 DEF RefreshTimerFires
  <2>2. CASE d = NoAd
    BY <1>4, <2>2 DEF RefreshTimerFires
  <2>. QED
    BY <2>1, <2>2
<1>5. ASSUME NEW c \in Calls, Refreshes(c, publishing),
             UNCHANGED <<advertising, active, used, armed, due, handle, operations>>
      PROVE  AdvertiserTypeOK'
  <2>1. /\ left' \in [Calls -> 0 .. MaxLeft] /\ authentic' \subseteq Calls
        /\ publishing' \subseteq Publication
    BY <1>5, RefreshType
  <2>. QED
    BY <1>5, <2>1
<1>6. ASSUME NEW as \in SUBSET Ads, Withdraws(as) PROVE AdvertiserTypeOK'
  BY <1>6 DEF Withdraws, WithdrawAll
<1>7. ASSUME NEW p \in publishing, Publish(p) PROVE AdvertiserTypeOK'
  <2>1. [p EXCEPT !.sent = TRUE] \in Publication
    BY SentPublication
  <2>. QED
    BY <1>7, <2>1 DEF Publish
<1>8. ASSUME NEW p \in publishing, GoesOn(p) PROVE AdvertiserTypeOK'
  <2>1. /\ left' \in [Calls -> 0 .. MaxLeft] /\ authentic' \subseteq Calls
        /\ publishing' \subseteq Publication
    BY <1>8, RefreshType DEF GoesOn
  <2>2. /\ armed' \subseteq handle' /\ handle' \subseteq Calls
        /\ due' \in [Calls -> 0 .. RefreshInterval]
    BY <1>8, RearmType DEF GoesOn
  <2>. QED
    BY <1>8, <2>1, <2>2 DEF GoesOn
<1>9. CASE UNCHANGED advertiserVars
  BY <1>9 DEF advertiserVars
<1>. QED
  BY <1>1, <1>2, <1>3, <1>4, <1>5, <1>6, <1>7, <1>8, <1>9 DEF AdvertiserStep

LEMMA AdvertiserTypeInit == AdvertiserInit => AdvertiserTypeOK
<1> SUFFICES ASSUME AdvertiserInit PROVE AdvertiserTypeOK
  OBVIOUS
<1>1. 0 \in 0 .. MaxLeft /\ 0 \in 0 .. RefreshInterval /\ 0 \in 0 .. MaxOperations
  BY AdvertiserBounds
<1>2. /\ active \in [Ads -> Calls \cup {NoAd}] /\ \A a \in Ads : active[a] = NoAd
      /\ left \in [Calls -> 0 .. MaxLeft] /\ due \in [Calls -> 0 .. RefreshInterval]
  BY <1>1 DEF AdvertiserInit
<1>. QED
  BY <1>1, <1>2 DEF AdvertiserInit, AdvertiserTypeOK

-----------------------------------------------------------------------------
(***************************************************************************)
(* What keeps an advertisement alive.  While a call is in flight no time   *)
(* passes, so that its record has all of its time left; and a refresh may  *)
(* rely on the timer's handle, as the record has one, or a call of         *)
(* advertise in flight will give it one.                                   *)
(***************************************************************************)
\* The options of an advertisement; those by default are 20 and 30 minutes, and the code
\* does not compare what an application gives.
RefreshesInTime == \A c \in AutoRefresh : RefreshInterval < Ttl[c]

HasTimer(c) == c \in armed /\ due[c] < left[c]
WillRearm(c) == \E p \in publishing : p.call = c /\ p.rearm
WillHaveHandle(c) == \E p \in publishing : p.call = c /\ p.rearm /\ p.kind = "advertise"

InFlightIsFresh == \A p \in publishing : left[p.call] = Ttl[p.call]

StaysAlive(r) ==
    /\ left[r] > 0
    /\ r \in handle \/ WillHaveHandle(r)
    /\ HasTimer(r) \/ WillRearm(r)

RecordsLive == \A a \in Ads, r \in AutoRefresh : active[a] = r => StaysAlive(r)

LiveInv == AdvertiserTypeOK /\ InFlightIsFresh /\ RecordsLive

\* A refresh gives its record all its time, takes no other's, and adds to what is in flight.
LEMMA RefreshGives ==
    ASSUME LiveInv, NEW c, NEW others \in SUBSET publishing, Refreshes(c, others)
    PROVE  /\ \A d \in Calls : left'[d] = left[d] \/ left'[d] = Ttl[d]
           /\ InFlightIsFresh'
           /\ others \subseteq publishing'
<1>1. /\ c \in Calls /\ left' = [left EXCEPT ![c] = Ttl[c]] /\ left \in [Calls -> 0 .. MaxLeft]
      /\ \E rearm, kind : publishing' = others \cup {Serialized(c, kind, rearm)}
  BY DEF Refreshes, StartRefresh, LiveInv, AdvertiserTypeOK
<1>2. \A d \in Calls : left'[d] = IF d = c THEN Ttl[d] ELSE left[d]
  BY <1>1
<1>3. \A p \in publishing : p.call \in Calls /\ left[p.call] = Ttl[p.call]
  BY DEF LiveInv, AdvertiserTypeOK, Publication, InFlightIsFresh
<1>4. \A rearm, kind : Serialized(c, kind, rearm).call = c
  BY DEF Serialized
<1>. QED
  BY <1>1, <1>2, <1>3, <1>4 DEF InFlightIsFresh

LEMMA LiveStep ==
    ASSUME RefreshesInTime
    PROVE  LiveInv /\ (AdvertiserStep \/ UNCHANGED advertiserVars) => LiveInv'
<1> SUFFICES ASSUME LiveInv, AdvertiserStep \/ UNCHANGED advertiserVars
             PROVE  InFlightIsFresh' /\ RecordsLive'
  BY AdvertiserTypeStep DEF LiveInv
<1>0. /\ AdvertiserTypeOK /\ AdvertiserTypeOK' /\ InFlightIsFresh /\ RecordsLive
      /\ \A c \in AutoRefresh : c \in Calls /\ c # NoAd /\ Ttl[c] \in Nat /\ RefreshInterval < Ttl[c]
      /\ \A c \in Calls : left[c] \in Nat /\ due[c] \in Nat /\ due[c] <= RefreshInterval
      /\ RefreshInterval \in Nat
  <2>1. AdvertiserTypeOK'
    BY AdvertiserTypeStep DEF LiveInv
  <2>2. \A c \in AutoRefresh : c \in Calls /\ c # NoAd /\ Ttl[c] \in Nat
    BY AdvertiserBounds
  <2>3. \A c \in Calls : left[c] \in Nat /\ due[c] \in Nat /\ due[c] <= RefreshInterval
    BY AdvertiserBounds DEF LiveInv, AdvertiserTypeOK
  <2>. QED
    BY <2>1, <2>2, <2>3, AdvertiserBounds DEF LiveInv, RefreshesInTime
<1>1. ASSUME UNCHANGED <<active, left, armed, due, handle, publishing>>
      PROVE  InFlightIsFresh' /\ RecordsLive'
  BY <1>0, <1>1 DEF InFlightIsFresh, RecordsLive, StaysAlive, HasTimer, WillRearm,
                    WillHaveHandle
<1>2. CASE AdvertiserTick
  <2>1. /\ publishing = {} /\ publishing' = {} /\ UNCHANGED <<active, armed, handle>>
        /\ \A c \in armed : due[c] > 0
        /\ \A c \in Calls : left'[c] = IF left[c] = 0 THEN 0 ELSE left[c] - 1
        /\ \A c \in Calls : c \in armed => due'[c] = due[c] - 1
    BY <1>2 DEF AdvertiserTick, AdvertiserIdle, Less
  <2>2. ASSUME NEW r \in AutoRefresh, StaysAlive(r) PROVE StaysAlive(r)'
    <3>1. r \in handle /\ r \in armed /\ due[r] < left[r] /\ due[r] > 0 /\ r \in Calls
      BY <1>0, <2>1, <2>2 DEF StaysAlive, HasTimer, WillRearm, WillHaveHandle
    <3>2. left'[r] = left[r] - 1 /\ due'[r] = due[r] - 1
      BY <1>0, <2>1, <3>1
    <3>. QED
      BY <1>0, <2>1, <3>1, <3>2 DEF StaysAlive, HasTimer
  <2>. QED
    BY <1>0, <2>1, <2>2 DEF InFlightIsFresh, RecordsLive
<1>3. ASSUME NEW c \in Calls, Advertise(c) PROVE InFlightIsFresh' /\ RecordsLive'
  <2> DEFINE new == Serialized(c, "advertise", c \in AutoRefresh)
  <2>1. /\ publishing' = publishing \cup {new} /\ UNCHANGED <<armed, due, handle>>
        /\ active' = [active EXCEPT ![AdOf[c]] = c] /\ left' = [left EXCEPT ![c] = Ttl[c]]
    BY <1>3 DEF Advertise
  <2>2. new.call = c /\ new.kind = "advertise" /\ new.rearm = (c \in AutoRefresh)
    BY DEF Serialized
  <2>3. /\ \A d \in Calls : left'[d] = IF d = c THEN Ttl[d] ELSE left[d]
        /\ \A a \in Ads : active'[a] = c \/ active'[a] = active[a]
    BY <1>0, <2>1 DEF AdvertiserTypeOK
  <2>4. \A p \in publishing : p.call \in Calls
    BY <1>0 DEF AdvertiserTypeOK, Publication
  <2> HIDE DEF new
  <2>5. InFlightIsFresh'
    BY <1>0, <2>1, <2>2, <2>3, <2>4 DEF InFlightIsFresh
  <2>6. ASSUME NEW r \in AutoRefresh, r = c PROVE StaysAlive(r)'
    <3>1. left'[r] > 0
      BY <1>0, <2>3, <2>6
    <3>2. WillHaveHandle(r)' /\ WillRearm(r)'
      BY <2>1, <2>2, <2>6 DEF WillHaveHandle, WillRearm
    <3>. QED
      BY <3>1, <3>2 DEF StaysAlive
  <2>7. ASSUME NEW r \in AutoRefresh, r # c, StaysAlive(r) PROVE StaysAlive(r)'
    BY <1>0, <2>1, <2>3, <2>7 DEF StaysAlive, HasTimer, WillHaveHandle, WillRearm
  <2>. QED
    BY <1>0, <2>3, <2>5, <2>6, <2>7 DEF RecordsLive
<1>4. ASSUME NEW c \in Calls, Refreshes(c, publishing), UNCHANGED <<active, armed, due, handle>>
      PROVE  InFlightIsFresh' /\ RecordsLive'
  <2>1. /\ \A d \in Calls : left'[d] = left[d] \/ left'[d] = Ttl[d]
        /\ InFlightIsFresh' /\ publishing \subseteq publishing'
    BY <1>4, RefreshGives
  <2>2. ASSUME NEW r \in AutoRefresh, StaysAlive(r) PROVE StaysAlive(r)'
    BY <1>0, <1>4, <2>1, <2>2 DEF StaysAlive, HasTimer, WillHaveHandle, WillRearm
  <2>. QED
    BY <1>0, <1>4, <2>1, <2>2 DEF RecordsLive
<1>5. ASSUME NEW c \in Calls, RefreshTimerFires(c) PROVE InFlightIsFresh' /\ RecordsLive'
  <2>1. armed' = armed \ {c} /\ UNCHANGED <<active, due, handle>>
    BY <1>5 DEF RefreshTimerFires
  <2>2. ASSUME NEW r \in AutoRefresh, r # c, StaysAlive(r),
               left'[r] = left[r] \/ left'[r] = Ttl[r], publishing \subseteq publishing'
        PROVE  StaysAlive(r)'
    BY <1>0, <2>1, <2>2 DEF StaysAlive, HasTimer, WillHaveHandle, WillRearm
  <2>3. CASE active[AdOf[c]] = NoAd
    <3>1. UNCHANGED <<left, publishing>>
      BY <1>5, <2>3 DEF RefreshTimerFires
    <3>2. \A a \in Ads : active[a] # c
      BY <1>0, <2>3, AdvertiserBounds DEF AdvertiserTypeOK
    <3>. QED
      BY <1>0, <2>1, <2>2, <3>1, <3>2 DEF InFlightIsFresh, RecordsLive
  <2>4. CASE active[AdOf[c]] # NoAd
    <3>1. /\ \A e \in Calls : left'[e] = left[e] \/ left'[e] = Ttl[e]
          /\ InFlightIsFresh' /\ publishing \subseteq publishing'
      BY <1>0, <1>5, <2>4, FiredRefreshes, RefreshGives
    <3>2. ASSUME NEW a \in Ads, active[a] = c, c \in AutoRefresh, StaysAlive(c)
          PROVE  StaysAlive(c)'
      <4>1. active[AdOf[c]] = c
        BY <1>0, <3>2, AdvertiserBounds DEF AdvertiserTypeOK
      <4>2. Serialized(c, "refresh", TRUE) \in publishing'
        BY <1>5, <3>2, <4>1, AdvertiserBounds DEF RefreshTimerFires, StartRefresh
      <4>3. WillRearm(c)'
        BY <4>2 DEF WillRearm, Serialized
      <4>. QED
        BY <1>0, <2>1, <3>1, <3>2, <4>3 DEF StaysAlive, WillHaveHandle
    <3>. QED
      BY <1>0, <2>1, <2>2, <3>1, <3>2 DEF RecordsLive
  <2>. QED
    BY <2>3, <2>4
<1>6. ASSUME NEW as \in SUBSET Ads, Withdraws(as) PROVE InFlightIsFresh' /\ RecordsLive'
  <2> DEFINE cs == {active[a] : a \in as}
  <2>1. /\ \A a \in Ads : active'[a] = IF a \in as THEN NoAd ELSE active[a]
        /\ armed' = armed \ cs /\ handle' = handle \ cs
        /\ UNCHANGED <<left, due, publishing>>
    BY <1>6 DEF Withdraws, WithdrawAll
  <2>2. ASSUME NEW a \in Ads, NEW r \in AutoRefresh, active'[a] = r
        PROVE  active[a] = r /\ r \notin cs
    <3>1. a \notin as /\ active[a] = r
      BY <1>0, <2>1, <2>2
    <3>. QED
      BY <1>0, <2>1, <3>1, RecordsDiffer
  <2> HIDE DEF cs
  <2>3. ASSUME NEW r \in AutoRefresh, r \notin cs, StaysAlive(r) PROVE StaysAlive(r)'
    BY <2>1, <2>3 DEF StaysAlive, HasTimer, WillHaveHandle, WillRearm
  <2>. QED
    BY <1>0, <2>1, <2>2, <2>3 DEF InFlightIsFresh, RecordsLive
<1>7. ASSUME NEW p \in publishing, Publish(p) PROVE InFlightIsFresh' /\ RecordsLive'
  <2> DEFINE q == [p EXCEPT !.sent = TRUE]
  <2>1. /\ publishing' = (publishing \ {p}) \cup {q}
        /\ UNCHANGED <<active, left, armed, due, handle>>
    BY <1>7 DEF Publish
  <2>2. q.call = p.call /\ q.rearm = p.rearm /\ q.kind = p.kind
    BY <1>0 DEF AdvertiserTypeOK, Publication
  <2> HIDE DEF q
  <2>3. ASSUME NEW r \in AutoRefresh, StaysAlive(r) PROVE StaysAlive(r)'
    BY <2>1, <2>2, <2>3 DEF StaysAlive, HasTimer, WillHaveHandle, WillRearm
  <2>. QED
    BY <1>0, <2>1, <2>2, <2>3 DEF InFlightIsFresh, RecordsLive
<1>8. ASSUME NEW p \in publishing, GoesOn(p) PROVE InFlightIsFresh' /\ RecordsLive'
  <2>1. /\ \A d \in Calls : left'[d] = left[d] \/ left'[d] = Ttl[d]
        /\ InFlightIsFresh' /\ publishing \ {p} \subseteq publishing'
        /\ UNCHANGED active
    <3>1. CASE publishing' = publishing \ {p} /\ UNCHANGED left
      BY <1>0, <1>8, <3>1 DEF InFlightIsFresh, GoesOn
    <3>2. ASSUME NEW c \in Calls, Refreshes(c, publishing \ {p})
          PROVE  /\ \A d \in Calls : left'[d] = left[d] \/ left'[d] = Ttl[d]
                 /\ InFlightIsFresh' /\ publishing \ {p} \subseteq publishing'
      BY <3>2, RefreshGives
    <3>. QED
      BY <1>8, <3>1, <3>2 DEF GoesOn
  <2> DEFINE c == p.call
             rearms == p.rearm /\ (p.kind = "advertise" \/ c \in handle)
  <2>2. c \in Calls /\ left[c] = Ttl[c] /\ left'[c] = Ttl[c]
    BY <1>0, <2>1 DEF InFlightIsFresh, AdvertiserTypeOK, Publication
  <2>3. ASSUME NEW r \in AutoRefresh, StaysAlive(r) PROVE StaysAlive(r)'
    <3>0. /\ left'[r] > 0 /\ (left'[r] = left[r] \/ left'[r] = Ttl[r])
          /\ r \in handle \/ WillHaveHandle(r)
          /\ HasTimer(r) \/ WillRearm(r)
      BY <1>0, <2>1, <2>3 DEF StaysAlive
    <3>1. CASE rearms
      <4>1. /\ armed' = armed \cup {c} /\ handle' = handle \cup {c}
            /\ \A d \in Calls : due'[d] = IF d = c THEN RefreshInterval ELSE due[d]
        BY <1>0, <1>8, <3>1 DEF GoesOn, Rearm, SetupRefreshTimer, AdvertiserTypeOK
      <4>2. CASE r = c
        <5>1. r \in armed' /\ r \in handle' /\ due'[r] < left'[r]
          BY <1>0, <2>2, <4>1, <4>2
        <5>. QED
          BY <3>0, <5>1 DEF StaysAlive, HasTimer
      <4>3. CASE r # c
        <5>1. HasTimer(r) => HasTimer(r)'
          BY <1>0, <3>0, <4>1, <4>3 DEF HasTimer
        <5>2. (WillRearm(r) => WillRearm(r)') /\ (WillHaveHandle(r) => WillHaveHandle(r)')
          BY <2>1, <4>3 DEF WillRearm, WillHaveHandle
        <5>. QED
          BY <3>0, <4>1, <5>1, <5>2 DEF StaysAlive
      <4>. QED
        BY <4>2, <4>3
    <3>2. CASE ~rearms
      <4>1. UNCHANGED <<armed, due, handle>>
        BY <1>8, <3>2 DEF GoesOn, Rearm
      <4>2. HasTimer(r) => HasTimer(r)'
        BY <1>0, <3>0, <4>1 DEF HasTimer
      <4>3. WillHaveHandle(r) => WillHaveHandle(r)'
        BY <2>1, <3>2 DEF WillHaveHandle
      <4>4. WillRearm(r) => WillRearm(r)'
        <5>1. CASE r \in handle
          BY <2>1, <3>2, <5>1 DEF WillRearm
        <5>2. CASE WillHaveHandle(r)
          BY <4>3, <5>2 DEF WillRearm, WillHaveHandle
        <5>. QED
          BY <3>0, <5>1, <5>2
      <4>. QED
        BY <3>0, <4>1, <4>2, <4>3, <4>4 DEF StaysAlive
    <3>. QED
      BY <3>1, <3>2
  <2>. QED
    BY <1>0, <2>1, <2>3 DEF RecordsLive
<1>9. CASE StartAdvertiser \/ RateWindowEnds \/ UNCHANGED advertiserVars
  BY <1>1, <1>9 DEF StartAdvertiser, RateWindowEnds, advertiserVars
<1>. QED
  BY <1>2, <1>3, <1>4, <1>5, <1>6, <1>7, <1>8, <1>9 DEF AdvertiserStep

LEMMA LiveInit == AdvertiserInit => LiveInv
<1> SUFFICES ASSUME AdvertiserInit PROVE LiveInv
  OBVIOUS
<1>1. publishing = {} /\ \A a \in Ads : active[a] \notin AutoRefresh
  BY AdvertiserBounds DEF AdvertiserInit
<1>. QED
  BY <1>1, AdvertiserTypeInit DEF LiveInv, InFlightIsFresh, RecordsLive

LEMMA LiveIsKept == LiveInv => KeptAlive
  BY DEF LiveInv, RecordsLive, StaysAlive, KeptAlive, HasTimer, WillRearm

\* For any calls of advertise and any options, the advertiser's state stays of its type.
THEOREM AdvertiserTypeCorrect == AdvertiserSpec => []AdvertiserTypeOK
<1>1. AdvertiserTypeOK /\ [AdvertiserNext]_advertiserVars => AdvertiserTypeOK'
  BY AdvertiserNextIsStep, AdvertiserTypeStep
<1>. QED
  BY <1>1, AdvertiserTypeInit, PTL DEF AdvertiserSpec

\* If its refreshes come before it expires, what is refreshed is never left to expire,
\* whatever calls of advertise, refresh and withdraw overlap and fail.
THEOREM RefreshKeepsAlive ==
    ASSUME RefreshesInTime PROVE AdvertiserSpec => []KeptAlive
<1>1. LiveInv /\ [AdvertiserNext]_advertiserVars => LiveInv'
  BY AdvertiserNextIsStep, LiveStep DEF LiveInv
<1>. QED
  BY <1>1, LiveInit, LiveIsKept, PTL DEF AdvertiserSpec

-----------------------------------------------------------------------------
(***************************************************************************)
(* What is selected in a sequence.  That a set of numbers has a least one  *)
(* is an instance of the theorem on well-founded relations.                *)
(***************************************************************************)
LEMMA LeastNumber ==
    ASSUME NEW T \in SUBSET Nat, T # {}
    PROVE  \E x \in T : \A y \in T : x <= y
<1> DEFINE less == {pair \in Nat \X Nat : pair[1] < pair[2]}
<1>1. IsWellFoundedOn(less, Nat)
  BY NatLessThanWellFounded DEF OpToRel
<1> HIDE DEF less
<1>2. PICK x \in T : \A y \in T : <<y, x>> \notin less
  BY <1>1, WFMin
<1>3. \A y \in T : ~(y < x)
  BY <1>2 DEF less
<1>. QED
  BY <1>3

LEMMA MinIsMember ==
    ASSUME NEW T \in SUBSET Nat, T # {} PROVE Min(T) \in T
  BY LeastNumber DEF Min

LEMMA RemoveFirstKeeps ==
    ASSUME NEW S, NEW s \in Seq(S), NEW e
    PROVE  /\ RemoveFirst(s, e) \in Seq(S)
           /\ \A x \in Range(s) : x # e => x \in Range(RemoveFirst(s, e))
<1> DEFINE at == {i \in 1 .. Len(s) : s[i] = e}
           k == Min(at)
           s1 == SubSeq(s, 1, k - 1)
           s2 == SubSeq(s, k + 1, Len(s))
           r == s1 \o s2
<1>1. CASE at = {}
  BY <1>1 DEF RemoveFirst
<1>2. CASE at # {}
  <2>1. k \in 1 .. Len(s) /\ s[k] = e /\ Len(s) \in Nat
    BY <1>2, MinIsMember, LenProperties
  <2>2. RemoveFirst(s, e) = r
    BY <1>2 DEF RemoveFirst, RemoveAt, SelectInSeq
  <2> HIDE DEF k
  <2>3. /\ s1 \in Seq(S) /\ Len(s1) = k - 1 /\ \A i \in 1 .. k - 1 : s1[i] = s[i]
        /\ s2 \in Seq(S) /\ Len(s2) = Len(s) - k
        /\ \A i \in 1 .. Len(s) - k : s2[i] = s[k + i]
    BY <2>1
  <2> HIDE DEF s1, s2
  <2>4. /\ r \in Seq(S) /\ Len(r) = Len(s) - 1
        /\ \A i \in 1 .. Len(r) : r[i] = IF i <= k - 1 THEN s1[i] ELSE s2[i - (k - 1)]
    <3>1. /\ r \in Seq(S) /\ Len(r) = Len(s1) + Len(s2)
          /\ \A i \in 1 .. Len(s1) + Len(s2) :
                 r[i] = IF i <= Len(s1) THEN s1[i] ELSE s2[i - Len(s1)]
      BY <2>3, ConcatProperties
    <3> HIDE DEF r
    <3>. QED
      BY <2>1, <2>3, <3>1
  <2> HIDE DEF r
  <2>5. /\ r \in Seq(S) /\ Len(r) = Len(s) - 1
        /\ \A i \in 1 .. k - 1 : r[i] = s[i]
        /\ \A i \in k .. Len(s) - 1 : r[i] = s[i + 1]
    <3>1. ASSUME NEW i \in 1 .. k - 1 PROVE r[i] = s[i]
      <4>1. i \in 1 .. Len(r) /\ i <= k - 1
        BY <2>1, <2>4
      <4>. QED
        BY <2>3, <2>4, <4>1
    <3>2. ASSUME NEW i \in k .. Len(s) - 1 PROVE r[i] = s[i + 1]
      <4>1. i - (k - 1) \in 1 .. Len(s) - k /\ k + (i - (k - 1)) = i + 1 /\ ~(i <= k - 1)
        BY <2>1
      <4>. QED
        BY <2>1, <2>3, <2>4, <4>1
    <3>. QED
      BY <2>4, <3>1, <3>2
  <2>6. ASSUME NEW i \in 1 .. Len(s), s[i] # e PROVE \E j \in DOMAIN r : r[j] = s[i]
    <3>1. CASE i < k
      BY <2>1, <2>5, <3>1
    <3>2. CASE i > k
      <4>1. i - 1 \in k .. Len(s) - 1 /\ r[i - 1] = s[i] /\ i - 1 \in DOMAIN r
        BY <2>1, <2>5, <3>2
      <4>. QED
        BY <4>1
    <3>. QED
      BY <2>1, <2>6, <3>1, <3>2
  <2>. QED
    BY <2>2, <2>5, <2>6 DEF Range
<1>. QED
  BY <1>1, <1>2

-----------------------------------------------------------------------------
(***************************************************************************)
(* The discovery extension.                                                *)
(***************************************************************************)
LEMMA NextRequestType ==
    ASSUME ExtensionTypeOK, NEW visited
    PROVE  /\ NextToRefresh(visited) # NoAd =>
                  requestAds[NextRequest(visited)] \in RequestIds
           /\ NextToRefresh(visited) \in Calls \cup {NoAd}
<1> DEFINE todo == {i \in 1 .. Len(requestAds) : requestAds[i] \notin visited}
<1>1. /\ requestAds \in Seq(RequestIds) /\ active \in [Ads -> Calls \cup {NoAd}]
      /\ RequestIds \subseteq Ads
  BY AdvertiserBounds DEF ExtensionTypeOK, AdvertiserTypeOK, RequestIds, RequestCalls
<1>2. NextRequest(visited) = IF todo # {} THEN Min(todo) ELSE 0
  BY DEF NextRequest, SelectInSeq
<1>3. CASE todo = {}
  BY <1>2, <1>3 DEF NextToRefresh
<1>4. CASE todo # {}
  <2>0. todo \in SUBSET Nat
    OBVIOUS
  <2> HIDE DEF todo
  <2>1. NextRequest(visited) \in todo
    BY <1>2, <1>4, <2>0, MinIsMember
  <2>2. requestAds[NextRequest(visited)] \in RequestIds
    BY <1>1, <2>1 DEF todo
  <2>. QED
    BY <1>1, <2>2 DEF NextToRefresh
<1>. QED
  BY <1>3, <1>4

\* A sweep goes on with a refresh, or it is over.
LEMMA SweepRefreshes ==
    ASSUME ExtensionTypeOK, NEW visited, NEW others, SweepRequests(visited, others)
    PROVE  \/ publishing' = others /\ UNCHANGED <<left, authentic>>
           \/ \E c \in Calls : Refreshes(c, others)
<1> DEFINE c == NextToRefresh(visited)
<1>1. CASE c = NoAd
  BY <1>1 DEF SweepRequests
<1>2. CASE c # NoAd
  <2>1. c \in Calls /\ StartRefresh(c, c \in AutoRefresh, "sweep", others)
    BY <1>2, NextRequestType DEF SweepRequests
  <2>2. (c \in AutoRefresh) \in BOOLEAN /\ "sweep" \in Kinds
    BY DEF Kinds
  <2> HIDE DEF c
  <2>3. Refreshes(c, others)
    BY <2>1, <2>2 DEF Refreshes
  <2>. QED
    BY <2>1, <2>3
<1>. QED
  BY <1>1, <1>2

LEMMA ExtensionNextIsStep ==
    ASSUME ExtensionTypeOK, ExtensionNext
    PROVE  AdvertiserStep \/ UNCHANGED advertiserVars
<1>0. AdvertiserTypeOK
  BY DEF ExtensionTypeOK
<1>1. ASSUME NEW as \in SUBSET Ads, WithdrawQuietly(as), UNCHANGED advertising
      PROVE  AdvertiserStep
  <2>1. {a \in as : active[a] # NoAd} \in SUBSET Ads /\ Withdraws({a \in as : active[a] # NoAd})
    BY <1>1 DEF WithdrawQuietly, Withdraws
  <2>. QED
    BY <2>1 DEF AdvertiserStep
<1>2. CASE WithdrawSigner \/ \E a \in RequestIds : WithdrawSigningRequest(a)
  <2>1. {signerAd} \in SUBSET Ads \/ signerAd = NoAd
    BY AdvertiserBounds, ExtensionAssumption DEF ExtensionTypeOK
  <2>2. \A a \in RequestIds : {a} \in SUBSET Ads
    BY AdvertiserBounds DEF RequestIds, RequestCalls
  <2>. QED
    BY <1>1, <1>2, <2>1, <2>2 DEF WithdrawSigner, WithdrawSigningRequest
<1>3. CASE SweepStarts
  <2>1. UNCHANGED <<advertising, active, used, armed, due, handle, operations>>
    BY <1>3 DEF SweepStarts
  <2>2. CASE signerAd # NoAd /\ active[signerAd] # NoAd
    <3> DEFINE c == active[signerAd]
    <3>1. signerAd \in Ads
      BY <2>2, AdvertiserBounds, ExtensionAssumption DEF ExtensionTypeOK
    <3>2. c \in Calls /\ StartRefresh(c, c \in AutoRefresh, "sweep", publishing)
      BY <1>0, <1>3, <2>2, <3>1 DEF SweepStarts, AdvertiserTypeOK
    <3>3. (c \in AutoRefresh) \in BOOLEAN /\ "sweep" \in Kinds
      BY DEF Kinds
    <3> HIDE DEF c
    <3>4. Refreshes(c, publishing)
      BY <3>2, <3>3 DEF Refreshes
    <3>. QED
      BY <2>1, <3>2, <3>4 DEF AdvertiserStep
  <2>3. CASE signerAd # NoAd /\ active[signerAd] = NoAd
    BY <1>3, <2>1, <2>3 DEF SweepStarts, advertiserVars
  <2>4. CASE signerAd = NoAd
    <3>1. SweepRequests({}, publishing)
      BY <1>3, <2>4 DEF SweepStarts
    <3>2. \/ UNCHANGED <<publishing, left, authentic>>
          \/ \E c \in Calls : Refreshes(c, publishing)
      BY <3>1, SweepRefreshes
    <3>. QED
      BY <2>1, <3>2 DEF AdvertiserStep, advertiserVars
  <2>. QED
    BY <2>2, <2>3, <2>4
<1>4. ASSUME NEW p \in publishing, Advertised(p) PROVE AdvertiserStep
  <2>1. GoesOn(p)
    BY <1>4 DEF Advertised, EndPublication, GoesOn
  <2>. QED
    BY <2>1 DEF AdvertiserStep
<1>5. ASSUME NEW p \in publishing, Refreshed(p) PROVE AdvertiserStep
  <2>1. \/ publishing' = publishing \ {p} /\ UNCHANGED <<left, authentic>>
        \/ \E c \in Calls : Refreshes(c, publishing \ {p})
    BY <1>5, SweepRefreshes DEF Refreshed
  <2>2. GoesOn(p)
    BY <1>5, <2>1 DEF Refreshed, GoesOn
  <2>. QED
    BY <2>2 DEF AdvertiserStep
<1>6. CASE \/ StartExtension \/ StopExtension \/ AdvertiserAlone \/ ExtensionTick
           \/ \E c \in Calls : AdvertiseSigner(c) \/ CreateSigningRequest(c)
           \/ \E p \in publishing : ExtensionPublish(p)
  <2>1. AdvertiserNext
    BY <1>6 DEF StartExtension, StopExtension, AdvertiserAlone, ExtensionTick,
                AdvertiseSigner, CreateSigningRequest, ExtensionPublish, AdvertiserNext
  <2>. QED
    BY <1>0, <2>1, AdvertiserNextIsStep
<1>. QED
  BY <1>2, <1>3, <1>4, <1>5, <1>6 DEF ExtensionNext, ExtensionStep

LEMMA ExtensionTypeInit == ExtensionInit => ExtensionTypeOK
<1> SUFFICES ASSUME ExtensionInit PROVE ExtensionTypeOK
  OBVIOUS
<1>1. AdvertiserTypeOK /\ running \in BOOLEAN /\ swept \subseteq RequestIds
  BY AdvertiserTypeInit DEF ExtensionInit
<1>2. requestAds \in Seq(RequestIds) /\ nextSweep \in 0 .. RefreshInterval
  BY AdvertiserBounds DEF ExtensionInit
<1>. QED
  BY <1>1, <1>2 DEF ExtensionInit, ExtensionTypeOK

LEMMA ExtensionTypeStep ==
    ExtensionTypeOK /\ [ExtensionNext]_extensionVars => ExtensionTypeOK'
<1> SUFFICES ASSUME ExtensionTypeOK, [ExtensionNext]_extensionVars PROVE ExtensionTypeOK'
  OBVIOUS
<1>0. AdvertiserTypeOK'
  BY ExtensionNextIsStep, AdvertiserTypeStep DEF ExtensionTypeOK, extensionVars
<1> DEFINE slots == {AdOf[c] : c \in SignerCalls} \cup {NoAd}
           OwnOK == /\ running' \in BOOLEAN
                    /\ signerAd' \in slots
                    /\ requestAds' \in Seq(RequestIds)
                    /\ nextSweep' \in 0 .. RefreshInterval
                    /\ swept' \subseteq RequestIds
<1>1. SUFFICES OwnOK
  BY <1>0, <1>1 DEF ExtensionTypeOK
<1>2. /\ running \in BOOLEAN /\ signerAd \in slots /\ requestAds \in Seq(RequestIds)
      /\ nextSweep \in 0 .. RefreshInterval /\ swept \subseteq RequestIds
      /\ NoAd \in slots /\ <<>> \in Seq(RequestIds)
      /\ RefreshInterval \in 0 .. RefreshInterval /\ 0 \in 0 .. RefreshInterval
      /\ \A p \in publishing : p.call \in Calls
  BY AdvertiserBounds DEF ExtensionTypeOK, AdvertiserTypeOK, Publication
<1> HIDE DEF slots
<1>3. CASE UNCHANGED extensionOnlyVars
  BY <1>2, <1>3 DEF extensionOnlyVars
<1>4. CASE StartExtension \/ StopExtension
  BY <1>2, <1>4 DEF StartExtension, StopExtension
<1>5. CASE WithdrawSigner
  BY <1>2, <1>5 DEF WithdrawSigner
<1>6. ASSUME NEW a \in RequestIds, WithdrawSigningRequest(a) PROVE OwnOK
  BY <1>2, <1>6, RemoveFirstKeeps DEF WithdrawSigningRequest
<1>7. ASSUME NEW visited \in SUBSET RequestIds, NEW others, SweepRequests(visited, others)
      PROVE  swept' \subseteq RequestIds
  BY <1>7, NextRequestType DEF SweepRequests
<1>8. CASE SweepStarts
  <2>1. swept' \subseteq RequestIds
    BY <1>2, <1>7, <1>8 DEF SweepStarts
  <2>. QED
    BY <1>2, <1>8, <2>1 DEF SweepStarts
<1>9. ASSUME NEW p \in publishing, Refreshed(p) PROVE OwnOK
  <2>1. swept' \subseteq RequestIds
    BY <1>2, <1>7, <1>9 DEF Refreshed
  <2>. QED
    BY <1>2, <1>9, <2>1 DEF Refreshed
<1>10. ASSUME NEW p \in publishing, Advertised(p) PROVE OwnOK
  <2>1. CASE p.call \in SignerCalls
    <3>1. signerAd' = AdOf[p.call] /\ requestAds' = requestAds
      BY <1>10, <2>1 DEF Advertised, RequestCalls
    <3>2. signerAd' \in slots
      BY <2>1, <3>1 DEF slots
    <3>. QED
      BY <1>2, <1>10, <3>1, <3>2 DEF Advertised
  <2>2. CASE p.call \notin SignerCalls
    <3>1. /\ requestAds' = Append(requestAds, AdOf[p.call]) /\ signerAd' = signerAd
          /\ AdOf[p.call] \in RequestIds
      BY <1>2, <1>10, <2>2 DEF Advertised, RequestCalls, RequestIds
    <3>2. requestAds' \in Seq(RequestIds)
      BY <1>2, <3>1
    <3>. QED
      BY <1>2, <1>10, <3>1, <3>2 DEF Advertised
  <2>. QED
    BY <2>1, <2>2
<1>11. CASE ExtensionTick
  <2>1. nextSweep' \in 0 .. RefreshInterval
    BY <1>2, <1>11 DEF ExtensionTick
  <2>. QED
    BY <1>2, <1>11, <2>1 DEF ExtensionTick
<1>12. CASE \/ AdvertiserAlone \/ UNCHANGED extensionVars
            \/ \E c \in Calls : AdvertiseSigner(c) \/ CreateSigningRequest(c)
            \/ \E p \in publishing : ExtensionPublish(p)
  BY <1>3, <1>12 DEF AdvertiserAlone, extensionVars, AdvertiseSigner, CreateSigningRequest,
                     ExtensionPublish
<1> HIDE DEF OwnOK
<1>. QED
  BY <1>4, <1>5, <1>6, <1>8, <1>9, <1>10, <1>11, <1>12 DEF ExtensionNext, ExtensionStep

-----------------------------------------------------------------------------
(***************************************************************************)
(* What is active can be withdrawn.  While the extension does not run its  *)
(* advertiser has nothing, whichever calls are still in flight.            *)
(***************************************************************************)
\* The node advertises one public key.  With two, a second advertiseSigner whose check
\* comes before the first has ended takes the slot of the first.
OneSignerId == \A c, d \in SignerCalls : AdOf[c] = AdOf[d]

Comes(a) == \E p \in publishing : p.kind = "advertise" /\ AdOf[p.call] = a
Withdrawable(a) == a = signerAd \/ a \in Range(requestAds) \/ Comes(a)

SignerIds == {AdOf[c] : c \in SignerCalls}
Overtaken == IF OneSignerId THEN {} ELSE SignerIds

SlotsInv ==
    /\ ExtensionTypeOK
    /\ running <=> advertising
    /\ ~advertising => \A a \in Ads : active[a] = NoAd
    /\ \A a \in Ads \ Overtaken : active[a] # NoAd => Withdrawable(a)

LEMMA SlotsInit == ExtensionInit => SlotsInv
<1> SUFFICES ASSUME ExtensionInit PROVE SlotsInv
  OBVIOUS
<1>1. ExtensionTypeOK /\ running = FALSE /\ advertising = FALSE
  BY ExtensionTypeInit DEF ExtensionInit, AdvertiserInit
<1>2. \A a \in Ads : active[a] = NoAd
  BY DEF ExtensionInit, AdvertiserInit
<1>. QED
  BY <1>1, <1>2 DEF SlotsInv

LEMMA SlotsStep == SlotsInv /\ [ExtensionNext]_extensionVars => SlotsInv'
<1> SUFFICES ASSUME SlotsInv, [ExtensionNext]_extensionVars PROVE SlotsInv'
  OBVIOUS
<1>0. /\ ExtensionTypeOK /\ ExtensionTypeOK' /\ (running <=> advertising)
      /\ ~advertising => \A a \in Ads : active[a] = NoAd
      /\ \A a \in Ads \ Overtaken : active[a] # NoAd => Withdrawable(a)
      /\ active \in [Ads -> Calls \cup {NoAd}] /\ requestAds \in Seq(RequestIds)
      /\ publishing \subseteq Publication
  BY ExtensionTypeStep DEF SlotsInv, ExtensionTypeOK, AdvertiserTypeOK
<1> DEFINE Kept == \A a \in Ads \ Overtaken : active'[a] # NoAd => Withdrawable(a)'
\* Nothing new is active, and nothing loses its place.
<1>1. ASSUME \A a \in Ads : active'[a] # NoAd => active[a] # NoAd,
             UNCHANGED <<signerAd, requestAds>>,
             \A a : Comes(a) => Comes(a)'
      PROVE  Kept
  BY <1>0, <1>1 DEF Withdrawable
<1>2. CASE StartExtension
  <2>1. running' = TRUE /\ advertising' = TRUE /\ UNCHANGED <<active, publishing, signerAd, requestAds>>
    BY <1>2 DEF StartExtension, StartAdvertiser
  <2>. QED
    BY <1>0, <1>1, <2>1 DEF SlotsInv, Comes
<1>3. CASE StopExtension
  <2>1. /\ running' = FALSE /\ advertising' = FALSE
        /\ \A a \in Ads : active'[a] = NoAd
    BY <1>3 DEF StopExtension, StopAdvertiser, WithdrawAll
  <2>. QED
    BY <1>0, <2>1 DEF SlotsInv
<1>4. ASSUME NEW a \in Ads, WithdrawQuietly({a}), UNCHANGED <<advertising, running>>,
             \A b : b # a /\ Withdrawable(b) => Withdrawable(b)'
      PROVE  SlotsInv'
  <2>1. \A b \in Ads : active'[b] # NoAd => active'[b] = active[b] /\ b # a
    BY <1>4 DEF WithdrawQuietly, WithdrawAll
  <2>. QED
    BY <1>0, <1>4, <2>1 DEF SlotsInv
<1>5. CASE WithdrawSigner
  <2>1. /\ signerAd \in Ads /\ WithdrawQuietly({signerAd})
        /\ UNCHANGED <<advertising, running, requestAds, publishing>>
    BY <1>0, <1>5, AdvertiserBounds, ExtensionAssumption
    DEF WithdrawSigner, WithdrawQuietly, ExtensionTypeOK
  <2>2. \A b : b # signerAd /\ Withdrawable(b) => Withdrawable(b)'
    BY <2>1 DEF Withdrawable, Comes
  <2>. QED
    BY <1>4, <2>1, <2>2
<1>6. ASSUME NEW a \in RequestIds, WithdrawSigningRequest(a) PROVE SlotsInv'
  <2>1. /\ a \in Ads /\ WithdrawQuietly({a})
        /\ requestAds' = RemoveFirst(requestAds, a)
        /\ UNCHANGED <<advertising, running, signerAd, publishing>>
    BY <1>0, <1>6, AdvertiserBounds
    DEF WithdrawSigningRequest, WithdrawQuietly, RequestIds, RequestCalls
  <2>2. \A b \in Range(requestAds) : b # a => b \in Range(requestAds')
    BY <1>0, <2>1, RemoveFirstKeeps
  <2>3. \A b : b # a /\ Withdrawable(b) => Withdrawable(b)'
    BY <2>1, <2>2 DEF Withdrawable, Comes
  <2>. QED
    BY <1>4, <2>1, <2>3
<1>7. ASSUME NEW c \in Calls, AdvertiseSigner(c) \/ CreateSigningRequest(c) PROVE SlotsInv'
  <2>1. /\ Advertise(c) /\ UNCHANGED <<running, signerAd, requestAds>>
    BY <1>7 DEF AdvertiseSigner, CreateSigningRequest, extensionOnlyVars
  <2>2. /\ advertising /\ advertising' = advertising
        /\ \A a \in Ads : active'[a] = IF a = AdOf[c] THEN c ELSE active[a]
        /\ publishing \subseteq publishing'
        /\ Serialized(c, "advertise", c \in AutoRefresh) \in publishing'
    BY <1>0, <2>1 DEF Advertise
  <2>3. Comes(AdOf[c])' /\ \A a : Comes(a) => Comes(a)'
    BY <2>2 DEF Comes, Serialized
  <2>4. Kept
    BY <1>0, <2>1, <2>2, <2>3 DEF Withdrawable
  <2>. QED
    BY <1>0, <2>1, <2>2, <2>4 DEF SlotsInv
<1>8. ASSUME NEW p \in publishing, Advertised(p) PROVE SlotsInv'
  <2>1. /\ publishing' = publishing \ {p}
        /\ UNCHANGED <<advertising, running, active>>
    BY <1>8 DEF Advertised, EndPublication
  <2>2. CASE p.call \in SignerCalls
    <3>1. signerAd' = AdOf[p.call] /\ requestAds' = requestAds
      BY <1>8, <2>2 DEF Advertised, RequestCalls
    <3>2. signerAd = AdOf[p.call] \/ signerAd = NoAd \/ signerAd \in Overtaken
      BY <1>0, <2>2 DEF OneSignerId, Overtaken, SignerIds, ExtensionTypeOK
    <3>3. \A a \in Ads \ Overtaken : Withdrawable(a) => Withdrawable(a)'
      BY <2>1, <3>1, <3>2, AdvertiserAssumption DEF Withdrawable, Comes
    <3>. QED
      BY <1>0, <2>1, <3>3 DEF SlotsInv
  <2>3. CASE p.call \notin SignerCalls
    <3>1. signerAd' = signerAd /\ requestAds' = Append(requestAds, AdOf[p.call])
      BY <1>8, <2>3 DEF Advertised
    <3>2. AdOf[p.call] \in Range(requestAds') /\ Range(requestAds) \subseteq Range(requestAds')
      <4>1. /\ DOMAIN requestAds' = 1 .. Len(requestAds) + 1
            /\ DOMAIN requestAds = 1 .. Len(requestAds) /\ Len(requestAds) \in Nat
            /\ \A i \in 1 .. Len(requestAds) : requestAds'[i] = requestAds[i]
            /\ requestAds'[Len(requestAds) + 1] = AdOf[p.call]
        <5>1. AdOf[p.call] \in RequestIds
          BY <1>0, <2>3 DEF RequestIds, RequestCalls, Publication
        <5>. QED
          BY <1>0, <3>1, <5>1, AppendProperties
      <4>2. Len(requestAds) + 1 \in DOMAIN requestAds'
        BY <4>1
      <4>. QED
        BY <4>1, <4>2 DEF Range
    <3>3. \A a : Withdrawable(a) => Withdrawable(a)'
      BY <2>1, <3>1, <3>2 DEF Withdrawable, Comes
    <3>. QED
      BY <1>0, <2>1, <3>3 DEF SlotsInv
  <2>. QED
    BY <2>2, <2>3
<1>9. ASSUME NEW p \in publishing, Refreshed(p) PROVE SlotsInv'
  <2>1. /\ UNCHANGED <<advertising, active, running, signerAd, requestAds>>
        /\ p.kind # "advertise" /\ publishing \ {p} \subseteq publishing'
    BY <1>9 DEF Refreshed, SweepRequests, StartRefresh
  <2>2. \A a : Comes(a) => Comes(a)'
    BY <2>1 DEF Comes
  <2>. QED
    BY <1>0, <1>1, <2>1, <2>2 DEF SlotsInv
<1>10. ASSUME NEW p \in publishing, ExtensionPublish(p) PROVE SlotsInv'
  <2> DEFINE q == [p EXCEPT !.sent = TRUE]
  <2>1. /\ UNCHANGED <<advertising, active, running, signerAd, requestAds>>
        /\ publishing' = (publishing \ {p}) \cup {q}
    BY <1>10 DEF ExtensionPublish, Publish, extensionOnlyVars
  <2>2. q.call = p.call /\ q.kind = p.kind
    BY <1>0 DEF Publication
  <2> HIDE DEF q
  <2>3. \A a : Comes(a) => Comes(a)'
    BY <2>1, <2>2 DEF Comes
  <2>. QED
    BY <1>0, <1>1, <2>1, <2>3 DEF SlotsInv
<1>11. CASE SweepStarts
  <2>1. /\ UNCHANGED <<advertising, active, running, signerAd, requestAds>>
        /\ publishing \subseteq publishing'
    BY <1>11 DEF SweepStarts, SweepRequests, StartRefresh
  <2>2. \A a : Comes(a) => Comes(a)'
    BY <2>1 DEF Comes
  <2>. QED
    BY <1>0, <1>1, <2>1, <2>2 DEF SlotsInv
<1>12. CASE AdvertiserAlone
  <2>1. /\ UNCHANGED <<advertising, running, signerAd, requestAds>>
        /\ publishing \subseteq publishing'
        /\ \A a \in Ads : active'[a] = active[a] \/ active'[a] = NoAd
    BY <1>12 DEF AdvertiserAlone, RateWindowEnds, CleanupExpiredAds, RefreshTimerFires,
                 WithdrawAll, StartRefresh, extensionOnlyVars
  <2>2. \A a : Comes(a) => Comes(a)'
    BY <2>1 DEF Comes
  <2>. QED
    BY <1>0, <1>1, <2>1, <2>2 DEF SlotsInv
<1>13. CASE ExtensionTick \/ UNCHANGED extensionVars
  <2>1. UNCHANGED <<advertising, running, signerAd, requestAds, active, publishing>>
    BY <1>13 DEF ExtensionTick, AdvertiserTick, extensionVars, advertiserVars, extensionOnlyVars
  <2>. QED
    BY <1>0, <1>1, <2>1 DEF SlotsInv, Comes
<1>. QED
  BY <1>2, <1>3, <1>5, <1>6, <1>7, <1>8, <1>9, <1>10, <1>11, <1>12, <1>13
  DEF ExtensionNext, ExtensionStep

-----------------------------------------------------------------------------
\* For any calls, the state of the extension and of its advertiser stays of its type.
THEOREM ExtensionTypeCorrect == ExtensionSpec => []ExtensionTypeOK
  BY ExtensionTypeInit, ExtensionTypeStep, PTL DEF ExtensionSpec

\* The sweeps of the extension, which refresh between the timers of the advertiser, keep
\* alive what those do.
THEOREM SweepsKeepAlive ==
    ASSUME RefreshesInTime PROVE ExtensionSpec => []KeptAlive
<1>1. ExtensionTypeOK /\ LiveInv /\ [ExtensionNext]_extensionVars => LiveInv'
  <2>1. UNCHANGED extensionVars => UNCHANGED advertiserVars
    BY DEF extensionVars
  <2>. QED
    BY <2>1, ExtensionNextIsStep, LiveStep
<1>2. ExtensionInit => LiveInv
  BY LiveInit DEF ExtensionInit
<1>. QED
  BY <1>1, <1>2, ExtensionTypeCorrect, LiveIsKept, PTL DEF ExtensionSpec

\* Of a node that advertises one public key, all that its advertiser keeps alive can be
\* withdrawn through the extension.
THEOREM NothingIsLost ==
    ASSUME OneSignerId PROVE ExtensionSpec => []ActiveIsWithdrawable
<1>1. SlotsInv => ActiveIsWithdrawable
  BY DEF SlotsInv, Withdrawable, Comes, ActiveIsWithdrawable, Overtaken
<1>. QED
  BY <1>1, SlotsInit, SlotsStep, PTL DEF ExtensionSpec

\* Of any node, whatever keys it advertises: only the advertisement of a signer can be
\* active without a way to withdraw it, never a signing request.
OnlySignersAreLost ==
    \A a \in Ads : running /\ active[a] # NoAd => Withdrawable(a) \/ a \in SignerIds

THEOREM RequestsAreNotLost == ExtensionSpec => []OnlySignersAreLost
<1>1. SlotsInv => OnlySignersAreLost
  BY DEF SlotsInv, OnlySignersAreLost, Overtaken
<1>. QED
  BY <1>1, SlotsInit, SlotsStep, PTL DEF ExtensionSpec

-----------------------------------------------------------------------------
(***************************************************************************)
(* The discoverer, and the searches of MuSig2Discovery on top of it.       *)
(***************************************************************************)
\* The numbers, and that a handler tells whose it is.
LEMMA DiscovererBounds ==
    /\ \A a \in Ads : TopicOf[a] \in Topics /\ TopicOf[a] = Profile[a].topic
    /\ \A s \in Subs : SubTopic[s] \in Topics /\ SubTopic[s] = Criteria[s].topic
    /\ MaxQueries \in Nat /\ CacheAge \in Nat /\ QuietLimit \in Nat
    /\ Fetches \subseteq Subs /\ Dedups \subseteq Subs /\ MaxLeft \in Nat
  BY DiscovererAssumption, AdvertisementAssumption DEF TopicOf, SubTopic

LEMMA HandlersDiffer ==
    /\ \A s : HandlerOf(s) # NoHandler /\ HandlerOf(s) # AutoHandler
    /\ \A s, t : HandlerOf(s) = HandlerOf(t) => s = t
<1>1. ASSUME NEW s PROVE HandlerOf(s) # NoHandler /\ HandlerOf(s) # AutoHandler
  <2>1. /\ HandlerOf(s).kind = "subscription"
        /\ NoHandler.kind = "none" /\ AutoHandler.kind = "auto"
    BY DEF HandlerOf, NoHandler, AutoHandler
  <2>. QED
    BY <2>1
<1>2. ASSUME NEW s, NEW t, HandlerOf(s) = HandlerOf(t) PROVE s = t
  <2>1. HandlerOf(s).of = s /\ HandlerOf(t).of = t
    BY DEF HandlerOf
  <2>. QED
    BY <1>2, <2>1
<1>. QED
  BY <1>1, <1>2

LEMMA DiscovererTypeInit == DiscovererInit => DiscovererTypeOK
<1> SUFFICES ASSUME DiscovererInit PROVE DiscovererTypeOK
  OBVIOUS
<1>1. /\ 0 \in 0 .. MaxLeft /\ 0 \in 0 .. CacheAge /\ 0 \in 0 .. QuietLimit
      /\ 0 \in 0 .. MaxQueries /\ NoHandler \in Handlers
  BY DiscovererBounds DEF Handlers
<1>2. /\ notified \in [Subs -> [Ads -> 0 .. 2]] /\ subState \in [Subs -> {"new", "active", "ended"}]
      /\ topicHandler \in [Topics -> Handlers] /\ queries \in [Topics -> 0 .. MaxQueries]
  BY <1>1 DEF DiscovererInit
<1>3. /\ entryLeft \in [Ads -> 0 .. MaxLeft] /\ entryAge \in [Ads -> 0 .. CacheAge]
      /\ entrySince \in [Ads -> 0 .. CacheAge] /\ quiet \in [Subs -> 0 .. QuietLimit]
      /\ seen \in [Subs -> SUBSET Ads]
  BY <1>1 DEF DiscovererInit
<1>. QED
  BY <1>2, <1>3 DEF DiscovererInit, DiscovererTypeOK

\* What the handlers share keeps its types.
LEMMA AddToCacheType ==
    ASSUME DiscovererTypeOK, NEW m \in Messages, AddToCache(m)
    PROVE  /\ cached' \subseteq stored' /\ stored' \subseteq Ads
           /\ entryLeft' \in [Ads -> 0 .. MaxLeft]
           /\ entryAge' \in [Ads -> 0 .. CacheAge] /\ entrySince' \in [Ads -> 0 .. CacheAge]
<1>1. m.ad \in Ads /\ m.left \in 0 .. MaxLeft /\ 0 \in 0 .. CacheAge
  BY DiscovererBounds DEF Messages
<1>2. cached' \subseteq stored' /\ stored' \subseteq Ads
  BY <1>1 DEF AddToCache, DiscovererTypeOK
<1>3. entryAge' \in [Ads -> 0 .. CacheAge]
  BY <1>1 DEF AddToCache, DiscovererTypeOK
<1>4. entryLeft \in [Ads -> 0 .. MaxLeft] /\ entrySince \in [Ads -> 0 .. CacheAge]
  BY DEF DiscovererTypeOK
<1>5. CASE m.ad \in cached /\ UNCHANGED <<entryLeft, entrySince>>
  BY <1>2, <1>3, <1>4, <1>5
<1>6. CASE /\ entryLeft' = [entryLeft EXCEPT ![m.ad] = m.left]
           /\ entrySince' = [entrySince EXCEPT ![m.ad] = 0]
  <2>1. entryLeft' \in [Ads -> 0 .. MaxLeft]
    BY <1>1, <1>4, <1>6
  <2>2. entrySince' \in [Ads -> 0 .. CacheAge]
    BY <1>1, <1>4, <1>6
  <2>. QED
    BY <1>2, <1>3, <2>1, <2>2
<1>. QED
  BY <1>5, <1>6 DEF AddToCache

LEMMA CallBackType ==
    ASSUME DiscovererTypeOK, NEW s \in Subs, NEW a \in Ads, CallBack(s, a)
    PROVE  /\ notified' \in [Subs -> [Ads -> 0 .. 2]]
           /\ notified'[s][a] = IF notified[s][a] = 2 THEN 2 ELSE notified[s][a] + 1
           /\ \A t \in Subs, b \in Ads : t # s \/ b # a => notified'[t][b] = notified[t][b]
<1> DEFINE new == IF notified[s][a] = 2 THEN 2 ELSE notified[s][a] + 1
<1>1. notified \in [Subs -> [Ads -> 0 .. 2]] /\ notified[s] \in [Ads -> 0 .. 2]
  BY DEF DiscovererTypeOK
<1>2. new \in 0 .. 2
  BY <1>1
<1>3. notified' = [notified EXCEPT ![s] = [notified[s] EXCEPT ![a] = new]]
  BY DEF CallBack
<1> HIDE DEF new
<1>4. [notified[s] EXCEPT ![a] = new] \in [Ads -> 0 .. 2]
  BY <1>1, <1>2
<1>5. notified' \in [Subs -> [Ads -> 0 .. 2]] /\ notified'[s][a] = new
  BY <1>1, <1>3, <1>4
<1>6. \A t \in Subs, b \in Ads : t # s \/ b # a => notified'[t][b] = notified[t][b]
  BY <1>1, <1>3
<1>. QED
  BY <1>5, <1>6 DEF new

LEMMA CountQueryType ==
    ASSUME DiscovererTypeOK, NEW t \in Topics, MayQuery(t), CountQuery(t)
    PROVE  queries' \in [Topics -> 0 .. MaxQueries]
<1>1. queries[t] + 1 \in 0 .. MaxQueries
  BY DiscovererBounds DEF DiscovererTypeOK, MayQuery
<1>. QED
  BY <1>1 DEF DiscovererTypeOK, CountQuery

LEMMA EndSubscriptionsType ==
    ASSUME DiscovererTypeOK, NEW ss, EndSubscriptions(ss)
    PROVE  /\ subState' \in [Subs -> {"new", "active", "ended"}]
           /\ topicHandler' \in [Topics -> Handlers]
  BY DEF EndSubscriptions, DiscovererTypeOK, Handlers

LEMMA DiscovererTypeStep ==
    DiscovererTypeOK /\ [SearchNext]_discovererVars => DiscovererTypeOK'
<1> SUFFICES ASSUME DiscovererTypeOK, [SearchNext]_discovererVars PROVE DiscovererTypeOK'
  OBVIOUS
<1> USE DEF DiscovererTypeOK
<1>1. CASE StartDiscoverer
  <2>1. topicHandler' \in [Topics -> Handlers]
    BY <1>1 DEF StartDiscoverer, LoseHandlers, Handlers
  <2>. QED
    BY <1>1, <2>1 DEF StartDiscoverer, cacheVars
<1>0. ASSUME NEW s \in Subs, SubscribeThrows(s) PROVE DiscovererTypeOK'
  <2>1. topicHandler' \in [Topics -> Handlers] /\ subState' \in [Subs -> {"new", "active", "ended"}]
    BY <1>0 DEF SubscribeThrows, LoseHandlers, Handlers
  <2>. QED
    BY <1>0, <2>1 DEF SubscribeThrows, cacheVars
<1>2. ASSUME NEW s \in Subs, Subscribe(s) PROVE DiscovererTypeOK'
  <2>1. HandlerOf(s) \in Handlers /\ SubTopic[s] \in Topics
    BY DiscovererBounds DEF Handlers
  <2>2. topicHandler' \in [Topics -> Handlers] /\ subState' \in [Subs -> {"new", "active", "ended"}]
    BY <1>2, <2>1 DEF Subscribe
  <2>3. queries' \in [Topics -> 0 .. MaxQueries]
    BY <1>2, <2>1, CountQueryType DEF Subscribe
  <2>4. /\ immediates' \subseteq [sub : Subs, ad : Ads] /\ seen' \in [Subs -> SUBSET Ads]
        /\ fetched' \subseteq Fetches
    <3>1. CASE FetchExisting(s, Discover(s)) /\ s \in Fetches /\ fetched' = fetched \cup {s}
      <4>1. Discover(s) \in SUBSET Ads
        BY DEF Discover
      <4>2. {[sub |-> s, ad |-> a] : a \in Discover(s)} \subseteq [sub : Subs, ad : Ads]
        BY <4>1
      <4>3. seen' \in [Subs -> SUBSET Ads]
        BY <3>1, <4>1 DEF FetchExisting
      <4>. QED
        BY <3>1, <4>2, <4>3 DEF FetchExisting
    <3>2. CASE UNCHANGED <<queries, fetched, immediates, seen>>
      BY <3>2
    <3>. QED
      BY <1>2, <3>1, <3>2 DEF Subscribe
  <2>. QED
    BY <1>2, <2>2, <2>3, <2>4 DEF Subscribe, cacheVars
<1>3. ASSUME NEW i \in immediates, RunImmediate(i) PROVE DiscovererTypeOK'
  <2>1. i.sub \in Subs /\ i.ad \in Ads
    OBVIOUS
  <2>2. notified' \in [Subs -> [Ads -> 0 .. 2]]
    BY <1>3, <2>1, CallBackType DEF RunImmediate
  <2>. QED
    BY <1>3, <2>2 DEF RunImmediate, cacheVars
<1>4. ASSUME NEW ss, EndSubscriptions(ss), discovering' \in BOOLEAN, cached' \subseteq cached,
             UNCHANGED <<entryLeft, entryAge, entrySince, stored, seen, quiet, queries, fetched,
                         immediates, notified>>
      PROVE  DiscovererTypeOK'
  <2>1. /\ subState' \in [Subs -> {"new", "active", "ended"}]
        /\ topicHandler' \in [Topics -> Handlers]
    BY <1>4, EndSubscriptionsType
  <2>. QED
    BY <1>4, <2>1
<1>5. CASE \/ StopDiscoverer \/ CleanupDiscoverer
           \/ \E s \in Subs : Unsubscribe(s)
  BY <1>4, <1>5 DEF StopDiscoverer, CleanupDiscoverer, Unsubscribe, cacheVars
<1>6. ASSUME NEW m \in Messages, HandleAutoSubscription(m) PROVE DiscovererTypeOK'
  BY <1>6, AddToCacheType DEF HandleAutoSubscription, subVars
<1>7. ASSUME NEW m \in Messages, NEW s \in Subs, HandleGossipSub(s, m) PROVE DiscovererTypeOK'
  <2>1. m.ad \in Ads /\ 0 \in 0 .. QuietLimit
    BY DiscovererBounds DEF Messages
  <2>2. notified' \in [Subs -> [Ads -> 0 .. 2]]
    BY <1>7, <2>1, CallBackType DEF HandleGossipSub
  <2>3. /\ cached' \subseteq stored' /\ stored' \subseteq Ads
        /\ entryLeft' \in [Ads -> 0 .. MaxLeft]
        /\ entryAge' \in [Ads -> 0 .. CacheAge] /\ entrySince' \in [Ads -> 0 .. CacheAge]
    BY <1>7, AddToCacheType DEF HandleGossipSub
  <2>4. seen' \in [Subs -> SUBSET Ads] /\ quiet' \in [Subs -> 0 .. QuietLimit]
    BY <1>7, <2>1 DEF HandleGossipSub
  <2>. QED
    BY <1>7, <2>2, <2>3, <2>4 DEF HandleGossipSub
<1>8. ASSUME NEW ts, ClearCache(ts) PROVE DiscovererTypeOK'
  BY <1>8 DEF ClearCache, subVars
<1>9. CASE RestartDiscoverer
  <2>1. queries' \in [Topics -> 0 .. MaxQueries] /\ topicHandler' \in [Topics -> Handlers]
    BY <1>9, DiscovererBounds DEF RestartDiscoverer, Handlers
  <2>. QED
    BY <1>9, <2>1 DEF RestartDiscoverer
<1>10. CASE DiscovererTick
  <2>1. entryLeft' \in [Ads -> 0 .. MaxLeft] /\ queries' \in [Topics -> 0 .. MaxQueries]
    <3>1. ASSUME NEW x \in Ads
          PROVE  /\ entryLeft[x] \in 0 .. MaxLeft
                 /\ entryLeft[x] # 0 => entryLeft[x] - 1 \in 0 .. MaxLeft
      <4>1. entryLeft[x] \in 0 .. MaxLeft /\ MaxLeft \in Nat
        BY DiscovererBounds
      <4>. HIDE DEF DiscovererTypeOK
      <4>. QED
        BY <4>1
    <3>2. entryLeft' \in [Ads -> 0 .. MaxLeft]
      BY <1>10, <3>1, DiscovererBounds DEF DiscovererTick
    <3>3. queries' \in [Topics -> 0 .. MaxQueries]
      BY <1>10, DiscovererBounds DEF DiscovererTick
    <3>. QED
      BY <3>2, <3>3
  <2>2. entryAge' \in [Ads -> 0 .. CacheAge]
    <3>1. \A x \in Ads : entryAge[x] \in 0 .. CacheAge /\ (entryAge[x] < CacheAge => entryAge[x] + 1 \in 0 .. CacheAge)
      BY DiscovererBounds
    <3>. QED
      BY <1>10, <3>1 DEF DiscovererTick
  <2>3. entrySince' \in [Ads -> 0 .. CacheAge]
    <3>1. \A x \in Ads : entrySince[x] \in 0 .. CacheAge /\ (entrySince[x] < CacheAge => entrySince[x] + 1 \in 0 .. CacheAge)
      BY DiscovererBounds
    <3>. QED
      BY <1>10, <3>1 DEF DiscovererTick
  <2>4. quiet' \in [Subs -> 0 .. QuietLimit]
    <3>1. \A x \in Subs : quiet[x] \in 0 .. QuietLimit /\ (quiet[x] < QuietLimit => quiet[x] + 1 \in 0 .. QuietLimit)
      BY DiscovererBounds
    <3>. QED
      BY <1>10, <3>1 DEF DiscovererTick
  <2>. QED
    BY <1>10, <2>1, <2>2, <2>3, <2>4 DEF DiscovererTick
<1>11. ASSUME NEW t \in Topics, SearchFor(t) PROVE DiscovererTypeOK'
  <2>1. queries' \in [Topics -> 0 .. MaxQueries]
    BY <1>11, CountQueryType DEF SearchFor
  <2>. QED
    BY <1>11, <2>1 DEF SearchFor, cacheVars
<1>12. CASE UNCHANGED discovererVars
  BY <1>12 DEF discovererVars, cacheVars, subVars
<1>13. "signers" \in Topics /\ "requests" \in Topics
  BY SearchAssumption
<1>. QED
  BY <1>0, <1>1, <1>2, <1>3, <1>5, <1>6, <1>7, <1>8, <1>9, <1>10, <1>11, <1>12, <1>13
  DEF SearchNext, DiscovererNext, HandleMessage, DiscoverSigners, DiscoverSigningRequests

\* What a step does to the subscriptions and to what is found: the ending of some, and
\* what leaves the subscriptions alone and finds nothing new.
Ending(ss) ==
    /\ EndSubscriptions(ss)
    /\ cached' \subseteq cached
    /\ UNCHANGED <<entryLeft, seen, fetched, immediates, notified>>

FindsNothingNew ==
    /\ UNCHANGED <<topicHandler, subState, seen, fetched, immediates, notified>>
    /\ cached' \subseteq cached
    /\ \A a \in Ads : HasTimeLeft(entryLeft'[a]) => HasTimeLeft(entryLeft[a])

\* What takes handlers, and gives none to a subscription.
HandlersTaken ==
    /\ \A t \in Topics : topicHandler'[t] \in {topicHandler[t], AutoHandler, NoHandler}
    /\ \A s \in Subs : subState'[s] = subState[s] \/ subState'[s] = "active"
    /\ UNCHANGED <<cacheVars, seen, fetched, immediates, notified>>

LEMMA SearchStepKinds ==
    ASSUME DiscovererTypeOK, [SearchNext]_discovererVars
    PROVE  \/ HandlersTaken \/ RestartDiscoverer \/ FindsNothingNew
           \/ \E s \in Subs : Subscribe(s)
           \/ \E i \in immediates : RunImmediate(i)
           \/ \E ss \in SUBSET Subs : Ending(ss)
           \/ \E m \in Messages : HandleAutoSubscription(m)
           \/ \E m \in Messages, s \in Subs : HandleGossipSub(s, m)
<1>1. CASE StopDiscoverer
  <2>1. Ending({s \in Subs : subState[s] = "active"})
    BY <1>1 DEF StopDiscoverer, Ending, cacheVars
  <2>. QED
    BY <2>1
<1>2. CASE CleanupDiscoverer
  <2>1. Ending(Forgotten) /\ Forgotten \in SUBSET Subs
    BY <1>2 DEF CleanupDiscoverer, Ending, Forgotten
  <2>. QED
    BY <2>1
<1>3. ASSUME NEW s \in Subs, Unsubscribe(s)
      PROVE  \E ss \in SUBSET Subs : Ending(ss)
  <2>1. Ending({s}) /\ {s} \in SUBSET Subs
    BY <1>3 DEF Unsubscribe, Ending, cacheVars
  <2>. QED
    BY <2>1
<1>4. ASSUME NEW ts, ClearCache(ts) PROVE FindsNothingNew
  BY <1>4 DEF ClearCache, FindsNothingNew, subVars
<1>5. CASE DiscovererTick
  <2>1. ASSUME NEW a \in Ads, entryLeft'[a] > 0 PROVE entryLeft[a] > 0
    <3>1. entryLeft[a] \in 0 .. MaxLeft /\ MaxLeft \in Nat
      BY DiscovererBounds DEF DiscovererTypeOK
    <3>2. entryLeft'[a] = IF entryLeft[a] = 0 THEN 0 ELSE entryLeft[a] - 1
      BY <1>5 DEF DiscovererTick
    <3>. QED
      BY <2>1, <3>1, <3>2
  <2>. QED
    BY <1>5, <2>1 DEF DiscovererTick, FindsNothingNew, HasTimeLeft
<1>6. ASSUME NEW t, SearchFor(t) PROVE FindsNothingNew
  BY <1>6 DEF SearchFor, FindsNothingNew, cacheVars
<1>7. CASE UNCHANGED discovererVars
  BY <1>7 DEF discovererVars, cacheVars, subVars, FindsNothingNew
<1>8. CASE StartDiscoverer
  BY <1>8 DEF StartDiscoverer, LoseHandlers, HandlersTaken
<1>9. ASSUME NEW s \in Subs, SubscribeThrows(s) PROVE HandlersTaken
  <2>1. \A t \in Topics : topicHandler'[t] \in {topicHandler[t], NoHandler}
    BY <1>9 DEF SubscribeThrows, LoseHandlers
  <2>2. \A r \in Subs : subState'[r] = subState[r] \/ subState'[r] = "active"
    BY <1>9 DEF SubscribeThrows, DiscovererTypeOK
  <2>. QED
    BY <1>9, <2>1, <2>2 DEF SubscribeThrows, HandlersTaken
<1>. QED
  BY <1>1, <1>2, <1>3, <1>4, <1>5, <1>6, <1>7, <1>8, <1>9
  DEF SearchNext, DiscovererNext, HandleMessage, DiscoverSigners, DiscoverSigningRequests

\* The handler of a subscription.
LEMMA HandlersInit == DiscovererInit => HandlersAreActive
<1> SUFFICES ASSUME DiscovererInit, NEW s \in Subs, NEW t \in Topics
             PROVE  topicHandler[t] # HandlerOf(s)
  BY DEF HandlersAreActive
<1>. QED
  BY HandlersDiffer DEF DiscovererInit

LEMMA EndingFreesHandlers ==
    ASSUME DiscovererTypeOK, HandlersAreActive, NEW ss \in SUBSET Subs, Ending(ss),
           NEW s \in Subs, NEW t \in Topics, topicHandler'[t] = HandlerOf(s)
    PROVE  s \notin ss /\ topicHandler[t] = HandlerOf(s)
<1>1. topicHandler'[t] = IF \E r \in ss : SubTopic[r] = t THEN NoHandler ELSE topicHandler[t]
  BY DEF Ending, EndSubscriptions
<1>2. ~(\E r \in ss : SubTopic[r] = t) /\ topicHandler[t] = HandlerOf(s)
  BY <1>1, HandlersDiffer
<1>3. SubTopic[s] = t
  BY <1>2 DEF HandlersAreActive
<1>. QED
  BY <1>2, <1>3

LEMMA HandlersStep ==
    DiscovererTypeOK /\ HandlersAreActive /\ [SearchNext]_discovererVars => HandlersAreActive'
<1> SUFFICES ASSUME DiscovererTypeOK, HandlersAreActive, [SearchNext]_discovererVars,
                    NEW s \in Subs, NEW t \in Topics, topicHandler'[t] = HandlerOf(s)
             PROVE  subState'[s] = "active" /\ SubTopic[s] = t
  BY DEF HandlersAreActive
<1>1. CASE UNCHANGED <<topicHandler, subState>>
  BY <1>1 DEF HandlersAreActive
<1>2. CASE RestartDiscoverer
  BY <1>2, HandlersDiffer DEF RestartDiscoverer
<1>5. CASE HandlersTaken
  <2>1. topicHandler[t] = HandlerOf(s)
    BY <1>5, HandlersDiffer DEF HandlersTaken
  <2>2. subState[s] = "active" /\ SubTopic[s] = t
    BY <2>1 DEF HandlersAreActive
  <2>. QED
    BY <1>5, <2>2 DEF HandlersTaken
<1>3. ASSUME NEW r \in Subs, Subscribe(r) PROVE subState'[s] = "active" /\ SubTopic[s] = t
  <2>1. /\ topicHandler \in [Topics -> Handlers] /\ SubTopic[r] \in Topics
        /\ subState \in [Subs -> {"new", "active", "ended"}]
    BY DiscovererBounds DEF DiscovererTypeOK
  <2>2. /\ topicHandler' = [topicHandler EXCEPT ![SubTopic[r]] = HandlerOf(r)]
        /\ subState' = [subState EXCEPT ![r] = "active"]
    BY <1>3 DEF Subscribe
  <2>3. CASE t = SubTopic[r]
    <3>1. HandlerOf(s) = HandlerOf(r)
      BY <2>1, <2>2, <2>3
    <3>2. s = r
      BY <3>1, HandlersDiffer
    <3>. QED
      BY <2>1, <2>2, <2>3, <3>2
  <2>4. CASE t # SubTopic[r]
    <3>1. topicHandler[t] = HandlerOf(s)
      BY <2>1, <2>2, <2>4
    <3>2. subState[s] = "active" /\ SubTopic[s] = t
      BY <3>1 DEF HandlersAreActive
    <3>. QED
      BY <2>1, <2>2, <3>2
  <2>. QED
    BY <2>3, <2>4
<1>4. ASSUME NEW ss \in SUBSET Subs, Ending(ss)
      PROVE  subState'[s] = "active" /\ SubTopic[s] = t
  <2>1. s \notin ss /\ topicHandler[t] = HandlerOf(s)
    BY <1>4, EndingFreesHandlers
  <2>2. subState[s] = "active" /\ SubTopic[s] = t
    BY <2>1 DEF HandlersAreActive
  <2>. QED
    BY <1>4, <2>1, <2>2 DEF Ending, EndSubscriptions
<1>. QED
  BY <1>1, <1>2, <1>3, <1>4, <1>5, SearchStepKinds
  DEF FindsNothingNew, RunImmediate, HandleAutoSubscription, HandleGossipSub, subVars

-----------------------------------------------------------------------------
\* DiscovererTypeOK is invariant.
THEOREM DiscovererTypeCorrect == SearchSpec => []DiscovererTypeOK
<1>. QED
  BY DiscovererTypeInit, DiscovererTypeStep, PTL DEF SearchSpec

\* HandlersAreActive: subscribeToTopic keeps one handler for a topic, and none that
\* belongs to a subscription which was taken over, ended, forgotten or lost.
THEOREM HandlersBelongToActive == SearchSpec => []HandlersAreActive
<1>. QED
  BY DiscovererTypeCorrect, HandlersInit, HandlersStep, PTL DEF SearchSpec

\* SilentAfterUnsubscribe: the callbacks of setImmediate and those of the topic look at
\* isActive in the step in which they run.
THEOREM EndedHearNothing == SearchSpec => SilentAfterUnsubscribe
<1>1. ASSUME DiscovererTypeOK, [SearchNext]_discovererVars, NEW s \in Subs,
             notified'[s] # notified[s]
      PROVE  subState[s] = "active" /\ subState'[s] = "active"
  <2>1. notified \in [Subs -> [Ads -> 0 .. 2]]
    BY <1>1 DEF DiscovererTypeOK
  <2>2. CASE UNCHANGED notified
    BY <1>1, <2>2
  <2>3. ASSUME NEW i \in immediates, RunImmediate(i) PROVE subState[s] = "active" /\ subState'[s] = "active"
    <3>1. subState[i.sub] = "active" /\ CallBack(i.sub, i.ad) /\ UNCHANGED subState
      BY <1>1, <2>3 DEF RunImmediate
    <3>2. i.sub = s
      BY <1>1, <2>1, <3>1 DEF CallBack
    <3>. QED
      BY <3>1, <3>2
  <2>4. ASSUME NEW m \in Messages, NEW r \in Subs, HandleGossipSub(r, m)
        PROVE  subState[s] = "active" /\ subState'[s] = "active"
    <3>1. subState[r] = "active" /\ CallBack(r, m.ad) /\ UNCHANGED subState
      BY <2>4 DEF HandleGossipSub, SubscriptionTakes
    <3>2. r = s
      BY <1>1, <2>1, <3>1 DEF CallBack
    <3>. QED
      BY <3>1, <3>2
  <2>. QED
    BY <1>1, <2>2, <2>3, <2>4, SearchStepKinds
    DEF HandlersTaken, RestartDiscoverer, FindsNothingNew, Subscribe, Ending,
        HandleAutoSubscription, subVars
<1>2. DiscovererTypeOK /\ [SearchNext]_discovererVars =>
          [\A s \in Subs : notified'[s] # notified[s] =>
               subState[s] = "active" /\ subState'[s] = "active"]_discovererVars
  BY <1>1
<1>. QED
  BY <1>2, DiscovererTypeCorrect, PTL DEF SearchSpec, SilentAfterUnsubscribe

-----------------------------------------------------------------------------
(***************************************************************************)
(* NotifiedOnce: with deduplicate, what waits for setImmediate is marked   *)
(* in seenAdvertisements already, so that the topic brings it no second    *)
(* time, and what is marked and not waiting is not told again.             *)
(***************************************************************************)
Pending(s, a) == [sub |-> s, ad |-> a] \in immediates

OnceInv ==
    /\ DiscovererTypeOK
    /\ \A s \in Subs, a \in Ads : subState[s] = "new" => notified[s][a] = 0 /\ ~Pending(s, a)
    /\ \A s \in Dedups, a \in Ads : Pending(s, a) => a \in seen[s] /\ notified[s][a] = 0
    /\ \A s \in Dedups, a \in Ads : notified[s][a] > 0 => a \in seen[s] /\ notified[s][a] = 1
    /\ \A s \in fetched : subState[s] # "new"

LEMMA OnceInit == DiscovererInit => OnceInv
<1> SUFFICES ASSUME DiscovererInit PROVE OnceInv
  OBVIOUS
<1>1. DiscovererTypeOK
  BY DiscovererTypeInit
<1>2. \A s \in Subs, a \in Ads : notified[s][a] = 0 /\ ~Pending(s, a)
  BY DEF DiscovererInit, Pending
<1>3. fetched = {}
  BY DEF DiscovererInit
<1>. QED
  BY <1>1, <1>2, <1>3, DiscovererBounds DEF OnceInv

LEMMA OnceStep == OnceInv /\ [SearchNext]_discovererVars => OnceInv'
<1> SUFFICES ASSUME OnceInv, [SearchNext]_discovererVars PROVE OnceInv'
  OBVIOUS
<1> DEFINE First(s, a) == subState'[s] = "new" => notified'[s][a] = 0 /\ ~Pending(s, a)'
           Once(s, a) ==
               /\ Pending(s, a)' => a \in seen'[s] /\ notified'[s][a] = 0
               /\ notified'[s][a] > 0 => a \in seen'[s] /\ notified'[s][a] = 1
<1>1. DiscovererTypeOK /\ DiscovererTypeOK'
  BY DiscovererTypeStep DEF OnceInv
<1>2. /\ notified \in [Subs -> [Ads -> 0 .. 2]] /\ immediates \subseteq [sub : Subs, ad : Ads]
      /\ seen \in [Subs -> SUBSET Ads] /\ subState \in [Subs -> {"new", "active", "ended"}]
      /\ Dedups \subseteq Subs /\ fetched \subseteq Subs
  BY <1>1, DiscovererBounds DEF DiscovererTypeOK
<1>3. SUFFICES /\ \A s \in Subs, a \in Ads : First(s, a)
               /\ \A s \in Dedups, a \in Ads : Once(s, a)
               /\ \A s \in fetched' : subState'[s] # "new"
  BY <1>1, <1>3 DEF OnceInv
<1>4. CASE /\ UNCHANGED <<seen, notified, fetched>> /\ immediates' \subseteq immediates
           /\ \A s \in Subs : subState'[s] = "new" => subState[s] = "new"
  BY <1>2, <1>4 DEF OnceInv, Pending
<1>5. ASSUME NEW r \in Subs, Subscribe(r)
      PROVE  /\ \A s \in Subs, a \in Ads : First(s, a)
             /\ \A s \in Dedups, a \in Ads : Once(s, a)
             /\ \A s \in fetched' : subState'[s] # "new"
  <2>1. /\ subState[r] = "new" /\ subState' = [subState EXCEPT ![r] = "active"]
        /\ UNCHANGED notified /\ fetched' \subseteq fetched \cup {r}
    BY <1>5 DEF Subscribe
  <2>2. /\ seen'[r] = seen[r] \/ seen'[r] = Discover(r)
        /\ \A s \in Subs : s # r => seen'[s] = seen[s]
    BY <1>2, <1>5 DEF Subscribe, FetchExisting
  <2>. DEFINE pair(s, a) == [sub |-> s, ad |-> a]
  <2>3. ASSUME NEW s \in Subs, NEW a \in Ads, pair(s, a) \in immediates'
        PROVE  pair(s, a) \in immediates \/ (s = r /\ a \in seen'[r])
    <3>1. CASE UNCHANGED immediates
      BY <2>3, <3>1
    <3>2. CASE FetchExisting(r, Discover(r))
      <4>1. seen'[r] = Discover(r)
        BY <1>2, <3>2 DEF FetchExisting
      <4>2. ASSUME NEW b \in Discover(r), [sub |-> s, ad |-> a] = [sub |-> r, ad |-> b]
            PROVE  s = r /\ a \in seen'[r]
        BY <4>1, <4>2
      <4>. QED
        BY <2>3, <3>2, <4>2 DEF FetchExisting
    <3>. QED
      BY <1>5, <3>1, <3>2 DEF Subscribe
  <2>4. \A s \in Subs, a \in Ads : First(s, a)
    BY <1>2, <2>1, <2>3 DEF OnceInv, Pending
  <2>5. \A s \in Dedups, a \in Ads : Once(s, a)
    <3>1. ASSUME NEW s \in Dedups, NEW a \in Ads, s # r PROVE Once(s, a)
      BY <1>2, <2>1, <2>2, <2>3, <3>1 DEF OnceInv, Pending
    <3>2. ASSUME NEW a \in Ads PROVE notified'[r][a] = 0 /\ (Pending(r, a)' => a \in seen'[r])
      BY <2>1, <2>3, <3>2 DEF OnceInv, Pending
    <3>. QED
      BY <1>2, <3>1, <3>2
  <2>6. \A s \in fetched' : subState'[s] # "new"
    BY <1>2, <2>1 DEF OnceInv
  <2>. QED
    BY <2>4, <2>5, <2>6
<1>6. ASSUME NEW i \in immediates, RunImmediate(i)
      PROVE  /\ \A s \in Subs, a \in Ads : First(s, a)
             /\ \A s \in Dedups, a \in Ads : Once(s, a)
             /\ \A s \in fetched' : subState'[s] # "new"
  <2>1. /\ i.sub \in Subs /\ i.ad \in Ads /\ i = [sub |-> i.sub, ad |-> i.ad]
        /\ UNCHANGED <<subState, seen, fetched>> /\ immediates' = immediates \ {i}
    BY <1>2, <1>6 DEF RunImmediate
  <2>2. Pending(i.sub, i.ad)
    BY <2>1 DEF Pending
  <2>3. /\ \A s \in Subs, a \in Ads : s # i.sub \/ a # i.ad => notified'[s][a] = notified[s][a]
        /\ notified[i.sub][i.ad] = 0 => notified'[i.sub][i.ad] \in {0, 1}
    BY <1>1, <1>6, <2>1, CallBackType DEF RunImmediate
  <2>4. \A s \in Subs, a \in Ads : Pending(s, a)' => Pending(s, a) /\ (s # i.sub \/ a # i.ad)
    BY <2>1 DEF Pending
  <2>5. subState[i.sub] # "new"
    BY <2>1, <2>2 DEF OnceInv
  <2>6. \A s \in Subs, a \in Ads : First(s, a)
    BY <2>1, <2>3, <2>4, <2>5 DEF OnceInv
  <2>7. ASSUME NEW s \in Dedups, NEW a \in Ads PROVE Once(s, a)
    <3>1. CASE s = i.sub /\ a = i.ad
      <4>1. a \in seen[s] /\ notified[s][a] = 0
        BY <2>2, <3>1 DEF OnceInv
      <4>. QED
        BY <1>2, <2>1, <2>3, <2>4, <3>1, <4>1
    <3>2. CASE s # i.sub \/ a # i.ad
      BY <1>2, <2>1, <2>3, <2>4, <3>2 DEF OnceInv
    <3>. QED
      BY <3>1, <3>2
  <2>. QED
    BY <2>1, <2>6, <2>7 DEF OnceInv
<1>7. ASSUME NEW m \in Messages, NEW r \in Subs, HandleGossipSub(r, m)
      PROVE  /\ \A s \in Subs, a \in Ads : First(s, a)
             /\ \A s \in Dedups, a \in Ads : Once(s, a)
             /\ \A s \in fetched' : subState'[s] # "new"
  <2>1. /\ m.ad \in Ads /\ subState[r] = "active" /\ (r \in Dedups => m.ad \notin seen[r])
        /\ UNCHANGED <<subState, fetched, immediates>> /\ CallBack(r, m.ad)
    BY <1>7 DEF HandleGossipSub, SubscriptionTakes, Messages
  <2>2. \A s \in Subs : seen'[s] = IF s = r THEN seen[s] \cup {m.ad} ELSE seen[s]
    BY <1>2, <1>7 DEF HandleGossipSub
  <2>3. /\ \A s \in Subs, a \in Ads : s # r \/ a # m.ad => notified'[s][a] = notified[s][a]
        /\ notified[r][m.ad] = 0 => notified'[r][m.ad] = 1
    BY <1>1, <2>1, CallBackType
  <2>4. \A s \in Subs, a \in Ads : Pending(s, a)' <=> Pending(s, a)
    BY <2>1 DEF Pending
  <2>5. \A s \in Subs, a \in Ads : First(s, a)
    BY <2>1, <2>3, <2>4 DEF OnceInv
  <2>6. ASSUME NEW s \in Dedups, NEW a \in Ads PROVE Once(s, a)
    <3>1. CASE s = r /\ a = m.ad
      <4>1. notified[s][a] = 0 /\ ~Pending(s, a)
        <5>1. a \notin seen[s] /\ notified[s][a] \in 0 .. 2
          BY <1>2, <2>1, <3>1
        <5>. QED
          BY <5>1 DEF OnceInv
      <4>. QED
        BY <1>2, <2>2, <2>3, <2>4, <3>1, <4>1
    <3>2. CASE s # r \/ a # m.ad
      <4>1. seen[s] \subseteq seen'[s] /\ notified'[s][a] = notified[s][a]
        BY <1>2, <2>2, <2>3, <3>2
      <4>. QED
        BY <2>4, <4>1, <1>2 DEF OnceInv
    <3>. QED
      BY <3>1, <3>2
  <2>. QED
    BY <2>1, <2>5, <2>6 DEF OnceInv
<1>8. ASSUME NEW ss \in SUBSET Subs, Ending(ss)
      PROVE  \A s \in Subs : subState'[s] = "new" => subState[s] = "new"
  BY <1>8 DEF Ending, EndSubscriptions
<1>9. CASE RestartDiscoverer
  <2>1. /\ \A s \in Subs : subState'[s] = "new" => subState[s] = "new"
        /\ immediates' \subseteq immediates /\ UNCHANGED <<seen, notified, fetched>>
    BY <1>9 DEF RestartDiscoverer
  <2>. QED
    BY <1>4, <2>1
<1>10. ASSUME NEW m \in Messages, HandleAutoSubscription(m)
       PROVE  UNCHANGED <<subState, seen, notified, fetched, immediates>>
  BY <1>10 DEF HandleAutoSubscription, subVars
<1>. HIDE DEF First, Once
<1>. QED
  BY <1>1, <1>4, <1>5, <1>6, <1>7, <1>8, <1>9, <1>10, SearchStepKinds
  DEF HandlersTaken, FindsNothingNew, Ending

\* NotifiedOnce, whatever the topic, setImmediate and the end of subscriptions interleave.
THEOREM DeduplicatedOnce == SearchSpec => []NotifiedOnce
<1>1. OnceInv => NotifiedOnce
  <2> SUFFICES ASSUME OnceInv, NEW s \in Dedups, NEW a \in Ads PROVE notified[s][a] <= 1
    BY DEF NotifiedOnce
  <2>1. notified[s][a] \in 0 .. 2
    BY DiscovererBounds DEF OnceInv, DiscovererTypeOK
  <2>2. notified[s][a] > 0 => notified[s][a] = 1
    BY DEF OnceInv
  <2>. QED
    BY <2>1, <2>2
<1>. QED
  BY <1>1, OnceInit, OnceStep, PTL DEF SearchSpec

-----------------------------------------------------------------------------
(***************************************************************************)
(* ListenerMissesNothing: what the listener would find was there when it   *)
(* subscribed, and is queued, or came over its topic, and was told before  *)
(* it went to the cache.                                                   *)
(***************************************************************************)
Listening(s) == s \in fetched /\ topicHandler[SubTopic[s]] = HandlerOf(s)

ListenerInv ==
    \A s \in Subs, a \in Ads : Listening(s) /\ Found(a) /\ MatchesCriteria(s, a) =>
        notified[s][a] > 0 \/ Pending(s, a)

\* A message finds nothing but what it carries.
LEMMA AddFindsOnlyIts ==
    ASSUME DiscovererTypeOK, NEW m \in Messages, AddToCache(m), NEW a \in Ads, a # m.ad,
           Found(a)'
    PROVE  Found(a)
<1>1. m.ad \in Ads
  BY DEF Messages
<1>2. entryLeft'[a] = entryLeft[a] /\ (a \in cached' => a \in cached)
  BY <1>1 DEF AddToCache, DiscovererTypeOK
<1>. QED
  BY <1>2 DEF Found, PassesSecurity

LEMMA ListenerStep ==
    OnceInv /\ HandlersAreActive /\ ListenerInv /\ [SearchNext]_discovererVars => ListenerInv'
<1> SUFFICES ASSUME OnceInv, HandlersAreActive, ListenerInv, [SearchNext]_discovererVars,
                    NEW s \in Subs, NEW a \in Ads,
                    s \in fetched', topicHandler'[SubTopic[s]] = HandlerOf(s),
                    Found(a)', MatchesCriteria(s, a)
             PROVE  notified'[s][a] > 0 \/ [sub |-> s, ad |-> a] \in immediates'
  BY DEF ListenerInv, Listening, Pending, MatchesCriteria
<1> DEFINE pair == [sub |-> s, ad |-> a]
           told == notified[s][a] > 0 \/ pair \in immediates
           toldNext == notified'[s][a] > 0 \/ pair \in immediates'
<1>1. DiscovererTypeOK
  BY DEF OnceInv
<1>2. /\ notified \in [Subs -> [Ads -> 0 .. 2]] /\ immediates \subseteq [sub : Subs, ad : Ads]
      /\ topicHandler \in [Topics -> Handlers] /\ notified[s][a] \in 0 .. 2
      /\ SubTopic[s] \in Topics /\ SubTopic[s] = Profile[a].topic /\ TopicOf[a] = SubTopic[s]
  BY <1>1, DiscovererBounds DEF DiscovererTypeOK, MatchesCriteria
<1>3. s \in fetched /\ topicHandler[SubTopic[s]] = HandlerOf(s) /\ Found(a) => told
  BY DEF ListenerInv, Listening, Pending
<1>4. topicHandler[SubTopic[s]] = HandlerOf(s) => subState[s] = "active"
  BY <1>2 DEF HandlersAreActive
<1>5. CASE RestartDiscoverer
  BY <1>2, <1>5, HandlersDiffer DEF RestartDiscoverer
<1>12. CASE HandlersTaken
  <2>1. topicHandler[SubTopic[s]] = HandlerOf(s)
    BY <1>2, <1>12, HandlersDiffer DEF HandlersTaken
  <2>2. Found(a) /\ UNCHANGED <<notified, immediates, fetched>>
    BY <1>12 DEF HandlersTaken, Found, PassesSecurity, cacheVars
  <2>. QED
    BY <1>3, <2>1, <2>2
<1>6. CASE FindsNothingNew
  <2>1. Found(a)
    BY <1>6 DEF FindsNothingNew, Found, PassesSecurity
  <2>. QED
    BY <1>3, <1>6, <2>1 DEF FindsNothingNew
<1>7. ASSUME NEW r \in Subs, Subscribe(r) PROVE toldNext
  <2>1. /\ Found(a) /\ UNCHANGED notified /\ subState[r] = "new"
        /\ topicHandler' = [topicHandler EXCEPT ![SubTopic[r]] = HandlerOf(r)]
    BY <1>7 DEF Subscribe, Found, PassesSecurity, cacheVars
  <2>2. immediates \subseteq immediates' /\ fetched' \subseteq fetched \cup {r}
    BY <1>7 DEF Subscribe, FetchExisting
  <2>3. CASE s # r
    <3>1. topicHandler[SubTopic[s]] = HandlerOf(s)
      <4>1. CASE SubTopic[s] = SubTopic[r]
        BY <1>2, <2>1, <2>3, <4>1, HandlersDiffer
      <4>2. CASE SubTopic[s] # SubTopic[r]
        BY <1>2, <2>1, <4>2
      <4>. QED
        BY <4>1, <4>2
    <3>. QED
      BY <1>3, <2>1, <2>2, <2>3, <3>1
  <2>4. CASE s = r
    <3>1. s \notin fetched
      BY <2>1, <2>4 DEF OnceInv
    <3>2. FetchExisting(s, Discover(s))
      BY <1>7, <2>4, <3>1 DEF Subscribe
    <3>3. a \in Discover(s)
      BY <2>1 DEF Discover
    <3>. QED
      BY <3>2, <3>3 DEF FetchExisting
  <2>. QED
    BY <2>3, <2>4
<1>8. ASSUME NEW i \in immediates, RunImmediate(i) PROVE toldNext
  <2>1. /\ i.sub \in Subs /\ i.ad \in Ads /\ i = [sub |-> i.sub, ad |-> i.ad]
        /\ UNCHANGED <<topicHandler, fetched, subState>> /\ immediates' = immediates \ {i}
    BY <1>2, <1>8 DEF RunImmediate
  <2>2. told
    BY <1>3, <1>8, <2>1 DEF RunImmediate, cacheVars, Found, PassesSecurity
  <2>3. CASE s = i.sub /\ a = i.ad
    <3>1. CallBack(s, a)
      BY <1>4, <1>8, <2>1, <2>3 DEF RunImmediate
    <3>2. notified'[s][a] = IF notified[s][a] = 2 THEN 2 ELSE notified[s][a] + 1
      BY <1>1, <3>1, CallBackType
    <3>. QED
      BY <1>2, <3>2
  <2>4. CASE s # i.sub \/ a # i.ad
    <3>1. notified'[s][a] = notified[s][a]
      BY <1>1, <1>8, <2>1, <2>4, CallBackType DEF RunImmediate
    <3>2. pair # i
      BY <2>4
    <3>. QED
      BY <2>1, <2>2, <3>1, <3>2
  <2>. QED
    BY <2>3, <2>4
<1>9. ASSUME NEW ss \in SUBSET Subs, Ending(ss) PROVE toldNext
  <2>1. topicHandler[SubTopic[s]] = HandlerOf(s)
    BY <1>1, <1>2, <1>9, EndingFreesHandlers
  <2>2. Found(a) /\ UNCHANGED <<notified, immediates, fetched>>
    BY <1>9 DEF Ending, Found, PassesSecurity
  <2>. QED
    BY <1>3, <2>1, <2>2
<1>10. ASSUME NEW m \in Messages, HandleAutoSubscription(m) PROVE toldNext
  <2>1. /\ AddToCache(m) /\ topicHandler[TopicOf[m.ad]] = AutoHandler
        /\ UNCHANGED <<notified, immediates, fetched, topicHandler>>
    BY <1>10 DEF HandleAutoSubscription, AutoTakes, subVars
  <2>2. a # m.ad
    BY <1>2, <2>1, HandlersDiffer
  <2>3. Found(a)
    BY <1>1, <2>1, <2>2, AddFindsOnlyIts
  <2>. QED
    BY <1>3, <2>1, <2>3
<1>11. ASSUME NEW m \in Messages, NEW r \in Subs, HandleGossipSub(r, m) PROVE toldNext
  <2>1. /\ AddToCache(m) /\ topicHandler[TopicOf[m.ad]] = HandlerOf(r) /\ CallBack(r, m.ad)
        /\ m.ad \in Ads /\ UNCHANGED <<immediates, fetched, topicHandler>>
    BY <1>11 DEF HandleGossipSub, SubscriptionTakes, Messages
  <2>2. CASE a = m.ad
    <3>1. r = s
      BY <1>2, <2>1, <2>2, HandlersDiffer
    <3>2. notified'[s][a] = IF notified[s][a] = 2 THEN 2 ELSE notified[s][a] + 1
      BY <1>1, <2>1, <2>2, <3>1, CallBackType
    <3>. QED
      BY <1>2, <3>2
  <2>3. CASE a # m.ad
    <3>1. Found(a)
      BY <1>1, <2>1, <2>3, AddFindsOnlyIts
    <3>2. notified'[s][a] = notified[s][a]
      BY <1>1, <2>1, <2>3, CallBackType
    <3>. QED
      BY <1>3, <2>1, <3>1, <3>2
  <2>. QED
    BY <2>2, <2>3
<1>. QED
  BY <1>1, <1>5, <1>6, <1>7, <1>8, <1>9, <1>10, <1>11, <1>12, SearchStepKinds

\* ListenerMissesNothing, also when the topic was taken over and back, or the cache
\* cleared, between the subscription and the search.
THEOREM NothingIsMissed == SearchSpec => []ListenerMissesNothing
<1>1. DiscovererInit => ListenerInv
  BY DEF DiscovererInit, ListenerInv, Listening
<1>2. OnceInv /\ ListenerInv => ListenerMissesNothing
  <2> SUFFICES ASSUME OnceInv, ListenerInv, NEW s \in fetched,
                      topicHandler[SubTopic[s]] = HandlerOf(s),
                      NEW a \in SignersFound(s) \cup RequestsFound(s)
               PROVE  \/ a \in SignersTold(s) \cup RequestsTold(s)
                      \/ [sub |-> s, ad |-> a] \in immediates
    BY DEF ListenerMissesNothing
  <2>1. s \in Subs
    BY DiscovererBounds DEF OnceInv, DiscovererTypeOK
  <2>2. /\ a \in Ads /\ Found(a) /\ MatchesCriteria(s, a)
        /\ WantsSigner(s, a) \/ WantsRequest(s, a)
    BY DEF SignersFound, RequestsFound, Discover
  <2>3. notified[s][a] > 0 \/ [sub |-> s, ad |-> a] \in immediates
    BY <2>1, <2>2 DEF ListenerInv, Listening, Pending
  <2>. QED
    BY <2>2, <2>3 DEF SignersTold, RequestsTold
<1>. QED
  BY <1>1, <1>2, OnceInit, OnceStep, ListenerStep, HandlersBelongToActive, PTL DEF SearchSpec

-----------------------------------------------------------------------------
(***************************************************************************)
(* A node that advertises and one that discovers: each of them behaves as  *)
(* it does by itself, whatever the topics carry between them.              *)
(***************************************************************************)
LEMMA DiscoveryStepIsBoth ==
    onTopic \subseteq Messages /\ [DiscoveryNext]_discoveryVars =>
        [ExtensionNext]_extensionVars /\ [SearchNext]_discovererVars
<1> SUFFICES ASSUME onTopic \subseteq Messages, [DiscoveryNext]_discoveryVars
             PROVE  [ExtensionNext]_extensionVars /\ [SearchNext]_discovererVars
  OBVIOUS
<1>1. CASE AdvertisingNode
  BY <1>1 DEF AdvertisingNode, ExtensionNext
<1>2. CASE DiscoveringNode
  BY <1>2 DEF DiscoveringNode, SearchNext, DiscovererNext
<1>3. CASE DiscoveryTick
  BY <1>3 DEF DiscoveryTick, ExtensionNext, SearchNext, DiscovererNext
<1>4. CASE PublishOne
  BY <1>4 DEF PublishOne, PublishToTopic, ExtensionNext
<1>5. CASE DeliverOne
  BY <1>5 DEF DeliverOne, DeliverOnTopic, SearchNext, DiscovererNext
<1>6. CASE UNCHANGED discoveryVars
  BY <1>6 DEF discoveryVars
<1>. QED
  BY <1>1, <1>2, <1>3, <1>4, <1>5, <1>6 DEF DiscoveryNext

LEMMA TopicTypeStep ==
    DiscoveryTypeOK /\ [DiscoveryNext]_discoveryVars => onTopic' \subseteq Messages
<1> SUFFICES ASSUME DiscoveryTypeOK, [DiscoveryNext]_discoveryVars
             PROVE  onTopic' \subseteq Messages
  OBVIOUS
<1>1. CASE PublishOne
  <2>1. PICK p \in publishing : PublishToTopic(p)
    BY <1>1 DEF PublishOne
  <2>2. p.call \in Calls /\ p.left \in 0 .. MaxLeft /\ p.authentic \in BOOLEAN
    BY DEF DiscoveryTypeOK, ExtensionTypeOK, AdvertiserTypeOK, Publication
  <2>3. AdOf[p.call] \in Ads
    BY <2>2, AdvertiserAssumption
  <2>4. [ad |-> AdOf[p.call], left |-> p.left, authentic |-> p.authentic] \in Messages
    BY <2>2, <2>3 DEF Messages
  <2>. QED
    BY <2>1, <2>4 DEF PublishToTopic, DiscoveryTypeOK
<1>2. CASE DeliverOne
  BY <1>2 DEF DeliverOne, DeliverOnTopic, DiscoveryTypeOK
<1>3. CASE UNCHANGED onTopic
  BY <1>3 DEF DiscoveryTypeOK
<1>. QED
  BY <1>1, <1>2, <1>3
  DEF DiscoveryNext, AdvertisingNode, DiscoveringNode, DiscoveryTick, discoveryVars

\* DiscoveryTypeOK is invariant.
THEOREM DiscoveryTypeCorrect == DiscoverySpec => []DiscoveryTypeOK
<1>1. DiscoveryInit => DiscoveryTypeOK
  BY ExtensionTypeInit, DiscovererTypeInit DEF DiscoveryInit, DiscoveryTypeOK
<1>2. DiscoveryTypeOK /\ [DiscoveryNext]_discoveryVars => DiscoveryTypeOK'
  BY DiscoveryStepIsBoth, TopicTypeStep, ExtensionTypeStep, DiscovererTypeStep
  DEF DiscoveryTypeOK
<1>. QED
  BY <1>1, <1>2, PTL DEF DiscoverySpec

\* Together the nodes do what each does by itself, so that what is proved of the advertising
\* and of the discovering half of MuSig2Discovery is true of both.
THEOREM DiscoveryIsBoth == DiscoverySpec => ExtensionSpec /\ SearchSpec
<1>1. DiscoveryInit => ExtensionInit /\ DiscovererInit
  BY DEF DiscoveryInit
<1>2. DiscoveryTypeOK /\ [DiscoveryNext]_discoveryVars =>
          [ExtensionNext]_extensionVars /\ [SearchNext]_discovererVars
  BY DiscoveryStepIsBoth DEF DiscoveryTypeOK
<1>. QED
  BY <1>1, <1>2, DiscoveryTypeCorrect, PTL DEF DiscoverySpec, ExtensionSpec, SearchSpec
=============================================================================
