------------------------- MODULE DiscoverySecurity -------------------------
(***************************************************************************)
(* DiscoverySecurityValidator (src/lib/discovery/security.ts): the checks  *)
(* of an advertisement, what it remembers of those that it has seen, the   *)
(* reputation of their peers, the limits on operations, and the cleanup.   *)
(*                                                                         *)
(* A copy of an advertisement may come again at any time.  The signature   *)
(* is verified without waiting, so that the checks up to the replay check  *)
(* are one step.  The match with the criteria and the custom validators    *)
(* come after it: they may refuse what has passed so far, and change       *)
(* nothing here.                                                           *)
(***************************************************************************)
EXTENDS Naturals, Sequences

CONSTANTS
    Copies,
    Copy,           \* Copy[c]: its peer, id, times, and whether the signature is good
    AdIds,
    AdPeers,
    MaxAdAge,       \* maxAdvertisementAge of the policy
    KeepFor,        \* seven days
    MinReputation,
    Weights,        \* weights of interactions
    OperationLimit, \* operations of a peer in a window
    MaxClock        \* bound: the clock, which starts at 1

\* The policy may not ask for more than what is kept; no code sees to that.
ASSUME ValidatorAssumption ==
    /\ Copy \in [Copies -> [peer : AdPeers, id : AdIds, createdAt : Nat \ {0},
                            expiresAt : Nat, signed : BOOLEAN]]
    /\ MaxAdAge \in Nat /\ KeepFor \in Nat /\ MaxAdAge <= KeepFor
    /\ MinReputation \in 0 .. 100 /\ Weights \subseteq Nat
    /\ OperationLimit \in Nat /\ MaxClock \in Nat \ {0}

AdKeys == AdPeers \X AdIds
KeyOfCopy(c) == <<Copy[c].peer, Copy[c].id>>

NewScore == 75

VARIABLES
    clock,
    monitoring,   \* cleanupTimer is set
    seenAdvertisements,  \* the creation time kept for a key, 0 if none is
    score,        \* the scores of reputationData
    metAt,        \* lastInteraction, or 0 for a peer that is not there
    counts,       \* the counts of rateLimitTracker
    passed        \* history: createdAt of what has passed, for each key

validatorMemory == <<seenAdvertisements, score, metAt, counts>>
securityCheckVars == <<clock, monitoring, validatorMemory, passed>>

ValidatorTypeOK ==
    /\ clock \in 1 .. MaxClock
    /\ monitoring \in BOOLEAN
    /\ seenAdvertisements \in [AdKeys -> Nat]
    /\ score \in [AdPeers -> 0 .. 100]
    /\ metAt \in [AdPeers -> 0 .. MaxClock]
    /\ counts \in [AdPeers -> 0 .. OperationLimit]
    /\ passed \in [AdKeys -> Seq(Nat \ {0})]

ValidatorInit ==
    /\ clock = 1
    /\ monitoring = FALSE
    /\ seenAdvertisements = [k \in AdKeys |-> 0]
    /\ score = [p \in AdPeers |-> NewScore]
    /\ metAt = [p \in AdPeers |-> 0]
    /\ counts = [p \in AdPeers |-> 0]
    /\ passed = [k \in AdKeys |-> <<>>]

-----------------------------------------------------------------------------
\* getReputation makes an entry for a peer that has none.
GetReputation(p) == metAt' = [metAt EXCEPT ![p] = IF @ = 0 THEN clock ELSE @]

\* What is checked before the replay.
IsFresh(c) == Copy[c].expiresAt > clock /\ clock <= Copy[c].createdAt + MaxAdAge
IsAcceptable(c) ==
    /\ IsFresh(c)
    /\ Copy[c].signed
    /\ score[Copy[c].peer] >= MinReputation

\* Mutant: only what is older than the one remembered is a replay.
CheckReplayOfOlder(c) == Copy[c].createdAt < seenAdvertisements[KeyOfCopy(c)]

\* checkReplayAttack.
CheckReplay(c) ==
    /\ seenAdvertisements[KeyOfCopy(c)] # 0
    /\ Copy[c].createdAt <= seenAdvertisements[KeyOfCopy(c)]

\* validateAdvertisement: what is no replay is remembered, also when it is refused, for
\* what was checked before, or what is checked after.
ValidateAdvertisement(c) ==
    /\ GetReputation(Copy[c].peer)
    /\ \/ /\ CheckReplay(c)
          /\ UNCHANGED <<seenAdvertisements, passed>>
       \/ /\ ~CheckReplay(c)
          /\ seenAdvertisements' = [seenAdvertisements EXCEPT ![KeyOfCopy(c)] = Copy[c].createdAt]
          /\ \/ /\ IsAcceptable(c)
                /\ passed' = [passed EXCEPT ![KeyOfCopy(c)] = Append(@, Copy[c].createdAt)]
             \/ UNCHANGED passed
    /\ UNCHANGED <<clock, monitoring, score, counts>>

Raised(n) == IF n > 100 THEN 100 ELSE n
Lowered(n, by) == IF n < by THEN 0 ELSE n - by

UpdateReputation(p, success, weight) ==
    /\ score' = [score EXCEPT ![p] = IF success THEN Raised(@ + 2 * weight)
                                     ELSE Lowered(@, 5 * weight)]
    /\ metAt' = [metAt EXCEPT ![p] = clock]
    /\ UNCHANGED <<clock, monitoring, seenAdvertisements, counts, passed>>

\* checkRateLimit, and the end of its window.
CheckRateLimit(p) ==
    /\ counts[p] < OperationLimit
    /\ counts' = [counts EXCEPT ![p] = @ + 1]
    /\ UNCHANGED <<clock, monitoring, seenAdvertisements, score, metAt, passed>>

OperationWindowEnds(p) ==
    /\ counts' = [counts EXCEPT ![p] = 0]
    /\ UNCHANGED <<clock, monitoring, seenAdvertisements, score, metAt, passed>>

StartMonitoring ==
    /\ ~monitoring /\ monitoring' = TRUE
    /\ UNCHANGED <<clock, validatorMemory, passed>>

StopMonitoring ==
    /\ monitoring /\ monitoring' = FALSE
    /\ UNCHANGED <<clock, validatorMemory, passed>>

IsOld(time) == time # 0 /\ clock > time + KeepFor

\* cleanup goes by the time of creation of an advertisement.
CleanupSeen == [k \in AdKeys |-> IF IsOld(seenAdvertisements[k]) THEN 0 ELSE seenAdvertisements[k]]

CleanupValidator ==
    /\ monitoring
    /\ seenAdvertisements' = CleanupSeen
    /\ score' = [p \in AdPeers |-> IF IsOld(metAt[p]) THEN NewScore ELSE score[p]]
    /\ metAt' = [p \in AdPeers |-> IF IsOld(metAt[p]) THEN 0 ELSE metAt[p]]
    /\ UNCHANGED <<clock, monitoring, counts, passed>>

ValidatorTick ==
    /\ clock < MaxClock
    /\ clock' = clock + 1
    /\ UNCHANGED <<monitoring, validatorMemory, passed>>

ValidatorNext ==
    \/ \E c \in Copies : ValidateAdvertisement(c)
    \/ \E p \in AdPeers :
           \/ CheckRateLimit(p) \/ OperationWindowEnds(p)
           \/ \E success \in BOOLEAN, weight \in Weights : UpdateReputation(p, success, weight)
    \/ StartMonitoring \/ StopMonitoring \/ CleanupValidator \/ ValidatorTick

ValidatorSpec == ValidatorInit /\ [][ValidatorNext]_securityCheckVars

-----------------------------------------------------------------------------
\* Of each advertisement only newer versions pass, so none passes again: what the replay
\* check has forgotten is too old by then, whenever it was created and cleanups fall.
OnlyNewerPasses ==
    \A k \in AdKeys : \A i, j \in DOMAIN passed[k] : i < j => passed[k][i] < passed[k][j]
=============================================================================
