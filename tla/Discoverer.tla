----------------------------- MODULE Discoverer -----------------------------
(***************************************************************************)
(* DHTDiscoverer (src/lib/discovery/dht-discoverer.ts): the cache that     *)
(* discover() reads, the subscriptions that call back, and the one handler *)
(* that P2PCoordinator keeps for each GossipSub topic                      *)
(* (subscribeToTopic and unsubscribeFromTopic of src/lib/coordinator.ts).  *)
(*                                                                         *)
(* Nothing here waits but setImmediate, so each method is one step, and a  *)
(* callback for what was in the cache already is a step of its own.  A     *)
(* message is a copy of an advertisement: the units until it expires, and  *)
(* whether its signature covers that.  A unit is long against the cleanup  *)
(* interval of five minutes.                                               *)
(***************************************************************************)
EXTENDS Advertisement

CONSTANTS
    Topics,      \* one for each protocol
    Profile,     \* Profile[a]: what a says of its signer or request
    Subs,        \* calls of subscribe, each with an id of its own
    Criteria,    \* Criteria[s]: what s asks for
    MaxQueries,  \* calls of discover for a protocol in a window, 100 in the code
    Fetches,     \* the subscriptions with the option fetchExisting
    Dedups,      \* the subscriptions with the option deduplicate
    CacheAge,    \* units until an entry that nobody published again is deleted
    QuietLimit   \* units until a subscription that hears nothing is ended

\* A location is named by the advertisements in its radius; those that give none are in
\* every radius.  Custom criteria are pairs of a key and its value.
ASSUME DiscovererAssumption ==
    /\ \A a \in Ads : Profile[a].topic \in Topics /\ Profile[a].reputation \in Nat
    /\ \A s \in Subs : Criteria[s].topic \in Topics /\ Criteria[s].minReputation \in Nat
    /\ MaxQueries \in Nat
    /\ Fetches \subseteq Subs /\ Dedups \subseteq Subs
    /\ CacheAge \in Nat \ {0} /\ QuietLimit \in Nat \ {0}

TopicOf == [a \in Ads |-> Profile[a].topic]
SubTopic == [s \in Subs |-> Criteria[s].topic]

NoHandler == [kind |-> "none"]
AutoHandler == [kind |-> "auto"]
HandlerOf(s) == [kind |-> "subscription", of |-> s]
Handlers == {NoHandler, AutoHandler} \cup {HandlerOf(s) : s \in Subs}

VARIABLES
    discovering,  \* started, with the cleanup timer
    cached,       \* the keys of cache
    entryLeft,    \* entryLeft[a]: units until the cached advertisement expires
    entryAge,     \* entryAge[a]: units since its timestamp
    entrySince,   \* entrySince[a]: units since its addedAt
    stored,       \* the keys of externalCache, whose entries are those of the cache or
                  \* those that were deleted there
    topicHandler, \* topicHandler[t]: the handler registered for the topic
    subState,     \* subState[s]: "new", "active" or "ended"
    seen,         \* seen[s]: seenAdvertisements
    quiet,        \* quiet[s]: units since lastUpdate
    queries,      \* queries[t]: rateLimitTracker
    fetched,      \* history: the subscriptions that have fetched what was cached
    immediates,   \* callbacks that setImmediate will run
    notified      \* notified[s][a]: calls of the callback, up to two

cacheVars == <<cached, entryLeft, entryAge, entrySince, stored>>
subVars == <<topicHandler, subState, seen, quiet, queries, fetched, immediates, notified>>
discovererVars == <<discovering, cacheVars, subVars>>

DiscovererTypeOK ==
    /\ discovering \in BOOLEAN
    /\ cached \subseteq stored /\ stored \subseteq Ads
    /\ entryLeft \in [Ads -> 0 .. MaxLeft]
    /\ entryAge \in [Ads -> 0 .. CacheAge] /\ entrySince \in [Ads -> 0 .. CacheAge]
    /\ topicHandler \in [Topics -> Handlers]
    /\ subState \in [Subs -> {"new", "active", "ended"}]
    /\ seen \in [Subs -> SUBSET Ads]
    /\ quiet \in [Subs -> 0 .. QuietLimit]
    /\ queries \in [Topics -> 0 .. MaxQueries]
    /\ fetched \subseteq Fetches
    /\ immediates \subseteq [sub : Subs, ad : Ads]
    /\ notified \in [Subs -> [Ads -> 0 .. 2]]

DiscovererInit ==
    /\ discovering = FALSE
    /\ cached = {} /\ stored = {}
    /\ entryLeft = [a \in Ads |-> 0]
    /\ entryAge = [a \in Ads |-> 0]
    /\ entrySince = [a \in Ads |-> 0]
    /\ topicHandler = [t \in Topics |-> NoHandler]
    /\ subState = [s \in Subs |-> "new"]
    /\ seen = [s \in Subs |-> {}]
    /\ quiet = [s \in Subs |-> 0]
    /\ queries = [t \in Topics |-> 0]
    /\ fetched = {}
    /\ immediates = {}
    /\ notified = [s \in Subs |-> [a \in Ads |-> 0]]

-----------------------------------------------------------------------------
(***************************************************************************)
(* What the handlers share.                                                *)
(***************************************************************************)
\* isValidAdvertisement.
IsValid(m) == HasTimeLeft(m.left)

\* verifyAdvertisementSignature.
IsSigned(m) == m.authentic

\* addToCache: an entry keeps the advertisement that it has, also an expired one, and
\* counts as new.
AddToCache(m) ==
    /\ cached' = cached \cup {m.ad}
    /\ stored' = stored \cup {m.ad}
    /\ entryAge' = [entryAge EXCEPT ![m.ad] = 0]
    /\ \/ m.ad \in cached /\ UNCHANGED <<entryLeft, entrySince>>
       \/ /\ m.ad \notin cached
          /\ entryLeft' = [entryLeft EXCEPT ![m.ad] = m.left]
          /\ entrySince' = [entrySince EXCEPT ![m.ad] = 0]

CallBack(s, a) ==
    notified' = [notified EXCEPT ![s][a] = IF @ = 2 THEN 2 ELSE @ + 1]

\* matchesCriteria.
MatchesCriteria(s, a) ==
    /\ Profile[a].topic = Criteria[s].topic
    /\ Criteria[s].capabilities \subseteq Profile[a].capabilities
    /\ Profile[a].reputation >= Criteria[s].minReputation
    /\ a \in Criteria[s].radius
    /\ Criteria[s].custom \subseteq Profile[a].custom

\* validateAdvertisementSecurity: the signature is checked again, and the result of that
\* is not looked at.
PassesSecurity(a) == HasTimeLeft(entryLeft[a]) /\ Profile[a].reputation >= 50

\* discover, of which subscriptions differ from what they hear later by PassesSecurity.
Found(a) == a \in cached /\ PassesSecurity(a)
Discover(s) == {a \in Ads : Found(a) /\ MatchesCriteria(s, a)}

\* checkRateLimits.
MayQuery(t) == queries[t] < MaxQueries
CountQuery(t) == queries' = [queries EXCEPT ![t] = @ + 1]

-----------------------------------------------------------------------------
\* subscribeToTopic that throws has touched nothing, without a node or GossipSub, or has
\* removed the handler of the topic, when GossipSub does not run.
LoseHandlers(lost) ==
    [t \in Topics |-> IF t \in lost THEN NoHandler ELSE topicHandler[t]]

\* start: a handler of its own for every common topic; where that fails it goes on.
StartDiscoverer ==
    /\ ~discovering
    /\ discovering' = TRUE
    /\ \E taken, lost \in SUBSET Topics :
           topicHandler' = [t \in Topics |-> IF t \in taken THEN AutoHandler
                                            ELSE LoseHandlers(lost)[t]]
    /\ UNCHANGED <<cacheVars, subState, seen, quiet, queries, fetched, immediates,
                   notified>>

\* Mutant: what is fetched is marked as seen only when its callback runs.
FetchExistingUnmarked(s, found) ==
    /\ immediates' = immediates \cup {[sub |-> s, ad |-> a] : a \in found}
    /\ UNCHANGED seen

\* fetchExisting: what is found is marked as seen, and its callbacks are queued.
FetchExisting(s, found) ==
    /\ immediates' = immediates \cup {[sub |-> s, ad |-> a] : a \in found}
    /\ seen' = [seen EXCEPT ![s] = found]

\* subscribe takes the handler of its topic from whoever has it.  What is in the
\* cache is fetched; when discover is refused, the subscription does without.
Subscribe(s) ==
    /\ discovering
    /\ subState[s] = "new"
    /\ subState' = [subState EXCEPT ![s] = "active"]
    /\ topicHandler' = [topicHandler EXCEPT ![SubTopic[s]] = HandlerOf(s)]
    /\ \/ /\ s \in Fetches /\ MayQuery(SubTopic[s])
          /\ CountQuery(SubTopic[s])
          /\ FetchExisting(s, Discover(s))
          /\ fetched' = fetched \cup {s}
       \/ /\ ~(s \in Fetches /\ MayQuery(SubTopic[s]))
          /\ UNCHANGED <<queries, fetched, immediates, seen>>
    /\ UNCHANGED <<discovering, cacheVars, quiet, notified>>

\* subscribe throws when subscribeToTopic does, and leaves its record behind, active.
SubscribeThrows(s) ==
    /\ discovering
    /\ subState[s] = "new"
    /\ subState' = [subState EXCEPT ![s] = "active"]
    /\ \E lost \in SUBSET {SubTopic[s]} : topicHandler' = LoseHandlers(lost)
    /\ UNCHANGED <<discovering, cacheVars, seen, quiet, queries, fetched, immediates,
                   notified>>

\* Mutant: the callback runs though the subscription has ended.
RunImmediateAnyway(i) ==
    /\ immediates' = immediates \ {i}
    /\ CallBack(i.sub, i.ad)
    /\ UNCHANGED <<discovering, cacheVars, topicHandler, subState, seen, quiet, queries,
                   fetched>>

\* Mutant: the deduplication is looked at again, when the advertisement is marked already.
RunImmediateDeduplicates(i) ==
    /\ immediates' = immediates \ {i}
    /\ \/ i.ad \notin seen[i.sub] /\ CallBack(i.sub, i.ad)
       \/ i.ad \in seen[i.sub] /\ UNCHANGED notified
    /\ UNCHANGED <<discovering, cacheVars, topicHandler, subState, seen, quiet, queries,
                   fetched>>

RunImmediate(i) ==
    /\ immediates' = immediates \ {i}
    /\ \/ subState[i.sub] = "active" /\ CallBack(i.sub, i.ad)
       \/ subState[i.sub] # "active" /\ UNCHANGED notified
    /\ UNCHANGED <<discovering, cacheVars, topicHandler, subState, seen, quiet, queries,
                   fetched>>

\* Mutant: the record is deleted, and the node keeps the handler.
EndSubscriptionsKeepHandlers(ss) ==
    /\ subState' = [s \in Subs |-> IF s \in ss THEN "ended" ELSE subState[s]]
    /\ UNCHANGED topicHandler

\* unsubscribe, for a set of subscriptions: the handlers of their topics are removed,
\* whoever's they are.
EndSubscriptions(ss) ==
    /\ subState' = [s \in Subs |-> IF s \in ss THEN "ended" ELSE subState[s]]
    /\ topicHandler' = [t \in Topics |-> IF \E s \in ss : SubTopic[s] = t
                                         THEN NoHandler ELSE topicHandler[t]]

Unsubscribe(s) ==
    /\ subState[s] = "active"
    /\ EndSubscriptions({s})
    /\ UNCHANGED <<discovering, cacheVars, seen, quiet, queries, fetched, immediates,
                   notified>>

\* stop leaves the handlers of start where no subscription has taken them over.
StopDiscoverer ==
    /\ discovering
    /\ discovering' = FALSE
    /\ EndSubscriptions({s \in Subs : subState[s] = "active"})
    /\ UNCHANGED <<cacheVars, seen, quiet, queries, fetched, immediates, notified>>

\* handleAutoSubscriptionMessage puts what is valid into the cache.
AutoTakes(m) == topicHandler[TopicOf[m.ad]] = AutoHandler /\ IsValid(m) /\ IsSigned(m)

HandleAutoSubscription(m) ==
    /\ AutoTakes(m)
    /\ AddToCache(m)
    /\ UNCHANGED <<discovering, subVars>>

\* handleGossipSubMessage looks for a repetition before it comes to the cache.
SubscriptionTakes(s, m) ==
    /\ topicHandler[TopicOf[m.ad]] = HandlerOf(s)
    /\ subState[s] = "active"
    /\ IsValid(m) /\ IsSigned(m)
    /\ MatchesCriteria(s, m.ad)
    /\ s \in Dedups => m.ad \notin seen[s]

HandleGossipSub(s, m) ==
    /\ SubscriptionTakes(s, m)
    /\ seen' = [seen EXCEPT ![s] = @ \cup {m.ad}]
    /\ quiet' = [quiet EXCEPT ![s] = 0]
    /\ AddToCache(m)
    /\ CallBack(s, m.ad)
    /\ UNCHANGED <<discovering, topicHandler, subState, queries, fetched, immediates>>

TakesMessage(m) == AutoTakes(m) \/ \E s \in Subs : SubscriptionTakes(s, m)

HandleMessage(m) ==
    HandleAutoSubscription(m) \/ \E s \in Subs : HandleGossipSub(s, m)

\* clearCache, for a protocol or all.
ClearCache(ts) ==
    /\ cached' = {a \in cached : TopicOf[a] \notin ts}
    /\ UNCHANGED <<discovering, entryLeft, entryAge, entrySince, stored, subVars>>

Stale == {a \in cached : entryAge[a] = CacheAge}
Forgotten == {s \in Subs : subState[s] = "active" /\ quiet[s] = QuietLimit}

\* cleanupCache and cleanupSubscriptions.
CleanupDiscoverer ==
    /\ discovering
    /\ Stale \cup Forgotten # {}
    /\ cached' = cached \ Stale
    /\ EndSubscriptions(Forgotten)
    /\ UNCHANGED <<discovering, entryLeft, entryAge, entrySince, stored, seen, quiet,
                   queries, fetched, immediates, notified>>

\* The process ends; the next one has only the external cache, and of that what has
\* not expired (restoreFromExternalCache).
RestartDiscoverer ==
    /\ discovering' = FALSE
    /\ cached' = {a \in stored : entryLeft[a] > 0}
    /\ entryAge' = entrySince
    /\ topicHandler' = [t \in Topics |-> NoHandler]
    /\ subState' = [s \in Subs |-> IF subState[s] = "active" THEN "ended" ELSE subState[s]]
    /\ queries' = [t \in Topics |-> 0]
    /\ immediates' = {}
    /\ UNCHANGED <<entryLeft, entrySince, stored, seen, quiet, fetched, notified>>

DiscovererIdle == immediates = {} /\ (discovering => Stale \cup Forgotten = {})

\* A unit passes.
DiscovererTick ==
    /\ DiscovererIdle
    /\ entryLeft' = [a \in Ads |-> IF entryLeft[a] = 0 THEN 0 ELSE entryLeft[a] - 1]
    /\ entryAge' = [a \in Ads |-> IF a \in cached /\ entryAge[a] < CacheAge
                                  THEN entryAge[a] + 1 ELSE entryAge[a]]
    /\ entrySince' = [a \in Ads |-> IF a \in stored /\ entrySince[a] < CacheAge
                                    THEN entrySince[a] + 1 ELSE entrySince[a]]
    /\ quiet' = [s \in Subs |-> IF subState[s] = "active" /\ quiet[s] < QuietLimit
                                THEN quiet[s] + 1 ELSE quiet[s]]
    /\ queries' = [t \in Topics |-> 0]
    /\ UNCHANGED <<discovering, cached, stored, topicHandler, subState, seen, fetched,
                   immediates, notified>>

DiscovererNext ==
    \/ StartDiscoverer \/ StopDiscoverer \/ CleanupDiscoverer \/ RestartDiscoverer
    \/ DiscovererTick
    \/ \E s \in Subs : Subscribe(s) \/ SubscribeThrows(s) \/ Unsubscribe(s)
    \/ \E i \in immediates : RunImmediate(i)
    \/ \E m \in Messages : HandleMessage(m)
    \/ \E ts \in {Topics} \cup {{t} : t \in Topics} : ClearCache(ts)

DiscovererSpec == DiscovererInit /\ [][DiscovererNext]_discovererVars

-----------------------------------------------------------------------------
\* "With deduplicate: true, you only get notified once per advertisement" (HOWTO.md of
\* discovery), though an advertisement may be found in the cache and come over the topic
\* before the callback for the former has run.
NotifiedOnce == \A s \in Dedups, a \in Ads : notified[s][a] <= 1

\* No callback runs for a subscription that is not active, whichever way it ended.
SilentAfterUnsubscribe ==
    [][\A s \in Subs : notified'[s] # notified[s] =>
           subState[s] = "active" /\ subState'[s] = "active"]_discovererVars

\* A topic has the handler of a subscription only while that is active, so that none
\* is left behind when one is taken over, ended, forgotten or lost in a restart.
HandlersAreActive ==
    \A s \in Subs, t \in Topics :
        topicHandler[t] = HandlerOf(s) => subState[s] = "active" /\ SubTopic[s] = t
=============================================================================
