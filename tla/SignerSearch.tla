---------------------------- MODULE SignerSearch ----------------------------
(***************************************************************************)
(* The discovering half of MuSig2Discovery                                 *)
(* (src/lib/musig2/discovery-extension.ts) on top of a DHTDiscoverer of    *)
(* its own: the searches for signers and signing requests, the             *)
(* subscriptions to either, and joining a request that is found.           *)
(*                                                                         *)
(* A signer says in Profile[a].offer, and a subscriber asks in             *)
(* Criteria[s].wants, what is particular to MuSig2.  What may be left out  *)
(* there is a set with at most one member.  The searches of the            *)
(* application have the criteria of one of its subscriptions.              *)
(***************************************************************************)
EXTENDS Discoverer

ASSUME SearchAssumption == {"signers", "requests"} \subseteq Topics

-----------------------------------------------------------------------------
\* matchesSignerCriteria: a bound on what the signer does not say is met.
MatchesSignerCriteria(offer, wants) ==
    /\ \A types \in wants.transactionTypes : types \cap offer.transactionTypes # {}
    /\ \A most \in offer.maxAmount, min \in wants.minAmount : most >= min
    /\ \A least \in offer.minAmount, max \in wants.maxAmount : least <= max
    /\ \A keys \in wants.requiredPublicKeys : offer.publicKey \in keys
    /\ \A blocks \in offer.maturationBlocks, min \in wants.minMaturation : blocks >= min
    /\ \A burned \in offer.totalBurned, min \in wants.minTotalBurned : burned >= min

\* matchesRequestCriteria: bounds on the amount need one.
MatchesRequestCriteria(offer, wants) ==
    /\ wants.transactionType \subseteq offer.transactionType
    /\ \A range \in wants.amountRange :
           \E amount \in offer.amount :
               /\ \A min \in range.min : amount >= min
               /\ \A max \in range.max : amount <= max
    /\ \A keys \in wants.includesPublicKeys : keys \subseteq offer.requiredPublicKeys
    /\ \A peers \in wants.creatorPeerIds : offer.creatorPeerId \in peers
    /\ \A time \in wants.expiresAfter : offer.expiresAt >= time

\* isSignerAdvertisement and isSigningRequestAdvertisement: all fields are there.
IsSigner(a) == TopicOf[a] = "signers" /\ Profile[a].offer.complete
IsRequest(a) == TopicOf[a] = "requests" /\ Profile[a].offer.complete

WantsSigner(s, a) == IsSigner(a) /\ MatchesSignerCriteria(Profile[a].offer, Criteria[s].wants)
WantsRequest(s, a) ==
    IsRequest(a) /\ MatchesRequestCriteria(Profile[a].offer, Criteria[s].wants)

-----------------------------------------------------------------------------
\* What discoverSigners and discoverSigningRequests return.
SignersFound(s) == {a \in Discover(s) : WantsSigner(s, a)}
RequestsFound(s) == {a \in Discover(s) : WantsRequest(s, a)}

\* What the wrappers that subscribeToSigners and subscribeToSigningRequests put around
\* the callback of the application have let through.
SignersTold(s) == {a \in Ads : notified[s][a] > 0 /\ WantsSigner(s, a)}
RequestsTold(s) == {a \in Ads : notified[s][a] > 0 /\ WantsRequest(s, a)}

\* Either search, whose filter emits an event for what it lets through, changes nothing
\* here but the count of discover.
SearchFor(t) ==
    /\ discovering /\ MayQuery(t)
    /\ CountQuery(t)
    /\ UNCHANGED <<discovering, cacheVars, topicHandler, subState, seen, quiet, fetched,
                   immediates, notified>>

DiscoverSigners == SearchFor("signers")
DiscoverSigningRequests == SearchFor("requests")

\* joinSigningRequest searches too, for all that is cached, which is fewer than its limit
\* of 100 here; the request that it finds is joined, which is an event.
CanJoin(a, key) == Found(a) /\ IsRequest(a) /\ key \in Profile[a].offer.requiredPublicKeys

SearchNext == DiscovererNext \/ DiscoverSigners \/ DiscoverSigningRequests

SearchSpec == DiscovererInit /\ [][SearchNext]_discovererVars

-----------------------------------------------------------------------------
\* A subscription with fetchExisting makes polling superfluous ("more efficient than
\* polling with discoverSigners()"): while it has the handler of its topic, all that a
\* search with its criteria finds it has been told of, or will be by setImmediate.
ListenerMissesNothing ==
    \A s \in fetched : topicHandler[SubTopic[s]] = HandlerOf(s) =>
        \A a \in SignersFound(s) \cup RequestsFound(s) :
            \/ a \in SignersTold(s) \cup RequestsTold(s)
            \/ [sub |-> s, ad |-> a] \in immediates
=============================================================================
