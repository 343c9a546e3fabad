------------------------------ MODULE Discovery ------------------------------
(***************************************************************************)
(* A node that advertises through MuSig2Discovery and one that discovers:  *)
(* the topics between them carry every published copy, in any order.       *)
(***************************************************************************)
EXTENDS DiscoveryExtension, SignerSearch

VARIABLE onTopic  \* published copies on their way

discoveryVars == <<extensionVars, discovererVars, onTopic>>

DiscoveryTypeOK == ExtensionTypeOK /\ DiscovererTypeOK /\ onTopic \subseteq Messages

DiscoveryInit == ExtensionInit /\ DiscovererInit /\ onTopic = {}

-----------------------------------------------------------------------------
\* publishToTopic at one node.
PublishToTopic(p) ==
    /\ ExtensionPublish(p)
    /\ onTopic' = onTopic \cup
           {[ad |-> AdOf[p.call], left |-> p.left, authentic |-> p.authentic]}
    /\ UNCHANGED discovererVars

\* The message event at the other: what no handler takes is gone.
DeliverOnTopic(m) ==
    /\ onTopic' = onTopic \ {m}
    /\ HandleMessage(m) \/ (~TakesMessage(m) /\ UNCHANGED discovererVars)
    /\ UNCHANGED extensionVars

DiscoveryTick ==
    /\ onTopic = {}
    /\ ExtensionTick /\ DiscovererTick
    /\ UNCHANGED onTopic

\* Here one of the three attempts to publish reaches the topic.
AdvertisingNode ==
    /\ ExtensionStep
    /\ \A p \in publishing \ publishing' : p.sent
    /\ UNCHANGED <<discovererVars, onTopic>>

DiscoveringNode ==
    /\ \/ StartDiscoverer \/ CleanupDiscoverer
       \/ \E s \in Subs : Subscribe(s) \/ SubscribeThrows(s) \/ Unsubscribe(s)
       \/ \E i \in immediates : RunImmediate(i)
    /\ UNCHANGED <<extensionVars, onTopic>>

PublishOne == \E p \in publishing : PublishToTopic(p)
DeliverOne == \E m \in onTopic : DeliverOnTopic(m)

DiscoveryNext ==
    AdvertisingNode \/ DiscoveringNode \/ DiscoveryTick \/ PublishOne \/ DeliverOne

DiscoverySpec == DiscoveryInit /\ [][DiscoveryNext]_discoveryVars

\* Timers of the advertiser fire and its calls go on after their awaits; so does the
\* cleanup of the discoverer.
AdvertiserGoesOn ==
    AdvertisingNode /\ (SweepStarts \/ AdvertiserAlone \/
                            \E p \in publishing : Advertised(p) \/ Refreshed(p))
DiscovererGoesOn == DiscoveringNode /\ CleanupDiscoverer

\* Time passes and publications arrive; the application owes nothing.
DiscoveryFairness ==
    /\ WF_discoveryVars(DiscoveryTick)
    /\ WF_discoveryVars(PublishOne) /\ WF_discoveryVars(DeliverOne)
    /\ WF_discoveryVars(AdvertiserGoesOn) /\ WF_discoveryVars(DiscovererGoesOn)

FairDiscoverySpec == DiscoverySpec /\ DiscoveryFairness

-----------------------------------------------------------------------------
\* What is advertised under an id that a listening node does not have is found there,
\* whatever happens to it at the advertiser once the call is made.
AdvertisedIsFound ==
    \A a \in Ads :
        /\ \E p \in publishing : AdOf[p.call] = a /\ p.kind = "advertise" /\ ~p.sent
        /\ topicHandler[TopicOf[a]] = AutoHandler /\ a \notin cached
        ~> Found(a)

\* A signer's advertisement that is kept active stays discoverable
\* ("Auto-refresh keeps advertisements alive", DISCOVERY_README.md).
ActiveStaysDiscoverable ==
    \A c \in SignerCalls :
        <>[](active[AdOf[c]] # NoAd /\ topicHandler[TopicOf[AdOf[c]]] = AutoHandler)
            => []<>Found(AdOf[c])
=============================================================================
