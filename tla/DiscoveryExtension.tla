------------------------- MODULE DiscoveryExtension -------------------------
(***************************************************************************)
(* The advertising half of MuSig2Discovery                                 *)
(* (src/lib/musig2/discovery-extension.ts): one signer advertisement, its  *)
(* signing requests, and the interval that refreshes them all, on top of a *)
(* DHTAdvertiser of its own.                                               *)
(*                                                                         *)
(* The id of a signer advertisement is made from the public key, that of a *)
(* request is new for each call.  The options of the advertiser are those  *)
(* of this class: a signer is refreshed, a request is not.  start is       *)
(* called once before each stop: a second call would set a second interval *)
(* over the first, which no stop could clear.                              *)
(***************************************************************************)
EXTENDS Advertiser, Sequences, SequencesExt

CONSTANTS
    SignerCalls,   \* the calls of advertiseSigner; all others are requests
    MaxRequests,   \* maxConcurrentRequests
    MayStop        \* bound: the application stops the extension

RequestCalls == Calls \ SignerCalls
RequestIds == {AdOf[c] : c \in RequestCalls}

ASSUME ExtensionAssumption ==
    /\ SignerCalls \subseteq Calls
    /\ AutoRefresh = SignerCalls
    /\ \A c, d \in RequestCalls : AdOf[c] = AdOf[d] => c = d
    /\ MaxRequests \in Nat /\ MayStop \in BOOLEAN

VARIABLES
    running,      \* started, with the interval of refreshActiveAdvertisements
    signerAd,     \* activeSignerAd
    requestAds,   \* the keys of activeRequestAds, in the order of insertion
    nextSweep,    \* units until the interval fires
    swept         \* the requests that this sweep has come by

extensionOnlyVars == <<running, signerAd, requestAds, nextSweep, swept>>
extensionVars == <<advertiserVars, extensionOnlyVars>>

ExtensionTypeOK ==
    /\ AdvertiserTypeOK
    /\ running \in BOOLEAN
    /\ signerAd \in {AdOf[c] : c \in SignerCalls} \cup {NoAd}
    /\ requestAds \in Seq(RequestIds)
    /\ nextSweep \in 0 .. RefreshInterval
    /\ swept \subseteq RequestIds

ExtensionInit ==
    /\ AdvertiserInit
    /\ running = FALSE
    /\ signerAd = NoAd
    /\ requestAds = <<>>
    /\ nextSweep = 0
    /\ swept = {}

-----------------------------------------------------------------------------
StartExtension ==
    /\ ~running
    /\ StartAdvertiser
    /\ running' = TRUE
    /\ nextSweep' = RefreshInterval
    /\ UNCHANGED <<signerAd, requestAds, swept>>

\* advertiseSigner up to its await.
AdvertiseSigner(c) ==
    /\ c \in SignerCalls
    /\ signerAd = NoAd
    /\ Advertise(c)
    /\ UNCHANGED extensionOnlyVars

\* createSigningRequest up to its await.
CreateSigningRequest(c) ==
    /\ c \in RequestCalls
    /\ Len(requestAds) < MaxRequests
    /\ Advertise(c)
    /\ UNCHANGED extensionOnlyVars

\* Either call after its await.
Advertised(p) ==
    /\ p.kind = "advertise"
    /\ EndPublication(p)
    /\ \/ /\ p.call \in SignerCalls
          /\ signerAd' = AdOf[p.call]
          /\ UNCHANGED requestAds
       \/ /\ p.call \in RequestCalls
          /\ requestAds' = Append(requestAds, AdOf[p.call])
          /\ UNCHANGED signerAd
    /\ UNCHANGED <<running, nextSweep, swept>>

\* The advertiser's own withdraw, which says nothing of an id it does not have.
WithdrawQuietly(as) ==
    /\ WithdrawAll({a \in as : active[a] # NoAd})
    /\ UNCHANGED <<used, left, authentic, due, publishing, operations>>

\* Mutant: the slot is cleared, the advertisement is not withdrawn.
WithdrawSignerForgets ==
    /\ signerAd # NoAd
    /\ signerAd' = NoAd
    /\ UNCHANGED <<advertiserVars, running, requestAds, nextSweep, swept>>

WithdrawSigner ==
    /\ signerAd # NoAd
    /\ WithdrawQuietly({signerAd})
    /\ signerAd' = NoAd
    /\ UNCHANGED <<advertising, running, requestAds, nextSweep, swept>>

WithdrawSigningRequest(a) ==
    /\ a \in Range(requestAds)
    /\ WithdrawQuietly({a})
    /\ requestAds' = RemoveFirst(requestAds, a)
    /\ UNCHANGED <<advertising, running, signerAd, nextSweep, swept>>

\* The place of the next request, and the record that the advertiser has for it.
NextRequest(visited) == SelectInSeq(requestAds, LAMBDA a : a \notin visited)

NextToRefresh(visited) ==
    IF NextRequest(visited) = 0 THEN NoAd ELSE active[requestAds[NextRequest(visited)]]

\* refreshActiveAdvertisements goes on with the next request, with the other calls in
\* flight: one that the advertiser does not have makes it throw, and the sweep is over.
SweepRequests(visited, others) ==
    \/ /\ NextToRefresh(visited) # NoAd
       /\ StartRefresh(NextToRefresh(visited), NextToRefresh(visited) \in AutoRefresh,
                       "sweep", others)
       /\ swept' = visited \cup {requestAds[NextRequest(visited)]}
    \/ /\ NextToRefresh(visited) = NoAd
       /\ swept' = {}
       /\ publishing' = others
       /\ UNCHANGED <<left, authentic>>

\* The interval fires: the signer comes first.
SweepStarts ==
    /\ running
    /\ nextSweep = 0
    /\ nextSweep' = RefreshInterval
    /\ \/ /\ signerAd # NoAd /\ active[signerAd] # NoAd
          /\ StartRefresh(active[signerAd], active[signerAd] \in AutoRefresh, "sweep",
                          publishing)
          /\ UNCHANGED swept
       \/ /\ signerAd # NoAd /\ active[signerAd] = NoAd
          /\ UNCHANGED <<left, authentic, publishing, swept>>
       \/ /\ signerAd = NoAd
          /\ SweepRequests({}, publishing)
    /\ UNCHANGED <<advertising, active, used, armed, due, handle, operations, running,
                   signerAd, requestAds>>

\* A refresh is done: one of the sweep lets it go on.
Refreshed(p) ==
    /\ Published(p)
    /\ Rearm(p)
    /\ \/ /\ p.kind = "refresh"
          /\ publishing' = publishing \ {p}
          /\ UNCHANGED <<left, authentic, swept>>
       \/ /\ p.kind = "sweep"
          /\ SweepRequests(swept, publishing \ {p})
    /\ UNCHANGED <<advertising, active, used, operations, running, signerAd, requestAds,
                   nextSweep>>

\* stop: clearInterval does not end a sweep that is under way.
StopExtension ==
    /\ MayStop
    /\ running
    /\ running' = FALSE
    /\ StopAdvertiser
    /\ signerAd' = NoAd
    /\ requestAds' = <<>>
    /\ UNCHANGED <<nextSweep, swept>>

ExtensionTick ==
    /\ running => nextSweep > 0
    /\ AdvertiserTick
    /\ nextSweep' = IF running THEN nextSweep - 1 ELSE 0
    /\ UNCHANGED <<running, signerAd, requestAds, swept>>

\* What the advertiser does of itself.
AdvertiserAlone ==
    /\ RateWindowEnds \/ CleanupExpiredAds \/ \E c \in Calls : RefreshTimerFires(c)
    /\ UNCHANGED extensionOnlyVars

\* All but the publications and the passing of time.
ExtensionStep ==
    \/ StartExtension \/ StopExtension \/ AdvertiserAlone
    \/ WithdrawSigner \/ SweepStarts
    \/ \E c \in Calls : AdvertiseSigner(c) \/ CreateSigningRequest(c)
    \/ \E a \in RequestIds : WithdrawSigningRequest(a)
    \/ \E p \in publishing : Advertised(p) \/ Refreshed(p)

ExtensionPublish(p) == Publish(p) /\ UNCHANGED extensionOnlyVars

ExtensionNext ==
    \/ ExtensionStep \/ ExtensionTick
    \/ \E p \in publishing : ExtensionPublish(p)

ExtensionSpec == ExtensionInit /\ [][ExtensionNext]_extensionVars

-----------------------------------------------------------------------------
\* While this class runs, what its advertiser keeps alive can be withdrawn: it is in a
\* slot of this class, or the call that will put it there is in flight.
ActiveIsWithdrawable ==
    \A a \in Ads : running /\ active[a] # NoAd =>
        \/ a = signerAd \/ a \in Range(requestAds)
        \/ \E p \in publishing : p.kind = "advertise" /\ AdOf[p.call] = a
=============================================================================
