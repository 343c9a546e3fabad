---------------------------- MODULE MCDiscovery ----------------------------
(***************************************************************************)
(* Instances of discovery for TLC: part says whether the advertiser, the   *)
(* extension on top of it, the discoverer or the security validator runs   *)
(* by itself, or a node that advertises with one that discovers.           *)
(***************************************************************************)
EXTENDS Discovery, DiscoverySecurity

CONSTANTS a1, a2, c1, c2, c3, s1, s2, s3, Parts

\* Two calls for the id of a signer and one for a request, which expires soon.
AdsOfCalls == [c \in Calls |-> IF c = c3 THEN a2 ELSE a1]
Lives == [c \in Calls |-> IF c = c3 THEN 1 ELSE MaxLeft]
Profiles == [a \in Ads |-> IF a = a1
    THEN [topic |-> "signers", capabilities |-> {"musig2"}, reputation |-> 60, custom |-> {},
          offer |-> [complete |-> TRUE, transactionTypes |-> {"swap"}, minAmount |-> {1},
                     maxAmount |-> {5}, publicKey |-> "k1", maturationBlocks |-> {},
                     totalBurned |-> {3}]]
    ELSE [topic |-> "requests", capabilities |-> {}, reputation |-> 50,
          custom |-> {<<"type", "swap">>},
          offer |-> [complete |-> TRUE, transactionType |-> {"swap"}, amount |-> {3},
                     requiredPublicKeys |-> {"k1", "k2"}, creatorPeerId |-> "q",
                     expiresAt |-> 1]]]

\* Who looks for signers, takes over with a wish nobody meets, and looks for requests.
Signers(caps, reputation, most) ==
    [topic |-> "signers", capabilities |-> caps, minReputation |-> reputation,
     radius |-> Ads, custom |-> {},
     wants |-> [transactionTypes |-> {{"swap", "spend"}}, minAmount |-> {5},
                maxAmount |-> {most}, requiredPublicKeys |-> {{"k1"}},
                minMaturation |-> {7}, minTotalBurned |-> {3}]]
Wanted == [s \in Subs |->
    IF s = s1 THEN Signers({"musig2"}, 60, 1)
    ELSE IF s = s2 THEN Signers({"musig2"}, 61, 0)
    ELSE [topic |-> "requests", capabilities |-> {}, minReputation |-> 50,
          radius |-> {a2}, custom |-> {<<"type", "swap">>},
          wants |-> [transactionType |-> {"swap"}, amountRange |-> {[min |-> {3}, max |-> {}]},
                     includesPublicKeys |-> {{"k2"}}, creatorPeerIds |-> {{"q"}},
                     expiresAfter |-> {1}]]]

\* Versions of one advertisement, and a copy that is not signed before the one that is;
\* the clock of its peer may be ahead.
Versions == [v \in Copies |-> [peer |-> "q", id |-> "a", expiresAt |-> 4,
                               createdAt |-> IF v = 4 THEN 2 ELSE v, signed |-> v # 4]]

VARIABLE part

partVars == <<part, discoveryVars, securityCheckVars>>

PartInit == part \in Parts /\ DiscoveryInit /\ ValidatorInit

\* Bound: together, nobody subscribes and the signer is advertised once.
Together == DiscoveryNext /\ subState' = subState /\ c2 \notin used'

\* Bound: s1 and s3 are not made in one behaviour; either may be beside s2.
Alone == SearchNext /\ \E s \in {s1, s3} : subState'[s] = "new"

DiscoveryPartNext ==
    \/ /\ part = "advertiser" /\ AdvertiserNext
       /\ UNCHANGED <<extensionOnlyVars, discovererVars, onTopic>>
    \/ part = "extension" /\ ExtensionNext /\ UNCHANGED <<discovererVars, onTopic>>
    \/ part = "discoverer" /\ Alone /\ UNCHANGED <<extensionVars, onTopic>>
    \/ part = "discovery" /\ Together

PartNext ==
    /\ UNCHANGED part
    /\ \/ DiscoveryPartNext /\ UNCHANGED securityCheckVars
       \/ part = "security" /\ ValidatorNext /\ UNCHANGED discoveryVars

PartSpec == PartInit /\ [][PartNext]_partVars

\* For the two nodes together: the other parts ask for no fairness.
FairPartSpec == PartSpec /\ DiscoveryFairness
=============================================================================
