----------------------------- MODULE Advertiser -----------------------------
(***************************************************************************)
(* DHTAdvertiser (src/lib/discovery/dht-advertiser.ts): the advertisements *)
(* a node keeps, their refresh timers and the cleanup.                     *)
(*                                                                         *)
(* A record of activeAdvertisements is made by one call of advertise and   *)
(* is named by it, so that a record whose entry was deleted or replaced    *)
(* while the call still runs is told apart from its successor.  The only   *)
(* awaits that wait are those of publishToDHT, which never throws.         *)
(* validateAdvertisement, signAdvertisement and removeFromDHT wait for     *)
(* nothing: an await of one of them gives way to no timer and no message,  *)
(* only to other calls made in the same turn of the event loop.  Calls are *)
(* taken to be made in turns of their own here, so that advertise up to    *)
(* its store, and withdraw, are one step.                                  *)
(*                                                                         *)
(* Time is counted down in units that are long against a publication and   *)
(* against the cleanup interval of a minute: a unit passes only when       *)
(* nothing is in flight and nothing is due.                                *)
(***************************************************************************)
EXTENDS Advertisement

CONSTANTS
    Calls,            \* calls of advertise
    AdOf,             \* AdOf[c]: the id of the advertisement of call c
    Ttl,              \* Ttl[c]: units until it expires
    AutoRefresh,      \* the calls with the option autoRefresh
    RefreshInterval,  \* units between refreshes
    MaxOperations,    \* advertisements per rate limit window
    PublishFails,     \* all attempts to reach the topic may fail
    MaxPublications,  \* bound: no call of refresh while so many calls are in flight
    NoAd              \* no record under the id

ASSUME AdvertiserAssumption ==
    /\ AdOf \in [Calls -> Ads]
    /\ Ttl \in [Calls -> 0 .. MaxLeft]
    /\ AutoRefresh \subseteq Calls
    /\ RefreshInterval \in Nat \ {0}
    /\ MaxOperations \in Nat /\ MaxPublications \in Nat
    /\ PublishFails \in BOOLEAN
    /\ NoAd \notin Calls \cup Ads

VARIABLES
    advertising,  \* started, with its cleanup timer
    active,       \* active[a]: the record under id a in the map, or NoAd
    used,         \* the calls of advertise made
    left,         \* left[c]: units until the expiresAt of the record
    authentic,    \* the records whose signature covers their expiresAt
    armed,        \* the records with a refresh timer pending
    due,          \* due[c]: units until that timer fires
    handle,       \* the records whose refreshTimer is set, pending or fired
    publishing,   \* calls of advertise and refresh that await publishToDHT
    operations    \* advertisements counted in the rate limit window

advertiserVars == <<advertising, active, used, left, authentic, armed, due, handle,
                    publishing, operations>>

\* A publication has the message as it was when the call serialized it; a sweep is a
\* refresh called by the discovery extension for all that it has advertised.
Publication == [call : Calls, kind : {"advertise", "refresh", "sweep"}, rearm : BOOLEAN,
                left : 0 .. MaxLeft, authentic : BOOLEAN, sent : BOOLEAN]

AdvertiserTypeOK ==
    /\ advertising \in BOOLEAN
    /\ active \in [Ads -> Calls \cup {NoAd}]
    /\ \A a \in Ads : active[a] # NoAd => AdOf[active[a]] = a
    /\ used \subseteq Calls
    /\ left \in [Calls -> 0 .. MaxLeft] /\ due \in [Calls -> 0 .. RefreshInterval]
    /\ authentic \subseteq Calls /\ armed \subseteq handle /\ handle \subseteq Calls
    /\ publishing \subseteq Publication
    /\ operations \in 0 .. MaxOperations

AdvertiserInit ==
    /\ advertising = FALSE
    /\ active = [a \in Ads |-> NoAd]
    /\ used = {} /\ authentic = {} /\ armed = {} /\ handle = {} /\ publishing = {}
    /\ left = [c \in Calls |-> 0]
    /\ due = [c \in Calls |-> 0]
    /\ operations = 0

-----------------------------------------------------------------------------
StartAdvertiser ==
    /\ ~advertising
    /\ advertising' = TRUE
    /\ UNCHANGED <<active, used, left, authentic, armed, due, handle, publishing,
                   operations>>

\* validateAdvertisement: what has expired is refused.
IsValidAdvertisement(c) == HasTimeLeft(Ttl[c])

\* checkRateLimits.
WithinRateLimits == operations < MaxOperations

\* serializeForTransport: the message as it is now.
Serialized(c, kind, rearm) ==
    [call |-> c, kind |-> kind, rearm |-> rearm, left |-> left'[c],
     authentic |-> c \in authentic', sent |-> FALSE]

\* Mutant: what was signed is not what is published.
SignAdvertisementBefore(c) == authentic' = authentic \ {c}

\* signAdvertisement: the signature covers the expiry and all that is published.
SignAdvertisement(c) == authentic' = authentic \cup {c}

\* advertise up to its await: the signed record replaces any other of its id.
Advertise(c) ==
    /\ advertising
    /\ c \notin used
    /\ IsValidAdvertisement(c)
    /\ SignAdvertisement(c)
    /\ WithinRateLimits
    /\ operations' = operations + 1
    /\ used' = used \cup {c}
    /\ active' = [active EXCEPT ![AdOf[c]] = c]
    /\ left' = [left EXCEPT ![c] = Ttl[c]]
    /\ publishing' = publishing \cup {Serialized(c, "advertise", c \in AutoRefresh)}
    /\ UNCHANGED <<advertising, armed, due, handle>>

\* The window of the rate limit is over.
RateWindowEnds ==
    /\ operations > 0
    /\ operations' = 0
    /\ UNCHANGED <<advertising, active, used, left, authentic, armed, due, handle,
                   publishing>>

\* refresh up to its await, with the other calls in flight: the expiry is moved, under
\* the signature of the old one.
StartRefresh(c, rearm, kind, others) ==
    /\ left' = [left EXCEPT ![c] = Ttl[c]]
    /\ authentic' = authentic \ {c}
    /\ publishing' = others \cup {Serialized(c, kind, rearm)}

\* refresh, called with options that may say no to autoRefresh.
Refresh(a, rearm) ==
    /\ active[a] # NoAd
    /\ rearm => active[a] \in AutoRefresh
    /\ Cardinality(publishing) < MaxPublications
    /\ StartRefresh(active[a], rearm, "refresh", publishing)
    /\ UNCHANGED <<advertising, active, used, armed, due, handle, operations>>

\* publishToDHT has reached the topic; after three failures it goes on without.
Publish(p) ==
    /\ ~p.sent
    /\ publishing' = (publishing \ {p}) \cup {[p EXCEPT !.sent = TRUE]}
    /\ UNCHANGED <<advertising, active, used, left, authentic, armed, due, handle,
                   operations>>

SetupRefreshTimer(c) ==
    /\ armed' = armed \cup {c}
    /\ handle' = handle \cup {c}
    /\ due' = [due EXCEPT ![c] = RefreshInterval]

\* Mutant: the timer that has fired counts as cleared.
RearmIfPending(p) ==
    \/ /\ p.rearm /\ (p.kind = "advertise" \/ p.call \in armed)
       /\ SetupRefreshTimer(p.call)
    \/ /\ ~(p.rearm /\ (p.kind = "advertise" \/ p.call \in armed))
       /\ UNCHANGED <<armed, due, handle>>

\* advertise and refresh after their await: neither looks at the map again.  A
\* refresh arms the timer only if the record has one that nobody has cleared.
Rearm(p) ==
    \/ /\ p.rearm /\ (p.kind = "advertise" \/ p.call \in handle)
       /\ SetupRefreshTimer(p.call)
    \/ /\ ~(p.rearm /\ (p.kind = "advertise" \/ p.call \in handle))
       /\ UNCHANGED <<armed, due, handle>>

Published(p) == p.sent \/ PublishFails

EndPublication(p) ==
    /\ Published(p)
    /\ publishing' = publishing \ {p}
    /\ Rearm(p)
    /\ UNCHANGED <<advertising, active, used, left, authentic, operations>>

\* The refresh timer of record c: it refreshes what its id has in the map by now.
RefreshTimerFires(c) ==
    /\ c \in armed
    /\ due[c] = 0
    /\ armed' = armed \ {c}
    /\ \/ /\ active[AdOf[c]] # NoAd
          /\ StartRefresh(active[AdOf[c]], active[AdOf[c]] \in AutoRefresh, "refresh",
                          publishing)
       \/ /\ active[AdOf[c]] = NoAd
          /\ UNCHANGED <<left, authentic, publishing>>
    /\ UNCHANGED <<advertising, active, used, due, handle, operations>>

\* Mutant: the timer is forgotten, not cleared.
WithdrawAllKeepsTimers(as) ==
    LET cs == {active[a] : a \in as} IN
    /\ active' = [a \in Ads |-> IF a \in as THEN NoAd ELSE active[a]]
    /\ handle' = handle \ cs
    /\ UNCHANGED armed

\* withdraw, for a set of ids.
WithdrawAll(as) ==
    LET cs == {active[a] : a \in as} IN
    /\ active' = [a \in Ads |-> IF a \in as THEN NoAd ELSE active[a]]
    /\ armed' = armed \ cs
    /\ handle' = handle \ cs

Withdraw(a) ==
    /\ active[a] # NoAd
    /\ WithdrawAll({a})
    /\ UNCHANGED <<advertising, used, left, authentic, due, publishing, operations>>

Expired == {a \in Ads : active[a] # NoAd /\ left[active[a]] = 0}

\* cleanupExpiredAdvertisements, every minute.
CleanupExpiredAds ==
    /\ advertising
    /\ Expired # {}
    /\ WithdrawAll(Expired)
    /\ UNCHANGED <<advertising, used, left, authentic, due, publishing, operations>>

StopAdvertiser ==
    /\ advertising
    /\ advertising' = FALSE
    /\ WithdrawAll({a \in Ads : active[a] # NoAd})
    /\ UNCHANGED <<used, left, authentic, due, publishing, operations>>

\* A unit passes.
AdvertiserIdle ==
    /\ publishing = {}
    /\ \A c \in armed : due[c] > 0
    /\ Expired = {}

Less(n) == IF n = 0 THEN 0 ELSE n - 1

AdvertiserTick ==
    /\ AdvertiserIdle
    /\ left' = [c \in Calls |-> Less(left[c])]
    /\ due' = [c \in Calls |-> IF c \in armed THEN due[c] - 1 ELSE due[c]]
    /\ operations' = 0
    /\ UNCHANGED <<advertising, active, used, authentic, armed, handle, publishing>>

AdvertiserNext ==
    \/ StartAdvertiser \/ StopAdvertiser \/ RateWindowEnds
    \/ CleanupExpiredAds \/ AdvertiserTick
    \/ \E c \in Calls : Advertise(c) \/ RefreshTimerFires(c)
    \/ \E a \in Ads : Withdraw(a) \/ \E rearm \in BOOLEAN : Refresh(a, rearm)
    \/ \E p \in publishing : Publish(p) \/ EndPublication(p)

AdvertiserSpec == AdvertiserInit /\ [][AdvertiserNext]_advertiserVars

-----------------------------------------------------------------------------
\* An advertisement with autoRefresh is never left to expire, whatever calls of
\* advertise, refresh and withdraw for its id overlap: its record is alive, and has
\* a refresh timer that fires before it expires, or a call in flight that will arm it.
KeptAlive ==
    \A a \in Ads :
        LET c == active[a] IN
        c # NoAd /\ c \in AutoRefresh =>
            /\ left[c] > 0
            /\ \/ c \in armed /\ due[c] < left[c]
               \/ \E p \in publishing : p.call = c /\ p.rearm
=============================================================================
