# TLA+ models of xpi-p2p-ts

This directory specifies parts of xpi-p2p-ts in TLA+, checks them with TLC on small
instances and proves what matters most with TLAPS. The reference is the code under
`src/`; `PROJECT.json` maps every definition that models code to its lines.

    tlc -workers 2 -config MCSession_faults.cfg MCSession.tla
    tlapm MuSig2SessionProofs.tla

## 1. The system

A node is one Node.js process with a single-threaded event loop. Code between two
awaits runs alone; at an await any handler, timer or API call may run.

| Component | State | Operations | What makes it correct |
| --- | --- | --- | --- |
| `MuSig2P2PCoordinator` (`musig2/coordinator.ts`) | `sessions` (phase, coordinator index, participants), timer slots by session id, `usedNonces`, the lock, metrics | create, announce, join, share nonces, share partial signature, finalize, abort; a handler per message; timers; expiry; disconnection; cleanup | one nonce signs one view of the nonces; COMPLETE means all have signed; phases only go forward; every session ends; nobody takes another's place |
| session manager (`xpi-ts`, external) | nonces and partial signatures of a session | generate, receive, aggregate | seen only through its calls |
| `SessionLock` (`musig2/session-lock.ts`) | a promise and its resolver per session id | acquire, tryAcquire, release, forceRelease, clearAll | nobody waits for ever; an entry belongs to a running operation |
| `ReplayProtection` (`musig2/replay-protection.ts`) | seen ids with their time, last sequence numbers, a timer | validateMessage, clearSession, cleanup, clear | a message passes once; bounded memory; the oldest entries make room |
| `MuSig2ProtocolHandler`, `MuSig2SecurityValidator` (`musig2/protocol.ts`, `security.ts`) | violation counts, blocked peers, a replay filter | handleMessage: security (an await), signature, replay, structure, payload, event | a message is handled once; a peer is blocked exactly for its violations |
| election (`musig2/election.ts`) | none | elect, backup, priority list | all signers elect one key; the backups of a sorted array come to every signer once |
| message signing, serialization, validation | none | pure conversions and checks | |
| session persistence (`musig2/session-persistence.ts`) | storage | save, load, expire | not used by the coordinator |
| discovery extension (`musig2/discovery-extension.ts`) | the active advertisements, the refresh interval | advertise, withdraw, request, search, subscribe | what is kept alive can be withdrawn; a subscriber needs no polling |
| `DHTAdvertiser` | active advertisements, refresh timers, rate limits | advertise, withdraw, refresh, cleanup | what is refreshed does not expire, and is found |
| `DHTDiscoverer` | cache, subscriptions, rate limits | discover, subscribe, unsubscribe, cleanup | one callback per advertisement, none after the end; handlers are of live subscriptions |
| `DiscoverySecurityValidator` (`discovery/security.ts`) | seen advertisements, reputations, operation counts | validate, updateReputation, checkRateLimit, cleanup | only newer versions pass |
| `P2PCoordinator` (`coordinator.ts`) | libp2p node, protocol and topic handlers, `seenMessages`, DHT values | start, stop, shutdown, sendTo, broadcast, topics, announcements | each message once, own copy last, stop stops everything, handlers and peers in step with the node |
| `DHTQueue`, `BootstrapManager`, `GossipSubMonitor` | pending announcements; connections and timers; mesh health | enqueue, flush; connect, reconnect, stop; health check | what is queued has tries left; bounded attempts; no timer after stop |
| `CoreSecurityManager` (`security.ts`) | rate limits, resources per peer, warnings and bans | canAnnounceToDHT, removeResource, bans | limits hold; the two maps of the tracker agree |

How they interact: the MuSig2 coordinator calls the session manager synchronously and
`P2PCoordinator.broadcast` or `sendTo` with an await. `broadcast` sends to the
participants and then hands the sender its own copy, before it resolves. Incoming
streams go to `MuSig2ProtocolHandler.handleMessage`, which emits an event that the
MuSig2 coordinator's handler listens to. Timers are kept by session id; continuations
after an await keep the session object they began with. `MuSig2Discovery` has an
advertiser and a discoverer of its own; both publish and listen on GossipSub topics
through `P2PCoordinator`, which keeps one handler for each topic.

The hard behaviours are therefore: continuations over state that handlers have changed;
sessions made anew under an id whose old calls and timers are still about; shares in
any order; lost answers; timers that race late shares; aborts in the middle of a round;
locks with several waiters; limits of maps; handlers, timers and map entries that belong
to an object that was replaced meanwhile. `PROJECT.json` lists them as hazards, each
at its line and with the properties that would catch it.

## 2. The modules

### MuSig2Session: the signing rounds

`N` signers, each with one session id. State per signer: `gen` (how many session
objects it has made), `phase`, `participants` (whom it sends to), `coordinatorIndex`,
`hasNonce` (`myPublicNonce` is set),
`nonces` and `sigs` (what its session manager holds), `sessionTimeout` and
`broadcastTimeout` (the timer slots); `signed` records every partial signature with
the nonces it was made over, `calls` the async calls that await their broadcast, `net`
the messages on their way.

| Code | Actions |
| --- | --- |
| `createSession`, with the calls of `addParticipant` that follow it | `CreateSession` |
| `joinSession` | `JoinSession` (its request is on its way), `JoinSessionResume` (the catch block deletes the session) |
| the handler of a request to join, the answer | `ReceiveJoin`, `HandleSessionJoin`, `HandleJoinAcceptance`, `HandleJoinRejection` |
| `shareNonces` | `ShareNonces`, `SelfDeliver`, `ShareNoncesResume` |
| `sharePartialSignature` | `SharePartialSignature`, `SelfDeliver`, `SharePartialSignatureResume` |
| `finalizeSession` | `FinalizeSession`, `SelfDeliver`, `FinalizeSessionResume` |
| `abortSession` | `AbortSession`, and `Abort` inside `PeerDisconnected` and `SessionTimeoutFires`; then `SelfDeliver`, `AbortSessionResume` |
| handlers of shares, completion, abort, answers to a join | `Handle...`, through `HandleMessage`, from `Receive` or `SelfDeliver` |
| timers | `SessionTimeoutFires`, `BroadcastTimeoutFires` |
| `notifyBroadcastComplete`, `_cleanupExpiredSessions`, `cleanup` | actions of these names |

A method is cut where it awaits. The copy a sender gets of its own message is handled
between the await and the rest of the method. `SelfDeliver` and the resumptions may be
delayed arbitrarily, which over-approximates the order of microtasks. Two unfinished
calls of one kind by one session object are one element of `calls`; their continuations
do the same.

What the session manager does is external and appears as constants: `CountsOwn` (does it
count a signer's own share when it makes it, or when the broadcast copy comes back),
`KeepsFirst` (does it refuse a second share of an index), and refusals of invalid shares
(the `invalid` failure). The election's result and the backups are the constants
`Elected` and `Backup`; election and failover are taken as enabled.

A signer creates the session itself (`Creators`) or joins it. The two do not meet: the
announcement carries `sha256` of the message (`coordinator.ts:490`), a joiner's session
is made over that hash (`:554-562`), the creator's over the message (`:396-401`), so that
their partial signatures are over different things (`SessionMessage`; run
`session_joined`). Whether a session manager finds such a share invalid is left open
(`RefusesSig`). The participants map of a joiner is empty until its answer comes, and has
only the peer that answered then. A round that completes is therefore checked between
signers that all create the session and add each other, the safety properties between
both kinds.

`Parses` deserves a word. The code sends the payload of a session message as a JSON
string and its receiver refuses every payload that is not an object, so that as it
stands no share and no request to join is ever handled (run `session_wire`). With
`Parses = FALSE` the model is that code, here and in `MuSig2Join`. With `Parses = TRUE` it is the same code behind a receiver that parses,
which is what callers of the protocol handler that pass objects get: everything else is
checked in that mode, for otherwise nothing would ever happen.

`SigningRound` is what all this promises, without phases, shares, calls and timers: a
signer starts afresh, signs one view of everybody's nonces with each start, finishes when
all have signed, and may give up at any time. `MuSig2Session` implements it
(`ImplementsRound`): `objects` is `gen`, `signatures` is `signed`, and those are finished
whose phase is COMPLETE or whose broadcast timer, which only a complete session gets, is
armed.

A message is delivered at most once (the seen hashes and the replay filter, see
ReplayProtection), late, in any order or never. Left out: metrics, `lastActivity`, the
flags of a participant, and `usedNonces` (nonces are fresh).

### SessionLock and MuSig2Join: joining

`SessionLock` is the promise lock of one id. `acquire` awaits the promise it finds and
then puts its own without looking again, and a release deletes whatever entry there
is. So the lock does not exclude: all the waiters of one promise enter together,
contrary to what the class comment suggests (`session-lock.ts:11-18`), and mutual
exclusion is not among its properties.

`MuSig2Join` composes it (`EXTENDS SessionLock`, a task per join request) with
`_handleSessionJoin`, whose check and addition lie between two awaits, with
`joinSession` and `_handleSessionJoinAck` at the joiners, and with `addParticipant`,
`removeParticipant`, the end of the session and `cleanup` (which forces the locks
open). It shows why the join is safe in spite of the lock: it implements
`SessionMembership`, the promise of joining, in which signers enter under free indexes and
the session is announced only when it has all but one (`JoinImplementsMembership`). `Index` gives the
signer index of a peer's key; two peers with one index are a peer before and after a restart.
All but one, and not all others: the handler accepts a peer that comes with the
coordinator's own key (`Own`), and counts it (`coordinator.ts:1529`), so that SESSION_READY
can be emitted with a signer missing, against the comment on it. The other way to that is
`addParticipant`, which does not look whether an index is taken. `ReadyIsExplained` says
that there is no third: not the handlers that hold the lock together, not requests that are
made again, not answers that are lost.
`addParticipant` is called with the peer's own key and index, which the code verifies
against each other. A peer's request carries a key of the signers list: the handler's
refusals of other keys change nothing. Requests and answers are strings on the wire like
shares, so that `EveryoneJoins` is of receivers that parse (`Parses = TRUE`): with
`Parses = FALSE` in `MCLive_calm.cfg` TLC finds it violated.

### ReplayProtection

The filter, with a clock that `Tick` advances. `seenMessages` and `seenAt` are the
entries of the map; `accepted` and `dropped` are history variables. Among entries of
the same millisecond the choice of the victim is left open, where the code takes the
order of insertion. The receiver's clock does not go back; every message has an id, as
those made by `P2PProtocol.createMessage` have. The timer is an action that may happen
at any time or never, which covers the handler's instance, whose timer nobody starts.

### Election

The four elections and their backups as functions of the array of keys a caller passes;
`ListBackup` is one turn of the loop of `getCoordinatorPriorityList`. There are two kinds of
index: an election returns one of the sorted array (`election.ts:31`), the backups of three
methods count it up or down, and those of the lexicographic method take it for an index of
the array as passed and return such indexes (`:385-411`). `Named` is the key that an entry
of the list stands for. The list names every signer's key once (`BackupsReachEveryone`),
for the lexicographic method if the array is sorted already, as the comment on
`createSession` demands; otherwise it may not: of `[B, A]` it is `[0, 1]`, which is A in
the sorted array and A in the array as passed, though the comment at `election.ts:383`
promises the next signer in order. Signers agree on the elected key whatever the order of
their arrays, and on the backups only with one order. The hash is any number: only its
remainder is used.

### BootstrapManager

The manager of the connections to bootstrap peers, beside libp2p's own view of them
(`connections`). libp2p's events are handled in the step that makes them; a lost
disconnect event is an action of its own, because the health check is written for it.
`_connectToPeer` is cut at its dial. `startDials` are the initial dials that a call of
`start()` awaits, `dials` all others. A stop may come while dials are under way, the
interval of an earlier `start()` may be overwritten (`leakedInterval`), and `connect()`
works without `start()`. A dial of a connected peer brings no event, so that the manager
never learns that the peer is connected (`bootstrap-manager.ts:403` expects the event).

### DHTQueue and P2PNode

`DHTQueue` holds the entries of the announcement queue and the calls of `flush()` that
are under way; an entry is an object, so that a put that ends deletes whatever is
queued under its key by then. `P2PNode` extends it with `start`, `stop` and `shutdown`
of the P2P coordinator, each cut at its awaits, the connection state monitor with its
readiness edge, and the network. The intervals the constructor starts are never
started again after a `stop()`, and `_wasDHTReady` outlives it, as in the code.

### P2PPeers

Extends `P2PNode` with what the coordinator keeps in step with its libp2p node: the
protocols and their stream handlers, the peers it knows, and (a history variable) those it
has told the application of. libp2p's `peer:connect` and `peer:disconnect` listeners are
`OnPeerConnect` and `OnPeerDisconnect`; `SetUpNode` and `ForgetNode` are what a start and the end of
a stop do with it. The addresses of a peer and the relay events are left out.

### CoreSecurity and MuSig2Ingress: what comes in

`CoreSecurity` is `CoreSecurityManager`: the rate limiter (`cooling`), the tracker of
resources with its two maps, warnings and bans, and `canAnnounceToDHT`, which is cut at its two
awaits of the validator. Nothing in the repository calls
`canAnnounceToDHT`: the model is of what it does when the application calls it.

`MuSig2Ingress` extends it with the way of a message: `HandleIncomingStream`
(`_handleIncomingStream` and `handleMessage` up to its await), `HandleMessageResume`, the
memories of the node and of the handler, each with its own way to make room, and the
violations that block a peer. The await in `handleMessage` resolves at once, so messages
leave it in the order in which they entered: they do not overtake each other, but a peer can be
blocked or pardoned while one of its messages is there. `Defect` names the first check a
message fails. A message that cannot be deserialized at all, which the node drops without a
warning, is none of `Msgs`: it changes nothing.

### Advertiser, DiscoveryExtension, Discoverer, SignerSearch, Discovery

| Code | Actions |
| --- | --- |
| `advertise`, `refresh`, `setupRefreshTimer` | `Advertise`, `Refresh`, `Publish`, `EndPublication`, `RefreshTimerFires` |
| `withdraw`, `cleanupExpiredAdvertisements`, `stop` | `Withdraw`, `CleanupExpiredAds`, `StopAdvertiser` |
| `advertiseSigner`, `createSigningRequest`, withdrawals, `refreshActiveAdvertisements` | `AdvertiseSigner`, `CreateSigningRequest`, `Advertised`, `WithdrawSigner`, `WithdrawSigningRequest`, `SweepStarts`, `Refreshed` |
| `subscribe`, `unsubscribe`, the message handlers | `Subscribe`, `SubscribeThrows`, `RunImmediate`, `Unsubscribe`, `HandleAutoSubscription`, `HandleGossipSub` |
| `clearCache`, cleanups, the external cache | `ClearCache`, `CleanupDiscoverer`, `RestartDiscoverer` |
| `discoverSigners`, `discoverSigningRequests`, `joinSigningRequest` | `DiscoverSigners`, `DiscoverSigningRequests`, `CanJoin` |

A record of the advertiser is named by the call of `advertise` that made it (`active`
gives the record under an id), so that a call whose record was withdrawn or replaced
during its await is told apart from its successor; `handle` is the field `refreshTimer`,
which stays set when the timer has fired, and on which a refresh decides whether to arm it
again. `authentic` says whether the signature covers the expiry: `refresh` moves the
expiry and signs nothing. `publishToDHT` never throws, so that a call whose three
attempts fail goes on like any other; the retry branches of `refresh` are not reached.
The other awaits of `advertise` (checking and signing, `:108`, `:112`) and the one in `withdraw`
(`:169-178`) are of functions that wait for nothing: they end in the same turn of the event
loop, and each of these methods is one step up to its publication or its end. Calls that are
made within one such turn are not interleaved with each other. The extension's `start` is
called once before each `stop`: a second call would put a second interval over the first
(`discovery-extension.ts:113`), which no stop could clear; that is not modelled.
Its second copy under a DHT key (`dht-advertiser.ts:607-633`) is left out: discovery does
not read it.

The discoverer is one node's: `topicHandler` is the one handler that the node keeps for a
topic, which a subscription takes from whoever has it and which any unsubscribe for that
topic removes. When subscribing to a topic fails, `start` goes on without it
(`StartDiscoverer`), and `subscribe` throws and leaves its record behind (`SubscribeThrows`). Callbacks for what was cached already run from `setImmediate`. The result
of the second signature check of `discover` is not looked at; its reputation bound of 50
is, and holds for what is fetched, not for what a subscription hears. Subscriptions have
distinct ids (`generateSubscriptionId` makes equal ones within a millisecond).
Sorting and slicing of the results are left out, as is the `expiresAfter` of a request
being any number: it is compared with what the request says.

`SignerSearch` adds the criteria of signers and requests, as records of what is asked
and offered. `Discovery` composes a node that advertises with one that discovers; the
topics carry every published copy, in any order.

Time in these modules is counted down in units that are long against a publication, a
callback and the cleanup intervals: a unit passes only when nothing is due.

### DiscoverySecurity

`DiscoverySecurityValidator`: what it checks, in its order, and what it remembers. An
advertisement that is refused for another reason is remembered all the same. The clock
advances by `ValidatorTick`, advertisements may be created ahead of it, and any copy comes
at any time. The discoverer makes a new validator for each call, and its memory then
decides nothing; the model is of one that is kept, as its `start` and cleanup suppose. The
default policy is assumed, but for its numbers; `MaxAdAge <= KeepFor` is the
assumption that no code ensures.

### MCParts, MCLive and MCDiscovery

The lock, joining, the replay filter, the election, the bootstrap manager, the node, its
peers, the ingress and discovery share no state. `MCParts` extends several of them, and the
variable `part` names the one that takes the steps of a behaviour, while the others stay in
an initial state: one run checks them side by side without multiplying their
states. `MCDiscovery`, which `MCParts` extends, does this for the advertiser alone, the
extension with its advertiser, the discoverer with its searches, the validator, and the
composition. `MCLive` does the same for the components that owe something in the end, and
for the election.

## 3. What TLC checks

| Run | Instance | Question and result |
| --- | --- | --- |
| `session_faults` | 2 signers that both create, one session each, 2 unfinished calls; sends fail, timers expire, peers disconnect, broadcasts are confirmed; 1.2 M states | types; no nonce signs two views; nobody is COMPLETE early; COMPLETE is final. Hold. |
| `session_rejoin` | a creator and a joiner, with the request and its answer, one of which makes a second session object, 1 unfinished call; expiry, cleanup, rejected and failed joins, sends fail; 331 k states | nonce and completion safety across objects: the rounds implement `SigningRound`. Hold. |
| `session_joined` | a creator and a joiner, no failures | all sign over one message. Violated: the joiner signs the hash of what the creator signs. |
| `session_live` | 2 signers that both create, one application may abort, fairness; 21 k states | every signer completes unless something is aborted; aborts remove, here and at the other. Hold. |
| `session_wire` | 2 signers that both create, no failures, the code's payload | every signer completes. Violated. |
| `session_revived` | aborts | ABORTED is final. Violated: a nonce share revives the session. |
| `session_noncetimer` | timers | nonce collection ends. Violated: the timer looks for phase INIT. |
| `session_failover` | both signers created the session, elected 1 | a backup takes over. Violated: only the old coordinator's index changes. |
| `parts` | one of: 4 tasks with forced releases; 4 joiners, two with one key, one with the coordinator's, two added by hand, lost answers, removals, a dropped session; 4 messages and a map of 2 entries; 2 bootstrap peers, 2 starts; a node with 2 resource keys and 2 flushes at a time; its protocols and peers; 4 messages and 3 resources of one peer; 3 calls of `advertise` for 2 ids, with refreshes and failures; the extension over them; 3 subscriptions to 2 topics, 2 of them made; an advertising and a discovering node; 4 copies for the validator; 1.5 M states | nobody is stranded; no index twice, joining implements `SessionMembership`, SESSION_READY is explained; a message passes once, and is handled once, and the oldest make room; a lost peer is pursued; streams and peers are those of the node; what is queued has tries left; limits hold and the tracker agrees; refreshed records stay alive, what is active can be withdrawn, one callback per advertisement and none after the end, handlers are of active subscriptions, a subscriber is told of all that a search finds, only newer versions pass. Hold. |
| `live` | one of: 3 keys in any order; 4 tasks with forced releases; 3 joiners, nothing lost; one bootstrap peer, 2 starts; a node with one resource key, starts and stops that overlap, and every state of the network; an advertising and a discovering node, one advertisement; fairness; 57 k states | all elect one key, backups reach everyone; everyone joins (the receivers parse) and is a participant, waiters proceed; an operational state means a node, `stop()` leaves nothing; a lost connection is noticed, the readiness edge flushes the queue; what is advertised is found. Hold. |
| `node_flush` | node, fairness | what is queued is flushed while the DHT is ready. Violated: only the edge flushes, and it can be missed. |
| `ads_refresh` | the two nodes, a cache that keeps entries longer | what is kept active stays discoverable. Violated: a refresh is published under the old signature. |

Every property of a passing run has a mutant in its module: the mapped definition
changed as a slip in the code would change it, under which TLC finds the property
violated.

Bounds. `MaxGen` bounds the session objects: two are needed for a continuation, a timer
or a message of an old object to meet a new one. `MaxCalls` bounds how many unfinished
calls a signer has when the API starts another (aborts are not held back): two let a
call meet the continuation of another. Two signers suffice for the hazards of a round,
which concern one signer's shares, its own copies and those of a peer; the theorems are
for any `N`. `Tries`, `MaxReady`, `MaxTime` bound the calls of `joinSession`, READY events of
`addParticipant`, and the clock, which passes twice the maximal age. Two requests of a
restarted peer and two additions by hand, one with the coordinator's key, meet in the join of
`parts`, three requests in that of `live`; the hand-added peers are alone with their index there, as
`NoIndexTwice` and the refinement fail otherwise, and the theorems say what then remains. The lock has
four tasks: two that waited hold it at once, and one waits for the promise that the other
has overwritten. `Faults` selects
the failures per run; what it leaves out of a run is in another one, except `invalid`:
a refused share changes nothing, as one that never arrives; the theorems include it. In
`session_rejoin` one of the two signers makes its session anew (`OneAnew`), whichever it is, and meets
what is left of its old object and of the other's; in `session_live` only signer 1 aborts
(`OneAborts`). `SessionImplementsRound` is proved without the former bound.

In `parts`, `MaxSeen` is half the number of messages, so that entries make room; in `live` the
three keys have six orders and a backup of a backup. `MaxStarts` bounds the calls of the
manager's `start()` (two: one that is overtaken by a stop and one after it), `MaxDials`
the other dials under way to a peer, `MaxReconnectAttempts` is 1 in `parts` and 2, one
retry and the last, in `live`. `MaxEntries` bounds the entries ever made (a key whose entry is gone can have another), `MaxFlushes` the calls of `flush()`
that overlap (two, as the next edge can come before the first has ended); the queue
holds one entry, so that it overflows. `parts` drops an entry at its first failure,
`live` at its second. `NetworkStates` are no peers, peers without a routing table,
a table below and one above the threshold; in `parts`, where the queue matters, the first and the last,
and there a stop and a start are not under way together (`NodeInTurn`), as they may be in `live`.
Nothing is announced while `peers` is checked (`PeersAlone`). In the ingress each
memory holds one or two messages, so that both make room, two violations block, one
warning bans for a time and two for good; `MaxHandling` bounds the messages at the await.

In the parts of discovery, a unit of time is the refresh interval and an advertisement lives for two, so
that it would expire without a refresh; `MaxPublications` bounds explicit refreshes that
overlap another call (timers and sweeps are not held back). Two calls have one id, as two
calls of `advertiseSigner` with one key do. Of the three subscriptions two are made in a
behaviour (`Alone`): the one that takes over a topic and finds nothing, and one that asks for
that topic or for the other; the composition
has no subscriptions and one signer call (`Together`), as its properties are about what
the nodes do by themselves; in `live` it has one advertisement at a time (`OneCall`). The validator's clock runs to 4 with ages of 1, so that what is
kept is forgotten and comes again.

Fairness. A pending await is resolved and its continuation run by the event loop
(`FairCalls`); a message that was sent arrives, as libp2p streams are reliable while
both peers run (`FairNet`); an armed timer fires (`FairTimers`, in the runs about timers); the application makes
the calls the events ask it for (`FairApp`, in `session_live` and `session_wire`; in
the runs about timers it may stop calling at any point). No fairness is asked of aborts,
disconnections, finalization or clean-up. The lock is fair as promises are: a resolved
promise wakes its waiters and an operation under the lock ends. `BootstrapFairness` and
`NodeFairness` ask that dials and puts end (the code aborts them after a time), that
what awaits them resumes, and that timers and intervals fire; nothing is asked of the
network, of `start` and `stop`. `DiscoveryFairness` asks that time passes, publications end and
arrive, and timers fire; of the application it asks nothing. `EverySignerCompletes`
lets the application share nonces once everyone has joined (`WaitsForAll`), because a
share that arrives before its receiver has the session is dropped and not sent again.

`CHECK_DEADLOCK FALSE` stands where calls and messages run out; a node and its discovery
never stop.

## 4. What is proved

All for any values of the constants that satisfy the modules' assumptions.

- `TypeCorrect`: `TypeOK`, one step per action.
- `NonceSafety` (`KeepsFirst`): a nonce signs one view. `NonceSignsOneView` speaks of
  signatures only; the invariant `NonceInv` adds that the phase
  PARTIAL_SIG_EXCHANGE implies a complete view, that the view of a signature of the
  current object is still the view held, and that no signature is of an object not yet
  made. That a complete view cannot change is where `KeepsFirst` is needed.
- `CompletionSafety` (nothing assumed of the session manager): the invariant
  `CompleteInv` follows the evidence, from a signature held, a share or a completion on
  its way or an own copy to be handled, back to a partial signature that was made.
- `CompletionIsFinal` (`KeepsFirst`, `MaxGen = 1`): combines both and `Numbered`
  (everything on its way belongs to an object that was made): a COMPLETE session has
  all nonces, and the handler of a further nonce refuses it. With a second object under the
  same id it fails: a SESSION_COMPLETE of the old one can complete the new one before
  its nonces are there, and the last nonce then opens a round again.
- `SessionImplementsRound` (`KeepsFirst`): every step of the rounds is one of `SigningRound`
  or a stutter, for any number of objects made anew under an id, by `NonceInv`,
  `CompleteInv` and `Provenance`: a nonce that is held or on its way is of an object that
  its signer has made.
- `LockTypeCorrect`, `EntryIsHeld`, `NobodyStranded`: from one inductive conjunction;
  a promise that leaves the map unresolved belongs to a task that still holds.
- `IndexSharedByHand`: check and add are one stretch, so that two participants share an index only
  when the application added one of them (`addParticipant` does not look), with no assumption.
- `IndexUnique`: hence no index twice when a peer that is added by hand is alone with its
  index, which this theorem assumes.
- `ReadyExplained`, with no assumption: if no two participants share an index and none has the
  coordinator's, counting participants is counting the other signers (`FullMap`, by a
  bijection); so one of the two exceptions holds when SESSION_READY comes early, and by
  `IndexSharedByHand` a shared index is one that was added by hand.
- `ImplementsMembership`: every step of the join is a step of `SessionMembership` or a
  stutter, by `IndexUnique`'s invariant and counting; it has `IndexUnique`'s assumption, and
  none on the coordinator's own key.
- `JoinTypeCorrect`: the invariant adds that a request on its way has no handler yet.
- `JoinImplementsLock`: for that reason the next request is a new task of the lock, and
  every step of joining is one of `LockSpec` or leaves the lock alone; the three theorems
  about the lock hold of the join.
- `JoinedIsIn` (`~Drops`): the acceptances on their way are part of the invariant.
- `ElectionTypeCorrect`, `AllElectTheSame`: the keys of a session are the numbers up to
  `NumSigners` in any order, so that the sorted array is the same for everyone
  (`SortedIndexIsRank`, by a bijection) and the index of a key there is its own. They
  agree on that key; nothing is claimed of the backups.
- `NobodyIsLeftOut`: the list goes around the sorted array, backwards for `last-signer`, and
  the invariant says that its k-th entry is k - 1 places from where it started; it
  ends with the first place that it has already, or that has no backup, and
  `NumSigners` different places are all (again by counting). For the lexicographic method the
  array is in order, so that both kinds of index are one (`InOrderIsSorted`), and different
  places name different keys.
- `ReplaySafety`: an accepted message that is no longer in the map was dropped to make
  room, or its entry was older than twice the maximal age, and then so is its timestamp:
  when it was accepted it was at most one maximal age ahead of the clock.
- `ReplayTypeCorrect`, `SeenBound`: at least one entry goes when the map is full.
- `OldestMakeRoom`: only then are ids given up while others stay; none that stays, and not the
  new one, is older, and they are counted.
- `BootstrapTypeCorrect`, `NoTimerSurvives`: one induction, as a timer of a peer that has
  left the map would start attempts it does not count.
- `NoPeerIsGivenUp`: on top of it. A pursuit ends in a dial, the end of a dial in a
  connection or a timer, a timer in a dial; each lemma says what one handler leaves.
- `OperationalNeedsNode`: only `NodeIsStarted` and the monitor claim a node, and
  `node` is cleared in the step that sets DISCONNECTED; the invariant says
  nothing more, so that it holds whatever the queue and the network do.
- `StopIsComplete`: what `stop()` has stopped by the time it awaits the node.
- `NodeKeepsInStep`: a node that was only just made has told nobody of a peer
  (`NobodyTold`); that, with the agreement of the maps, is inductive. `PeersImplementNode`: with its
  protocols and peers a node takes only steps of `NodeSpec`, so that the two theorems
  before are true of it.
- `NodeTypeCorrect`, `PeersTypeCorrect`, `QueueGivesUp`: the invariant `QueueInv` counts, for each entry, the
  flushes that will try it and those that await a put of it. They are different calls, so
  that tries made and tries to come are at most `MaxRetries + MaxFlushes`; an entry that
  nobody has made yet is known to no flush (`NotYetMade`); and the end of a put takes its key out of the
  queue, so that nothing queued loses the put that may still save it. What a queue without some keys
  looks like (`WithoutKeysKeeps`) rests on the k-th of a finite set of numbers (`PlaceExists`), again
  by counting: ranks are different, and so each rank is taken.
- `ValidatorTypeCorrect`, `NewerOnly`: the invariant `PassedIsCovered` says that what has
  passed is no newer than what is remembered of it, or older than what is kept; a
  cleanup turns the first into the second, and what is that old is not fresh, since
  `MaxAdAge <= KeepFor`.
- `AdvertiserTypeCorrect`, `RefreshKeepsAlive`: the invariant `LiveInv` says that a record which is
  refreshed has time left, has an armed timer that comes before that time is over or a call in
  flight that will arm one, and that the timer may be armed, as the record has a
  handle or will be given one. While a call is in flight no time passes, so its record
  has all its time. Assumed: `RefreshesInTime`, refreshes come before the advertisement
  expires. By default they come after 20 minutes and it lives for 30; the code compares
  nothing, and an application that gives less to live loses what it advertises.
- `ExtensionTypeCorrect`, `SweepsKeepAlive`: a step of the extension is a step of the advertiser,
  whose callers are abstracted (`AdvertiserStep`: calls, refreshes by anyone, withdrawals of any set),
  so that one induction serves both. What a sweep takes next is in the list because
  `SelectInSeq` returns a place of it, which needs that a set of numbers has a least
  (`LeastNumber`, from the well-foundedness of the natural numbers).
- `NothingIsLost`: `SlotsInv` says that the extension and its advertiser run together, that
  one that does not run has nothing, and that what is active is in a slot or its call
  is in flight, unless a later call overtook it. Assumed: `OneSignerId`, the node advertises one
  public key. With two, `advertiseSigner` looks for an advertisement before its await, and the
  later of two calls takes the slot of the earlier, which nobody can withdraw any more.
  `RequestsAreNotLost` needs no assumption: by the same induction nothing but the advertisement
  of a signer is ever overtaken. That the ids of requests differ is part of `ExtensionAssumption`.
- `DiscovererTypeCorrect`, `HandlersBelongToActive`, `EndedHearNothing`: the first two by one look at
  each step (`SearchStepKinds` sorts them by what they do to the subscriptions); a callback
  and its look at `isActive` are one step.
- `DeduplicatedOnce`: `OnceInv` says that what waits for `setImmediate` is marked as seen and has not
  been told, and that what was told is marked; the topic brings only what is not marked.
- `NothingIsMissed`: `ListenerInv`, on top of both: what the listener would find was in the cache when it
  subscribed, and is queued or told, or came over its topic since; while it has the handler no
  other handler adds to what it finds, as the protocol of an advertisement is its topic.
- `DiscoveryTypeCorrect`, `DiscoveryIsBoth`: what the topics carry are messages, so that the two nodes
  together take only steps of `ExtensionSpec` and of `SearchSpec`; all of the above is true
  of them together.
- `LimitsAreKept`, `TrackerIsConsistent`: one induction over the two maps of the tracker;
  each limit is looked at in the step that adds to both maps.
- `BlockedPeersAreTheViolators`: blocking and counting happen in one step, as do unblocking and
  forgetting the count.
- `CopiesAreHandledOnce`: what waits at the await or was emitted is known to a memory or was
  forgotten by it (`AwaitingAreKnown`, `EmittedAreKnown`); a second copy that waits means that the node
  has forgotten the first (`CopiesWereForgotten`), and one that is emitted that the handler has.

- `IngressTypeCorrect`: on top of the invariants of the tracker, of the blocked peers and of the copies;
  both memories keep within their limits because at least one message goes when they are full.

Only model-checked: liveness (`EverySignerCompletes`, `AbortRemoves`, `WaiterProceeds`,
`EveryoneJoins`, `LossIsNoticed`, `EdgeFlushes`, `AdvertisedIsFound`), which the prover does not
reach, and what becomes of a theorem outside its assumptions. The type invariants of the parts are theorems;
of them the runs check `TypeOK`, `PeersTypeOK` and `DiscoveryTypeOK`, which include those of the session, of the
node and its queue, and of the two nodes of discovery. `BlockedIffTooMany` is only proved.
No module declares a recursive operator.

## 5. Not modelled

- Cryptography and message signing, serialization and payload validation: pure functions
  over single payloads. What they decide is a constant where it matters (`Defect`,
  `signed`, `authentic`).
- Events, errors and types (declarations), SwapSig (a plan without code), examples, tests.
- Session persistence: the coordinator does not call it.
- `announceSession` of the MuSig2 coordinator: it leads to an event. Of what it announces only the
  message hash matters to a round, which is `SessionMessage`.
- A second `start()` of the discovery extension before its `stop()`, and calls of the advertiser that
  are made within one turn of the event loop (see above).
- Burn proofs (`musig2/discovery-security.ts`) and the policy factory and predefined custom validators
  of `discovery/security.ts`: lookups and predicates without a state of their own.
- Of the bootstrap manager capabilities and peer lists (requests without an effect on its
  state machine), of the GossipSub monitor the mesh statistics (they lead to events only),
  of the queue `remove` and `clear` (nothing calls them), of the P2P coordinator relays,
  statistics and the local copies of resources, which are a map written and read by single
  steps.
