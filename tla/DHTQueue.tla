------------------------------ MODULE DHTQueue ------------------------------
(***************************************************************************)
(* The announcements that wait for the DHT (src/lib/dht-queue.ts).         *)
(*                                                                         *)
(* An entry is an object that flush() keeps a reference to, named by its   *)
(* key and a number of its own; what it announces is left out.  The queue  *)
(* is kept in the order of queuedAt; flush() takes its batches in any      *)
(* order, where the code goes by that of insertion.  Awaits cut flush(): a *)
(* batch is tried in one step, and the outcome of each put is another.     *)
(***************************************************************************)
EXTENDS Naturals, Sequences, SequencesExt, FiniteSets

CONSTANTS
    ResourceKeys,
    MaxEntries,      \* bound: entries made
    MaxQueueSize,
    MaxRetries,
    FlushBatchSize,
    MaxFlushes       \* bound: calls of flush() under way at a time

ASSUME QueueAssumption ==
    /\ MaxEntries \in Nat
    /\ MaxQueueSize \in Nat \ {0}
    /\ MaxRetries \in Nat
    /\ FlushBatchSize \in Nat \ {0}
    /\ MaxFlushes \in Nat \ {0}

Entries == ResourceKeys \X (1 .. MaxEntries)
Flushes == 1 .. MaxFlushes
KeyOf(e) == e[1]

VARIABLES
    pendingQueue,  \* the entries, the longest queued first
    made,          \* the entries there have been
    attempts,      \* attempts[e]
    flushing,      \* the calls of flush() under way
    untried,       \* untried[f]: entries of its snapshot, not in a batch yet
    sending        \* sending[f]: the entries of its batch whose put is awaited

queueVars == <<pendingQueue, made, attempts, flushing, untried, sending>>

Pending == ToSet(pendingQueue)
QueuedKeys == {KeyOf(e) : e \in Pending}
EntryOf(key) == CHOOSE e \in Pending : KeyOf(e) = key

QueueTypeOK ==
    /\ pendingQueue \in Seq(Entries) /\ Len(pendingQueue) <= MaxQueueSize
    /\ \A i, j \in DOMAIN pendingQueue :
           KeyOf(pendingQueue[i]) = KeyOf(pendingQueue[j]) => i = j
    /\ made \in 0 .. MaxEntries
    /\ attempts \in [Entries -> 0 .. MaxRetries + MaxFlushes]
    /\ flushing \subseteq Flushes
    /\ untried \in [Flushes -> SUBSET Entries]
    /\ sending \in [Flushes -> SUBSET Entries]

QueueInit ==
    /\ pendingQueue = <<>>
    /\ made = 0
    /\ attempts = [e \in Entries |-> 0]
    /\ flushing = {}
    /\ untried = [f \in Flushes |-> {}]
    /\ sending = [f \in Flushes |-> {}]

\* The queue without the entries of these keys; the others keep their order.
WithoutKeys(keys) ==
    LET kept     == {i \in DOMAIN pendingQueue : KeyOf(pendingQueue[i]) \notin keys}
        Place(k) == CHOOSE i \in kept : Cardinality({j \in kept : j <= i}) = k
    IN  [k \in 1 .. Cardinality(kept) |-> pendingQueue[Place(k)]]

-----------------------------------------------------------------------------
\* Mutant: the size is compared as if the new entry were in.
MakeRoomInQueueLate ==
    IF Len(pendingQueue) > MaxQueueSize THEN Tail(pendingQueue) ELSE pendingQueue

MakeRoomInQueue ==
    IF Len(pendingQueue) >= MaxQueueSize THEN Tail(pendingQueue) ELSE pendingQueue

\* enqueue: a queued key keeps its entry and its attempts, and is the newest again.
Enqueue(key) ==
    /\ IF key \in QueuedKeys
       THEN /\ pendingQueue' = Append(WithoutKeys({key}), EntryOf(key))
            /\ UNCHANGED made
       ELSE /\ made < MaxEntries
            /\ made' = made + 1
            /\ pendingQueue' = Append(MakeRoomInQueue, <<key, made + 1>>)
    /\ UNCHANGED <<attempts, flushing, untried, sending>>

\* Mutant: no flush begins while another is under way.
BeginFlushAlone ==
    IF pendingQueue = <<>> \/ flushing # {}
    THEN UNCHANGED queueVars
    ELSE /\ flushing' = {1}
         /\ untried' = [untried EXCEPT ![1] = Pending]
         /\ UNCHANGED <<pendingQueue, made, attempts, sending>>

\* flush, up to its first batch; the calls under way are numbered from 1.
BeginFlush ==
    IF pendingQueue = <<>>
    THEN UNCHANGED queueVars
    ELSE \E f \in Flushes \ flushing :
             /\ \A g \in 1 .. f - 1 : g \in flushing
             /\ flushing' = flushing \cup {f}
             /\ untried' = [untried EXCEPT ![f] = Pending]
             /\ UNCHANGED <<pendingQueue, made, attempts, sending>>

\* Mutant: the tries are compared before this one is counted.
DropExhaustedLate(batch) ==
    WithoutKeys({KeyOf(e) : e \in {b \in batch : attempts[b] >= MaxRetries}})

\* The entries of a batch that failed for the last time leave the queue by their keys.
DropExhausted(batch) ==
    WithoutKeys({KeyOf(e) : e \in {b \in batch : attempts[b] + 1 >= MaxRetries}})

\* One batch: with the DHT ready its puts begin, and otherwise they have all failed.
FlushBatch(f, ready) ==
    /\ f \in flushing
    /\ untried[f] # {} /\ sending[f] = {}
    /\ \E batch \in SUBSET untried[f] :
           /\ batch # {}
           /\ Cardinality(batch) = FlushBatchSize \/ batch = untried[f]
           /\ Cardinality(batch) <= FlushBatchSize
           /\ untried' = [untried EXCEPT ![f] = @ \ batch]
           /\ attempts' = [e \in Entries |-> IF e \in batch THEN attempts[e] + 1 ELSE attempts[e]]
           /\ IF ready
              THEN sending' = [sending EXCEPT ![f] = batch] /\ UNCHANGED pendingQueue
              ELSE pendingQueue' = DropExhausted(batch) /\ UNCHANGED sending
           /\ UNCHANGED <<made, flushing>>

\* A put has ended: the entry that its key has by now is removed.
FlushSent(f, e) ==
    /\ e \in sending[f]
    /\ sending' = [sending EXCEPT ![f] = @ \ {e}]
    /\ pendingQueue' = WithoutKeys({KeyOf(e)})
    /\ UNCHANGED <<made, attempts, flushing, untried>>

EndFlush(f) ==
    /\ f \in flushing
    /\ untried[f] = {} /\ sending[f] = {}
    /\ flushing' = flushing \ {f}
    /\ UNCHANGED <<pendingQueue, made, attempts, untried, sending>>

\* _cleanupExpired: the entries that were queued longest, as many as are too old.
ExpireQueued ==
    /\ \E n \in 1 .. Len(pendingQueue) :
           pendingQueue' = SubSeq(pendingQueue, n + 1, Len(pendingQueue))
    /\ UNCHANGED <<made, attempts, flushing, untried, sending>>

ClearQueue ==
    /\ pendingQueue' = <<>>
    /\ UNCHANGED <<made, attempts, flushing, untried, sending>>
-----------------------------------------------------------------------------
\* Nothing stays in the queue that has used up its tries, unless the put of the last one is
\* awaited: however calls of flush() overlap, whatever is deleted by its key meanwhile
\* and queued again, and whenever the DHT stops being ready.
RetriesAreLimited ==
    \A e \in Pending :
        attempts[e] = 0 \/ attempts[e] < MaxRetries \/ \E f \in Flushes : e \in sending[f]
=============================================================================
