----------------------------- MODULE SessionLock -----------------------------
(***************************************************************************)
(* The promise lock of one session id (src/lib/musig2/session-lock.ts).    *)
(*                                                                         *)
(* A task is one call of withSessionLock (or of acquire / tryAcquire with  *)
(* its release), and stands for the promise it puts in the map.  The code  *)
(* between two awaits runs alone, so each action is one such stretch.      *)
(*                                                                         *)
(* locks and resolvers are always written together, with the promise and   *)
(* its resolve function: one variable stands for both.                     *)
(***************************************************************************)
EXTENDS Naturals, FiniteSets

CONSTANTS
    Tasks,
    None,    \* no entry under the session id
    Forced   \* forceRelease or clearAll may be called

ASSUME LockAssumption == None \notin Tasks /\ Forced \in BOOLEAN

VARIABLES
    locks,     \* the task whose promise is in the map, or None
    resolved,  \* the tasks whose promise is resolved
    waitsFor,  \* the task whose promise acquire awaits, or None
    pc         \* how far each task is

lockVars == <<locks, resolved, waitsFor, pc>>

LockTypeOK ==
    /\ locks \in Tasks \cup {None}
    /\ resolved \subseteq Tasks
    /\ waitsFor \in [Tasks -> Tasks \cup {None}]
    /\ pc \in [Tasks -> {"idle", "waiting", "holding", "done"}]

LockInit ==
    /\ locks = None
    /\ resolved = {}
    /\ waitsFor = [t \in Tasks |-> None]
    /\ pc = [t \in Tasks |-> "idle"]

-----------------------------------------------------------------------------
\* The end of acquire and tryAcquire: the new promise replaces any entry.
Take(t) ==
    /\ locks' = t
    /\ pc' = [pc EXCEPT ![t] = "holding"]

\* acquire, up to its await: with no entry it does not wait at all.
Acquire(t) ==
    /\ pc[t] = "idle"
    /\ \/ /\ locks = None
          /\ Take(t)
          /\ UNCHANGED <<resolved, waitsFor>>
       \/ /\ locks # None
          /\ waitsFor' = [waitsFor EXCEPT ![t] = locks]
          /\ pc' = [pc EXCEPT ![t] = "waiting"]
          /\ UNCHANGED <<locks, resolved>>

\* acquire, from its await on: the entry is not looked at again.
WakeUp(t) ==
    /\ pc[t] = "waiting"
    /\ waitsFor[t] \in resolved
    /\ Take(t)
    /\ UNCHANGED <<resolved, waitsFor>>

\* tryAcquire that succeeds; with an entry it returns null and changes nothing.
TryAcquire(t) ==
    /\ pc[t] = "idle"
    /\ locks = None
    /\ Take(t)
    /\ UNCHANGED <<resolved, waitsFor>>

\* Mutant: a release that finds another entry leaves its own promise pending.
ReleaseOwnOnly(t) ==
    /\ pc[t] = "holding"
    /\ pc' = [pc EXCEPT ![t] = "done"]
    /\ \/ locks = t /\ locks' = None /\ resolved' = resolved \cup {t}
       \/ locks # t /\ UNCHANGED <<locks, resolved>>
    /\ UNCHANGED waitsFor

\* Mutant: the entry is left in the map.
ReleaseKeepsEntry(t) ==
    /\ pc[t] = "holding"
    /\ resolved' = resolved \cup {t}
    /\ pc' = [pc EXCEPT ![t] = "done"]
    /\ UNCHANGED <<locks, waitsFor>>

\* The release function: it deletes whatever entry the session id has.
Release(t) ==
    /\ pc[t] = "holding"
    /\ locks' = None
    /\ resolved' = resolved \cup {t}
    /\ pc' = [pc EXCEPT ![t] = "done"]
    /\ UNCHANGED waitsFor

\* forceRelease, and clearAll for this session id.
ForceRelease ==
    /\ Forced
    /\ locks # None
    /\ locks' = None
    /\ resolved' = resolved \cup {locks}
    /\ UNCHANGED <<waitsFor, pc>>

LockNext ==
    \/ \E t \in Tasks : Acquire(t) \/ WakeUp(t) \/ TryAcquire(t) \/ Release(t)
    \/ ForceRelease

LockSpec == LockInit /\ [][LockNext]_lockVars

\* A resolved promise wakes its waiters, and an operation under the lock ends.
LockFairness == \A t \in Tasks : WF_lockVars(WakeUp(t)) /\ WF_lockVars(Release(t))
FairLockSpec == LockSpec /\ LockFairness

-----------------------------------------------------------------------------
\* isLocked never reports an operation that has ended: the entry is the promise
\* of an operation that is running, whoever released or was forced meanwhile.
LockedMeansHeld == locks # None => pc[locks] = "holding"

\* Nobody waits for a promise that nobody will resolve: it is resolved already,
\* or its operation is running and will release.
NoStrandedWaiter ==
    \A t \in Tasks :
        pc[t] = "waiting" =>
            waitsFor[t] \in resolved \/ pc[waitsFor[t]] = "holding"

\* Whoever waits for the lock gets it.
WaiterProceeds == \A t \in Tasks : pc[t] = "waiting" ~> pc[t] = "holding"
=============================================================================
