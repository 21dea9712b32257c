------------------------------- MODULE RLock -------------------------------
(***************************************************************************)
(* The reentrant lock of an injection context, fastapi_injected/_rlock.py. *)
(*                                                                         *)
(* Ownership is a ContextVar (_held_locks): a task spawned by an owner     *)
(* starts with a copy of it, so it enters the lock at once, and the counter*)
(* _depth is shared by all of them.  The asyncio.Lock underneath is        *)
(* external: a flag, a FIFO of waiters' futures, and wake-ups.             *)
(*                                                                         *)
(* One lock is modelled.  A task identifier that is idle may be started or *)
(* spawned, and is idle again when its coroutine returns.                  *)
(***************************************************************************)
EXTENDS Naturals, Sequences, FiniteSets, SequencesExt

CONSTANTS
    Tasks,      \* asyncio tasks
    MaxWork,    \* bound: entries and spawns by owners during one tenure of the lock
    Detached    \* may a task spawned by an owner still run when that owner lets go?

ASSUME RLockAssumption == MaxWork \in Nat /\ Detached \in BOOLEAN

VARIABLES
    locked,     \* asyncio.Lock._locked
    waiters,    \* asyncio.Lock._waiters, the tasks whose futures are queued
    woken,      \* tasks whose future was given a result
    cancelled,  \* tasks whose future, or whose wait, was cancelled
    depth,      \* RLock._depth
    held,       \* held[t]: this lock is in _held_locks of the context of t
    status,     \* "idle", "running" or "waiting" in acquire()
    nest,       \* nest[t]: `async with lock` blocks the task is inside
    family,     \* history: the task that took the lock t's ownership was copied from
    work,       \* entries and spawns by owners since the lock was taken
    broken      \* tasks whose release() raised RuntimeError

asyncioLock == <<locked, waiters, woken, cancelled>>
vars == <<asyncioLock, depth, held, status, nest, family, work, broken>>

Init ==
    /\ locked = FALSE
    /\ waiters = <<>>
    /\ woken = {}
    /\ cancelled = {}
    /\ depth = 0
    /\ held = [t \in Tasks |-> FALSE]
    /\ status = [t \in Tasks |-> "idle"]
    /\ nest = [t \in Tasks |-> 0]
    /\ family = [t \in Tasks |-> t]
    /\ work = 0
    /\ broken = {}

-----------------------------------------------------------------------------
\* asyncio.Lock (external)

\* Lock.acquire() returns at once when every waiter before it is a cancelled future.
NoQueue == \A i \in 1..Len(waiters) : waiters[i] \in cancelled \ woken

\* Lock._wake_up_first(): the first future gets a result unless it is done already.
WakeFirst(queue, done) ==
    IF queue = <<>> \/ Head(queue) \in woken \cup cancelled
    THEN done
    ELSE done \cup {Head(queue)}

\* The future of t leaves the queue.
Dequeue(t) == RemoveAt(waiters, CHOOSE i \in 1..Len(waiters) : waiters[i] = t)

-----------------------------------------------------------------------------
\* RLock

\* Bug: the counter is not set to 1.
TakeUncounted(t) ==
    /\ locked' = TRUE
    /\ held' = [held EXCEPT ![t] = TRUE]
    /\ depth' = depth
    /\ nest' = [nest EXCEPT ![t] = @ + 1]
    /\ family' = [family EXCEPT ![t] = t]
    /\ work' = 0

\* The code after `await self._lock.acquire()`.
Take(t) ==
    /\ locked' = TRUE
    /\ held' = [held EXCEPT ![t] = TRUE]
    /\ depth' = 1
    /\ nest' = [nest EXCEPT ![t] = @ + 1]
    /\ family' = [family EXCEPT ![t] = t]
    /\ work' = 0

\* Bug: a block inside a block is not counted.
AcquireOwnedUncounted(t) ==
    /\ status[t] = "running"
    /\ held[t]
    /\ work < MaxWork
    /\ depth' = depth
    /\ nest' = [nest EXCEPT ![t] = @ + 1]
    /\ work' = work + 1
    /\ UNCHANGED <<asyncioLock, held, status, family, broken>>

\* Bug: the lock counts as owned because somebody holds it.
AcquireOwnedByAnyone(t) ==
    /\ status[t] = "running"
    /\ held[t] \/ depth > 0
    /\ work < MaxWork
    /\ depth' = depth + 1
    /\ nest' = [nest EXCEPT ![t] = @ + 1]
    /\ work' = work + 1
    /\ UNCHANGED <<asyncioLock, held, status, family, broken>>

\* acquire() by a task whose context owns the lock.
AcquireOwned(t) ==
    /\ status[t] = "running"
    /\ held[t]
    /\ work < MaxWork
    /\ depth' = depth + 1
    /\ nest' = [nest EXCEPT ![t] = @ + 1]
    /\ work' = work + 1
    /\ UNCHANGED <<asyncioLock, held, status, family, broken>>

\* acquire() on a lock nobody holds or waits for.
AcquireFree(t) ==
    /\ status[t] = "running"
    /\ ~held[t]
    /\ ~locked /\ NoQueue
    /\ Take(t)
    /\ UNCHANGED <<waiters, woken, cancelled, status, broken>>

\* acquire() that has to wait for its turn.
AcquireWait(t) ==
    /\ status[t] = "running"
    /\ ~held[t]
    /\ locked \/ ~NoQueue
    /\ status' = [status EXCEPT ![t] = "waiting"]
    /\ waiters' = Append(waiters, t)
    /\ UNCHANGED <<locked, woken, cancelled, depth, held, nest, family, work, broken>>

\* The wait ends with a result: the lock is taken by the task that was woken.
Granted(t) ==
    /\ status[t] = "waiting"
    /\ t \in woken \ cancelled
    /\ status' = [status EXCEPT ![t] = "running"]
    /\ waiters' = Dequeue(t)
    /\ woken' = woken \ {t}
    /\ Take(t)
    /\ UNCHANGED <<cancelled, broken>>

\* A waiting task is cancelled (task.cancel(), asyncio.timeout, a client that left) ...
Cancel(t) ==
    /\ status[t] = "waiting"
    /\ t \notin cancelled
    /\ cancelled' = cancelled \cup {t}
    /\ UNCHANGED <<locked, waiters, woken, depth, held, status, nest, family, work, broken>>

\* Bug: the wake-up given to a waiter that is cancelled is lost.
GiveUpSilently(t) ==
    /\ status[t] = "waiting"
    /\ t \in cancelled
    /\ status' = [status EXCEPT ![t] = "running"]
    /\ waiters' = Dequeue(t)
    /\ woken' = woken \ {t}
    /\ cancelled' = cancelled \ {t}
    /\ UNCHANGED <<locked, depth, held, nest, family, work, broken>>

\* ... and runs: the wake-up it may have been given is passed on.
GiveUp(t) ==
    /\ status[t] = "waiting"
    /\ t \in cancelled
    /\ status' = [status EXCEPT ![t] = "running"]
    /\ waiters' = Dequeue(t)
    /\ woken' = IF locked THEN woken \ {t} ELSE WakeFirst(waiters', woken \ {t})
    /\ cancelled' = cancelled \ {t}
    /\ UNCHANGED <<locked, depth, held, nest, family, work, broken>>

\* Bug: the lock is given up by whichever block ends first.
ReleaseAtEveryExit(t) ==
    LET last == TRUE
    IN  /\ depth' = IF depth = 0 THEN 0 ELSE depth - 1
        /\ held' = IF last THEN [held EXCEPT ![t] = FALSE] ELSE held
        /\ locked' = (locked /\ ~last)
        /\ woken' = IF last /\ locked THEN WakeFirst(waiters, woken) ELSE woken
        /\ work' = IF last THEN 0 ELSE work
        /\ broken' = IF depth = 0 \/ (last /\ ~locked) THEN broken \cup {t} ELSE broken

\* Bug: one exit counts for two blocks.
ReleaseTwice(t) ==
    LET last == depth = 1
    IN  /\ depth' = depth - 2
        /\ held' = IF last THEN [held EXCEPT ![t] = FALSE] ELSE held
        /\ locked' = (locked /\ ~last)
        /\ woken' = IF last /\ locked THEN WakeFirst(waiters, woken) ELSE woken
        /\ work' = IF last THEN 0 ELSE work
        /\ broken' = IF depth = 0 \/ (last /\ ~locked) THEN broken \cup {t} ELSE broken

\* Bug: the ownership stays in the context.
ReleaseKeepsOwnership(t) ==
    LET last == depth = 1
    IN  /\ depth' = IF depth = 0 THEN 0 ELSE depth - 1
        /\ held' = held
        /\ locked' = (locked /\ ~last)
        /\ woken' = IF last /\ locked THEN WakeFirst(waiters, woken) ELSE woken
        /\ work' = IF last THEN 0 ELSE work
        /\ broken' = IF depth = 0 \/ (last /\ ~locked) THEN broken \cup {t} ELSE broken

\* Bug: the next waiter is not woken.
ReleaseWakesNobody(t) ==
    LET last == depth = 1
    IN  /\ depth' = IF depth = 0 THEN 0 ELSE depth - 1
        /\ held' = IF last THEN [held EXCEPT ![t] = FALSE] ELSE held
        /\ locked' = (locked /\ ~last)
        /\ woken' = woken
        /\ work' = IF last THEN 0 ELSE work
        /\ broken' = IF depth = 0 \/ (last /\ ~locked) THEN broken \cup {t} ELSE broken

\* release(): RuntimeError on depth 0; the last of the nested blocks gives up the
\* ownership in the context of the task that happens to leave it, and the lock.
Release(t) ==
    LET last == depth = 1
    IN  /\ depth' = IF depth = 0 THEN 0 ELSE depth - 1
        /\ held' = IF last THEN [held EXCEPT ![t] = FALSE] ELSE held
        /\ locked' = (locked /\ ~last)
        /\ woken' = IF last /\ locked THEN WakeFirst(waiters, woken) ELSE woken
        /\ work' = IF last THEN 0 ELSE work
        /\ broken' = IF depth = 0 \/ (last /\ ~locked) THEN broken \cup {t} ELSE broken

-----------------------------------------------------------------------------
\* The program around the lock

\* A task that has nothing to do with the lock so far: the server's, for one request.
Start(t) ==
    /\ status[t] = "idle"
    /\ status' = [status EXCEPT ![t] = "running"]
    /\ UNCHANGED <<asyncioLock, depth, held, nest, family, work, broken>>

\* asyncio.create_task() copies the context, and the ownership with it.
Spawn(t, u) ==
    /\ status[t] = "running"
    /\ status[u] = "idle"
    /\ held[t] => work < MaxWork
    /\ status' = [status EXCEPT ![u] = "running"]
    /\ held' = [held EXCEPT ![u] = held[t]]
    /\ family' = [family EXCEPT ![u] = IF held[t] THEN family[t] ELSE u]
    /\ work' = IF held[t] THEN work + 1 ELSE work
    /\ UNCHANGED <<asyncioLock, depth, nest, broken>>

\* The owner has waited for every task that works on its behalf.
Joined(t) == nest[t] = 1 => \A u \in Tasks \ {t} : status[u] # "idle" => family[u] # t

\* `async with lock` ends: __aexit__, whether the block returned or raised.
Leave(t) ==
    /\ status[t] = "running"
    /\ nest[t] > 0
    /\ Detached \/ Joined(t)
    /\ nest' = [nest EXCEPT ![t] = @ - 1]
    /\ Release(t)
    /\ UNCHANGED <<waiters, cancelled, status, family>>

\* The coroutine of t returns and its context is gone.
Finish(t) ==
    /\ status[t] = "running"
    /\ nest[t] = 0
    /\ status' = [status EXCEPT ![t] = "idle"]
    /\ held' = [held EXCEPT ![t] = FALSE]
    /\ family' = [family EXCEPT ![t] = t]
    /\ UNCHANGED <<asyncioLock, depth, nest, work, broken>>

Next ==
    \/ \E t \in Tasks : AcquireOwned(t) \/ AcquireFree(t) \/ AcquireWait(t)
    \/ \E t \in Tasks : Granted(t) \/ Cancel(t) \/ GiveUp(t)
    \/ \E t \in Tasks : Start(t)
    \/ \E t, u \in Tasks : Spawn(t, u)
    \/ \E t \in Tasks : Leave(t) \/ Finish(t)

\* Every coroutine runs on: the event loop resumes a woken or cancelled waiter, and
\* what a task does inside its blocks ends.
Fairness ==
    \A t \in Tasks :
        WF_vars(Granted(t)) /\ WF_vars(GiveUp(t)) /\ WF_vars(Leave(t)) /\ WF_vars(Finish(t))

Spec == Init /\ [][Next]_vars /\ Fairness

-----------------------------------------------------------------------------
\* Properties

TypeOK ==
    /\ locked \in BOOLEAN
    /\ waiters \in Seq(Tasks)
    /\ woken \subseteq Tasks
    /\ cancelled \subseteq Tasks
    /\ depth \in Nat
    /\ held \in [Tasks -> BOOLEAN]
    /\ status \in [Tasks -> {"idle", "running", "waiting"}]
    /\ nest \in [Tasks -> Nat]
    /\ family \in [Tasks -> Tasks]
    /\ work \in Nat
    /\ broken \subseteq Tasks

Inside == {t \in Tasks : nest[t] > 0}
Blocks == UNION {{t} \X (1..nest[t]) : t \in Tasks}

\* Two tasks are inside the lock at once only when they work on behalf of the same
\* taker: a task created outside the holder is kept out
\* (tests/test_rlock.py, test_rlock_blocks_tasks_created_outside_the_holder).
MutualExclusion == \A t, u \in Inside : family[t] = family[u]

\* _depth counts the open blocks of all owners together, and the asyncio.Lock is taken
\* exactly while there is one: neither an exit in another task than the entry, nor a
\* cancelled wait, makes the two drift apart.
DepthMatchesBlocks == depth = Cardinality(Blocks) /\ (locked <=> depth > 0)

\* A context that says it owns the lock works for a task that is inside it now.  When the
\* last block ends, the tasks that had copies of the ownership are gone (Joined), and
\* release() clears the one claim that is left, in the context that leaves the block.
OwnershipIsCurrent == \A t \in Tasks : held[t] => locked /\ family[t] \in Inside

\* release() raises only when there was no acquire() (test_rlock_release_without_acquire):
\* leaving a block that was entered never does.
NoReleaseError == broken = {}

\* A free lock with a queue has a wake-up under way: cancelling the waiter that had been
\* woken does not strand the ones behind it.
NoLostWakeup == waiters # <<>> /\ ~locked => Head(waiters) \in woken \cup cancelled

\* The lock keeps the promise a resolution builds on.
Promise == INSTANCE FamilyMutex
KeepsPromise == Promise!Spec

\* Whoever waits gets the lock or is cancelled: FIFO order lets nobody starve.
WaiterServed == \A t \in Tasks : (status[t] = "waiting") ~> (status[t] = "running")
=============================================================================
