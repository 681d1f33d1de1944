------------------------------ MODULE ToolCache ------------------------------
(***************************************************************************)
(* server/tool_cache.rs: the lazily populated, refresh-on-demand store of  *)
(* a backend's tool list, shared by concurrent tasks.                      *)
(*                                                                         *)
(* A tool list is abstracted to the version of the backend it was read     *)
(* from; the include/exclude filters are a fixed function of the list, so  *)
(* the version identifies the filtered list too.                           *)
(*                                                                         *)
(* Two locks protect the store: the asynchronous reader/writer lock        *)
(* (`writer`, `readers`), held across awaits, and the publication mutex,   *)
(* never held across an await.  Everything done under the mutex is one     *)
(* step.  A task may be dropped by its caller wherever it awaits.          *)
(***************************************************************************)
EXTENDS Integers

CONSTANTS
    Tasks,              \* the tasks sharing the cache
    NoTask,             \* nobody holds the write lock
    NoCache,            \* the cache holds no snapshot (Option::None)
    MaxCalls,           \* bound: calls started
    MaxInvalidations,   \* bound: calls of invalidate
    MaxChanges          \* bound: changes of the backend's tool list

ASSUME ConstantsAssumption ==
    /\ NoTask \notin Tasks
    /\ NoCache \notin [generation : Nat, sequence : Nat, tools : Nat]
    /\ MaxCalls \in Nat
    /\ MaxInvalidations \in Nat
    /\ MaxChanges \in Nat

VARIABLES
    cache,          \* the snapshot under the reader/writer lock
    writer,         \* the task holding the write lock, or NoTask
    readers,        \* the tasks holding a read lock
    populated,      \* the flag behind is_populated
    generation,     \* incremented by every invalidation
    fetchSequence,  \* the last fetch ticket handed out
    pc,             \* where each task is
    clone,          \* the snapshot each get_all cloned out of the lock
    fetchGen,       \* the generation each fetch belongs to
    ticket,         \* the ticket of each task's fetch
    fetched,        \* the tool list each task's fetch returned
    backend,        \* the backend's present tool list
    calls,          \* calls started so far
    \* history, read by the properties only
    startedAt,      \* the backend's list when each task's call started
    floor,          \* the oldest list a reader may still be given
    lastRead        \* the list the latest get_all returned, numbered

store == <<cache, populated, generation>>
locks == <<writer, readers>>
locals == <<clone, fetchGen, ticket, fetched>>
env == <<backend, calls>>
history == <<startedAt, floor, lastRead>>
vars == <<store, fetchSequence, locks, pc, locals, env, history>>

Snapshot == [generation : Nat, sequence : Nat, tools : Nat]

GetAllPcs == {"readLock", "check", "writeLock", "recheck", "getTicket",
              "getFetch", "getPublish"}
RefreshPcs == {"refresh", "refTicket", "refFetch", "refLock", "refPublish"}
WriterPcs == {"recheck", "getTicket", "getFetch", "getPublish", "refPublish"}

Init ==
    /\ cache = NoCache
    /\ writer = NoTask
    /\ readers = {}
    /\ populated = FALSE
    /\ generation = 0
    /\ fetchSequence = 0
    /\ pc = [t \in Tasks |-> "idle"]
    /\ clone = [t \in Tasks |-> NoCache]
    /\ fetchGen = [t \in Tasks |-> 0]
    /\ ticket = [t \in Tasks |-> 0]
    /\ fetched = [t \in Tasks |-> 0]
    /\ backend = 0
    /\ calls = 0
    /\ startedAt = [t \in Tasks |-> 0]
    /\ floor = 0
    /\ lastRead = [number |-> 0, tools |-> 0]

-----------------------------------------------------------------------------
(* Helpers *)

Goto(t, there) == pc' = [pc EXCEPT ![t] = there]

\* The call ends: its local variables go out of scope.
Return(t) ==
    /\ Goto(t, "idle")
    /\ clone' = [clone EXCEPT ![t] = NoCache]
    /\ fetchGen' = [fetchGen EXCEPT ![t] = 0]
    /\ ticket' = [ticket EXCEPT ![t] = 0]
    /\ fetched' = [fetched EXCEPT ![t] = 0]
    /\ startedAt' = [startedAt EXCEPT ![t] = 0]

\* The list a get_all returns; two answers in a row may be the same list.
Serve(tools) == lastRead' = [number |-> lastRead.number + 1, tools |-> tools]

\* It goes on, at `there`, having dropped the clone of the snapshot.
DropClone(t, there) ==
    /\ Goto(t, there)
    /\ clone' = [clone EXCEPT ![t] = NoCache]
    /\ UNCHANGED <<ticket, fetched, startedAt>>

\* An invalidated fetch is discarded with its ticket; the loop goes round.
Retry(t, there) ==
    /\ Goto(t, there)
    /\ fetchGen' = [fetchGen EXCEPT ![t] = 0]
    /\ ticket' = [ticket EXCEPT ![t] = 0]
    /\ fetched' = [fetched EXCEPT ![t] = 0]
    /\ UNCHANGED <<clone, startedAt>>

\* A snapshot is served only if it belongs to the present generation.
IsCurrent(snapshot) == snapshot # NoCache /\ snapshot.generation = generation

CanRead == writer = NoTask
CanWrite == writer = NoTask /\ readers = {}

ReleaseWrite == writer' = NoTask /\ UNCHANGED readers

\* publish: keep a snapshot of this generation with a later ticket.
Publish(gen, seq, tools) ==
    /\ cache' = IF IsCurrent(cache) /\ cache.generation = gen /\ cache.sequence > seq
                THEN cache
                ELSE [generation |-> gen, sequence |-> seq, tools |-> tools]
    /\ populated' = TRUE
    /\ UNCHANGED generation

-----------------------------------------------------------------------------
(* get_all *)

GetAllCall(t) ==
    /\ pc[t] = "idle"
    /\ calls < MaxCalls
    /\ calls' = calls + 1
    /\ Goto(t, "readLock")
    /\ UNCHANGED <<store, fetchSequence, locks, locals, backend, history>>

\* Take the read lock and clone the snapshot out of it.
GetAllRead(t) ==
    /\ pc[t] = "readLock"
    /\ CanRead
    /\ readers' = readers \cup {t}
    /\ clone' = [clone EXCEPT ![t] = cache]
    /\ Goto(t, "check")
    /\ UNCHANGED <<store, fetchSequence, writer, fetchGen, ticket, fetched, env, history>>

\* Under the publication mutex: return the clone if it is current, else go
\* for the write lock.  Either way the read lock is released.
GetAllCheck(t) ==
    /\ pc[t] = "check"
    /\ readers' = readers \ {t}
    /\ \/ /\ IsCurrent(clone[t])
          /\ Serve(clone[t].tools)
          /\ Return(t)
       \/ /\ ~IsCurrent(clone[t])
          /\ DropClone(t, "writeLock")
          /\ UNCHANGED <<fetchGen, lastRead>>
    /\ UNCHANGED <<store, fetchSequence, writer, env, floor>>

GetAllLock(t) ==
    /\ pc[t] = "writeLock"
    /\ CanWrite
    /\ writer' = t
    /\ clone' = [clone EXCEPT ![t] = cache]
    /\ Goto(t, "recheck")
    /\ UNCHANGED <<store, fetchSequence, readers, fetchGen, ticket, fetched, env, history>>

\* Seeded bug: the second check of the double-checked locking is missing.
RecheckSkipped(t) ==
    /\ pc[t] = "recheck"
    /\ fetchGen' = [fetchGen EXCEPT ![t] = generation]
    /\ DropClone(t, "getTicket")
    /\ UNCHANGED <<store, fetchSequence, locks, env, floor, lastRead>>

\* The second check of the double-checked locking.
GetAllRecheck(t) ==
    /\ pc[t] = "recheck"
    /\ \/ /\ IsCurrent(clone[t])
          /\ Serve(clone[t].tools)
          /\ ReleaseWrite
          /\ Return(t)
       \/ /\ ~IsCurrent(clone[t])
          /\ fetchGen' = [fetchGen EXCEPT ![t] = generation]
          /\ DropClone(t, "getTicket")
          /\ UNCHANGED <<locks, lastRead>>
    /\ UNCHANGED <<store, fetchSequence, env, floor>>

\* Seeded bug: an invalidation in flight is not noticed.
PublishUnvalidated(t) ==
    /\ pc[t] = "getPublish"
    /\ ReleaseWrite
    /\ Publish(generation, ticket[t], fetched[t])
    /\ Serve(fetched[t])
    /\ Return(t)
    /\ UNCHANGED <<fetchSequence, env, floor>>

\* Seeded bug: the retry asks for the write lock it is still holding.
RetryHoldingLock(t) ==
    /\ pc[t] = "getPublish"
    /\ \/ /\ generation # fetchGen[t]
          /\ Retry(t, "writeLock")
          /\ UNCHANGED <<store, locks, lastRead>>
       \/ /\ generation = fetchGen[t]
          /\ ReleaseWrite
          /\ Publish(fetchGen[t], ticket[t], fetched[t])
          /\ Serve(fetched[t])
          /\ Return(t)
    /\ UNCHANGED <<fetchSequence, env, floor>>

\* Publish what this call fetched and return it, unless it was invalidated
\* in flight: then drop the write lock and start over.
GetAllPublish(t) ==
    /\ pc[t] = "getPublish"
    /\ ReleaseWrite
    /\ \/ /\ generation # fetchGen[t]
          /\ Retry(t, "writeLock")
          /\ UNCHANGED <<store, lastRead>>
       \/ /\ generation = fetchGen[t]
          /\ Publish(fetchGen[t], ticket[t], fetched[t])
          /\ Serve(fetched[t])
          /\ Return(t)
    /\ UNCHANGED <<fetchSequence, env, floor>>

-----------------------------------------------------------------------------
(* refresh *)

RefreshCall(t) ==
    /\ pc[t] = "idle"
    /\ calls < MaxCalls
    /\ calls' = calls + 1
    /\ startedAt' = [startedAt EXCEPT ![t] = backend]
    /\ Goto(t, "refresh")
    /\ UNCHANGED <<store, fetchSequence, locks, locals, backend, floor, lastRead>>

RefreshBegin(t) ==
    /\ pc[t] = "refresh"
    /\ fetchGen' = [fetchGen EXCEPT ![t] = generation]
    /\ Goto(t, "refTicket")
    /\ UNCHANGED <<store, fetchSequence, locks, clone, ticket, fetched, env, history>>

\* The write lock is taken only after the fetch.
RefreshLock(t) ==
    /\ pc[t] = "refLock"
    /\ CanWrite
    /\ writer' = t
    /\ Goto(t, "refPublish")
    /\ UNCHANGED <<store, fetchSequence, readers, locals, env, history>>

RefreshPublish(t) ==
    /\ pc[t] = "refPublish"
    /\ ReleaseWrite
    /\ \/ /\ generation # fetchGen[t]
          /\ Retry(t, "refresh")
          /\ UNCHANGED <<store, floor>>
       \/ /\ generation = fetchGen[t]
          /\ Publish(fetchGen[t], ticket[t], fetched[t])
          /\ floor' = IF startedAt[t] > floor THEN startedAt[t] ELSE floor
          /\ Return(t)
    /\ UNCHANGED <<fetchSequence, env, lastRead>>

-----------------------------------------------------------------------------
(* The fetch both operations make: get_all with the write lock held,       *)
(* refresh with no lock.                                                   *)

\* next_fetch_sequence: the ticket is taken before the request goes out.
TakeTicket(t) ==
    /\ pc[t] \in {"getTicket", "refTicket"}
    /\ fetchSequence' = fetchSequence + 1
    /\ ticket' = [ticket EXCEPT ![t] = fetchSequence + 1]
    /\ Goto(t, IF pc[t] = "getTicket" THEN "getFetch" ELSE "refFetch")
    /\ UNCHANGED <<store, locks, clone, fetchGen, fetched, env, history>>

\* The moment the backend computes its answer.
BackendAnswer(t) ==
    /\ pc[t] \in {"getFetch", "refFetch"}
    /\ fetched' = [fetched EXCEPT ![t] = backend]
    /\ Goto(t, IF pc[t] = "getFetch" THEN "getPublish" ELSE "refLock")
    /\ UNCHANGED <<store, fetchSequence, locks, clone, fetchGen, ticket, env, history>>

Unlocked(t) ==
    IF writer = t THEN ReleaseWrite ELSE UNCHANGED locks

\* A failed fetch ends the call with the error, publishing nothing.
BackendError(t) ==
    /\ pc[t] \in {"getFetch", "refFetch"}
    /\ Unlocked(t)
    /\ Return(t)
    /\ UNCHANGED <<store, fetchSequence, env, floor, lastRead>>

\* The caller drops the future at one of its awaits; its guards drop with it.
Cancel(t) ==
    /\ pc[t] \in {"readLock", "writeLock", "getFetch", "refFetch", "refLock"}
    /\ Unlocked(t)
    /\ Return(t)
    /\ UNCHANGED <<store, fetchSequence, env, floor, lastRead>>

-----------------------------------------------------------------------------
(* The environment, and invalidate, which is synchronous and never waits   *)
(* for the reader/writer lock.                                             *)

\* Seeded bug: the flag is left as it was.
InvalidateKeepsFlag ==
    /\ generation < MaxInvalidations
    /\ generation' = generation + 1
    /\ floor' = backend
    /\ UNCHANGED <<cache, populated, fetchSequence, locks, pc, locals, env, startedAt, lastRead>>

Invalidate ==
    /\ generation < MaxInvalidations
    /\ generation' = generation + 1
    /\ populated' = FALSE
    /\ floor' = backend
    /\ UNCHANGED <<cache, fetchSequence, locks, pc, locals, env, startedAt, lastRead>>

BackendChange ==
    /\ backend < MaxChanges
    /\ backend' = backend + 1
    /\ UNCHANGED <<store, fetchSequence, locks, pc, locals, calls, history>>

\* Nothing is in progress: the system may rest here, and only here.
Resting ==
    /\ \A t \in Tasks : pc[t] = "idle"
    /\ UNCHANGED vars

LockSteps(t) == GetAllRead(t) \/ GetAllLock(t) \/ RefreshLock(t)

OwnSteps(t) ==
    \/ GetAllCheck(t) \/ GetAllRecheck(t) \/ GetAllPublish(t)
    \/ RefreshBegin(t) \/ RefreshPublish(t)
    \/ TakeTicket(t) \/ BackendAnswer(t) \/ BackendError(t)

Next ==
    \/ \E t \in Tasks : GetAllCall(t)
    \/ \E t \in Tasks : RefreshCall(t)
    \/ \E t \in Tasks : LockSteps(t)
    \/ \E t \in Tasks : OwnSteps(t)
    \/ \E t \in Tasks : Cancel(t)
    \/ Invalidate
    \/ BackendChange
    \/ Resting

\* A runnable task is scheduled and the backend answers or fails; the lock is
\* first-come first-served, so a task that is let in again and again gets in.
Fairness ==
    \A t \in Tasks :
        /\ WF_vars(OwnSteps(t))
        /\ SF_vars(GetAllRead(t))
        /\ SF_vars(GetAllLock(t))
        /\ SF_vars(RefreshLock(t))

Spec == Init /\ [][Next]_vars

FairSpec == Spec /\ Fairness

-----------------------------------------------------------------------------
(* Properties *)

TypeOK ==
    /\ cache \in Snapshot \cup {NoCache}
    /\ writer \in Tasks \cup {NoTask}
    /\ readers \in SUBSET Tasks
    /\ populated \in BOOLEAN
    /\ generation \in Nat
    /\ fetchSequence \in Nat
    /\ pc \in [Tasks -> {"idle"} \cup GetAllPcs \cup RefreshPcs]
    /\ clone \in [Tasks -> Snapshot \cup {NoCache}]
    /\ fetchGen \in [Tasks -> Nat]
    /\ ticket \in [Tasks -> Nat]
    /\ fetched \in [Tasks -> Nat]
    /\ backend \in Nat
    /\ calls \in Nat
    /\ startedAt \in [Tasks -> Nat]
    /\ floor \in Nat
    /\ lastRead \in [number : Nat, tools : Nat]

\* is_populated never disagrees with what get_all would serve, although the
\* flag, the generation and the snapshot are three variables written by
\* publishers and by invalidations that race them.
PopulatedIsCurrent == populated <=> IsCurrent(cache)

\* "Double-checked locking prevents redundant backend fetches": while a
\* get_all fetches for the present generation, it is the only one doing so
\* and there is no snapshot of that generation it could have returned.
NoRedundantFetch ==
    \A t \in Tasks :
        pc[t] \in {"getTicket", "getFetch", "getPublish"} /\ fetchGen[t] = generation =>
            /\ ~IsCurrent(cache)
            /\ \A u \in Tasks \ {t} : pc[u] \notin {"getTicket", "getFetch", "getPublish"}

\* A snapshot is replaced only by one of a later generation, or of the same
\* generation from a later ticket: publication never goes back in the order
\* of tickets, whatever order the fetches complete in.
Supersedes(new, old) ==
    \/ new.generation > old.generation
    \/ new.generation = old.generation /\ new.sequence > old.sequence

PublicationMovesForward ==
    [][cache # NoCache => cache' # NoCache /\ Supersedes(cache', cache)]_cache

\* A call that is not dropped returns, however lock waits, publications and
\* (finitely many) invalidations interleave.
EveryCallReturns == \A t \in Tasks : pc[t] # "idle" ~> pc[t] = "idle"

\* The cache implements the freshness promise of ToolSnapshot.
Promise == INSTANCE ToolSnapshot
Fresh == Promise!Spec
-----------------------------------------------------------------------------
(* The inductive invariant behind the safety properties, in layers.        *)

Ticketed == {"getFetch", "getPublish", "refFetch", "refLock", "refPublish"}
Answered == {"getPublish", "refLock", "refPublish"}
GetAllFetching == {"getTicket", "getFetch", "getPublish"}

\* The reader/writer lock excludes, and a clone taken under it stays exact.
LocksInv ==
    /\ \A t \in Tasks : writer = t <=> pc[t] \in WriterPcs
    /\ readers = {t \in Tasks : pc[t] = "check"}
    /\ writer # NoTask => readers = {}
    /\ \A t \in Tasks : pc[t] \in {"check", "recheck"} => clone[t] = cache

\* Generations and tickets in use have been handed out; no list is from the
\* future.
BoundsInv ==
    /\ cache # NoCache =>
          /\ cache.generation <= generation
          /\ cache.sequence <= fetchSequence
          /\ cache.tools <= backend
    /\ floor <= backend
    /\ lastRead.tools <= backend
    /\ \A t \in Tasks : /\ fetchGen[t] <= generation
                        /\ ticket[t] <= fetchSequence
                        /\ fetched[t] <= backend
                        /\ startedAt[t] <= backend

\* A get_all that fetches for the present generation found nothing current,
\* and holds the lock that keeps it so.
FetchInv ==
    \A t \in Tasks :
        pc[t] \in GetAllFetching /\ fetchGen[t] = generation => ~IsCurrent(cache)

\* Tickets are never shared, and a later ticket means a list read after the
\* earlier ticket's call began.
TicketInv ==
    \A t \in Tasks : pc[t] \in Ticketed =>
        /\ cache # NoCache => cache.sequence # ticket[t]
        /\ cache # NoCache /\ cache.sequence > ticket[t] => cache.tools >= startedAt[t]
        /\ pc[t] \in Answered => fetched[t] >= startedAt[t]
        /\ \A u \in Tasks \ {t} : pc[u] \in Ticketed =>
              /\ ticket[u] # ticket[t]
              /\ pc[u] \in Answered /\ ticket[u] > ticket[t] => fetched[u] >= startedAt[t]

\* The snapshot get_all serves is fresh: a fetch in flight across an
\* invalidation, or a slow refresh overtaken by another, never brings an older
\* list back.
ServedIsFresh == IsCurrent(cache) => cache.tools >= floor

\* An answer for the present generation is fresh, or already overtaken.
FreshInv ==
    /\ ServedIsFresh
    /\ \A t \in Tasks :
          pc[t] \in Answered /\ fetchGen[t] = generation =>
              \/ fetched[t] >= floor
              \/ IsCurrent(cache) /\ cache.sequence > ticket[t]

IInv ==
    /\ TypeOK
    /\ LocksInv
    /\ BoundsInv
    /\ PopulatedIsCurrent
    /\ FetchInv
    /\ TicketInv
    /\ FreshInv
=============================================================================
