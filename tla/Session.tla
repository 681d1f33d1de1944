------------------------------- MODULE Session -------------------------------
(***************************************************************************)
(* One SDK session: the HTTP bridge and in-process entry points            *)
(* (proxy/server.rs, ffi/session.rs) over a CompressedServer's tool        *)
(* invocation with its recovery cache and shrink jobs                      *)
(* (server/compressed.rs), and the session's close.                        *)
(*                                                                         *)
(* A call is one /exec request or one in-process invoke.  Its steps are    *)
(* separated where the code awaits, unlocks, or reads an atomic it acts on *)
(* later.  The recovery cache is a lossy map, as ResponseCache is shown to *)
(* be.  An original result is named by the call that got it from the       *)
(* backend and the credential it was requested with.                       *)
(*                                                                         *)
(* A credential is the version of the application's.  A session gets it in *)
(* one of three ways: fixed, in the configuration; refreshed, into header  *)
(* stores, by a hook before every call (Node), and by the application      *)
(* itself whenever it likes; or perRequest, from a provider that is asked  *)
(* for every request, without a hook (Python, Rust).                       *)
(***************************************************************************)
EXTENDS Integers, FiniteSets

CONSTANTS
    Calls,         \* invocations made of the session
    Keys,          \* recovery keys: backend, tool, arguments and context
    Backends,      \* connected backends, in the order of their numbers
    BackendOf,     \* the backend a key belongs to
    SessionConfigs,\* the kinds of session considered
    Nobody,        \* no call
    None,          \* nothing cached, nothing obtained
    Permits,       \* permits of the JOBS semaphore
    MaxRotations   \* bound: changes of the provider's credential

ASSUME SessionAssumption ==
    /\ Nobody \notin Calls
    /\ IsFiniteSet(Calls)
    /\ Backends # {} /\ Backends = 1..Cardinality(Backends)
    /\ Keys # {}
    /\ BackendOf \in [Keys -> Backends]
    /\ SessionConfigs \subseteq
          [mode : {"plain", "memory", "files"},
           auth : {"fixed", "refreshed", "perRequest"}, bridge : BOOLEAN]
    /\ Permits \in Nat \ {0}
    /\ MaxRotations \in Nat
    /\ None \notin [by : Calls, credential : Nat]

VARIABLES
    config,        \* mode, auth, bridge: fixed when the session starts
    pc,            \* where each call is
    request,       \* each call's key, full flag and entry point
    enabled,       \* recovery_cache_enabled
    cache,         \* the recovery cache
    refreshLock,   \* before_exec_lock: the call refreshing credentials
    refreshed,     \* what each call's running refresh obtained
    headers,       \* the credential in the header stores
    provider,      \* the application's present credential
    original,      \* the result each running call asked the backend for
    jobs,          \* calls whose shrink job holds a permit
    listening,     \* the bridge accepts requests
    closing,       \* progress of close
    released,      \* backends shut down
    outcome,       \* how each call ended
    \* history, read by the properties only
    startedWith,   \* the provider's credential when each call began
    superseded,    \* calls that had returned when their key was next invoked
    overtaken      \* refreshes that were answered before newer headers were pushed

answers == <<original, outcome>>
serverVars == <<enabled, cache, jobs>>
authVars == <<refreshLock, refreshed, headers, provider>>
closeVars == <<listening, closing, released>>
history == <<startedWith, superseded, overtaken>>
vars == <<config, pc, request, answers, serverVars, authVars, closeVars, history>>

Requests == [key : Keys, full : BOOLEAN, via : {"bridge", "inProcess"}]
NoRequest == [key |-> CHOOSE k \in Keys : TRUE, full |-> FALSE, via |-> "inProcess"]
Originals == [by : Calls, credential : Nat]
Pcs == {"new", "refreshLock", "disable", "clear", "hook", "apply", "lookup", "cached",
        "remove", "send", "backend", "answered", "permit", "shrink", "condensed",
        "insert", "done"}
Refreshing == {"disable", "clear", "hook", "apply"}
Requested == {"backend", "permit", "shrink", "condensed", "insert"}
Dispatched == {"lookup", "cached", "remove", "send"} \cup Requested
Outcomes == {"none", "answered", "recovered", "failed"}

Init ==
    /\ config \in SessionConfigs
    /\ pc = [c \in Calls |-> "new"]
    /\ request = [c \in Calls |-> NoRequest]
    /\ enabled = TRUE
    /\ cache = [k \in Keys |-> None]
    /\ refreshLock = Nobody
    /\ refreshed = [c \in Calls |-> 0]
    /\ headers = 0
    /\ provider = 0
    /\ original = [c \in Calls |-> None]
    /\ jobs = {}
    /\ listening = config.bridge
    /\ closing = "open"
    /\ released = {}
    /\ outcome = [c \in Calls |-> "none"]
    /\ startedWith = [c \in Calls |-> 0]
    /\ superseded = {}
    /\ overtaken = {}

-----------------------------------------------------------------------------
(* Helpers *)

At(c, here) == pc[c] = here

Goto(c, there) == pc' = [pc EXCEPT ![c] = there]

\* A call ends, by a return or by a dropped future, and its locals go with it.
Finish(c, how) ==
    /\ Goto(c, "done")
    /\ outcome' = [outcome EXCEPT ![c] = how]
    /\ original' = [original EXCEPT ![c] = None]

Key(c) == request[c].key

\* The credential that a request would carry now.
Identity == IF config.auth = "perRequest" THEN provider ELSE headers

\* What dispatch_exec starts with: only shrinkfit sessions use the cache.
Dispatch == IF config.mode = "plain" THEN "send" ELSE "lookup"

-----------------------------------------------------------------------------
(* Entry: exec, or FfiCompressedSession::invoke *)

\* An in-process call borrows the session, which close consumes.
Accepts(r) ==
    IF r.via = "bridge" THEN listening ELSE closing = "open"

Call(c, r) ==
    /\ At(c, "new")
    /\ Accepts(r)
    /\ request' = [request EXCEPT ![c] = r]
    /\ Goto(c, IF config.auth = "refreshed" THEN "refreshLock" ELSE Dispatch)
    /\ startedWith' = [startedWith EXCEPT ![c] = provider]
    /\ UNCHANGED <<config, answers, serverVars, authVars, closeVars, superseded, overtaken>>

\* The bridge checks the token before anything else.
Unauthorized(c) ==
    /\ At(c, "new")
    /\ listening
    /\ Finish(c, "failed")
    /\ UNCHANGED <<config, request, serverVars, authVars, closeVars, history>>

\* Seeded bug: refreshes are not serialized.
LockRefreshUnserialized(c) ==
    /\ At(c, "refreshLock")
    /\ refreshLock' = c
    /\ Goto(c, "disable")
    /\ UNCHANGED <<config, request, answers, serverVars, refreshed, headers, provider,
                   closeVars, history>>

LockRefresh(c) ==
    /\ At(c, "refreshLock")
    /\ refreshLock = Nobody
    /\ refreshLock' = c
    /\ Goto(c, "disable")
    /\ UNCHANGED <<config, request, answers, serverVars, refreshed, headers, provider,
                   closeVars, history>>

\* Seeded bug: the cache is cleared at the credential boundary and stays in use.
DisableCacheClearsOnly(c) ==
    /\ At(c, "disable")
    /\ Goto(c, "clear")
    /\ UNCHANGED <<config, request, answers, serverVars, authVars, closeVars, history>>

\* disable_recovery_cache, first half: no later call looks or inserts.
DisableCache(c) ==
    /\ At(c, "disable")
    /\ enabled' = FALSE
    /\ Goto(c, "clear")
    /\ UNCHANGED <<config, request, answers, cache, jobs, authVars, closeVars, history>>

ClearCache(c) ==
    /\ At(c, "clear")
    /\ cache' = [k \in Keys |-> None]
    /\ Goto(c, "hook")
    /\ UNCHANGED <<config, request, answers, enabled, jobs, authVars, closeVars, history>>

\* The host's callback answers with the provider's present credential.
HookAnswers(c) ==
    /\ At(c, "hook")
    /\ refreshed' = [refreshed EXCEPT ![c] = provider]
    /\ Goto(c, "apply")
    /\ UNCHANGED <<config, request, answers, serverVars, refreshLock, headers, provider,
                   closeVars, history>>

\* Its headers replace the stores', all of them together, whatever these hold
\* by now.
HookApplies(c) ==
    /\ At(c, "apply")
    /\ headers' = refreshed[c]
    /\ refreshed' = [refreshed EXCEPT ![c] = 0]
    /\ refreshLock' = Nobody
    /\ Goto(c, Dispatch)
    /\ UNCHANGED <<config, request, answers, serverVars, provider, closeVars, history>>

\* Seeded bug: a failed refresh dispatches with the headers it finds.
HookFailsOpen(c) ==
    /\ pc[c] \in {"hook", "apply"}
    /\ refreshed' = [refreshed EXCEPT ![c] = 0]
    /\ refreshLock' = Nobody
    /\ Goto(c, Dispatch)
    /\ UNCHANGED <<config, request, answers, serverVars, headers, provider, closeVars, history>>

\* The callback fails or its answer is refused: nothing is dispatched.
HookFails(c) ==
    /\ pc[c] \in {"hook", "apply"}
    /\ refreshed' = [refreshed EXCEPT ![c] = 0]
    /\ refreshLock' = Nobody
    /\ Finish(c, "failed")
    /\ UNCHANGED <<config, request, serverVars, headers, provider, closeVars, history>>

-----------------------------------------------------------------------------
(* CompressedServer::invoke_with_recovery *)

\* A full call of a session that still recovers looks in the cache.
Lookup(c) ==
    /\ At(c, "lookup")
    /\ Goto(c, IF request[c].full /\ enabled THEN "cached" ELSE "remove")
    /\ UNCHANGED <<config, request, answers, serverVars, authVars, closeVars, history>>

CacheGet(c) ==
    /\ At(c, "cached")
    /\ \/ /\ cache[Key(c)] # None
          /\ Finish(c, "recovered")
       \/ /\ cache[Key(c)] = None
          /\ Goto(c, "remove")
          /\ UNCHANGED answers
    /\ UNCHANGED <<config, request, serverVars, authVars, closeVars, history>>

\* Seeded bug: only a full call drops the old original.
RemoveOldIfFull(c) ==
    /\ At(c, "remove")
    /\ cache' = IF request[c].full THEN [cache EXCEPT ![Key(c)] = None] ELSE cache
    /\ superseded' = superseded \cup {d \in Calls : At(d, "done") /\ Key(d) = Key(c)}
    /\ Goto(c, "send")
    /\ UNCHANGED <<config, request, answers, enabled, jobs, authVars, closeVars, startedWith,
                   overtaken>>

\* Any other call drops what the cache holds before it runs the tool again.
RemoveOld(c) ==
    /\ At(c, "remove")
    /\ cache' = [cache EXCEPT ![Key(c)] = None]
    /\ superseded' = superseded \cup {d \in Calls : At(d, "done") /\ Key(d) = Key(c)}
    /\ Goto(c, "send")
    /\ UNCHANGED <<config, request, answers, enabled, jobs, authVars, closeVars, startedWith,
                   overtaken>>

\* The headers are asked for as the request goes out.
Send(c) ==
    /\ At(c, "send")
    /\ BackendOf[Key(c)] \notin released
    /\ original' = [original EXCEPT ![c] = [by |-> c, credential |-> Identity]]
    /\ Goto(c, "backend")
    /\ UNCHANGED <<config, request, outcome, serverVars, authVars, closeVars, history>>

\* An unknown tool or missing argument, headers that cannot be had, a closed
\* service, a failed or timed-out request.
InvocationFails(c) ==
    /\ pc[c] \in {"send", "backend"}
    /\ Finish(c, "failed")
    /\ UNCHANGED <<config, request, serverVars, authVars, closeVars, history>>

\* Full results, and results the backend flags as errors, are returned whole.
BackendReplies(c) ==
    /\ At(c, "backend")
    /\ BackendOf[Key(c)] \notin released
    /\ \E isError \in BOOLEAN :
          IF request[c].full \/ isError THEN Finish(c, "answered")
          ELSE IF config.mode = "plain" THEN Finish(c, "answered")
          ELSE Goto(c, "permit") /\ UNCHANGED answers
    /\ UNCHANGED <<config, request, serverVars, authVars, closeVars, history>>

AcquirePermit(c) ==
    /\ At(c, "permit")
    /\ Cardinality(jobs) < Permits
    /\ jobs' = jobs \cup {c}
    /\ Goto(c, "shrink")
    /\ UNCHANGED <<config, request, answers, enabled, cache, authVars, closeVars, history>>

\* Seeded bug: the call returns the permit, so a dropped call never does.
JobEndsLeaking(c) ==
    /\ c \in jobs
    /\ jobs' = IF At(c, "shrink") THEN jobs \ {c} ELSE jobs
    /\ \/ /\ At(c, "shrink")
          /\ \E how \in {"answered", "failed"} : Finish(c, how)
       \/ /\ At(c, "shrink")
          /\ config.mode = "memory"
          /\ Goto(c, "condensed")
          /\ UNCHANGED answers
       \/ ~At(c, "shrink") /\ UNCHANGED <<pc, answers>>
    /\ UNCHANGED <<config, request, enabled, cache, authVars, closeVars, history>>

\* The blocking job ends and drops its permit, whether or not its call is
\* still there to take the result.  A result that is small enough, or whose
\* original is in a file, is returned at once, and an error fails the call.
JobEnds(c) ==
    /\ c \in jobs
    /\ jobs' = jobs \ {c}
    /\ \/ /\ At(c, "shrink")
          /\ \E how \in {"answered", "failed"} : Finish(c, how)
       \/ /\ At(c, "shrink")
          /\ config.mode = "memory"
          /\ Goto(c, "condensed")
          /\ UNCHANGED answers
       \/ ~At(c, "shrink") /\ UNCHANGED <<pc, answers>>
    /\ UNCHANGED <<config, request, enabled, cache, authVars, closeVars, history>>

CheckInsert(c) ==
    /\ At(c, "condensed")
    /\ IF enabled THEN Goto(c, "insert") /\ UNCHANGED answers ELSE Finish(c, "answered")
    /\ UNCHANGED <<config, request, serverVars, authVars, closeVars, history>>

InsertOriginal(c) ==
    /\ At(c, "insert")
    /\ cache' = [cache EXCEPT ![Key(c)] = original[c]]
    /\ Finish(c, "answered")
    /\ UNCHANGED <<config, request, enabled, jobs, authVars, closeVars, history>>

\* The caller goes away and its future is dropped where it awaits.  A running
\* shrink job is not interrupted.
Drop(c) ==
    /\ pc[c] \in {"refreshLock", "hook", "apply", "send", "backend", "permit", "shrink"}
    /\ refreshed' = [refreshed EXCEPT ![c] = 0]
    /\ refreshLock' = IF refreshLock = c THEN Nobody ELSE refreshLock
    /\ Finish(c, "failed")
    /\ UNCHANGED <<config, request, serverVars, headers, provider, closeVars, history>>

-----------------------------------------------------------------------------
(* FfiCompressedSession::close *)

InProgress(c) == pc[c] \notin {"new", "done"}

CloseBegins ==
    /\ closing = "open"
    /\ \A c \in Calls : InProgress(c) => request[c].via = "bridge"
    /\ closing' = IF config.bridge THEN "listener" ELSE "clear"
    /\ UNCHANGED <<config, pc, request, answers, serverVars, authVars, listening,
                   released, history>>

\* RunningToolProxy::shutdown ends the accept loop, or finds that it has
\* panicked; either way close goes on.  Accepted requests keep running.
ListenerStops ==
    /\ closing = "listener"
    /\ listening' = FALSE
    /\ closing' = "clear"
    /\ UNCHANGED <<config, pc, request, answers, serverVars, authVars, released, history>>

CloseClears ==
    /\ closing = "clear"
    /\ cache' = [k \in Keys |-> None]
    /\ closing' = "backends"
    /\ UNCHANGED <<config, pc, request, answers, enabled, jobs, authVars, listening,
                   released, history>>

\* Seeded bug: a backend is released once its calls have been answered.
ReleaseBackendDrained(b) ==
    /\ closing = "backends"
    /\ released = 1..(b - 1)
    /\ \A c \in Calls : At(c, "backend") => BackendOf[Key(c)] # b
    /\ released' = 1..b
    /\ closing' = IF released' = Backends THEN "closed" ELSE closing
    /\ UNCHANGED <<config, pc, request, answers, serverVars, authVars, listening, history>>

\* One backend after another; a failing shutdown does not stop the loop.
ReleaseBackend(b) ==
    /\ closing = "backends"
    /\ released = 1..(b - 1)
    /\ released' = 1..b
    /\ closing' = IF released' = Backends THEN "closed" ELSE closing
    /\ UNCHANGED <<config, pc, request, answers, serverVars, authVars, listening, history>>

-----------------------------------------------------------------------------
(* The environment *)

\* The cache forgets: expiry, eviction, or an entry too large to keep.
Forget(k) ==
    /\ cache[k] # None
    /\ cache' = [cache EXCEPT ![k] = None]
    /\ UNCHANGED <<config, pc, request, answers, enabled, jobs, authVars, closeVars, history>>

\* The application's credential changes.  No session with fixed headers sees it.
RotateCredential ==
    /\ config.auth # "fixed"
    /\ provider < MaxRotations
    /\ provider' = provider + 1
    /\ UNCHANGED <<config, pc, request, answers, serverVars, refreshLock, refreshed,
                   headers, closeVars, history>>

\* updateAuthProviderHeaders: the application puts its credential into the
\* stores itself, without the refresh lock.
PushHeaders ==
    /\ config.auth = "refreshed"
    /\ closing = "open"
    /\ headers' = provider
    /\ overtaken' = overtaken \cup
          {c \in Calls : At(c, "apply") /\ refreshed[c] < provider}
    /\ UNCHANGED <<config, pc, request, answers, serverVars, refreshLock, refreshed,
                   provider, closeVars, startedWith, superseded>>

Resting ==
    /\ \A c \in Calls : ~InProgress(c)
    /\ jobs = {}
    /\ closing \in {"open", "closed"}
    /\ UNCHANGED vars

\* The steps of a call that depend on neither a lock nor the backend.
OwnSteps(c) ==
    \/ DisableCache(c) \/ ClearCache(c)
    \/ HookAnswers(c) \/ HookApplies(c) \/ HookFails(c)
    \/ Lookup(c) \/ CacheGet(c) \/ RemoveOld(c)
    \/ Send(c) \/ InvocationFails(c)
    \/ JobEnds(c) \/ CheckInsert(c) \/ InsertOriginal(c)

Close == CloseBegins \/ ListenerStops \/ CloseClears \/ \E b \in Backends : ReleaseBackend(b)

Next ==
    \/ \E c \in Calls, r \in Requests : Call(c, r)
    \/ \E c \in Calls :
          \/ Unauthorized(c) \/ LockRefresh(c) \/ OwnSteps(c)
          \/ BackendReplies(c) \/ AcquirePermit(c) \/ Drop(c)
    \/ Close
    \/ \E k \in Keys : Forget(k)
    \/ RotateCredential \/ PushHeaders
    \/ Resting

Spec == Init /\ [][Next]_vars

\* Tasks are scheduled, the host's callback answers or fails, blocking jobs
\* end, and the lock and the semaphore are first-come first-served.  A
\* backend that never answers is allowed.
Fairness ==
    /\ \A c \in Calls :
          /\ WF_vars(pc[c] # "backend" /\ OwnSteps(c))
          /\ WF_vars(JobEnds(c))
          /\ SF_vars(LockRefresh(c))
          /\ SF_vars(AcquirePermit(c))
    /\ WF_vars(ListenerStops \/ CloseClears \/ \E b \in Backends : ReleaseBackend(b))

FairSpec == Spec /\ Fairness

-----------------------------------------------------------------------------
(* Properties *)

\* Part of the type invariant: the lock is held by the call that refreshes, a
\* call waiting for its job holds a permit, and a result is there to be used.
HeldOK ==
    \A c \in Calls :
        /\ refreshLock = c <=> pc[c] \in Refreshing
        /\ At(c, "shrink") => c \in jobs
        /\ original[c] # None <=> pc[c] \in Requested

TypeOK ==
    /\ config \in SessionConfigs
    /\ pc \in [Calls -> Pcs]
    /\ request \in [Calls -> Requests]
    /\ enabled \in BOOLEAN
    /\ cache \in [Keys -> Originals \cup {None}]
    /\ refreshLock \in Calls \cup {Nobody}
    /\ refreshed \in [Calls -> Nat]
    /\ headers \in Nat
    /\ provider \in Nat
    /\ original \in [Calls -> Originals \cup {None}]
    /\ jobs \subseteq Calls
    /\ listening \in BOOLEAN
    /\ closing \in {"open", "listener", "clear", "backends", "closed"}
    /\ released \subseteq Backends
    /\ outcome \in [Calls -> Outcomes]
    /\ startedWith \in [Calls -> Nat]
    /\ superseded \subseteq Calls
    /\ overtaken \subseteq Calls
    /\ HeldOK

\* Unless the provider is asked per request, recovery never crosses a credential
\* boundary: whatever a full call could be answered with was obtained under the
\* credential that a request would carry now, even when calls dispatched before
\* a refresh or a push finish after it.
RecoveryMatchesIdentity ==
    config.auth # "perRequest" =>
        \A k \in Keys : cache[k] # None => cache[k].credential = Identity

\* No session reuses results across a change of identity: a full call that is
\* to be answered from the cache gets what was obtained with a credential no
\* older than the one the application had when the call began.  Not so where
\* the provider is asked per request: nothing turns the cache off.
ReuseKeepsToIdentity ==
    \A c \in Calls : At(c, "cached") /\ cache[Key(c)] # None =>
        cache[Key(c)].credential >= startedWith[c]

\* Recovery never goes back: once a call runs the tool again, no original of
\* a call that had already returned for the same key can be recovered.
RecoveryIsLatest ==
    \A k \in Keys : cache[k] # None =>
        cache[k].by \notin superseded /\ Key(cache[k].by) = k

\* Refreshes are serialized across the bridge and in-process calls, so a slow
\* one cannot put an older credential back over one that another obtained.  Only
\* headers that the application pushes itself can be lost to a refresh, to one
\* that had been answered before.
HeadersNeverRegress ==
    [][headers' >= headers \/ \E c \in overtaken : At(c, "apply") /\ ~At(c, "apply")']_headers

\* A call reaches the backend only with a credential at least as new as the
\* application's when the call began, although the headers of a session may be
\* refreshed for other calls, fail to be, and be pushed from outside.
OwnRefreshFirst ==
    \A c \in Calls : original[c] # None => original[c].credential >= startedWith[c]

\* A call waits for nobody's backend but its own: refreshes and shrink permits
\* come free although other calls never hear from theirs or are dropped.
CallsProceed ==
    \A c \in Calls : InProgress(c) /\ ~At(c, "backend") ~> ~InProgress(c) \/ At(c, "backend")

\* close finishes although requests on the bridge do not.
CloseReturns == closing # "open" ~> closing = "closed"

-----------------------------------------------------------------------------
(* The inductive invariant behind the safety properties, in layers.        *)

\* Credentials move forward, from the application through a refresh or a push
\* to the headers and into requests.  What a refresh has obtained is older than
\* the headers only after a push, and is new enough for all calls that have been
\* dispatched.
CredentialInv ==
    /\ headers <= provider
    /\ \A c \in Calls : startedWith[c] <= provider
    /\ config.auth = "refreshed" =>
          \A c \in Calls : pc[c] \in Dispatched => startedWith[c] <= headers
    /\ \A c \in Calls : At(c, "apply") =>
          /\ refreshed[c] <= provider
          /\ headers <= refreshed[c] \/ c \in overtaken
          /\ \A d \in Calls : d = c \/ pc[d] \in Dispatched => startedWith[d] <= refreshed[c]

\* With a hook, the cache is off before the first call is dispatched, and
\* stays empty.  Fixed headers are one credential.
IdentityInv ==
    /\ config.auth = "refreshed" =>
          /\ \A k \in Keys : cache[k] = None
          /\ \A c \in Calls :
                /\ pc[c] # "insert"
                /\ enabled => pc[c] \in {"new", "refreshLock", "disable", "done"}
    /\ config.auth # "refreshed" =>
          \A c \in Calls : pc[c] \notin Refreshing \cup {"refreshLock"}
    /\ config.auth = "fixed" =>
          /\ provider = 0
          /\ \A c \in Calls : original[c] # None => original[c].credential = 0
          /\ \A k \in Keys : cache[k] # None => cache[k].credential = 0

\* An original is its call's own, and is cached as the call returns.
LatestInv ==
    /\ \A c \in Calls : original[c] # None => original[c].by = c
    /\ \A c \in superseded : At(c, "done")
    /\ \A k \in Keys : cache[k] # None => At(cache[k].by, "done")
    /\ RecoveryIsLatest

CloseInv ==
    /\ listening => config.bridge
    /\ closing \in {"clear", "backends", "closed"} => ~listening
    /\ closing = "closed" => released = Backends

IInv ==
    /\ TypeOK
    /\ CredentialInv
    /\ IdentityInv
    /\ LatestInv
    /\ CloseInv
    /\ OwnRefreshFirst
=============================================================================
