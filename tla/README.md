# mcp-compressor in TLA+

mcp-compressor stands between an agent and one or more MCP servers ("backends").
It lists their many tools as two or three wrapper tools, passes calls on, and can
condense long answers while keeping the originals for a while. It runs as an MCP
server of its own, behind a local HTTP bridge that generated command-line, Python
and TypeScript clients call, or inside a host process through the Rust, Python and
TypeScript SDKs.

This directory holds TLA+ models of the parts of it that keep state and meet
concurrency, failure or restarts; configurations that model-check them with TLC;
and proofs, checked by TLAPS, that the main safety properties hold for every
value of the constants. `PROJECT.json` says for every definition which lines of
the source it stands for, for every property which seeded bug it finds, and lists
the hazards the properties were chosen for.

To check a model: `tlc -config ToolCache.cfg MCToolCache.tla`. To check proofs:
`tlapm ToolCacheProofs.tla`.

## The system

Paths are relative to `src/crates/mcp-compressor-core/src/` unless they begin
with `typescript/`, `python/` or `docs/`, which are under `src/`.

| Component | State it keeps | Operations | Where it is hard |
|---|---|---|---|
| **ToolCache** `server/tool_cache.rs` | snapshot behind a reader/writer lock; populated flag, generation and fetch counter behind a mutex | `get_all`, `get`, `refresh`, `invalidate`, `is_populated` | fetches overlap each other and invalidations; futures are dropped with locks held |
| **ResponseCache** `server/response_cache.rs` | queue of originals with sizes and times | `get`, `insert`, `remove`, `clear` | count, byte and age limits at once |
| **Session** `proxy/server.rs`, `ffi/session.rs`, `server/compressed.rs` | refresh lock, header stores, recovery cache and its switch, shrink permits, listener, backends | an `/exec` request or `invoke`; credential refresh and push; `close` | calls, refreshes, pushes, dropped callers and close overlap |
| **LlmPreparation** `llm_assist/mod.rs` | preparation state, `Notify` | `prepare`, `start_background`, `status` | late and dropped waiters |
| **LlmAssets** `llm_assist/mod.rs` | two stores of files in a cache directory, a file lock in each | look, download, unpack, copy, remove | several processes, kills, partial files, removal without the lock |
| **LlmRuntime** `llm_assist/mod.rs` | a child process and a port per request | spawn, poll, post, kill | ports taken by others, readiness, limits, retries |
| **HostShrinkfit** `typescript/src/host_shrinkfit.ts`, `server/output_shrinking.rs` | originals and their byte count, running jobs, waiters, closed flag | execute, condense, recover, close | close while a preview is made; jobs handed on |
| **ClientLifecycle** `typescript/src/native_client.ts` | proxy, connection under way, shutdown under way | `connect`, `close`, `proxy.close` | promises shared by calls in any order |
| **CliScript** `app/runtime.rs`, `client_gen/cli.rs`, `client_gen/generator.rs` | one script file shared by processes, ports | start, update, stop; a client's run | no lock; crashes; ports given out again |
| **OAuthStore** `oauth.rs`, `server/connect.rs` | index, directories, credentials, login state on disk | log in, renew, clear; the callback of a login | no lock; processes end anywhere; what a browser may send |
| **BackendConnect** `server/connect.rs`, `server/compressed.rs` | connections made so far, lists found | start with any configuration | refusals, silence, limits, half-made starts |
| **Routing** `server/compressed.rs`, `server/registration.rs`, `proxy/server.rs`, `sdk.rs`, host SDKs | public names, kept tools (fixed at the start) | lists, calls, resources, prompts, by every way in | names that contain one another; resolvers that should agree |
| **DynamicHttp** `server/dynamic_http_client.rs`, `server/connect.rs` | none but the headers it asks for | get, post, delete | status codes to outcomes; a session that expires |
| **CommandLine** `cli/parser.rs`, `cli/help.rs`, `client_gen/cli.rs` | none | arguments to JSON, twice; help | two parsers in two languages |
| **ConfigTopology** `config/topology.rs`, `server/backend.rs`, SDKs | none | a backend's description to its configuration | five roads that should agree |
| **ClientGen** `client_gen/python.rs`, `typescript.rs`, `generator.rs` | none | functions, types and replies of generated modules | names that collide, types too narrow |
| **Compression**, **HostTransform** `compression/engine.rs`, `ffi/host_transform.rs`, `typescript/src`, `python/` | none | listings, wrapper tools, shell commands | the same in two or three languages |
| **Results** `server/compressed.rs` | none | `--toonify`, one text of a result | text that is taken for another format |
| **App**, **Sdk** `app/options.rs`, `entrypoint.rs`, `paths.rs`, `sdk.rs` | none | options and modes to a start | options that exclude each other |
| **PythonClient**, **TypeScriptHost**, **OutputShrinking** | a session; none | the SDKs' own part of the above | |
| Bindings, ProxyAuth, ReleaseScripts | none | delegation; a comparison; release scripts | |

How they interact. A start (`BackendConnect`) connects the configured backends
one by one, over pipes or HTTP, logging in through `OAuthStore` where a backend
asks for it, and keeps for each a list of tools filtered by the configuration;
`ToolCache` is such a list that can be refreshed. `Routing` then maps a wrapper's
name to a backend for each way in. A call enters through the MCP frontend, the
bridge or the in-process entry of a `Session`, which refreshes credentials
through a callback of the host, may answer from `ResponseCache`, passes the call
to the backend (over `DynamicHttp` when a provider gives the headers), and may
condense the answer, with `LlmPreparation` providing a local model, out of
`LlmAssets`, if one was asked for. `Results` makes of the answer what a client
sees. `ClientLifecycle` starts and closes sessions for a TypeScript host. In CLI
mode several processes with bridges of their own share a `CliScript` and its
clients parse a line (`CommandLine`), pick one of them and post the call there.

What makes each component correct:

- ToolCache: a reader gets a list no older than the last invalidation or the call
  of any completed refresh; one fetch at a time fills an empty cache; the flag
  agrees with the snapshot; every call returns.
- ResponseCache: a map that may forget but never answers with anything but the
  last value put under a key, within its limits.
- Session: recovery crosses neither a credential boundary nor a newer call; calls
  go out with a credential as fresh as their beginning; refreshes never undo one
  another; nobody waits for another's backend; close ends.
- LlmPreparation: one preparation, one result, everybody who waits is told.
- LlmAssets: a file under its final name is whole, and fetched once, whoever is
  killed, unless its directory was removed under somebody.
- LlmRuntime: a prompt is answered by the server that was started for it, and no
  server outlives its request.
- HostShrinkfit: a preview fits and can be recovered; counts and places add up;
  nothing is kept after close.
- ClientLifecycle: one session, always reachable through the client, never a stale
  one, none that survives a close.
- CliScript: a running session stays in the script and answers the clients started
  under it.
- OAuthStore: stored credentials can be found through the index and so be
  cleared; what was cleared is gone; a login ends by its own callback only, given
  that rmcp compares the state.
- BackendConnect: all backends or none; what was not refused is there; a start
  with limits ends.
- Routing: a wrapper reaches its own backend's kept tools and nothing else, what
  is listed is answered, and all ways in agree.
- DynamicHttp: the order in which headers count, a lost session noticed, no
  failure taken for an answer.
- The rest, which keep nothing: two programs that do the same thing do the same
  thing, what one promises the other keeps, and nothing is lost on the way.

## The modules

Conventions: one action per handler or per stretch of code between two points
where other tasks or processes can run (an await, an unlock, a system call); a
step under a mutex with no await in it is one action. Actions and variables keep
the source's names where possible. Variables marked "history" are read by
properties and by nothing else. A definition whose comment begins with "Seeded
bug" or "Mutant" is a bug put in the place of the definition after it, to show that
a property notices it. No specification uses it otherwise.

### Components with state

**ToolCache** (with **ToolSnapshot**, what it promises). Tasks call `get_all` and
`refresh`; the snapshot is the backend's version with its generation and ticket.
The asynchronous lock is `writer`/`readers` and is held across the fetch by
`get_all`, not by `refresh`, as in the code; everything under the publication
mutex is one step. A future may be dropped where it awaits. `Resting` is the only
state in which nothing need happen, so a deadlock is found. `ToolSnapshot` has no
cache: a reader gets some list between a floor and the present one, an
invalidation raises the floor to the present, and a completed refresh to what the
backend had when it was called. `Fresh` is the refinement.

Tickets are taken before the request goes out, so of two overlapping refreshes the
one with the later ticket wins, also when the other one's answer is newer. The
comment at `tool_cache.rs:70-71` may be read as promising more; what the code does
keep is freshness since each call began, and that is what is stated.

**ResponseCache** (with **LossyMap**). The queue as the code keeps it, oldest
first, with an age in place of an instant. `LossyMap` is a map that may forget
anything at any time. `IsLossyMap` is the refinement, with `Lookup` as the mapping.
The queue's operators are those of **Originals**, which the host's store shares.
`Session` uses the abstraction: its cache is a map with a `Forget` step.

**HostShrinkfit**. The counterpart in the TypeScript host. A call runs to its
next await without interruption (`running`); what it awaits is a place for a job and
the job. The division of the limit among an answer's blocks is a fold over them;
the loop of `output_shrinking.rs` is the rounds of a job, which may shrink a text to
any length. Originals expire, are evicted by count and by bytes, and go at
close. `ResponseCache` and `HostShrinkfit` share the run of `MCRecoveryCaches`, in
which a behaviour is one of either.

**Session**. A call is a bridge request or an in-process `invoke`, and passes the
refresh lock, the three steps of a refresh (the cache is switched off, cleared, and
the host asked), the lookup, the removal of the old original, the request, a
permit, the blocking shrink job, and the insertion. Credentials are versions of
the application's, and `config.auth` says how a session gets them. `fixed`: in its
configuration, once. `refreshed` (Node): a hook before every call puts them into header
stores (`HookApplies`, under the refresh lock), and so does the application itself by
`updateAuthProviderHeaders` (`PushHeaders`, without the lock; what is pushed is taken to
be the application's credential of that moment). `perRequest` (Python and the Rust SDK):
a provider is asked as each request goes out (`Identity`, in `Send`), and there is no
hook. `close` stops the listener, clears the cache and releases one
backend after the other while accepted requests still run. Callers may go away at
every await; the job of a dropped call keeps its permit until it ends.

**LlmPreparation**. `prepare_inner` is one step that ends or fails. The step
between unlocking the state and creating the `Notified` future is a step of its
own (`Register`).

**LlmAssets** and **LlmRuntime**. `LlmAssets` is what `prepare_inner` does to the
disk: two stores (the runtime's archive and the model), each looked at without the
lock and again with it; a download to a partial name and its rename; unpacking,
and the copy of the binary under its final name. A process may be killed between any
two steps: its locks go with it, its files stay. `llm remove` deletes a directory
with no lock. The lock file is in the directory, so directories are numbered:
a process that waits on the lock of a directory that has gone holds the lock of
no present one. `LlmRuntime` extends it with the one request that follows: a port
that was found free and let go of, a server spawned for it, polls of whatever
answers on the port, the post, the kill, within attempts and one limit.

**ClientLifecycle**. JavaScript runs a stretch of code to its next await without
interruption. Continuations of settled promises run before the next event-loop
task (`Idle`), and a user's call may come at any point.

**CliScript**. A session reads the script and probes its entries, truncates it and
writes it, each a step. It may stop or be killed between any two. A client keeps the
map it was started with, probes, picks and posts.

**OAuthStore**. Files are replaced by rename: a temporary file is written in one
step and renamed in another. Processes end at any point and others take their
place. `astray` is the history of directories whose entry was dropped in one of
the ways that the code cannot avoid without a lock: by an update of the index
that overlapped another, by a clear while a login held the directory, or by a
clear of everything that was interrupted. `Session` and `OAuthStore` share the run of
`MCCredentials`, in which a behaviour is one of either.

**BackendConnect** and **Frontend**. `BackendConnect` is the start. A backend
answers, refuses or stays silent at each step, and its limit may expire instead.
`Frontend` extends it: once the server serves, its definitions resolve a name and a
tool through each way in, over the tools that the start has kept. Names are
sequences of words, since the code joins them with `_` and a configured name may
contain one itself: `foo` + `bar_invoke_tool` and `foo_bar` + `invoke_tool` are the
same name. In the routing part nothing changes state, so it is a set of functions
of the configuration, checked in every serving state. **Passthrough** extends it
with what the MCP frontend lists and answers: its own tools in each mode, calls
with right and wrong arguments, and the backends' resources and prompts. An
answer is the backend that was asked and whether the caller got a result.

### Components without state

These are functions from inputs to outcomes, stated once per program that does the
work, and compared with each other or with a reference over all inputs of a bounded
set. They are evaluated in one initial state of the run that they belong to.

| Module | Compares |
|---|---|
| **CommandLine** | the native argument parser, the one inside the generated Python client, and what help says may be typed |
| **ClientGen** (on CommandLine) | the modules generated for Python and TypeScript with each other, with the tools' schemas, and with what JSON Schema admits |
| **HostTools** (on ClientGen) | listings at the four levels, wrapper tools, Just Bash commands in TypeScript and Python, the generated script, the local bridge |
| **Results** (on HostTools) | a result as an MCP client sees it, as a bridge or an SDK returns it, and as the host libraries would make it |
| **ConfigTopology** | a backend described on a command line, in an MCP configuration, and to the SDKs of Rust, TypeScript and Python |
| **HttpRequests** (on ConfigTopology) | each kind of answer to each kind of request with its outcome; headers with their rank; hints with causes |
| **StartUp** | the options of the command line with the modes of the SDKs; where a script is put with where it is said to be |
| **LoginCallback** | what a provider writes in a query with what the login reads; the page with the outcome; state files with states |

A text is a member of a small set with the facts that the code tests: what it is
when read as JSON, as YAML, as a table. Libraries (TOON, YAML, CSV, JSON Schema,
Python's and JavaScript's conversions) are modelled from how `src/` uses them and
marked external. In `Results` several texts that are joined are taken to have no
form of their own.

Each `MC` module gives constants that a configuration file cannot express, the
inputs and symmetry sets. Proofs are in `...Proofs` modules.

## The runs

| Run | Bounds | Shows |
|---|---|---|
| `tool_cache` | 2 tasks, 3 calls, 1 invalidation, 1 change of the list | `PopulatedIsCurrent`, `NoRedundantFetch`, the refinement `Fresh`, and `EveryCallReturns` |
| `recovery_caches` | 3 keys, 2 values, sizes 1, 3 and 8, 2 entries, 5 bytes, 2 ticks; 4 host calls, 2 toolsets, 1 place for jobs, 2 rounds | the server's queue (`CurrentWithinLimits`, the refinement `IsLossyMap`) and the host's store (`WithinLimit`, `StoresAddUp`, `PlacesAreHandedOn`, `PreviewIsRecoverable`) |
| `credentials` | 2 calls, 2 keys on 2 backends, 1 permit, 1 change of the credential, all 18 kinds of session; 2 logins, 1 clear, 2 entries | of a session, recovery (`RecoveryMatchesIdentity`, `RecoveryIsLatest`) and credentials (`OwnRefreshFirst`, `HeadersNeverRegress`); of the store, `StoredIsFindable`, `ClearedIsGone`; no deadlock |
| `session_per_request` | 2 calls, 2 keys, 1 change of the credential, a provider asked per request | a violation: `ReuseKeepsToIdentity` |
| `waits` | 2 calls, 1 key, 1 backend, 1 permit; or the background task and 3 callers | `CallsProceed`, `CloseReturns`; `OnePreparation`, `RegisteredReturn` |
| `llm_preparation_late` | the background task and 1 caller | a violation: `LateCallerReturns` |
| `llm_runtime` | 2 processes, 2 stores, 2 archive names, 1 removal of each, 1 port, 2 attempts | the files (`FilesAreWhole`, `FetchedOnce`) and the requests (`OwnServerAnswers`, `ServerGoesWithRequest`) |
| `client_lifecycle` | 5 calls, 5 sessions | `Reachable`, `FreshConnect`, `CloseCovers`, no deadlock |
| `cli_script` | 3 sessions, 3 ports, 1 client; 556 tools, 1031 lines; 449 schemas, 2928 signatures, 99 values; 469 toolsets, 130 lines; 6124 results | the script (`ListedUnlessOvertaken`, `ListedSessionAnswers`, `OnlyTheGoneAreRefused`); the command line (`SameAsScript`, `HelpIsTrue`), generated modules (`CallsAreFaithful`), other forms and results (`HostsAgree`) |
| `cli_script_shared` | 2 sessions | a violation: `TreeIsServed` |
| `cli_script_twice` | the 6124 results | a violation: `TextSaysTheSame` |
| `frontend` | 356 configurations of 1 or 2 backends; 9196 descriptions of a backend; 1152 HTTP answers; 31104 sets of options; 4448 callbacks | the start (`FailureLeavesNone`, `ServesWhole`, `StartEnds`), the routing (`WrappersReachTheirBackend`, `WaysInAgree`) and the roads to it (`RoadsAgree`) |

Conjunctions. `WaysInAgree` holds what is said of names (`NamedServerReached`,
`SoleBackendReached`), of resources and prompts (`ListedIsAnswered`), of calls
(`CallsAreJudgedFirst`) and of lists (`OffersAreSound`). `RoadsAgree` holds the
statements of ConfigTopology, HttpRequests, StartUp and LoginCallback; `HostsAgree`
those of HostTools and Results; `CallsAreFaithful` those of ClientGen. Each part
has its comment where it is defined. Where two programs do differ, the statement
excludes exactly the inputs on which they do, and the difference is listed under
Divergences.

Type invariants (`TypeOK`, `AssetsTypeOK` and so on) are proved, for every value of
the constants, as the first layer of each proof below, and the runs leave them out.
Those of the two stores of originals are conjuncts of `StoresAddUp` and
`CurrentWithinLimits`.

Why the bounds are enough to be of interest. `tool_cache`: two refreshes, or a
refresh and a `get_all`, overlap, with the list changed and the cache invalidated
between any two of their steps, and a third call reads what they left.
`recovery_caches`: sizes are chosen so that an entry fits alone, fits with a small
one only, or not at all, and so that either limit can be the one that evicts; three
calls of one toolset and one of another compete for one place, so that a place is
handed on, within a toolset and across, while either is closed; the code has four
places. `credentials`: a full call can meet the other's original, its refresh, its
removal and the close; one change of the credential comes between any two steps, so
that each of two calls and a push can be the one that holds the old one. One permit makes
the semaphore contended by two calls; the code has four. In the store, two entries
have an address in common, so that a clear by name matches one and a clear by
address both; a third process changes the index under two that have read it.
`client_lifecycle`: five calls are a connect, an overlapping close and connect, a
proxy's close and a call that arrives in the middle of any of them. `llm_runtime`:
one process can be at work, or dead with half a file on disk, when the other looks,
waits for its lock or has its directory removed, and the other's server can take the
port between the reservation and the spawn. `cli_script`: of three sessions one can
be overtaken by the second while the third holds a port that another has had; names
collide in each of the ways a separator can be spelled.
`frontend`: one name begins with the other, one tool is named like a wrapper, a
backend's resource is named like one of the server's own, with and without prefix and
filters. What the bounds cannot show, that no larger instance goes wrong, the proofs do
for the safety properties.

Deadlock is checked by `tool_cache`, `credentials` and `client_lifecycle`,
whose modules have an explicit step for the states in which nothing is left to do, so
every other standstill is reported. In the other runs something really ends: every
call has returned, every session has stopped, the start has served or failed. `waits`
and `recovery_caches` put a component that ends beside one that does not; a
standstill of the session is caught by `credentials` and by the liveness properties.

### Fairness

- A runnable task, continuation or process step is eventually taken: weak
  fairness. tokio and the JavaScript event loop schedule what is ready.
- The waits on tokio's `RwLock`, `Mutex` and `Semaphore` have strong fairness,
  because they are first-come first-served: a waiter that could be let in again
  and again is let in. So is the one for the refresh lock.
- The host's refresh callback answers or fails. Nothing in the code limits it
  (`proxy/server.rs:166`): the refresh lock is held meanwhile, and a callback that
  never answers blocks every call of the session.
- Shrink jobs end, and so does a download, well or not.
- Backends owe nothing: `Session` and `BackendConnect` have no fairness for their
  answers, only for the timers that the code sets (`StartEnds`). `ToolCache` assumes
  a fetch ends, with an error at the latest.
- A login waits for its callback with no limit (`oauth.rs:198`), and the backend's
  timeout does not apply to it; so `StartEnds` speaks of starts in which every backend
  has a limit and none has a login.
- Invalidations are finitely many (`MaxInvalidations`). With endless ones a retry
  loop need not end, in the model as in the code.
- `LlmRuntime`, `OAuthStore` and `CliScript` state safety only: a killed process owes
  nobody anything. An archive that was downloaded but cannot be unpacked is kept and
  found by every later attempt (`llm_assist/mod.rs:439`), so a preparation need not
  ever succeed; the model has this behaviour.

### Findings

- `session_per_request`. Where the provider is asked for every request, in Python
  (`mcp-compressor-python/src/lib.rs:266`) and the Rust SDK (`sdk.rs:235`), no hook is
  installed, and only a hook leads to `disable_recovery_cache` (`compressed.rs:525`). The
  application's identity changes, and `full=true` is still answered with what the old
  identity obtained, against `docs/usage/shrinkfit.md:97`. `RecoveryMatchesIdentity`
  excludes these sessions.
- `llm_preparation_late`. `prepare` unlocks the state before it creates its
  `Notified` future (`llm_assist/mod.rs:625`), and `notify_waiters` leaves no permit. A
  preparation that ends in between is missed and the caller waits for ever,
  against `docs/llm-assist-design.md:125`.
- `cli_script_shared`. Two sessions that start together read the script before either
  writes it (`app/runtime.rs:231`). The later write drops the other's entry, and
  clients under that session get another session's bridge, against
  `client_gen/cli.rs:10`.
- `cli_script_twice`. Over a bridge or an SDK a text result is put into TOON twice
  (`server/compressed.rs:727`). TOON of a table within an object reads as YAML, with the
  table's header for a key, and comes out as something else, against
  `docs/concepts/configuration.md:144`.

### Divergences

Seen while modelling, with no run of their own. A property about the code near
one of them excludes it and says so.

Sessions and clients
- `updateAuthProviderHeaders` (`mcp-compressor-node/src/lib.rs:247`) writes the header
  stores without the refresh lock. A refresh that was answered before and is applied
  after puts the older headers back (`lib.rs:331`), and requests already on their way to
  the backend, its own among them, go out with these; the next call's refresh repairs it.
  `HeadersNeverRegress` allows this step and no other, by the history `overtaken`;
  `OwnRefreshFirst` holds nevertheless: a call never goes out with a credential older
  than the one the application had when it began.
- `shutdown_shared` leaves the recovery cache in use, so a request that outlives
  `close` puts an original into the cache that close has cleared (`compressed.rs:531`,
  `docs/usage/shrinkfit.md:95`); nobody can ask for it any more.
- A TypeScript `client.close` that comes while `proxy.close` is still shutting the
  session down returns before that shutdown is over.
- Python's `urlopen` gives up after 30 s while the backend's call goes on (`client.py`).

Routing
- With one server and a server name, the default server (`compressed.rs:299`) is not the
  name that the backend is published under, and `invoke` without a server fails
  (`docs/examples/atlassian.md:80-93`). The host SDKs' `invoke` finds no wrapper for a
  JSON configuration started with a server name, and the Rust SDK's finds none in the CLI
  and Just Bash modes.
- The SDKs' executable tools include every frontend tool, but executing
  `<server>_get_tool_schema`, `list_tools`, a help tool or `bash_tool` posts to the
  bridge, which knows invoke wrappers and, for one backend, its tools
  (`docs/modules.md:21`).
- A `tool_input` that is no object is dropped silently when the tool requires nothing;
  an absent one is `{}` over MCP and null over the bridge.
- Of two backends with the same prompt name or resource URI both are listed and the
  first one is asked; the server's own URI hides a backend's equal one.
- `docs/concepts/how-it-works.md:37` shows wrappers without a prefix for a single
  command, which `entrypoint.rs` publishes as `server`.

Starting
- An SDK session in which any backend has a provider drops the other backends'
  `oauth_app_name` (`ProviderBackendConfig` in both bindings;
  `docs/usage/auth-and-remote.md:36`). Any header given to an SDK turns OAuth off when no
  mode is given; one of a configuration or command line does so only if it is the
  authorization (`ffi/session.rs:49`, `config/topology.rs:119`).
- Headers given together with a command become `-H` arguments of the child in the Rust
  SDK. An SDK lets a URL win over a command; a configuration refuses both. A header with an
  empty value is refused from the command line and an SDK and accepted in a configuration.
  The arguments' `-H` beats an SDK's header map and loses to a configuration's. Two
  spellings of one header's name: either may win.
- `-e`, `--cwd`, `-t` and `--auth` are taken out of a stdio command's own arguments.
  `cwd` in a configuration is ignored. `--multi-server` splits on white space.
- Python keeps a provider's first headers among the static ones, and asks each
  provider again for the default server's name.
- `--config` beats `--multi-server`, which beats the words after `--`, all silently; mode
  flags override `--transform-mode`. `MCP_COMPRESSOR_CLI_OUTPUT_DIR` is said to be on the
  path and is not looked for there (`paths.rs:8`). The default level is medium everywhere but in
  the Rust builder (max).
- A 401 or 403 with `WWW-Authenticate` loses its number on the way
  (`dynamic_http_client.rs:207`), and with it the hint to log in (`connect.rs:644`); a
  failed connection to an address that contains 401 gets that hint. A provider's `accept`
  or session header is sent beside the transport's own.
- A browser that goes away before the page is written makes the login fail although the
  code has arrived.

Command lines and generated clients
- With properties `page-id` and `page_id` the two parsers choose differently; they differ
  on `----no-x`, on integers beyond 64 bits and on arrays with `NaN`; a property whose
  schema is `true` ends the client with a traceback.
- Help shows what the parsers do not take (`OwnFlag`, `Consistent`). A property `no_cache`
  cannot be set by its own flag, which negates `cache`; one called `json` not by the first
  flag of a line; a name that begins with two separators loses dashes to
  `trim_start_matches` (`parser.rs:140`). A number's enumeration of 5 refuses the 5 that a
  user types, which is read as 5.0; an `enum` may list what the type refuses; one of the
  single text "boolean" is shown as a switch; `string|json` is shown for variants though a
  `type` beside them may allow no string.
- Function names of a generated module may be equal. Python drops `None` given for a
  required parameter. An output that is JSON `{"result": ...}` is unwrapped
  (`typescript.rs:100` says that strings are kept). A bridge that dies amid a reply raises
  a library's exception in Python. A time-out of `0x10` is read in TypeScript only, one of
  `1_0` in Python only. Signatures in help (`host_transform.rs:352`) are not those generated.
- `compressTools` at level max lists nothing (`local_tools.ts:105`); of tools whose
  subcommands are equal TypeScript and the script take the last, Python the first;
  `--help` counts anywhere or only first; a text for a list of types is decoded
  once more in TypeScript (`tool_specs.ts:52`); a result within a result is unwrapped once
  or always; of a structured value that holds MCP `content` the host libraries take the texts
  (`host_transform.rs:467`) and the server prints it as JSON (`compressed.rs:1080`); server names are normalized differently by the host libraries.
- With `full` and `--toonify` an MCP client gets the original and a caller of the bridge
  its TOON.

## The proofs

Each theorem holds for every value of the constants that meets the module's named
assumptions, and is a `THEOREM` about `Spec`. The pattern is the same
throughout: the inductive invariant is a conjunction of layers; one lemma per layer
shows that every action keeps it, one step per action; the theorems
follow from the invariant.

| Module | Proved | Why the property alone is not inductive |
|---|---|---|
| ToolCacheProofs | types, `PopulatedIsCurrent`, `NoRedundantFetch`, `PublicationMovesForward`, `Fresh` | `LocksInv`: what was cloned under the lock is still exact. `TicketInv`: of two fetches the one with the later ticket read its list after the earlier one's call began. `FreshInv`: an answer on its way is fresh, or overtaken by what is in the cache |
| SessionProofs | types, `RecoveryMatchesIdentity`, `RecoveryIsLatest`, `OwnRefreshFirst`, `HeadersNeverRegress` | `CredentialInv`: what a refresh has obtained is older than the headers only after a push, and new enough for every call dispatched so far. `IdentityInv`: with a hook, the cache is off before the first dispatch and stays empty; fixed headers are one credential. `LatestInv`: an original enters the cache as its own call returns |
| LlmRuntimeProofs | types, of all three modules; of the preparation, `OnePreparation` and `SharedResult`; of the files and requests, `FilesAreWhole`, `FetchedOnce`, `LocksAreGivenUp`, `OwnServerAnswers`, `ServerGoesWithRequest` | `DirInv`, `LocksInv`: a lock that is held is the lock of the present directory, so one process is at work in a store (`Exclusion`), unless the directory was removed under somebody. `WorkInv`: what that process has made so far is its own, and whole when it says so. Then `FilesAreWhole`. `RequestInv`: which server has the port that a request polls. Of the preparation: a finished state has no call preparing |
| ClientLifecycleProofs | types, `Reachable`, `FreshConnect`, `CloseCovers` | `CallInv`: what a call's position says of what it waits for. `ConnectInv`: what a connect saw gone stays gone. `CloseInv`: what a shutdown has still to deal with, position by position |
| CliScriptProofs | types, `ListedUnlessOvertaken`, `ListedSessionAnswers`, `OnlyTheGoneAreRefused`; `SameAsScript`, `HelpIsTrue`, `CallsAreFaithful` and `HostsAgree`, for any tools, schemas, values and command lines | `PreservedInv`: an update under way has in hand every entry but those it cannot know of. The last four are about functions of their inputs: see below |
| OAuthStoreProofs | types, `StoredIsFindable`, `ClearedIsGone` | `HeldInv`: a login holds a findable directory before it saves. `ClearInv`: what a clear has dealt with and what it has left |
| FrontendProofs | types, `ServesWhole`, `FailureLeavesNone`, `WrappersReachTheirBackend`, `WaysInAgree`, `RoadsAgree`; the four conjuncts of `RoadsAgree`, for any inputs | `ProgressInv`: what has been settled at each backend so far. `EndInv`: what an ended start left. The routing theorems are about sequences: equal concatenations with one last word have equal prefixes, the word a name ends with tells a wrapper from a help tool, and the first backend of a name is found because the numbers are well-founded. The conjuncts are about functions of their inputs: see below |
| RecoveryCachesProofs | of the server's queue, `CurrentWithinLimits` and the refinement `IsLossyMap`; of the host's store, types, `WithinLimit`, `PlacesAreHandedOn`, `StoresAddUp`, `PreviewIsRecoverable` | `CacheInv`: the queue is also in order of age, and what it answers is current. `CallsInv`: what a call has used and has left of its limit add up to it. `PlacesInv`: the places taken are those of the jobs, and each call that waits is in line once. `StoresInv`: each count of bytes is the sum over its queue |

`LlmRuntimeProofs` rests the second component on the first: every step of
`LlmRuntime` is a step of `LlmAssets` or leaves its variables alone (`Composition`), so
what was proved of the files (`AssetsImplemented`) holds of the composition.

Assumptions are on constants only: model values are distinct, numbers are natural,
`DirOf` is a function, names are sequences of words, archives are a non-empty sequence.
No name that is absent (`NoName`) is one of them. They are named in the module that
declares the constants and evaluated by a run. (In the program a backend that is
published under the empty name is never found by `invoke`, `sdk.rs:493`: there the empty
text does stand for no name.)

The byte counts and evictions of the stores are recursive functions over a queue, so
`RecoveryCachesProofs` needs induction over data. The library's induction theorems
take an operator, which no installed prover can instantiate; here induction is done over
sets of numbers instead. `LeastNumber` (every non-empty set of numbers has a least member,
from the well-foundedness of `<`) gives `Induction`; `Recursion` then gives a function that
satisfies a recursive definition, so that the `CHOOSE` behind it has a solution; and
from that follow what `Retained`, `TotalBytes` and `EvictedFor` yield for every queue: the
total of a thinned queue is no greater, of an extended one greater by the entry, and
what is evicted for an entry leaves room for it. One assumption of the host's model is
that the limits are numbers.

The conjuncts of `RoadsAgree` are about functions without state, which the run evaluates
on sets of inputs. Each is a theorem about all inputs, and `RoadsStayAgreed` applies the
four to those sets:

- `RequestsAreRight`, of HttpRequests: any backends, answers that are records of those
  fields (`Answer`), headers and transport.
- `StartsAgree`, of StartUp: any options whose mode is one that the parser takes
  (`IsOptions`), and any scripts and hosts.
- `CallbacksAreRead`, of LoginCallback: texts over any alphabet with the signs that the
  code looks for (`EscapeSigns`, `Marks`), and requests that are records of those fields
  (`IsRequest`). What is written is read again because a reading from one place depends
  only on the text from there on (a shift of it is a reading of the rest), so the writing
  of each sign is read as that sign whatever follows. The induction is over the text, by
  `TextInduction` (from `Induction` over its length).
- `DescriptionsAgree`, of ConfigTopology: any set of backends' descriptions over any
  alphabet of arguments (`IsEntry`). A description names one command or one URL; a
  provider is given with a URL only (`connect.rs:359` asks none for a command), and no
  header is empty (the code reads no option in an empty header, `backend.rs:323`, while
  a map may hold one, so there the roads do differ). `ParseArgs` is a recursive function
  over the arguments: a shift of a parsing is a parsing of the rest, so an option before
  the arguments is parsed as it would be alone and the rest as without it
  (`ArgsInduction`, an induction by one argument or by an option and its text). By a second
  induction over the names of a map, typing the options of a map puts the map behind the
  settings (`SaidAdds`), whatever the order of the names. Each road then comes to a backend
  with known settings, which agree with those of the command line except in the login; and
  a header's value on the wire, of which only the name is determined, is characterised
  once for all choices of its spelling (`OnePerNameIs`).

What callers make of tools is proved in `CliScriptProofs` for every tool, schema, value
and line of the constants. Schemas and values nest, so each comes with a number that
its parts have less of (`Depth`, `Height`: `SchemasAssumption`, `ValuesAssumption`), and
recursion over schemas is a recursive function; `TreeRecursion`, from `Induction`, gives
the solution of such a definition.

- `ParsersAgree` (`SameAsScript`): flag by flag the two parsers find the same property,
  coerce the same value and take the same argument, so by induction over the line they
  are in the same state after each. What a schema accepts without a single type is the
  same for both by induction over its variants. Properties have distinct names
  (`Distinct`): with colliding ones the programs do differ.
- `HelpIsTrusted` (`HelpIsTrue`): the flag that help shows for a property differs from
  its name in case and separators only (`KebabIs`: `Canonical` of pieces joined is their
  canonical forms joined), so it resolves to it and, names being distinct, to no other
  (`FlagResolves`). A line is then one flag with or without a text, or two of them, and
  is read step by step (`BareFlag`, `FlagAndText`, `FlagTwice`). What remains is what each
  text is for the schema: a text that goes down to the items of items is coerced by some
  schema (`CoercedAsValues`, an induction over depth), a value that shows its own text is
  no array (`ShownIsPlain`), and every type reads its own example (`ExampleReads`).
  `OwnFlag` and `Consistent` exclude the flags and schemas on which help is wrong, listed
  under Divergences.
- `CallsFaithful` (`CallsAreFaithful`): every identifier is lawful, because each word the
  conversions write is one that identifiers may have; all are different, because
  among as many numbers as there are parameters and one more some number is free (a map
  into fewer names is not injective, and numerals are distinct: `NumeralAssumption`). So a
  binding can be found by its identifier as by its name on the wire, and what is given
  arrives. What a schema admits the TypeScript type admits, by induction over the value
  and, down to `MaxTsTypeDepth`, over the type.
- `HostsAreAlike` (`HostsAgree`) has five parts. Listings: each level's text is a
  prefix of the one before (`LevelsFall`), whatever words and marks there are. Commands: of
  tools that share no alias at most one answers to a subcommand, so the first and the
  last of those that do are the same (`OneAnswers`); the script's parser and the native one
  are equal (`SameParse`); and what the native parser returns is settled
  (`AllSettled`, an invariant of its steps): no text is left in it that is JSON of a
  structure where the schema wants one, so TypeScript's second decoding changes nothing
  (`ParsedIsSettled`). The exclusion `Blurred` is where that invariant fails. The exit of a call
  over the bridge is that of the tool. Results: what is not a wrapper in a wrapper
  is unwrapped as far by one step as by all (`InnermostIs`). TOON: a rewritten text holds a
  value that the original holds (`NothingIsLost`), which for a table needs that its
  headers are distinct, as `csv_to_json` checks by counting (`HeadersDiffer`). One text:
  server and hosts make the same of one value (`SameForServerAndHosts`).

`KeywordsAssumption` says which keywords come together, `CallersAssumption` that
tools and lines are made of known schemas and of arguments, and that a signature
lists each parameter once. `HostsAssumption` says that the tools of a host have different
names, that a text is read in one way as JSON, as YAML, as a table and as TOON, and
that results have the fields of results. `MaxNesting` (`NestingAssumption`) bounds how deep
returned values nest, as what goes through a value in the code is a recursive function
up to that depth here; the run has it at 6, more than any of its values.

Model-checked only: all liveness, since TLAPS does not prove it under fairness. Every
safety invariant, action property and refinement that a run checks has its theorem.

## Not modelled

- Text with no consequence: the banner and its statistics (`app/banner.rs`), messages,
  the wording and layout of help, documentation comments in generated modules. Golden
  files test them well.
- What only passes values on: the rest of the N-API and PyO3 bindings (their providers,
  hook and header stores are in Session), the builders of `sdk.rs`, `adapters.ts`,
  `cli.ts`. What they drop on the way is in ConfigTopology.
- `config.ts`, a reader of configurations that nothing in the package calls. It takes
  only `mcpServers`, reads `$VAR` as well as `${VAR}` and drops `oauthAppName`.
- Libraries: the OAuth protocol, HTTP transport and MCP message handling, the option
  parser, the shrinking of a text. The models take from them what the code relies on.
  One such assumption carries a theorem: `HandleCallback`, that rmcp, which is handed
  the state of a callback unexamined (`connect.rs:461`), accepts only its login's own.
- `ProxyAuth`: tokens are 32 random bytes and are compared. CliScript and ClientGen take
  from it that a session accepts its own token and no other.
- Python's `connect` and `close`: a class for one thread with no lock and no callback.
- Windows: the second script file, the job object.
- The life of the TypeScript local bridge: a listener that is started and closed once.
- Function names of generated modules that collide, and what help says of them: the code
  makes no attempt at them (Divergences).
- `ReleaseScripts`, which run outside the product.
