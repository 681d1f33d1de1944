---------------------------- MODULE BackendConnect ----------------------------
(***************************************************************************)
(* How a compressor starts (server/connect.rs and the constructors of      *)
(* CompressedServer in server/compressed.rs): the backends are connected   *)
(* one after the other, each is asked for its tools, resources and         *)
(* prompts, and the server then begins to serve.  A backend may answer,    *)
(* refuse or stay silent at every step, under its own time limit.          *)
(***************************************************************************)
EXTENDS Integers, Sequences

CONSTANTS Configs  \* the configurations a server is started with

Kinds == {"stdio", "http", "oauth"}  \* oauth: http with an interactive login
Limits == {"none", "zero", "some"}   \* a backend's timeout
Lists == {"tools", "resources", "prompts"}

\* A configuration names its backends in order, and may keep some tools only:
\* `include` is empty when every tool is to be kept.
ASSUME ConfigsAssumption ==
    \A c \in Configs :
        /\ Len(c.backends) \in Nat
        /\ \A i \in 1..Len(c.backends) :
               /\ c.backends[i].kind \in Kinds
               /\ c.backends[i].limit \in Limits

VARIABLES
    config,  \* the configuration of this start
    stage,   \* what the start waits for, or how it ended
    at,      \* the backend it is about
    tree,    \* of each backend: its process tree or connection
    found,   \* of each backend: the lists it answered with
    refused  \* of each backend: the optional lists it refused

vars == <<config, stage, at, tree, found, refused>>

Backends == 1..Len(config.backends)
Backend(i) == config.backends[i]
NoLists == [l \in Lists |-> {}]

Ended == {"serving", "failed"}
Stages == {"next", "connecting"} \cup Lists \cup Ended
Trees == {"none", "open", "killed", "dropped"}

-----------------------------------------------------------------------------

Init ==
    /\ config \in Configs
    /\ stage = "next"
    /\ at = 1
    /\ tree = [i \in Backends |-> "none"]
    /\ found = [i \in Backends |-> NoLists]
    /\ refused = [i \in Backends |-> {}]

\* The tools a backend offers that the configuration keeps.
Kept(i) == {t \in Backend(i).tools :
                /\ config.include = {} \/ t \in config.include
                /\ t \notin config.exclude}

Offered(i, l) == IF l = "tools" THEN Kept(i) ELSE Backend(i)[l]

\* MUTANT: the backends connected before are forgotten, not dropped.
FailKeepsEarlier(t) ==
    /\ stage' = "failed"
    /\ tree' = [i \in Backends |-> IF i = at THEN t ELSE tree[i]]
    /\ UNCHANGED <<config, at, found, refused>>

\* The start fails with backend `at` left as t.  The backends connected before
\* it are dropped with the vector that holds them.
Fail(t) ==
    /\ stage' = "failed"
    /\ tree' = [i \in Backends |-> IF i < at THEN "dropped" ELSE IF i = at THEN t ELSE tree[i]]
    /\ UNCHANGED <<config, at, found, refused>>

\* Only a child process is killed with everything it started; a remote
\* connection is closed.
Terminated == IF Backend(at).kind = "stdio" THEN "killed" ELSE "dropped"

\* MUTANT: the limit holds for the connection only.
TimedConnectOnly ==
    Backend(at).limit = "some" /\ stage = "connecting" /\ Backend(at).kind # "oauth"

\* A login waits for a person: no limit holds for its connection.
Timed == Backend(at).limit = "some" /\ (stage = "connecting" => Backend(at).kind # "oauth")

After == [tools |-> "resources", resources |-> "prompts", prompts |-> "next"]

-----------------------------------------------------------------------------

RejectLimit ==
    /\ stage = "next" /\ at \in Backends
    /\ Backend(at).limit = "zero"
    /\ Fail("none")

SpawnFails ==
    /\ stage = "next" /\ at \in Backends
    /\ Backend(at).limit # "zero" /\ Backend(at).kind = "stdio"
    /\ Fail("none")

Connect ==
    /\ stage = "next" /\ at \in Backends
    /\ Backend(at).limit # "zero"
    /\ stage' = "connecting"
    /\ tree' = [tree EXCEPT ![at] = "open"]
    /\ UNCHANGED <<config, at, found, refused>>

Connected ==
    /\ stage = "connecting"
    /\ stage' = "tools"
    /\ UNCHANGED <<config, at, tree, found, refused>>

ConnectRefused ==
    /\ stage = "connecting"
    /\ Fail("dropped")

\* The limit expires; the race with an answer is the choice between actions.
ConnectExpires ==
    /\ stage = "connecting" /\ Timed
    /\ Fail(Terminated)

\* A list is complete: go on with the next one, or with the next backend.
GoOn ==
    /\ stage' = After[stage]
    /\ at' = IF stage = "prompts" THEN at + 1 ELSE at
    /\ UNCHANGED <<config, tree>>

Listed ==
    /\ stage \in Lists
    /\ found' = [found EXCEPT ![at] = [@ EXCEPT ![stage] = Offered(at, stage)]]
    /\ UNCHANGED refused
    /\ GoOn

\* Every backend has tools; resources and prompts are optional in the protocol.
ListToolsRefused ==
    /\ stage = "tools"
    /\ Fail(Terminated)

OptionalListRefused ==
    /\ stage \in {"resources", "prompts"}
    /\ refused' = [refused EXCEPT ![at] = @ \cup {stage}]
    /\ UNCHANGED found
    /\ GoOn

\* MUTANT: an optional list that takes too long counts as empty.
ListExpiresIgnored ==
    /\ stage \in Lists /\ Timed
    /\ IF stage = "tools" THEN Fail(Terminated) ELSE GoOn /\ UNCHANGED <<found, refused>>

ListExpires ==
    /\ stage \in Lists /\ Timed
    /\ Fail(Terminated)

Serve ==
    /\ stage = "next" /\ at \notin Backends
    /\ stage' = "serving"
    /\ UNCHANGED <<config, at, tree, found, refused>>

\* The bridge cannot listen.
BindFails ==
    /\ stage = "next" /\ at \notin Backends
    /\ Fail("none")

Expires == ConnectExpires \/ ListExpires
Next ==
    \/ RejectLimit \/ SpawnFails \/ Connect
    \/ Connected \/ ConnectRefused
    \/ Listed \/ ListToolsRefused \/ OptionalListRefused
    \/ Expires
    \/ Serve \/ BindFails

Spec == Init /\ [][Next]_vars

\* The runtime polls the start and its timers; nothing makes a backend answer.
Fairness ==
    /\ WF_vars(RejectLimit \/ SpawnFails \/ Connect \/ Serve \/ BindFails)
    /\ WF_vars(Expires)

FairSpec == Spec /\ Fairness

-----------------------------------------------------------------------------
(* Properties *)

\* Every variable keeps to its type, and a start that waits for a backend
\* has it open.
TypeOK ==
    /\ config \in Configs
    /\ stage \in Stages
    /\ at \in 1..(Len(config.backends) + 1)
    /\ tree \in [Backends -> Trees]
    /\ DOMAIN found = Backends /\ \A i \in Backends : DOMAIN found[i] = Lists
    /\ refused \in [Backends -> SUBSET {"resources", "prompts"}]
    /\ stage \in {"connecting"} \cup Lists => at \in Backends /\ tree[at] = "open"

\* A start that fails leaves no backend connected, whichever backend it failed
\* at and however many were connected before it, and a child that was asked for
\* a list has been killed with its process tree by the time the start gives up
\* (connect.rs, cleanup_after_discovery_failure and connect_stdio_backend).
FailureLeavesNone ==
    [][stage' = "failed" =>
           /\ \A i \in Backends : tree'[i] # "open"
           /\ stage \in Lists /\ Backend(at).kind = "stdio" => tree'[at] = "killed"]_vars

\* A server that serves has every backend connected and every list they
\* offer, but for optional lists a backend refused: a list that took too long
\* is never taken for an empty one (connect.rs,
\* optional_discovery_error_is_ignorable).
ServesWhole ==
    stage = "serving" =>
        \A i \in Backends :
            /\ tree[i] = "open"
            /\ \A l \in Lists \ refused[i] : found[i][l] = Offered(i, l)

\* With a limit on every backend and no login to wait for, a start ends,
\* whatever the backends do not answer.
StartEnds ==
    (\A i \in Backends : Backend(i).limit # "none" /\ Backend(i).kind # "oauth")
        ~> stage \in Ended
===============================================================================
