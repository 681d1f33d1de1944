------------------------------ MODULE LlmRuntime ------------------------------
(***************************************************************************)
(* EphemeralLlamaServerRuntime (llm_assist/mod.rs): an invocation that has *)
(* prepared its assets starts a llama-server of its own for one request,   *)
(* on a port that it has found free and let go of again, waits until       *)
(* something on that port says it is healthy, posts the prompt and kills   *)
(* the server.  A few attempts are made, all within one time limit.        *)
(***************************************************************************)
EXTENDS LlmAssets

CONSTANTS
    Testers,    \* the invocations that go on to a request (llm test)
    Ports,
    Retries     \* SERVER_START_RETRIES

ASSUME RuntimeAssumption ==
    /\ Testers \subseteq Procs
    /\ Retries \in Nat \ {0}
    /\ None \notin Ports

VARIABLES
    req,      \* where the request of each tester is
    tries,    \* attempts that have failed
    port,     \* the port of the present attempt
    server,   \* the llama-server it has started for that attempt
    answer,   \* whose server answered
    shared    \* history: requests whose port was given to another's server

requestVars == <<req, tries, port, server, answer, shared>>
vars == <<assetVars, requestVars>>

Requests == {"none", "reserve", "spawn", "poll", "post", "shutdown",
             "answered", "failed", "timedout", "killed"}
Done == {"answered", "failed", "timedout", "killed"}

\* "starting" is before it has bound its port, "up" while it serves there.
Servers == {"none", "starting", "up", "exited"}
Running == {"starting", "up"}

Req(p, here) == req[p] = here

\* The testers whose server listens on a port: one at most, that is what a port is.
Listening(n) == {p \in Testers : server[p] = "up" /\ port[p] = n}

RequestInit ==
    /\ req = [p \in Testers |-> "none"]
    /\ tries = [p \in Testers |-> 0]
    /\ port = [p \in Testers |-> None]
    /\ server = [p \in Testers |-> "none"]
    /\ answer = [p \in Testers |-> None]
    /\ shared = {}

Init == AssetsInit /\ RequestInit

\* start_kill of the attempt's server, if it runs.
Drop(p) ==
    /\ server' = [server EXCEPT ![p] = "none"]
    /\ port' = [port EXCEPT ![p] = None]

-----------------------------------------------------------------------------
(* complete, complete_once and try_complete_once *)

\* complete_request goes on with what prepare returned.
Begin(p) ==
    /\ At(p, "ready")
    /\ Req(p, "none")
    /\ req' = [req EXCEPT ![p] = "reserve"]
    /\ UNCHANGED <<tries, port, server, answer, shared>>

\* Seeded bug: a port is chosen without binding it.
ReserveUnbound(p) ==
    /\ Req(p, "reserve")
    /\ \E n \in Ports : port' = [port EXCEPT ![p] = n]
    /\ req' = [req EXCEPT ![p] = "spawn"]
    /\ UNCHANGED <<tries, server, answer, shared>>

\* reserve_local_addr: a free port, which is free again when this returns.
Reserve(p) ==
    /\ Req(p, "reserve")
    /\ \E n \in Ports :
          /\ Listening(n) = {}
          /\ port' = [port EXCEPT ![p] = n]
    /\ req' = [req EXCEPT ![p] = "spawn"]
    /\ UNCHANGED <<tries, server, answer, shared>>

\* The attempt ends and its server is dropped; there are Retries of them.
AttemptFails(p) ==
    /\ Drop(p)
    /\ tries' = [tries EXCEPT ![p] = @ + 1]
    /\ req' = [req EXCEPT ![p] = IF tries[p] + 1 < Retries THEN "reserve" ELSE "failed"]

\* ServerChild::spawn; a binary that is gone or partly written does not start.
Spawn(p) ==
    /\ Req(p, "spawn")
    /\ \/ /\ onPath \/ binary # Absent
          /\ server' = [server EXCEPT ![p] = "starting"]
          /\ req' = [req EXCEPT ![p] = "poll"]
          /\ UNCHANGED <<tries, port>>
       \/ /\ ~onPath /\ ~binary.whole
          /\ AttemptFails(p)
    /\ UNCHANGED <<answer, shared>>

\* The server binds its port unless another has it.
ServerBinds(p) ==
    /\ server[p] = "starting"
    /\ Listening(port[p]) = {}
    /\ onPath \/ binary.whole
    /\ server' = [server EXCEPT ![p] = "up"]
    /\ shared' = shared \cup {q \in Testers \ {p} :
                                 port[q] = port[p] /\ req[q] \in {"spawn", "poll", "post"}}
    /\ UNCHANGED <<req, tries, port, answer>>

\* It ends by itself: no port, no model, or any other reason.
ServerExits(p) ==
    /\ server[p] \in Running
    /\ server' = [server EXCEPT ![p] = "exited"]
    /\ UNCHANGED <<req, tries, port, answer, shared>>

\* wait_until_ready: the child is seen alive, and somebody answers /health.
Healthy(p) ==
    /\ Req(p, "poll")
    /\ server[p] \in Running
    /\ Listening(port[p]) # {}
    /\ req' = [req EXCEPT ![p] = "post"]
    /\ UNCHANGED <<tries, port, server, answer, shared>>

\* The child has exited, or SERVER_READY_TIMEOUT is over.
NotReady(p) ==
    /\ Req(p, "poll")
    /\ server[p] = "exited" \/ Listening(port[p]) = {}
    /\ AttemptFails(p)
    /\ UNCHANGED <<answer, shared>>

\* Whoever listens answers with choices.
Answered(p) ==
    /\ Req(p, "post")
    /\ \E q \in Listening(port[p]) : answer' = [answer EXCEPT ![p] = q]
    /\ req' = [req EXCEPT ![p] = "shutdown"]
    /\ UNCHANGED <<tries, port, server, shared>>

\* Refused, a bad status, no choices, or no answer within the limit.
PostFails(p) ==
    /\ Req(p, "post")
    /\ AttemptFails(p)
    /\ UNCHANGED <<answer, shared>>

Shutdown(p) ==
    /\ Req(p, "shutdown")
    /\ Drop(p)
    /\ req' = [req EXCEPT ![p] = "answered"]
    /\ UNCHANGED <<tries, answer, shared>>

\* Seeded bug: the future is forgotten, its child not dropped.
TimeoutLeaks(p) ==
    /\ req[p] \in {"reserve", "spawn", "poll", "post", "shutdown"}
    /\ req' = [req EXCEPT ![p] = "timedout"]
    /\ UNCHANGED <<tries, port, server, answer, shared>>

\* The limit around all attempts; dropping the future drops the child.
Timeout(p) ==
    /\ req[p] \in {"reserve", "spawn", "poll", "post", "shutdown"}
    /\ Drop(p)
    /\ req' = [req EXCEPT ![p] = "timedout"]
    /\ UNCHANGED <<tries, answer, shared>>

\* The process is killed: no destructor runs and the server stays.
KillTester(p) ==
    /\ req[p] \notin Done \cup {"none"}
    /\ req' = [req EXCEPT ![p] = "killed"]
    /\ UNCHANGED <<tries, port, server, answer, shared>>

Attempt(p) ==
    \/ Begin(p) \/ Reserve(p) \/ Spawn(p) \/ Healthy(p) \/ NotReady(p)
    \/ PostFails(p) \/ Shutdown(p)

Outside(p) == Answered(p) \/ ServerBinds(p) \/ ServerExits(p) \/ KillTester(p)

Next ==
    \/ AssetsNext /\ UNCHANGED requestVars
    \/ /\ \E p \in Testers : Attempt(p) \/ Outside(p) \/ Timeout(p)
       /\ UNCHANGED assetVars

Spec == Init /\ [][Next]_vars

-----------------------------------------------------------------------------
(* Properties *)

RequestTypeOK ==
    /\ req \in [Testers -> Requests]
    /\ tries \in [Testers -> 0..Retries]
    /\ port \in [Testers -> Ports \cup {None}]
    /\ server \in [Testers -> Servers]
    /\ answer \in [Testers -> Testers \cup {None}]
    /\ shared \subseteq Testers

\* The port is reserved, freed, and bound by the server later, and /health is
\* asked of the port: a prompt is answered by another invocation's server only if
\* that server has taken the port during the attempt.
OwnServerAnswers ==
    \A p \in Testers : answer[p] \notin {None, p} => p \in shared

\* No llama-server outlives the request it was started for, however that ended,
\* unless the process was killed; and a request has one at a time.
ServerGoesWithRequest ==
    \A p \in Testers :
        server[p] \in Running => req[p] \in {"poll", "post", "shutdown", "killed"}
=============================================================================
