-------------------------- MODULE ClientLifecycle --------------------------
(***************************************************************************)
(* CompressorClient and CompressorProxy of the TypeScript package: connect, *)
(* client.close and proxy.close, called from any number of asynchronous     *)
(* tasks, over native sessions that start and shut down asynchronously.     *)
(*                                                                         *)
(* An action is a stretch of JavaScript that runs without yielding: a user's*)
(* call up to its first await, or what runs when an awaited promise is      *)
(* settled.  Event-loop tasks, here the native session's start and          *)
(* shutdown, run only when no continuation is left to run; a user's call    *)
(* may come at any point.  Whether a promise resolves or rejects matters to *)
(* the caller alone and is left out, except for a failed start.             *)
(***************************************************************************)
CONSTANTS
  Calls,     \* calls of connect, client.close and proxy.close
  Sessions,  \* native sessions, one for each attempt to connect
  None

ASSUME NoneAssumption == None \notin Calls \cup Sessions

VARIABLES
  client,  \* the fields of the CompressorClient
  native,  \* [Sessions -> state of the native session]
  call     \* [Calls -> what the call does, waits for and has seen]

vars == <<client, native, call>>

Gone == {"failed", "abandoned", "closing", "released"}

\* client.session is set and cleared with client.proxy; a proxy goes by the
\* name of its session.  closing names the call that began the shutdown.
Client == [proxy : Sessions \cup {None}, connecting : Sessions \cup {None},
           closing : Calls \cup {None}]

\* op, how far it is, what it waits for or has returned, and, to state the
\* properties, the sessions of interest when it was made: those already gone
\* for connect, those not yet gone or released for close.
CallState == [op : {"none", "connect", "close", "proxyClose"},
              pc : {"idle", "afterClosing", "starting", "joined", "connecting",
                    "reading", "releasing", "ending", "returned"},
              on : Sessions \cup Calls \cup {None}, seen : SUBSET Sessions]

Init ==
  /\ client = [proxy |-> None, connecting |-> None, closing |-> None]
  /\ native = [s \in Sessions |-> "unused"]
  /\ call = [c \in Calls |-> [op |-> "none", pc |-> "idle", on |-> None, seen |-> {}]]

In(states) == {s \in Sessions : native[s] \in states}

Made(op, pc, on, seen) == [op |-> op, pc |-> pc, on |-> on, seen |-> seen]
Goto(c, pc, on) == call' = [call EXCEPT ![c] = Made(@.op, pc, on, @.seen)]

-----------------------------------------------------------------------------
(* connect *)

\* The part of connect after the wait for a shutdown: the proxy in use, the
\* connection under way, or a new one.  seen is what the call had seen.
ConnectNow(c, seen) ==
  \/ /\ client.proxy # None
     /\ call' = [call EXCEPT ![c] = Made("connect", "returned", client.proxy, seen)]
     /\ UNCHANGED <<client, native>>
  \/ /\ client.proxy = None /\ client.connecting # None
     /\ call' = [call EXCEPT ![c] = Made("connect", "starting", client.connecting, seen)]
     /\ UNCHANGED <<client, native>>
  \/ /\ client.proxy = None /\ client.connecting = None
     /\ \E s \in In({"unused"}) :
          /\ native' = [native EXCEPT ![s] = "starting"]
          /\ client' = [client EXCEPT !.connecting = s]
          /\ call' = [call EXCEPT ![c] = Made("connect", "starting", s, seen)]

\* A call of connect; while the client is closing it waits for that first.
Connect(c) ==
  /\ call[c].pc = "idle"
  /\ \/ /\ client.closing # None
        /\ call' = [call EXCEPT ![c] = Made("connect", "afterClosing", client.closing, In(Gone))]
        /\ UNCHANGED <<client, native>>
     \/ /\ client.closing = None
        /\ ConnectNow(c, In(Gone))

ShutdownOver(c) == call[c].pc = "afterClosing" /\ call[call[c].on].pc = "returned"

\* The awaited shutdown is over, well or not; closingPromise is not read again.
ResumeConnect(c) == ShutdownOver(c) /\ ConnectNow(c, call[c].seen)

StartOver(c) == call[c].pc = "starting" /\ native[call[c].on] # "starting"

\* The connection is settled: connect returns its proxy or throws its error.
ConnectReturns(c) ==
  /\ StartOver(c)
  /\ Goto(c, "returned", call[c].on)
  /\ UNCHANGED <<client, native>>

-----------------------------------------------------------------------------
(* client.close *)

\* Mutant: a connection under way is not waited for.
CloseAtOnce(c) ==
  /\ call[c].pc = "idle" /\ client.closing = None
  /\ client' = [client EXCEPT !.closing = c]
  /\ call' = [call EXCEPT ![c] = Made("close", "reading", None, In({"starting", "live", "closing"}))]
  /\ UNCHANGED native

\* The first close begins the shutdown; it waits for a connection under way.
\* A later one gets the same promise.
Close(c) ==
  /\ call[c].pc = "idle"
  /\ LET seen == In({"starting", "live", "closing"}) IN
     \/ /\ client.closing = None
        /\ client' = [client EXCEPT !.closing = c]
        /\ call' = [call EXCEPT ![c] =
             Made("close", IF client.connecting = None THEN "reading" ELSE "connecting",
                  client.connecting, seen)]
     \/ /\ client.closing # None
        /\ call' = [call EXCEPT ![c] = Made("close", "joined", client.closing, seen)]
        /\ UNCHANGED client
  /\ UNCHANGED native

\* closeCurrentConnection past its first await: the proxy now in use is closed.
CloseReads(c) ==
  /\ call[c].pc = "reading"
  /\ \/ /\ client.proxy = None
        /\ Goto(c, "ending", None)
        /\ UNCHANGED <<client, native>>
     \/ /\ client.proxy # None
        /\ native' = [native EXCEPT ![client.proxy] = "closing"]
        /\ client' = [client EXCEPT !.proxy = None]
        /\ Goto(c, "releasing", client.proxy)

\* The shutdown is over: closingPromise is cleared, then settled.
CloseEnds(c) ==
  /\ call[c].pc = "ending"
  /\ client' = [client EXCEPT !.closing = IF @ = c THEN None ELSE @]
  /\ Goto(c, "returned", None)
  /\ UNCHANGED native

JoinedOver(c) == call[c].pc = "joined" /\ call[call[c].on].pc = "returned"

JoinedReturns(c) ==
  /\ JoinedOver(c)
  /\ Goto(c, "returned", call[c].on)
  /\ UNCHANGED <<client, native>>

-----------------------------------------------------------------------------
(* proxy.close *)

\* Mutant: the client is not told that its proxy is closed.
ProxyCloseUnnoticed(c) ==
  /\ call[c].pc = "idle"
  /\ \E d \in Calls :
       /\ call[d].op = "connect" /\ call[d].pc = "returned" /\ native[call[d].on] = "live"
       /\ call' = [call EXCEPT ![c] = Made("proxyClose", "releasing", call[d].on, {})]
       /\ native' = [native EXCEPT ![call[d].on] = "closing"]
  /\ UNCHANGED client

\* A user closes a proxy that some connect has returned.  The first close
\* detaches it from the client and begins the native shutdown; every close
\* waits for that shutdown.
ProxyClose(c) ==
  /\ call[c].pc = "idle"
  /\ \E d \in Calls :
       /\ call[d].op = "connect" /\ call[d].pc = "returned"
       /\ LET s == call[d].on IN
          /\ native[s] \notin {"failed", "abandoned"}
          /\ call' = [call EXCEPT ![c] = Made("proxyClose", "releasing", s, {})]
          /\ IF native[s] = "live"
             THEN /\ native' = [native EXCEPT ![s] = "closing"]
                  /\ client' = [client EXCEPT !.proxy = IF @ = s THEN None ELSE @]
             ELSE UNCHANGED <<native, client>>

ReleaseOver(c) == call[c].pc = "releasing" /\ native[call[c].on] = "released"

\* session.close() is settled.  client.close goes on to clear closingPromise.
ReleaseReturns(c) ==
  /\ ReleaseOver(c)
  /\ Goto(c, IF call[c].op = "close" THEN "ending" ELSE "returned", call[c].on)
  /\ UNCHANGED <<client, native>>

-----------------------------------------------------------------------------
(* Event-loop tasks *)

Idle == \A c \in Calls :
  /\ call[c].pc \notin {"reading", "ending"}
  /\ ~ (ShutdownOver(c) \/ StartOver(c) \/ JoinedOver(c) \/ ReleaseOver(c))

Waiting(s) == {c \in Calls : call[c].pc = "connecting" /\ call[c].on = s}

\* The native session has started and is adopted.  connectPromise is cleared,
\* and a close that waited for it shuts the session down, before any user's
\* continuation runs.
StartSucceeds(s) ==
  /\ Idle /\ native[s] = "starting"
  /\ native' = [native EXCEPT ![s] = IF Waiting(s) = {} THEN "live" ELSE "closing"]
  /\ client' = [client EXCEPT !.connecting = IF @ = s THEN None ELSE @,
                              !.proxy = IF Waiting(s) = {} THEN s ELSE None]
  /\ call' = [c \in Calls |-> IF c \in Waiting(s)
                              THEN [call[c] EXCEPT !.pc = "releasing"] ELSE call[c]]

\* Mutant: connectPromise is cleared after a success only.
StartFailsSticky(s) ==
  /\ Idle /\ native[s] = "starting" /\ Waiting(s) = {}
  /\ native' = [native EXCEPT ![s] = "failed"]
  /\ UNCHANGED <<client, call>>

\* The start fails, or its adoption does: then the session is abandoned, its
\* shutdown begun and not awaited.  A close that waited for it goes on with no proxy to close.
StartFails(s) ==
  /\ Idle /\ native[s] = "starting"
  /\ \E outcome \in {"failed", "abandoned"} : native' = [native EXCEPT ![s] = outcome]
  /\ client' = [client EXCEPT !.connecting = IF @ = s THEN None ELSE @]
  /\ call' = [c \in Calls |-> IF c \in Waiting(s)
                              THEN [call[c] EXCEPT !.pc = "ending"] ELSE call[c]]

\* The native shutdown is over.
NativeCloses(s) ==
  /\ Idle /\ native[s] = "closing"
  /\ native' = [native EXCEPT ![s] = "released"]
  /\ UNCHANGED <<client, call>>

\* Every call has returned and nothing runs any more.
Done ==
  /\ \A c \in Calls : call[c].pc = "returned"
  /\ In({"starting", "closing"}) = {}
  /\ UNCHANGED vars

Next ==
  \/ \E c \in Calls :
       \/ Connect(c) \/ ResumeConnect(c) \/ ConnectReturns(c)
       \/ Close(c) \/ CloseReads(c) \/ CloseEnds(c) \/ JoinedReturns(c)
       \/ ProxyClose(c) \/ ReleaseReturns(c)
  \/ \E s \in Sessions : StartSucceeds(s) \/ StartFails(s) \/ NativeCloses(s)
  \/ Done

Spec == Init /\ [][Next]_vars

-----------------------------------------------------------------------------
(* Properties *)

Closes(c) == \/ call[c].pc \in {"connecting", "reading", "ending"}
             \/ call[c].op = "close" /\ call[c].pc = "releasing"

\* Every field has its type, and closingPromise is set exactly while the
\* shutdown that set it runs.
TypeOK ==
  /\ client \in Client
  /\ native \in [Sessions -> Gone \cup {"unused", "starting", "live"}]
  /\ call \in [Calls -> CallState]
  /\ \A c \in Calls : (client.closing = c) <=> Closes(c)

\* However connect, client.close and proxy.close overlap, one session at most is
\* starting or in use, and it can be closed through the client: calls of
\* connect share it, no order of calls detaches it from the client while it
\* runs, and the client never holds a session whose shutdown has begun.
Reachable ==
  /\ \A s \in Sessions : native[s] = "live" <=> client.proxy = s
  /\ \A s \in Sessions : native[s] = "starting" <=> client.connecting = s
  /\ client.proxy = None \/ client.connecting = None

\* connect never answers with a session that had failed, or whose shutdown had
\* begun, before it was called: after a failure or a close it starts anew.
FreshConnect ==
  \A c \in Calls : call[c].op = "connect" /\ call[c].pc = "returned"
                     => call[c].on \notin call[c].seen

\* Once the shutdown that a close began is over, no session that was starting or
\* in use when it was called is still starting or in use, also one that
\* finished connecting meanwhile.
CloseCovers ==
  \A c \in Calls : call[c].op = "close" /\ call[c].pc = "returned" /\ call[c].on \notin Calls
                     => call[c].seen \cap In({"starting", "live"}) = {}

-----------------------------------------------------------------------------
(* The inductive invariant *)

\* What the position of a call says of its operation and of what it waits for.
CallInv ==
  \A c \in Calls :
    /\ call[c].pc \in {"afterClosing", "starting"} => call[c].op = "connect"
    /\ call[c].pc \in {"joined", "connecting", "reading", "ending"} => call[c].op = "close"
    /\ call[c].pc = "releasing" => call[c].op \in {"close", "proxyClose"}
    /\ call[c].pc = "joined" => call[c].on \in Calls
    /\ call[c].pc = "connecting" => call[c].on \in In({"starting"})

\* What a connect had seen stays gone, and what it waits for is something else.
ConnectInv ==
  \A c \in Calls : call[c].op = "connect" =>
    /\ call[c].seen \subseteq In(Gone)
    /\ call[c].pc \in {"starting", "returned"} => call[c].on \in Sessions \ call[c].seen

\* What a shutdown has still to deal with: the session it waits for, then the
\* one in use, then none.
CloseInv ==
  \A c \in Calls : call[c].op = "close" =>
    /\ call[c].seen \cap In({"unused"}) = {}
    /\ call[c].pc = "reading" => call[c].seen \cap In({"starting"}) = {}
    /\ call[c].pc \in {"releasing", "ending"} \/ (call[c].pc = "returned" /\ call[c].on \notin Calls)
       => call[c].seen \cap In({"starting", "live"}) = {}

IInv == TypeOK /\ CallInv /\ Reachable /\ ConnectInv /\ CloseInv

=============================================================================
