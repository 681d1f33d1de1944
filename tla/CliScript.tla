------------------------------ MODULE CliScript ------------------------------
(***************************************************************************)
(* CLI mode (app/runtime.rs, client_gen/cli.rs): every mcp-compressor      *)
(* process started with the same --server-name rewrites one script, which  *)
(* holds a BRIDGES map from the process id of each live session to its     *)
(* bridge and token.  The script is read, merged, truncated and written    *)
(* with no lock; a client runs the copy it was started with, picks the     *)
(* bridge of the nearest session among its ancestors, or any live one, and *)
(* posts its call there.                                                   *)
(*                                                                         *)
(* A session starts once and its token is drawn once, so an entry's token  *)
(* is its pid.  Ports are given out again when a session has stopped.  A   *)
(* serving bridge answers the probes in time, and the chmod of a new file  *)
(* counts as part of its writing.                                          *)
(***************************************************************************)
EXTENDS FiniteSets

CONSTANTS
    Sessions,   \* processes in CLI mode that share a script
    Ports,      \* the ports the system gives out
    Clients,    \* runs of the script
    None

\* How a run ends that no session has answered.
Failures == {"empty script", "no bridge", "refused", "unauthorized"}

ASSUME CliScriptAssumption ==
    /\ None \notin Sessions \cup Ports \cup Failures
    /\ Sessions \cap Failures = {}

VARIABLES
    pc,         \* where run_cli_mode is
    port,       \* the port a session's bridge listens on
    found,      \* extra_cli_bridges: the live entries a session has read
    script,     \* "absent", "empty" (truncated), "whole"
    bridges,    \* the BRIDGES map of a whole script
    client,     \* the client runs
    missed,     \* history: sessions an update under way cannot preserve
    overtaken   \* history: sessions such an update was written over

vars == <<pc, port, found, script, bridges, client, missed, overtaken>>

Entry == [pid : Sessions, port : Ports]

Serving == {"serving", "merged", "emptied", "ready"}
Updating == {"merged", "emptied"}

Client == [pc     : {"off", "finding", "sending", "done"},
           tree   : Sessions \cup {None},    \* the session it runs under
           known  : SUBSET Entry,            \* the BRIDGES it runs with
           entry  : Entry \cup {None},       \* find_bridge's answer
           answer : Sessions \cup Failures \cup {None},
           due    : {"no", "ready", "listed"}]  \* history: at its start its
                                  \* session was ready, and not overtaken

Off == [pc |-> "off", tree |-> None, known |-> {}, entry |-> None,
        answer |-> None, due |-> "no"]

Init ==
    /\ pc = [s \in Sessions |-> "new"]
    /\ port = [s \in Sessions |-> None]
    /\ found = [s \in Sessions |-> {}]
    /\ script = "absent"
    /\ bridges = {}
    /\ client = [c \in Clients |-> Off]
    /\ missed = [s \in Sessions |-> {}]
    /\ overtaken = {}

\* bridge_is_live, alive: something listens on the port, whoever it is.
Live(e) == \E s \in Sessions : port[s] = e.port

Ready == {s \in Sessions : pc[s] = "ready"}

Own(s) == [pid |-> s, port |-> port[s]]

Goto(s, there) == pc' = [pc EXCEPT ![s] = there]

-----------------------------------------------------------------------------
(* run_cli_mode *)

\* ToolProxyServer::start binds a port nobody holds.
Start(s) ==
    /\ pc[s] = "new"
    /\ \E p \in Ports :
          /\ \A r \in Sessions : port[r] # p
          /\ port' = [port EXCEPT ![s] = p]
    /\ Goto(s, "serving")
    /\ UNCHANGED <<found, script, bridges, client, missed, overtaken>>

\* Seeded bug: the script is replaced, as for generated code clients.
MergeNothing(s) ==
    /\ pc[s] = "serving"
    /\ found' = [found EXCEPT ![s] = {}]
    /\ missed' = [missed EXCEPT ![s] = IF script = "whole" THEN {} ELSE Ready]
    /\ Goto(s, "merged")
    /\ UNCHANGED <<port, script, bridges, client, overtaken>>

\* The script is read and its entries probed; a script that is not there, or
\* is being replaced, has none.
Merge(s) ==
    /\ pc[s] = "serving"
    /\ found' = [found EXCEPT ![s] = {e \in bridges : Live(e)}]
    /\ missed' = [missed EXCEPT ![s] = IF script = "whole" THEN {} ELSE Ready]
    /\ Goto(s, "merged")
    /\ UNCHANGED <<port, script, bridges, client, overtaken>>

\* Seeded bug: every entry is written under the new process id.
WriteRekeyed(s) ==
    /\ pc[s] = "emptied"
    /\ script' = "whole"
    /\ bridges' = {[e EXCEPT !.pid = s] : e \in found[s]} \cup {Own(s)}
    /\ missed' = [r \in Sessions |->
                     IF pc[r] \in Updating /\ r # s
                     THEN missed[r] \cup {s} ELSE missed[r]]
    /\ overtaken' = (overtaken \cup missed[s]) \ {s}
    /\ Goto(s, "ready")
    /\ UNCHANGED <<port, found, client>>

\* fs::write opens the file with truncation ...
Truncate(s) ==
    /\ pc[s] = "merged"
    /\ script' = "empty"
    /\ bridges' = {}
    /\ Goto(s, "emptied")
    /\ UNCHANGED <<port, found, client, missed, overtaken>>

\* ... and writes the text rendered from what was read.
Write(s) ==
    /\ pc[s] = "emptied"
    /\ script' = "whole"
    /\ bridges' = {e \in found[s] : e.pid # s} \cup {Own(s)}
    /\ missed' = [r \in Sessions |->
                     IF pc[r] \in Updating /\ r # s
                     THEN missed[r] \cup {s} ELSE missed[r]]
    /\ overtaken' = (overtaken \cup missed[s]) \ {s}
    /\ Goto(s, "ready")
    /\ UNCHANGED <<port, found, client>>

\* Ctrl-C, an error or a kill, at any point: the bridge goes with the process,
\* the script stays as it is.
Stop(s) ==
    /\ pc[s] \in Serving
    /\ port' = [port EXCEPT ![s] = None]
    /\ Goto(s, "stopped")
    /\ UNCHANGED <<found, script, bridges, client, missed, overtaken>>

-----------------------------------------------------------------------------
(* A run of the script *)

\* sh reads the script; an empty one does nothing and succeeds.
Begun(tree) ==
    IF script = "empty"
    THEN [Off EXCEPT !.pc = "done", !.tree = tree, !.answer = "empty script"]
    ELSE [Off EXCEPT !.pc = "finding", !.tree = tree, !.known = bridges,
                     !.due = CASE tree \notin Ready -> "no"
                               [] tree \in Ready \cap overtaken -> "ready"
                               [] OTHER -> "listed"]

Launch(c) ==
    /\ client[c].pc = "off"
    /\ script # "absent"
    /\ \E tree \in Sessions \cup {None} :
          client' = [client EXCEPT ![c] = Begun(tree)]
    /\ UNCHANGED <<pc, port, found, script, bridges, missed, overtaken>>

Answered(c, how) ==
    client' = [client EXCEPT ![c] = [@ EXCEPT !.pc = "done", !.answer = how]]

Chosen(c, e) ==
    client' = [client EXCEPT ![c] = [@ EXCEPT !.pc = "sending", !.entry = e]]

\* Seeded bug: the process tree is not looked at.
CandidatesAnywhere(c) == {e \in client[c].known : Live(e)}

\* The entries find_bridge may return.
Candidates(c) ==
    LET live == {e \in client[c].known : Live(e)}
        own  == {e \in live : e.pid = client[c].tree}
    IN  IF own # {} THEN own ELSE live

\* find_bridge
Find(c) ==
    /\ client[c].pc = "finding"
    /\ IF Candidates(c) = {} THEN Answered(c, "no bridge")
       ELSE \E e \in Candidates(c) : Chosen(c, e)
    /\ UNCHANGED <<pc, port, found, script, bridges, missed, overtaken>>

\* POST /exec with the entry's token, to whoever listens on its port now.
Send(c) ==
    /\ client[c].pc = "sending"
    /\ LET e == client[c].entry
       IN  IF port[e.pid] = e.port THEN Answered(c, e.pid)
           ELSE IF Live(e) THEN Answered(c, "unauthorized")
           ELSE Answered(c, "refused")
    /\ UNCHANGED <<pc, port, found, script, bridges, missed, overtaken>>

Next ==
    \/ \E s \in Sessions : \/ Start(s) \/ Merge(s) \/ Truncate(s) \/ Write(s)
                           \/ Stop(s)
    \/ \E c \in Clients : Launch(c) \/ Find(c) \/ Send(c)

Spec == Init /\ [][Next]_vars

-----------------------------------------------------------------------------
(* Properties *)

TypeOK ==
    /\ pc \in [Sessions -> Serving \cup {"new", "stopped"}]
    /\ port \in [Sessions -> Ports \cup {None}]
    /\ found \in [Sessions -> SUBSET Entry]
    /\ script \in {"absent", "empty", "whole"}
    /\ bridges \in SUBSET Entry
    /\ client \in [Clients -> Client]
    /\ \A c \in Clients : client[c].pc = "sending" => client[c].entry \in Entry
    /\ missed \in [Sessions -> SUBSET Sessions]
    /\ overtaken \in SUBSET Sessions

\* A ready session stays in the script, with the port it listens on, whatever
\* sessions start, stop or die half-way afterwards and whatever ports are given
\* out again; only an update that read the script before the session was
\* written, or read it while it was being replaced, can lose it.
ListedUnlessOvertaken ==
    script = "whole" => \A s \in Ready \ overtaken : Own(s) \in bridges

\* A client started below a session that is listed gets its answer from that
\* session as long as it runs, with any other bridge live, and never from a
\* bridge that has been given an old port.
ListedSessionAnswers ==
    \A c \in Clients :
        client[c].pc = "done" /\ client[c].due = "listed" /\ client[c].tree \in Ready
            => client[c].answer = client[c].tree

\* A bridge turns a client down only for the token of a session that is gone:
\* no entry, however old, names a wrong port for a session that runs.
OnlyTheGoneAreRefused ==
    \A c \in Clients :
        client[c].pc = "done" /\ client[c].answer \in {"refused", "unauthorized"}
            => pc[client[c].entry.pid] = "stopped"

\* "Picks the bridge for the current process tree when multiple sessions share
\* a CLI name", of a client whose session is ready when it starts and ends.
TreeIsServed ==
    \A c \in Clients :
        client[c].pc = "done" /\ client[c].due # "no" /\ client[c].tree \in Ready
            => client[c].answer = client[c].tree
=============================================================================
