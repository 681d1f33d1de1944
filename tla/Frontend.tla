------------------------------- MODULE Frontend -------------------------------
(***************************************************************************)
(* Which backend a call reaches once the server serves: the names backends *)
(* are published under (the constructors of CompressedServer), the wrapper *)
(* tools listed for them, and the way from a name back to a backend in     *)
(* server/registration.rs, proxy/server.rs, sdk.rs and the two host SDKs.  *)
(*                                                                         *)
(* A name is the sequence of words that "_" joins in the code: "foo_bar"   *)
(* is one name whether it was configured so or made of a prefix and a      *)
(* name.  A backend is its position, and 0 stands for an error.            *)
(***************************************************************************)
EXTENDS BackendConnect

CONSTANTS Words,  \* what names are made of
          NoName  \* no server name was given

Wrappers == {"get_tool_schema", "invoke_tool", "list_tools"}

\* Names are sequences of words, which no name is not, and tools have names.
ASSUME WordsAssumption == Wrappers \subseteq Words /\ NoName \notin Seq(Words)
ASSUME NamesAssumption ==
    \A c \in Configs :
        /\ c.start \in {"command", "many", "json"}
        /\ c.prefix = NoName \/ c.prefix \in Seq(Words)
        /\ \A i \in 1..Len(c.backends) :
               c.backends[i].name \in Seq(Words) /\ NoName \notin c.backends[i].tools

Count == Len(config.backends)

\* The name a backend is published under.  A prefix stands for the name of a
\* single backend, and before the names of several.
PublicName(i) ==
    LET name == Backend(i).name
        prefixed == config.prefix # NoName
    IN  CASE config.start = "command" -> IF prefixed THEN config.prefix ELSE name
          [] config.start = "json" /\ Count = 1 -> IF prefixed THEN config.prefix ELSE <<>>
          [] OTHER -> IF prefixed THEN config.prefix \o name ELSE name

\* wrapper_prefix with the wrapper's own name: no "_" after an empty name.
WrapperName(i, wrapper) == Append(PublicName(i), wrapper)

EndsIn(name, word) == name # <<>> /\ name[Len(name)] = word

\* The first of some backends, as `find` returns it.
First(backends) ==
    IF backends = {} THEN 0 ELSE CHOOSE i \in backends : \A j \in backends : i <= j

\* The one backend that matches; several are an error as well as none.
Sole(backends) == IF \E i \in backends : backends = {i} THEN First(backends) ELSE 0

\* MUTANT: what follows the prefix is not compared as a whole.
BackendForWrapperByPrefix(name) ==
    First({i \in Backends : /\ Len(name) > Len(PublicName(i))
                           /\ SubSeq(name, 1, Len(PublicName(i))) = PublicName(i)
                           /\ name[Len(name)] \in Wrappers})

BackendForWrapper(name) ==
    First({i \in Backends : \E wrapper \in Wrappers : name = WrapperName(i, wrapper)})

\* A backend is only asked for a tool that it listed and the configuration kept.
InvokeBackend(i, tool) == IF i # 0 /\ tool \in found[i].tools THEN i ELSE 0

-----------------------------------------------------------------------------
(* The ways in *)

\* tools/call of the MCP frontend, with the backend tool in the arguments.
CallTool(name, tool) ==
    IF EndsIn(name, "invoke_tool") \/ EndsIn(name, "get_tool_schema")
    THEN InvokeBackend(BackendForWrapper(name), tool)
    ELSE 0

\* A generated client posts the backend tool's own name.
InvokeSingle(tool) == IF Count = 1 THEN InvokeBackend(1, tool) ELSE 0

\* The bridge and in-process sessions.  The wrapper's input names the tool;
\* input that is no wrapper input (NoName) is an error.
DispatchExec(name, tool) ==
    CASE ~EndsIn(name, "invoke_tool") -> InvokeSingle(name)
      [] EndsIn(name, "invoke_tool") /\ tool = NoName -> 0
      [] OTHER -> InvokeBackend(BackendForWrapper(name), tool)

ListsWrappers == config.mode = "compressed"

\* CompressorProxy of the Rust SDK looks for a listed wrapper and posts to it.
RustInvoke(server, tool) ==
    LET i == Sole({j \in Backends : /\ ListsWrappers /\ PublicName(j) # <<>>
                                    /\ server # NoName => PublicName(j) = server})
    IN  IF i = 0 THEN 0 ELSE DispatchExec(WrapperName(i, "invoke_tool"), tool)

\* The Python and TypeScript SDKs make up the wrapper's name.
HostInvoke(server, tool) ==
    DispatchExec(IF server = NoName THEN <<"invoke_tool">> ELSE Append(server, "invoke_tool"), tool)

\* MUTANT: by the configured name.
SchemaOnConfigured(server, tool) ==
    Sole({i \in Backends : tool \in found[i].tools
                             /\ (server # NoName => Backend(i).name = server)})

\* The schema a call is made by: every SDK looks it up by public name.
SchemaOn(server, tool) ==
    Sole({i \in Backends : tool \in found[i].tools /\ (server # NoName => PublicName(i) = server)})

\* The server an SDK takes when the caller names none.
RustDefault ==
    CASE config.prefix # NoName -> config.prefix
      [] config.prefix = NoName /\ Count = 1 -> PublicName(1)
      [] OTHER -> NoName

HostDefault == IF config.start = "json" \/ Count # 1 THEN NoName ELSE Backend(1).name

-----------------------------------------------------------------------------
(* Properties *)

Servers == {PublicName(i) : i \in Backends}
Tools == UNION {Backend(i).tools : i \in Backends}
DistinctNames == \A i, j \in Backends : PublicName(i) = PublicName(j) => i = j

\* A listed wrapper calls the tools of the backend it was listed for and of no
\* other, through the MCP frontend and through the bridge, also when one
\* backend's name begins with another's (compressed.rs, backend_for_wrapper).
WrappersReachTheirBackend ==
    stage = "serving" /\ DistinctNames =>
        \A i \in Backends, tool \in Tools :
            LET name == WrapperName(i, "invoke_tool")
                reached == IF tool \in Kept(i) THEN i ELSE 0
            IN  CallTool(name, tool) = reached /\ DispatchExec(name, tool) = reached

\* The SDKs agree: a call by a public name reaches the backend published so,
\* and its schema is looked up there (sdk.rs, invoke_on and schema_on;
\* client.py and native_client.ts, invoke and schema).
NamedServerReached ==
    stage = "serving" /\ DistinctNames =>
        \A i \in Backends, tool \in Tools :
            LET server == PublicName(i)
                reached == IF tool \in Kept(i) THEN i ELSE 0
            IN  server # <<>> =>
                    /\ ListsWrappers => RustInvoke(server, tool) = reached
                    /\ HostInvoke(server, tool) = reached
                    /\ SchemaOn(server, tool) = reached

\* A sole backend is reached without being named: by an SDK, when no server
\* name prefixes the wrappers (in Rust, if it is published under a name that is
\* not empty), and by the client generated for it, except for a tool that is
\* named like a wrapper (compressed.rs, default_server_name and
\* invoke_single_backend_tool).
SoleBackendReached ==
    stage = "serving" /\ Count = 1 =>
        \A tool \in Kept(1) :
            /\ config.prefix = NoName =>
                   /\ config.start = "many" /\ ListsWrappers /\ PublicName(1) # <<>> => RustInvoke(RustDefault, tool) = 1
                   /\ config.start \in {"many", "json"} => HostInvoke(HostDefault, tool) = 1
            /\ ~EndsIn(tool, "invoke_tool") => DispatchExec(tool, NoName) = 1
===============================================================================
