------------------------------ MODULE Passthrough ------------------------------
(***************************************************************************)
(* What the MCP frontend of a server lists and answers                     *)
(* (server/registration.rs over server/compressed.rs): its own tools, and  *)
(* the resources and prompts that it passes through to the backends.       *)
(*                                                                         *)
(* An answer is [asked, says]: the backend that is sent a request, 0 for   *)
(* none, and whether the caller gets a result ("own" when the server makes *)
(* it itself) or one of two errors.  The arguments of a call are           *)
(* [tool, input, full], where `tool` holds the name if there is one.       *)
(***************************************************************************)
EXTENDS Frontend

Says(asked, says) == [asked |-> asked, says |-> says]
NotFound == Says(0, "internal error")
Invalid == Says(0, "invalid params")

-----------------------------------------------------------------------------
(* Lists *)

CliHelpTools == {Append(PublicName(i), "help") : i \in Backends}
JustBashTools == {<<"bash_tool">>} \cup CliHelpTools

\* list_tools is offered where nothing else names the tools.
WrapperTools ==
    {WrapperName(i, wrapper) : i \in Backends,
        wrapper \in IF config.level = "max" THEN Wrappers ELSE Wrappers \ {"list_tools"}}

ListTools ==
    CASE config.mode = "help" -> CliHelpTools
      [] config.mode = "bash" -> JustBashTools
      [] OTHER -> WrapperTools

\* A resource of the server itself: the tools of one backend, uncompressed.
OwnUri(i) == <<"compressor">> \o PublicName(i)

ListResources == UNION {found[i]["resources"] \cup {OwnUri(i)} : i \in Backends}

ListPrompts == UNION {found[i]["prompts"] : i \in Backends}

BackendToolsByServer == UNION {{<<PublicName(i), tool>> : tool \in found[i].tools} : i \in Backends}
BackendTools == {listed[2] : listed \in BackendToolsByServer}

\* A command line client is made for one backend only.
SingleBackendTools == IF Count = 1 THEN {found[1].tools} ELSE {}

-----------------------------------------------------------------------------
(* Answers.  A backend may refuse, say something else than was asked for, or be  *)
(* late where it has a limit: then its answer is not the `expected` one.         *)

Forwarded(i, expected) ==
    CASE i = 0 -> NotFound
      [] i # 0 -> Says(i, IF expected THEN "result" ELSE "internal error")

\* The server's own resources hide those that a backend calls the same.
ReadResource(uri, expected) ==
    LET own == {i \in Backends : uri = OwnUri(i)}
    IN IF own # {} THEN Says(0, "own")
       ELSE Forwarded(First({i \in Backends : uri \in found[i]["resources"]}), expected)

GetPrompt(name, expected) ==
    Forwarded(First({i \in Backends : name \in found[i]["prompts"]}), expected)

SchemaTool(name, tool) == InvokeBackend(BackendForWrapper(name), tool)

GetToolSchemaResult(name, tool) ==
    IF SchemaTool(name, tool) = 0 THEN NotFound ELSE Says(0, "own")

\* The schema of the tool is attached to its result, and looked up again for that.
AttachMetadata(answer, name, tool) ==
    IF SchemaTool(name, tool) = 0 THEN [answer EXCEPT !.says = "internal error"] ELSE answer

\* Input is checked only where the tool requires some; it is "whole" when it has all
\* of that, and no object at all when it is "other".
InvokeToolResult(name, tool, input, needs, expected) ==
    LET i == InvokeBackend(BackendForWrapper(name), tool)
    IN IF i # 0 /\ needs /\ input # "whole" THEN Invalid ELSE Forwarded(i, expected)

ToolOf(args) == CHOOSE tool \in args.tool : TRUE

CallToolResult(name, args, needs, expected) ==
    LET input == IF args.input = "absent" THEN "empty" ELSE args.input
    IN CASE EndsIn(name, "invoke_tool") ->
              IF args.tool = {} \/ args.full = "other" THEN Invalid
              ELSE AttachMetadata(
                       InvokeToolResult(name, ToolOf(args), input, needs, expected),
                       name, ToolOf(args))
         [] EndsIn(name, "get_tool_schema") ->
              IF args.tool = {} THEN Invalid ELSE GetToolSchemaResult(name, ToolOf(args))
         [] EndsIn(name, "list_tools") ->
              IF BackendForWrapper(name) = 0 THEN NotFound ELSE Says(0, "own")
         [] OTHER -> NotFound

\* Every request of the MCP client.
Handle(method, name, args, needs, expected) ==
    CASE method = "tools/call" -> CallToolResult(name, args, needs, expected)
      [] method = "resources/read" -> ReadResource(name, expected)
      [] method = "prompts/get" -> GetPrompt(name, expected)

-----------------------------------------------------------------------------
(* Properties *)

\* Of equal names and URIs the first counts, everywhere, and the server's own URIs
\* before those: what is listed is answered by a backend that lists it, by the
\* server only if it is the server's, and what is not listed reaches no backend
\* (compressed.rs, read_resource and get_prompt).
ListedIsAnswered ==
    LET Earliest(i, list, name) == \A j \in Backends : name \in found[j][list] => i <= j
        Rightly(answer, list, name) ==
            answer.asked # 0 => /\ name \in found[answer.asked][list]
                                /\ Earliest(answer.asked, list, name)
    IN /\ \A uri \in ListResources :
              LET answer == Handle("resources/read", uri, <<>>, FALSE, TRUE)
              IN /\ answer.says = "own" <=> \E i \in Backends : uri = OwnUri(i)
                 /\ answer.asked = 0 => answer.says = "own"
                 /\ Rightly(answer, "resources", uri)
       /\ \A name \in ListPrompts :
              LET answer == Handle("prompts/get", name, <<>>, FALSE, TRUE)
              IN answer.asked # 0 /\ Rightly(answer, "prompts", name)
       /\ \A name \in ListPrompts \cup ListTools :
              name \notin ListResources => Handle("resources/read", name, <<>>, FALSE, TRUE) = NotFound

AllArguments ==
    [tool : {{}} \cup {{tool} : tool \in BackendTools}, input : {"absent", "whole", "partial", "other"},
     full : {"absent", "true", "false", "other"}]

\* A backend is asked only for calls whose arguments are right, and a call that its
\* tool has answered is not reported as failed by what is done after it
\* (registration.rs, call_tool_result); the server itself answers for what it lists.
CallsAreJudgedFirst ==
    \A i \in Backends, args \in AllArguments, needs \in BOOLEAN, expected \in BOOLEAN :
        LET answer == Handle("tools/call", WrapperName(i, "invoke_tool"), args, needs, expected)
            schema == Handle("tools/call", WrapperName(i, "get_tool_schema"), args, needs, expected)
        IN /\ answer.asked # 0 =>
                  /\ args.tool # {} /\ args.full # "other" /\ (needs => args.input = "whole")
                  /\ answer.says = "result" <=> expected
           /\ schema.asked = 0
           /\ DistinctNames /\ args.tool # {} =>
                  /\ schema.says = "own" <=> <<PublicName(i), ToolOf(args)>> \in BackendToolsByServer
                  /\ answer.asked # 0 => CallTool(WrapperName(i, "invoke_tool"), ToolOf(args)) = answer.asked

\* The frontend offers the wrappers that it answers to or help, never both, and a
\* generated client the tools that it reaches by their own names.
OffersAreSound ==
    /\ ListTools \cap WrapperTools # {} => ListTools \cap CliHelpTools = {}
    /\ \A name \in ListTools \cap WrapperTools : BackendForWrapper(name) # 0
    /\ \A tools \in SingleBackendTools : \A tool \in tools : InvokeSingle(tool) = 1

\* All ways in agree on the backend that a name, or no name, stands for.
WaysInAgree ==
    /\ NamedServerReached /\ SoleBackendReached
    /\ stage = "serving" => ListedIsAnswered /\ CallsAreJudgedFirst /\ OffersAreSound
===============================================================================
