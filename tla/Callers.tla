-------------------------------- MODULE Callers --------------------------------
(* CliScript and its users.  What a client makes of a command line depends on no *)
(* session, so it is examined in the one state in which there is none yet.       *)
EXTENDS CliScript, Results

CONSTANTS
    Tools,       \* the tools of a backend
    Lines,       \* what users type after the subcommand of one
    Signatures,  \* tools by the order of their parameters, which has no end in TypeScript
    Inputs,      \* what programs mean to send
    Replies,     \* what a bridge replies to them
    Described,   \* the tools of a host, by what they say of themselves
    Toolsets,    \* and by their names and schemas
    HostLines,   \* what users of a shell type after the name of a toolset
    Returned,    \* what tools return to a host, or as structure
    Needing,     \* tools by the fields that they require
    ToolResults  \* results of MCP tools

Arguments == [flag : BOOLEAN, name : Seq(STRING), text : STRING]

ASSUME CallersAssumption ==
    /\ \A tool \in Tools : \A p \in DOMAIN tool.props : p \in Seq(STRING) /\ tool.props[p] \in Schemas
    /\ \A line \in Lines : line \in Seq(Arguments)
    /\ \A tool \in Signatures :
           /\ tool.order # <<>> /\ tool.order \in Seq(Seq(STRING))
           /\ \A i, j \in DOMAIN tool.order : tool.order[i] = tool.order[j] => i = j
           /\ tool.required \subseteq ToSet(tool.order)
           /\ 2..Len(tool.order) + 1 \subseteq DOMAIN Numeral
    /\ Inputs \subseteq JsonValues
    /\ \A reply \in Replies : reply.kind \in {"ok", "error", "silent", "refused", "cut"}

\* A host has its tools by name.
IsToolset(tools) ==
    /\ tools \in Seq(ToSet(tools))
    /\ \A tool \in ToSet(tools) :
           /\ tool.name \in Seq(STRING) /\ tool.text \in Seq(STRING)
           /\ \A p \in DOMAIN tool.props : p \in Seq(STRING) /\ tool.props[p] \in Schemas
    /\ \A i, j \in DOMAIN tools : tools[i].name = tools[j].name => i = j

\* A text is read in one way, and the same way as JSON and as TOON if it is both.
IsText(text) ==
    /\ \A reading \in {text.json, text.yaml, text.table} : \A v, w \in reading : v = w
    /\ text.json # {} /\ text.toon # {} => text.json = text.toon
    /\ \A table \in text.table : table.headers \in Seq(STRING) /\ table.rows \in Seq(Seq(STRING))

IsResult(result) ==
    /\ result \in [content : {result.content}, error : BOOLEAN,
                   structured : {result.structured}, truncation : BOOLEAN]
    /\ result.content \in Seq(ToSet(result.content))
    /\ \A block \in ToSet(result.content) :
           block \in [kind : {block.kind}, text : {block.text}] /\ IsText(block.text)

ASSUME HostsAssumption ==
    /\ \A tools \in Described \cup Toolsets : IsToolset(tools)
    /\ \A line \in HostLines : line.rest \in Seq(Arguments)
    /\ \A result \in ToolResults : IsResult(result)

NothingRuns == script = "absent" /\ \A s \in Sessions : pc[s] = "new"

\* The parser of the generated client and the native one say the same of every
\* command line (cli/parser.rs:24-26, client_gen/cli.rs:205).
SameAsScript == NothingRuns => \A tool \in Tools : SameFor(tool, Lines)

\* What a subcommand's help tells the user to type does what help says
\* (cli/help.rs, format_tool_option_help).
HelpIsTrue == NothingRuns => \A tool \in Tools : HelpIsTrueFor(tool)

\* A program's call of a generated function arrives as it was meant, its types let
\* every meant call be written, and it learns what came of it (client_gen/python.rs,
\* client_gen/typescript.rs, client_gen/generator.rs:113-171).
CallsAreFaithful ==
    NothingRuns => /\ \A tool \in Signatures : ArgumentsArrive(tool)
                   /\ \A schema \in Schemas : TypesAdmit(schema, Inputs)
                   /\ OutcomesAgree(Replies)

\* Whatever form tools are offered in - wrappers, a Just Bash command in either
\* language, a script, a bridge - the same is listed, called and returned
\* (compression/engine.rs, ffi/host_transform.rs, local_tools.ts,
\* just_bash_commands.ts, just_bash_host.py, local_tool_bridge.ts).
HostsAgree ==
    NothingRuns => /\ \A tools \in Described \cup Toolsets : ListingsAreEnough(tools)
                   /\ \A tools \in Toolsets : /\ CommandsAgree(tools, HostLines)
                                              /\ HelpIsUsable(tools)
                                              /\ WrappersAreComplete(tools)
                   /\ ResultsAgree(Returned)
                   /\ RewritingLosesNothing(ToolResults) /\ OneTextSuffices(ToolResults)
                   /\ ServerAndHostsAgree(Returned, Needing)
=============================================================================
