------------------------------- MODULE HostTools -------------------------------
(***************************************************************************)
(* A host's own tools, or those of a proxy, offered in another form: as    *)
(* two wrapper tools (typescript local_tools.ts, compression/engine.rs),   *)
(* as one command of a Just Bash shell (just_bash_commands.ts,             *)
(* just_bash_host.py), and as a script or a module that calls a local      *)
(* bridge (ffi/host_transform.rs, transforms.ts, local_tool_bridge.ts).    *)
(*                                                                         *)
(* A toolset is a sequence of tools [name, props, required, text]; a text  *)
(* is a sequence of the words "word" and "lengthy", full stops and line    *)
(* breaks.  What a tool returns is a JSON value as in ClientGen.           *)
(***************************************************************************)
EXTENDS ClientGen

CONSTANT MaxNesting  \* how deep what tools return nests at most

ASSUME NestingAssumption == MaxNesting \in Nat \ {0}

\* The first of the tools that is one of the fitting ones, if any is.
FirstTool(tools, fitting) ==
    LET at == {i \in DOMAIN tools : tools[i] \in fitting}
    IN IF at = {} THEN {} ELSE {tools[Min(at)]}

Named(tools, name) == FirstTool(tools, {t \in ToSet(tools) : t.name = name})

-----------------------------------------------------------------------------
(* Listings: how much of a tool a level shows.                                *)

Levels == <<"low", "medium", "high", "max">>

Blank == {"\n", " "}
Words(text) ==
    LET solid == {i \in DOMAIN text : text[i] \notin Blank}
    IN IF solid = {} THEN <<>> ELSE SubSeq(text, Min(solid), Max(solid))

\* The words before the first of some marks.
Before(words, marks) ==
    LET at == {i \in DOMAIN words : words[i] \in marks}
    IN IF at = {} THEN words ELSE SubSeq(words, 1, Min(at) - 1)

FirstLine(words) == Before(words, {"\n"})

\* Trimmed, a text begins with its first paragraph and that with its first line.
FirstSentence(text) == Before(FirstLine(Words(text)), {"."})

FormatTool(tool, level) ==
    [name   |-> tool.name,
     params |-> IF level = "max" THEN {} ELSE DOMAIN tool.props,
     text   |-> CASE level = "low" -> Words(tool.text)
                  [] level = "medium" -> FirstSentence(tool.text)
                  [] OTHER -> <<>>]

\* At the last level format_listing has nothing to say.
FormatListing(tools, level) ==
    IF level = "max" THEN <<>> ELSE [i \in DOMAIN tools |-> FormatTool(tools[i], level)]

\* The description of the server's get_tool_schema, which falls back on names,
\* and the answer of its list_tools.
FrontendListing(tools, level) ==
    IF FormatListing(tools, level) = <<>>
    THEN [i \in DOMAIN tools |-> FormatTool(tools[i], "max")]
    ELSE FormatListing(tools, level)
ListBackendTools(tools) == FormatListing(tools, "high")

SchemaResponse(tool) == [FormatTool(tool, "low") EXCEPT !.params = tool.props]

\* Help says a sentence, or a line when the sentence is too short to say anything.
ShortDescription(text) ==
    LET words == Words(text)
        sentence == IF "." \in ToSet(words)
                    THEN Append(Before(words, {"."}), ".") ELSE FirstLine(words)
    IN IF "lengthy" \in ToSet(sentence) THEN sentence ELSE FirstLine(words)

-----------------------------------------------------------------------------
(* Results: the text a host makes of what a tool returns.                     *)

PlainText(text) == [text |-> text]
Rendered(value) == [json |-> value]

IsWrapper(v) == v.type = "object" /\ DOMAIN v.fields = {"result"}

\* The texts among the items of an MCP result.
TextParts(v) ==
    LET content == IF "content" \in DOMAIN v.fields THEN v.fields["content"].items ELSE <<>>
        texts == SelectSeq(content, LAMBDA item :
                     /\ item.type = "object" /\ {"type", "text"} \subseteq DOMAIN item.fields
                     /\ item.fields["type"] = Value("string", "text")
                     /\ item.fields["text"].type = "string")
    IN [i \in DOMAIN texts |-> texts[i].fields["text"].label]

HasTexts(v) == v.type = "object" /\ TextParts(v) # <<>>

ContentText(v) ==
    IF v.type = "string" THEN PlainText(<<v.label>>)
    ELSE IF HasTexts(v) THEN PlainText(TextParts(v))
    ELSE Rendered(v)

\* value_to_string, which unwraps as often as it can, and stringifyToolResult,
\* which does so once.
Innermost(v) ==
    LET inner[n \in 0..MaxNesting] ==
            IF n = 0 THEN v
            ELSE IF IsWrapper(inner[n - 1]) THEN inner[n - 1].fields["result"] ELSE inner[n - 1]
    IN inner[MaxNesting]
ValueText(v) == ContentText(Innermost(v))
StringifyResult(v) == ContentText(IF IsWrapper(v) THEN v.fields["result"] ELSE v)

-----------------------------------------------------------------------------
(* Wrapper tools: a call by name with input, of tools that work or throw.     *)

Said(exit, says) == [exit |-> exit, says |-> says, ran |-> {}]
Ran(tool, input, works) ==
    [exit |-> IF works THEN 0 ELSE 1, says |-> IF works THEN "result" ELSE "error",
     ran |-> {<<tool.name, input>>}]

GetToolSchema(tools, name) ==
    {SchemaResponse(tool) : tool \in Named(tools, name)}

MissingFields(tool, input) == tool.required \ DOMAIN input

InvokeTool(tools, name, input, works) ==
    LET found == Named(tools, name)
        tool == CHOOSE t \in found : TRUE
    IN IF found = {} \/ MissingFields(tool, input) # {} THEN Said(1, "error")
       ELSE Ran(tool, input, works)

-----------------------------------------------------------------------------
(* A Just Bash command, and the generated script.  A line is [sub, rest], a   *)
(* subcommand, of which <<>> is none, and its arguments.                      *)

HelpNames == {<<>>, <<"-", "-", "help">>, <<"-", "h">>, <<"help">>}
HelpFlag == Flag(<<"help">>)
HelpTexts == {Text("-h"), Text("help")}

Aliases(tool) ==
    {Kebab(tool.name), [i \in DOMAIN tool.name |-> IF tool.name[i] = "_" THEN "-" ELSE tool.name[i]],
     tool.name}

\* A Map keeps the last tool that has an alias, a search finds the first.
TsSubcommand(tools, sub) == FirstTool(Reverse(tools), {t \in ToSet(tools) : sub \in Aliases(t)})
PySubcommand(tools, sub) == FirstTool(tools, {t \in ToSet(tools) : sub \in Aliases(t)})

\* The script's table has one tool for a subcommand, the last, and no aliases.
ScriptSubcommand(tools, sub) ==
    FirstTool(Reverse(tools), {t \in ToSet(tools) : sub = Kebab(t.name)})

ExpectsStructured(schema) ==
    \/ TypeOf(schema) \in {"object", "array"}
    \/ Has(schema, "types") /\ schema.types \cap {"object", "array"} # {}

Structured(text) == {v \in Decoded(text) : v.type \in {"object", "array"}}

\* MUTANT: whatever looks like JSON is decoded.
NormalizeAll(tool, input) ==
    [p \in DOMAIN input |->
        IF input[p].type = "string" /\ Structured(input[p].label) # {}
        THEN CHOOSE v \in Structured(input[p].label) : TRUE ELSE input[p]]

\* Texts that are still JSON where the schema wants a structure are decoded.
NormalizeStructured(tool, input) ==
    [p \in DOMAIN input |->
        IF /\ input[p].type = "string" /\ Structured(input[p].label) # {}
           /\ ExpectsStructured(tool.props[p])
        THEN CHOOSE v \in Structured(input[p].label) : TRUE ELSE input[p]]

\* Only the TypeScript host normalizes what it has parsed.
JustBashCall(host, tool, parsed, whole, works) ==
    IF parsed.error # "none" THEN Said(2, parsed.error)
    ELSE Ran(tool, IF host = "typescript" /\ ~whole THEN NormalizeStructured(tool, parsed.input)
                   ELSE parsed.input, works)

JustBashRun(host, tool, args, works) ==
    LET whole == args # <<>> /\ args[1] = Flag(<<"json">>)
    IN IF {HelpFlag, Text("-h")} \cap ToSet(args) # {} THEN Said(0, "subcommand help")
       ELSE JustBashCall(host, tool, NativeParse(tool, args), whole, works)

JustBash(host, tools, line, works) ==
    LET found == IF host = "typescript" THEN TsSubcommand(tools, line.sub)
                 ELSE PySubcommand(tools, line.sub)
    IN IF line.sub \in HelpNames THEN Said(0, "help")
       ELSE IF found = {} THEN Said(2, "parse")
       ELSE CHOOSE outcome \in {JustBashRun(host, tool, line.rest, works) : tool \in found} : TRUE

-----------------------------------------------------------------------------
(* The bridge of a toolset: a request is [health, exec, token, json, name],   *)
(* a reply its status and what it says.                                       *)

\* How a tool is called over the bridge.
Posted(name) == [health |-> FALSE, exec |-> TRUE, token |-> TRUE, json |-> TRUE, name |-> name]

Reply(status, says) == [status |-> status, says |-> says]

LocalBridge(tools, request, value, works) ==
    CASE request.health -> Reply(200, PlainText(<<"ok">>))
      [] ~request.health /\ ~request.exec -> Reply(404, PlainText(<<"not found">>))
      [] request.exec /\ ~request.token -> Reply(401, PlainText(<<"unauthorized">>))
      [] request.exec /\ request.token ->
           IF ~request.json THEN Reply(500, PlainText(<<"error">>))
           ELSE IF Named(tools, request.name) = {}
           THEN Reply(404, PlainText(<<"Tool not found">>))
           ELSE IF works THEN Reply(200, ValueText(value)) ELSE Reply(500, PlainText(<<"error">>))

\* The script: only the first argument asks for help, and a call goes by the bridge.
ScriptCall(tools, tool, parsed, works) ==
    LET reply == LocalBridge(tools, Posted(tool.name), Value("string", "done"), works)
    IN IF parsed.error # "none" THEN Said(2, parsed.error)
       ELSE Ran(tool, parsed.input, reply.status = 200)

ScriptRun(tools, tool, args, works) ==
    IF args # <<>> /\ args[1] \in {HelpFlag} \cup HelpTexts THEN Said(0, "subcommand help")
    ELSE ScriptCall(tools, tool, ScriptParse(tool, args), works)

ScriptCommand(tools, line, works) ==
    LET found == ScriptSubcommand(tools, line.sub)
    IN IF line.sub \in HelpNames THEN Said(0, "help")
       ELSE IF found = {} THEN Said(2, "parse")
       ELSE CHOOSE outcome \in {ScriptRun(tools, tool, line.rest, works) : tool \in found} : TRUE

-----------------------------------------------------------------------------
(* The plan of a transform: what the model is told, and what help tells.      *)

Catalogue(tools) ==
    [i \in DOMAIN tools |-> [command |-> Kebab(tools[i].name),
                             about |-> ShortDescription(tools[i].text)]]

\* A function as help shows it: its name, and the parameters it may be called without.
HelpSignature(kind, tool) ==
    LET Shape(name) == IF kind = "python" THEN ToSnake(name) ELSE name
    IN [name     |-> IF kind = "python" THEN ToSnake(tool.name) ELSE ToCamel(tool.name),
        required |-> {Shape(p) : p \in DOMAIN tool.props \cap tool.required},
        optional |-> {Shape(p) : p \in DOMAIN tool.props \ tool.required}]

IsShell(kind) == kind \in {"cli", "just-bash"}

FullHelp(kind, tools) ==
    IF IsShell(kind) THEN Catalogue(tools)
    ELSE [i \in DOMAIN tools |-> HelpSignature(kind, tools[i])]

\* What the model sees upfront: all of it, or only how to ask for it.
ShellDescription(mode, full) == IF mode = "full" THEN full ELSE <<>>

Commands(tools) ==
    [i \in DOMAIN tools |-> [command |-> Kebab(tools[i].name), tool |-> tools[i].name]]

Plan(kind, mode, tools) ==
    {[description |-> ShellDescription(mode, FullHelp(kind, tools)),
      help        |-> FullHelp(kind, tools),
      commands    |-> IF kind = "just-bash" THEN Commands(tools) ELSE <<>>,
      variables   |-> CASE kind = "cli" -> {"PATH"} [] kind = "python" -> {"PYTHONPATH"}
                        [] OTHER -> {}] :
        allowed \in {IsShell(kind) \/ mode = "full"} \cap {TRUE}}

-----------------------------------------------------------------------------
(* Properties *)

\* A lower level shows no less of a tool, each level but local_tools.ts's last names
\* every tool, and the schema of each one says all of it (engine.rs:5, :145).
ListingsAreEnough(tools) ==
    /\ \A i \in DOMAIN tools, k \in 1..3 :
           LET more == FormatTool(tools[i], Levels[k])
               less == FormatTool(tools[i], Levels[k + 1])
           IN less.params \subseteq more.params /\ IsPrefix(less.text, more.text)
    /\ \A level \in ToSet(Levels) : Len(FrontendListing(tools, level)) = Len(tools)
    /\ \A i \in DOMAIN tools :
           /\ ListBackendTools(tools)[i].name = tools[i].name
           /\ IsPrefix(ShortDescription(tools[i].text), Words(tools[i].text))
           /\ Words(tools[i].text) # <<>> => ShortDescription(tools[i].text) # <<>>

\* Tools none of which answers to a name of another, with properties of distinct names.
Unambiguous(tools) ==
    /\ \A i, j \in DOMAIN tools : Aliases(tools[i]) \cap Aliases(tools[j]) # {} => i = j
    /\ \A i \in DOMAIN tools : Distinct(tools[i].props)

\* A list of types with strings and structures among them: JSON that it does not
\* admit stays a text for all but just_bash_commands.ts.
Blurred(tool) ==
    \E p \in DOMAIN tool.props :
        ExpectsStructured(tool.props[p]) /\ Has(tool.props[p], "types") /\ "string" \in tool.props[p].types

\* One line means the same to both Just Bash commands and, when it names the tool as
\* help does and asks for help with --help first or not at all, to the script: the
\* same tool, with the same input, the same exit (just_bash_commands.ts:119,
\* transforms.py:29, just_bash_host.py:44, host_transform.rs:87).
CommandsAgree(tools, lines) ==
    Unambiguous(tools) => \A line \in lines, works \in BOOLEAN :
        LET tool == CHOOSE t \in PySubcommand(tools, line.sub) : TRUE
            asHelpSays == /\ line.sub \in HelpNames \cup {Kebab(tools[i].name) : i \in DOMAIN tools}
                          /\ ToSet(line.rest) \cap (HelpTexts \cup {HelpFlag}) # {}
                                 => line.rest[1] = HelpFlag
            outcomes == {JustBash(host, tools, line, works) : host \in {"typescript", "python"}}
                        \cup {ScriptCommand(tools, line, works) : said \in {asHelpSays} \cap {TRUE}}
        IN (PySubcommand(tools, line.sub) # {} /\ Blurred(tool)) \/ Cardinality(outcomes) = 1

\* What any help lists can be used as listed: a command runs the tool it is listed
\* for, and a function whose names are identifiers already is the generated one.
HelpIsUsable(tools) ==
    Unambiguous(tools) => \A mode \in {"full", "summary"} :
        /\ \A plan \in Plan("just-bash", mode, tools) :
               \A i \in DOMAIN tools :
                   /\ plan.commands[i].command = plan.help[i].command
                   /\ TsSubcommand(tools, plan.commands[i].command) = {tools[i]}
                   /\ ScriptSubcommand(tools, plan.help[i].command) = {tools[i]}
        /\ \A plan \in Plan("python", mode, tools) :
               \A i \in DOMAIN tools :
                   LET name == plan.help[i].name
                   IN Lawful(name, PythonReserved) => name = PythonIdentifier(tools[i].name)

\* A host, a shell and a bridge make the same text of what a tool returns, unless it
\* is a wrapper in a wrapper (host_transform.rs:459, tool_specs.ts:30).
ResultsAgree(values) ==
    \A v \in values :
        LET tools == <<[name |-> <<"page">>, props |-> <<>>, required |-> {}, text |-> <<>>]>>
        IN (IsWrapper(v) => ~IsWrapper(v.fields["result"])) =>
               StringifyResult(v) = LocalBridge(tools, Posted(<<"page">>), v, TRUE).says

\* Wrapper tools reach what the schema describes, and only with all it requires.
WrappersAreComplete(tools) ==
    \A i \in DOMAIN tools : \A given \in SUBSET DOMAIN tools[i].props :
        LET input == [p \in given |-> True]
            outcome == InvokeTool(tools, tools[i].name, input, TRUE)
        IN /\ \E schema \in GetToolSchema(tools, tools[i].name) : schema.params = tools[i].props
           /\ (outcome.exit = 0) <=> (tools[i].required \subseteq given)
=============================================================================
