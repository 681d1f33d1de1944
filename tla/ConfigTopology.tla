---------------------------- MODULE ConfigTopology ----------------------------
(***************************************************************************)
(* How one backend is described, and what the compressor then knows of it: *)
(* on a command line, in an MCP configuration (config/topology.rs), or to  *)
(* the SDK of Rust, of TypeScript or of Python.  All of them end in        *)
(* BackendServerConfig::new (server/backend.rs), which takes its own       *)
(* options out of the backend's arguments.                                 *)
(*                                                                         *)
(* An argument is [opt, joined, text]: opt is "" for a plain word, and     *)
(* joined is set in --opt=text.  A text is what an option would read in    *)
(* it: a pair name=value, a mode, some seconds, or nothing (a word).  The  *)
(* name of a header or a variable is [id, spelling]: two spellings of an   *)
(* id differ in case only.                                                 *)
(***************************************************************************)
EXTENDS Integers, Sequences, FiniteSets, SequencesExt

\* Two maps in one; what the first says counts.
Preferring(first, second) ==
    [x \in DOMAIN first \cup DOMAIN second |-> IF x \in DOMAIN first THEN first[x] ELSE second[x]]

NoPair == [id |-> "", spelling |-> ""]
Word(w) == [kind |-> "word", name |-> NoPair, value |-> w]
Pair(name, value) == [kind |-> "pair", name |-> name, value |-> value]
ModeText(mode) == [kind |-> "mode", name |-> NoPair, value |-> mode]
SecondsText(s) == [kind |-> "seconds", name |-> NoPair, value |-> s]

Bare(text) == [opt |-> "", joined |-> FALSE, text |-> text]
Option(opt) == [opt |-> opt, joined |-> FALSE, text |-> Word(opt)]
Joined(opt, text) == [opt |-> opt, joined |-> TRUE, text |-> text]

\* What an option makes of an argument that is itself an option: -e=... is a pair.
AsText(arg) ==
    IF arg.joined THEN Pair([id |-> arg.opt, spelling |-> "flag"], "rest") ELSE arg.text

\* interpolate_env: a variable that is not set leaves its placeholder.
Environment == [variable \in {"${SET}"} |-> "v2"]
Interpolate(value) == IF value \in DOMAIN Environment THEN Environment[value] ELSE value

-----------------------------------------------------------------------------
(* Options in a backend's arguments (parse_backend_args) *)

\* What an option that is given `text` sets, or nothing: the arguments are then
\* the backend's own.
Setting(opt, text, http) ==
    CASE opt = "header" -> IF http /\ text.kind = "pair" /\ text.value # ""
                             THEN {[key |-> <<opt, text.name>>, value |-> Interpolate(text.value)]}
                             ELSE {}
      [] opt = "env" -> IF text.kind = "pair"
                          THEN {[key |-> <<opt, text.name>>, value |-> Interpolate(text.value)]}
                          ELSE {}
      [] opt = "cwd" -> {[key |-> <<opt>>, value |-> text.value]}
      [] opt = "timeout" -> IF text.kind = "seconds"
                              THEN {[key |-> <<opt>>, value |-> text.value]} ELSE {}
      [] opt = "auth" -> IF text.kind = "mode"
                           THEN {[key |-> <<opt>>, value |-> text.value]} ELSE {}
      [] OTHER -> {}

The(set) == CHOOSE x \in set : TRUE

\* An option that is not joined to its text takes the argument after it, if there is one.
TakesNext(args, i) == args[i].opt # "" /\ ~args[i].joined /\ i < Len(args)
WordsAt(args, i) == IF TakesNext(args, i) THEN <<args[i], args[i + 1]>> ELSE <<args[i]>>
SaidAt(args, i, http) ==
    IF TakesNext(args, i) THEN Setting(args[i].opt, AsText(args[i + 1]), http)
    ELSE IF args[i].joined THEN Setting(args[i].opt, args[i].text, http)
    ELSE {}

\* An option that sets something is taken out of the arguments; what is said later counts.
Noted(said, words, later) ==
    IF said = {} THEN [args |-> words \o later.args, settings |-> later.settings]
    ELSE [args |-> later.args,
          settings |-> Preferring(later.settings, [key \in {The(said).key} |-> The(said).value])]

\* From left to right.
ParseArgs(args, http) ==
    LET from[i \in 1..Len(args) + 1] ==
            IF i > Len(args) THEN [args |-> <<>>, settings |-> <<>>]
            ELSE Noted(SaidAt(args, i, http), WordsAt(args, i), from[i + Len(WordsAt(args, i))])
    IN from[1]

\* A target is [http, name]: what begins with http:// or https:// is a URL.
New(target, args) ==
    LET parsed == ParseArgs(args, target.http)
    IN [target |-> target, args |-> parsed.args, settings |-> parsed.settings,
        provider |-> FALSE, app |-> {}]

NamesOf(b, opt) == {key[2] : key \in {k \in DOMAIN b.settings : k[1] = opt}}
Map(b, opt) == [name \in NamesOf(b, opt) |-> b.settings[<<opt, name>>]]
AuthMode(b) == IF <<"auth">> \in DOMAIN b.settings THEN b.settings[<<"auth">>] ELSE "auto"

WithHeaderProvider(b) ==
    [b EXCEPT !.provider = TRUE,
              !.settings = Preferring([key \in {<<"auth">>} |-> "explicit-headers"], @)]
WithApp(b, app) == [b EXCEPT !.app = app]

ShouldUseOAuth(b) ==
    /\ b.target.http
    /\ \/ AuthMode(b) = "oauth"
       \/ AuthMode(b) = "auto" /\ ~b.provider
              /\ \A name \in NamesOf(b, "header") : name.id # "authorization"

\* The names of some headers, spelling apart.
Ids(map) == {name.id : name \in DOMAIN map}

\* A header has one value on the wire: of names that differ in case only, one is
\* kept, and nobody says which.
OnePerName(map) ==
    {[id \in Ids(map) |-> map[kept[id]]] :
        kept \in {f \in [Ids(map) -> DOMAIN map] : \A id \in Ids(map) : f[id].id = id}}

\* What a provider says counts before what was configured (merged_headers).
WireHeaders(b, provided) ==
    {Preferring(p, h) : p \in (IF b.provider THEN OnePerName(provided) ELSE {<<>>}),
                    h \in OnePerName(Map(b, "header"))}

-----------------------------------------------------------------------------
(* The roads.  An entry is [command, url, args, env, headers, provided, app]:  *)
(* command, url and app hold at most one thing, provided at most one map.      *)

Keyed(opt, map) == [key \in {<<opt, name>> : name \in DOMAIN map} |-> Interpolate(map[key[2]])]

\* ParsedServerConfig::into_parts: exactly one of command and url.
HasParts(entry) == Cardinality(entry.command) + Cardinality(entry.url) = 1

\* A map that replaces what the arguments said, spelling apart.
IntoBackendReplaces(entry) ==
    LET b == New(The(entry.command \cup entry.url), entry.args)
        kept == {key \in DOMAIN b.settings : key[1] \notin {"env", "header"}}
    IN [WithApp(b, entry.app) EXCEPT !.settings =
            Preferring(Preferring(Keyed("env", entry.env), Keyed("header", entry.headers)),
                   [key \in kept |-> b.settings[key]])]

\* The maps count before the options, and a header whatever its spelling.
IntoBackend(entry) ==
    LET b == New(The(entry.command \cup entry.url), entry.args)
        kept == {key \in DOMAIN b.settings :
                     key[1] = "header" => key[2].id \notin Ids(entry.headers)}
    IN [WithApp(b, entry.app) EXCEPT !.settings =
            Preferring(Preferring(Keyed("env", entry.env), Keyed("header", entry.headers)),
                   [key \in kept |-> b.settings[key]])]

FromJson(entry) == IF HasParts(entry) THEN {IntoBackend(entry)} ELSE {}

Said(opt, map) ==
    FlattenSeq([i \in 1..Cardinality(DOMAIN map) |->
        LET name == SetToSeq(DOMAIN map)[i]
        IN <<Option(opt), Bare(Pair(name, map[name]))>>])

\* The same words typed after `--`, or after a name in --multi-server.
FromCommandLine(entry) ==
    {New(target, Said("env", entry.env) \o Said("header", entry.headers) \o entry.args) :
        target \in entry.url \cup entry.command}

ExplicitUnlessSaid(args) ==
    IF Option("auth") \in Range(args) THEN <<>>
    ELSE <<Option("auth"), Bare(ModeText("explicit-headers"))>>

HeaderArgs(headers, args) ==
    IF headers = <<>> THEN args ELSE Said("header", headers) \o ExplicitUnlessSaid(args) \o args

\* A URL counts before a command.
SdkTarget(entry) == IF entry.url # {} THEN entry.url ELSE entry.command

\* normalize_sdk_server and CompressorClient::connect.
FromRust(entry) ==
    {LET b == WithApp(New(target, HeaderArgs(entry.headers, entry.args)), entry.app)
     IN IF entry.provided = {} THEN b ELSE WithHeaderProvider(b) : target \in SdkTarget(entry)}

\* Both hosts leave the headers of a command out, and pass no name of an app to
\* sessions in which some server has a provider.
FromHost(entry, headers) ==
    {LET b == New(target, IF entry.url # {} THEN HeaderArgs(headers, entry.args) ELSE entry.args)
     IN IF entry.provided = {} THEN WithApp(b, entry.app) ELSE WithHeaderProvider(b) :
        target \in SdkTarget(entry)}

FromTypeScript(entry) == FromHost(entry, entry.headers)

\* Python asks the provider once for the headers that are configured, too.
FromPython(entry) ==
    FromHost(entry, IF entry.provided = {} THEN entry.headers
                    ELSE Preferring(The(entry.provided), entry.headers))

\* What a connection is made with: a URL takes no arguments, a command no headers.
Connection(b, provided) ==
    [target |-> b.target,
     refused |-> b.target.http /\ b.args # <<>>,
     args |-> b.args,
     env |-> Map(b, "env"),
     limits |-> [key \in DOMAIN b.settings \ ({<<"auth">>}
                    \cup {k \in DOMAIN b.settings : k[1] \in {"env", "header"}}) |-> b.settings[key]],
     headers |-> IF b.target.http THEN WireHeaders(b, provided) ELSE {},
     oauth |-> ShouldUseOAuth(b)]

-----------------------------------------------------------------------------
(* Properties *)

\* What a name is set to in the arguments of an entry, wherever it is set.
InArgs(entry) == DOMAIN ParseArgs(entry.args, TRUE).settings
SaidOnce(entry) ==
    /\ \A name \in DOMAIN entry.env : <<"env", name>> \notin InArgs(entry)
    /\ \A name \in DOMAIN entry.headers, key \in InArgs(entry) :
           key[1] = "header" => key[2].id # name.id

Reached(road, entry) == {Connection(b, The(entry.provided \cup {<<>>})) : b \in road}
WithoutLogin(connections) == {[c EXCEPT !.oauth = FALSE] : c \in connections}
Login(road) == {ShouldUseOAuth(b) : b \in road}

\* A configuration's maps count before the arguments, and lose nothing else of
\* what those set (config/topology.rs:99).
MapsCount(entry) ==
    \A b \in FromJson(entry) :
        /\ \A name \in DOMAIN entry.env : Map(b, "env")[name] = Interpolate(entry.env[name])
        /\ \A h \in WireHeaders(b, <<>>), name \in DOMAIN entry.headers :
               \E spelled \in DOMAIN entry.headers :
                   /\ spelled.id = name.id
                   /\ h[name.id] = Interpolate(entry.headers[spelled])

\* The configuration and the command line that says the same reach one connection,
\* and log in alike (config/topology.rs:119).
JsonIsCommandLine(entry) == Reached(FromJson(entry), entry) = Reached(FromCommandLine(entry), entry)

\* So do the SDKs, which log in only when there is no header and nothing was said.
SdksAgree(entry) ==
    LET cli == FromCommandLine(entry)
        quiet == \/ entry.headers = <<>>
                 \/ <<"auth">> \in InArgs(entry) \/ Option("auth") \in Range(entry.args)
                 \/ \E name \in DOMAIN entry.headers : name.id = "authorization"
    IN \A sdk \in {FromRust(entry), FromTypeScript(entry), FromPython(entry)} :
           /\ WithoutLogin(Reached(sdk, entry)) = WithoutLogin(Reached(cli, entry))
           /\ IF quiet THEN Login(sdk) = Login(cli) ELSE Login(sdk) = {FALSE}

\* A provider's headers are sent from the first request on, and nobody logs in.
ProvidersAgree(entry) ==
    \A sdk \in {FromRust(entry), FromTypeScript(entry), FromPython(entry)} :
        \A b \in sdk :
            /\ ~ShouldUseOAuth(b)
            /\ WireHeaders(b, The(entry.provided)) =
                   {Preferring(p, h) : p \in OnePerName(The(entry.provided)),
                                   h \in WireHeaders(The(FromCommandLine(entry)), <<>>)}

RoadsAgreeFor(entries) ==
    \A entry \in entries :
        IF entry.provided # {} THEN SaidOnce(entry) => ProvidersAgree(entry)
        ELSE /\ MapsCount(entry)
             /\ SaidOnce(entry) /\ (entry.url = {} => entry.headers = <<>>)
                    => /\ JsonIsCommandLine(entry)
                       /\ entry.env = <<>> => SdksAgree(entry)
===============================================================================
