------------------------------ MODULE MCFrontend ------------------------------
(* Frontend for TLC: configurations that differ in how their backends can be *)
(* connected, and configurations that differ in their names.                 *)
EXTENDS Passthrough, HttpRequests, StartUp, LoginCallback

\* One name begins with the other, and one tool is named like a wrapper.
ServerNames == {<<"foo">>, <<"foo", "bar">>}
Echo == <<"echo">>
Odd == <<"echo", "invoke_tool">>

Named(name, tools) ==
    [name |-> name, kind |-> "stdio", limit |-> "some", tools |-> tools,
     resources |-> {<<"r">>, <<"compressor", "foo">>}, prompts |-> {<<"p">>}]

Connecting(kind, limit) == [Named(<<"foo">>, {Echo}) EXCEPT !.kind = kind, !.limit = limit]

Config(backends, start, prefix, include, exclude, mode, level) ==
    [backends |-> backends, start |-> start, prefix |-> prefix,
     include |-> include, exclude |-> exclude, mode |-> mode, level |-> level]

Plain(backends) == Config(backends, "many", NoName, {}, {}, "compressed", "max")

\* The second backend is always asked over a pipe: its own limit varies.
ConnectConfigs ==
    {Plain(<<Connecting(k, l)>>) : k \in Kinds, l \in Limits}
        \cup {Plain(<<Connecting(k, "some"), Connecting(k2, l)>>) :
                  k \in Kinds, k2 \in Kinds, l \in Limits}

Filters == {[in |-> {}, out |-> {}], [in |-> {Echo}, out |-> {}],
            [in |-> {}, out |-> {Odd}], [in |-> {Echo, Odd}, out |-> {Echo}]}

NameConfigs ==
    {Config(<<Named(n, {Echo, Odd})>>, start, prefix, f.in, f.out, mode, level) :
         n \in ServerNames, start \in {"command", "many", "json"},
         prefix \in {NoName, <<"foo">>}, f \in Filters, mode \in {"compressed", "help", "bash"},
         level \in {"high", "max"}}
    \cup
    {Config(<<Named(n, {Echo}), Named(n2, {Echo, Odd})>>, "many", prefix, f.in, f.out,
            "compressed", "high") :
         n \in ServerNames, n2 \in ServerNames, prefix \in {NoName, <<"foo">>}, f \in Filters}

StartConfigs == ConnectConfigs \cup NameConfigs

-----------------------------------------------------------------------------
(* A backend's description depends on no state: it is examined in one of the   *)
(* initial states, over the descriptions below.                                *)

Name(id, spelling) == [id |-> id, spelling |-> spelling]
Authorization == Name("authorization", "Title")
Trace == Name("trace", "Title")
LowerTrace == Name("trace", "lower")
Variable == Name("VAR", "UPPER")

Single(name, value) == [n \in {name} |-> value]

SomeArgs ==
    {Bare(Word("w")), Bare(Pair(Trace, "v1")), Bare(Pair(Authorization, "${SET}")),
     Bare(Pair(Variable, "${UNSET}")), Bare(ModeText("oauth")), Bare(SecondsText("5")),
     Joined("header", Pair(LowerTrace, "v3")), Joined("env", Word("w")),
     Joined("auth", ModeText("oauth")), Joined("cwd", Word("w"))}
    \cup {Option(opt) : opt \in {"header", "env", "cwd", "timeout", "auth"}}

ArgLists ==
    {<<>>} \cup {<<a>> : a \in SomeArgs} \cup {<<a, b>> : a, b \in SomeArgs}
    \cup {<<Option(opt), a, b>> : opt \in {"header", "env", "auth"}, a, b \in SomeArgs}

HeaderMaps ==
    {<<>>, Single(Trace, "v1"), Single(LowerTrace, "${SET}"), Single(Authorization, "v1"),
     Preferring(Single(Trace, "v1"), Single(LowerTrace, "v3")),
     Preferring(Single(Trace, "v1"), Single(Authorization, "v3"))}
EnvMaps == {<<>>, Single(Variable, "${SET}")}
Provided == {Single(Authorization, "v3"), Single(LowerTrace, "v2")}

Entry(command, url, args, env, headers, provided) ==
    [command |-> command, url |-> url, args |-> args, env |-> env,
     headers |-> headers, provided |-> provided, app |-> {}]

Command == {[http |-> FALSE, name |-> "run"]}
Url == {[http |-> TRUE, name |-> "https"]}

CommandEntries ==
    {Entry(Command, {}, args, env, headers, {}) :
        args \in ArgLists, env \in EnvMaps, headers \in {<<>>, Single(Trace, "v1")}}
UrlEntries == {Entry({}, Url, args, <<>>, headers, {}) : args \in ArgLists, headers \in HeaderMaps}

ProviderArgs == {<<>>, <<Joined("auth", ModeText("oauth"))>>, <<Option("header"), Bare(Pair(Trace, "v3"))>>}
ProviderEntries ==
    {Entry({}, Url, args, <<>>, headers, {provided}) :
        args \in ProviderArgs, headers \in HeaderMaps, provided \in Provided}

Entries == CommandEntries \cup UrlEntries \cup ProviderEntries

\* Answers of an HTTP backend, and backends that differ in provider and limit; the
\* transport sends a header that the others name, too.
Answers ==
    [status : {200, 202, 204, 304, 401, 403, 404, 405, 500}, type : {"sse", "json", "html", "none"},
     message : BOOLEAN, challenge : {"none", "no text", "scheme", "unauthorized"},
     words : {{}, {"unauthorized"}}, late : BOOLEAN]

HttpBackends ==
    LET url == The(Url)
        plain == {New(url, <<Option("header"), Bare(Pair(name, "v1"))>> \o rest) :
                     name \in {Trace, LowerTrace, Authorization},
                     rest \in {<<>>, <<Option("timeout"), Bare(SecondsText("5"))>>}}
    IN plain \cup {WithHeaderProvider(b) : b \in plain}

Starts ==
    [command : {{}, {"clear-oauth"}, {"llm"}}, config : {{}, {<<"a">>}, {<<"a", "b">>}},
     name : {{}, {"n"}}, multi : {<<>>, <<"a">>, <<"a", "b">>}, words : {<<>>, <<"run">>},
     transform : {"compressed-tools", "cli", "just-bash"}, cli : BOOLEAN, bash : BOOLEAN,
     bashMode : {FALSE}, code : {{}, {"python"}, {"typescript"}}, python : BOOLEAN,
     typescript : BOOLEAN, out : {{}, {<<"out">>}}]

Scripts ==
    {[Defaults EXCEPT !.cli = code = {}, !.code = code, !.out = out] :
        code \in {{}, {"python"}, {"typescript"}}, out \in {{}, {<<"out">>}}}

LocalBin == <<"home", "local bin">>
UserBin == <<"home", "bin">>

Hosts ==
    [windows : BOOLEAN, home : {{}, {"home"}}, profile : {{"home"}},
     dirs : {{}, {LocalBin}, {LocalBin, UserBin}}, path : {{}, {LocalBin}, {UserBin}, {<<"out">>}},
     forced : {{}, {<<"bin">>}}]

\* Callbacks with every key or none, the state of this login, of another or of none.
CallbackTexts == UNION {[1..n -> {"%", "2", "B", "+", " ", "a"}] : n \in 0..4}
PageTexts == UNION {[1..n -> {"&", "<", ">", "lt", "a"}] : n \in 0..2}
LoginStates == {<<"a">>, <<"B", "-">>}
CallbackPairs ==
    {<<"code", text>> : text \in {<<>>, <<"a", "%", "2", "0">>}} \cup {<<"error", <<>>>>, <<"iss", <<"a">>>>}
    \cup {<<"state", text>> : text \in LoginStates \cup {<<>>, <<"?">>, <<"B", "%", "2", "B">>, <<"B", "_">>}}
CallbackRequests ==
    [words : 0..3, query : {{}} \cup {{pairs} : pairs \in UNION {[1..n -> CallbackPairs] : n \in 0..3}}]

FirstState == stage = "next" /\ at = 1 /\ config = CHOOSE c \in Configs : TRUE

\* Wherever a backend is described - on a command line, in a configuration, to an
\* SDK - the same is connected to, with the same headers, and logged in to where
\* that is meant (server/backend.rs:179, config/topology.rs:99, ffi/session.rs:22,
\* native_client.ts:189, client.py:102); its answers over HTTP are read for what they
\* are (dynamic_http_client.rs:178), and so is the callback of its login (oauth.rs:275);
\* and the flags of the command line start what the modes of the SDKs start
\* (app/options.rs:143, ffi/session.rs:142).
RoadsAgree ==
    FirstState =>
        /\ RoadsAgreeFor(Entries)
        /\ HttpAgreesFor(HttpBackends, Answers, HeaderMaps, Single("trace", "v4"))
        /\ StartsAgreeFor(Starts, Scripts, Hosts)
        /\ CallbacksAreReadFor(CallbackTexts, PageTexts, CallbackRequests, LoginStates)
===============================================================================
