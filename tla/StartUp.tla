-------------------------------- MODULE StartUp --------------------------------
(***************************************************************************)
(* What one start of mcp-compressor does with its options: app/options.rs  *)
(* and app/entrypoint.rs choose the frontend, the source of its servers    *)
(* and the directory of a generated client (app/paths.rs, app/runtime.rs); *)
(* the SDKs name a mode instead (native_client.ts, client.py), which       *)
(* ffi/session.rs reads.                                                   *)
(*                                                                         *)
(* Options are a record; an option that can be absent is a set of at most  *)
(* one value.  A host is [windows, home, profile, dirs, path, forced]: the *)
(* directories that exist, those on PATH, and the one a variable names.    *)
(***************************************************************************)
EXTENDS Integers, Sequences, FiniteSets, SequencesExt

Languages == {"python", "typescript"}

Only(set) == CHOOSE x \in set : TRUE

\* The first of some values, if there are any.
FirstOf(seq) == {seq[i] : i \in DOMAIN seq \cap {1}}

\* Of three conditions, no two hold.
AtMostOne(first, second, third) ==
    ~(first /\ second) /\ ~(first /\ third) /\ ~(second /\ third)

-----------------------------------------------------------------------------
(* Options *)

\* Nothing but a command for the backend.
Defaults ==
    [command |-> {}, config |-> {}, name |-> {}, multi |-> <<>>, words |-> <<"run">>,
     transform |-> "compressed-tools", cli |-> FALSE, bash |-> FALSE, bashMode |-> FALSE,
     code |-> {}, python |-> FALSE, typescript |-> FALSE, out |-> {}]

Codes(o) == o.code # {} \/ o.python \/ o.typescript

Validated(o) ==
    /\ o.config = {} \/ o.name = {}
    /\ AtMostOne(o.cli, o.bash \/ o.bashMode, Codes(o))
    /\ AtMostOne(o.code # {}, o.python, o.typescript)

\* An alias counts, whatever --transform-mode says.
TransformMode(o) ==
    IF o.bash \/ o.bashMode THEN "just-bash"
    ELSE IF o.cli \/ Codes(o) THEN "cli"
    ELSE o.transform

\* The language of a code client; none: a script.
ArtifactKind(o) ==
    IF o.code # {} THEN o.code
    ELSE IF o.python THEN {"python"} ELSE IF o.typescript THEN {"typescript"} ELSE {}

\* The servers of a configuration count before --multi-server, and those before
\* what follows `--`.  A single server has the name of --server-name, or "server".
BuildServer(o) ==
    IF o.config # {} THEN {[start |-> "json", servers |-> Only(o.config), prefix |-> {}]}
    ELSE IF o.multi # <<>> THEN {[start |-> "many", servers |-> o.multi, prefix |-> o.name]}
    ELSE IF o.words # <<>>
      THEN {[start |-> "command", prefix |-> o.name,
             servers |-> <<IF o.name = {} THEN "server" ELSE Only(o.name)>>]}
    ELSE {}

-----------------------------------------------------------------------------
(* Where a generated script goes *)

CandidateScriptDirs(host) ==
    LET homes == IF host.windows /\ host.home = {} THEN host.profile ELSE host.home
        below == IF host.windows THEN <<"local bin">> ELSE <<"local bin", "bin">>
    IN (IF homes = {} THEN <<>> ELSE [i \in DOMAIN below |-> <<Only(homes), below[i]>>])
           \o (IF host.windows THEN <<>> ELSE <<<<"usr", "local bin">>, <<"opt", "bin">>>>)

\* On Windows the first candidate, on the path or not; elsewhere the first that
\* is a directory on the path.
SelectScriptDir(host) ==
    LET candidates == CandidateScriptDirs(host)
        fit == {i \in DOMAIN candidates : candidates[i] \in host.dirs \cap host.path}
    IN IF host.windows
         THEN {[dir |-> d, onPath |-> d \in host.path] : d \in FirstOf(candidates)}
         ELSE {[dir |-> candidates[i], onPath |-> TRUE] : i \in {k \in fit : \A j \in fit : k <= j}}

\* A directory that the variable names is taken to be on the path.
CliOutputDir(host) ==
    IF host.forced # {} THEN [dir |-> Only(host.forced), onPath |-> TRUE]
    ELSE IF SelectScriptDir(host) # {} THEN Only(SelectScriptDir(host))
    ELSE [dir |-> <<"here">>, onPath |-> FALSE]

\* run_cli_mode: what was asked for, a directory of its own for a code client, or
\* the directory of scripts.
OutputDir(o, host) ==
    IF o.out # {} THEN [dir |-> Only(o.out), onPath |-> Only(o.out) \in host.path]
    ELSE IF ArtifactKind(o) # {} THEN [dir |-> <<"here", "dist">>, onPath |-> FALSE]
    ELSE CliOutputDir(host)

-----------------------------------------------------------------------------
(* A start *)

\* What a script or a session is called.
Called(o, mode) ==
    CASE mode = "compressed-tools" -> {}
      [] mode # "compressed-tools" /\ o.name # {} -> o.name
      [] OTHER -> {IF mode = "cli" THEN "mcp" ELSE "bash"}

Refusal(how) == [is |-> how]

\* Options are refused before anything is connected; a script or a code client
\* serves one server; Just Bash says its bridge and makes no file.
RunAsync(o, host) ==
    LET built == Only(BuildServer(o))
        mode == TransformMode(o)
    IN IF ~Validated(o) THEN Refusal("usage")
       ELSE IF o.command # {} THEN [is |-> "command", command |-> Only(o.command)]
       ELSE IF BuildServer(o) = {} THEN Refusal("usage")
       ELSE IF mode = "cli" /\ Len(built.servers) # 1 THEN Refusal("runtime")
       ELSE [is |-> "served", mode |-> mode, built |-> built,
             kind |-> IF mode = "cli" THEN ArtifactKind(o) ELSE {},
             output |-> IF mode = "cli" THEN {OutputDir(o, host)} ELSE {},
             called |-> Called(o, mode)]

-----------------------------------------------------------------------------
(* The SDKs *)

\* transformMode of TypeScript, _transform_mode of Python.
SdkTransform(mode) ==
    CASE mode = "compressed" -> {}
      [] mode = "bash" -> {"just-bash"}
      [] mode \in Languages -> {"cli"}
      [] OTHER -> {mode}

ParseTransformMode(text) ==
    LET said == Only(text \cup (IF text = {} THEN {"compressed-tools"} ELSE {}))
    IN CASE said \in {"compressed-tools", "compressed", "normal"} -> {"compressed-tools"}
         [] said \in {"cli", "cli-mode"} -> {"cli"}
         [] said \in {"just-bash", "just_bash"} -> {"just-bash"}
         [] OTHER -> {}

\* A session connects a configuration as it is, and servers one by one, be it one.
SdkStart(mode, o) ==
    {[mode |-> m,
      built |-> IF o.config # {}
                  THEN [start |-> "json", servers |-> Only(o.config), prefix |-> o.name]
                  ELSE [start |-> "many", servers |-> o.multi, prefix |-> o.name]] :
        m \in ParseTransformMode(SdkTransform(mode))}

-----------------------------------------------------------------------------
(* Properties *)

\* Options that name no mode, for the flags of a mode of the SDKs.
FlagsOf(mode, plain) ==
    CASE mode = "compressed" -> {plain}
      [] mode = "cli" -> {[plain EXCEPT !.cli = TRUE], [plain EXCEPT !.transform = "cli"]}
      [] mode = "bash" -> {[plain EXCEPT !.bash = TRUE], [plain EXCEPT !.bashMode = TRUE],
                           [plain EXCEPT !.transform = "just-bash"]}
      [] mode = "python" -> {[plain EXCEPT !.code = {"python"}], [plain EXCEPT !.python = TRUE]}
      [] mode = "typescript" ->
             {[plain EXCEPT !.code = {"typescript"}], [plain EXCEPT !.typescript = TRUE]}

SdkModes == {"compressed", "cli", "bash"} \cup Languages

\* The flags of a mode and the mode of an SDK start the same frontend.
ModesAgree(plain) ==
    \A mode \in SdkModes : \A o \in FlagsOf(mode, plain) :
        /\ Validated(o)
        /\ ArtifactKind(o) = {mode} \cap Languages
        /\ o.config # {} \/ o.multi # <<>> =>
               SdkStart(mode, o) = {[mode |-> TransformMode(o), built |-> Only(BuildServer(o))]}

\* Two modes at once are refused, and one flag is never taken for another.
StartIsWhatWasAsked(o, host) ==
    LET start == RunAsync(o, host)
        asked == (IF o.cli THEN {"cli"} ELSE {})
                   \cup (IF o.bash \/ o.bashMode THEN {"just-bash"} ELSE {})
                   \cup o.code \cup (IF o.python THEN {"python"} ELSE {})
                   \cup (IF o.typescript THEN {"typescript"} ELSE {})
    IN /\ (\E one, other \in asked : one # other) => start.is = "usage"
       /\ start.is = "served" =>
              /\ asked \cap Languages = start.kind
              /\ asked \in {{}, start.kind, {start.mode}}
              /\ start.output # {} => Len(start.built.servers) = 1

\* Who is told to call a script by its name can: its directory is on the path,
\* unless the host names one itself.  A code client never goes onto the path unasked.
ToldWhereItIs(o, host) ==
    LET start == RunAsync(o, host)
    IN start.is = "served" => \A where \in start.output :
           /\ where.onPath => where.dir \in host.path \/ where.dir \in host.forced
           /\ where.onPath /\ start.kind # {} => where.dir \in o.out
           /\ where.dir \in host.dirs \cup {<<"here">>, <<"here", "dist">>} \cup o.out
                                \cup host.forced
                  \/ host.windows

\* Where a script goes is asked of every host, what starts of one.
StartsAgreeFor(options, scripts, hosts) ==
    /\ \A o \in options :
           /\ StartIsWhatWasAsked(o, Only(hosts))
           /\ TransformMode(o) = "compressed-tools" /\ Validated(o) => ModesAgree(o)
    /\ \A o \in scripts, host \in hosts : ToldWhereItIs(o, host)
===============================================================================
