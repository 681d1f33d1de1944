----------------------------- MODULE MCCliScript -----------------------------
(* CliScript with a few sessions; sessions, ports and clients are alike.  What  *)
(* callers make of tools is examined over the tools and lines below.            *)
EXTENDS Callers

Symmetry == Permutations(Sessions) \cup Permutations(Ports) \cup Permutations(Clients)

Names == {<<"page", "_", "id">>, <<"page", "Id">>, <<"page", "-", "id">>, <<"id">>,
          <<"no", "_", "id">>}

Is(type) == [type |-> type]
Strings == [type |-> "string", enum |-> {Value("string", "abc"), Value("string", "true")}]
Mixed == [enum |-> {Value("integer", "5"), Value("string", "abc"), Value("null", "null")}]

PropertySchemas ==
    {Is(type) : type \in {"boolean", "integer", "number", "string", "array", "object"}}
    \cup {[any |-> TRUE], Strings, Mixed, [const |-> Value("integer", "5")],
          [types |-> {"string", "null"}], [types |-> {"number"}],
          [type |-> "boolean", enum |-> {True}],
          [type |-> "number", enum |-> {Value("number", "1.5")}],
          [type |-> "array", items |-> Is("integer")],
          [type |-> "array", items |-> Strings], [type |-> "array", items |-> Is("boolean")],
          [type |-> "array", items |-> [type |-> "array", items |-> Is("number")]],
          [type |-> "array", items |-> Is("integer"), enum |-> {Value("integer", "5")}],
          [anyOf |-> {Is("string"), Is("object")}],
          [anyOf |-> {Is("integer"), [anyOf |-> {Is("array"), Is("boolean")}]}],
          [anyOf |-> {Is("integer"), [any |-> TRUE]}]}

FewSchemas == {Is("boolean"), Is("array"), Strings, [anyOf |-> {Is("string"), Is("object")}]}

MCTools ==
    {[props |-> (name :> schema), required |-> required] :
        name \in Names, schema \in PropertySchemas, required \in {{}, {<<"id">>}}}
    \cup {[props |-> (name :> one @@ other :> two), required |-> {name}] :
        name \in Names, other \in Names, one \in FewSchemas, two \in FewSchemas}

Texts == DOMAIN Json \cup {"+5", "Infinity", "abc", ""}
Flags == {Flag(name) : name \in {<<"page", "-", "id">>, <<"page", "Id">>, <<"id">>, <<>>,
                                 <<"no", "-", "page", "-", "id">>, <<"no", "-", "id">>, <<"json">>}}

MCLines ==
    {<<>>, <<Text("abc")>>} \cup {<<f>> : f \in Flags} \cup {<<f, g>> : f, g \in Flags}
    \cup {<<f, Text(t)>> : f \in Flags, t \in Texts}
    \cup {<<f, g, Text(t)>> : f, g \in Flags, t \in {"true", "abc"}}
    \cup {<<f, Text(t), g, Text(u)>> : f, g \in Flags, t, u \in {"true", "abc", "[5]", "5"}}

-----------------------------------------------------------------------------
(* The clients for programs: names that collide once they are identifiers, and *)
(* schemas nested as deep as the types go and one deeper.                      *)

WireNames == {<<"page", "Id">>, <<"page", "_", "id">>, <<"page", ".", "id">>, <<"class">>,
              <<"page", "_", "id", "_", "2">>, <<"2", "page">>, <<"_", "exec">>, <<"_", "page">>}

Orders == {order \in UNION {[1..n -> WireNames] : n \in 1..3} :
              \A i, j \in DOMAIN order : order[i] = order[j] => i = j}

MCSignatures ==
    UNION {{[order |-> order, required |-> required] : required \in SUBSET ToSet(order)} :
              order \in Orders}

Leaves ==
    {Is("string"), Is("integer"), Is("number"), Is("boolean"), Is("null"), Is("object"),
     [any |-> TRUE], [types |-> {"string", "null"}], [types |-> {"integer", "string"}],
     [types |-> {"null"}], Strings, Mixed, [const |-> Value("integer", "5")],
     [type |-> "string", const |-> Value("string", "abc")], [enum |-> {Array(<<>>), True}]}

Fields(a, needs, more) ==
    [type |-> "object", fields |-> ("a" :> a), needs |-> needs, more |-> more]

Nesting(inner) ==
    {[type |-> "array", items |-> s] : s \in inner}
    \cup {[types |-> {"array", "null"}, items |-> s] : s \in inner}
    \cup {[type |-> "object", more |-> {s}] : s \in inner} \cup {[type |-> "object", more |-> {Nothing}]}
    \cup {Fields(s, needs, more) : s \in inner, needs \in {{}, {"a"}},
                                   more \in {{}, {Nothing}, {Is("string")}}}
    \cup {[anyOf |-> {s, Is("boolean")}] : s \in inner}
    \cup {[type |-> "string", anyOf |-> {s, Is("string")}] : s \in inner}

Arrays(schema) == [type |-> "array", items |-> schema]
TypeSchemas == Leaves \cup Nesting(Leaves) \cup Nesting(Nesting({Is("integer"), Strings}))
                   \cup {Arrays(Arrays(Arrays(Arrays(Is("integer")))))}

Plain == {Value("string", "abc"), Value("string", "true"), Value("integer", "5"),
          Value("number", "1.5"), True, Null}
Holding(values) ==
    {Array(<<>>), Object(<<>>)} \cup {Array(<<v>>) : v \in values}
    \cup {Array(<<Value("integer", "5"), v>>) : v \in values}
    \cup {Object("a" :> v) : v \in values} \cup {Object("b" :> v) : v \in values}
    \cup {Object(("a" :> v) @@ ("b" :> Value("string", "abc"))) : v \in values}
MCInputs == Plain \cup Holding(Plain)
              \cup Holding(Holding({Value("string", "abc"), Value("integer", "5")}))
              \cup {Array(<<Array(<<Array(<<Array(<<Value("integer", "5")>>)>>)>>)>>)}

MCJsonValues ==
    LET in(values) == UNION {Members(v) : v \in values}
        parts[n \in 0..4] == IF n = 0 THEN MCInputs ELSE in(parts[n - 1])
    IN {v : v \in UNION {parts[n] : n \in 0..4}}
MCHeight[v \in MCJsonValues] ==
    IF Members(v) = {} THEN 0 ELSE 1 + Max({MCHeight[member] : member \in Members(v)})

Bodies == {[json |-> "no", text |-> "text"], [json |-> "result", text |-> "text"],
           [json |-> "error", text |-> "text"], [json |-> "other", text |-> "text"]}
MCReplies == {[kind |-> kind, body |-> body] :
                kind \in {"ok", "error", "silent", "refused", "cut"}, body \in Bodies}

-----------------------------------------------------------------------------
(* The forms a host offers tools in: toolsets whose names collide or do not,   *)
(* texts that begin with a break or a full stop, results within results.       *)

HostTool(name, props, required, text) ==
    [name |-> name, props |-> props, required |-> required, text |-> text]

HostNames == {<<"get", "_", "page">>, <<"get", "Page">>, <<"get", "-", "Id">>, <<"page">>}
HostSchemas == FewSchemas \cup {Is("string"), Is("object"), [types |-> {"object", "null"}],
                                [types |-> {"string", "object"}]}
MCSchemas ==
    LET all == PropertySchemas \cup TypeSchemas \cup HostSchemas
        in(schemas) == UNION {Parts(schema) : schema \in schemas}
        parts[n \in 0..4] == IF n = 0 THEN all \cup {Anything} ELSE in(parts[n - 1])
    IN {schema : schema \in UNION {parts[n] : n \in 0..4}}

MCNumeral == [n \in 2..4 |-> ToString(n)]

MCDepth[schema \in MCSchemas] ==
    IF Parts(schema) = {} THEN 0 ELSE 1 + Max({MCDepth[part] : part \in Parts(schema)})

Descriptions == UNION {[1..n -> {"word", "lengthy", ".", "\n"}] : n \in 0..4}

MCDescribed == {<<HostTool(<<"page">>, <<"id">> :> Is("string"), {}, text)>> : text \in Descriptions}

HostToolset(names, schema) ==
    [i \in DOMAIN names |->
        HostTool(names[i], (<<"page", "_", "id">> :> schema) @@ (<<"id">> :> Is("string")),
                 IF i = 1 THEN {<<"id">>} ELSE {}, <<"lengthy", ".">>)]

MCToolsets == {HostToolset(names, schema) :
                names \in {<<name>> : name \in HostNames}
                          \cup {pair \in [1..2 -> HostNames] : pair[1] # pair[2]},
                schema \in HostSchemas}

MCHostLines ==
    {[sub |-> sub, rest |-> rest] :
        sub \in HostNames \cup HelpNames \cup {<<"get", "-", "page">>, <<"get", "-", "id">>},
        rest \in {<<>>, <<HelpFlag>>, <<Text("-h")>>, <<Text("help")>>, <<Flag(<<"json">>), Text("{}")>>}
                 \cup {<<Flag(<<"id">>), Text(t)>> : t \in {"abc", "[5]", "{}", "-h"}}
                 \cup {<<Flag(<<"id">>), Text("[5]"), Flag(<<"page", "-", "id">>), Text(t)>> :
                          t \in {"abc", "[5]", "{}", "true"}}}

Content(kind, text) ==
    Object(("type" :> Value("string", kind)) @@ ("text" :> Value("string", text)))
HostResults ==
    LET plain == {Value("string", "abc"), Value("integer", "5"), Object(<<>>), Array(<<>>)}
        content == {Object("content" :> Array(items)) : items \in
                       {<<>>, <<Content("text", "abc")>>, <<Content("image", "abc")>>,
                        <<Content("text", "abc"), Content("image", "true"), Content("text", "true")>>}}
        wrapped == {Object("result" :> v) : v \in plain \cup content}
    IN plain \cup content \cup wrapped \cup {Object("result" :> v) : v \in wrapped}
           \cup {Object(("result" :> v) @@ ("isError" :> True)) : v \in plain}

Page(member) == Object(("id" :> Value("integer", "7")) @@ ("b" :> member))
Record == Page(Value("string", "abc"))
Spoken == Object(("first name" :> Record) @@ ("b" :> Record))
ResultValues ==
    LET flat == Plain \cup {Object(<<>>), Array(<<>>), Record, Array(<<Record, Record>>),
                            Array(<<Array(<<Value("integer", "5")>>), Record>>),
                            Array(<<Record, Value("integer", "5")>>)}
    IN flat \cup {Object("b" :> v) : v \in flat} \cup {Page(v) : v \in flat}
            \cup {Object("b" :> Page(v)) : v \in flat} \cup {Page(Page(v)) : v \in flat}
YamlValues ==
    ResultValues \cup {Spoken, Object("first name" :> Record), Page(Tagged), Page(Array(<<Infinite, Record>>)),
                     Object(("5" :> Record) @@ ("b" :> Record)), Page(Spoken)}
Cells == {"7", "007", "-0", "3.1", "3.10", "1.0", "true", "abc", ""}
Rows == {<<"abc">>} \cup {<<c, d>> : c, d \in Cells}
Tables ==
    [headers : {<<"id">>, <<"id", "b">>, <<"b", "first name">>, <<"id", "id">>, <<"id", "1st">>},
     rows : {<<>>} \cup {<<row>> : row \in Rows} \cup {<<<<"abc", "">>, row>> : row \in Rows}]

AllTexts ==
    {JsonText(v) : v \in ResultValues} \cup {Verbatim(<<"abc">>)}
    \cup {[Verbatim(<<"a yaml">>) EXCEPT !.yaml = {v}, !.marks = marks] :
              v \in YamlValues, marks \in SUBSET {"&", "*", "#"}}
    \cup {[Verbatim(<<"a table">>) EXCEPT !.yaml = yaml, !.table = {table}] : table \in Tables,
              yaml \in {{}, {Value("string", "words")}, {Object("id" :> Value("string", "a,b"))}}}

MCToolResults ==
    LET Block(kind, text) == [kind |-> kind, text |-> text]
        Result(content, error, structured, truncation) ==
            [content |-> content, error |-> error, structured |-> structured, truncation |-> truncation]
        some == {JsonText(Record), Verbatim(<<"abc">>)}
    IN {Result(<<Block("text", text)>>, error, {}, FALSE) : text \in AllTexts, error \in BOOLEAN}
       \cup {Result(<<Block(kind, text)>>, FALSE, structured, truncation) :
                 kind \in {"text", "image", "resource"}, text \in some,
                 structured \in {{}, {Record}, {Value("string", "abc")}}, truncation \in BOOLEAN}
       \cup {Result(<<Block("text", text), Block(kind, other)>>, error, {}, FALSE) :
                 kind \in {"text", "link"}, text, other \in some, error \in BOOLEAN}

MCReturned == HostResults \cup {v \in ResultValues : v # Null}
                  \cup {Object("result" :> v) : v \in ResultValues}

MCNeeding == [required : SUBSET {"id", "b"}]

\* A result made one string for a bridge or an SDK says what it says to an MCP client:
\* "TOON encodes the same information as JSON" (docs/concepts/configuration.md:144).
TextSaysTheSame ==
    NothingRuns => \A result \in ToolResults :
        LET config == [toonify |-> TRUE, shrinkfit |-> FALSE]
            passed == Passed(config, FALSE, result).content
        IN Len(passed) = 1 /\ result.structured = {} /\ ~result.truncation
               => Meaning(InvokeToolFull(config, FALSE, result).text) = Meaning(passed[1].text)
=============================================================================
