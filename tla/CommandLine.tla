----------------------------- MODULE CommandLine -----------------------------
(***************************************************************************)
(* From the arguments of a tool's subcommand to its input, twice: the      *)
(* native parser (cli/parser.rs), which the Just Bash commands use, and    *)
(* the parser inside the generated client (client_gen/cli.rs, a Python     *)
(* program); and the help that says what may be typed (cli/help.rs).       *)
(*                                                                         *)
(* Names are sequences of words and separators: pageId is <<"page", "Id">>, *)
(* page_id is <<"page", "_", "id">>.  A tool is [props, required], where    *)
(* props maps names to schemas and a schema is a record with only the      *)
(* keywords it has; `types` stands for a type that is a list, `anyOf` for  *)
(* either keyword with variants.  An optional value is a set of at most    *)
(* one.                                                                    *)
(***************************************************************************)
EXTENDS Integers, Sequences, SequencesExt, TLC

CONSTANT Depth  \* how deep each schema nests, of properties and in one another

Schemas == DOMAIN Depth

Has(record, key) == key \in DOMAIN record

TypeOf(schema) == IF Has(schema, "type") THEN schema.type ELSE "none"

\* The schemas in a schema, and the one that says nothing.
Parts(schema) ==
    (IF Has(schema, "items") THEN {schema.items} ELSE {})
    \cup (IF Has(schema, "anyOf") THEN schema.anyOf ELSE {})
    \cup (IF Has(schema, "fields") THEN Range(schema.fields) ELSE {})
    \cup (IF Has(schema, "more") THEN schema.more ELSE {})
Anything == [any |-> TRUE]

ASSUME SchemasAssumption ==
    /\ Depth \in [Schemas -> Nat]
    /\ Anything \in Schemas
    /\ \A schema \in Schemas : \A part \in Parts(schema) :
           part \in Schemas /\ Depth[part] < Depth[schema]

-----------------------------------------------------------------------------
(* JSON values and texts.  A value has its type, the text that it makes, and  *)
(* the values in it when it is an array.                                      *)

Value(type, label) == [type |-> type, label |-> label, items |-> <<>>]
Array(items) == [type |-> "array", label |-> "[...]", items |-> items]
True == Value("boolean", "true")
False == Value("boolean", "false")

\* What decoders of JSON make of the texts that are JSON.
JsonTexts == {"true", "false", "null", "5", "-3", "1.5", "{}", "[5]", "[\"abc\"]"}
Json == [text \in JsonTexts |->
    CASE text = "true" -> True
      [] text = "false" -> False
      [] text = "null" -> Value("null", "null")
      [] text \in {"5", "-3"} -> Value("integer", text)
      [] text = "1.5" -> Value("number", text)
      [] text = "{}" -> Value("object", text)
      [] text = "[5]" -> Array(<<Value("integer", "5")>>)
      [] text = "[\"abc\"]" -> Array(<<Value("string", "abc")>>)]

Decoded(text) == {Json[t] : t \in JsonTexts \cap {text}}

\* And of those that are integers and numbers for a parser of such.
Integer == [text \in {"5", "+5", "-3"} |-> IF text = "+5" THEN "5" ELSE text]
Number == [text \in {"5", "+5", "-3", "1.5"} |->
    CASE text \in {"5", "+5"} -> "5.0" [] text = "-3" -> "-3.0" [] text = "1.5" -> "1.5"]

Parsed(type, texts, text) ==
    IF text \in DOMAIN texts THEN {Value(type, texts[text])} ELSE {}

-----------------------------------------------------------------------------
(* Names *)

Separators == {"-", "_"}
Lower == [word \in {"Page", "Id", "No"} |-> CASE word = "Page" -> "page"
                                              [] word = "Id" -> "id"
                                              [] word = "No" -> "no"]
IsCapital(word) == word \in DOMAIN Lower
Lowered(word) == IF IsCapital(word) THEN Lower[word] ELSE word

\* tool_name_to_subcommand: pageId and page_id are typed page-id.
Kebab(name) ==
    FlattenSeq([i \in DOMAIN name |->
        IF name[i] = "_" THEN <<"-">>
        ELSE IF IsCapital(name[i]) /\ i > 1 /\ name[i - 1] \notin Separators
             THEN <<"-", Lowered(name[i])>>
        ELSE <<Lowered(name[i])>>])

Snake(name) == [i \in DOMAIN name |-> IF name[i] = "-" THEN "_" ELSE name[i]]

Canonical(name) ==
    FlattenSeq([i \in DOMAIN name |->
        IF name[i] \in Separators THEN <<>> ELSE <<Lowered(name[i])>>])

-----------------------------------------------------------------------------
(* Arguments: --name, of which "--" is the empty name, or a text.             *)

Flag(name) == [flag |-> TRUE, name |-> name, text |-> ""]
Text(text) == [flag |-> FALSE, name |-> <<>>, text |-> text]

Negated(name) == IsPrefix(<<"no", "-">>, name)
Positive(name) == IF Negated(name) THEN SubSeq(name, 3, Len(name)) ELSE name

\* The argument after the i-th, unless that begins with dashes.
Operand(args, i) == IF i < Len(args) /\ ~args[i + 1].flag THEN {args[i + 1].text} ELSE {}
TextOf(operand) == IF operand = {} THEN "" ELSE CHOOSE t \in operand : TRUE

\* An input with the value of a property.
Put(input, property, value) ==
    [p \in DOMAIN input \cup {property} |-> IF p = property THEN value ELSE input[p]]

\* What is made of the arguments up to one, and whether the one after it is taken.
Reading(input, taken) == [wrong |-> FALSE, taken |-> taken, input |-> input]
Wrong == [wrong |-> TRUE, taken |-> FALSE, input |-> <<>>]

\* The outcome of a parse.
Accepted(input) == [error |-> "none", input |-> input]
Rejected(kind) == [error |-> kind, input |-> <<>>]

-----------------------------------------------------------------------------
(* The native parser *)

NativeResolveExact(props, name) == {Snake(name)} \cap DOMAIN props

\* The property with the flag's name, or one whose name differs in case and
\* separators only.
NativeResolve(props, name) ==
    IF Snake(name) \in DOMAIN props THEN {Snake(name)}
    ELSE LET alike == {p \in DOMAIN props : Canonical(p) = Canonical(Snake(name))}
         IN IF alike = {} THEN {} ELSE {CHOOSE p \in alike : TRUE}

\* The types that a schema without a single type accepts, if it says so.
NativeTypes[schema \in Schemas] ==
    IF Has(schema, "type") THEN {{schema.type}}
    ELSE IF Has(schema, "types") THEN {schema.types}
    ELSE IF Has(schema, "enum") THEN {{v.type : v \in schema.enum}}
    ELSE IF Has(schema, "const") THEN {{schema.const.type}}
    ELSE IF Has(schema, "anyOf") /\ \A v \in schema.anyOf : NativeTypes[v] # {}
         THEN {UNION UNION {NativeTypes[v] : v \in schema.anyOf}}
    ELSE {}

TypeAllowed(types, value) ==
    value.type \in types \/ (value.type = "integer" /\ "number" \in types)

\* Decoded when the schema accepts what comes out, as it stands when it accepts
\* strings, and else whatever it is.
NativeUntyped(schema, text) ==
    LET plain == Value("string", text)
        decoded == CHOOSE v \in Decoded(text) : TRUE
        allowed == CHOOSE types \in NativeTypes[schema] : TRUE
    IN IF Decoded(text) = {} THEN plain
       ELSE IF NativeTypes[schema] = {} THEN decoded
       ELSE IF "string" \in allowed /\ ~TypeAllowed(allowed, decoded) THEN plain
       ELSE decoded

\* What a text is for the schema that has it.
NativeValues(schema, operand) ==
    LET text == TextOf(operand)
        Typed(type) == {v \in Decoded(text) : v.type = type}
    IN CASE TypeOf(schema) = "boolean" -> IF operand = {} THEN {True}
                                          ELSE {v \in {True, False} : v.label = text}
         [] TypeOf(schema) = "integer" -> Parsed("integer", Integer, text)
         [] TypeOf(schema) = "number" -> Parsed("number", Number, text)
         [] TypeOf(schema) = "string" -> {Value("string", text)}
         [] TypeOf(schema) = "array" -> IF Typed("array") # {} THEN Typed("array")
                                        ELSE {NativeUntyped(Anything, text)}
         [] TypeOf(schema) = "object" -> Typed("object")
         [] OTHER -> {NativeUntyped(schema, text)}

\* The items of an array have the text that is no array.
NativeCoerce(schema, operand) ==
    LET isArray == \E v \in Decoded(TextOf(operand)) : v.type = "array"
        coerce[s \in Schemas] ==
            IF TypeOf(s) = "array" /\ ~isArray /\ Has(s, "items") THEN coerce[s.items]
            ELSE NativeValues(s, operand)
    IN coerce[schema]

NativeEnum(schema, value) ==
    Has(schema, "enum") /\ schema.enum # {} =>
        \A v \in IF value.type = "array" THEN ToSet(value.items) ELSE {value} :
            v.label \in {allowed.label : allowed \in schema.enum}

\* Values of an array add up, any other value replaces the one before it.
NativeInsert(input, property, schema, value) ==
    LET before == IF property \in DOMAIN input THEN input[property].items ELSE <<>>
        added == IF value.type = "array" THEN value.items ELSE <<value>>
    IN Put(input, property, IF TypeOf(schema) = "array" THEN Array(before \o added) ELSE value)

\* The flag at i: its property, its value and whether it takes the argument after it.
NativeFlag(props, args, i) ==
    LET name == args[i].name
        operand == IF Negated(name) THEN {} ELSE Operand(args, i)
        Values(p) == IF Negated(name)
                     THEN IF TypeOf(props[p]) = "boolean" THEN {False} ELSE {}
                     ELSE IF TypeOf(props[p]) # "boolean" /\ operand = {} THEN {}
                     ELSE NativeCoerce(props[p], operand)
    IN IF ~args[i].flag \/ name = <<>> THEN {}
       ELSE {[property |-> p, value |-> v, takes |-> operand # {}] :
                p \in NativeResolve(props, Positive(name)),
                v \in UNION {Values(p) : p \in NativeResolve(props, Positive(name))}}

NativeTake(props, input, valid) ==
    LET r == CHOOSE r \in valid : TRUE
    IN IF valid = {} THEN Wrong
       ELSE Reading(NativeInsert(input, r.property, props[r.property], r.value), r.takes)

NativeStep(tool, args, i, read) ==
    LET valid == {r \in NativeFlag(tool.props, args, i) : NativeEnum(tool.props[r.property], r.value)}
    IN IF read.wrong THEN read
       ELSE IF read.taken THEN [read EXCEPT !.taken = FALSE]
       ELSE NativeTake(tool.props, read.input, valid)

JsonOnly(args) ==
    IF Len(args) # 2 \/ args[2].flag THEN Rejected("parse")
    ELSE IF \E v \in Decoded(args[2].text) : v.type = "object"
         THEN Accepted(<<"--json", args[2].text>>)
    ELSE Rejected("parse")

NativeOutcome(tool, end) ==
    IF end.wrong THEN Rejected("parse")
    ELSE IF tool.required \subseteq DOMAIN end.input THEN Accepted(end.input)
    ELSE Rejected("validation")

NativeParse(tool, args) ==
    IF args # <<>> /\ args[1] = Flag(<<"json">>) THEN JsonOnly(args)
    ELSE LET read[i \in 0..Len(args)] ==
                 IF i = 0 THEN Reading(<<>>, FALSE) ELSE NativeStep(tool, args, i, read[i - 1])
         IN NativeOutcome(tool, read[Len(args)])

-----------------------------------------------------------------------------
(* The parser in the generated client *)

\* As it stands, with underscores, or one that differs in case and separators only.
ScriptResolve(props, name) ==
    LET raw == Positive(name)
        alike == {p \in DOMAIN props : Canonical(p) = Canonical(raw)}
    IN IF raw \in DOMAIN props THEN raw
       ELSE IF Snake(raw) \in DOMAIN props THEN Snake(raw)
       ELSE IF alike # {} THEN CHOOSE p \in alike : TRUE
       ELSE raw

ScriptTypes[schema \in Schemas] ==
    LET listed == {key \in {"type", "types", "enum", "const", "anyOf"} : Has(schema, key)}
    IN IF "type" \in listed THEN {{schema.type}}
       ELSE IF "types" \in listed THEN {schema.types}
       ELSE IF "enum" \in listed THEN {{v.type : v \in schema.enum}}
       ELSE IF "const" \in listed THEN {{schema.const.type}}
       ELSE IF "anyOf" \in listed /\ {} \notin {ScriptTypes[v] : v \in schema.anyOf}
       THEN {UNION UNION {ScriptTypes[v] : v \in schema.anyOf}}
       ELSE {}

ScriptUntyped(schema, text) ==
    LET allowed == ScriptTypes[schema]
        accepted == {v \in Decoded(text) : \A types \in allowed : TypeAllowed(types, v)}
        plain == Value("string", text)
    IN IF accepted # {} THEN CHOOSE v \in accepted : TRUE
       ELSE IF \E types \in allowed : "string" \in types THEN plain
       ELSE IF Decoded(text) # {} THEN CHOOSE v \in Decoded(text) : TRUE
       ELSE plain

ScriptValues(schema, operand) ==
    LET text == TextOf(operand)
        decoded == Decoded(text)
    IN CASE TypeOf(schema) = "boolean" ->
              IF operand \in {{}, {"true"}} THEN {True}
              ELSE IF operand = {"false"} THEN {False} ELSE {}
         [] TypeOf(schema) = "integer" -> Parsed("integer", Integer, text)
         [] TypeOf(schema) = "number" -> Parsed("number", Number, text)
         [] TypeOf(schema) = "string" -> {Value("string", text)}
         [] TypeOf(schema) = "array" -> IF \E v \in decoded : v.type = "array" THEN decoded
                                        ELSE {ScriptUntyped(Anything, text)}
         [] TypeOf(schema) = "object" -> IF \E v \in decoded : v.type = "object" THEN decoded ELSE {}
         [] OTHER -> {ScriptUntyped(schema, text)}

ScriptCoerce(schema, operand) ==
    LET arrays == {v \in Decoded(TextOf(operand)) : v.type = "array"}
        coerce[s \in Schemas] ==
            IF TypeOf(s) # "array" \/ arrays # {} \/ ~Has(s, "items") THEN ScriptValues(s, operand)
            ELSE coerce[s.items]
    IN coerce[schema]

ScriptEnum(schema, value) ==
    LET allowed == IF Has(schema, "enum") THEN {v.label : v \in schema.enum} ELSE {}
        values == IF value.type = "array" THEN ToSet(value.items) ELSE {value}
    IN allowed = {} \/ {v.label : v \in values} \subseteq allowed

\* Seeded bug: a repeated flag replaces the array instead of adding to it.
ScriptInsertReplaces(input, property, schema, value) ==
    Put(input, property, IF TypeOf(schema) = "array" /\ value.type # "array"
                         THEN Array(<<value>>) ELSE value)

ScriptInsert(input, property, schema, value) ==
    IF TypeOf(schema) = "array"
    THEN LET values == IF value.type = "array" THEN value.items ELSE <<value>>
             old == IF property \in DOMAIN input THEN input[property].items ELSE <<>>
         IN Put(input, property, Array(old \o values))
    ELSE Put(input, property, value)

ScriptTake(input, property, schema, values, taken) ==
    IF \A v \in values : ~ScriptEnum(schema, v) THEN Wrong
    ELSE Reading(ScriptInsert(input, property, schema, CHOOSE v \in values : TRUE), taken)

ScriptStep(tool, args, i, read) ==
    LET name == args[i].name
        property == ScriptResolve(tool.props, name)
        schema == tool.props[property]
        forced == Negated(name)
        operand == IF forced THEN {} ELSE Operand(args, i)
        bare == TypeOf(schema) # "boolean" /\ operand = {}
        values == IF forced THEN {False} ELSE ScriptCoerce(schema, operand)
    IN IF read.wrong THEN read
       ELSE IF read.taken THEN [read EXCEPT !.taken = FALSE]
       ELSE IF ~args[i].flag \/ name = <<>> THEN Wrong
       ELSE IF property \notin DOMAIN tool.props THEN Wrong
       ELSE IF bare THEN Wrong
       ELSE ScriptTake(read.input, property, schema, values, operand # {})

ScriptOutcome(tool, end) ==
    IF end.wrong THEN Rejected("parse")
    ELSE IF tool.required \ DOMAIN end.input # {} THEN Rejected("validation")
    ELSE Accepted(end.input)

ScriptParse(tool, args) ==
    IF args # <<>> /\ args[1] = Flag(<<"json">>) THEN JsonOnly(args)
    ELSE LET read[i \in 0..Len(args)] ==
                 IF i = 0 THEN Reading(<<>>, FALSE) ELSE ScriptStep(tool, args, i, read[i - 1])
         IN ScriptOutcome(tool, read[Len(args)])

-----------------------------------------------------------------------------
(* The help of a subcommand: what it tells a user to type for a property, and  *)
(* the labels of the values that this is to give.                              *)

Enumerated(schema) == Has(schema, "enum") /\ schema.enum # {}
Labels(schema) == {v.label : v \in schema.enum}
OrText(schema) == Has(schema, "anyOf") /\ \E v \in schema.anyOf : TypeOf(v) = "string"

\* Texts of the kind that help asks for.
Examples(schema) ==
    LET json == CASE TypeOf(schema) = "boolean" -> "true" [] TypeOf(schema) = "integer" -> "5"
                  [] TypeOf(schema) = "number" -> "1.5" [] TypeOf(schema) = "array" -> "[5]"
                  [] TypeOf(schema) = "null" -> "null" [] OTHER -> "{}"
    IN IF Enumerated(schema) THEN Labels(schema)
       ELSE IF Has(schema, "anyOf") THEN IF OrText(schema) THEN {"abc", json} ELSE {json}
       ELSE IF TypeOf(schema) \in {"none", "string"} THEN {"abc"}
       ELSE {json}

\* What help calls boolean is a switch; an array of what is no structure is
\* typed item by item, or at once.
IsSwitch(schema) == IF Enumerated(schema) THEN Labels(schema) = {"boolean"}
                    ELSE TypeOf(schema) = "boolean" /\ ~Has(schema, "anyOf")
Repeats(schema) ==
    /\ TypeOf(schema) = "array" /\ Has(schema, "items")
    /\ ~Enumerated(schema) /\ ~Has(schema, "anyOf")
    /\ TypeOf(schema.items) \notin {"array", "object"}
    /\ Has(schema.items, "anyOf") => Enumerated(schema.items)

Line(args, labels) == [args |-> args, labels |-> labels]

HelpFlags(name, schema) ==
    LET flag == Flag(Kebab(name))
        once == {Line(<<flag, Text(t)>>,
                      <<IF TypeOf(schema) = "array" /\ t = "[5]" THEN "5" ELSE t>>) : t \in Examples(schema)}
        twice == {Line(<<flag, Text(t), flag, Text(u)>>, <<t, u>>) : t, u \in Examples(schema.items)}
    IN IF IsSwitch(schema)
       THEN {Line(<<flag>>, <<"true">>), Line(<<Flag(<<"no", "-">> \o Kebab(name))>>, <<"false">>),
             Line(<<flag, Text("true")>>, <<"true">>), Line(<<flag, Text("false")>>, <<"false">>)}
       ELSE IF Repeats(schema) THEN once \cup twice ELSE once

-----------------------------------------------------------------------------
(* Properties *)

\* Names that resolve in one way only.
Distinct(props) ==
    \A p, q \in DOMAIN props : Canonical(p) = Canonical(q) => p = q

\* The two parsers say the same of every command line: the same input, or the same
\* kind of error (cli/parser.rs:24-26 and client_gen/cli.rs:205).
SameFor(tool, lines) ==
    Distinct(tool.props) => \A args \in lines : NativeParse(tool, args) = ScriptParse(tool, args)

\* That arguments set a property, and no other, to values with some labels.
SetsOnly(outcome, p, labels) ==
    LET value == outcome.input[p]
        values == IF value.type = "array" THEN value.items ELSE <<value>>
    IN /\ outcome.error = "none" /\ DOMAIN outcome.input = {p}
       /\ [i \in DOMAIN values |-> values[i].label] = labels

\* Names whose flag is neither --json nor, to the parsers, another's: one of two
\* dashes fewer, or the negation of one.
OwnFlag(name) ==
    /\ Kebab(name) \notin {<<>>, <<"json">>}
    /\ ~IsPrefix(<<"-", "-">>, Kebab(name)) /\ ~Negated(Kebab(name))

\* Schemas that a text can be found for by their help: an enumeration, of values whose
\* labels are read as they are written (not so of 5 for a number, which reads as 5.0),
\* or a type that has what its variants have.
Consistent(schema) ==
    LET typed == IF Repeats(schema) THEN schema.items ELSE schema
    IN IF Enumerated(typed)
       THEN /\ ~IsSwitch(schema)
            /\ \A v \in typed.enum :
                   /\ v.type # "array"
                   /\ \E w \in NativeCoerce(schema, {v.label}) : w.label = v.label
       ELSE OrText(schema) => TypeOf(schema) \in {"none", "string"}

\* What help tells the user to type sets the property it is listed under, and no
\* other, to the value it shows.
HelpIsTrueFor(tool) ==
    Distinct(tool.props) =>
        \A p \in DOMAIN tool.props :
            OwnFlag(p) /\ Consistent(tool.props[p]) =>
                \A line \in HelpFlags(p, tool.props[p]) :
                    SetsOnly(NativeParse([props |-> tool.props, required |-> {p}], line.args),
                             p, line.labels)
=============================================================================
