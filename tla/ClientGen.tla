------------------------------ MODULE ClientGen ------------------------------
(***************************************************************************)
(* The modules that are generated for Python and TypeScript programs       *)
(* (client_gen/python.rs, client_gen/typescript.rs, client_gen/generator.  *)
(* rs): a function for each tool, whose parameters stand for the tool's    *)
(* properties, their types, and what a call comes to.                      *)
(*                                                                         *)
(* Names and schemas are those of CommandLine; a schema of objects may     *)
(* have `fields`, `needs` (the required ones) and `more`, what             *)
(* additionalProperties says: {} when nothing, {Nothing}, or {a schema}.   *)
(* An object value has `fields`.                                           *)
(***************************************************************************)
EXTENDS CommandLine, FiniteSets

CONSTANTS
    Height,  \* how deep each JSON value nests, of those that callers and tools have
    Numeral  \* how numbers are written

Object(fields) == [type |-> "object", label |-> "{...}", items |-> <<>>, fields |-> fields]
Null == Value("null", "null")
Nothing == [nothing |-> TRUE]  \* the schema that is false

JsonValues == DOMAIN Height

Members(v) == IF v.type = "object" THEN Range(v.fields) ELSE ToSet(v.items)

ASSUME ValuesAssumption ==
    /\ Height \in [JsonValues -> Nat]
    /\ \A v \in JsonValues : \A member \in Members(v) :
           member \in JsonValues /\ Height[member] < Height[v]
    /\ \A v \in JsonValues : v.type = "null" => v = Null

ASSUME KeywordsAssumption ==
    \A schema \in Schemas :
        /\ Has(schema, "fields") => {"needs", "more"} \subseteq DOMAIN schema
        /\ Has(schema, "more") => \A s, t \in schema.more : s = t
        /\ Has(schema, "types") => IsFiniteSet(schema.types) /\ ~Has(schema, "type")

-----------------------------------------------------------------------------
(* Identifiers *)

Raised == [word \in {"page", "id"} |-> IF word = "page" THEN "Page" ELSE "Id"]
Others == {"-", ".", " "}   \* what no identifier has in it
Digits == {"2"}
PythonReserved == {<<"class">>, <<"from">>, <<"_", "exec">>}
TsReserved == {<<"class">>, <<"execTool">>}

\* pageId, page-id and Page_Id become page_id.
ToSnake(name) ==
    FlattenSeq([i \in DOMAIN name |->
        LET follows == i > 1 /\ name[i - 1] \notin {"-", " ", "_"}
        IN IF name[i] \in {"-", " "} THEN IF follows THEN <<"_">> ELSE <<>>
           ELSE IF IsCapital(name[i]) /\ follows THEN <<"_", Lowered(name[i])>>
           ELSE <<Lowered(name[i])>>])

\* page_id and page-id become pageId.
ToCamel(name) ==
    FlattenSeq([i \in DOMAIN name |->
        IF name[i] \in {"-", "_"} THEN <<>>
        ELSE IF i > 1 /\ name[i - 1] \in {"-", "_"} /\ name[i] \in DOMAIN Raised
        THEN <<Raised[name[i]]>> ELSE <<name[i]>>])

SafeIdentifier(base, reserved) ==
    LET clean == [i \in DOMAIN base |-> IF base[i] \in Others THEN "_" ELSE base[i]]
        begun == IF clean = <<>> \/ clean[1] \in Digits THEN <<"_">> \o clean ELSE clean
    IN IF begun \in reserved THEN Append(begun, "_") ELSE begun

PythonIdentifier(name) == SafeIdentifier(ToSnake(name), PythonReserved)
TsFunction(name) == SafeIdentifier(ToCamel(name), TsReserved)
TsIdentifier(name) == SafeIdentifier(name, TsReserved)

Suffixed(base, n) == base \o <<"_", Numeral[n]>>

ASSUME NumeralAssumption ==
    /\ \A n \in DOMAIN Numeral : Numeral[n] \in STRING \ Others
    /\ \A m, n \in DOMAIN Numeral : Numeral[m] = Numeral[n] => m = n

\* Seeded bug: the number is not looked for among the names taken.
BindParamsCounted(bases) ==
    [i \in DOMAIN bases |->
        LET before == Cardinality({j \in 1..i - 1 : bases[j] = bases[i]})
        IN IF before = 0 THEN bases[i] ELSE Suffixed(bases[i], before + 1)]

\* Each parameter gets its own identifier: a name that is taken gets a number.
BindParams(bases) ==
    LET bound[i \in 1..Len(bases)] ==
            LET taken == {bound[j] : j \in 1..i - 1}
                free == {n \in 2..Len(bases) + 1 : Suffixed(bases[i], n) \notin taken}
            IN IF bases[i] \notin taken THEN bases[i]
               ELSE Suffixed(bases[i], CHOOSE n \in free : \A k \in free : n <= k)
    IN bound

\* Required parameters come first; a tool here is [order, props, required].
Kept(names, some) ==
    FlattenSeq([i \in DOMAIN names |-> IF names[i] \in some THEN <<names[i]>> ELSE <<>>])
OrderedParams(tool) ==
    Kept(tool.order, tool.required) \o Kept(tool.order, ToSet(tool.order) \ tool.required)

Bindings(tool, language) ==
    LET params == OrderedParams(tool)
        Identifier(p) == IF language = "python" THEN PythonIdentifier(p) ELSE TsIdentifier(p)
        bound == BindParams([i \in DOMAIN params |-> Identifier(params[i])])
    IN [i \in DOMAIN params |-> [wire |-> params[i], identifier |-> bound[i],
                                 required |-> params[i] \in tool.required]]

\* What goes to the bridge when `given` holds a value for some identifiers: Python
\* leaves out what is None, TypeScript what is undefined.
Given(bindings, given) ==
    LET named == {b \in ToSet(bindings) : b.identifier \in DOMAIN given}
    IN [wire \in {b.wire : b \in named} |->
           given[(CHOOSE b \in named : b.wire = wire).identifier]]

PythonInput(bindings, given) ==
    LET all == Given(bindings, given)
    IN [wire \in {w \in DOMAIN all : all[w] # Null} |-> all[wire]]
TsInput(bindings, given) == Given(bindings, given)

-----------------------------------------------------------------------------
(* Types: a type is the set of its alternatives *)

Alt(kind) == [is |-> kind]
Unknown == {Alt("unknown")}
MaxTsTypeDepth == 3

Union(types) == IF Unknown \in types THEN Unknown ELSE UNION types

TsLiteral(value) ==
    IF value.type \in {"array", "object"} THEN Unknown ELSE {[is |-> "literal", value |-> value]}

\* With one of its types, and the types of its parts.
TsTypeFor(type, schema, inner) ==
    CASE type \in {"integer", "number"} -> {Alt("number")}
      [] type \in {"string", "boolean", "null"} -> {Alt(type)}
      [] type = "array" ->
           {[is |-> "array", of |-> IF Has(schema, "items") THEN inner[schema.items] ELSE Unknown]}
      [] type = "object" /\ Has(schema, "fields") ->
           {[is |-> "fields", closed |-> schema.more = {Nothing}, needs |-> schema.needs,
             fields |-> [f \in DOMAIN schema.fields |-> inner[schema.fields[f]]]]}
      [] type = "object" /\ ~Has(schema, "fields") ->
           {[is |-> "record", of |-> IF Has(schema, "more") /\ schema.more \notin {{}, {Nothing}}
                                     THEN UNION {inner[s] : s \in schema.more}
                                     ELSE Unknown]}
      [] OTHER -> Unknown

\* Of its values, of its variants, or of its types.
TsTypeOf(schema, inner) ==
    IF Has(schema, "enum") THEN Union({TsLiteral(v) : v \in schema.enum})
    ELSE IF Has(schema, "const") THEN TsLiteral(schema.const)
    ELSE IF Has(schema, "anyOf") THEN Union({inner[s] : s \in schema.anyOf})
    ELSE IF Has(schema, "type") THEN TsTypeFor(schema.type, schema, inner)
    ELSE IF Has(schema, "types") THEN Union({TsTypeFor(t, schema, inner) : t \in schema.types})
    ELSE Unknown

TsType[depth \in 0..MaxTsTypeDepth + 1] ==
    [schema \in Schemas |-> IF depth > MaxTsTypeDepth THEN Unknown
                            ELSE TsTypeOf(schema, TsType[depth + 1])]

TsTypes == {TsType[depth][schema] : depth \in 0..MaxTsTypeDepth + 1, schema \in Schemas}

\* An annotation, when there is one type besides null.
PythonType(schema) ==
    LET types == IF Has(schema, "type") THEN {schema.type}
                 ELSE IF Has(schema, "types") THEN schema.types \ {"null"} ELSE {}
    IN IF Cardinality(types) = 1 THEN types \ {"null"} ELSE {}

-----------------------------------------------------------------------------
(* What a call comes to.  A reply is [kind, body]; a body is [json, text].     *)

Unwrapped(body) == IF body.json = "result" THEN "the result in it" ELSE body.text
ErrorIn(body) == IF body.json = "error" THEN "the error in it" ELSE "the status and the body"

\* _exec: HTTPError is an OSError and is looked for first.
PythonOutcome(reply, limited) ==
    CASE reply.kind = "silent" -> IF limited THEN {"timed out"} ELSE {}
      [] reply.kind = "ok" -> {Unwrapped(reply.body)}
      [] reply.kind = "error" -> {ErrorIn(reply.body)}
      [] reply.kind = "refused" -> {"not running"}
      [] reply.kind = "cut" -> {"an exception of the library"}

\* execTool
TsOutcome(reply, limited) ==
    IF reply.kind = "silent" THEN {"timed out" : t \in {limited} \cap {TRUE}}
    ELSE IF reply.kind \in {"refused", "cut"} THEN {"not running"}
    ELSE IF reply.kind = "ok" THEN {Unwrapped(reply.body)}
    ELSE {ErrorIn(reply.body)}

-----------------------------------------------------------------------------
(* Properties *)

Lawful(identifier, reserved) ==
    /\ identifier # <<>> /\ identifier[1] \notin Digits
    /\ ToSet(identifier) \cap Others = {}
    /\ identifier \notin reserved

\* The parameters of a function are lawful, all different, and the required ones
\* come first: the generated module compiles (generator.rs:113, :144).
SignatureCompiles(bindings, reserved) ==
    /\ \A b \in ToSet(bindings) : Lawful(b.identifier, reserved)
    /\ \A i, j \in DOMAIN bindings :
           i < j => /\ bindings[i].identifier # bindings[j].identifier
                    /\ bindings[j].required => bindings[i].required

\* Any values for the required and some other parameters arrive under the names the
\* schema has, and nothing else does.
ArgumentsArrive(tool) ==
    LET python == Bindings(tool, "python")
        ts == Bindings(tool, "typescript")
        Call(bindings, wires) ==
            [id \in {b.identifier : b \in {b \in ToSet(bindings) : b.wire \in wires}} |->
                Value("string", (CHOOSE b \in ToSet(bindings) : b.identifier = id).wire)]
        Meant(wires) == [wire \in wires |-> Value("string", wire)]
    IN /\ SignatureCompiles(python, PythonReserved)
       /\ SignatureCompiles(ts, TsReserved)
       /\ Lawful(TsFunction(tool.order[1]), TsReserved)
       /\ \A wires \in SUBSET ToSet(tool.order) :
              tool.required \subseteq wires =>
                  /\ PythonInput(python, Call(python, wires)) = Meant(wires)
                  /\ TsInput(ts, Call(ts, wires)) = Meant(wires)

\* What JSON Schema says of a value.
Valid[schema \in Schemas] == [v \in JsonValues |->
    LET types == IF Has(schema, "type") THEN {schema.type}
                 ELSE IF Has(schema, "types") THEN schema.types ELSE {v.type}
    IN /\ ~Has(schema, "nothing")
       /\ TypeAllowed(types, v)
       /\ Has(schema, "enum") => v \in schema.enum
       /\ Has(schema, "const") => v = schema.const
       /\ Has(schema, "anyOf") => \E s \in schema.anyOf : Valid[s][v]
       /\ Has(schema, "items") => \A i \in DOMAIN v.items : Valid[schema.items][v.items[i]]
       /\ (v.type = "object" /\ Has(schema, "fields")) =>
              /\ schema.needs \subseteq DOMAIN v.fields
              /\ \A f \in DOMAIN v.fields \cap DOMAIN schema.fields :
                     Valid[schema.fields[f]][v.fields[f]]
       /\ (v.type = "object" /\ Has(schema, "more")) =>
              \A f \in DOMAIN v.fields :
                  \/ Has(schema, "fields") /\ f \in DOMAIN schema.fields
                  \/ \A s \in schema.more : Valid[s][v.fields[f]]]

\* What TypeScript says of a value and a type.
Inhabits[v \in JsonValues] == [type \in TsTypes |->
    \E a \in type :
        \/ a.is = "unknown"
        \/ a.is = "literal" /\ v = a.value
        \/ a.is = "number" /\ v.type \in {"integer", "number"}
        \/ a.is \in {"string", "boolean", "null"} /\ v.type = a.is
        \/ /\ a.is = "array" /\ v.type = "array"
           /\ \A i \in DOMAIN v.items : Inhabits[v.items[i]][a.of]
        \/ /\ a.is = "record" /\ v.type = "object"
           /\ \A f \in DOMAIN v.fields : Inhabits[v.fields[f]][a.of]
        \/ /\ a.is = "fields" /\ v.type = "object" /\ a.needs \subseteq DOMAIN v.fields
           /\ a.closed => DOMAIN v.fields \subseteq DOMAIN a.fields
           /\ \A f \in DOMAIN v.fields \cap DOMAIN a.fields : Inhabits[v.fields[f]][a.fields[f]]]

\* A value that the schema admits is one the generated signature admits
\* (typescript.rs:306).  Python's annotation says nothing of null.
TypesAdmit(schema, values) ==
    \A v \in {v \in values : Valid[schema][v]} :
        /\ Inhabits[v][TsType[0][schema]]
        /\ v # Null => \A type \in PythonType(schema) :
               (v.type = type) \/ (v.type = "integer" /\ type = "number")

\* Both clients tell a program the same of every reply, and neither keeps it waiting
\* beyond a limit; not so when the bridge dies amid a reply.
OutcomesAgree(replies) ==
    \A reply \in {r \in replies : r.kind # "cut"}, limited \in BOOLEAN :
        PythonOutcome(reply, limited) = TsOutcome(reply, limited)
=============================================================================
