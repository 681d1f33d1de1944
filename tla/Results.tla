-------------------------------- MODULE Results --------------------------------
(***************************************************************************)
(* What becomes of a tool's result before a client sees it                 *)
(* (server/compressed.rs): texts that are JSON, YAML or a table are        *)
(* rewritten in TOON, and where a client is handed one string, the result  *)
(* is made one.                                                            *)
(*                                                                         *)
(* A text is [name, json, yaml, marks, table, toon]: what it is when read  *)
(* as JSON, as YAML and as CSV and which value it is the TOON of, each a   *)
(* set of at most one, and which of YAML's marks "&", "*" and "#" it has.  *)
(* Values are as in ClientGen.  A result is [content, error, structured,   *)
(* truncation], its content a sequence of [kind, text].  Several texts     *)
(* joined are taken to have no form of their own.                          *)
(***************************************************************************)
EXTENDS HostTools

\* A text is named by the words in it.
Verbatim(name) ==
    [name |-> name, json |-> {}, yaml |-> {}, marks |-> {}, table |-> {}, toon |-> {}]
JsonText(value) == [Verbatim(<<>>) EXCEPT !.json = {value}]

Nested(v) == v.type \in {"object", "array"}

\* A value and all in it.
Within(v) ==
    LET level[n \in 0..MaxNesting] ==
            IF n = 0 THEN {v} ELSE UNION {Members(w) : w \in level[n - 1]}
    IN UNION {level[n] : n \in 0..MaxNesting}

-----------------------------------------------------------------------------
(* Texts that have a structure.                                               *)

\* YAML only: keys that are no texts, and what JSON has no word for.
StrangeKeys == {"5"}
Tagged == Value("tagged", "!custom")
Infinite == Value("number", ".inf")

YamlCandidate(text) == ~({"&", "*"} \subseteq text.marks) /\ "#" \notin text.marks

IsJson(v) ==
    \A w \in Within(v) :
        w \notin {Tagged, Infinite} /\ (w.type = "object" => DOMAIN w.fields \cap StrangeKeys = {})

YamlToJson(text) == {v \in text.yaml : IsJson(v)}

\* Keys with blanks in them are prose.
Spaced == {"first name"}

IsRecord(v) ==
    v.type = "object" /\ Cardinality(DOMAIN v.fields) >= 2 /\ DOMAIN v.fields \cap Spaced = {}

HasRecord(v) == \E w \in Within(v) : IsRecord(w)

YamlIsStructured(v) ==
    \/ /\ v.type = "object" /\ DOMAIN v.fields \cap Spaced = {} /\ HasRecord(v)
       /\ \E member \in Members(v) : Nested(member) /\ Members(member) # {}
    \/ v.type = "array" /\ v.items # <<>> /\ \A member \in Members(v) : IsRecord(member)

\* The numbers that cells are, as Rust prints them again.
PrintedInteger == ("7" :> "7") @@ ("007" :> "7") @@ ("-0" :> "0")
PrintedFraction == ("3.1" :> "3.1") @@ ("3.10" :> "3.1") @@ ("1.0" :> "1")

PrintsBack(printed, cell) == cell \in DOMAIN printed /\ printed[cell] = cell

CsvCell(cell) ==
    CASE cell \in {"true", "false"} -> Value("boolean", cell)
      [] PrintsBack(PrintedInteger, cell) -> Value("integer", cell)
      [] PrintsBack(PrintedFraction, cell) -> Value("number", cell)
      [] OTHER -> Value("string", cell)

ColumnNames == {"id", "b"} \cup Spaced

\* A table is [headers, rows].
CsvToJson(table) ==
    LET headers == ToSet(table.headers)
        Row(cells) == Object([h \in headers |->
                                 CsvCell(cells[CHOOSE i \in DOMAIN cells : table.headers[i] = h])])
        named == /\ Len(table.headers) >= 2 /\ headers \subseteq ColumnNames
                 /\ Cardinality(headers) = Len(table.headers)
        even == \A i \in DOMAIN table.rows : Len(table.rows[i]) = Len(table.headers)
        IsData(cell) == CsvCell(cell).type # "string" \/ cell = ""
    IN IF named /\ even /\ (Len(table.rows) = 1 => \E cell \in ToSet(table.rows[1]) : IsData(cell))
          /\ table.rows # <<>>
       THEN {Array([i \in DOMAIN table.rows |-> Row(table.rows[i])])} ELSE {}

\* YAML goes before CSV, and YAML of no record keeps its text.
ParseStructured(text) ==
    LET yaml == IF YamlCandidate(text) THEN YamlToJson(text) ELSE {}
    IN CASE text.json # {} -> text.json
         [] text.json = {} /\ (\E v \in yaml : Nested(v)) -> {v \in yaml : YamlIsStructured(v)}
         [] OTHER -> UNION {CsvToJson(table) : table \in text.table}

-----------------------------------------------------------------------------
(* TOON.  An array of plain values, or of objects of them with the same keys,  *)
(* is one line or block below its key and length; others are lists.            *)

Compact(v) ==
    \/ \A member \in Members(v) : ~Nested(member)
    \/ \E keys \in {DOMAIN member.fields : member \in {x \in Members(v) : x.type = "object"}} :
          \A member \in Members(v) :
              /\ member.type = "object" /\ DOMAIN member.fields = keys
              /\ \A x \in Members(member) : ~Nested(x)

\* What YAML takes TOON for: below its key, a block is words.
ReadAsYaml(v) ==
    LET Key(w, k) == IF w.fields[k].type = "array" THEN k \o "[n]" ELSE k
        reading[w \in Within(v)] ==
            CASE w.type = "object" ->
                   Object([key \in {Key(w, k) : k \in DOMAIN w.fields} |->
                       reading[w.fields[CHOOSE k \in DOMAIN w.fields : Key(w, k) = key]]])
              [] w.type = "array" ->
                   IF Compact(w) THEN Value("string", "words")
                   ELSE Array([i \in DOMAIN w.items |->
                           IF w.items[i].type = "array" THEN Tagged ELSE reading[w.items[i]]])
              [] OTHER -> w
    IN reading[v]

ToonText(v) ==
    [Verbatim(<<>>) EXCEPT !.toon = {v},
        !.json = IF Nested(v) \/ v.type = "string" THEN {} ELSE {v},
        !.yaml = IF v.type = "object" THEN {ReadAsYaml(v)} ELSE {}]

ToonifyOutput(toonify, text) ==
    IF ~toonify \/ ParseStructured(text) = {} THEN text
    ELSE ToonText(CHOOSE v \in ParseStructured(text) : TRUE)

-----------------------------------------------------------------------------
(* Results, as they are passed on and as one text.                            *)

ToonifyResult(toonify, result) ==
    IF ~toonify \/ result.error THEN result
    ELSE [result EXCEPT !.content = [i \in DOMAIN result.content |->
             IF result.content[i].kind = "text"
             THEN [result.content[i] EXCEPT !.text = ToonifyOutput(TRUE, @)]
             ELSE result.content[i]]]

\* A result that is not shrunk, or was asked for in full.
Passed(config, full, result) ==
    IF full \/ result.error \/ config.shrinkfit THEN result
    ELSE ToonifyResult(config.toonify, result)

\* value_to_string on what a server structures.
ValueToString(v) ==
    IF Innermost(v).type = "string" THEN Verbatim(<<Innermost(v).label>>) ELSE JsonText(Innermost(v))

\* Images, audio and links are their data; resources their texts.
ContentToString(block) == block.text

CallToolResultToString(result) ==
    CASE result.structured # {} -> ValueToString(CHOOSE v \in result.structured : TRUE)
      [] result.structured = {} ->
           IF Len(result.content) = 1 THEN ContentToString(result.content[1])
           ELSE Verbatim(FlattenSeq([i \in DOMAIN result.content |->
                                         ContentToString(result.content[i]).name]))

\* A preview goes out with its metadata, as JSON.
StringOutput(result) ==
    IF result.truncation THEN JsonText(Object("_meta" :> Value("string", "truncation")))
    ELSE CallToolResultToString(result)

Failure(text) == [fails |-> TRUE, text |-> text]
Output(text) == [fails |-> FALSE, text |-> text]

\* With shrinking on, the texts are shown and not the structure.
ToolResultToOutput(config, result) ==
    LET texts == \E i \in DOMAIN result.content : result.content[i].kind = "text"
        shown == IF config.shrinkfit /\ texts THEN [result EXCEPT !.structured = {}] ELSE result
    IN IF result.error THEN Failure(CallToolResultToString(result))
       ELSE Output(ToonifyOutput(config.toonify /\ ~config.shrinkfit, StringOutput(shown)))

\* What a bridge or an SDK returns, and what the host libraries make of one value.
InvokeToolFull(config, full, result) == ToolResultToOutput(config, Passed(config, full, result))
NormalizeHostToolResult(v, toonify) ==
    LET said == ValueText(v)
    IN ToonifyOutput(toonify, IF Has(said, "json") THEN JsonText(said.json) ELSE Verbatim(said.text))

\* The fields that a tool requires and an input lacks, which may be no object.
MissingRequired(tool, input) ==
    IF input.type = "object" THEN tool.required \ DOMAIN input.fields ELSE tool.required

-----------------------------------------------------------------------------
(* Properties *)

\* What a reader takes from a text: a value, or its words.
Meaning(text) ==
    LET value == IF text.toon # {} THEN text.toon ELSE ParseStructured(text)
    IN [value |-> value, words |-> IF value = {} THEN text.name ELSE <<>>]

\* A value that a text of one form is without loss.
Holds(text, v) ==
    \/ v \in text.json
    \/ text.json = {} /\ v \in text.yaml /\ IsJson(v) /\ "#" \notin text.marks
    \/ /\ text.json = {}
       /\ \E table \in text.table :
             /\ Len(v.items) = Len(table.rows)
             /\ \A i \in DOMAIN table.rows, j \in DOMAIN table.headers :
                    v.items[i].fields[table.headers[j]].label = table.rows[i][j]

\* With --toonify a text is left as it is or says the same, digits included; errors,
\* structure and other content are left alone (compressed.rs:1255); full results and
\* shrunk ones are never rewritten (docs/usage/shrinkfit.md:14, :85).
RewritingLosesNothing(results) ==
    \A result \in results, shrinkfit, full \in BOOLEAN :
        LET config == [toonify |-> TRUE, shrinkfit |-> shrinkfit]
            passed == Passed(config, full, result)
        IN /\ (full \/ shrinkfit \/ result.error) => passed = result
           /\ [passed EXCEPT !.content = <<>>] = [result EXCEPT !.content = <<>>]
           /\ DOMAIN passed.content = DOMAIN result.content
           /\ \A i \in DOMAIN result.content :
                  LET before == result.content[i].text
                      after == passed.content[i].text
                  IN /\ result.content[i].kind # "text" => after = before
                     /\ after # before => \A v \in after.toon : Holds(before, v)

\* A caller that gets one text and a client of the same server learn the same, and
\* failures are told from output (compressed.rs:706), unless the text is rewritten twice.
OneTextSuffices(results) ==
    \A result \in results, toonify, full, shrinkfit \in BOOLEAN :
        LET config == [toonify |-> toonify, shrinkfit |-> shrinkfit]
            output == InvokeToolFull(config, full, result)
            passed == Passed(config, full, result)
            alone == Len(result.content) = 1 /\ result.structured = {} /\ ~result.truncation
            Once(text) == text.toon # {} => ParseStructured(text) = {} \/ text.json # {}
        IN /\ output.fails = result.error
           /\ alone /\ Once(passed.content[1].text)
                  => Meaning(output.text) = Meaning(passed.content[1].text)
           /\ shrinkfit /\ ~result.error => output.text.toon \subseteq
                  UNION {result.content[i].text.toon : i \in DOMAIN result.content}

\* The server and the host libraries make the same text of a structured value, except
\* of one with an MCP content of its own, and turn down the same inputs
\* (host_transform.rs:222, compressed.rs:936, local_tools.ts:59).
ServerAndHostsAgree(values, tools) ==
    /\ \A v \in {v \in values : ~HasTexts(Innermost(v))}, toonify \in BOOLEAN :
           LET result == [content |-> <<>>, error |-> FALSE, structured |-> {v}, truncation |-> FALSE]
           IN NormalizeHostToolResult(v, toonify)
                  = InvokeToolFull([toonify |-> toonify, shrinkfit |-> FALSE], FALSE, result).text
    /\ \A tool \in tools, input \in values :
           LET fields == IF input.type = "object" THEN input.fields ELSE <<>>
           IN MissingRequired(tool, input) = MissingFields(tool, fields)
================================================================================
