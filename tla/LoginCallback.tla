----------------------------- MODULE LoginCallback -----------------------------
(***************************************************************************)
(* The end of a login in the browser (oauth.rs, server/connect.rs): the    *)
(* one request that the local listener reads, the page it answers with,    *)
(* and the file in which the state of that login is looked up.             *)
(*                                                                         *)
(* Texts are sequences of characters, which stand for themselves but for   *)
(* "-", any that every file name may have, and "?", any other.  A request  *)
(* is [words, query]: how many words its first line has, and the pairs     *)
(* <<key, text>> after the question mark of the second, if there is one.   *)
(***************************************************************************)
EXTENDS Integers, Sequences, FiniteSets, SequencesExt

HexDigits == {"0", "2", "5", "a", "B"}
HexValue(digit) ==
    CASE digit = "0" -> 0 [] digit = "2" -> 2 [] digit = "5" -> 5 [] digit = "a" -> 10 [] digit = "B" -> 11

\* What the bytes are that a test of these digits can write.
ByteOf(high, low) ==
    LET byte == 16 * HexValue(high) + HexValue(low)
    IN CASE byte = 32 -> " " [] byte = 37 -> "%" [] byte = 43 -> "+" [] OTHER -> "?"

IsEscape(text, i) ==
    /\ text[i] = "%" /\ i + 2 <= Len(text)
    /\ {text[i + 1], text[i + 2]} \subseteq HexDigits

PercentDecode(text) ==
    LET from[i \in 1..Len(text) + 3] ==
            IF i > Len(text) THEN <<>>
            ELSE IF IsEscape(text, i) THEN <<ByteOf(text[i + 1], text[i + 2])>> \o from[i + 3]
            ELSE <<IF text[i] = "+" THEN " " ELSE text[i]>> \o from[i + 1]
    IN from[1]

-----------------------------------------------------------------------------
(* The request.                                                               *)

\* Of several values of a key the last counts.
Parameter(query, key) ==
    LET at == {i \in DOMAIN query : query[i][1] = key}
    IN {PercentDecode(query[i][2]) : i \in {k \in at : \A j \in at : j <= k}}

Malformed == [is |-> "malformed", code |-> <<>>, state |-> <<>>]

ParseCallbackRequest(request) ==
    LET query == CHOOSE q \in request.query : TRUE
        code == Parameter(query, "code")
        state == Parameter(query, "state")
    IN CASE request.words < 2 \/ request.query = {} -> Malformed
         [] request.words >= 2 /\ request.query # {} ->
              IF Parameter(query, "error") # {} THEN [Malformed EXCEPT !.is = "provider error"]
              ELSE IF <<>> \in code \cup state \/ code = {} \/ state = {} THEN Malformed
              ELSE [is |-> "success", code |-> CHOOSE c \in code : TRUE,
                    state |-> CHOOSE s \in state : TRUE]

-----------------------------------------------------------------------------
(* The page.  The replacements are made one after the other, "&" first.       *)

Replaced(text, ch, entity) ==
    FlattenSeq([i \in DOMAIN text |-> IF text[i] = ch THEN <<"&", entity>> ELSE <<text[i]>>])

EscapeHtml(text) ==
    Replaced(Replaced(Replaced(text, "&", "amp"), "<", "lt"), ">", "gt")

CallbackHtml(status, body) ==
    [title   |-> IF status = 200 THEN "complete" ELSE "failed",
     message |-> IF status = 200 THEN <<"authorized">> ELSE EscapeHtml(body)]

WriteCallbackResponse(status, body) == [status |-> status, page |-> CallbackHtml(status, body)]

\* The answer that the browser gets, if it still listens, and what the login gets.
WaitForCallback(request, listens) ==
    LET callback == ParseCallbackRequest(request)
        status == IF callback.is = "success" THEN 200 ELSE 400
    IN [answer |-> {WriteCallbackResponse(status, <<"authorization failed">>) : l \in {listens} \cap {TRUE}},
        login  |-> IF callback.is = "success" /\ listens THEN {callback} ELSE {}]

-----------------------------------------------------------------------------
(* The state of a login, on disk.                                             *)

SanitizeFileComponent(text) ==
    IF text = <<>> THEN <<"state">>
    ELSE [i \in DOMAIN text |-> IF text[i] \in {"a", "B", "0", "2", "5", "-", "_"} THEN text[i] ELSE "_"]

StatePath(token) == SanitizeFileComponent(token)

\* The states are those of the logins in progress; the one of the callback, if any.
LoadState(states, token) == {s \in states : StatePath(s) = StatePath(token)}

\* Assumed of rmcp, which is handed the code, the state and the issuer and makes
\* the comparison, if any: a login goes on only with the state it was begun with.
HandleCallback(own, callback) == callback.state = own

\* A login succeeds when what is stored for the callback's state is found, and
\* rmcp takes the callback for this login's.
Authorized(states, own, request, listens) ==
    \E callback \in WaitForCallback(request, listens).login :
        own \in LoadState(states, callback.state) /\ HandleCallback(own, callback)

\* The browser may be switched off by a variable, or not open: the address is told anyway.
OpenAuthorizationUrl(variable, opens) ==
    IF variable \cap {"1", "true", "TRUE", "yes", "YES"} # {} THEN "disabled"
    ELSE IF opens THEN "opened" ELSE "failed"

-----------------------------------------------------------------------------
(* Properties *)

\* How a provider writes a text in a query (RFC 3986, or as a form does).
WrittenAs(ch, form) ==
    CASE ch = " " -> IF form THEN <<"+">> ELSE <<"%", "2", "0">>
      [] ch = "%" -> <<"%", "2", "5">>
      [] ch = "+" -> <<"%", "2", "B">>
      [] OTHER -> <<ch>>
Written(text, form) == FlattenSeq([i \in DOMAIN text |-> WrittenAs(text[i], form)])

\* What a provider writes is what the login reads, whichever way it writes it, and a
\* sign that begins no escape stays (oauth.rs:435).
WritingIsRead(texts) ==
    \A text \in texts, form \in BOOLEAN :
        /\ PercentDecode(Written(text, form)) = text
        /\ "%" \notin ToSet(text) => Len(PercentDecode(text)) = Len(text)

\* The page says complete just when the login goes on, unless the browser has gone, and
\* never when the provider said that it failed (oauth.rs:198).
PageTellsTheOutcome(requests) ==
    \A request \in requests, listens \in BOOLEAN :
        LET waited == WaitForCallback(request, listens)
        IN /\ listens <=> waited.answer # {}
           /\ \A answer \in waited.answer :
                  (answer.page.title = "complete") <=> waited.login # {}
           /\ waited.login # {} =>
                  \A query \in request.query : Parameter(query, "error") = {}
           /\ \A callback \in waited.login : callback.code # <<>> /\ callback.state # <<>>

\* No text of the page is markup, and none is lost (oauth.rs, escape_html).
PageIsText(texts) ==
    \A text, other \in texts :
        /\ ToSet(EscapeHtml(text)) \cap {"<", ">"} = {}
        /\ EscapeHtml(text) = EscapeHtml(other) => text = other

\* Given that assumption, a login ends only by its own callback, whatever other logins
\* wait, and its state is found in the directory where it was saved (oauth.rs, FileStateStore).
OwnLoginOnly(states, requests) ==
    \A own \in states, request \in requests :
        /\ own \in LoadState(states, own)
        /\ Authorized(states, own, request, TRUE) =>
              \A query \in request.query : Parameter(query, "state") = {own}
        /\ \A other \in states \ {own} :
              Authorized(states, own, request, TRUE) => ~Authorized(states, other, request, TRUE)
        /\ ToSet(StatePath(own)) \cap {"?", "%", " ", "&", "<"} = {}

CallbacksAreReadFor(texts, pages, requests, states) ==
    /\ WritingIsRead(texts) /\ PageIsText(pages)
    /\ PageTellsTheOutcome(requests) /\ OwnLoginOnly(states, requests)
================================================================================
