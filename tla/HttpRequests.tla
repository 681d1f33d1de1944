----------------------------- MODULE HttpRequests -----------------------------
(***************************************************************************)
(* The requests to an HTTP backend whose headers a provider gives          *)
(* (server/dynamic_http_client.rs), their limit (BackendHttpClient of      *)
(* server/connect.rs), and what a connection that fails tells its user.    *)
(*                                                                         *)
(* An answer is [status, type, message, challenge, words, late]: whether   *)
(* its body is a JSON-RPC message, its WWW-Authenticate header, the words  *)
(* of its body that a hint looks for, and whether its head comes after the *)
(* limit.                                                                  *)
(***************************************************************************)
EXTENDS ConfigTopology

HintWords == {"401", "403", "WWW-Authenticate", "unauthorized"}

Answer ==
    [status : Nat, type : {"sse", "json", "html", "none"}, message : BOOLEAN,
     challenge : {"none", "no text", "scheme", "unauthorized"}, words : SUBSET HintWords,
     late : BOOLEAN]

IsSuccess(status) == status \in 200..299

Reply(is) == [is |-> is, says |-> {}]
Failure(words) == [is |-> "failure", says |-> words]

\* What a hint finds in the number of a status and the words that are its name.
StatusWords(status) ==
    CASE status = 401 -> {"401", "unauthorized"}
      [] status = 403 -> {"403"}
      [] OTHER -> {"another status"}

\* Every request asks the provider again, and sends nothing when it fails; what the
\* transport itself adds (its protocol version) counts before all of it.
SentHeaders(b, provided, transport) ==
    {Preferring(transport, h) : h \in UNION {WireHeaders(b, map) : map \in provided}}

\* The text of a challenge, or that it is no text; "scheme" for any that has none
\* of the words a hint looks for.
Challenged(answer) ==
    IF answer.challenge = "no text" THEN {} ELSE {answer.challenge}

GetStream(answer) ==
    IF answer.status = 405 THEN Reply("no stream")
    ELSE IF answer.status >= 400 THEN Failure(StatusWords(answer.status))
    ELSE IF answer.type \in {"sse", "json"} THEN Reply("stream")
    ELSE Failure({})

DeleteSession(answer) ==
    IF answer.status >= 400 /\ answer.status # 405 THEN Failure(StatusWords(answer.status))
    ELSE Reply("deleted")

\* A message that cannot be read is as good as none.
Success(answer) ==
    IF answer.type = "sse" THEN Reply("stream")
    ELSE IF answer.type # "json" THEN Failure({})
    ELSE IF answer.message THEN Reply("message")
    ELSE Reply("accepted")

\* An error may be a message of the server, and is passed on as such.
PostMessage(answer, attached) ==
    IF answer.status \in {401, 403} /\ answer.challenge # "none" THEN Failure(Challenged(answer))
    ELSE IF answer.status \in {202, 204} THEN Reply("accepted")
    ELSE IF answer.status = 404 /\ attached THEN Reply("session expired")
    ELSE IF IsSuccess(answer.status) THEN Success(answer)
    ELSE IF answer.type = "json" /\ answer.message THEN Reply("message")
    ELSE Failure(StatusWords(answer.status) \cup answer.words)

\* The limit is on the head of an answer, not on the stream that follows it.
Limited(b, answer, outcome) ==
    IF <<"timeout">> \in DOMAIN b.settings /\ answer.late THEN Failure({"timed out"}) ELSE outcome

\* Which of two texts a failed connection ends with.
SeemsToNeedLogin(failure) == failure.says \cap HintWords # {}

-----------------------------------------------------------------------------
(* Properties *)

\* What counts for a request: the transport before the provider, the provider before
\* the configuration; and without the provider's answer nothing is sent.
HeadersRank(b, provided, transport) ==
    /\ provided = {} <=> SentHeaders(b, provided, transport) = {}
    /\ \A map \in provided, h \in SentHeaders(b, provided, transport) :
           /\ \A id \in DOMAIN transport : h[id] = transport[id]
           /\ \A id \in Ids(map) \ DOMAIN transport :
                  \E name \in DOMAIN map : name.id = id /\ h[id] = map[name]
           /\ \A name \in NamesOf(b, "header") : name.id \in DOMAIN h

\* A lost session is always noticed, so that a new one is begun, and only where there
\* was one; nothing but a success or the server's own message counts as an answer.
AnswersAreRead(answer) ==
    \A attached \in BOOLEAN :
        LET outcome == PostMessage(answer, attached)
        IN /\ outcome.is = "session expired" <=> attached /\ answer.status = 404
           /\ outcome.is \in {"accepted", "stream"} => IsSuccess(answer.status)
           /\ outcome.is = "message" => answer.message
           /\ outcome.is # "failure" => answer.status \notin {401, 403} \/ answer.message
           /\ DeleteSession(answer).is = "failure" => outcome.is \notin {"accepted", "stream"}

\* Who must log in is told so, unless the server's challenge hides the status; and
\* nobody is told so over a server that merely fails.
HintsAreRight(answer) ==
    LET outcome == PostMessage(answer, FALSE)
    IN outcome.is = "failure" =>
           /\ answer.status \in {401, 403} /\ answer.challenge = "none" => SeemsToNeedLogin(outcome)
           /\ SeemsToNeedLogin(outcome) /\ answer.words = {} => answer.status \in {401, 403}

\* A stream that has begun is not cut off, a silent server is given up: only where
\* there is a limit.
LimitsAreKept(b, answer) ==
    \A outcome \in {PostMessage(answer, TRUE), GetStream(answer), DeleteSession(answer)} :
        Limited(b, answer, outcome) # outcome <=>
            <<"timeout">> \in DOMAIN b.settings /\ answer.late

HttpAgreesFor(backends, answers, maps, transport) ==
    /\ \A b \in {c \in backends : c.provider}, provided \in {{}} \cup {{map} : map \in maps} :
           HeadersRank(b, provided, transport)
    /\ \A answer \in answers :
           /\ AnswersAreRead(answer) /\ HintsAreRight(answer)
           /\ \A b \in backends : LimitsAreKept(b, answer)
===============================================================================
