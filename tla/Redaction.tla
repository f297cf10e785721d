------------------------------ MODULE Redaction ------------------------------
(***************************************************************************)
(* What leaves the process when a request fails: the error in the log      *)
(* (serializeError, redactLogArguments) and in Sentry (sentryBeforeSend),  *)
(* the request with it, and the transactions.  What the visitor has typed  *)
(* must not be in them, nor the token of a feed; what explains the failure *)
(* must.                                                                   *)
(*                                                                         *)
(* A text is a sequence of pieces: "sql", "params:" (the line before the   *)
(* bound values), "typed" (by the visitor), "frame" (a line of a stack),   *)
(* "reason" (what PostgreSQL says), "filtered" (a piece that is masked; of *)
(* several in a row the code makes one).  A URL is one of segments.        *)
(***************************************************************************)
EXTENDS Naturals, Sequences, SequencesExt, FiniteSets, FiniteSetsExt

CONSTANTS
    Values,   \* bound: what is typed; it may look like a line of a stack
    Urls,     \* bound: the URLs, of "path", "feed", "token", "other", "query"
    Paths,    \* bound: where a body holds a value, by keys
    Nothing

VARIABLE failure   \* the request that has just failed, or Nothing

Kinds == {"query", "wrapped", "copied"}
Failure == [kind : Kinds, typed : Values, url : Urls, body : SUBSET Paths, json : BOOLEAN]

RedactionAssumption ==
    /\ Values \subseteq Seq({"typed", "frame", "params:"})
    /\ Urls \subseteq Seq({"path", "feed", "token", "other", "query"})
    /\ Nothing \notin Values

Init == failure = Nothing

\* A request ends in an error of the server, and is answered.
Fail == failure = Nothing /\ failure' \in Failure
Settle == failure # Nothing /\ failure' = Nothing
Next == Fail \/ Settle
Spec == Init /\ [][Next]_failure

-----------------------------------------------------------------------------
\* DrizzleQueryError, caused by an error of PostgreSQL.
QueryMessage(typed) == <<"sql", "params:">> \o typed
QueryStack(typed) == QueryMessage(typed) \o <<"frame">>

\* pino adds the causes to the message and to the stack.  An error that wraps
\* a query error has no params of its own, nor has one that is made anew for a
\* log call with its message and its stack as strings.
Params(f) == IF f.kind = "query" THEN f.typed ELSE Nothing
Message(f) == QueryMessage(f.typed) \o <<"reason">>
Stack(f) ==
    CASE f.kind = "query" -> QueryStack(f.typed) \o <<"reason", "frame">>
      [] f.kind = "wrapped" -> <<"frame">> \o QueryStack(f.typed) \o <<"reason", "frame">>
      [] f.kind = "copied" -> QueryStack(f.typed)

First(piece, text) == Min({i \in DOMAIN text : text[i] = piece})

\* redactQueryParams of a message: the values run to its end.
MaskToEnd(text) ==
    IF Contains(text, "params:")
    THEN SubSeq(text, 1, First("params:", text)) \o <<"filtered">>
    ELSE text

\* redactQueryParams of a stack: they run to the next frame.
InParams(text, i) ==
    \E j \in 1..(i - 1) : text[j] = "params:" /\ \A k \in (j + 1)..i : text[k] # "frame"

MaskToFrame(text) == [i \in DOMAIN text |-> IF InParams(text, i) THEN "filtered" ELSE text[i]]

\* Mutant: values that are known are not treated apart.
NeverExact(f) == FALSE

\* scrubSerializedError: values that are known are replaced where they are.
Exact(f) == Params(f) # Nothing

\* The values follow a "params:" of the text.
ParamsAt(f, text, j) ==
    /\ j + Len(Params(f)) <= Len(text)
    /\ text[j] = "params:"
    /\ \A k \in DOMAIN Params(f) : text[j + k] = Params(f)[k]

MaskExact(f, text) ==
    [i \in DOMAIN text |->
        IF \E j \in 1..(i - 1) : ParamsAt(f, text, j) /\ i <= j + Len(Params(f))
        THEN "filtered" ELSE text[i]]

\* The strings of a log call are masked to their end too (redactLogArguments).
LoggedMessage(f) == IF Exact(f) THEN MaskExact(f, Message(f)) ELSE MaskToEnd(Message(f))

LoggedStack(f) == IF Exact(f) THEN MaskExact(f, Stack(f)) ELSE MaskToFrame(Stack(f))

\* scrubExceptionValues: one message for each error of the chain.
SentryMessages(f) == {MaskToEnd(QueryMessage(f.typed)), MaskToEnd(<<"reason">>)}

-----------------------------------------------------------------------------
\* redactUrl: whatever follows the path of the feed, and a token anywhere.
RedactUrl(url) ==
    LET cut == IF Contains(url, "feed")
               THEN SubSeq(url, 1, First("feed", url)) \o <<"filtered">> ELSE url
    IN  [i \in DOMAIN cut |-> IF cut[i] = "token" THEN "filtered" ELSE cut[i]]

StripQueryAndFragment(url) ==
    IF Contains(url, "query") THEN SubSeq(url, 1, First("query", url) - 1) ELSE url

\* serializeRequest: of a request, the log has only its URL.
LoggedUrl(url) == RedactUrl(StripQueryAndFragment(url))

\* HttpExceptionFilter logs the path of a request that failed.
LoggedPath(url) == StripQueryAndFragment(RedactUrl(url))

\* sentryBeforeSendTransaction drops those of the feed (which
\* isUntracedIncomingRequest does not even begin) and masks the fields of the
\* others, those of their spans too.
IsFeedUrl(url) == RedactUrl(url) # url
TransactionUrls(url, inSpan) ==
    IF IsFeedUrl(url) THEN {} ELSE {RedactUrl(url), RedactUrl(inSpan)}

\* SENSITIVE_BODY_FIELDS, at any depth; a body that is not JSON is masked.
Sensitive(path) == Contains(path, "email")
ScrubBody(f) ==
    IF f.json THEN {[at |-> path, value |-> IF Sensitive(path) THEN "filtered" ELSE "kept"] :
                       path \in f.body}
    ELSE {[at |-> <<>>, value |-> "filtered"]}

\* sentryBeforeSend: no cookies, no secret headers, no query, no IP address.
SentryRequest(f) == [url |-> RedactUrl(StripQueryAndFragment(f.url)), data |-> ScrubBody(f)]

-----------------------------------------------------------------------------
TypeOK == failure \in Failure \cup {Nothing}

Pieced(texts) == UNION {Range(text) : text \in texts}
Frames(text) == Cardinality({i \in DOMAIN text : text[i] = "frame"})

\* Nothing that was typed is left, unless it looks like a line of a stack in
\* the stack of an error whose values are not known.
NothingTypedIsLeft(f) ==
    /\ "typed" \notin Pieced({LoggedMessage(f)} \cup SentryMessages(f))
    /\ "typed" \in Range(LoggedStack(f)) => f.kind # "query" /\ Contains(f.typed, "frame")

\* The query, the reason and the frames that are not typed are left, whatever
\* was typed; a message whose values are not known loses the reason.
FailureIsExplained(f) ==
    LET traced == Frames(Stack(f)) - Frames(f.typed)
    IN  /\ "sql" \in Range(LoggedMessage(f)) \cap Range(LoggedStack(f))
        /\ "reason" \in Pieced(SentryMessages(f))
        /\ Frames(LoggedStack(f)) >= traced
        /\ f.kind = "query" =>
              "reason" \in Range(LoggedMessage(f)) /\ Frames(LoggedStack(f)) = traced

\* A URL that is left has no query and no token, and the rest of its path.
UrlIsReported(f) ==
    /\ \A url \in {LoggedUrl(f.url), LoggedPath(f.url), SentryRequest(f).url} :
          /\ {"token", "query"} \cap Range(url) = {}
          /\ RedactUrl(url) = url
          /\ \A i \in DOMAIN url : url[i] \in {f.url[i], "filtered"}
    /\ \A inSpan \in Urls : \A url \in TransactionUrls(f.url, inSpan) : "token" \notin Range(url)
    /\ ~Contains(f.url, "token") /\ ~Contains(f.url, "feed") =>
          f.url \in TransactionUrls(f.url, f.url)

\* A value of a body is left only under keys that are all harmless.
BodyIsReported(f) ==
    \A leaf \in SentryRequest(f).data : leaf.value = "kept" => f.json /\ ~Sensitive(leaf.at)

\* What is reported of a failed request explains it and tells nothing that
\* was typed and no token, wherever they were.
ReportsAreRight ==
    failure # Nothing =>
        /\ NothingTypedIsLeft(failure) /\ FailureIsExplained(failure)
        /\ UrlIsReported(failure) /\ BodyIsReported(failure)
=============================================================================
