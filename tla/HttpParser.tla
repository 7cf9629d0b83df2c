----------------------------- MODULE HttpParser -----------------------------
(***************************************************************************)
(* http_parser_execute and the functions it is made of.                    *)
(*                                                                         *)
(* A stream of characters is given to the parser in pieces: an Execute     *)
(* begins a call, Leftover ends it where the piece ends, and between them  *)
(* each action is one `case' of the switch for the character at p.  A      *)
(* piece may end behind any character.  REEXECUTE keeps p and changes the  *)
(* state; the loops over header fields and values run without going back   *)
(* to the switch, from `start'.  A callback may pause the parser, and the  *)
(* embedder then calls again with what was not consumed.                   *)
(***************************************************************************)
EXTENDS HttpUrl

CONSTANTS
    Streams,     \* what may arrive: [type, skip, text, told, errno]
    HTTP_MAX_HEADER_SIZE,
    ULLONG_MAX,  \* content_length is kept modulo this plus one
    MaxCuts,     \* bound: pieces but one
    MaxPauses    \* bound: times the parser is paused

ASSUME ParserAssumption ==
    /\ {HTTP_MAX_HEADER_SIZE, ULLONG_MAX, MaxCuts, MaxPauses} \subseteq Nat
    /\ ULLONG_MAX >= 16 /\ FieldRange \in Nat \ {0}
ASSUME StreamsAssumption ==
    \A s \in Streams : s.type \in {"REQUEST", "RESPONSE", "BOTH"} /\ Len(s.text) \in Nat

VARIABLES
    stream,   \* the stream of this behaviour
    parser,   \* struct http_parser
    p,        \* position of the character to be read
    phase,    \* where http_parser_execute is
    start,    \* where the loop over a field or value began
    marks,    \* header_field_mark, ...: position or 0
    out,      \* history: the callbacks made, pieces of one text put together
    cuts,     \* history: pieces that have ended
    extra,    \* history: characters counted twice, or for the message before
    began,    \* history: where the header of this message began
    pauses    \* history

history == <<cuts, extra, began, pauses>>
vars == <<stream, parser, p, phase, start, marks, out, history>>

Text_ == stream.text
ch == At(Text_, p)
More == p <= Len(Text_)

\* "idle": not in a call; "fetch": at the head of the loop over the piece;
\* "byte": in the switch; "field", "value": in the inner loops; "cut": the
\* inner loop met the end of the piece; "upgraded": the rest of the stream is
\* another protocol's; "closed": the end of the stream was announced.
Phases == {"idle", "fetch", "byte", "field", "value", "cut", "upgraded", "closed"}

BodyStates == {"s_chunk_data", "s_chunk_data_almost_done", "s_chunk_data_done",
               "s_body_identity", "s_body_identity_eof", "s_message_done"}
ParsingHeader(state) == state \notin BodyStates

UrlStates == {"s_req_path", "s_req_schema", "s_req_schema_slash",
              "s_req_schema_slash_slash", "s_req_server_start", "s_req_server",
              "s_req_server_with_at", "s_req_query_string_start",
              "s_req_query_string", "s_req_fragment_start", "s_req_fragment"}

DataKinds == {"header_field", "header_value", "url", "body", "status"}
NoMarks == [kind \in DataKinds |-> 0]

-----------------------------------------------------------------------------
\* Decisions about a message.

NeedsEof(ps) ==
    /\ ps.type # "REQUEST"
    /\ ps.status_code \div 100 # 1 /\ ps.status_code \notin {204, 304}
    /\ {"SKIPBODY", "CHUNKED"} \cap ps.flags = {}
    /\ ps.content_length = ULLONG_MAX

WrongShouldKeepAlive(ps) ==
    IF ps.http_major > 0 /\ ps.http_minor > 0
    THEN "CONNECTION_CLOSE" \notin ps.flags /\ ~NeedsEof(ps)
    ELSE ~NeedsEof(ps)
ShouldKeepAlive(ps) ==
    /\ IF ps.http_major > 0 /\ ps.http_minor > 0
       THEN "CONNECTION_CLOSE" \notin ps.flags
       ELSE "CONNECTION_KEEP_ALIVE" \in ps.flags
    /\ ~NeedsEof(ps)

StartState(type) == CASE type = "REQUEST" -> "s_start_req"
                      [] type = "RESPONSE" -> "s_start_res"
                      [] type = "BOTH" -> "s_start_req_or_res"

NewMessage(ps) == IF ~ShouldKeepAlive(ps) THEN "s_dead"
                  ELSE IF ps.type = "REQUEST" THEN "s_start_req" ELSE "s_start_res"

\* http_parser_init; the members it clears that are read before they are set.
ParserInit(type) ==
    [type |-> type, state |-> StartState(type), flags |-> {},
     header_state |-> "h_general", index |-> 0, nread |-> 0,
     content_length |-> 0, http_major |-> 0, http_minor |-> 0,
     status_code |-> 0, method |-> "DELETE", upgrade |-> FALSE,
     http_errno |-> "OK"]

Init ==
    /\ stream \in Streams
    /\ parser = ParserInit(stream.type)
    /\ p = 1 /\ phase = "idle" /\ start = 0
    /\ marks = NoMarks /\ out = <<>>
    /\ cuts = 0 /\ extra = 0 /\ began = 1 /\ pauses = 0

-----------------------------------------------------------------------------
\* How a step ends.

Steady == UNCHANGED <<stream, start, cuts>>
Same == Steady /\ UNCHANGED <<extra, began>>
Quiet == UNCHANGED <<out, pauses>>

\* Leave the call: what is marked is forgotten.
Return(ps) == parser' = ps /\ phase' = "idle" /\ p' = p /\ marks' = NoMarks
Fail(errno) == Return([parser EXCEPT !.http_errno = errno]) /\ Quiet /\ Same

\* `break': the next character.  REEXECUTE: this one again.
Consume(ps) == /\ parser' = ps /\ p' = p + 1 /\ phase' = "fetch"
               /\ UNCHANGED marks /\ Quiet /\ Same
Reexecute(ps) == /\ parser' = ps /\ phase' = "byte"
                 /\ UNCHANGED <<p, marks>> /\ Quiet /\ Same

In(state) == phase = "byte" /\ parser.state = state
To(state) == [parser EXCEPT !.state = state]

\* STRICT_CHECK(~ok), and otherwise step.
Strict(ok, step) == IF ok THEN step ELSE Fail("STRICT")

\* What a listener has heard once it hears text.
Heard(kind, text) ==
    IF kind \in DataKinds /\ out # <<>> /\ Last(out).kind = kind
    THEN [out EXCEPT ![Len(out)].text = @ \o text]
    ELSE Append(out, [kind |-> kind, text |-> text])

\* After a callback: go on at q, or return q as consumed with errno set.  An
\* upgraded connection, or one that has ended, is not given to the parser again.
Resumable(ps, q, next, left) ==
    /\ p' = q
    /\ \/ parser' = ps /\ phase' = next /\ marks' = left /\ UNCHANGED pauses
       \/ /\ pauses < MaxPauses /\ pauses' = pauses + 1
          /\ parser' = [ps EXCEPT !.http_errno = "PAUSED"]
          /\ phase' = (IF next \in {"upgraded", "closed"} THEN next ELSE "idle")
          /\ marks' = NoMarks

\* CALLBACK_NOTIFY and CALLBACK_DATA, the latter with the text from the mark to
\* upto, if there is a mark.
Notify(kind, ps, q, next) ==
    out' = Heard(kind, NoText) /\ Resumable(ps, q, next, marks)
Data(kind, upto, ps, q, next) ==
    LET left == [marks EXCEPT ![kind] = 0]
    IN  IF marks[kind] = 0
        THEN /\ parser' = ps /\ p' = q /\ phase' = next /\ marks' = left
             /\ Quiet
        ELSE /\ out' = Heard(kind, SubSeq(Text_, marks[kind], upto - 1))
             /\ Resumable(ps, q, next, left)

\* After a callback that does not consume the character: when the parser is
\* paused, the character is given to it, and counted, again.
Twice == /\ extra' = IF pauses' > pauses THEN extra + 1 ELSE extra
         /\ Steady /\ UNCHANGED began

Marked(kind) == [marks EXCEPT ![kind] = IF @ = 0 THEN p ELSE @]

\* COUNT_HEADER_SIZE(v).
WrongCounted(ps, v) ==
    LET n == ps.nread + v
    IN  [ps EXCEPT !.nread = n,
                   !.http_errno = IF v = 1 /\ n > HTTP_MAX_HEADER_SIZE
                                  THEN "HEADER_OVERFLOW" ELSE @]
Counted(ps, v) ==
    LET n == ps.nread + v
    IN  [ps EXCEPT !.nread = n,
                   !.http_errno = IF n > HTTP_MAX_HEADER_SIZE
                                  THEN "HEADER_OVERFLOW" ELSE @]

-----------------------------------------------------------------------------
\* Calls.

\* The character at p is counted when a header is being read.
Fetched(left) ==
    LET ps == IF ParsingHeader(parser.state) THEN Counted(parser, 1) ELSE parser
    IN  IF ps.http_errno = "OK"
        THEN parser' = ps /\ phase' = "byte" /\ p' = p /\ marks' = left
        ELSE Return(ps)

\* A call with more of the stream takes up the text that is being read.
TakenUp(state) ==
    [NoMarks EXCEPT !.header_field = IF state = "s_header_field" THEN p ELSE 0,
                    !.header_value = IF state = "s_header_value" THEN p ELSE 0,
                    !.url = IF state \in UrlStates THEN p ELSE 0,
                    !.status = IF state = "s_res_status" THEN p ELSE 0]

Execute ==
    /\ phase = "idle" /\ parser.http_errno = "OK" /\ More
    /\ Fetched(TakenUp(parser.state))
    /\ Quiet /\ Same

Fetch == phase = "fetch" /\ More /\ Fetched(marks) /\ Quiet /\ Same

\* The end of the piece: what is marked is announced.
Leftover ==
    /\ \/ phase = "cut"
       \/ phase = "fetch" /\ (More => cuts < MaxCuts)
    /\ cuts' = IF phase = "fetch" /\ More THEN cuts + 1 ELSE cuts
    /\ UNCHANGED <<stream, start, extra, began>>
    /\ IF \E kind \in DataKinds : marks[kind] # 0
       THEN LET kind == CHOOSE k \in DataKinds : marks[k] # 0
            IN  Data(kind, p, parser, p, "idle")
       ELSE Return(parser) /\ Quiet

\* http_parser_pause(0).
Resume ==
    /\ phase = "idle" /\ parser.http_errno = "PAUSED"
    /\ parser' = [parser EXCEPT !.http_errno = "OK"]
    /\ UNCHANGED <<stream, p, phase, start, marks, out, history>>

\* A call with nothing: the stream is at its end.
Eof ==
    /\ phase = "idle" /\ parser.http_errno = "OK" /\ ~More
    /\ CASE parser.state = "s_body_identity_eof" ->
                Notify("message_complete", parser, p, "closed")
         [] parser.state \in {"s_dead", "s_start_req_or_res", "s_start_res", "s_start_req"} ->
                /\ phase' = "closed"
                /\ UNCHANGED <<parser, p, marks>> /\ Quiet
         [] OTHER ->
                /\ parser' = [parser EXCEPT !.http_errno = "INVALID_EOF_STATE"]
                /\ phase' = "closed" /\ UNCHANGED <<p, marks>> /\ Quiet
    /\ Same

-----------------------------------------------------------------------------
\* Between messages, and the first line.

\* What a message starts with: flags = 0, content_length = ULLONG_MAX.
Fresh(ps) == [ps EXCEPT !.flags = {}, !.content_length = ULLONG_MAX]

Dead ==
    /\ In("s_dead")
    /\ IF ch \in LineEnd THEN Consume(parser) ELSE Fail("CLOSED_CONNECTION")

WrongStartReqOrRes ==
    /\ In("s_start_req_or_res")
    /\ CASE ch \in LineEnd -> Consume(parser)
         [] ch = "H" -> /\ Notify("message_begin",
                               [Fresh(parser) EXCEPT !.state = "s_res_or_resp_H"],
                               p + 1, "fetch")
                        /\ Same
         [] OTHER -> Reexecute([Fresh(parser) EXCEPT !.type = "REQUEST"])
StartReqOrRes ==
    /\ In("s_start_req_or_res")
    /\ CASE ch \in LineEnd -> Consume(parser)
         [] ch = "H" -> /\ Notify("message_begin",
                               [Fresh(parser) EXCEPT !.state = "s_res_or_resp_H"],
                               p + 1, "fetch")
                        /\ Same
         [] OTHER -> Reexecute([Fresh(parser) EXCEPT !.type = "REQUEST",
                                                     !.state = "s_start_req"])

ResOrRespH ==
    /\ In("s_res_or_resp_H")
    /\ CASE ch = "T" -> Consume([To("s_res_HT") EXCEPT !.type = "RESPONSE"])
         [] ch = "E" -> Consume([To("s_req_method") EXCEPT !.type = "REQUEST",
                                     !.method = "HEAD", !.index = 2])
         [] OTHER -> Fail("INVALID_CONSTANT")

\* message_begin is announced for a line end before the message too.
StartRes ==
    /\ In("s_start_res")
    /\ IF ch \in {"H"} \cup LineEnd
       THEN /\ Notify("message_begin",
                [Fresh(parser) EXCEPT !.state = IF ch = "H" THEN "s_res_H" ELSE @],
                p + 1, "fetch")
            /\ Same
       ELSE Fail("INVALID_CONSTANT")

\* States that wait for one character, and where it leads.
Literal == [s_res_H |-> <<"T", "s_res_HT">>,
            s_res_HT |-> <<"T", "s_res_HTT">>,
            s_res_HTT |-> <<"P", "s_res_HTTP">>,
            s_res_HTTP |-> <<"/", "s_res_first_http_major">>,
            s_res_line_almost_done |-> <<LF, "s_header_field_start">>,
            s_req_http_H |-> <<"T", "s_req_http_HT">>,
            s_req_http_HT |-> <<"T", "s_req_http_HTT">>,
            s_req_http_HTT |-> <<"P", "s_req_http_HTTP">>,
            s_req_http_HTTP |-> <<"/", "s_req_first_http_major">>,
            s_header_almost_done |-> <<LF, "s_header_value_lws">>,
            s_header_value_discard_ws_almost_done |-> <<LF, "s_header_value_discard_lws">>]
ReadLiteral ==
    /\ phase = "byte" /\ parser.state \in DOMAIN Literal
    /\ LET want == Literal[parser.state]
       IN  Strict(ch = want[1], Consume(To(want[2])))

MaxVersion == 999

\* Numbers of the first line: the digit, and what ends the number.
Number(ps, field) == 10 * ps[field] + DigitValue(ch)
FirstMajor ==
    /\ phase = "byte"
    /\ parser.state \in {"s_res_first_http_major", "s_req_first_http_major"}
    /\ IF ch \in IsNum /\ ~(parser.state = "s_req_first_http_major" /\ ch = "0")
       THEN Consume([parser EXCEPT !.http_major = DigitValue(ch),
                         !.state = IF @ = "s_res_first_http_major"
                                   THEN "s_res_http_major" ELSE "s_req_http_major"])
       ELSE Fail("INVALID_VERSION")

Major ==
    /\ phase = "byte" /\ parser.state \in {"s_res_http_major", "s_req_http_major"}
    /\ CASE ch = "." -> Consume(To(IF parser.state = "s_res_http_major"
                                   THEN "s_res_first_http_minor"
                                   ELSE "s_req_first_http_minor"))
         [] ch \in IsNum /\ Number(parser, "http_major") <= MaxVersion ->
                Consume([parser EXCEPT !.http_major = Number(parser, "http_major")])
         [] OTHER -> Fail("INVALID_VERSION")

FirstMinor ==
    /\ phase = "byte"
    /\ parser.state \in {"s_res_first_http_minor", "s_req_first_http_minor"}
    /\ IF ch \in IsNum
       THEN Consume([parser EXCEPT !.http_minor = DigitValue(ch),
                         !.state = IF @ = "s_res_first_http_minor"
                                   THEN "s_res_http_minor" ELSE "s_req_http_minor"])
       ELSE Fail("INVALID_VERSION")

Minor ==
    /\ phase = "byte" /\ parser.state \in {"s_res_http_minor", "s_req_http_minor"}
    /\ CASE parser.state = "s_res_http_minor" /\ ch = " " ->
                Consume(To("s_res_first_status_code"))
         [] parser.state = "s_req_http_minor" /\ ch = CR ->
                Consume(To("s_req_line_almost_done"))
         [] parser.state = "s_req_http_minor" /\ ch = LF ->
                Consume(To("s_header_field_start"))
         [] ch \in IsNum /\ Number(parser, "http_minor") <= MaxVersion ->
                Consume([parser EXCEPT !.http_minor = Number(parser, "http_minor")])
         [] OTHER -> Fail("INVALID_VERSION")

FirstStatusCode ==
    /\ In("s_res_first_status_code")
    /\ CASE ch \in IsNum -> Consume([To("s_res_status_code") EXCEPT
                                         !.status_code = DigitValue(ch)])
         [] ch = " " -> Consume(parser)
         [] OTHER -> Fail("INVALID_STATUS")

StatusCode ==
    /\ In("s_res_status_code")
    /\ CASE ch = " " -> Consume(To("s_res_status_start"))
         [] ch = CR -> Consume(To("s_res_line_almost_done"))
         [] ch = LF -> Consume(To("s_header_field_start"))
         [] ch \in IsNum /\ Number(parser, "status_code") <= MaxVersion ->
                Consume([parser EXCEPT !.status_code = Number(parser, "status_code")])
         [] OTHER -> Fail("INVALID_STATUS")

LineEnded == IF ch = CR THEN "s_res_line_almost_done" ELSE "s_header_field_start"
StatusStart ==
    /\ In("s_res_status_start")
    /\ IF ch \in LineEnd THEN Consume(To(LineEnded))
       ELSE /\ parser' = [To("s_res_status") EXCEPT !.index = 0]
            /\ marks' = Marked("status") /\ p' = p + 1 /\ phase' = "fetch"
            /\ Quiet /\ Same

Status ==
    /\ In("s_res_status")
    /\ IF ch \in LineEnd THEN Data("status", p, To(LineEnded), p + 1, "fetch") /\ Same
                         ELSE Consume(parser)

-----------------------------------------------------------------------------
\* The request line.

\* method_strings, by what is in it: MSEARCH's string was spaced out.
FirstMethod == [A |-> "ACL", B |-> "BIND", C |-> "CONNECT", D |-> "DELETE",
    G |-> "GET", H |-> "HEAD", L |-> "LOCK", M |-> "MKCOL", N |-> "NOTIFY",
    O |-> "OPTIONS", P |-> "POST", R |-> "REPORT", S |-> "SUBSCRIBE",
    T |-> "TRACE", U |-> "UNLOCK"]

StartReq ==
    /\ In("s_start_req")
    /\ CASE ch \in LineEnd -> Consume(parser)
         [] ch \in DOMAIN FirstMethod ->
                /\ Notify("message_begin",
                       [Fresh(parser) EXCEPT !.method = FirstMethod[ch],
                            !.index = 1, !.state = "s_req_method"],
                       p + 1, "fetch")
                /\ Same
         [] OTHER -> Fail("INVALID_METHOD")

\* Where a character that the method guessed so far does not have there makes
\* it another: <<method, index, character, other method>>.
OtherMethod ==
    {<<"CONNECT", 1, "H", "CHECKOUT">>, <<"CONNECT", 2, "P", "COPY">>,
     <<"MKCOL", 1, "O", "MOVE">>, <<"MKCOL", 1, "E", "MERGE">>,
     <<"MKCOL", 1, "-", "M - SEARCH">>, <<"MKCOL", 2, "A", "MKACTIVITY">>,
     <<"MKCOL", 3, "A", "MKCALENDAR">>, <<"SUBSCRIBE", 1, "E", "SEARCH">>,
     <<"REPORT", 2, "B", "REBIND">>, <<"POST", 1, "R", "PROPFIND">>,
     <<"POST", 1, "U", "PUT">>, <<"POST", 1, "A", "PATCH">>,
     <<"LOCK", 1, "I", "LINK">>, <<"PUT", 2, "R", "PURGE">>,
     <<"UNLOCK", 2, "S", "UNSUBSCRIBE">>, <<"UNLOCK", 2, "B", "UNBIND">>,
     <<"PROPFIND", 4, "P", "PROPPATCH">>, <<"UNLOCK", 3, "I", "UNLINK">>}

\* The methods whose second character is looked at: any other method takes
\* whatever is there.
SecondCharacterChecked == {"CONNECT", "MKCOL", "SUBSCRIBE", "REPORT", "POST", "LOCK"}

ReqMethod ==
    /\ In("s_req_method")
    /\ LET Spelt(method) == [parser EXCEPT !.method = method, !.index = @ + 1]
           index == parser.index
           ended == ch = " " /\ index = Len(parser.method)
           others == {o[4] : o \in {row \in OtherMethod :
                         SubSeq(row, 1, 3) = <<parser.method, index, ch>>}}
           unseen == index = 1 /\ parser.method \notin SecondCharacterChecked
           methods == IF ch = At(parser.method, index + 1) \/ (others = {} /\ unseen)
                      THEN {parser.method} ELSE others
       IN  CASE ended ->
                    Consume([Spelt(parser.method) EXCEPT !.state = "s_req_spaces_before_url"])
             [] ~ended /\ methods # {} -> \E method \in methods : Consume(Spelt(method))
             [] OTHER -> Fail("INVALID_METHOD")

\* A character of the URL, in state s.
UrlStep(s) ==
    LET state == UrlChar(s, ch)
    IN  IF state = UrlDead THEN Fail("INVALID_URL") ELSE Consume(To(state))

SpacesBeforeUrl ==
    /\ In("s_req_spaces_before_url")
    /\ LET s == IF parser.method = "CONNECT" THEN "s_req_server_start" ELSE parser.state
           state == UrlChar(s, ch)
       IN  CASE ch = " " -> Consume(parser)
             [] ch # " " /\ state = UrlDead -> Fail("INVALID_URL")
             [] OTHER -> /\ parser' = To(state) /\ marks' = Marked("url")
                         /\ p' = p + 1 /\ phase' = "fetch"
                         /\ Quiet /\ Same

\* Before the server no blank may end the URL; from the server on one does.
UrlBeginning ==
    /\ phase = "byte"
    /\ parser.state \in {"s_req_schema", "s_req_schema_slash",
                         "s_req_schema_slash_slash", "s_req_server_start"}
    /\ UrlStep(parser.state)

Url ==
    /\ phase = "byte"
    /\ parser.state \in {"s_req_server", "s_req_server_with_at", "s_req_path",
           "s_req_query_string_start", "s_req_query_string",
           "s_req_fragment_start", "s_req_fragment"}
    /\ CASE ch = " " -> Data("url", p, To("s_req_http_start"), p + 1, "fetch") /\ Same
         [] ch \in LineEnd ->
                /\ Data("url", p,
                       [parser EXCEPT !.http_major = 0, !.http_minor = 9,
                            !.state = IF ch = CR THEN "s_req_line_almost_done"
                                                 ELSE "s_header_field_start"],
                       p + 1, "fetch")
                /\ Same
         [] OTHER -> UrlStep(parser.state)

HttpStart ==
    /\ In("s_req_http_start")
    /\ CASE ch = "H" -> Consume(To("s_req_http_H"))
         [] ch = " " -> Consume(parser)
         [] OTHER -> Fail("INVALID_CONSTANT")

ReqLineAlmostDone ==
    /\ In("s_req_line_almost_done")
    /\ IF ch = LF THEN Consume(To("s_header_field_start")) ELSE Fail("LF_EXPECTED")

-----------------------------------------------------------------------------
\* Header fields.

HeaderFieldStart ==
    /\ In("s_header_field_start")
    /\ CASE ch = CR -> Consume(To("s_headers_almost_done"))
         [] ch = LF -> Reexecute(To("s_headers_almost_done"))
         [] ch \in IsToken ->
                /\ parser' = [To("s_header_field") EXCEPT !.index = 0,
                       !.header_state = CASE Lower(ch) = "c" -> "h_C"
                                          [] Lower(ch) = "p" -> "h_matching_proxy_connection"
                                          [] Lower(ch) = "t" -> "h_matching_transfer_encoding"
                                          [] Lower(ch) = "u" -> "h_matching_upgrade"
                                          [] OTHER -> "h_general"]
                /\ marks' = Marked("header_field") /\ p' = p + 1 /\ phase' = "fetch"
                /\ Quiet /\ Same
         [] OTHER -> Fail("INVALID_HEADER_TOKEN")

\* The names and values looked for: the word, what it means when it is
\* complete, and what a character that is not in it leads to.
Words == [h_matching_connection |-> <<"connection", "h_connection", "h_general">>,
    h_matching_proxy_connection |-> <<"proxy-connection", "h_connection", "h_general">>,
    h_matching_content_length |-> <<"content-length", "h_content_length", "h_general">>,
    h_matching_transfer_encoding |->
        <<"transfer-encoding", "h_transfer_encoding", "h_general">>,
    h_matching_upgrade |-> <<"upgrade", "h_upgrade", "h_general">>,
    h_matching_transfer_encoding_chunked |->
        <<"chunked", "h_transfer_encoding_chunked", "h_general">>,
    h_matching_connection_keep_alive |->
        <<"keep-alive", "h_connection_keep_alive", "h_matching_connection_token">>,
    h_matching_connection_close |->
        <<"close", "h_connection_close", "h_matching_connection_token">>,
    h_matching_connection_upgrade |->
        <<"upgrade", "h_connection_upgrade", "h_matching_connection_token">>]

Matched(ps) ==
    LET word == Words[ps.header_state]
        next == [ps EXCEPT !.index = @ + 1]
    IN  CASE Lower(ch) # At(word[1], next.index + 1) -> [next EXCEPT !.header_state = word[3]]
          [] Lower(ch) = At(word[1], next.index + 1) /\ next.index = Len(word[1]) - 1 ->
                 [next EXCEPT !.header_state = word[2]]
          [] OTHER -> next

\* One character of a name.
NameMatched(ps) ==
    LET next(c, state) == [ps EXCEPT !.index = @ + 1,
                               !.header_state = IF Lower(ch) = c THEN state ELSE "h_general"]
    IN  CASE ps.header_state = "h_general" -> ps
          [] ps.header_state = "h_C" -> next("o", "h_CO")
          [] ps.header_state = "h_CO" -> next("n", "h_CON")
          [] ps.header_state = "h_CON" ->
                 IF Lower(ch) = "n" THEN next("n", "h_matching_connection")
                                    ELSE next("t", "h_matching_content_length")
          [] ps.header_state \in DOMAIN Words -> Matched(ps)
          [] OTHER -> [ps EXCEPT !.header_state = "h_general"]

\* From the switch into the loop over the name or the value.
EnterLoop ==
    /\ phase = "byte" /\ parser.state \in {"s_header_field", "s_header_value"}
    /\ phase' = IF parser.state = "s_header_field" THEN "field" ELSE "value"
    /\ start' = p
    /\ UNCHANGED <<stream, parser, p, marks, out, history>>

FieldChar ==
    /\ phase = "field" /\ More /\ ch \in IsToken
    /\ parser' = NameMatched(parser) /\ p' = p + 1
    /\ UNCHANGED <<phase, marks>> /\ Quiet /\ Same

FieldEnd ==
    /\ phase = "field" /\ More /\ ch \notin IsToken
    /\ LET ps == Counted(parser, p - start)
       IN  CASE ps.http_errno # "OK" -> Return(ps) /\ Quiet
             [] ps.http_errno = "OK" /\ ch = ":" ->
                    Data("header_field", p,
                         [ps EXCEPT !.state = "s_header_value_discard_ws"], p + 1, "fetch")
             [] OTHER -> /\ Return([ps EXCEPT !.http_errno = "INVALID_HEADER_TOKEN"])
                         /\ Quiet
    /\ Same

\* The loop meets the end of the piece at q: the character it began with has
\* been counted already, and is counted again.
LoopCut(q) ==
    /\ q > start /\ (q <= Len(Text_) => cuts < MaxCuts)
    /\ cuts' = IF q <= Len(Text_) THEN cuts + 1 ELSE cuts
    /\ extra' = extra + 1
    /\ LET ps == Counted(parser, q - start)
       IN  /\ parser' = ps /\ p' = q
           /\ IF ps.http_errno = "OK" THEN phase' = "cut" /\ UNCHANGED marks
                                      ELSE phase' = "idle" /\ marks' = NoMarks
    /\ Quiet /\ UNCHANGED <<stream, start, began>>

FieldCut == phase = "field" /\ LoopCut(p)

\* What the field's name makes of the first character of its value.
ValueBegun ==
    LET ps == [To("s_header_value") EXCEPT !.index = 0]
        becomes(state) == [ps EXCEPT !.header_state = state]
        c == Lower(ch)
    IN  CASE ps.header_state = "h_upgrade" ->
                 [becomes("h_general") EXCEPT !.flags = @ \cup {"UPGRADE"}]
          [] ps.header_state = "h_transfer_encoding" ->
                 becomes(IF c = "c" THEN "h_matching_transfer_encoding_chunked"
                                    ELSE "h_general")
          [] ps.header_state = "h_content_length" ->
                 IF ch \in IsNum THEN [ps EXCEPT !.content_length = DigitValue(ch)]
                                 ELSE [ps EXCEPT !.http_errno = "INVALID_CONTENT_LENGTH"]
          [] ps.header_state = "h_connection" ->
                 becomes(CASE c = "k" -> "h_matching_connection_keep_alive"
                           [] c = "c" -> "h_matching_connection_close"
                           [] c = "u" -> "h_matching_connection_upgrade"
                           [] OTHER -> "h_matching_connection_token")
          [] ps.header_state = "h_matching_connection_token_start" -> ps
          [] OTHER -> becomes("h_general")

BeginValue ==
    IF ValueBegun.http_errno # "OK" THEN Return(ValueBegun) /\ Quiet /\ Same
    ELSE /\ parser' = ValueBegun /\ marks' = Marked("header_value")
         /\ p' = p + 1 /\ phase' = "fetch"
         /\ Quiet /\ Same

HeaderValueDiscardWs ==
    /\ In("s_header_value_discard_ws")
    /\ CASE ch \in Blank -> Consume(parser)
         [] ch = CR -> Consume(To("s_header_value_discard_ws_almost_done"))
         [] ch = LF -> Consume(To("s_header_value_discard_lws"))
         [] OTHER -> BeginValue

HeaderValueStart == In("s_header_value_start") /\ BeginValue

\* One character of a Content-Length: 10 * content_length would not fit is
\* tested before the sum is kept.
Sum(ps, base, digit) == (base * ps.content_length + digit) % (ULLONG_MAX + 1)
WrongTooLong(ps, base) == FALSE
TooLong(ps, base) == (ULLONG_MAX - base) \div base < ps.content_length
LengthDigit(ps) ==
    CASE ch = " " -> ps
      [] ch \in IsNum /\ ~TooLong(ps, 10) ->
             [ps EXCEPT !.content_length = Sum(ps, 10, DigitValue(ch))]
      [] OTHER -> [ps EXCEPT !.http_errno = "INVALID_CONTENT_LENGTH"]

ConnectionFlag == [h_connection_keep_alive |-> "CONNECTION_KEEP_ALIVE",
                   h_connection_close |-> "CONNECTION_CLOSE",
                   h_connection_upgrade |-> "CONNECTION_UPGRADE"]

\* One character of a value that matters.
ValueMatched(ps) ==
    LET becomes(state) == [ps EXCEPT !.header_state = state]
        c == Lower(ch)
    IN  CASE ps.header_state = "h_content_length" -> LengthDigit(ps)
          [] ps.header_state \in DOMAIN Words -> Matched(ps)
          [] ps.header_state = "h_matching_connection_token_start" ->
                 CASE c = "k" -> becomes("h_matching_connection_keep_alive")
                   [] c = "c" -> becomes("h_matching_connection_close")
                   [] c = "u" -> becomes("h_matching_connection_upgrade")
                   [] c \in IsToken \ {"k", "c", "u"} -> becomes("h_matching_connection_token")
                   [] c \in Blank -> ps
                   [] OTHER -> becomes("h_general")
          [] ps.header_state = "h_matching_connection_token" ->
                 IF ch = "," THEN [becomes("h_matching_connection_token_start")
                                       EXCEPT !.index = 0]
                             ELSE ps
          [] ps.header_state = "h_transfer_encoding_chunked" ->
                 IF ch = " " THEN ps ELSE becomes("h_general")
          [] ps.header_state \in DOMAIN ConnectionFlag ->
                 CASE ch = "," -> [becomes("h_matching_connection_token_start")
                                       EXCEPT !.index = 0,
                                              !.flags = @ \cup {ConnectionFlag[ps.header_state]}]
                   [] ch = " " -> ps
                   [] OTHER -> becomes("h_matching_connection_token")

ValueChar ==
    /\ phase = "value" /\ More /\ ch \notin LineEnd
    /\ parser.header_state # "h_general"
    /\ LET ps == ValueMatched(parser)
       IN  IF ps.http_errno = "OK"
           THEN /\ parser' = ps /\ p' = p + 1
                /\ UNCHANGED <<phase, marks>>
           ELSE Return(ps)
    /\ Quiet /\ Same

\* Where memchr finds the end of the line, or the end of the stream.
LineEndFrom(q) ==
    LET ends == {i \in q..Len(Text_) : At(Text_, i) \in LineEnd}
    IN  IF ends = {} THEN Len(Text_) + 1 ELSE CHOOSE i \in ends : \A j \in ends : i <= j

\* memchr looks at no more than HTTP_MAX_HEADER_SIZE characters.
ValueSkip ==
    /\ phase = "value" /\ More /\ ch \notin LineEnd
    /\ parser.header_state = "h_general"
    /\ LineEndFrom(p) - p < HTTP_MAX_HEADER_SIZE
    /\ p' = LineEndFrom(p)
    /\ UNCHANGED <<parser, phase, marks>> /\ Quiet /\ Same

ValueCut ==
    /\ phase = "value"
    /\ \E q \in p..(Len(Text_) + 1) :
        /\ LoopCut(q)
        /\ q > p => /\ parser.header_state = "h_general" /\ ch \notin LineEnd
                    /\ q <= LineEndFrom(p) \/ LineEndFrom(p) - p >= HTTP_MAX_HEADER_SIZE

\* A carriage return: the callback comes before the count.
ValueCR ==
    /\ phase = "value" /\ More /\ ch = CR
    /\ out' = Heard("header_value", SubSeq(Text_, marks.header_value, p - 1))
    /\ LET ended == To("s_header_almost_done")
           ps == Counted(ended, p - start)
       IN  \/ /\ IF ps.http_errno = "OK"
                 THEN /\ parser' = ps /\ p' = p + 1 /\ phase' = "fetch"
                      /\ marks' = [marks EXCEPT !.header_value = 0]
                 ELSE Return(ps)
              /\ UNCHANGED <<pauses, extra>>
           \/ /\ pauses < MaxPauses /\ pauses' = pauses + 1
              /\ parser' = [ended EXCEPT !.http_errno = "PAUSED"]
              /\ p' = p + 1 /\ phase' = "idle" /\ marks' = NoMarks
              /\ extra' = extra - (p - start)
    /\ Steady /\ UNCHANGED began

\* A line feed: the count comes before the callback.
ValueLF ==
    /\ phase = "value" /\ More /\ ch = LF
    /\ LET ps == Counted(To("s_header_almost_done"), p - start)
       IN  IF ps.http_errno = "OK" THEN Data("header_value", p, ps, p, "byte")
                                   ELSE Return(ps) /\ Quiet
    /\ Twice

\* What the value of the field that has ended means for the message.
Concluded(ps) ==
    CASE ps.header_state \in DOMAIN ConnectionFlag ->
             [ps EXCEPT !.flags = @ \cup {ConnectionFlag[ps.header_state]}]
      [] ps.header_state = "h_transfer_encoding_chunked" ->
             [ps EXCEPT !.flags = @ \cup {"CHUNKED"}]
      [] OTHER -> ps

HeaderValueLws ==
    /\ In("s_header_value_lws")
    /\ Reexecute(IF ch \in Blank THEN To("s_header_value_start")
                                 ELSE Concluded(To("s_header_field_start")))

\* An empty value is announced, too.
HeaderValueDiscardLws ==
    /\ In("s_header_value_discard_lws")
    /\ IF ch \in Blank THEN Consume(To("s_header_value_discard_ws"))
       ELSE /\ out' = Heard("header_value", NoText)
            /\ Resumable(Concluded(To("s_header_field_start")), p, "byte", marks)
            /\ Twice

-----------------------------------------------------------------------------
\* The end of the headers.

\* nread = 0 behind the character at p; from there on headers are counted.
Recount(n) == began' = p + 1 /\ extra' = n /\ Steady

HeadersAlmostDone ==
    /\ In("s_headers_almost_done")
    /\ CASE ch # LF -> Fail("STRICT")
         [] ch = LF /\ "TRAILING" \in parser.flags ->
                Notify("chunk_complete", To("s_message_done"), p, "byte") /\ Same
         [] OTHER ->
                /\ Notify("headers_complete",
                       [To("s_headers_done") EXCEPT
                           !.upgrade = \/ {"UPGRADE", "CONNECTION_UPGRADE"} \subseteq parser.flags
                                       \/ parser.method = "CONNECT",
                           !.flags = IF stream.skip THEN @ \cup {"SKIPBODY"} ELSE @],
                       p, "byte")
                /\ Twice

HasBody(ps) == "CHUNKED" \in ps.flags \/ ps.content_length \notin {0, ULLONG_MAX}

HeadersDone ==
    /\ In("s_headers_done")
    /\ LET ps == [parser EXCEPT !.nread = 0]
           done == [ps EXCEPT !.state = NewMessage(ps)]
           skip == "SKIPBODY" \in ps.flags
       IN  CASE ch # LF -> Fail("STRICT")
             [] ch = LF /\ ps.upgrade /\ (ps.method = "CONNECT" \/ skip \/ ~HasBody(ps)) ->
                    Notify("message_complete", done, p + 1, "upgraded") /\ Recount(0)
             [] OTHER ->
                    /\ CASE skip -> Notify("message_complete", done, p + 1, "fetch")
                         [] ~skip /\ HasBody(ps) ->
                                /\ parser' = [ps EXCEPT !.state =
                                       IF "CHUNKED" \in ps.flags THEN "s_chunk_size_start"
                                                                 ELSE "s_body_identity"]
                                /\ p' = p + 1 /\ phase' = "fetch"
                                /\ UNCHANGED marks /\ Quiet
                         [] ~skip /\ ~HasBody(ps) /\ ps.content_length = ULLONG_MAX
                                  /\ NeedsEof(ps) ->
                                /\ parser' = [ps EXCEPT !.state = "s_body_identity_eof"]
                                /\ p' = p + 1 /\ phase' = "fetch"
                                /\ UNCHANGED marks /\ Quiet
                         [] OTHER -> Notify("message_complete", done, p + 1, "fetch")
                    /\ Recount(0)

-----------------------------------------------------------------------------
\* Bodies.

\* The characters of a body that this piece has: all that are missing, or as
\* many as there are before it ends.
Available(n) ==
    /\ n <= parser.content_length /\ p + n <= Len(Text_) + 1
    /\ n < parser.content_length /\ p + n <= Len(Text_) => cuts < MaxCuts
EndsAt(q) == cuts' = IF q <= Len(Text_) THEN cuts + 1 ELSE cuts

\* The last character is read again, in s_message_done.
BodyIdentity ==
    /\ In("s_body_identity")
    /\ \E n \in 1..Len(Text_) :
        /\ Available(n)
        /\ LET ps == [parser EXCEPT !.content_length = @ - n]
           IN  IF ps.content_length = 0
               THEN /\ out' = Heard("body", SubSeq(Text_, p, p + n - 1))
                    /\ Resumable([ps EXCEPT !.state = "s_message_done"], p + n - 1,
                                 "byte", marks)
                    /\ UNCHANGED cuts
               ELSE /\ parser' = ps /\ p' = p + n /\ phase' = "cut"
                    /\ marks' = Marked("body") /\ EndsAt(p + n)
                    /\ Quiet
    /\ UNCHANGED <<stream, start, extra, began>>

BodyIdentityEof ==
    /\ In("s_body_identity_eof")
    /\ \E q \in (p + 1)..(Len(Text_) + 1) :
        /\ q <= Len(Text_) => cuts < MaxCuts
        /\ p' = q /\ EndsAt(q)
    /\ marks' = Marked("body") /\ phase' = "cut"
    /\ UNCHANGED <<stream, parser, start, extra, began>> /\ Quiet

\* What was counted of trailing headers stays counted.
MessageDone ==
    /\ In("s_message_done")
    /\ Notify("message_complete", To(NewMessage(parser)), p + 1,
              IF parser.upgrade THEN "upgraded" ELSE "fetch")
    /\ Recount(parser.nread)

ChunkSizeStart ==
    /\ In("s_chunk_size_start")
    /\ IF ch \in IsHex
       THEN Consume([To("s_chunk_size") EXCEPT !.content_length = Unhex(ch)])
       ELSE Fail("INVALID_CHUNK_SIZE")

\* What may follow a chunk's size: its parameters.
ParametersStart == {";", " "}
ChunkSize ==
    /\ In("s_chunk_size")
    /\ CASE ch = CR -> Consume(To("s_chunk_size_almost_done"))
         [] ch \in ParametersStart -> Consume(To("s_chunk_parameters"))
         [] ch \in IsHex /\ TooLong(parser, 16) -> Fail("INVALID_CONTENT_LENGTH")
         [] ch \in IsHex /\ ~TooLong(parser, 16) ->
                Consume([parser EXCEPT !.content_length = Sum(parser, 16, Unhex(ch))])
         [] OTHER -> Fail("INVALID_CHUNK_SIZE")

ChunkParameters ==
    /\ In("s_chunk_parameters")
    /\ Consume(IF ch = CR THEN To("s_chunk_size_almost_done") ELSE parser)

ChunkSizeAlmostDone ==
    /\ In("s_chunk_size_almost_done")
    /\ IF ch # LF THEN Fail("STRICT")
       ELSE /\ Notify("chunk_header",
                IF parser.content_length = 0
                THEN [To("s_header_field_start") EXCEPT !.nread = 0,
                          !.flags = @ \cup {"TRAILING"}]
                ELSE [To("s_chunk_data") EXCEPT !.nread = 0],
                p + 1, "fetch")
            /\ Recount(0)

ChunkData ==
    /\ In("s_chunk_data")
    /\ \E n \in 1..Len(Text_) :
        /\ Available(n)
        /\ p' = p + n
        /\ LET ps == [parser EXCEPT !.content_length = @ - n]
           IN  IF ps.content_length = 0
               THEN /\ parser' = [ps EXCEPT !.state = "s_chunk_data_almost_done"]
                    /\ phase' = "fetch" /\ UNCHANGED cuts
               ELSE parser' = ps /\ phase' = "cut" /\ EndsAt(p + n)
    /\ marks' = Marked("body") /\ Quiet
    /\ UNCHANGED <<stream, start, extra, began>>

ChunkDataAlmostDone ==
    /\ In("s_chunk_data_almost_done")
    /\ Strict(ch = CR, Data("body", p, To("s_chunk_data_done"), p + 1, "fetch") /\ Same)

ChunkDataDone ==
    /\ In("s_chunk_data_done")
    /\ IF ch # LF THEN Fail("STRICT")
       ELSE /\ Notify("chunk_complete",
                      [To("s_chunk_size_start") EXCEPT !.nread = 0], p + 1, "fetch")
            /\ Recount(0)

-----------------------------------------------------------------------------
ReadStart == Dead \/ StartReqOrRes \/ ResOrRespH \/ StartRes \/ StartReq
ReadFirstLine ==
    \/ ReadLiteral \/ FirstMajor \/ Major \/ FirstMinor \/ Minor
    \/ FirstStatusCode \/ StatusCode \/ StatusStart \/ Status
    \/ ReqMethod \/ SpacesBeforeUrl \/ UrlBeginning \/ Url
    \/ HttpStart \/ ReqLineAlmostDone
ReadHeader ==
    \/ HeaderFieldStart \/ EnterLoop \/ FieldChar \/ FieldEnd \/ FieldCut
    \/ HeaderValueDiscardWs \/ HeaderValueStart
    \/ ValueChar \/ ValueSkip \/ ValueCut \/ ValueCR \/ ValueLF
    \/ HeaderValueLws \/ HeaderValueDiscardLws
    \/ HeadersAlmostDone \/ HeadersDone
ReadBody ==
    \/ BodyIdentity \/ BodyIdentityEof \/ MessageDone
    \/ ChunkSizeStart \/ ChunkSize \/ ChunkParameters \/ ChunkSizeAlmostDone
    \/ ChunkData \/ ChunkDataAlmostDone \/ ChunkDataDone

Next ==
    \/ Execute \/ Fetch \/ Leftover \/ Resume \/ Eof
    \/ ReadStart \/ ReadFirstLine \/ ReadHeader \/ ReadBody

\* The embedder calls until the stream has ended or is an error.
Spec == Init /\ [][Next]_vars /\ WF_vars(Next)

-----------------------------------------------------------------------------
\* Properties.

States == BodyStates \cup UrlStates \cup DOMAIN Literal \cup
    {"s_dead", "s_start_req_or_res", "s_res_or_resp_H", "s_start_res",
     "s_res_first_http_major", "s_res_http_major", "s_res_first_http_minor",
     "s_res_http_minor", "s_res_first_status_code", "s_res_status_code",
     "s_res_status_start", "s_res_status", "s_start_req", "s_req_method",
     "s_req_spaces_before_url", "s_req_http_start", "s_req_first_http_major",
     "s_req_http_major", "s_req_first_http_minor", "s_req_http_minor",
     "s_req_line_almost_done", "s_header_field_start", "s_header_field",
     "s_header_value_discard_ws", "s_header_value_discard_lws",
     "s_header_value_start", "s_header_value", "s_header_value_lws",
     "s_chunk_size_start", "s_chunk_size", "s_chunk_parameters",
     "s_chunk_size_almost_done", "s_headers_almost_done", "s_headers_done"}

HeaderStates == DOMAIN Words \cup DOMAIN ConnectionFlag \cup
    {"h_general", "h_C", "h_CO", "h_CON", "h_connection", "h_content_length",
     "h_transfer_encoding", "h_upgrade", "h_matching_connection_token_start",
     "h_matching_connection_token", "h_transfer_encoding_chunked"}

Flags == {"CHUNKED", "CONNECTION_KEEP_ALIVE", "CONNECTION_CLOSE", "CONNECTION_UPGRADE",
          "TRAILING", "UPGRADE", "SKIPBODY"}

MethodNames == {FirstMethod[c] : c \in DOMAIN FirstMethod} \cup {o[4] : o \in OtherMethod}

Errors == {"INVALID_EOF_STATE", "HEADER_OVERFLOW", "CLOSED_CONNECTION", "INVALID_VERSION",
           "INVALID_STATUS", "INVALID_METHOD", "INVALID_URL", "LF_EXPECTED",
           "INVALID_HEADER_TOKEN", "INVALID_CONTENT_LENGTH", "INVALID_CHUNK_SIZE",
           "INVALID_CONSTANT", "STRICT", "PAUSED"}

Parser == [type: {"REQUEST", "RESPONSE", "BOTH"}, state: States, flags: SUBSET Flags,
           header_state: HeaderStates, index: Nat, nread: Nat,
           content_length: 0..ULLONG_MAX, http_major: Nat, http_minor: Nat,
           status_code: Nat, method: MethodNames, upgrade: BOOLEAN,
           http_errno: {"OK"} \cup Errors]

\* Every variable keeps its type; in particular no character beyond the piece
\* is read (the lengths of bodies are cut to what has arrived).
TypeOK ==
    /\ stream \in Streams /\ parser \in Parser
    /\ p \in 1..(Len(Text_) + 1) /\ phase \in Phases
    /\ start \in Nat /\ began \in Nat /\ extra \in Int
    /\ cuts \in 0..MaxCuts /\ pauses \in 0..MaxPauses
    /\ marks \in [DataKinds -> Nat]

\* The call for the stream has come to its end.
Over == phase \in {"closed", "upgraded"} \/ parser.http_errno \notin {"OK", "PAUSED"}

\* Errors behind which nothing is left unsaid.
Complete == {"OK", "CLOSED_CONNECTION", "INVALID_EOF_STATE"}

\* However the stream is cut into pieces, and whenever the parser is paused,
\* the listeners are told what was sent, whole, once and in order, and the
\* parser ends as it should: keeps the connection or treats it as closed,
\* finds where a body ends, and names the first error.
AnnouncedAsSent ==
    stream.errno # "any" =>
        /\ Len(out) <= Len(stream.told)
        /\ \A i \in DOMAIN out :
            /\ out[i].kind = stream.told[i].kind
            /\ i < Len(out) => out[i].text = stream.told[i].text
            /\ Len(out[i].text) <= Len(stream.told[i].text)
            /\ SubSeq(stream.told[i].text, 1, Len(out[i].text)) = out[i].text
        /\ Over => /\ parser.http_errno \in {stream.errno, "PAUSED"}
                   /\ stream.errno \in Complete => out = stream.told

\* COUNT_HEADER_SIZE: what is counted against HTTP_MAX_HEADER_SIZE is what was
\* read of this header, and what the code counts twice (the first character of
\* a name or value whose piece ends inside it) or takes over (the trailers of
\* the message before); and only too long a header is refused as too long.
Counting == CASE phase = "byte" -> p + 1 [] phase \in {"field", "value"} -> start + 1
              [] OTHER -> p
HeaderIsCounted ==
    /\ ParsingHeader(parser.state) /\ parser.http_errno \in {"OK", "PAUSED"} =>
           /\ parser.nread = Counting - began + extra
           /\ parser.nread <= HTTP_MAX_HEADER_SIZE
    /\ parser.http_errno = "HEADER_OVERFLOW" =>
           p + 1 - began + extra > HTTP_MAX_HEADER_SIZE

\* The assertions of http_parser_execute.
AssertsHold ==
    /\ phase = "byte" =>
        /\ parser.state = "s_chunk_size_start" => parser.nread = 1
        /\ parser.state \in {"s_chunk_size_start", "s_chunk_size", "s_chunk_parameters",
               "s_chunk_size_almost_done", "s_chunk_data", "s_chunk_data_almost_done",
               "s_chunk_data_done"} => "CHUNKED" \in parser.flags
        /\ parser.state \in {"s_body_identity", "s_chunk_data"} =>
               parser.content_length \notin {0, ULLONG_MAX}
        /\ parser.state = "s_chunk_data_almost_done" => parser.content_length = 0
    /\ phase \in {"byte", "fetch", "field", "value"} => parser.http_errno = "OK"
    /\ phase = "value" =>
           parser.header_state \in {"h_general", "h_content_length",
               "h_matching_connection_token_start", "h_matching_connection_token",
               "h_transfer_encoding_chunked"} \cup DOMAIN Words \cup DOMAIN ConnectionFlag
    /\ phase \in {"fetch", "cut"} => Cardinality({k \in DataKinds : marks[k] # 0}) <= 1

\* Of a request's target that is no longer than its fields can say, a path is
\* always split by http_parser_parse_url, but for CONNECT, which asks for a host
\* and a port; and whatever it splits is split whole: no character belongs to
\* two fields, and only delimiters belong to none.
Owners(split, j) == {f \in split.u.set :
    j \in (split.u.field[f].off + 1)..(split.u.field[f].off + split.u.field[f].len)}
SplitWhole(url, isConnect, split) ==
    /\ At(url, 1) \in {"/", "*"} /\ ~isConnect => split.ok
    /\ split.ok => \A j \in 1..Len(url) :
           \/ Cardinality(Owners(split, j)) = 1
           \/ Owners(split, j) = {} /\ At(url, j) \in {":", "/", "?", "#", "@", "[", "]"}
AcceptedUrlIsSplit ==
    /\ out # <<>> /\ Last(out).kind = "url" /\ phase # "byte"
    /\ parser.state \in {"s_req_http_start", "s_req_line_almost_done", "s_header_field_start"}
    => LET url == Last(out).text
           isConnect == parser.method = "CONNECT"
       IN  Len(url) < FieldRange => SplitWhole(url, isConnect, ParseUrl(url, isConnect))

\* No character is read for ever: a stream that is given to the parser until
\* its end is consumed, or refused.
Finishes == <>Over
=============================================================================
