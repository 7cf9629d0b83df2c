---------------------------- MODULE HttpParserMC ----------------------------
(***************************************************************************)
(* Streams for HttpParser: messages are made from their parts, and what    *)
(* the callbacks must be told, and how the parser must end, is made from   *)
(* the same parts.                                                         *)
(***************************************************************************)
EXTENDS HttpParser, TLC

Event(kind, text) == <<[kind |-> kind, text |-> text]>>

Field(name, value) == [name |-> name, value |-> value]
NoBody == [kind |-> "none"]
WithLength(text) == [kind |-> "length", text |-> text]
Chunked(chunks, trailers) == [kind |-> "chunked", chunks |-> chunks, trailers |-> trailers]
UntilEof(text) == [kind |-> "eof", text |-> text]

\* A message: its first line, the tokens of its Connection field, other fields.
Message(first, conn, fields, body) ==
    [first |-> first, conn |-> conn, fields |-> fields, body |-> body]

Get11(target) == [text |-> "GET " \o target \o " HTTP/1.1\r\n", kind |-> "url",
                  say |-> target, persistent |-> TRUE]
Line(text, kind, say, persistent) ==
    [text |-> text, kind |-> kind, say |-> say, persistent |-> persistent]

Joined(texts, between) ==
    FoldLeftDomain(LAMBDA all, i : all \o (IF i = 1 THEN "" ELSE between) \o texts[i],
                   "", texts)
Lines(fields) == FoldLeft(LAMBDA all, f : all \o f.name \o ": " \o f.value \o "\r\n",
                          "", fields)
Told(fields) == FlattenSeq([i \in DOMAIN fields |->
    Event("header_field", fields[i].name) \o Event("header_value", fields[i].value)])

AllFields(m) ==
    m.fields
    \o (IF m.conn = <<>> THEN <<>> ELSE <<Field("Connection", Joined(m.conn, ", "))>>)
    \o (CASE m.body.kind = "length" ->
               <<Field("Content-Length", ToString(Len(m.body.text)))>>
          [] m.body.kind = "chunked" -> <<Field("Transfer-Encoding", "chunked")>>
          [] OTHER -> <<>>)

BodyText(body) ==
    CASE body.kind = "none" -> ""
      [] body.kind \in {"length", "eof"} -> body.text
      [] body.kind = "chunked" ->
             FoldLeft(LAMBDA all, c : all \o ToString(Len(c)) \o "\r\n" \o c \o "\r\n",
                      "", body.chunks)
             \o "0\r\n" \o Lines(body.trailers) \o "\r\n"
BodyTold(body) ==
    CASE body.kind = "none" -> <<>>
      [] body.kind \in {"length", "eof"} ->
             IF body.text = "" THEN <<>> ELSE Event("body", body.text)
      [] body.kind = "chunked" ->
             FlattenSeq([i \in DOMAIN body.chunks |->
                 Event("chunk_header", "") \o Event("body", body.chunks[i])
                     \o Event("chunk_complete", "")])
             \o Event("chunk_header", "") \o Told(body.trailers)
             \o Event("chunk_complete", "")

TextOf(m) == m.first.text \o Lines(AllFields(m)) \o "\r\n" \o BodyText(m.body)
EventsOf(m) ==
    Event("message_begin", "")
    \o (IF m.first.say = "" THEN <<>> ELSE Event(m.first.kind, m.first.say))
    \o Told(AllFields(m)) \o Event("headers_complete", "")
    \o BodyTold(m.body) \o Event("message_complete", "")

\* Whether a connection goes on after m.
Keeps(m) == IF m.first.persistent THEN "close" \notin Range(m.conn)
                                  ELSE "keep-alive" \in Range(m.conn)

Stream(type, text, told, errno) ==
    [type |-> type, skip |-> FALSE, text |-> text, told |-> told, errno |-> errno]

\* Two messages in a row: the second is an error if the first ends the
\* connection.
Two(type, m, n) ==
    Stream(type, TextOf(m) \o TextOf(n),
           EventsOf(m) \o (IF Keeps(m) THEN EventsOf(n) ELSE <<>>),
           IF Keeps(m) THEN "OK" ELSE "CLOSED_CONNECTION")
One(type, m) == Stream(type, TextOf(m), EventsOf(m), "OK")

-----------------------------------------------------------------------------
Short == Message(Get11("/"), <<>>, <<>>, NoBody)
Old(target) == Line("GET " \o target \o " HTTP/1.0\r\n", "url", target, FALSE)
Post(target) == Line("POST " \o target \o " HTTP/1.1\r\n", "url", target, TRUE)

Connections == {<<>>, <<"close">>, <<"keep-alive">>, <<"x", "close">>,
                <<"Keep-Alive", "Close">>, <<"closed">>, <<"Upgrade", "keep-alive">>}
LowerCased(conn) == [i \in DOMAIN conn |->
    CASE conn[i] = "Keep-Alive" -> "keep-alive" [] conn[i] = "Close" -> "close"
      [] OTHER -> conn[i]]
KeptAlive ==
    {[Two("REQUEST", Message(first, LowerCased(conn), <<>>, NoBody), Short)
         EXCEPT !.text = TextOf(Message(first, conn, <<>>, NoBody)) \o TextOf(Short),
                !.told = [i \in DOMAIN @ |->
                    IF @[i].kind = "header_value" THEN [@[i] EXCEPT !.text = Joined(conn, ", ")]
                                                  ELSE @[i]]] :
        first \in {Get11("/"), Old("/")}, conn \in Connections}

Bodies == {WithLength(""), WithLength("ab"), WithLength("twelve bytes"),
           Chunked(<<>>, <<>>), Chunked(<<"ab", "c">>, <<>>),
           Chunked(<<"abc">>, <<Field("T", "v")>>)}
Bodied == {Two("REQUEST", Message(Post("/p"), <<>>, fields, body), Short) :
               fields \in {<<>>, <<Field("Con", "1")>>}, body \in Bodies}

\* Headers that look like those that matter, empty and continued values.
Named == {One("REQUEST", Message(Get11("/"), <<>>, <<Field(name, "close")>>, NoBody)) :
              name \in {"c", "Connectio", "Connections", "Content-Lengt", "t", "p",
                        "Transfer-Encodinga", "X"}}

Responses == {One("RESPONSE", Message(Line("HTTP/1.1 200 OK\r\n", "status", "OK", TRUE),
                                      <<>>, <<>>, body)) :
                  body \in {WithLength("ab"), UntilEof("abc")}}
    \cup {Two(type, Message(Line("HTTP/1.1 304\r\n", "status", "", TRUE), <<>>, <<>>, NoBody),
              Message(Line("HTTP/1.0 204 No\r\n", "status", "No", FALSE), <<>>, <<>>, NoBody)) :
              type \in {"RESPONSE", "BOTH"}}
    \cup {[One("RESPONSE", Message(Line("HTTP/1.1 200 OK\r\n", "status", "OK", TRUE), <<>>,
                                   <<Field("Content-Length", "9")>>, NoBody))
              EXCEPT !.skip = TRUE]}
    \cup {Two("BOTH", Message(Post("/"), <<>>, <<>>, NoBody), Short)}
    \cup {Two("BOTH", Message(Line("HEAD / HTTP/1.1\r\n", "url", "/", TRUE), <<>>, <<>>, NoBody),
              Short)}
\* The methods that are read as they are spelled.
Methods == {"DELETE", "GET", "HEAD", "POST", "PUT", "OPTIONS", "TRACE", "COPY",
    "LOCK", "MKCOL", "MOVE", "PROPFIND", "PROPPATCH", "SEARCH", "UNLOCK", "BIND",
    "REBIND", "UNBIND", "ACL", "REPORT", "MKACTIVITY", "CHECKOUT", "MERGE",
    "NOTIFY", "SUBSCRIBE", "UNSUBSCRIBE", "PATCH", "PURGE", "MKCALENDAR", "LINK",
    "UNLINK"}
Methodical == {One("REQUEST", Message(Line(m \o " / HTTP/1.1\r\n", "url", "/", TRUE),
                                      <<>>, <<>>, NoBody)) : m \in Methods}

\* Streams that are no message, what may be told before the parser sees it,
\* and the error.
Begin == Event("message_begin", "")
Slash == Begin \o Event("url", "/")
Bad(text, told, errno) == Stream("REQUEST", text, told, errno)
InHeader(text, told, errno) == Bad("GET / HTTP/1.1\r\n" \o text, Slash \o told, errno)
LengthOf(value) == Event("header_field", "Content-Length") \o Event("header_value", value)
Malformed ==
    {Bad("5", <<>>, "INVALID_METHOD"), Bad("GEX ", Begin, "INVALID_METHOD"),
     Bad("POT ", Begin, "INVALID_METHOD"), Bad("MOVER ", Begin, "INVALID_METHOD"),
     Bad("UNTIE ", Begin, "INVALID_METHOD"), Bad("GET \f", Begin, "INVALID_URL"),
     Bad("GET h:/ ", Begin \o Event("url", "h:/"), "INVALID_URL"), Bad("GET 1", Begin, "INVALID_URL"),
     Bad("GET / FTP", Slash, "INVALID_CONSTANT"),
     Bad("GET / HTML", Slash, "STRICT"), Bad("GET / HTTP/0", Slash, "INVALID_VERSION"),
     Bad("GET / HTTP/1000", Slash, "INVALID_VERSION"),
     Bad("GET / HTTP/1.x", Slash, "INVALID_VERSION"),
     Bad("GET / HTTP/1.1\rX", Slash, "LF_EXPECTED"),
     Bad("GET / HTTP/1.1000", Slash, "INVALID_VERSION"),
     Stream("RESPONSE", "HTTP/1.1 1000", Begin, "INVALID_STATUS"),
     Stream("RESPONSE", "HTTP/1.1 x", Begin, "INVALID_STATUS"),
     Stream("RESPONSE", "X", <<>>, "INVALID_CONSTANT"),
     Stream("BOTH", "HX", Begin, "INVALID_CONSTANT"),
     InHeader("(", <<>>, "INVALID_HEADER_TOKEN"),
     InHeader("X X", Event("header_field", "X"), "INVALID_HEADER_TOKEN"),
     InHeader("X: y\rz", Event("header_field", "X") \o Event("header_value", "y"), "STRICT"),
     InHeader("\r\r", <<>>, "STRICT"), InHeader("X:\rz", Event("header_field", "X"), "STRICT"),
     InHeader("Content-Length: x", Event("header_field", "Content-Length"),
              "INVALID_CONTENT_LENGTH"),
     InHeader("Content-Length: 1x", LengthOf("1"),
              "INVALID_CONTENT_LENGTH"),
     InHeader("X: y", Event("header_field", "X") \o Event("header_value", "y"),
              "INVALID_EOF_STATE")}

\* Numbers at the limit of content_length: 2559 would be 255 modulo 2304.
Boundaries ==
    {InHeader("Content-Length: 249\r\n\r\nab",
              LengthOf("249") \o Event("headers_complete", "") \o Event("body", "ab"),
              "INVALID_EOF_STATE"),
     InHeader("Content-Length: 260\r\n\r\nabcd",
              LengthOf("26"), "INVALID_CONTENT_LENGTH"),
     InHeader("Transfer-Encoding: chunked\r\n\r\n102\r\nab",
              Event("header_field", "Transfer-Encoding") \o Event("header_value", "chunked")
              \o Event("headers_complete", ""), "INVALID_CONTENT_LENGTH"),
     InHeader("Transfer-Encoding: chunked\r\n\r\nEf;x\r\nab",
              Event("header_field", "Transfer-Encoding") \o Event("header_value", "chunked")
              \o Event("headers_complete", "") \o Event("chunk_header", "")
              \o Event("body", "ab"), "INVALID_EOF_STATE"),
     InHeader("Transfer-Encoding: chunked\r\n\r\nFF\r\nab",
              Event("header_field", "Transfer-Encoding") \o Event("header_value", "chunked")
              \o Event("headers_complete", ""), "INVALID_CONTENT_LENGTH"),
     InHeader("Transfer-Encoding: chunked\r\n\r\nx",
              Event("header_field", "Transfer-Encoding") \o Event("header_value", "chunked")
              \o Event("headers_complete", ""), "INVALID_CHUNK_SIZE")}

\* Other forms of what is sent: line feeds alone, blanks, continued and empty
\* values, HTTP/0.9, other protocols; and a method whose second character is not
\* looked at.
Ended == Event("headers_complete", "") \o Event("message_complete", "")
OddForms ==
    {Bad("\r\n\nGET   /   HTTP/1.1\nX:\t y\n\n",
         Slash \o Told(<<Field("X", "y")>>) \o Ended, "OK"),
     Bad("GET /\r\n\r\n", Slash \o Ended, "OK"),
     Bad("GXT /\n\n", Slash \o Ended, "OK"), Bad("GET /\n\n", Slash \o Ended, "OK"),
     InHeader("X:\r\nY: \n z\r\n v\r\n\r\n",
              Told(<<Field("X", ""), Field("Y", "z v")>>) \o Ended, "OK"),
     InHeader("Upgrade: h\r\nConnection: upgrade\r\n\r\n???",
              Told(<<Field("Upgrade", "h"), Field("Connection", "upgrade")>>) \o Ended, "OK"),
     InHeader("Upgrade: h\r\nConnection: upgrade\r\nContent-Length: 1\r\n\r\nx???",
              Told(<<Field("Upgrade", "h"), Field("Connection", "upgrade"),
                     Field("Content-Length", "1")>>)
              \o Event("headers_complete", "") \o Event("body", "x")
              \o Event("message_complete", ""), "OK"),
     Bad("CONNECT a:1 HTTP/1.1\r\n\r\n???", Begin \o Event("url", "a:1") \o Ended, "OK")}

\* Targets, for which only the URL's fields are in question.
Alphabet == {"/", "?", "#", "a", ":", "@", "1"}
Words1 == {""} \cup Alphabet
Words2 == {a \o b : a \in Words1, b \in Words1}
Words3 == {a \o b : a \in Words1, b \in Words2}
Target(line) == Stream("REQUEST", line \o " ", <<>>, "any")
Targets == {Target("GET h://" \o w) : w \in Words3}
    \cup {Target(line \o w) : line \in {"GET /", "GET *", "CONNECT a", "CONNECT "}, w \in Words2}
    \cup {Target("GET h://[" \o w \o "]:1/") : w \in {"", "1", "1%", "1%a", ":1", "x"}}

Filler(n) == FoldLeft(LAMBDA all, i : all \o "y", "", [i \in 1..n |-> i])
\* Fields that make the header as long as is allowed, and longer.
Long == {Stream("REQUEST", "GET / HTTP/1.1\r\nX: " \o Filler(n) \o "\r\n\r\n", <<>>, "any") :
             n \in {HTTP_MAX_HEADER_SIZE - 23, HTTP_MAX_HEADER_SIZE - 22,
                    HTTP_MAX_HEADER_SIZE + 3}}
    \cup {Stream("REQUEST", "GET / HTTP/1.1\r\n" \o Filler(HTTP_MAX_HEADER_SIZE - 14) \o ": y",
                 <<>>, "any")}

AllStreams == KeptAlive \cup Bodied \cup Named \cup Responses \cup Methodical
    \cup Malformed \cup Boundaries \cup OddForms \cup Targets \cup Long
=============================================================================
