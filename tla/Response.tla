------------------------------ MODULE Response ------------------------------
(***************************************************************************)
(* http::response: the object a handler or the dispatcher builds, edits    *)
(* and has serialised.  Its constructors and assignments end in init(),    *)
(* which compresses the body once and derives header fields from it; its   *)
(* setters do not.  A body is a content in a coding, and a Content-Length  *)
(* is the body it was measured on.  The four octets that make_ending puts  *)
(* behind every body are an element of their own.                          *)
(***************************************************************************)
EXTENDS Naturals, Sequences

CONSTANTS
    Contents,   \* what may be sent; "" is the empty content
    Tight,      \* contents gzip has no room for in compressBound: short or incompressible
    Compression, \* configuration::enable_compression
    MaxEdits    \* bound: edits of a response

ASSUME ConstantsAssumption ==
    /\ "" \in Tight /\ Tight \subseteq Contents
    /\ Compression \in BOOLEAN /\ MaxEdits \in Nat

Codings == {"none", "deflate", "gzip", "cut gzip", "twice"}
Body == [content: Contents, coding: Codings]
Plain(c) == [content |-> c, coding |-> "none"]
Unmeasured == [content |-> "", coding |-> "unmeasured"]
Ending == [content |-> "", coding |-> "ending"]

\* A resource keeps what it was compressed to; it starts with none.
Resource == [raw: Body, deflated: Body, gzipped: Body]
Loaded(c) == [raw |-> Plain(c), deflated |-> Plain(""), gzipped |-> Plain("")]

Connections == {"unset", "Close", "Keep-Alive", "Upgrade"}
CacheControls == {"unset", "no-cache", "public", "max-age"}

Object == [type: {"text", "resource", "file"}, text: Body, res: Resource,
           compressed: {"none", "deflate", "gzip"},
           encoding: {"none", "deflate", "gzip"},   \* Content-Encoding
           length: Body \cup {Unmeasured},          \* Content-Length
           connection: Connections, cache: CacheControls]

\* What is written, the sources behind the header in order; `later' is that of
\* a future, and `keep' the wish its schedule_item carries.
Nothing == [follows |-> <<>>]
Message == [follows: Seq(Body \cup {Ending}), encoding: {"none", "deflate", "gzip"},
            length: Body \cup {Unmeasured}, connection: Connections,
            cache: CacheControls, later: BOOLEAN, keep: BOOLEAN]

VARIABLES
    accepts,   \* the request's Accept-Encoding
    asksCache, \* the request's Cache-Control
    phase,     \* "none", "building", "file", "sent" or "terminated"
    resp,      \* the response
    message,   \* what was sent
    edits,     \* how many edits were made
    meant,     \* history: the content last given
    late       \* history: a setter of the body or of a field about it was used,
               \* or a compressed body replaced

vars == <<accepts, asksCache, phase, resp, message, edits, meant, late>>

TypeOK ==
    /\ accepts \in {"none", "deflate", "gzip", "deflate, gzip"}
    /\ asksCache \in CacheControls
    /\ phase \in {"none", "building", "file", "sent", "terminated"}
    /\ resp \in Object
    /\ message \in Message \cup {Nothing}
    /\ edits \in 0..MaxEdits
    /\ meant \in Contents
    /\ late \subseteq {"setter", "replaced"}

Blank == [type |-> "text", text |-> Plain(""), res |-> Loaded(""),
          compressed |-> "none", encoding |-> "none", length |-> Unmeasured,
          connection |-> "unset", cache |-> "unset"]

Init ==
    /\ accepts \in {"none", "deflate", "gzip", "deflate, gzip"}
    /\ asksCache \in {"unset", "no-cache", "public"}
    /\ phase = "none" /\ resp = Blank /\ message = Nothing
    /\ edits = 0 /\ meant = "" /\ late = {}

-----------------------------------------------------------------------------
\* try_to_compress.

WrongCoding == accepts
Coding == IF accepts = "deflate, gzip" THEN "deflate" ELSE accepts

Zipped(b, coding) ==
    [content |-> b.content,
     coding |-> CASE b.coding # "none" -> "twice"
                  [] coding = "gzip" /\ b.content \in Tight -> "cut gzip"
                  [] OTHER -> coding]

WrongMayCompress(r) == r.type # "file" /\ Coding # "none"
MayCompress(r) == r.type # "file" /\ r.compressed = "none" /\ Coding # "none"

\* A resource has been compressed before when it has something deflated.
Deflated(res) == IF res.deflated = Plain("") THEN Zipped(res.raw, "deflate") ELSE res.deflated
Gzipped(res) == IF res.gzipped = Plain("") THEN Zipped(res.raw, "gzip") ELSE res.gzipped

TryToCompress(r) ==
    IF ~MayCompress(r) THEN r
    ELSE [r EXCEPT
            !.compressed = Coding, !.encoding = Coding,
            !.text = IF r.type = "text" THEN Zipped(r.text, Coding) ELSE r.text,
            !.res.deflated = IF r.type = "resource" /\ Coding = "deflate"
                             THEN Deflated(r.res) ELSE r.res.deflated,
            !.res.gzipped = IF r.type = "resource" /\ Coding = "gzip"
                            THEN Gzipped(r.res) ELSE r.res.gzipped]

\* response::body of a text or a resource.
BodyOf(r) ==
    CASE r.type = "text" -> r.text
      [] r.type = "resource" /\ r.compressed = "deflate" -> r.res.deflated
      [] r.type = "resource" /\ r.compressed = "gzip" -> r.res.gzipped
      [] OTHER -> r.res.raw

WrongMeasured(r) == BodyOf([r EXCEPT !.compressed = "none"])
Measured(r) == BodyOf(r)

\* init.  get(_, _, true) looks among the response's own fields.
Initialised(given) ==
    LET r == IF Compression THEN TryToCompress(given) ELSE given
    IN  [r EXCEPT
            !.connection = IF @ = "unset" THEN "Close" ELSE @,
            !.cache = IF @ \in {"unset", "no-cache"} THEN @ ELSE "max-age",
            !.length = IF r.type = "file" THEN @ ELSE Measured(r)]

-----------------------------------------------------------------------------
\* Constructors.  A text without content is also that of response(request)
\* and of response(request, status_code).

Construct(given, c, next) ==
    /\ phase = "none"
    /\ phase' = next
    /\ resp' = Initialised(given)
    /\ meant' = c
    /\ UNCHANGED <<accepts, asksCache, message, edits, late>>

OfText(c) == Construct([Blank EXCEPT !.text = Plain(c)], c, "building")
OfResource(c) ==
    Construct([Blank EXCEPT !.type = "resource", !.res = Loaded(c)], c, "building")

\* take_unix_file measures the file; what it sends is not in the response.
OfFile(c) ==
    /\ phase = "none"
    /\ phase' = "file"
    /\ resp' = [Initialised([Blank EXCEPT !.type = "file"]) EXCEPT !.length = Plain(c)]
    /\ meant' = c
    /\ UNCHANGED <<accepts, asksCache, message, edits, late>>

-----------------------------------------------------------------------------
\* Assignments, which end in init(), and setters, which do not.

Edit(r, c, marks) ==
    /\ phase = "building" /\ edits < MaxEdits
    /\ edits' = edits + 1
    /\ resp' = r /\ meant' = c /\ late' = late \cup marks
    /\ UNCHANGED <<accepts, asksCache, phase, message>>

Replaced == IF resp.compressed = "none" THEN {} ELSE {"replaced"}

AssignText(c) ==
    Edit(Initialised([resp EXCEPT !.type = "text", !.text = Plain(c)]), c, Replaced)

AssignResource(c) ==
    Edit(Initialised([resp EXCEPT !.type = "resource", !.res = Loaded(c)]), c, Replaced)

\* The text stays, whatever the type was.
AssignStatus ==
    Edit(Initialised([resp EXCEPT !.type = "text"]), resp.text.content,
         IF resp.type = "text" THEN {} ELSE Replaced)

SetText(c) == Edit([resp EXCEPT !.type = "text", !.text = Plain(c)], c, {"setter"})
SetResource(c) == Edit([resp EXCEPT !.res = Loaded(c)], c, {"setter"})
SetType(t) == Edit([resp EXCEPT !.type = t], meant, {"setter"})   \* and set_file
\* set() writes any field, those about the body, too.
SetLength(c) == Edit([resp EXCEPT !.length = Plain(c)], meant, {"setter"})
SetEncoding(e) == Edit([resp EXCEPT !.encoding = e], meant, {"setter"})
SetConnection(v) == Edit([resp EXCEPT !.connection = v], meant, {})
SetCache(v) == Edit([resp EXCEPT !.cache = v], meant, {})

-----------------------------------------------------------------------------
\* The dispatcher serialises it and asks whether to keep the connection, unless
\* it was awaited: that wish nobody asks for, and the item has none.

WrongKeepAlive(r) == r.connection # "Close"
KeepAlive(r) == r.connection = "unset" \/ r.connection = "Keep-Alive"

Sent(body, later) ==
    /\ phase' = "sent"
    /\ message' = [follows |-> <<body, Ending>>, encoding |-> resp.encoding,
                   length |-> resp.length, connection |-> resp.connection,
                   cache |-> resp.cache, later |-> later,
                   keep |-> ~later /\ KeepAlive(resp)]
    /\ UNCHANGED <<accepts, asksCache, resp, edits, meant, late>>

Serialize == phase = "building" /\ resp.type # "file" /\ Sent(BodyOf(resp), FALSE)
SerializeLater == phase = "building" /\ resp.type # "file" /\ Sent(BodyOf(resp), TRUE)

\* body() throws body_unavailable inside a noexcept function.
SerializeFile ==
    /\ phase = "building" /\ resp.type = "file"
    /\ phase' = "terminated"
    /\ UNCHANGED <<accepts, asksCache, resp, message, edits, meant, late>>

\* A header, the file and an ending.
SendFile == phase = "file" /\ Sent(Plain(meant), FALSE)

Next ==
    \/ \E c \in Contents :
           \/ OfText(c) \/ OfResource(c) \/ OfFile(c)
           \/ AssignText(c) \/ AssignResource(c)
           \/ SetText(c) \/ SetResource(c) \/ SetLength(c)
    \/ AssignStatus
    \/ \E t \in {"text", "resource", "file"} : SetType(t)
    \/ \E e \in {"none", "deflate", "gzip"} : SetEncoding(e)
    \/ \E v \in Connections \ {"unset"} : SetConnection(v)
    \/ \E v \in {"no-cache", "public"} : SetCache(v)
    \/ Serialize \/ SerializeLater \/ SerializeFile \/ SendFile

Spec == Init /\ [][Next]_vars

-----------------------------------------------------------------------------
\* Properties.

\* The Content-Length is that of the body that follows, compressed or not and
\* however often the response was assigned, unless a setter changed the body or
\* the field after it was measured.  Behind the body come the octets of
\* make_ending, which no field counts, and nothing else (init, the serializer
\* and take_unix_file).
LengthIsBody ==
    phase = "sent" /\ "setter" \notin late =>
        message.follows = <<message.length, Ending>>

\* What a peer decodes by Content-Encoding is the content given last, unless
\* the body was replaced after it had been compressed, a setter was used, or
\* gzip had no room (try_to_compress, body, compression::gzip).
ContentIsSent ==
    phase = "sent" /\ late = {} =>
        LET body == message.follows[1]
        IN  /\ body.content = meant
            /\ body.coding \in {message.encoding, "cut gzip"}
            /\ body.coding = "cut gzip" => meant \in Tight /\ accepts = "gzip"

\* The connection is kept only if the message says so; an answer given at once
\* that says so has it kept, while one that was awaited announces a wish that
\* its item does not carry (get_keep_alive, pass_request, handle_barrier).
KeptAsAnnounced ==
    phase = "sent" =>
        (message.keep <=> message.connection = "Keep-Alive" /\ ~message.later)
=============================================================================
