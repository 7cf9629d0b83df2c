--------------------------- MODULE RequestContext ---------------------------
(***************************************************************************)
(* http::context and dispatcher::handle_connection: how the requests of    *)
(* one connection are put together from the pieces in which they arrive.   *)
(* Every read appends to the buffer and parses the WHOLE buffer again, with *)
(* callbacks that set, insert or append to the same request.               *)
(*                                                                         *)
(* On the wire a request is a sequence of tokens: one "head" (the request  *)
(* line and the fields before Content-Length), the digits of the value of  *)
(* Content-Length, one "end" of the head, the units of its body, and one   *)
(* "last" chunk if the body is chunked.  The peer may be cut between any   *)
(* two tokens, and sends the next request when it has the answer to the    *)
(* last.                                                                   *)
(***************************************************************************)
EXTENDS Integers, SequencesExt

CONSTANTS
    Requests,     \* what peers may ask: [method, digits, units, coding]
    IntRange,     \* an int is below it (and not below its negative)
    MaxRequests   \* bound: requests of the connection

\* The methods method_map knows, of which "other" is any without a body, and the
\* "unknown" to it.  `digits[i]' is the number the first i digits write, in units
\* of the body.  A body without digits comes in chunks, or its Content-Length is
\* spelt in a way that only the parser knows ("content-length").
Methods == {"Get", "Head", "Delete", "Put", "Post", "Options", "other", "unknown"}
Request == [method: Methods, digits: Seq(Nat), units: Nat, coding: {"identity", "chunked"}]

ASSUME RequestsAssumption ==
    /\ MaxRequests \in Nat \ {0} /\ IntRange \in Nat \ {0}
    /\ Requests \subseteq Request
    /\ \A r \in Requests :
           /\ r.digits # <<>> => r.units = Last(r.digits) /\ r.coding = "identity"
           /\ \A i, j \in 1..Len(r.digits) : i <= j => r.digits[i] <= r.digits[j]

NoValue == -1
Unset == "unset"

ContentLength(r) == IF r.digits = <<>> THEN 0 ELSE Last(r.digits)

Kinds == {"head", "digit", "end", "body", "last"}
Token == [n: 1..MaxRequests, kind: Kinds, i: Nat]

\* What the peer sends for its n-th request, r.
Tokens(n, r) ==
    <<[n |-> n, kind |-> "head", i |-> 0]>>
        \o [i \in 1..Len(r.digits) |-> [n |-> n, kind |-> "digit", i |-> i]]
        \o <<[n |-> n, kind |-> "end", i |-> 0]>>
        \o [i \in 1..r.units |-> [n |-> n, kind |-> "body", i |-> i]]
        \o (IF r.coding = "chunked" THEN <<[n |-> n, kind |-> "last", i |-> 0]>> ELSE <<>>)

VARIABLES
    script,    \* the requests of the peer
    tosend,    \* tokens of the request being sent that are not sent yet
    wire,      \* tokens the socket has for the server
    context,   \* channel->cookie: NoContext, or the request read so far
    answered   \* history: the requests handed to process_request

vars == <<script, tosend, wire, context, answered>>

\* Operators named Wrong... are plausible mistakes in the code, kept to show
\* which property each would break; no specification uses them.
WrongNoContext == [buffer |-> <<>>, url |-> 0, method |-> "none",
                   length |-> NoValue, body |-> <<>>, split |-> {}]

\* `split' says what no other state does: which parts of the request were
\* parsed before they were whole.
NoContext == [buffer |-> <<>>, url |-> 0, method |-> Unset, length |-> NoValue,
              body |-> <<>>, split |-> {}]
Context == [buffer: Seq(Token), url: 0..MaxRequests, method: Methods \cup {Unset},
            length: Nat \cup {NoValue}, body: Seq(Token),
            split: SUBSET {"head", "body"}]

TypeOK ==
    /\ script \in Seq(Requests)
    /\ tosend \in Seq(Token)
    /\ wire \in Seq(Token)
    /\ context \in Context
    /\ answered \in Seq(Context)

Init ==
    /\ script \in {<<r>> : r \in Requests}
    /\ tosend = Tokens(1, script[1])
    /\ wire = <<>>
    /\ context = NoContext
    /\ answered = <<>>

-----------------------------------------------------------------------------
\* The peer.

Send(k) ==
    /\ k <= Len(tosend)
    /\ wire' = wire \o SubSeq(tosend, 1, k)
    /\ tosend' = SubSeq(tosend, k + 1, Len(tosend))
    /\ UNCHANGED <<script, context, answered>>

NextRequest(r) ==
    /\ tosend = <<>> /\ Len(answered) >= Len(script)
    /\ Len(script) < MaxRequests
    /\ script' = Append(script, r)
    /\ tosend' = Tokens(Len(script) + 1, r)
    /\ UNCHANGED <<wire, context, answered>>

-----------------------------------------------------------------------------
\* The callbacks, for one parse of the whole buffer.  A buffer that starts in
\* the middle of a request is an error to the parser, which calls nothing.

OfKind(buffer, kind) ==
    LET upto[i \in 0..Len(buffer)] ==
            IF i = 0 THEN <<>>
            ELSE IF buffer[i].kind = kind THEN Append(upto[i - 1], buffer[i])
            ELSE upto[i - 1]
    IN upto[Len(buffer)]
Parsable(buffer) == buffer[1].kind = "head"

\* on_url: the whole of what has arrived, again each time.
Url(buffer) == Last(OfKind(buffer, "head")).n

\* on_headers_complete, assign_method: request::method has no value before it, nor
\* after it if the method is not in the map.
Method(buffer) ==
    LET named == {t \in Range(OfKind(buffer, "end")) : script[t.n].method # "unknown"}
    IN  IF named = {} THEN Unset ELSE script[Max({t.n : t \in named})].method

\* on_header_value, called with what there is of a value at the end of the
\* buffer too; insert() keeps the first, also when the next request follows.
WrongLength(length, buffer) == NoValue
Length(length, buffer) ==
    LET digits == OfKind(buffer, "digit")
        first == {t \in Range(digits) : t.n = digits[1].n}
    IN  IF length # NoValue \/ digits = <<>> THEN length
        ELSE script[digits[1].n].digits[Max({t.i : t \in first})]

\* on_body appends what there is of the body to what it appended before.
Body(body, buffer) == body \o OfKind(buffer, "body")

Split(buffer) ==
    (IF OfKind(buffer, "end") = <<>> THEN {"head"} ELSE {}) \cup
    (IF OfKind(buffer, "body") # <<>> /\ context.body # <<>> THEN {"body"} ELSE {})

Parsed(buffer) ==
    IF Parsable(buffer)
    THEN [buffer |-> buffer, url |-> Url(buffer), method |-> Method(buffer),
          length |-> Length(context.length, buffer),
          body |-> Body(context.body, buffer),
          split |-> context.split \cup Split(buffer)]
    ELSE [context EXCEPT !.buffer = buffer, !.split = @ \cup {"head"}]

CanHaveBody(method) == method \in {"Put", "Post", "Options"}

\* The int that atoi makes of a number (below LONG_MAX).
Atoi(number) == LET low == number % (2 * IntRange)
                IN  IF low < IntRange THEN low ELSE low - 2 * IntRange

\* Compared as a std::size_t, a negative length is above that of any body.
WrongIsComplete(method, request) ==
    CanHaveBody(method) /\ request.length # NoValue
        => Atoi(request.length) \in 0..(Len(request.body) - 1)
IsComplete(method, request) ==
    CanHaveBody(method) /\ request.length # NoValue
        => Atoi(request.length) \in 0..Len(request.body)

\* handle_connection: a method without a value is read as any.  An answered
\* request's context is deleted with all it had read.
Read ==
    /\ wire # <<>>
    /\ wire' = <<>>
    /\ UNCHANGED <<script, tosend>>
    /\ LET request == Parsed(context.buffer \o wire)
       IN  \E method \in IF request.method = Unset THEN Methods
                                                 ELSE {request.method} :
           IF IsComplete(method, request)
           THEN /\ context' = NoContext
                /\ answered' = Append(answered, request)
           ELSE /\ context' = request
                /\ UNCHANGED answered

\* The peer has all the answers it asked for, or waits for one for ever: the
\* connection stays open.
Next ==
    \/ \E k \in 1..Len(tosend) : Send(k)
    \/ \E r \in Requests : NextRequest(r)
    \/ Read

Spec == Init /\ [][Next]_vars

-----------------------------------------------------------------------------
\* Properties.

\* The request a is what the peer sent as its n-th, whole and once, and no part of
\* it is left to come.
Exact(a, n) ==
    /\ a.url = n /\ a.method = script[n].method
    /\ a.buffer = Tokens(n, script[n])
    /\ a.body = OfKind(Tokens(n, script[n]), "body")

\* An int holds the length that is_complete finds.
Fits(r) == r.digits # <<>> => Last(r.digits) < IntRange

\* Requests of a known method, with no body, or one that the method may have and
\* whose length is_complete finds.
Regular(r) ==
    /\ r.method # "unknown" /\ r.coding = "identity" /\ Fits(r)
    /\ r.units > 0 => CanHaveBody(r.method) /\ r.digits # <<>>

\* Up to the first request that was parsed before its head was whole, had its
\* body parsed twice or is not regular, every request is handed over exactly as it
\* was sent (context::operator(), on_body, on_header_value, is_complete).
ExactUnlessSplit ==
    \A n \in 1..Len(answered) :
        (\A m \in 1..n : m <= Len(script) => /\ answered[m].split = {}
                                             /\ Regular(script[m]))
            => n <= Len(script) /\ Exact(answered[n], n)

\* A request that has arrived as a whole is answered, in however many pieces it
\* came and whatever its method and its coding, if an int holds its length: only
\* the leftovers of one that was answered too early may be in the way
\* (is_complete, handle_connection).
WholeIsAnswered ==
    (/\ tosend = <<>> /\ wire = <<>>
     /\ \A n \in 1..Len(script) : Fits(script[n])
     /\ \A n \in 1..Len(answered) : Exact(answered[n], n))
        => Len(answered) = Len(script)

\* A parser callback may be called any number of times for one string, so the
\* value a field has at the end of the head is the whole value
\* (on_header_value).
HeaderValueWhole ==
    \A n \in 1..Len(answered) :
        answered[n].method # Unset /\ answered[n].length # NoValue =>
            answered[n].length = ContentLength(script[answered[n].url])
=============================================================================
