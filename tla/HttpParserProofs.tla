-------------------------- MODULE HttpParserProofs --------------------------
(***************************************************************************)
(* What HttpParser keeps, proved for all streams, all limits, all cuts and *)
(* all pauses: its types, the count of a header's size, and the assertions *)
(* of http_parser_execute.                                                 *)
(*                                                                         *)
(* The invariant ParserInv says where in http_parser_execute the state and *)
(* the loop that is running agree (Placed), what is known of the lengths,  *)
(* the flags and the field in each state (Sound), that only the text a     *)
(* state reads may be marked (MarksFit), and what has been counted         *)
(* (Counts).  Every action keeps it; most of them by one of a few lemmas   *)
(* about the ways a step may end: Behind, Failed, Arrived, Stopped.        *)
(* Lemma XKeeps says that the action X keeps ParserInv.                    *)
(*                                                                         *)
(* Then the URL: whatever http_parser_parse_url accepts, it splits whole   *)
(* (SplitsWhole), because its fields tile what was read (ScanInv, HostInv).*)
(* The invariant UrlInv says that the state of the parser inside a target  *)
(* is where the automaton comes to on what was heard and read of it, so    *)
(* that a target which was accepted is one that can be split (UrlCorrect). *)
(***************************************************************************)
EXTENDS HttpParser, FiniteSetTheorems, SequenceTheorems, WellFoundedInduction, TLAPS

\* In a call nothing is wrong yet, and the state says which loop is running.
Placed ==
    /\ phase \in {"byte", "fetch", "field", "value", "cut"} => parser.http_errno = "OK"
    /\ phase = "byte" => More
    /\ phase \in {"field", "value"} => start <= p
    /\ phase = "field" => parser.state = "s_header_field"
    /\ phase = "value" => parser.state = "s_header_value"
    /\ phase = "cut" => parser.state \in {"s_header_field", "s_header_value",
                            "s_body_identity", "s_body_identity_eof", "s_chunk_data"}

\* Chunks are read of chunked bodies only, lengths are not yet used up, and a
\* value is read for what its field's name means.
ChunkStates == {"s_chunk_size_start", "s_chunk_size", "s_chunk_parameters",
                "s_chunk_size_almost_done", "s_chunk_data", "s_chunk_data_almost_done",
                "s_chunk_data_done"}
SizeStates == {"s_chunk_size", "s_chunk_parameters", "s_chunk_size_almost_done"}
ValueStates == DOMAIN ConnectionFlag \cup
    {"h_general", "h_content_length", "h_transfer_encoding_chunked",
     "h_matching_connection_token_start", "h_matching_connection_token",
     "h_matching_transfer_encoding_chunked", "h_matching_connection_keep_alive",
     "h_matching_connection_close", "h_matching_connection_upgrade"}
Sound(ps) ==
    /\ ps.state \in ChunkStates => "CHUNKED" \in ps.flags
    /\ ps.state \in SizeStates => ps.content_length < ULLONG_MAX
    /\ ps.state \in {"s_body_identity", "s_chunk_data"} =>
           ps.content_length \notin {0, ULLONG_MAX}
    /\ ps.state = "s_chunk_data_almost_done" => ps.content_length = 0
    /\ ps.state = "s_header_value" => ps.header_state \in ValueStates

\* The text that may be marked in a state.
MarkOf(state, ph) ==
    CASE state = "s_header_field" -> "header_field"
      [] state = "s_header_value" -> "header_value"
      [] state \in UrlStates -> "url"
      [] state = "s_res_status" -> "status"
      [] state \in {"s_chunk_data", "s_chunk_data_almost_done"} -> "body"
      [] state \in {"s_body_identity", "s_body_identity_eof"} /\ ph = "cut" -> "body"
      [] OTHER -> "none"
MarksFit(ms, state, ph) == \A kind \in DataKinds : ms[kind] # 0 => kind = MarkOf(state, ph)

Going == {"OK", "PAUSED"}
Counts ==
    /\ parser.http_errno \in Going =>
           /\ parser.nread <= HTTP_MAX_HEADER_SIZE
           /\ ParsingHeader(parser.state) => parser.nread = Counting - began + extra
           /\ parser.state = "s_chunk_size_start" =>
                  parser.nread = IF phase = "byte" THEN 1 ELSE 0
    /\ parser.http_errno = "HEADER_OVERFLOW" => p + 1 - began + extra > HTTP_MAX_HEADER_SIZE

ParserInv == /\ TypeOK /\ Placed /\ Sound(parser) /\ MarksFit(marks, parser.state, phase)
             /\ Counts

\* What the constants are.
LEMMA Bounds ==
    /\ HTTP_MAX_HEADER_SIZE \in Nat /\ ULLONG_MAX \in Nat /\ ULLONG_MAX >= 16
    /\ MaxCuts \in Nat /\ MaxPauses \in Nat
BY ParserAssumption

\* The end of a stream is a position.
LEMMA EndIsNumber == ASSUME TypeOK PROVE Len(Text_) \in Nat
BY StreamsAssumption DEF TypeOK, Text_

\* With nothing marked, nothing is marked wrongly.
LEMMA NothingMarked ==
    /\ NoMarks \in [DataKinds -> Nat]
    /\ \A state, ph : MarksFit(NoMarks, state, ph)
BY DEF NoMarks, MarksFit

\* Only the error of a parser is set.
LEMMA Erring ==
    ASSUME NEW ps \in Parser, NEW errno \in Errors, NEW u, u = [ps EXCEPT !.http_errno = errno]
    PROVE  /\ u \in Parser /\ u.http_errno = errno /\ (Sound(ps) => Sound(u))
           /\ u.state = ps.state /\ u.nread = ps.nread
<1>1. u \in Parser BY DEF Parser
<1>2. /\ u.http_errno = errno /\ u.state = ps.state /\ u.nread = ps.nread
      /\ u.flags = ps.flags /\ u.content_length = ps.content_length
      /\ u.header_state = ps.header_state
  BY DEF Parser
<1> QED BY <1>1, <1>2 DEF Sound

\* An error other than those that are counted or waited for.
LEMMA Failed ==
    ASSUME ParserInv, phase = "byte", NEW errno \in Errors,
           errno \notin Going \cup {"HEADER_OVERFLOW"}, Fail(errno)
    PROVE  ParserInv'
<1> DEFINE ps == [parser EXCEPT !.http_errno = errno]
<1>1. /\ parser' = ps /\ phase' = "idle" /\ p' = p /\ marks' = NoMarks
      /\ UNCHANGED <<stream, start, cuts, extra, began, pauses>>
  BY DEF Fail, Return, Quiet, Same, Steady
<1>2. /\ ps \in Parser /\ ps.http_errno = errno /\ Sound(ps) /\ ps.state = parser.state
  BY Erring DEF ParserInv, TypeOK
<1> HIDE DEF ps
<1>3. TypeOK' BY <1>1, <1>2, NothingMarked DEF ParserInv, TypeOK, Text_, Phases
<1>4. Sound(parser)' BY <1>1, <1>2
<1>5. Placed' BY <1>1 DEF Placed
<1>6. MarksFit(marks, parser.state, phase)' BY <1>1, NothingMarked
<1>7. Counts' BY <1>1, <1>2 DEF Counts
<1> QED BY <1>3, <1>4, <1>5, <1>6, <1>7 DEF ParserInv

\* A character of a header is read, and it may have been the last of a text.
LEMMA Behind ==
    ASSUME ParserInv, phase = "byte", ParsingHeader(parser.state),
           NEW ps \in Parser, Sound(ps), ps.http_errno = "OK", ps.nread = parser.nread,
           ps.state # "s_chunk_size_start",
           NEW left \in [DataKinds -> Nat], MarksFit(left, ps.state, "fetch"),
           Resumable(ps, p + 1, "fetch", left), Same
    PROVE  ParserInv'
<1>1. /\ p' = p + 1 /\ phase' \in {"fetch", "idle"}
      /\ UNCHANGED <<stream, start, cuts, extra, began>>
  BY DEF Resumable, Same, Steady
<1>2. /\ parser' \in Parser /\ Sound(parser') /\ parser'.nread = parser.nread
      /\ parser'.state = ps.state
      /\ IF phase' = "fetch" THEN parser'.http_errno = "OK" /\ marks' = left
                             ELSE parser'.http_errno = "PAUSED" /\ marks' = NoMarks
      /\ pauses' \in 0..MaxPauses
  <2>1. CASE parser' = ps /\ phase' = "fetch" /\ marks' = left /\ UNCHANGED pauses
    BY <2>1 DEF ParserInv, TypeOK
  <2>2. CASE /\ pauses < MaxPauses /\ pauses' = pauses + 1
             /\ parser' = [ps EXCEPT !.http_errno = "PAUSED"]
             /\ phase' = "idle" /\ marks' = NoMarks
    <3>1. pauses' \in 0..MaxPauses BY <2>2, Bounds DEF ParserInv, TypeOK
    <3> DEFINE u == [ps EXCEPT !.http_errno = "PAUSED"]
    <3>4. "PAUSED" \in Errors BY DEF Errors
    <3>2. /\ u \in Parser /\ u.http_errno = "PAUSED" /\ Sound(u)
          /\ u.state = ps.state /\ u.nread = ps.nread
      BY <3>4, Erring
    <3>3. parser' = u BY <2>2
    <3> HIDE DEF u
    <3> QED BY <2>2, <3>1, <3>2, <3>3
  <2> QED BY <2>1, <2>2 DEF Resumable
<1>3. TypeOK'
  <2>1. p \in 1..Len(Text_) BY EndIsNumber DEF ParserInv, TypeOK, Placed, More
  <2>2. p' \in 1..(Len(Text_) + 1) BY <1>1, <2>1, EndIsNumber DEF ParserInv
  <2> QED BY <1>1, <1>2, <2>2, NothingMarked DEF ParserInv, TypeOK, Text_, Phases
<1>4. Placed' BY <1>1, <1>2 DEF Placed
<1>5. MarksFit(marks, parser.state, phase)' BY <1>1, <1>2, NothingMarked
<1>6. Counts'
  <2>1. /\ parser.http_errno = "OK" /\ Counting = p + 1 /\ Counting' = p + 1
    BY <1>1 DEF ParserInv, Placed, Counting
  <2> QED BY <1>1, <1>2, <2>1 DEF ParserInv, Counts, Going, Counting
<1> QED BY <1>2, <1>3, <1>4, <1>5, <1>6 DEF ParserInv

\* A character of a header is read again, in another state.
LEMMA Again ==
    ASSUME ParserInv, phase = "byte", ParsingHeader(parser.state),
           NEW ps \in Parser, Sound(ps), ps.http_errno = "OK", ps.nread = parser.nread,
           ps.state # "s_chunk_size_start",
           NEW left \in [DataKinds -> Nat], MarksFit(left, ps.state, "byte"),
           Resumable(ps, p, "byte", left), Twice
    PROVE  ParserInv'
<1>1. /\ p' = p /\ phase' \in {"byte", "idle"} /\ UNCHANGED <<stream, start, cuts, began>>
      /\ extra' = IF pauses' > pauses THEN extra + 1 ELSE extra
  BY DEF Resumable, Twice, Steady
<1>2. /\ parser' \in Parser /\ Sound(parser') /\ parser'.nread = parser.nread
      /\ parser'.state = ps.state
      /\ IF phase' = "byte"
         THEN parser'.http_errno = "OK" /\ marks' = left /\ pauses' = pauses
         ELSE parser'.http_errno = "PAUSED" /\ marks' = NoMarks /\ pauses' > pauses
      /\ pauses' \in 0..MaxPauses
  <2>1. CASE parser' = ps /\ phase' = "byte" /\ marks' = left /\ UNCHANGED pauses
    BY <2>1 DEF ParserInv, TypeOK
  <2>2. CASE /\ pauses < MaxPauses /\ pauses' = pauses + 1
             /\ parser' = [ps EXCEPT !.http_errno = "PAUSED"]
             /\ phase' = "idle" /\ marks' = NoMarks
    <3>1. pauses' \in 0..MaxPauses /\ pauses' > pauses
      BY <2>2, Bounds DEF ParserInv, TypeOK
    <3> DEFINE u == [ps EXCEPT !.http_errno = "PAUSED"]
    <3>4. "PAUSED" \in Errors BY DEF Errors
    <3>2. /\ u \in Parser /\ u.http_errno = "PAUSED" /\ Sound(u)
          /\ u.state = ps.state /\ u.nread = ps.nread
      BY <3>4, Erring
    <3>3. parser' = u BY <2>2
    <3> HIDE DEF u
    <3> QED BY <2>2, <3>1, <3>2, <3>3
  <2> QED BY <2>1, <2>2 DEF Resumable
<1>7. extra \in Int /\ extra' \in Int /\ pauses \in Nat
      /\ extra' = IF phase' = "byte" THEN extra ELSE extra + 1
  BY <1>1, <1>2 DEF ParserInv, TypeOK
<1>3. TypeOK' BY <1>1, <1>2, <1>7, NothingMarked DEF ParserInv, TypeOK, Text_, Phases
<1>4. Placed' BY <1>1, <1>2 DEF ParserInv, Placed, More, Text_
<1>5. MarksFit(marks, parser.state, phase)' BY <1>1, <1>2, NothingMarked
<1>6. Counts'
  <2>1. /\ parser.http_errno = "OK" /\ Counting = p + 1
        /\ Counting' = IF phase' = "byte" THEN p + 1 ELSE p
    BY <1>1 DEF ParserInv, Placed, Counting
  <2>2. /\ parser.nread <= HTTP_MAX_HEADER_SIZE /\ parser.nread = p + 1 - began + extra
        /\ p \in Int /\ began \in Int
    BY <2>1 DEF ParserInv, Counts, Going, TypeOK
  <2> QED BY <1>1, <1>2, <1>7, <2>1, <2>2 DEF Counts, Going
<1> QED BY <1>2, <1>3, <1>4, <1>5, <1>6 DEF ParserInv

-----------------------------------------------------------------------------
\* States of a header in which the length, the chunks and the field do not
\* matter, and those of them in which nothing is marked.
Plain == States \ (BodyStates \cup ChunkStates \cup {"s_header_value"})
Bare == Plain \ (UrlStates \cup {"s_header_field", "s_res_status"})

\* What Sound asks is asked of none of them.
LEMMA PlainIsSound ==
    ASSUME NEW ps, ps.state \in Plain
    PROVE  Sound(ps) /\ ParsingHeader(ps.state) /\ ps.state # "s_chunk_size_start"
BY DEF Plain, Sound, ParsingHeader, BodyStates, ChunkStates, SizeStates

LEMMA BareIsPlain == Bare \subseteq Plain
BY DEF Bare

\* Where nothing may be marked, nothing is.
LEMMA Unmarked ==
    ASSUME NEW ms, NEW state, NEW ph, MarksFit(ms, state, ph), MarkOf(state, ph) = "none"
    PROVE  \A other, when : MarksFit(ms, other, when)
<1>1. "none" \notin DataKinds BY DEF DataKinds
<1> QED BY <1>1 DEF MarksFit

\* Where the text of no callback is read, the marks fit any state.
LEMMA BareIsUnmarked ==
    ASSUME ParserInv, phase = "byte", parser.state \in Bare
    PROVE  /\ marks \in [DataKinds -> Nat]
           /\ \A state, ph : MarksFit(marks, state, ph)
<1>1. MarkOf(parser.state, phase) = "none"
  BY DEF MarkOf, Bare, Plain, BodyStates, ChunkStates
<1>2. MarksFit(marks, parser.state, phase) /\ marks \in [DataKinds -> Nat]
  BY DEF ParserInv, TypeOK
<1> QED BY <1>1, <1>2, Unmarked

\* What is marked is announced, and not marked any more.
LEMMA Unmarking ==
    ASSUME NEW ms \in [DataKinds -> Nat], NEW state, NEW ph, NEW kind,
           MarksFit(ms, state, ph), MarkOf(state, ph) = kind
    PROVE  /\ [ms EXCEPT ![kind] = 0] \in [DataKinds -> Nat]
           /\ \A other, when : MarksFit([ms EXCEPT ![kind] = 0], other, when)
BY DEF MarksFit

\* A parser that goes on, and has counted no more.
Onward(ps) == ps \in Parser /\ ps.http_errno = "OK" /\ ps.nread = parser.nread

\* What is known at the head of the switch.
LEMMA InCall ==
    ASSUME ParserInv, phase = "byte"
    PROVE  /\ parser \in Parser /\ parser.http_errno = "OK" /\ Onward(parser)
           /\ More /\ p \in 1..Len(Text_) /\ Len(Text_) \in Nat
BY EndIsNumber DEF ParserInv, Placed, TypeOK, More, Onward

\* A callback between texts, and the next character.
LEMMA Announced ==
    ASSUME ParserInv, phase = "byte", parser.state \in Bare,
           NEW ps, Onward(ps), ps.state \in Plain, Same,
           Resumable(ps, p + 1, "fetch", marks)
    PROVE  ParserInv'
<1>1. ParsingHeader(parser.state) BY PlainIsSound, BareIsPlain
<1>2. Sound(ps) /\ ps.state # "s_chunk_size_start" BY PlainIsSound
<1>3. ps \in Parser /\ ps.http_errno = "OK" /\ ps.nread = parser.nread BY DEF Onward
<1>4. marks \in [DataKinds -> Nat] /\ MarksFit(marks, ps.state, "fetch") BY BareIsUnmarked
<1> DEFINE left == marks
<1>5. left \in [DataKinds -> Nat] /\ MarksFit(left, ps.state, "fetch") BY <1>4
<1>6. Resumable(ps, p + 1, "fetch", left) OBVIOUS
<1> HIDE DEF left
<1> QED BY <1>1, <1>2, <1>3, <1>5, <1>6, Behind

\* A character that ends no text, and the next one.
LEMMA Consumed ==
    ASSUME ParserInv, phase = "byte", parser.state \in Bare,
           NEW ps, Onward(ps), ps.state \in Plain, Consume(ps)
    PROVE  ParserInv'
<1>1. Resumable(ps, p + 1, "fetch", marks) /\ Same BY DEF Consume, Resumable, Quiet
<1> QED BY <1>1, Announced

\* A callback behind which the character is read again.
LEMMA Reread ==
    ASSUME ParserInv, phase = "byte", parser.state \in Bare,
           NEW ps, Onward(ps), ps.state \in Plain, Twice, Resumable(ps, p, "byte", marks)
    PROVE  ParserInv'
<1>1. ParsingHeader(parser.state) BY PlainIsSound, BareIsPlain
<1>2. Sound(ps) /\ ps.state # "s_chunk_size_start" BY PlainIsSound
<1>3. ps \in Parser /\ ps.http_errno = "OK" /\ ps.nread = parser.nread BY DEF Onward
<1>4. marks \in [DataKinds -> Nat] /\ MarksFit(marks, ps.state, "byte") BY BareIsUnmarked
<1> DEFINE left == marks
<1>5. left \in [DataKinds -> Nat] /\ MarksFit(left, ps.state, "byte") BY <1>4
<1>6. Resumable(ps, p, "byte", left) OBVIOUS
<1> HIDE DEF left
<1> QED BY <1>1, <1>2, <1>3, <1>5, <1>6, Again

\* REEXECUTE of a character, where nothing is marked.
LEMMA Reexecuted ==
    ASSUME ParserInv, phase = "byte", parser.state \in Bare,
           NEW ps, Onward(ps), ps.state \in Plain, Reexecute(ps)
    PROVE  ParserInv'
<1>1. Resumable(ps, p, "byte", marks) BY DEF Reexecute, Resumable, Quiet
<1>2. Twice
  <2>1. pauses \in Nat BY DEF ParserInv, TypeOK
  <2> QED BY <2>1 DEF Reexecute, Quiet, Same, Twice
<1> QED BY <1>1, <1>2, Reread

\* A text has ended.
LEMMA Told ==
    ASSUME ParserInv, phase = "byte", parser.state \in Plain,
           NEW kind, MarkOf(parser.state, "byte") = kind, NEW upto,
           NEW ps, Onward(ps), ps.state \in Plain, Same,
           Data(kind, upto, ps, p + 1, "fetch")
    PROVE  ParserInv'
<1> DEFINE left == [marks EXCEPT ![kind] = 0]
<1>1. ParsingHeader(parser.state) BY PlainIsSound
<1>2. Sound(ps) /\ ps.state # "s_chunk_size_start" BY PlainIsSound
<1>3. ps \in Parser /\ ps.http_errno = "OK" /\ ps.nread = parser.nread BY DEF Onward
<1>4. left \in [DataKinds -> Nat] /\ MarksFit(left, ps.state, "fetch")
  <2>1. marks \in [DataKinds -> Nat] /\ MarksFit(marks, parser.state, "byte")
    BY DEF ParserInv, TypeOK
  <2> QED BY <2>1, Unmarking
<1>5. Resumable(ps, p + 1, "fetch", left) BY DEF Data, Resumable, Quiet
<1> HIDE DEF left
<1> QED BY <1>1, <1>2, <1>3, <1>4, <1>5, Behind

\* What the digits are.
LEMMA Digit == ASSUME NEW c \in IsNum PROVE DigitValue(c) \in 0..9
<1>1. \E value \in 0..9 : c \in HexDigits[value + 1] BY DEF IsNum, HexDigits
<1> QED BY <1>1 DEF DigitValue

\* A hexadecimal digit is less than its base.
LEMMA HexDigit == ASSUME NEW c \in IsHex PROVE Unhex(c) \in 0..15
<1>1. PICK i \in 1..16 : c \in HexDigits[i] BY DEF IsHex
<1>2. i - 1 \in 0..15 /\ c \in HexDigits[(i - 1) + 1] BY <1>1
<1>3. \E value \in 0..15 : c \in HexDigits[value + 1] BY <1>2
<1> QED BY <1>3 DEF Unhex

-----------------------------------------------------------------------------
\* The first line.

\* The states of the first line and between the fields.
LEMMA BareStates ==
    {"s_dead", "s_start_req_or_res", "s_res_or_resp_H", "s_start_res",
     "s_res_first_http_major", "s_res_http_major", "s_res_first_http_minor",
     "s_res_http_minor", "s_res_first_status_code", "s_res_status_code",
     "s_res_status_start", "s_start_req", "s_req_method", "s_req_spaces_before_url",
     "s_req_http_start", "s_req_first_http_major", "s_req_http_major",
     "s_req_first_http_minor", "s_req_http_minor", "s_req_line_almost_done",
     "s_header_field_start", "s_header_value_discard_ws", "s_header_value_discard_lws",
     "s_header_value_start", "s_header_value_lws", "s_headers_almost_done",
     "s_headers_done"} \cup DOMAIN Literal \subseteq Bare
BY DEF Bare, Plain, States, BodyStates, UrlStates, ChunkStates, Literal

LEMMA PlainStates ==
    /\ Bare \subseteq Plain /\ UrlStates \subseteq Plain /\ Plain \subseteq States
    /\ {"s_header_field", "s_res_status"} \subseteq Plain
BY DEF Bare, Plain, States, BodyStates, UrlStates, ChunkStates

\* To() changes the state only.
LEMMA Moved ==
    ASSUME ParserInv, phase = "byte", NEW state \in Plain
    PROVE  Onward(To(state)) /\ To(state).state = state
<1>1. state \in States /\ parser \in Parser /\ Onward(parser) BY InCall, PlainStates
<1> QED BY <1>1 DEF To, Onward, Parser

\* An error that a case of the switch finds.
LEMMA Refused ==
    ASSUME ParserInv, phase = "byte", NEW errno, Fail(errno),
           errno \in {"CLOSED_CONNECTION", "INVALID_VERSION", "INVALID_STATUS",
                      "INVALID_METHOD", "INVALID_URL", "LF_EXPECTED", "STRICT",
                      "INVALID_HEADER_TOKEN", "INVALID_CONTENT_LENGTH",
                      "INVALID_CHUNK_SIZE", "INVALID_CONSTANT"}
    PROVE  ParserInv'
<1>1. errno \in Errors /\ errno \notin Going \cup {"HEADER_OVERFLOW"} BY DEF Errors, Going
<1> QED BY <1>1, Failed

\* What a message starts with.
LEMMA Fresh_ ==
    ASSUME ParserInv, phase = "byte"
    PROVE  Onward(Fresh(parser)) /\ Fresh(parser).state = parser.state
<1>1. ULLONG_MAX \in 0..ULLONG_MAX BY Bounds
<1>2. parser \in Parser /\ Onward(parser) BY InCall
<1> QED BY <1>1, <1>2 DEF Fresh, Onward, Parser

LEMMA DeadKeeps == ASSUME ParserInv, Dead PROVE ParserInv'
<1>1. phase = "byte" /\ parser.state \in Bare BY BareStates DEF Dead, In
<1>2. CASE ch \in LineEnd
  <2>1. Consume(parser) BY <1>2 DEF Dead
  <2> QED BY <1>1, <2>1, InCall, PlainStates, Consumed
<1>3. CASE ch \notin LineEnd
  <2>1. Fail("CLOSED_CONNECTION") BY <1>3 DEF Dead
  <2> QED BY <1>1, <2>1, Refused
<1> QED BY <1>2, <1>3

LEMMA StartReqOrResKeeps == ASSUME ParserInv, StartReqOrRes PROVE ParserInv'
<1>1. phase = "byte" /\ parser.state \in Bare BY BareStates DEF StartReqOrRes, In
<1>2. Onward(Fresh(parser)) BY <1>1, Fresh_
<1>3. CASE ch \in LineEnd
  <2>2. ch # "H" BY <1>3 DEF LineEnd, CR, LF
  <2>1. Consume(parser) BY <1>3, <2>2 DEF StartReqOrRes
  <2> QED BY <1>1, <2>1, InCall, PlainStates, Consumed
<1>4. CASE ch \notin LineEnd /\ ch = "H"
  <2> DEFINE ps == [Fresh(parser) EXCEPT !.state = "s_res_or_resp_H"]
  <2>1. Resumable(ps, p + 1, "fetch", marks) /\ Same BY <1>4 DEF StartReqOrRes, Notify
  <2>2. "s_res_or_resp_H" \in States /\ "s_res_or_resp_H" \in Plain BY BareStates, PlainStates
  <2>3. Onward(ps) /\ ps.state \in Plain BY <1>2, <2>2 DEF Onward, Parser
  <2> HIDE DEF ps
  <2> QED BY <1>1, <2>1, <2>3, Announced
<1>5. CASE ch \notin LineEnd /\ ch # "H"
  <2> DEFINE ps == [Fresh(parser) EXCEPT !.type = "REQUEST", !.state = "s_start_req"]
  <2>1. Reexecute(ps) BY <1>5 DEF StartReqOrRes
  <2>2. "s_start_req" \in States /\ "s_start_req" \in Plain BY BareStates, PlainStates
  <2>3. Onward(ps) /\ ps.state \in Plain BY <1>2, <2>2 DEF Onward, Parser
  <2> HIDE DEF ps
  <2> QED BY <1>1, <2>1, <2>3, Reexecuted
<1> QED BY <1>3, <1>4, <1>5

LEMMA ResOrRespHKeeps == ASSUME ParserInv, ResOrRespH PROVE ParserInv'
<1>1. phase = "byte" /\ parser.state \in Bare BY BareStates DEF ResOrRespH, In
<1>2. Onward(parser) /\ parser \in Parser BY <1>1, InCall
<1>3. CASE ch = "T"
  <2> DEFINE ps == [To("s_res_HT") EXCEPT !.type = "RESPONSE"]
  <2>1. Consume(ps) BY <1>3 DEF ResOrRespH
  <2>2. "s_res_HT" \in Plain BY BareStates, PlainStates DEF Literal
  <2>3. Onward(To("s_res_HT")) /\ To("s_res_HT").state = "s_res_HT" BY <1>1, <2>2, Moved
  <2>4. Onward(ps) /\ ps.state \in Plain BY <2>2, <2>3 DEF Onward, Parser
  <2> HIDE DEF ps
  <2> QED BY <1>1, <2>1, <2>4, Consumed
<1>4. CASE ch = "E"
  <2> DEFINE ps == [To("s_req_method") EXCEPT !.type = "REQUEST", !.method = "HEAD",
                                              !.index = 2]
  <2>1. Consume(ps) BY <1>4 DEF ResOrRespH
  <2>2. "s_req_method" \in Plain BY BareStates, PlainStates
  <2>3. Onward(To("s_req_method")) /\ To("s_req_method").state = "s_req_method"
    BY <1>1, <2>2, Moved
  <2>4. "HEAD" \in MethodNames
    <3>1. "H" \in DOMAIN FirstMethod /\ FirstMethod["H"] = "HEAD" BY DEF FirstMethod
    <3> QED BY <3>1 DEF MethodNames
  <2>5. Onward(ps) /\ ps.state \in Plain BY <2>2, <2>3, <2>4 DEF Onward, Parser
  <2> HIDE DEF ps
  <2> QED BY <1>1, <2>1, <2>5, Consumed
<1>5. CASE ch \notin {"T", "E"}
  <2>1. Fail("INVALID_CONSTANT") BY <1>5 DEF ResOrRespH
  <2> QED BY <1>1, <2>1, Refused
<1> QED BY <1>3, <1>4, <1>5

LEMMA StartResKeeps == ASSUME ParserInv, StartRes PROVE ParserInv'
<1>1. phase = "byte" /\ parser.state \in Bare BY BareStates DEF StartRes, In
<1>2. Onward(Fresh(parser)) /\ Fresh(parser).state = parser.state BY <1>1, Fresh_
<1>3. CASE ch \in {"H"} \cup LineEnd
  <2> DEFINE ps == [Fresh(parser) EXCEPT !.state = IF ch = "H" THEN "s_res_H" ELSE @]
  <2>1. Resumable(ps, p + 1, "fetch", marks) /\ Same BY <1>3 DEF StartRes, Notify
  <2>2. "s_res_H" \in States /\ "s_res_H" \in Plain BY BareStates, PlainStates DEF Literal
  <2>3. parser.state \in Plain /\ parser.state \in States BY <1>1, PlainStates
  <2>4. Onward(ps) /\ ps.state \in Plain BY <1>2, <2>2, <2>3 DEF Onward, Parser
  <2> HIDE DEF ps
  <2> QED BY <1>1, <2>1, <2>4, Announced
<1>4. CASE ch \notin {"H"} \cup LineEnd
  <2>1. Fail("INVALID_CONSTANT") BY <1>4 DEF StartRes
  <2> QED BY <1>1, <2>1, Refused
<1> QED BY <1>3, <1>4

LEMMA StartReqKeeps == ASSUME ParserInv, StartReq PROVE ParserInv'
<1>1. phase = "byte" /\ parser.state \in Bare BY BareStates DEF StartReq, In
<1>2. Onward(Fresh(parser)) BY <1>1, Fresh_
<1>3. CASE ch \in LineEnd
  <2>2. ch \notin DOMAIN FirstMethod BY <1>3 DEF LineEnd, CR, LF, FirstMethod
  <2>1. Consume(parser) BY <1>3, <2>2 DEF StartReq
  <2> QED BY <1>1, <2>1, InCall, PlainStates, Consumed
<1>4. CASE ch \notin LineEnd /\ ch \in DOMAIN FirstMethod
  <2> DEFINE ps == [Fresh(parser) EXCEPT !.method = FirstMethod[ch], !.index = 1,
                                         !.state = "s_req_method"]
  <2>1. Resumable(ps, p + 1, "fetch", marks) /\ Same BY <1>4 DEF StartReq, Notify
  <2>2. "s_req_method" \in States /\ "s_req_method" \in Plain BY BareStates, PlainStates
  <2>3. FirstMethod[ch] \in MethodNames BY <1>4 DEF MethodNames
  <2>4. Onward(ps) /\ ps.state \in Plain BY <1>2, <2>2, <2>3 DEF Onward, Parser
  <2> HIDE DEF ps
  <2> QED BY <1>1, <2>1, <2>4, Announced
<1>5. CASE ch \notin LineEnd /\ ch \notin DOMAIN FirstMethod
  <2>1. Fail("INVALID_METHOD") BY <1>5 DEF StartReq
  <2> QED BY <1>1, <2>1, Refused
<1> QED BY <1>3, <1>4, <1>5

LEMMA ReadStartKeeps == ASSUME ParserInv, ReadStart PROVE ParserInv'
BY DeadKeeps, StartReqOrResKeeps, ResOrRespHKeeps, StartResKeeps, StartReqKeeps DEF ReadStart

\* What a number of the first line is after another digit.
LEMMA Numbers ==
    ASSUME ParserInv, phase = "byte", ch \in IsNum
    PROVE  /\ DigitValue(ch) \in Nat
           /\ Number(parser, "http_major") \in Nat
           /\ Number(parser, "http_minor") \in Nat
           /\ Number(parser, "status_code") \in Nat
<1>1. DigitValue(ch) \in 0..9 BY Digit
<1> DEFINE d == DigitValue(ch)
<1>2. d \in Nat BY <1>1
<1>3. /\ parser.http_major \in Nat /\ parser.http_minor \in Nat /\ parser.status_code \in Nat
  BY InCall DEF Parser
<1> HIDE DEF d
<1>4. /\ 10 * parser.http_major + d \in Nat /\ 10 * parser.http_minor + d \in Nat
      /\ 10 * parser.status_code + d \in Nat
  BY <1>2, <1>3
<1> QED BY <1>2, <1>4 DEF Number, d

LEMMA ReadLiteralKeeps == ASSUME ParserInv, ReadLiteral PROVE ParserInv'
<1>1. phase = "byte" /\ parser.state \in Bare /\ parser.state \in DOMAIN Literal
  BY BareStates DEF ReadLiteral
<1> DEFINE want == Literal[parser.state]
<1>2. want[2] \in Plain
  <2>1. want[2] \in DOMAIN Literal \cup {"s_res_first_http_major", "s_req_first_http_major",
            "s_header_field_start", "s_header_value_lws", "s_header_value_discard_lws"}
    BY <1>1 DEF Literal
  <2> QED BY <2>1, BareStates, PlainStates
<1>3. CASE ch = want[1]
  <2>1. Consume(To(want[2])) BY <1>3 DEF ReadLiteral, Strict
  <2>2. Onward(To(want[2])) /\ To(want[2]).state \in Plain BY <1>1, <1>2, Moved
  <2> QED BY <1>1, <2>1, <2>2, Consumed
<1>4. CASE ch # want[1]
  <2>1. Fail("STRICT") BY <1>4 DEF ReadLiteral, Strict
  <2> QED BY <1>1, <2>1, Refused
<1> QED BY <1>3, <1>4

LEMMA FirstMajorKeeps == ASSUME ParserInv, FirstMajor PROVE ParserInv'
<1>1. phase = "byte" /\ parser.state \in Bare BY BareStates DEF FirstMajor
<1>2. Onward(parser) BY <1>1, InCall
<1> DEFINE good == ch \in IsNum /\ ~(parser.state = "s_req_first_http_major" /\ ch = "0")
<1>3. CASE good
  <2> DEFINE ps == [parser EXCEPT !.http_major = DigitValue(ch),
                        !.state = IF @ = "s_res_first_http_major"
                                  THEN "s_res_http_major" ELSE "s_req_http_major"]
  <2>1. Consume(ps) BY <1>3 DEF FirstMajor
  <2>2. {"s_res_http_major", "s_req_http_major"} \subseteq Plain /\ Plain \subseteq States
    BY BareStates, PlainStates
  <2>3. DigitValue(ch) \in Nat BY <1>1, <1>3, Numbers
  <2>4. Onward(ps) /\ ps.state \in Plain BY <1>2, <2>2, <2>3 DEF Onward, Parser
  <2> HIDE DEF ps
  <2> QED BY <1>1, <2>1, <2>4, Consumed
<1>4. CASE ~good
  <2>1. Fail("INVALID_VERSION") BY <1>4 DEF FirstMajor
  <2> QED BY <1>1, <2>1, Refused
<1> QED BY <1>3, <1>4

LEMMA MajorKeeps == ASSUME ParserInv, Major PROVE ParserInv'
<1>1. phase = "byte" /\ parser.state \in Bare BY BareStates DEF Major
<1>2. Onward(parser) /\ parser.state \in Plain BY <1>1, InCall, PlainStates
<1> DEFINE good == ch \in IsNum /\ Number(parser, "http_major") <= MaxVersion
<1>3. CASE ch = "."
  <2> DEFINE state == IF parser.state = "s_res_http_major" THEN "s_res_first_http_minor"
                                                           ELSE "s_req_first_http_minor"
  <2>1. ch \notin IsNum BY <1>3 DEF IsNum
  <2>2. Consume(To(state)) BY <1>3, <2>1 DEF Major
  <2>3. state \in Plain BY BareStates, PlainStates
  <2> HIDE DEF state
  <2>4. Onward(To(state)) /\ To(state).state \in Plain BY <1>1, <2>3, Moved
  <2> QED BY <1>1, <2>2, <2>4, Consumed
<1>4. CASE ch # "." /\ good
  <2> DEFINE ps == [parser EXCEPT !.http_major = Number(parser, "http_major")]
  <2>1. Consume(ps) BY <1>4 DEF Major
  <2>2. Number(parser, "http_major") \in Nat BY <1>1, <1>4, Numbers
  <2>3. Onward(ps) /\ ps.state \in Plain BY <1>2, <2>2 DEF Onward, Parser
  <2> HIDE DEF ps
  <2> QED BY <1>1, <2>1, <2>3, Consumed
<1>5. CASE ch # "." /\ ~good
  <2>1. Fail("INVALID_VERSION") BY <1>5 DEF Major
  <2> QED BY <1>1, <2>1, Refused
<1> QED BY <1>3, <1>4, <1>5

LEMMA FirstMinorKeeps == ASSUME ParserInv, FirstMinor PROVE ParserInv'
<1>1. phase = "byte" /\ parser.state \in Bare BY BareStates DEF FirstMinor
<1>2. Onward(parser) BY <1>1, InCall
<1>3. CASE ch \in IsNum
  <2> DEFINE ps == [parser EXCEPT !.http_minor = DigitValue(ch),
                        !.state = IF @ = "s_res_first_http_minor"
                                  THEN "s_res_http_minor" ELSE "s_req_http_minor"]
  <2>1. Consume(ps) BY <1>3 DEF FirstMinor
  <2>2. {"s_res_http_minor", "s_req_http_minor"} \subseteq Plain /\ Plain \subseteq States
    BY BareStates, PlainStates
  <2>3. DigitValue(ch) \in Nat BY <1>1, <1>3, Numbers
  <2>4. Onward(ps) /\ ps.state \in Plain BY <1>2, <2>2, <2>3 DEF Onward, Parser
  <2> HIDE DEF ps
  <2> QED BY <1>1, <2>1, <2>4, Consumed
<1>4. CASE ch \notin IsNum
  <2>1. Fail("INVALID_VERSION") BY <1>4 DEF FirstMinor
  <2> QED BY <1>1, <2>1, Refused
<1> QED BY <1>3, <1>4

LEMMA MinorKeeps == ASSUME ParserInv, Minor PROVE ParserInv'
<1>1. phase = "byte" /\ parser.state \in Bare BY BareStates DEF Minor
<1>2. Onward(parser) /\ parser.state \in Plain BY <1>1, InCall, PlainStates
<1> DEFINE good == ch \in IsNum /\ Number(parser, "http_minor") <= MaxVersion
           res == parser.state = "s_res_http_minor" /\ ch = " "
           cr == parser.state = "s_req_http_minor" /\ ch = CR
           lf == parser.state = "s_req_http_minor" /\ ch = LF
<1>3. CASE res \/ cr \/ lf
  <2> DEFINE state == CASE res -> "s_res_first_status_code"
                        [] cr -> "s_req_line_almost_done"
                        [] OTHER -> "s_header_field_start"
  <2>1. ch \notin IsNum BY <1>3 DEF IsNum, CR, LF
  <2>2. (res => ~cr /\ ~lf) /\ (cr => ~lf) BY DEF CR, LF
  <2>3. Consume(To(state)) BY <1>3, <2>1, <2>2 DEF Minor
  <2>4. state \in Plain BY BareStates, PlainStates
  <2> HIDE DEF state
  <2>5. Onward(To(state)) /\ To(state).state \in Plain BY <1>1, <2>4, Moved
  <2> QED BY <1>1, <2>3, <2>5, Consumed
<1>4. CASE ~(res \/ cr \/ lf) /\ good
  <2> DEFINE ps == [parser EXCEPT !.http_minor = Number(parser, "http_minor")]
  <2>1. Consume(ps) BY <1>4 DEF Minor
  <2>2. Number(parser, "http_minor") \in Nat BY <1>1, <1>4, Numbers
  <2>3. Onward(ps) /\ ps.state \in Plain BY <1>2, <2>2 DEF Onward, Parser
  <2> HIDE DEF ps
  <2> QED BY <1>1, <2>1, <2>3, Consumed
<1>5. CASE ~(res \/ cr \/ lf) /\ ~good
  <2>1. Fail("INVALID_VERSION") BY <1>5 DEF Minor
  <2> QED BY <1>1, <2>1, Refused
<1> QED BY <1>3, <1>4, <1>5

LEMMA FirstStatusCodeKeeps == ASSUME ParserInv, FirstStatusCode PROVE ParserInv'
<1>1. phase = "byte" /\ parser.state \in Bare BY BareStates DEF FirstStatusCode, In
<1>2. Onward(parser) /\ parser.state \in Plain BY <1>1, InCall, PlainStates
<1>3. CASE ch \in IsNum
  <2> DEFINE ps == [To("s_res_status_code") EXCEPT !.status_code = DigitValue(ch)]
  <2>5. ch # " " BY <1>3 DEF IsNum
  <2>1. Consume(ps) BY <1>3, <2>5 DEF FirstStatusCode
  <2>2. "s_res_status_code" \in Plain BY BareStates, PlainStates
  <2>3. /\ DigitValue(ch) \in Nat
        /\ Onward(To("s_res_status_code"))
        /\ To("s_res_status_code").state = "s_res_status_code"
    BY <1>1, <1>3, <2>2, Numbers, Moved
  <2>4. Onward(ps) /\ ps.state \in Plain BY <2>2, <2>3 DEF Onward, Parser
  <2> HIDE DEF ps
  <2> QED BY <1>1, <2>1, <2>4, Consumed
<1>4. CASE ch \notin IsNum /\ ch = " "
  <2>1. Consume(parser) BY <1>4 DEF FirstStatusCode
  <2> QED BY <1>1, <1>2, <2>1, Consumed
<1>5. CASE ch \notin IsNum /\ ch # " "
  <2>1. Fail("INVALID_STATUS") BY <1>5 DEF FirstStatusCode
  <2> QED BY <1>1, <2>1, Refused
<1> QED BY <1>3, <1>4, <1>5

LEMMA StatusCodeKeeps == ASSUME ParserInv, StatusCode PROVE ParserInv'
<1>1. phase = "byte" /\ parser.state \in Bare BY BareStates DEF StatusCode, In
<1>2. Onward(parser) /\ parser.state \in Plain BY <1>1, InCall, PlainStates
<1> DEFINE good == ch \in IsNum /\ Number(parser, "status_code") <= MaxVersion
<1>3. CASE ch \in {" ", CR, LF}
  <2> DEFINE state == CASE ch = " " -> "s_res_status_start"
                        [] ch = CR -> "s_res_line_almost_done"
                        [] OTHER -> "s_header_field_start"
  <2>1. ch \notin IsNum BY <1>3 DEF IsNum, CR, LF
  <2>3. Consume(To(state)) BY <1>3, <2>1 DEF StatusCode, CR, LF
  <2>4. state \in Plain BY BareStates, PlainStates DEF Literal
  <2> HIDE DEF state
  <2>5. Onward(To(state)) /\ To(state).state \in Plain BY <1>1, <2>4, Moved
  <2> QED BY <1>1, <2>3, <2>5, Consumed
<1>4. CASE ch \notin {" ", CR, LF} /\ good
  <2> DEFINE ps == [parser EXCEPT !.status_code = Number(parser, "status_code")]
  <2>1. Consume(ps) BY <1>4 DEF StatusCode
  <2>2. Number(parser, "status_code") \in Nat BY <1>1, <1>4, Numbers
  <2>3. Onward(ps) /\ ps.state \in Plain BY <1>2, <2>2 DEF Onward, Parser
  <2> HIDE DEF ps
  <2> QED BY <1>1, <2>1, <2>3, Consumed
<1>5. CASE ch \notin {" ", CR, LF} /\ ~good
  <2>1. Fail("INVALID_STATUS") BY <1>5 DEF StatusCode
  <2> QED BY <1>1, <2>1, Refused
<1> QED BY <1>3, <1>4, <1>5

\* A text begins with the character that is read.
LEMMA Begun ==
    ASSUME ParserInv, phase = "byte", parser.state \in Bare,
           NEW ps, Onward(ps), ps.state \in Plain,
           NEW kind \in DataKinds, MarkOf(ps.state, "fetch") = kind,
           parser' = ps, marks' = Marked(kind), p' = p + 1, phase' = "fetch", Quiet, Same
    PROVE  ParserInv'
<1> DEFINE left == Marked(kind)
<1>1. ParsingHeader(parser.state) BY PlainIsSound, BareIsPlain
<1>2. Sound(ps) /\ ps.state # "s_chunk_size_start" BY PlainIsSound
<1>3. ps \in Parser /\ ps.http_errno = "OK" /\ ps.nread = parser.nread BY DEF Onward
<1>4. left \in [DataKinds -> Nat] /\ MarksFit(left, ps.state, "fetch")
  <2>1. marks \in [DataKinds -> Nat] /\ MarksFit(marks, ps.state, "fetch")
    BY BareIsUnmarked
  <2>2. p \in Nat BY InCall
  <2>3. left \in [DataKinds -> Nat] BY <2>1, <2>2 DEF Marked
  <2>4. \A k \in DataKinds : left[k] # 0 => k = kind \/ marks[k] # 0 BY <2>1 DEF Marked
  <2> HIDE DEF left
  <2>5. MarksFit(left, ps.state, "fetch") BY <2>1, <2>4 DEF MarksFit
  <2> QED BY <2>3, <2>5
<1>5. Resumable(ps, p + 1, "fetch", left) BY DEF Resumable, Quiet
<1> HIDE DEF left
<1> QED BY <1>1, <1>2, <1>3, <1>4, <1>5, Behind

LEMMA StatusStartKeeps == ASSUME ParserInv, StatusStart PROVE ParserInv'
<1>1. phase = "byte" /\ parser.state \in Bare BY BareStates DEF StatusStart, In
<1>2. CASE ch \in LineEnd
  <2>1. Consume(To(LineEnded)) BY <1>2 DEF StatusStart
  <2>2. LineEnded \in Plain BY BareStates, PlainStates DEF LineEnded, Literal
  <2>3. Onward(To(LineEnded)) /\ To(LineEnded).state \in Plain BY <1>1, <2>2, Moved
  <2> QED BY <1>1, <2>1, <2>3, Consumed
<1>3. CASE ch \notin LineEnd
  <2> DEFINE ps == [To("s_res_status") EXCEPT !.index = 0]
  <2>1. /\ parser' = ps /\ marks' = Marked("status") /\ p' = p + 1 /\ phase' = "fetch"
        /\ Quiet /\ Same
    BY <1>3 DEF StatusStart
  <2>2. "s_res_status" \in Plain BY PlainStates
  <2>3. Onward(To("s_res_status")) /\ To("s_res_status").state = "s_res_status"
    BY <1>1, <2>2, Moved
  <2>4. Onward(ps) /\ ps.state = "s_res_status" BY <2>3 DEF Onward, Parser
  <2>5. "status" \in DataKinds /\ MarkOf("s_res_status", "fetch") = "status"
    BY DEF DataKinds, MarkOf, UrlStates
  <2> HIDE DEF ps
  <2> QED BY <1>1, <2>1, <2>2, <2>4, <2>5, Begun
<1> QED BY <1>2, <1>3

\* The next character of a text is read.
LEMMA Continued ==
    ASSUME ParserInv, phase = "byte", parser.state \in Plain,
           NEW ps, Onward(ps), ps.state \in Plain,
           MarkOf(ps.state, "fetch") = MarkOf(parser.state, "byte"), Consume(ps)
    PROVE  ParserInv'
<1> DEFINE left == marks
<1>1. ParsingHeader(parser.state) BY PlainIsSound
<1>2. Sound(ps) /\ ps.state # "s_chunk_size_start" BY PlainIsSound
<1>3. ps \in Parser /\ ps.http_errno = "OK" /\ ps.nread = parser.nread BY DEF Onward
<1>4. left \in [DataKinds -> Nat] /\ MarksFit(left, ps.state, "fetch")
  BY DEF ParserInv, TypeOK, MarksFit
<1>5. Resumable(ps, p + 1, "fetch", left) /\ Same BY DEF Consume, Resumable, Quiet
<1> HIDE DEF left
<1> QED BY <1>1, <1>2, <1>3, <1>4, <1>5, Behind

LEMMA StatusKeeps == ASSUME ParserInv, Status PROVE ParserInv'
<1>1. /\ phase = "byte" /\ parser.state = "s_res_status" /\ parser.state \in Plain
      /\ Onward(parser)
  BY PlainStates, InCall DEF Status, In
<1>2. MarkOf("s_res_status", "byte") = "status" /\ MarkOf("s_res_status", "fetch") = "status"
  BY DEF MarkOf, UrlStates
<1>3. CASE ch \in LineEnd
  <2> DEFINE ps == To(LineEnded)
             upto == p
             kind == "status"
  <2>1. Data(kind, upto, ps, p + 1, "fetch") /\ Same BY <1>3 DEF Status
  <2>2. LineEnded \in Plain BY BareStates, PlainStates DEF LineEnded, Literal
  <2>3. Onward(ps) /\ ps.state \in Plain BY <1>1, <2>2, Moved
  <2>4. MarkOf(parser.state, "byte") = kind BY <1>1, <1>2
  <2> HIDE DEF ps, upto, kind
  <2> QED BY <1>1, <2>1, <2>3, <2>4, Told
<1>4. CASE ch \notin LineEnd
  <2>1. Consume(parser) BY <1>4 DEF Status
  <2> QED BY <1>1, <1>2, <2>1, Continued
<1> QED BY <1>3, <1>4

LEMMA ReqMethodKeeps == ASSUME ParserInv, ReqMethod PROVE ParserInv'
<1>1. /\ phase = "byte" /\ parser.state \in Bare /\ parser.state \in Plain
      /\ Onward(parser) /\ parser \in Parser
  BY BareStates, PlainStates, InCall DEF ReqMethod, In
<1> DEFINE Spelt(method) == [parser EXCEPT !.method = method, !.index = @ + 1]
           index == parser.index
           ended == ch = " " /\ index = Len(parser.method)
           others == {o[4] : o \in {row \in OtherMethod :
                         SubSeq(row, 1, 3) = <<parser.method, index, ch>>}}
           unseen == index = 1 /\ parser.method \notin SecondCharacterChecked
           methods == IF ch = At(parser.method, index + 1) \/ (others = {} /\ unseen)
                      THEN {parser.method} ELSE others
<1>2. ASSUME NEW method \in MethodNames
      PROVE  Onward(Spelt(method)) /\ Spelt(method).state = parser.state
  <2>1. parser.index + 1 \in Nat BY <1>1 DEF Parser
  <2> QED BY <1>1, <2>1 DEF Onward, Parser
<1>3. parser.method \in MethodNames BY <1>1 DEF Parser
<1>4. others \subseteq MethodNames BY DEF MethodNames
<1>5. methods \subseteq MethodNames BY <1>3, <1>4
<1>6. CASE ended
  <2> DEFINE ps == [Spelt(parser.method) EXCEPT !.state = "s_req_spaces_before_url"]
  <2>1. "s_req_spaces_before_url" \in Plain /\ "s_req_spaces_before_url" \in States
    BY BareStates, PlainStates
  <2>2. Onward(ps) /\ ps.state \in Plain BY <1>2, <1>3, <2>1 DEF Onward, Parser
  <2>3. Consume(ps) BY <1>6 DEF ReqMethod
  <2> HIDE DEF ps
  <2> QED BY <1>1, <2>2, <2>3, Consumed
<1>7. CASE ~ended /\ methods # {}
  <2>1. PICK method \in methods : Consume(Spelt(method)) BY <1>7 DEF ReqMethod
  <2> DEFINE ps == Spelt(method)
  <2>2. Onward(ps) /\ ps.state \in Plain BY <1>1, <1>2, <1>5
  <2>3. Consume(ps) BY <2>1
  <2> HIDE DEF ps
  <2> QED BY <1>1, <2>2, <2>3, Consumed
<1>8. CASE ~ended /\ methods = {}
  <2>1. Fail("INVALID_METHOD") BY <1>8 DEF ReqMethod
  <2> QED BY <1>1, <2>1, Refused
<1> QED BY <1>6, <1>7, <1>8

\* The automaton stays among the states of URLs.
LEMMA UrlStays ==
    ASSUME NEW s, NEW c
    PROVE  UrlChar(s, c) \in UrlStates \cup {UrlDead}
BY DEF UrlChar, UrlStates

\* Of the states of the URL, the text is marked.
LEMMA UrlMarked ==
    ASSUME NEW s \in UrlStates, NEW ph
    PROVE  MarkOf(s, ph) = "url" /\ s \in Plain
<1>1. s \notin {"s_header_field", "s_header_value"} BY DEF UrlStates
<1> QED BY <1>1, PlainStates DEF MarkOf, UrlStates

\* One character of the URL.
LEMMA UrlStepKeeps ==
    ASSUME ParserInv, phase = "byte", parser.state \in UrlStates, UrlStep(parser.state)
    PROVE  ParserInv'
<1> DEFINE state == UrlChar(parser.state, ch)
<1>1. state \in UrlStates \cup {UrlDead} BY UrlStays
<1>2. CASE state = UrlDead
  <2>1. Fail("INVALID_URL") BY <1>2 DEF UrlStep
  <2> QED BY <2>1, Refused
<1>3. CASE state # UrlDead
  <2>1. Consume(To(state)) BY <1>3 DEF UrlStep
  <2>2. state \in UrlStates BY <1>1, <1>3
  <2> HIDE DEF state
  <2>3. state \in Plain /\ parser.state \in Plain BY <2>2, UrlMarked
  <2>4. Onward(To(state)) /\ To(state).state = state BY <2>3, Moved
  <2>5. MarkOf(state, "fetch") = "url" /\ MarkOf(parser.state, "byte") = "url"
    BY <2>2, UrlMarked
  <2> DEFINE ps == To(state)
  <2>6. Consume(ps) /\ Onward(ps) /\ ps.state \in Plain
        /\ MarkOf(ps.state, "fetch") = MarkOf(parser.state, "byte")
    BY <2>1, <2>3, <2>4, <2>5
  <2> HIDE DEF ps
  <2> QED BY <2>3, <2>6, Continued
<1> QED BY <1>2, <1>3

LEMMA SpacesBeforeUrlKeeps == ASSUME ParserInv, SpacesBeforeUrl PROVE ParserInv'
<1>1. /\ phase = "byte" /\ parser.state \in Bare /\ parser.state \in Plain
      /\ Onward(parser)
  BY BareStates, PlainStates, InCall DEF SpacesBeforeUrl, In
<1> DEFINE s == IF parser.method = "CONNECT" THEN "s_req_server_start" ELSE parser.state
           state == UrlChar(s, ch)
<1>2. CASE ch = " "
  <2>1. Consume(parser) BY <1>2 DEF SpacesBeforeUrl
  <2> QED BY <1>1, <2>1, Consumed
<1>3. CASE ch # " " /\ state = UrlDead
  <2>1. Fail("INVALID_URL") BY <1>3 DEF SpacesBeforeUrl
  <2> QED BY <1>1, <2>1, Refused
<1>4. CASE ch # " " /\ state # UrlDead
  <2>1. /\ parser' = To(state) /\ marks' = Marked("url") /\ p' = p + 1 /\ phase' = "fetch"
        /\ Quiet /\ Same
    BY <1>4 DEF SpacesBeforeUrl
  <2>2. state \in UrlStates BY <1>4, UrlStays
  <2> HIDE DEF state
  <2>3. state \in Plain /\ MarkOf(state, "fetch") = "url" BY <2>2, UrlMarked
  <2>4. Onward(To(state)) /\ To(state).state = state BY <1>1, <2>3, Moved
  <2>5. "url" \in DataKinds BY DEF DataKinds
  <2> DEFINE ps == To(state)
  <2>6. /\ Onward(ps) /\ ps.state \in Plain /\ MarkOf(ps.state, "fetch") = "url"
        /\ parser' = ps
    BY <2>1, <2>3, <2>4
  <2> HIDE DEF ps
  <2> QED BY <1>1, <2>1, <2>5, <2>6, Begun
<1> QED BY <1>2, <1>3, <1>4

LEMMA UrlBeginningKeeps == ASSUME ParserInv, UrlBeginning PROVE ParserInv'
<1>1. phase = "byte" /\ parser.state \in UrlStates /\ UrlStep(parser.state)
  BY DEF UrlBeginning, UrlStates
<1> QED BY <1>1, UrlStepKeeps

LEMMA UrlKeeps == ASSUME ParserInv, Url PROVE ParserInv'
<1>1. phase = "byte" /\ parser.state \in UrlStates BY DEF Url, UrlStates
<1>2. /\ parser.state \in Plain /\ MarkOf(parser.state, "byte") = "url"
      /\ Onward(parser) /\ parser \in Parser
  BY <1>1, UrlMarked, InCall
<1>3. ASSUME NEW ps, Onward(ps), ps.state \in Plain,
             Data("url", p, ps, p + 1, "fetch"), Same
      PROVE  ParserInv'
  <2> DEFINE upto == p
             kind == "url"
  <2>1. Data(kind, upto, ps, p + 1, "fetch") /\ MarkOf(parser.state, "byte") = kind
    BY <1>2, <1>3
  <2> HIDE DEF upto, kind
  <2> QED BY <1>1, <1>2, <1>3, <2>1, Told
<1>4. CASE ch = " "
  <2> DEFINE ps == To("s_req_http_start")
  <2>1. ch \notin LineEnd BY <1>4 DEF LineEnd, CR, LF
  <2>2. Data("url", p, ps, p + 1, "fetch") /\ Same BY <1>4, <2>1 DEF Url
  <2>3. "s_req_http_start" \in Plain BY BareStates, PlainStates
  <2>4. Onward(ps) /\ ps.state \in Plain BY <1>1, <2>3, Moved
  <2> HIDE DEF ps
  <2> QED BY <1>3, <2>2, <2>4
<1>5. CASE ch \in LineEnd
  <2> DEFINE ps == [parser EXCEPT !.http_major = 0, !.http_minor = 9,
                            !.state = IF ch = CR THEN "s_req_line_almost_done"
                                                 ELSE "s_header_field_start"]
  <2>1. ch # " " BY <1>5 DEF LineEnd, CR, LF
  <2>2. Data("url", p, ps, p + 1, "fetch") /\ Same BY <1>5, <2>1 DEF Url
  <2>3. /\ {"s_req_line_almost_done", "s_header_field_start"} \subseteq Plain
        /\ Plain \subseteq States
    BY BareStates, PlainStates
  <2>4. Onward(ps) /\ ps.state \in Plain BY <1>2, <2>3 DEF Onward, Parser
  <2> HIDE DEF ps
  <2> QED BY <1>3, <2>2, <2>4
<1>6. CASE ch \notin {" "} \cup LineEnd
  <2>1. UrlStep(parser.state) BY <1>6 DEF Url
  <2> QED BY <1>1, <2>1, UrlStepKeeps
<1> QED BY <1>4, <1>5, <1>6

LEMMA HttpStartKeeps == ASSUME ParserInv, HttpStart PROVE ParserInv'
<1>1. /\ phase = "byte" /\ parser.state \in Bare /\ parser.state \in Plain
      /\ Onward(parser)
  BY BareStates, PlainStates, InCall DEF HttpStart, In
<1>2. CASE ch = "H"
  <2>1. Consume(To("s_req_http_H")) BY <1>2 DEF HttpStart
  <2>2. "s_req_http_H" \in Plain BY BareStates, PlainStates DEF Literal
  <2>3. Onward(To("s_req_http_H")) /\ To("s_req_http_H").state \in Plain
    BY <1>1, <2>2, Moved
  <2> QED BY <1>1, <2>1, <2>3, Consumed
<1>3. CASE ch = " "
  <2>1. Consume(parser) BY <1>3 DEF HttpStart
  <2> QED BY <1>1, <2>1, Consumed
<1>4. CASE ch \notin {"H", " "}
  <2>1. Fail("INVALID_CONSTANT") BY <1>4 DEF HttpStart
  <2> QED BY <1>1, <2>1, Refused
<1> QED BY <1>2, <1>3, <1>4

LEMMA ReqLineAlmostDoneKeeps == ASSUME ParserInv, ReqLineAlmostDone PROVE ParserInv'
<1>1. phase = "byte" /\ parser.state \in Bare BY BareStates DEF ReqLineAlmostDone, In
<1>2. CASE ch = LF
  <2>1. Consume(To("s_header_field_start")) BY <1>2 DEF ReqLineAlmostDone
  <2>2. "s_header_field_start" \in Plain BY BareStates, PlainStates
  <2>3. Onward(To("s_header_field_start")) /\ To("s_header_field_start").state \in Plain
    BY <1>1, <2>2, Moved
  <2> QED BY <1>1, <2>1, <2>3, Consumed
<1>3. CASE ch # LF
  <2>1. Fail("LF_EXPECTED") BY <1>3 DEF ReqLineAlmostDone
  <2> QED BY <1>1, <2>1, Refused
<1> QED BY <1>2, <1>3

LEMMA ReadFirstLineKeeps == ASSUME ParserInv, ReadFirstLine PROVE ParserInv'
BY ReadLiteralKeeps, FirstMajorKeeps, MajorKeeps, FirstMinorKeeps, MinorKeeps,
   FirstStatusCodeKeeps, StatusCodeKeeps, StatusStartKeeps, StatusKeeps, ReqMethodKeeps,
   SpacesBeforeUrlKeeps, UrlBeginningKeeps, UrlKeeps, HttpStartKeeps,
   ReqLineAlmostDoneKeeps
   DEF ReadFirstLine

\* The rest of the state keeps its type.
Quietly == /\ UNCHANGED stream /\ start' \in Nat /\ began' \in Nat /\ extra' \in Int
           /\ cuts' \in 0..MaxCuts

LEMMA SameIsQuiet ==
    ASSUME ParserInv, Same PROVE Quietly /\ UNCHANGED <<began, extra>>
BY DEF ParserInv, TypeOK, Same, Steady, Quietly

\* A callback is made and the parser goes on at q, or is paused there.
LEMMA Arrived ==
    ASSUME ParserInv, NEW q \in 1..(Len(Text_) + 1),
           NEW ps \in Parser, Sound(ps), ps.http_errno = "OK",
           NEW next \in {"byte", "fetch", "idle", "upgraded", "closed"},
           next = "byte" => q <= Len(Text_) /\ ps.state # "s_chunk_size_start",
           NEW left \in [DataKinds -> Nat], MarksFit(left, ps.state, next),
           Resumable(ps, q, next, left), Quietly,
           ps.nread <= HTTP_MAX_HEADER_SIZE,
           ps.state = "s_chunk_size_start" => ps.nread = 0,
           ParsingHeader(ps.state) =>
               ps.nread = (IF phase' = "byte" THEN q + 1 ELSE q) - began' + extra'
    PROVE  ParserInv'
<1>1. p' = q BY DEF Resumable
<1>2. /\ parser' \in Parser /\ Sound(parser') /\ parser'.nread = ps.nread
      /\ parser'.state = ps.state
      /\ \/ phase' = next /\ parser'.http_errno = "OK" /\ marks' = left
         \/ /\ phase' \in {"idle", "upgraded", "closed"}
            /\ parser'.http_errno = "PAUSED" /\ marks' = NoMarks
      /\ pauses' \in 0..MaxPauses
  <2>1. CASE parser' = ps /\ phase' = next /\ marks' = left /\ UNCHANGED pauses
    BY <2>1 DEF ParserInv, TypeOK
  <2>2. CASE /\ pauses < MaxPauses /\ pauses' = pauses + 1
             /\ parser' = [ps EXCEPT !.http_errno = "PAUSED"]
             /\ phase' = (IF next \in {"upgraded", "closed"} THEN next ELSE "idle")
             /\ marks' = NoMarks
    <3>1. pauses' \in 0..MaxPauses BY <2>2, Bounds DEF ParserInv, TypeOK
    <3> DEFINE u == [ps EXCEPT !.http_errno = "PAUSED"]
    <3>4. "PAUSED" \in Errors BY DEF Errors
    <3>2. /\ u \in Parser /\ u.http_errno = "PAUSED" /\ Sound(u)
          /\ u.state = ps.state /\ u.nread = ps.nread
      BY <3>4, Erring
    <3>3. parser' = u BY <2>2
    <3> HIDE DEF u
    <3> QED BY <2>2, <3>1, <3>2, <3>3
  <2> QED BY <2>1, <2>2 DEF Resumable
<1>3. Len(Text_) \in Nat BY EndIsNumber DEF ParserInv
<1>4. TypeOK'
  BY <1>1, <1>2, NothingMarked DEF ParserInv, TypeOK, Text_, Phases, Quietly
<1>5. Placed' BY <1>1, <1>2 DEF Placed, Quietly, More, Text_
<1>6. MarksFit(marks, parser.state, phase)' BY <1>2, NothingMarked
<1>7. Counts'
  <2>1. phase' \notin {"field", "value"} BY <1>2
  <2>2. Counting' = IF phase' = "byte" THEN q + 1 ELSE q BY <1>1, <2>1 DEF Counting
  <2>3. phase' = "byte" => next = "byte" BY <1>2
  <2> QED BY <1>2, <2>2, <2>3 DEF Counts
<1> QED BY <1>2, <1>4, <1>5, <1>6, <1>7 DEF ParserInv

\* The call is left with an error.
LEMMA Stopped ==
    ASSUME ParserInv, NEW ps \in Parser, Sound(ps), ps.http_errno \notin Going,
           parser' = ps, phase' \in {"idle", "closed"}, marks' = NoMarks,
           p' \in 1..(Len(Text_) + 1), Quietly, pauses' \in 0..MaxPauses,
           ps.http_errno = "HEADER_OVERFLOW" =>
               p' + 1 - began' + extra' > HTTP_MAX_HEADER_SIZE
    PROVE  ParserInv'
<1>1. TypeOK' BY NothingMarked DEF ParserInv, TypeOK, Text_, Phases, Quietly
<1>2. Placed' BY DEF Placed
<1>3. MarksFit(marks, parser.state, phase)' BY NothingMarked
<1>4. Counts' BY DEF Counts, Going
<1>5. Sound(parser)' OBVIOUS
<1> QED BY <1>1, <1>2, <1>3, <1>4, <1>5 DEF ParserInv

\* What is counted.
LEMMA CountedAs ==
    ASSUME NEW ps \in Parser, NEW v \in Nat, NEW u, u = Counted(ps, v),
           ps.http_errno = "OK"
    PROVE  /\ u \in Parser /\ u.state = ps.state /\ u.nread = ps.nread + v
           /\ u.http_errno = IF ps.nread + v > HTTP_MAX_HEADER_SIZE
                             THEN "HEADER_OVERFLOW" ELSE "OK"
           /\ Sound(ps) => Sound(u)
<1>1. ps.nread + v \in Nat BY DEF Parser
<1>2. "HEADER_OVERFLOW" \in Errors BY DEF Errors
<1>3. u \in Parser BY <1>1, <1>2 DEF Counted, Parser
<1>4. /\ u.state = ps.state /\ u.nread = ps.nread + v
      /\ u.http_errno = IF ps.nread + v > HTTP_MAX_HEADER_SIZE
                        THEN "HEADER_OVERFLOW" ELSE "OK"
      /\ u.flags = ps.flags /\ u.content_length = ps.content_length
      /\ u.header_state = ps.header_state
  BY DEF Counted, Parser
<1> QED BY <1>3, <1>4 DEF Sound

\* In the loops.
LEMMA InLoop ==
    ASSUME ParserInv, phase \in {"field", "value"}
    PROVE  /\ parser \in Parser /\ parser.http_errno = "OK" /\ Sound(parser)
           /\ parser.state = IF phase = "field" THEN "s_header_field" ELSE "s_header_value"
           /\ p \in Nat \ {0} /\ start \in Nat /\ start <= p /\ began \in Nat
           /\ extra \in Int /\ pauses \in 0..MaxPauses
           /\ Len(Text_) \in Nat /\ p <= Len(Text_) + 1
           /\ parser.nread = start + 1 - began + extra
           /\ parser.nread <= HTTP_MAX_HEADER_SIZE
           /\ marks \in [DataKinds -> Nat]
           /\ MarksFit(marks, parser.state, phase)
<1>1. ParsingHeader(parser.state) BY DEF ParserInv, Placed, ParsingHeader, BodyStates
<1>2. Counting = start + 1 BY DEF Counting
<1>4. parser.http_errno \in Going BY DEF ParserInv, Placed, Going
<1>3. parser.nread = start + 1 - began + extra /\ parser.nread <= HTTP_MAX_HEADER_SIZE
  <2>1. start \in Nat /\ began \in Nat /\ extra \in Int BY DEF ParserInv, TypeOK
  <2>2. /\ parser.nread = Counting - began + extra
        /\ parser.nread <= HTTP_MAX_HEADER_SIZE
    BY <1>1, <1>4 DEF ParserInv, Counts
  <2> QED BY <1>2, <2>1, <2>2
<1> QED BY <1>3, EndIsNumber DEF ParserInv, Placed, TypeOK

-----------------------------------------------------------------------------
\* Header fields.

LEMMA HeaderFieldStartKeeps == ASSUME ParserInv, HeaderFieldStart PROVE ParserInv'
<1>1. phase = "byte" /\ parser.state \in Bare BY BareStates DEF HeaderFieldStart, In
<1>2. /\ "s_headers_almost_done" \in Plain /\ Onward(To("s_headers_almost_done"))
      /\ To("s_headers_almost_done").state = "s_headers_almost_done"
  BY <1>1, BareStates, PlainStates, Moved
<1>3. LineEnd = {CR, LF} /\ CR # LF /\ IsToken \cap LineEnd = {}
  BY DEF LineEnd, CR, LF, IsToken
<1>4. CASE ch = CR
  <2>1. Consume(To("s_headers_almost_done")) BY <1>3, <1>4 DEF HeaderFieldStart
  <2> QED BY <1>1, <1>2, <2>1, Consumed
<1>5. CASE ch = LF
  <2>1. Reexecute(To("s_headers_almost_done")) BY <1>3, <1>5 DEF HeaderFieldStart
  <2> QED BY <1>1, <1>2, <2>1, Reexecuted
<1>6. CASE ch \notin LineEnd /\ ch \in IsToken
  <2> DEFINE state == CASE Lower(ch) = "c" -> "h_C"
                        [] Lower(ch) = "p" -> "h_matching_proxy_connection"
                        [] Lower(ch) = "t" -> "h_matching_transfer_encoding"
                        [] Lower(ch) = "u" -> "h_matching_upgrade"
                        [] OTHER -> "h_general"
             ps == [To("s_header_field") EXCEPT !.index = 0, !.header_state = state]
  <2>1. /\ parser' = ps /\ marks' = Marked("header_field") /\ p' = p + 1
        /\ phase' = "fetch" /\ Quiet /\ Same
    BY <1>3, <1>6 DEF HeaderFieldStart
  <2>2. state \in HeaderStates BY DEF HeaderStates, Words
  <2> HIDE DEF state
  <2>3. "s_header_field" \in Plain BY PlainStates
  <2>4. Onward(To("s_header_field")) /\ To("s_header_field").state = "s_header_field"
    BY <1>1, <2>3, Moved
  <2>5. Onward(ps) /\ ps.state = "s_header_field" BY <2>2, <2>4 DEF Onward, Parser
  <2>6. "header_field" \in DataKinds /\ MarkOf("s_header_field", "fetch") = "header_field"
    BY DEF DataKinds, MarkOf, UrlStates
  <2> HIDE DEF ps
  <2> QED BY <1>1, <2>1, <2>3, <2>5, <2>6, Begun
<1>7. CASE ch \notin LineEnd /\ ch \notin IsToken
  <2>1. Fail("INVALID_HEADER_TOKEN") BY <1>3, <1>7 DEF HeaderFieldStart
  <2> QED BY <1>1, <2>1, Refused
<1> QED BY <1>3, <1>4, <1>5, <1>6, <1>7

\* What a loop reads is what is marked.
LEMMA LoopMarks ==
    ASSUME NEW ph
    PROVE  /\ MarkOf("s_header_field", ph) = "header_field"
           /\ MarkOf("s_header_value", ph) = "header_value"
BY DEF MarkOf, UrlStates

LEMMA EnterLoopKeeps == ASSUME ParserInv, EnterLoop PROVE ParserInv'
<1>1. /\ phase = "byte" /\ parser.state \in {"s_header_field", "s_header_value"}
      /\ phase' = IF parser.state = "s_header_field" THEN "field" ELSE "value"
      /\ start' = p
      /\ UNCHANGED <<stream, parser, p, marks, out, cuts, extra, began, pauses>>
  BY DEF EnterLoop, history
<1>2. /\ parser.http_errno = "OK" /\ p \in 1..Len(Text_) /\ Len(Text_) \in Nat
  BY <1>1, InCall
<1>3. TypeOK' BY <1>1, <1>2 DEF ParserInv, TypeOK, Text_, Phases
<1>4. Placed' BY <1>1, <1>2 DEF Placed
<1>5. MarksFit(marks, parser.state, phase)'
  BY <1>1, LoopMarks DEF ParserInv, MarksFit
<1>6. Counts'
  <2>1. Counting = p + 1 /\ Counting' = p + 1 BY <1>1 DEF Counting
  <2>2. parser.http_errno \in Going BY <1>2 DEF Going
  <2> QED BY <1>1, <1>2, <2>1, <2>2 DEF ParserInv, Counts
<1>7. Sound(parser)' BY <1>1 DEF ParserInv
<1> QED BY <1>3, <1>4, <1>5, <1>6, <1>7 DEF ParserInv

\* A loop goes on.
LEMMA LoopGoes ==
    ASSUME ParserInv, phase \in {"field", "value"}, NEW ps \in Parser,
           ps.state = parser.state, ps.nread = parser.nread, ps.http_errno = "OK",
           phase = "value" => ps.header_state \in ValueStates,
           NEW q \in p..(Len(Text_) + 1), parser' = ps, p' = q,
           UNCHANGED <<phase, marks>>, Quiet, Same
    PROVE  ParserInv'
<1>1. UNCHANGED <<stream, start, cuts, extra, began, pauses, phase, marks>>
  BY DEF Quiet, Same, Steady
<1>2. /\ parser \in Parser /\ p \in Nat \ {0} /\ start <= p /\ start \in Nat
      /\ parser.state = IF phase = "field" THEN "s_header_field" ELSE "s_header_value"
      /\ Len(Text_) \in Nat /\ began \in Nat /\ extra \in Int
      /\ parser.nread = start + 1 - began + extra /\ parser.nread <= HTTP_MAX_HEADER_SIZE
      /\ MarksFit(marks, parser.state, phase)
  BY InLoop
<1>3. p' \in 1..(Len(Text_) + 1) /\ start <= p' BY <1>2
<1>4. TypeOK' BY <1>1, <1>3 DEF ParserInv, TypeOK, Text_
<1>5. Placed' BY <1>1, <1>2, <1>3 DEF ParserInv, Placed
<1>6. Sound(ps) BY <1>2 DEF Sound, ChunkStates, SizeStates
<1>7. MarksFit(marks, parser.state, phase)' BY <1>1, <1>2
<1>8. Counts'
  <2>1. Counting' = start + 1 BY <1>1 DEF Counting
  <2> QED BY <1>1, <1>2, <2>1 DEF Counts, ParsingHeader, BodyStates
<1> QED BY <1>4, <1>5, <1>6, <1>7, <1>8 DEF ParserInv

\* What stays when a character of a name or value is compared.
Alike(u, ps) == /\ u \in Parser /\ u.state = ps.state /\ u.nread = ps.nread
                /\ u.http_errno = ps.http_errno

\* What a word leads to is a state of the field; of a value, one of values.
LEMMA WordEnds ==
    ASSUME NEW h \in DOMAIN Words
    PROVE  /\ Words[h][2] \in HeaderStates /\ Words[h][3] \in HeaderStates
           /\ h \in ValueStates => Words[h][2] \in ValueStates /\ Words[h][3] \in ValueStates
<1>1. /\ Words[h][2] \in HeaderStates /\ Words[h][3] \in HeaderStates
  BY DEF Words, HeaderStates, ConnectionFlag
<1>2. h \in ValueStates => Words[h][2] \in ValueStates /\ Words[h][3] \in ValueStates
  BY DEF Words, ValueStates, ConnectionFlag
<1> QED BY <1>1, <1>2

LEMMA MatchedStays ==
    ASSUME NEW ps \in Parser, ps.header_state \in DOMAIN Words
    PROVE  /\ Alike(Matched(ps), ps)
           /\ ps.header_state \in ValueStates => Matched(ps).header_state \in ValueStates
<1> DEFINE word == Words[ps.header_state]
           h == CASE Lower(ch) # At(word[1], ps.index + 2) -> word[3]
                  [] Lower(ch) = At(word[1], ps.index + 2)
                         /\ ps.index + 1 = Len(word[1]) - 1 -> word[2]
                  [] OTHER -> ps.header_state
           u == [ps EXCEPT !.index = ps.index + 1, !.header_state = h]
<1>1. ps.index + 1 \in Nat /\ (ps.index + 1) + 1 = ps.index + 2
  BY DEF Parser
<1>2. Matched(ps) = u
  <2> DEFINE next == [ps EXCEPT !.index = @ + 1]
  <2>1. next.index + 1 = ps.index + 2 /\ next.index = ps.index + 1 BY <1>1 DEF Parser
  <2>2. \A s : [next EXCEPT !.header_state = s]
                  = [ps EXCEPT !.index = ps.index + 1, !.header_state = s]
    BY DEF Parser
  <2>3. next = [next EXCEPT !.header_state = ps.header_state] BY DEF Parser
  <2> QED BY <2>1, <2>2, <2>3 DEF Matched
<1>3. ps.header_state \in HeaderStates BY DEF Parser
<1>4. /\ h \in HeaderStates
      /\ ps.header_state \in ValueStates => h \in ValueStates
  <2> HIDE DEF word
  <2>1. h \in {word[2], word[3], ps.header_state} OBVIOUS
  <2> HIDE DEF h
  <2> QED BY <2>1, <1>3, WordEnds DEF word
<1> HIDE DEF h
<1>5. Alike(u, ps) /\ u.header_state = h BY <1>1, <1>4 DEF Alike, Parser
<1> HIDE DEF u
<1> QED BY <1>2, <1>4, <1>5

\* The characters of a name, and the end of the loop over one.
LEMMA NameMatchedStays ==
    ASSUME NEW ps \in Parser
    PROVE  Alike(NameMatched(ps), ps)
<1> DEFINE next(c, state) == [ps EXCEPT !.index = @ + 1,
                               !.header_state = IF Lower(ch) = c THEN state ELSE "h_general"]
<1>1. ps.index + 1 \in Nat /\ Alike(ps, ps) BY DEF Parser, Alike
<1>2. ASSUME NEW c, NEW state \in HeaderStates PROVE Alike(next(c, state), ps)
  <2>1. (IF Lower(ch) = c THEN state ELSE "h_general") \in HeaderStates
    BY DEF HeaderStates
  <2> QED BY <1>1, <2>1 DEF Parser, Alike
<1>3. {"h_CO", "h_CON", "h_matching_connection", "h_matching_content_length", "h_general"}
          \subseteq HeaderStates
  BY DEF HeaderStates, Words
<1>4. Alike([ps EXCEPT !.header_state = "h_general"], ps) BY <1>3 DEF Parser, Alike
<1>5. ps.header_state \in DOMAIN Words => Alike(Matched(ps), ps) BY MatchedStays
<1>6. /\ Alike(next("o", "h_CO"), ps) /\ Alike(next("n", "h_CON"), ps)
      /\ Alike(next("n", "h_matching_connection"), ps)
      /\ Alike(next("t", "h_matching_content_length"), ps)
  BY <1>2, <1>3
<1>7. "h_general" \notin DOMAIN Words /\ {"h_C", "h_CO", "h_CON"} \cap DOMAIN Words = {}
  BY DEF Words
<1>8. CASE ps.header_state = "h_general"
  <2>1. NameMatched(ps) = ps BY <1>7, <1>8 DEF NameMatched
  <2> QED BY <1>1, <2>1
<1>9. CASE ps.header_state = "h_C"
  <2>1. NameMatched(ps) = next("o", "h_CO") BY <1>7, <1>9 DEF NameMatched
  <2> QED BY <1>6, <2>1
<1>10. CASE ps.header_state = "h_CO"
  <2>1. NameMatched(ps) = next("n", "h_CON") BY <1>7, <1>10 DEF NameMatched
  <2> QED BY <1>6, <2>1
<1>11. CASE ps.header_state = "h_CON"
  <2>1. NameMatched(ps) = IF Lower(ch) = "n" THEN next("n", "h_matching_connection")
                                       ELSE next("t", "h_matching_content_length")
    BY <1>7, <1>11 DEF NameMatched
  <2> HIDE DEF next
  <2> QED BY <1>6, <2>1
<1>12. CASE ps.header_state \in DOMAIN Words
  <2>1. NameMatched(ps) = Matched(ps) BY <1>7, <1>12 DEF NameMatched
  <2> QED BY <1>5, <1>12, <2>1
<1>13. CASE ps.header_state \notin {"h_general", "h_C", "h_CO", "h_CON"} \cup DOMAIN Words
  <2>1. NameMatched(ps) = [ps EXCEPT !.header_state = "h_general"]
    BY <1>7, <1>13 DEF NameMatched
  <2> QED BY <1>4, <2>1
<1> QED BY <1>8, <1>9, <1>10, <1>11, <1>12, <1>13

LEMMA FieldCharKeeps == ASSUME ParserInv, FieldChar PROVE ParserInv'
<1>1. /\ phase = "field" /\ phase \in {"field", "value"} /\ More
      /\ parser' = NameMatched(parser) /\ p' = p + 1
      /\ UNCHANGED <<phase, marks>> /\ Quiet /\ Same
  BY DEF FieldChar
<1> DEFINE ps == NameMatched(parser)
           q == p + 1
<1>2. /\ parser \in Parser /\ parser.http_errno = "OK" /\ p \in Nat /\ Len(Text_) \in Nat
  BY <1>1, InLoop
<1>3. q \in p..(Len(Text_) + 1) BY <1>1, <1>2 DEF More
<1>4. /\ ps \in Parser /\ ps.state = parser.state /\ ps.nread = parser.nread
      /\ ps.http_errno = "OK"
  BY <1>2, NameMatchedStays DEF Alike
<1>5. parser' = ps /\ p' = q BY <1>1
<1> HIDE DEF ps, q
<1> QED BY <1>1, <1>3, <1>4, <1>5, LoopGoes

LEMMA FieldEndKeeps == ASSUME ParserInv, FieldEnd PROVE ParserInv'
<1>1. /\ phase = "field" /\ phase \in {"field", "value"} /\ More /\ Same
  BY DEF FieldEnd
<1> DEFINE v == p - start
           ps == Counted(parser, v)
           n == p + 1 - began + extra
<1>2. /\ parser \in Parser /\ parser.http_errno = "OK" /\ Sound(parser)
      /\ parser.state = "s_header_field"
      /\ p \in Nat \ {0} /\ start \in Nat /\ start <= p /\ began \in Nat
      /\ extra \in Int /\ pauses \in 0..MaxPauses
      /\ Len(Text_) \in Nat /\ parser.nread = start + 1 - began + extra
      /\ marks \in [DataKinds -> Nat] /\ MarksFit(marks, parser.state, phase)
  BY <1>1, InLoop
<1>3. v \in Nat /\ p <= Len(Text_) BY <1>1, <1>2 DEF More
<1>4. parser.nread + v = n BY <1>2
<1>5. /\ ps \in Parser /\ ps.state = "s_header_field" /\ ps.nread = n
      /\ ps.http_errno = IF n > HTTP_MAX_HEADER_SIZE THEN "HEADER_OVERFLOW" ELSE "OK"
      /\ Sound(ps)
  <2> HIDE DEF v, n
  <2> QED BY <1>2, <1>3, <1>4, CountedAs
<1>6. Quietly /\ UNCHANGED <<began, extra>> BY <1>1, SameIsQuiet
<1>7. CASE ps.http_errno # "OK"
  <2>1. /\ parser' = ps /\ phase' = "idle" /\ p' = p /\ marks' = NoMarks
        /\ pauses' \in 0..MaxPauses
    BY <1>2, <1>7 DEF FieldEnd, Return, Quiet
  <2>2. ps.http_errno \notin Going BY <1>5, <1>7 DEF Going
  <2>3. p' \in 1..(Len(Text_) + 1) BY <1>2, <1>3, <2>1
  <2>4. p' + 1 - began' + extra' > HTTP_MAX_HEADER_SIZE
    BY <1>5, <1>6, <1>7, <2>1
  <2> HIDE DEF ps
  <2> QED BY <1>5, <1>6, <2>1, <2>2, <2>3, <2>4, Stopped
<1>8. CASE ps.http_errno = "OK" /\ ch = ":"
  <2> DEFINE u == [ps EXCEPT !.state = "s_header_value_discard_ws"]
             left == [marks EXCEPT !.header_field = 0]
             q == p + 1
             next == "fetch"
  <2>1. Data("header_field", p, u, p + 1, "fetch") BY <1>8 DEF FieldEnd
  <2>2. Resumable(u, q, next, left) BY <2>1 DEF Data, Resumable, Quiet
  <2>3. "s_header_value_discard_ws" \in Plain /\ "s_header_value_discard_ws" \in States
    BY BareStates, PlainStates
  <2>4. u \in Parser /\ u.state = "s_header_value_discard_ws" /\ u.nread = n
        /\ u.http_errno = "OK"
    BY <1>5, <1>8, <2>3 DEF Parser
  <2>5. Sound(u) /\ u.state # "s_chunk_size_start" BY <2>3, <2>4, PlainIsSound
  <2>6. left \in [DataKinds -> Nat] /\ MarksFit(left, u.state, next)
    BY <1>2, Unmarking, LoopMarks
  <2>7. q \in 1..(Len(Text_) + 1) BY <1>2, <1>3
  <2>8. n <= HTTP_MAX_HEADER_SIZE BY <1>2, <1>5, <1>8, Bounds
  <2>9. phase' # "byte" BY <2>2 DEF Resumable
  <2> HIDE DEF u
  <2>10. u.nread = (IF phase' = "byte" THEN q + 1 ELSE q) - began' + extra'
    BY <1>2, <1>6, <2>4, <2>9
  <2>11. next \in {"byte", "fetch", "idle", "upgraded", "closed"} /\ next # "byte" OBVIOUS
  <2> HIDE DEF u, left, q, n, next
  <2> QED BY <1>6, <2>2, <2>4, <2>5, <2>6, <2>7, <2>8, <2>10, <2>11, Arrived
<1>9. CASE ps.http_errno = "OK" /\ ch # ":"
  <2> DEFINE u == [ps EXCEPT !.http_errno = "INVALID_HEADER_TOKEN"]
  <2>1. /\ parser' = u /\ phase' = "idle" /\ p' = p /\ marks' = NoMarks
        /\ pauses' \in 0..MaxPauses
    BY <1>2, <1>9 DEF FieldEnd, Return, Quiet
  <2>2. "INVALID_HEADER_TOKEN" \in Errors BY DEF Errors
  <2>3. u \in Parser /\ Sound(u) /\ u.http_errno = "INVALID_HEADER_TOKEN"
    BY <1>5, <2>2, Erring
  <2>4. u.http_errno \notin Going /\ u.http_errno # "HEADER_OVERFLOW" BY <2>3 DEF Going
  <2>5. p' \in 1..(Len(Text_) + 1) BY <1>2, <1>3, <2>1
  <2> HIDE DEF u
  <2> QED BY <1>6, <2>1, <2>3, <2>4, <2>5, Stopped
<1> QED BY <1>7, <1>8, <1>9

\* A loop meets the end of the piece.
LEMMA LoopCutKeeps ==
    ASSUME ParserInv, phase \in {"field", "value"}, NEW q \in 1..(Len(Text_) + 1), LoopCut(q)
    PROVE  ParserInv'
<1> DEFINE v == q - start
           ps == Counted(parser, v)
           n == q + 1 - began + extra
<1>1. /\ q > start /\ (q <= Len(Text_) => cuts < MaxCuts)
      /\ cuts' = IF q <= Len(Text_) THEN cuts + 1 ELSE cuts
      /\ extra' = extra + 1 /\ parser' = ps /\ p' = q
      /\ IF ps.http_errno = "OK" THEN phase' = "cut" /\ marks' = marks
                                 ELSE phase' = "idle" /\ marks' = NoMarks
      /\ UNCHANGED <<out, pauses, stream, start, began>>
  BY DEF LoopCut, Quiet
<1>2. /\ parser \in Parser /\ parser.http_errno = "OK" /\ Sound(parser)
      /\ parser.state \in {"s_header_field", "s_header_value"}
      /\ start \in Nat /\ began \in Nat
      /\ extra \in Int /\ pauses \in 0..MaxPauses
      /\ Len(Text_) \in Nat /\ parser.nread = start + 1 - began + extra
      /\ marks \in [DataKinds -> Nat] /\ MarksFit(marks, parser.state, phase)
  BY InLoop
<1>3. v \in Nat BY <1>1, <1>2
<1>4. parser.nread + v = n BY <1>2
<1>5. /\ ps \in Parser /\ ps.state = parser.state /\ ps.nread = n
      /\ ps.http_errno = IF n > HTTP_MAX_HEADER_SIZE THEN "HEADER_OVERFLOW" ELSE "OK"
      /\ Sound(ps)
  <2> HIDE DEF v, n
  <2> QED BY <1>2, <1>3, <1>4, CountedAs
<1> HIDE DEF ps
<1>6. Quietly
  <2>1. cuts \in 0..MaxCuts /\ MaxCuts \in Nat BY Bounds DEF ParserInv, TypeOK
  <2>2. cuts' \in 0..MaxCuts BY <1>1, <2>1
  <2> QED BY <1>1, <1>2, <2>2 DEF Quietly
<1>7. CASE ps.http_errno # "OK"
  <2>1. /\ phase' = "idle" /\ marks' = NoMarks /\ pauses' \in 0..MaxPauses
        /\ p' \in 1..(Len(Text_) + 1)
    BY <1>1, <1>2, <1>7
  <2>2. ps.http_errno \notin Going BY <1>5, <1>7 DEF Going
  <2>3. n > HTTP_MAX_HEADER_SIZE BY <1>5, <1>7
  <2>4. p' + 1 - began' + extra' > HTTP_MAX_HEADER_SIZE
    BY <1>1, <1>2, <2>3, Bounds
  <2> QED BY <1>1, <1>5, <1>6, <2>1, <2>2, <2>4, Stopped
<1>8. CASE ps.http_errno = "OK"
  <2>1. /\ phase' = "cut" /\ marks' = marks BY <1>1, <1>8
  <2>2. TypeOK' BY <1>1, <1>5, <1>6, <2>1 DEF ParserInv, TypeOK, Text_, Phases, Quietly
  <2>3. Placed' BY <1>1, <1>2, <1>5, <1>8, <2>1 DEF Placed
  <2>4. MarksFit(marks, parser.state, phase)'
    BY <1>1, <1>2, <1>5, <2>1, LoopMarks DEF MarksFit
  <2>5. Counts'
    <3>1. Counting' = q /\ parser'.nread = n /\ parser'.http_errno = "OK"
      BY <1>1, <1>5, <1>8, <2>1 DEF Counting
    <3>2. n <= HTTP_MAX_HEADER_SIZE BY <1>2, <1>5, <1>8, Bounds
    <3>3. n = Counting' - began' + extra' BY <1>1, <1>2, <3>1
    <3>4. parser'.state # "s_chunk_size_start" BY <1>1, <1>2, <1>5
    <3> HIDE DEF n
    <3> QED BY <3>1, <3>2, <3>3, <3>4 DEF Counts
  <2> QED BY <1>1, <1>5, <2>2, <2>3, <2>4, <2>5 DEF ParserInv
<1> QED BY <1>7, <1>8

LEMMA FieldCutKeeps == ASSUME ParserInv, FieldCut PROVE ParserInv'
<1>1. phase \in {"field", "value"} /\ LoopCut(p) BY DEF FieldCut
<1>2. p \in 1..(Len(Text_) + 1) BY DEF ParserInv, TypeOK
<1> QED BY <1>1, <1>2, LoopCutKeeps

LEMMA ValueCutKeeps == ASSUME ParserInv, ValueCut PROVE ParserInv'
<1>1. PICK q \in p..(Len(Text_) + 1) : LoopCut(q) BY DEF ValueCut
<1>2. phase \in {"field", "value"} BY DEF ValueCut
<1>3. q \in 1..(Len(Text_) + 1) BY EndIsNumber DEF ParserInv, TypeOK
<1> QED BY <1>1, <1>2, <1>3, LoopCutKeeps
-----------------------------------------------------------------------------
\* Values.

\* What a value begins with.
LEMMA ValueBegunIs ==
    ASSUME ParserInv, phase = "byte"
    PROVE  /\ ValueBegun \in Parser /\ ValueBegun.state = "s_header_value"
           /\ ValueBegun.nread = parser.nread
           /\ ValueBegun.header_state \in ValueStates
           /\ ValueBegun.http_errno \in {"OK", "INVALID_CONTENT_LENGTH"}
<1> DEFINE ps == [To("s_header_value") EXCEPT !.index = 0]
           Good(u) == /\ u \in Parser /\ u.state = "s_header_value"
                      /\ u.nread = parser.nread
                      /\ u.header_state \in ValueStates
                      /\ u.http_errno \in {"OK", "INVALID_CONTENT_LENGTH"}
           becomes(state) == [ps EXCEPT !.header_state = state]
           c == Lower(ch)
<1>1. /\ ps \in Parser /\ ps.state = "s_header_value" /\ ps.nread = parser.nread
      /\ ps.http_errno = "OK" /\ ps.header_state = parser.header_state
  <2>1. "s_header_value" \in States BY DEF States
  <2>2. parser \in Parser /\ parser.http_errno = "OK" BY InCall
  <2> QED BY <2>1, <2>2 DEF To, Parser
<1> HIDE DEF ps
<1>2. ASSUME NEW state \in ValueStates PROVE Good(becomes(state))
  <2>1. state \in HeaderStates BY DEF ValueStates, HeaderStates, Words
  <2> QED BY <1>1, <2>1 DEF Parser
<1>3. ValueBegun = CASE ps.header_state = "h_upgrade" ->
                 [becomes("h_general") EXCEPT !.flags = @ \cup {"UPGRADE"}]
          [] ps.header_state = "h_transfer_encoding" ->
                 becomes(IF c = "c" THEN "h_matching_transfer_encoding_chunked"
                                    ELSE "h_general")
          [] ps.header_state = "h_content_length" ->
                 IF ch \in IsNum THEN [ps EXCEPT !.content_length = DigitValue(ch)]
                                 ELSE [ps EXCEPT !.http_errno = "INVALID_CONTENT_LENGTH"]
          [] ps.header_state = "h_connection" ->
                 becomes(CASE c = "k" -> "h_matching_connection_keep_alive"
                           [] c = "c" -> "h_matching_connection_close"
                           [] c = "u" -> "h_matching_connection_upgrade"
                           [] OTHER -> "h_matching_connection_token")
          [] ps.header_state = "h_matching_connection_token_start" -> ps
          [] OTHER -> becomes("h_general")
  BY DEF ValueBegun, ps
<1> DEFINE u == ValueBegun
<1>4. u = ValueBegun OBVIOUS
<1> HIDE DEF u
<1>5. "h_general" \in ValueStates BY DEF ValueStates
<1>6. CASE ps.header_state = "h_upgrade"
  <2>1. u = [becomes("h_general") EXCEPT !.flags = @ \cup {"UPGRADE"}] BY <1>3, <1>4, <1>6
  <2>2. Good(becomes("h_general")) /\ becomes("h_general").http_errno = "OK"
    BY <1>1, <1>2, <1>5 DEF Parser
  <2>3. "UPGRADE" \in Flags BY DEF Flags
  <2>4. Good(u) BY <2>1, <2>2, <2>3 DEF Parser
  <2> QED BY <1>4, <2>4
<1>7. CASE ps.header_state = "h_transfer_encoding"
  <2> DEFINE h == IF c = "c" THEN "h_matching_transfer_encoding_chunked" ELSE "h_general"
  <2>1. u = becomes(h) BY <1>3, <1>4, <1>7
  <2>2. h \in ValueStates BY DEF ValueStates
  <2> HIDE DEF h
  <2>3. Good(u) BY <1>2, <2>1, <2>2
  <2> QED BY <1>4, <2>3
<1>8. CASE ps.header_state = "h_content_length"
  <2>1. u = IF ch \in IsNum THEN [ps EXCEPT !.content_length = DigitValue(ch)]
                            ELSE [ps EXCEPT !.http_errno = "INVALID_CONTENT_LENGTH"]
    BY <1>3, <1>4, <1>8
  <2>2. "INVALID_CONTENT_LENGTH" \in Errors BY DEF Errors
  <2>3. ps.header_state \in ValueStates BY <1>8 DEF ValueStates
  <2>4. CASE ch \in IsNum
    <3>1. DigitValue(ch) \in 0..9 BY <2>4, Digit
    <3>2. DigitValue(ch) \in 0..ULLONG_MAX BY <3>1, Bounds
    <3>3. Good(u) BY <1>1, <2>1, <2>3, <2>4, <3>2 DEF Parser
    <3> QED BY <1>4, <3>3
  <2>5. CASE ch \notin IsNum
    <3>3. Good(u) BY <1>1, <2>1, <2>2, <2>3, <2>5 DEF Parser
    <3> QED BY <1>4, <3>3
  <2> QED BY <2>4, <2>5
<1>9. CASE ps.header_state = "h_connection"
  <2> DEFINE h == CASE c = "k" -> "h_matching_connection_keep_alive"
                    [] c = "c" -> "h_matching_connection_close"
                    [] c = "u" -> "h_matching_connection_upgrade"
                    [] OTHER -> "h_matching_connection_token"
  <2>1. u = becomes(h) BY <1>3, <1>4, <1>9
  <2>2. h \in ValueStates BY DEF ValueStates
  <2> HIDE DEF h
  <2>3. Good(u) BY <1>2, <2>1, <2>2
  <2> QED BY <1>4, <2>3
<1>10. CASE ps.header_state = "h_matching_connection_token_start"
  <2>1. u = ps BY <1>3, <1>4, <1>10
  <2>2. ps.header_state \in ValueStates BY <1>10 DEF ValueStates
  <2>3. Good(u) BY <1>1, <2>1, <2>2
  <2> QED BY <1>4, <2>3
<1>11. CASE ps.header_state \notin {"h_upgrade", "h_transfer_encoding", "h_content_length",
                                    "h_connection", "h_matching_connection_token_start"}
  <2>1. u = becomes("h_general") BY <1>3, <1>4, <1>11
  <2>3. Good(u) BY <1>2, <1>5, <2>1
  <2> QED BY <1>4, <2>3
<1> QED BY <1>6, <1>7, <1>8, <1>9, <1>10, <1>11

\* The first character of a value, from both states it may be read in.
LEMMA BeginValueKeeps ==
    ASSUME ParserInv, phase = "byte", parser.state \in Bare, BeginValue
    PROVE  ParserInv'
<1> DEFINE ps == ValueBegun
<1>1. /\ ps \in Parser /\ ps.state = "s_header_value" /\ ps.nread = parser.nread
      /\ ps.header_state \in ValueStates
      /\ ps.http_errno \in {"OK", "INVALID_CONTENT_LENGTH"}
  BY ValueBegunIs
<1>2. Same BY DEF BeginValue, Return
<1>3. Quietly /\ UNCHANGED <<began, extra>> BY <1>2, SameIsQuiet
<1>4. /\ p \in 1..Len(Text_) /\ Len(Text_) \in Nat /\ parser.http_errno = "OK"
  BY InCall
<1>5. CASE ps.http_errno # "OK"
  <2>1. /\ parser' = ps /\ phase' = "idle" /\ p' = p /\ marks' = NoMarks
        /\ UNCHANGED pauses
    BY <1>5 DEF BeginValue, Return, Quiet
  <2>2. ps.http_errno \notin Going /\ ps.http_errno # "HEADER_OVERFLOW" BY <1>1, <1>5 DEF Going
  <2>3. p' \in 1..(Len(Text_) + 1) /\ pauses' \in 0..MaxPauses
    BY <1>4, <2>1 DEF ParserInv, TypeOK
  <2>5. Sound(ps) BY <1>1 DEF Sound, ChunkStates, SizeStates
  <2> HIDE DEF ps
  <2> QED BY <1>1, <1>3, <2>1, <2>2, <2>3, <2>5, Stopped
<1>6. CASE ps.http_errno = "OK"
  <2> DEFINE left == Marked("header_value")
             q == p + 1
             next == "fetch"
  <2>1. Resumable(ps, q, next, left) BY <1>6 DEF BeginValue, Resumable, Quiet
  <2>2. Sound(ps) BY <1>1 DEF Sound, ChunkStates, SizeStates
  <2>3. left \in [DataKinds -> Nat] /\ MarksFit(left, ps.state, next)
    <3>1. marks \in [DataKinds -> Nat] /\ MarksFit(marks, ps.state, next) BY BareIsUnmarked
    <3>2. p \in Nat BY <1>4
    <3>3. left \in [DataKinds -> Nat] BY <3>1, <3>2 DEF Marked
    <3>4. \A k \in DataKinds : left[k] # 0 => k = "header_value" \/ marks[k] # 0
      BY <3>1 DEF Marked
    <3> HIDE DEF left
    <3> QED BY <1>1, <3>1, <3>3, <3>4, LoopMarks DEF MarksFit
  <2>4. q \in 1..(Len(Text_) + 1) BY <1>4
  <2>5. phase' # "byte" BY <2>1 DEF Resumable
  <2>6. ps.nread <= HTTP_MAX_HEADER_SIZE /\ ps.nread = q - began + extra
    <3>1. Counting = q BY DEF Counting
    <3>2. parser.http_errno \in Going BY <1>4 DEF Going
    <3>3. ParsingHeader(parser.state) BY BareIsPlain, PlainIsSound
    <3> QED BY <1>1, <3>1, <3>2, <3>3 DEF ParserInv, Counts
  <2>7. /\ next \in {"byte", "fetch", "idle", "upgraded", "closed"} /\ next # "byte"
        /\ ps.state # "s_chunk_size_start"
    BY <1>1
  <2> HIDE DEF ps, left, q, next
  <2>8. ps.nread = (IF phase' = "byte" THEN q + 1 ELSE q) - began' + extra'
    BY <1>3, <2>5, <2>6
  <2> QED BY <1>1, <1>3, <1>6, <2>1, <2>2, <2>3, <2>4, <2>6, <2>7, <2>8, Arrived
<1> QED BY <1>5, <1>6

LEMMA HeaderValueStartKeeps == ASSUME ParserInv, HeaderValueStart PROVE ParserInv'
<1>1. phase = "byte" /\ parser.state \in Bare BY BareStates DEF HeaderValueStart, In
<1> QED BY <1>1, BeginValueKeeps DEF HeaderValueStart

LEMMA HeaderValueDiscardWsKeeps == ASSUME ParserInv, HeaderValueDiscardWs PROVE ParserInv'
<1>1. /\ phase = "byte" /\ parser.state \in Bare /\ parser.state \in Plain
      /\ Onward(parser)
  BY BareStates, PlainStates, InCall DEF HeaderValueDiscardWs, In
<1>2. Blank \cap {CR, LF} = {} /\ CR # LF BY DEF Blank, CR, LF
<1>3. CASE ch \in Blank
  <2>1. Consume(parser) BY <1>2, <1>3 DEF HeaderValueDiscardWs
  <2> QED BY <1>1, <2>1, Consumed
<1>4. CASE ch \in {CR, LF}
  <2> DEFINE state == IF ch = CR THEN "s_header_value_discard_ws_almost_done"
                                 ELSE "s_header_value_discard_lws"
  <2>1. Consume(To(state)) BY <1>2, <1>4 DEF HeaderValueDiscardWs
  <2>2. state \in Plain BY BareStates, PlainStates DEF Literal
  <2> HIDE DEF state
  <2>3. Onward(To(state)) /\ To(state).state \in Plain BY <1>1, <2>2, Moved
  <2> QED BY <1>1, <2>1, <2>3, Consumed
<1>5. CASE ch \notin Blank \cup {CR, LF}
  <2>1. BeginValue BY <1>5 DEF HeaderValueDiscardWs
  <2> QED BY <1>1, <2>1, BeginValueKeeps
<1> QED BY <1>3, <1>4, <1>5

\* A set of numbers has a least one.
LEMMA LeastNatural ==
    ASSUME NEW T, T \subseteq Nat, T # {}
    PROVE  \E x \in T : \A y \in T : x <= y
<1> DEFINE R == {ss \in Nat \X Nat : ss[1] < ss[2]}
<1>1. IsWellFoundedOn(R, Nat) BY NatLessThanWellFounded DEF OpToRel
<1>2. PICK x \in T : \A y \in T : <<y, x>> \notin R
  <2> HIDE DEF R
  <2> QED BY <1>1, WFMin
<1>3. ASSUME NEW y \in T PROVE x <= y
  <2>1. <<y, x>> \in Nat \X Nat OBVIOUS
  <2>2. <<y, x>> \notin R BY <1>2
  <2>3. ~(y < x) BY <2>1, <2>2
  <2> QED BY <2>3
<1> QED BY <1>3

\* Where memchr looks is in the piece, or its end.
LEMMA LineEnds ==
    ASSUME NEW q \in Nat, Len(Text_) \in Nat, q <= Len(Text_)
    PROVE  LineEndFrom(q) \in q..(Len(Text_) + 1)
<1> DEFINE ends == {i \in q..Len(Text_) : At(Text_, i) \in LineEnd}
<1>1. CASE ends = {}
  <2>1. LineEndFrom(q) = Len(Text_) + 1 BY <1>1 DEF LineEndFrom
  <2> QED BY <2>1
<1>2. CASE ends # {}
  <2>1. ends \subseteq Nat OBVIOUS
  <2>2. LineEndFrom(q) = CHOOSE i \in ends : \A j \in ends : i <= j BY <1>2 DEF LineEndFrom
  <2>3. ends \subseteq q..Len(Text_) OBVIOUS
  <2> HIDE DEF ends
  <2>5. \E i \in ends : \A j \in ends : i <= j BY <1>2, <2>1, LeastNatural
  <2>4. LineEndFrom(q) \in ends BY <2>2, <2>5
  <2>6. LineEndFrom(q) \in q..Len(Text_) BY <2>3, <2>4
  <2> QED BY <2>6
<1> QED BY <1>1, <1>2

\* A length never gets longer than it may.
LEMMA Within ==
    ASSUME NEW x \in Nat
    PROVE  x % (ULLONG_MAX + 1) \in 0..ULLONG_MAX
<1> DEFINE m == ULLONG_MAX + 1
<1>1. m \in Nat \ {0} /\ ULLONG_MAX \in Nat BY Bounds
<1>2. m - 1 = ULLONG_MAX BY <1>1
<1> HIDE DEF m
<1>3. x % m \in 0..(m - 1) BY <1>1
<1> QED BY <1>2, <1>3 DEF m

\* A digit of Content-Length changes the length only, or is an error.
LEMMA LengthDigitStays ==
    ASSUME NEW ps \in Parser, ps.http_errno = "OK"
    PROVE  /\ LengthDigit(ps) \in Parser /\ LengthDigit(ps).state = ps.state
           /\ LengthDigit(ps).nread = ps.nread
           /\ LengthDigit(ps).header_state = ps.header_state
           /\ LengthDigit(ps).http_errno \in {"OK", "INVALID_CONTENT_LENGTH"}
<1> DEFINE good == ch \in IsNum /\ ~TooLong(ps, 10)
           u == LengthDigit(ps)
<1>1. CASE ch = " "
  <2>1. ch \notin IsNum BY <1>1 DEF IsNum
  <2>2. u = ps BY <1>1, <2>1 DEF LengthDigit
  <2> QED BY <2>2
<1>2. CASE ch # " " /\ good
  <2>1. u = [ps EXCEPT !.content_length = Sum(ps, 10, DigitValue(ch))]
    BY <1>2 DEF LengthDigit
  <2>2. DigitValue(ch) \in 0..9 BY <1>2, Digit
  <2>3. ps.content_length \in 0..ULLONG_MAX BY DEF Parser
  <2>4. 10 * ps.content_length + DigitValue(ch) \in Nat BY <2>2, <2>3, Bounds
  <2>5. Sum(ps, 10, DigitValue(ch)) \in 0..ULLONG_MAX BY <2>4, Within DEF Sum
  <2> HIDE DEF u
  <2>6. /\ u \in Parser /\ u.state = ps.state /\ u.nread = ps.nread
        /\ u.header_state = ps.header_state /\ u.http_errno = "OK"
    BY <2>1, <2>5 DEF Parser
  <2> QED BY <2>6 DEF u
<1>3. CASE ch # " " /\ ~good
  <2>1. u = [ps EXCEPT !.http_errno = "INVALID_CONTENT_LENGTH"]
    BY <1>3 DEF LengthDigit
  <2>2. "INVALID_CONTENT_LENGTH" \in Errors BY DEF Errors
  <2> HIDE DEF u
  <2>6. /\ u \in Parser /\ u.state = ps.state /\ u.nread = ps.nread
        /\ u.header_state = ps.header_state /\ u.http_errno = "INVALID_CONTENT_LENGTH"
    BY <2>1, <2>2 DEF Parser
  <2> QED BY <2>6 DEF u
<1> QED BY <1>1, <1>2, <1>3

\* What stays when a character of a value is compared.
ValueStays(u, ps) == /\ u \in Parser /\ u.state = ps.state /\ u.nread = ps.nread
                     /\ u.header_state \in ValueStates
                     /\ u.http_errno \in {"OK", "INVALID_CONTENT_LENGTH"}

\* One character of a value that matters.
LEMMA ValueMatchedStays ==
    ASSUME NEW ps \in Parser, ps.http_errno = "OK",
           ps.header_state \in ValueStates \ {"h_general"}
    PROVE  ValueStays(ValueMatched(ps), ps)
<1> DEFINE becomes(state) == [ps EXCEPT !.header_state = state]
           c == Lower(ch)
           h == ps.header_state
           u == ValueMatched(ps)
<1>1. ValueStates \subseteq HeaderStates BY DEF ValueStates, HeaderStates, Words
<1>2. ASSUME NEW state \in ValueStates PROVE ValueStays(becomes(state), ps)
  <2>1. state \in HeaderStates BY <1>1
  <2> QED BY <2>1 DEF ValueStays, Parser
<1>3. ValueStays(ps, ps) BY DEF ValueStays
<1>4. /\ {"h_matching_connection_token_start", "h_matching_connection_token",
          "h_transfer_encoding_chunked", "h_content_length"} \cap DOMAIN Words = {}
      /\ {"h_matching_connection_token_start", "h_matching_connection_token",
          "h_transfer_encoding_chunked", "h_content_length"} \cap DOMAIN ConnectionFlag = {}
      /\ DOMAIN Words \cap DOMAIN ConnectionFlag = {}
  BY DEF Words, ConnectionFlag
<1>5. CASE h = "h_content_length"
  <2>1. u = LengthDigit(ps) BY <1>4, <1>5 DEF ValueMatched
  <2> HIDE DEF u
  <2>2. ValueStays(u, ps) BY <2>1, LengthDigitStays DEF ValueStays
  <2> QED BY <2>2 DEF u
<1>6. CASE h \in DOMAIN Words
  <2>1. u = Matched(ps) BY <1>4, <1>6 DEF ValueMatched
  <2> HIDE DEF u
  <2>2. ValueStays(u, ps) BY <1>6, <2>1, MatchedStays DEF ValueStays, Alike
  <2> QED BY <2>2 DEF u
<1>7. CASE h = "h_matching_connection_token_start"
  <2>1. \/ u = ps \/ \E state \in ValueStates : u = becomes(state)
    <3> DEFINE V == {"h_matching_connection_keep_alive", "h_matching_connection_close",
                     "h_matching_connection_upgrade", "h_matching_connection_token",
                     "h_general"}
    <3>1. V \subseteq ValueStates BY DEF ValueStates
    <3>2. u = CASE c = "k" -> becomes("h_matching_connection_keep_alive")
                [] c = "c" -> becomes("h_matching_connection_close")
                [] c = "u" -> becomes("h_matching_connection_upgrade")
                [] c \in IsToken \ {"k", "c", "u"} -> becomes("h_matching_connection_token")
                [] c \in Blank -> ps
                [] OTHER -> becomes("h_general")
      BY <1>4, <1>7 DEF ValueMatched
    <3> HIDE DEF u, becomes
    <3>3. u = ps \/ \E state \in V : u = becomes(state) BY <3>2
    <3> QED BY <3>1, <3>3
  <2> HIDE DEF u, becomes
  <2>2. ValueStays(u, ps) BY <1>2, <1>3, <2>1
  <2> QED BY <2>2 DEF u
<1>8. CASE h = "h_matching_connection_token"
  <2> DEFINE v == [becomes("h_matching_connection_token_start") EXCEPT !.index = 0]
  <2>1. u = IF ch = "," THEN v ELSE ps BY <1>4, <1>8 DEF ValueMatched
  <2>2. "h_matching_connection_token_start" \in ValueStates BY DEF ValueStates
  <2>3. ValueStays(v, ps) BY <1>2, <2>2 DEF ValueStays, Parser
  <2> HIDE DEF v, u
  <2>4. ValueStays(u, ps) BY <1>3, <2>1, <2>3
  <2> QED BY <2>4 DEF u
<1>9. CASE h = "h_transfer_encoding_chunked"
  <2>1. u = IF ch = " " THEN ps ELSE becomes("h_general") BY <1>4, <1>9 DEF ValueMatched
  <2>2. "h_general" \in ValueStates BY DEF ValueStates
  <2>3. ValueStays(becomes("h_general"), ps) BY <1>2, <2>2
  <2> HIDE DEF u, becomes
  <2>4. ValueStays(u, ps) BY <1>3, <2>1, <2>3
  <2> QED BY <2>4 DEF u
<1>10. CASE h \in DOMAIN ConnectionFlag
  <2> DEFINE v == [becomes("h_matching_connection_token_start")
                       EXCEPT !.index = 0, !.flags = @ \cup {ConnectionFlag[ps.header_state]}]
  <2>1. \/ u = v \/ u = ps \/ u = becomes("h_matching_connection_token")
    BY <1>4, <1>10 DEF ValueMatched
  <2>2. {"h_matching_connection_token_start", "h_matching_connection_token"}
            \subseteq ValueStates
    BY DEF ValueStates
  <2>3. ConnectionFlag[ps.header_state] \in Flags BY <1>10 DEF ConnectionFlag, Flags
  <2>4. ValueStays(v, ps) BY <1>2, <2>2, <2>3 DEF ValueStays, Parser
  <2>5. ValueStays(becomes("h_matching_connection_token"), ps) BY <1>2, <2>2
  <2> HIDE DEF v, u, becomes
  <2>6. ValueStays(u, ps) BY <1>3, <2>1, <2>4, <2>5
  <2> QED BY <2>6 DEF u
<1>11. \/ h \in {"h_content_length", "h_matching_connection_token_start",
                "h_matching_connection_token", "h_transfer_encoding_chunked"}
       \/ h \in DOMAIN Words \/ h \in DOMAIN ConnectionFlag
  BY DEF ValueStates, Words
<1> QED BY <1>5, <1>6, <1>7, <1>8, <1>9, <1>10, <1>11

LEMMA ValueCharKeeps == ASSUME ParserInv, ValueChar PROVE ParserInv'
<1> DEFINE ps == ValueMatched(parser)
           q == p + 1
<1>1. /\ phase = "value" /\ phase \in {"field", "value"} /\ More
      /\ parser.header_state # "h_general" /\ Quiet /\ Same
  BY DEF ValueChar
<1>2. /\ parser \in Parser /\ parser.http_errno = "OK" /\ p \in Nat \ {0}
      /\ Len(Text_) \in Nat /\ parser.state = "s_header_value" /\ Sound(parser)
      /\ pauses \in 0..MaxPauses
  BY <1>1, InLoop
<1>3. parser.header_state \in ValueStates \ {"h_general"} BY <1>1, <1>2 DEF Sound
<1>4. /\ ps \in Parser /\ ps.state = parser.state /\ ps.nread = parser.nread
      /\ ps.header_state \in ValueStates
      /\ ps.http_errno \in {"OK", "INVALID_CONTENT_LENGTH"}
  BY <1>2, <1>3, ValueMatchedStays DEF ValueStays
<1>5. p <= Len(Text_) /\ q \in p..(Len(Text_) + 1) BY <1>1, <1>2 DEF More
<1>6. CASE ps.http_errno = "OK"
  <2>1. parser' = ps /\ p' = q /\ UNCHANGED <<phase, marks>> BY <1>6 DEF ValueChar
  <2> HIDE DEF ps, q
  <2> QED BY <1>1, <1>4, <1>5, <1>6, <2>1, LoopGoes
<1>7. CASE ps.http_errno # "OK"
  <2>1. /\ parser' = ps /\ phase' = "idle" /\ p' = p /\ marks' = NoMarks
        /\ UNCHANGED pauses
    BY <1>1, <1>7 DEF ValueChar, Return, Quiet
  <2>2. Quietly BY <1>1, SameIsQuiet
  <2>3. ps.http_errno \notin Going /\ ps.http_errno # "HEADER_OVERFLOW"
    BY <1>4, <1>7 DEF Going
  <2>4. p' \in 1..(Len(Text_) + 1) /\ pauses' \in 0..MaxPauses BY <1>2, <1>5, <2>1
  <2>5. Sound(ps) BY <1>2, <1>4 DEF Sound, ChunkStates, SizeStates
  <2> HIDE DEF ps
  <2> QED BY <1>4, <2>1, <2>2, <2>3, <2>4, <2>5, Stopped
<1> QED BY <1>6, <1>7

LEMMA ValueSkipKeeps == ASSUME ParserInv, ValueSkip PROVE ParserInv'
<1> DEFINE ps == parser
           q == LineEndFrom(p)
<1>1. /\ phase = "value" /\ phase \in {"field", "value"} /\ More
      /\ parser' = ps /\ p' = q /\ UNCHANGED <<phase, marks>> /\ Quiet /\ Same
  BY DEF ValueSkip
<1>2. /\ ps \in Parser /\ ps.http_errno = "OK" /\ p \in Nat /\ Len(Text_) \in Nat
      /\ ps.state = "s_header_value" /\ Sound(ps)
  BY <1>1, InLoop
<1>3. q \in p..(Len(Text_) + 1) BY <1>1, <1>2, LineEnds DEF More
<1>4. ps.header_state \in ValueStates BY <1>2 DEF Sound
<1>5. ps.state = parser.state /\ ps.nread = parser.nread OBVIOUS
<1> HIDE DEF ps, q
<1> QED BY <1>1, <1>2, <1>3, <1>4, <1>5, LoopGoes

\* The line that a value ends is counted.
LEMMA LineCounted ==
    ASSUME ParserInv, phase = "value", More, NEW ended, ended = To("s_header_almost_done"),
           NEW ps, ps = Counted(ended, p - start), NEW n, n = p + 1 - began + extra
    PROVE  /\ p \in 1..Len(Text_) /\ Len(Text_) \in Nat /\ start \in Nat /\ began \in Nat
           /\ extra \in Int /\ pauses \in 0..MaxPauses
           /\ ended \in Parser /\ Sound(ended) /\ ended.http_errno = "OK"
           /\ ended.state = "s_header_almost_done"
           /\ ended.nread = start + 1 - began + extra
           /\ ended.nread <= HTTP_MAX_HEADER_SIZE
           /\ ps \in Parser /\ Sound(ps) /\ ps.state = "s_header_almost_done"
           /\ ps.nread = n
           /\ ps.http_errno = IF n > HTTP_MAX_HEADER_SIZE THEN "HEADER_OVERFLOW" ELSE "OK"
           /\ marks \in [DataKinds -> Nat]
           /\ \A ph : MarksFit([marks EXCEPT !.header_value = 0], "s_header_almost_done", ph)
           /\ [marks EXCEPT !.header_value = 0] \in [DataKinds -> Nat]
<1>1. /\ parser \in Parser /\ parser.http_errno = "OK"
      /\ parser.state = "s_header_value" /\ p \in Nat \ {0} /\ start \in Nat /\ start <= p
      /\ began \in Nat /\ extra \in Int /\ pauses \in 0..MaxPauses
      /\ Len(Text_) \in Nat /\ p <= Len(Text_) + 1
      /\ parser.nread = start + 1 - began + extra /\ parser.nread <= HTTP_MAX_HEADER_SIZE
      /\ marks \in [DataKinds -> Nat] /\ MarksFit(marks, parser.state, phase)
  BY InLoop
<1>2. p \in 1..Len(Text_) BY <1>1 DEF More
<1>3. "s_header_almost_done" \in Plain /\ "s_header_almost_done" \in States
  BY BareStates, PlainStates DEF Literal
<1>4. /\ ended \in Parser /\ ended.http_errno = "OK"
      /\ ended.state = "s_header_almost_done" /\ ended.nread = parser.nread
  BY <1>1, <1>3 DEF To, Parser
<1>5. Sound(ended) BY <1>3, <1>4, PlainIsSound
<1>6. p - start \in Nat /\ ended.nread + (p - start) = n BY <1>1, <1>4
<1> DEFINE v == p - start
<1>7. v \in Nat /\ ps = Counted(ended, v) /\ ended.nread + v = n BY <1>6
<1> HIDE DEF v
<1>8. /\ ps \in Parser /\ ps.state = ended.state /\ ps.nread = n
      /\ ps.http_errno = IF n > HTTP_MAX_HEADER_SIZE THEN "HEADER_OVERFLOW" ELSE "OK"
      /\ Sound(ps)
  BY <1>4, <1>5, <1>7, CountedAs
<1>9. /\ [marks EXCEPT !.header_value = 0] \in [DataKinds -> Nat]
      /\ \A ph : MarksFit([marks EXCEPT !.header_value = 0], "s_header_almost_done", ph)
  BY <1>1, LoopMarks, Unmarking
<1> QED BY <1>1, <1>2, <1>4, <1>5, <1>8, <1>9

LEMMA ValueCRKeeps == ASSUME ParserInv, ValueCR PROVE ParserInv'
<1> DEFINE ended == To("s_header_almost_done")
           ps == Counted(ended, p - start)
           n == p + 1 - began + extra
           left == [marks EXCEPT !.header_value = 0]
           q == p + 1
           next == "fetch"
<1>1. phase = "value" /\ More /\ Steady /\ UNCHANGED began BY DEF ValueCR
<1>2. /\ p \in 1..Len(Text_) /\ Len(Text_) \in Nat /\ start \in Nat /\ began \in Nat
      /\ extra \in Int /\ pauses \in 0..MaxPauses
      /\ ended \in Parser /\ Sound(ended) /\ ended.http_errno = "OK"
      /\ ended.state = "s_header_almost_done"
      /\ ended.nread = start + 1 - began + extra
      /\ ended.nread <= HTTP_MAX_HEADER_SIZE
      /\ ps \in Parser /\ Sound(ps) /\ ps.state = "s_header_almost_done"
      /\ ps.nread = n
      /\ ps.http_errno = IF n > HTTP_MAX_HEADER_SIZE THEN "HEADER_OVERFLOW" ELSE "OK"
      /\ MarksFit(left, "s_header_almost_done", next) /\ left \in [DataKinds -> Nat]
  BY <1>1, LineCounted
<1>3. \/ /\ IF ps.http_errno = "OK"
            THEN parser' = ps /\ p' = q /\ phase' = next /\ marks' = left
            ELSE Return(ps)
         /\ UNCHANGED <<pauses, extra>>
      \/ /\ pauses < MaxPauses /\ pauses' = pauses + 1
         /\ parser' = [ended EXCEPT !.http_errno = "PAUSED"]
         /\ p' = q /\ phase' = "idle" /\ marks' = NoMarks
         /\ extra' = extra - (p - start)
  BY DEF ValueCR
<1>4. /\ q \in 1..(Len(Text_) + 1) /\ q = p + 1 BY <1>2
<1>5. /\ next \in {"byte", "fetch", "idle", "upgraded", "closed"} /\ next # "byte"
      /\ next \notin {"upgraded", "closed"}
  OBVIOUS
<1>6. cuts \in 0..MaxCuts BY DEF ParserInv, TypeOK
<1>7. n = p + 1 - began + extra OBVIOUS
<1> HIDE DEF ended, ps, left, q, next, n
<1>8. CASE ps.http_errno = "OK" /\ UNCHANGED <<pauses, extra>>
           /\ parser' = ps /\ p' = q /\ phase' = next /\ marks' = left
  <2>1. Resumable(ps, q, next, left) BY <1>8 DEF Resumable
  <2>2. Quietly BY <1>1, <1>2, <1>6, <1>8 DEF Steady, Quietly
  <2>3. n <= HTTP_MAX_HEADER_SIZE BY <1>2, <1>7, <1>8, Bounds
  <2>4. ps.nread = (IF phase' = "byte" THEN q + 1 ELSE q) - began' + extra'
    BY <1>1, <1>2, <1>4, <1>5, <1>7, <1>8
  <2> QED BY <1>2, <1>4, <1>5, <1>8, <2>1, <2>2, <2>3, <2>4, Arrived
<1>9. CASE ps.http_errno # "OK" /\ Return(ps) /\ UNCHANGED <<pauses, extra>>
  <2>1. parser' = ps /\ phase' = "idle" /\ p' = p /\ marks' = NoMarks BY <1>9 DEF Return
  <2>2. Quietly BY <1>1, <1>2, <1>6, <1>9 DEF Steady, Quietly
  <2>3. ps.http_errno \notin Going BY <1>2, <1>9 DEF Going
  <2>4. p' + 1 - began' + extra' > HTTP_MAX_HEADER_SIZE BY <1>1, <1>2, <1>7, <1>9, <2>1
  <2>5. p' \in 1..(Len(Text_) + 1) /\ pauses' \in 0..MaxPauses BY <1>2, <1>9, <2>1
  <2> QED BY <1>2, <2>1, <2>2, <2>3, <2>4, <2>5, Stopped
<1>10. CASE /\ pauses < MaxPauses /\ pauses' = pauses + 1
            /\ parser' = [ended EXCEPT !.http_errno = "PAUSED"]
            /\ p' = q /\ phase' = "idle" /\ marks' = NoMarks
            /\ extra' = extra - (p - start)
  <2>1. Resumable(ended, q, next, left) BY <1>5, <1>10 DEF Resumable
  <2>2. extra' \in Int BY <1>2, <1>10
  <2>3. Quietly BY <1>1, <1>2, <1>6, <2>2 DEF Steady, Quietly
  <2>4. ended.nread = q - began + extra' BY <1>2, <1>4, <1>10
  <2>5. ended.nread = (IF phase' = "byte" THEN q + 1 ELSE q) - began' + extra'
    BY <1>1, <1>10, <2>4
  <2> QED BY <1>2, <1>4, <1>5, <2>1, <2>3, <2>5, Arrived
<1> QED BY <1>3, <1>8, <1>9, <1>10

LEMMA ValueLFKeeps == ASSUME ParserInv, ValueLF PROVE ParserInv'
<1> DEFINE ended == To("s_header_almost_done")
           ps == Counted(ended, p - start)
           n == p + 1 - began + extra
           left == [marks EXCEPT !.header_value = 0]
           q == p
           next == "byte"
<1>1. /\ phase = "value" /\ More /\ Steady /\ UNCHANGED began
      /\ extra' = IF pauses' > pauses THEN extra + 1 ELSE extra
  BY DEF ValueLF, Twice
<1>2. /\ p \in 1..Len(Text_) /\ Len(Text_) \in Nat /\ start \in Nat /\ began \in Nat
      /\ extra \in Int /\ pauses \in 0..MaxPauses
      /\ ps \in Parser /\ Sound(ps) /\ ps.state = "s_header_almost_done"
      /\ ps.nread = n
      /\ ps.http_errno = IF n > HTTP_MAX_HEADER_SIZE THEN "HEADER_OVERFLOW" ELSE "OK"
      /\ MarksFit(left, "s_header_almost_done", next) /\ left \in [DataKinds -> Nat]
  BY <1>1, LineCounted
<1>3. IF ps.http_errno = "OK" THEN Data("header_value", p, ps, q, next)
                              ELSE Return(ps) /\ UNCHANGED pauses
  BY DEF ValueLF, Quiet
<1>4. q \in 1..(Len(Text_) + 1) /\ q <= Len(Text_) /\ q = p BY <1>2
<1>5. cuts \in 0..MaxCuts /\ pauses \in Nat BY <1>2 DEF ParserInv, TypeOK
<1>6. n = p + 1 - began + extra /\ left = [marks EXCEPT !.header_value = 0]
      /\ next = "byte"
  OBVIOUS
<1> HIDE DEF ended, ps, q, n
<1>7. CASE ps.http_errno = "OK"
  <2>1. Resumable(ps, q, next, left) BY <1>3, <1>7 DEF Data, Resumable, Quiet
  <2> HIDE DEF left, next
  <2>2. \/ phase' = "byte" /\ pauses' = pauses
        \/ phase' = "idle" /\ pauses' = pauses + 1
    BY <1>6, <2>1 DEF Resumable
  <2>3. extra' = IF phase' = "byte" THEN extra ELSE extra + 1 BY <1>1, <1>5, <2>2
  <2>4. Quietly BY <1>1, <1>2, <1>5, <2>3 DEF Steady, Quietly
  <2>5. n <= HTTP_MAX_HEADER_SIZE BY <1>2, <1>6, <1>7, Bounds
  <2>6. ps.nread = (IF phase' = "byte" THEN q + 1 ELSE q) - began' + extra'
    BY <1>1, <1>2, <1>4, <1>6, <2>3
  <2>7. next \in {"byte", "fetch", "idle", "upgraded", "closed"} BY <1>6
  <2> QED BY <1>2, <1>4, <1>7, <2>1, <2>4, <2>5, <2>6, <2>7, Arrived
<1>8. CASE ps.http_errno # "OK"
  <2>1. /\ parser' = ps /\ phase' = "idle" /\ p' = p /\ marks' = NoMarks /\ pauses' = pauses
    BY <1>3, <1>8 DEF Return
  <2>2. extra' = extra BY <1>1, <1>5, <2>1
  <2>3. Quietly BY <1>1, <1>2, <1>5, <2>2 DEF Steady, Quietly
  <2>4. ps.http_errno \notin Going BY <1>2, <1>8 DEF Going
  <2>5. p' + 1 - began' + extra' > HTTP_MAX_HEADER_SIZE BY <1>1, <1>2, <1>6, <1>8, <2>1, <2>2
  <2>6. p' \in 1..(Len(Text_) + 1) /\ pauses' \in 0..MaxPauses BY <1>2, <2>1
  <2> QED BY <1>2, <2>1, <2>3, <2>4, <2>5, <2>6, Stopped
<1> QED BY <1>7, <1>8

\* The end of a field sets at most a flag.
LEMMA Concluding ==
    ASSUME ParserInv, NEW ps, Onward(ps)
    PROVE  Onward(Concluded(ps)) /\ Concluded(ps).state = ps.state
<1>1. "h_transfer_encoding_chunked" \notin DOMAIN ConnectionFlag BY DEF ConnectionFlag
<1>2. CASE ps.header_state \in DOMAIN ConnectionFlag
  <2>1. Concluded(ps) = [ps EXCEPT !.flags = @ \cup {ConnectionFlag[ps.header_state]}]
    BY <1>1, <1>2 DEF Concluded
  <2>2. ConnectionFlag[ps.header_state] \in Flags BY <1>2 DEF ConnectionFlag, Flags
  <2> QED BY <2>1, <2>2 DEF Onward, Parser
<1>3. CASE ps.header_state = "h_transfer_encoding_chunked"
  <2>1. Concluded(ps) = [ps EXCEPT !.flags = @ \cup {"CHUNKED"}]
    BY <1>1, <1>3 DEF Concluded
  <2>2. "CHUNKED" \in Flags BY DEF Flags
  <2> QED BY <2>1, <2>2 DEF Onward, Parser
<1>4. CASE ps.header_state \notin {"h_transfer_encoding_chunked"} \cup DOMAIN ConnectionFlag
  <2>1. Concluded(ps) = ps BY <1>4 DEF Concluded
  <2> QED BY <2>1
<1> QED BY <1>2, <1>3, <1>4

LEMMA HeaderValueLwsKeeps == ASSUME ParserInv, HeaderValueLws PROVE ParserInv'
<1>1. phase = "byte" /\ parser.state \in Bare BY BareStates DEF HeaderValueLws, In
<1>2. {"s_header_value_start", "s_header_field_start"} \subseteq Plain
  BY BareStates, PlainStates
<1> DEFINE field == Concluded(To("s_header_field_start"))
           value == To("s_header_value_start")
<1>3. Onward(field) /\ field.state \in Plain BY <1>1, <1>2, Moved, Concluding
<1>4. Onward(value) /\ value.state \in Plain BY <1>1, <1>2, Moved
<1>5. CASE ch \in Blank
  <2>1. Reexecute(value) BY <1>5 DEF HeaderValueLws
  <2> HIDE DEF value
  <2> QED BY <1>1, <1>4, <2>1, Reexecuted
<1>6. CASE ch \notin Blank
  <2>1. Reexecute(field) BY <1>6 DEF HeaderValueLws
  <2> HIDE DEF field
  <2> QED BY <1>1, <1>3, <2>1, Reexecuted
<1> QED BY <1>5, <1>6

LEMMA HeaderValueDiscardLwsKeeps ==
    ASSUME ParserInv, HeaderValueDiscardLws PROVE ParserInv'
<1>1. phase = "byte" /\ parser.state \in Bare BY BareStates DEF HeaderValueDiscardLws, In
<1>2. {"s_header_value_discard_ws", "s_header_field_start"} \subseteq Plain
  BY BareStates, PlainStates
<1> DEFINE field == Concluded(To("s_header_field_start"))
           value == To("s_header_value_discard_ws")
<1>3. Onward(field) /\ field.state \in Plain BY <1>1, <1>2, Moved, Concluding
<1>4. Onward(value) /\ value.state \in Plain BY <1>1, <1>2, Moved
<1>5. CASE ch \in Blank
  <2>1. Consume(value) BY <1>5 DEF HeaderValueDiscardLws
  <2> HIDE DEF value
  <2> QED BY <1>1, <1>4, <2>1, Consumed
<1>6. CASE ch \notin Blank
  <2>1. Resumable(field, p, "byte", marks) /\ Twice BY <1>6 DEF HeaderValueDiscardLws
  <2> HIDE DEF field
  <2> QED BY <1>1, <1>3, <2>1, Reread
<1> QED BY <1>5, <1>6

\* What has been counted of a header when a character of it is in the switch.
LEMMA CountedSoFar ==
    ASSUME ParserInv, phase = "byte", ParsingHeader(parser.state)
    PROVE  parser.nread <= HTTP_MAX_HEADER_SIZE /\ parser.nread = p + 1 - began + extra
<1>1. Counting = p + 1 BY DEF Counting
<1>2. parser.http_errno \in Going BY InCall DEF Going
<1>3. /\ parser.nread <= HTTP_MAX_HEADER_SIZE
      /\ parser.nread = Counting - began + extra
  BY <1>2 DEF ParserInv, Counts
<1>4. p \in Int /\ began \in Int /\ extra \in Int BY DEF ParserInv, TypeOK
<1> QED BY <1>1, <1>3, <1>4

LEMMA HeadersAlmostDoneKeeps == ASSUME ParserInv, HeadersAlmostDone PROVE ParserInv'
<1>1. phase = "byte" /\ parser.state \in Bare BY BareStates DEF HeadersAlmostDone, In
<1>2. /\ parser \in Parser /\ parser.http_errno = "OK" /\ Onward(parser)
      /\ p \in 1..Len(Text_) /\ Len(Text_) \in Nat
  BY <1>1, InCall
<1>3. CASE ch # LF
  <2>1. Fail("STRICT") BY <1>3 DEF HeadersAlmostDone
  <2> QED BY <1>1, <2>1, Refused
<1>4. CASE ch = LF /\ "TRAILING" \in parser.flags
  <2> DEFINE ps == To("s_message_done")
             left == marks
             q == p
             next == "byte"
  <2>1. Resumable(ps, q, next, left) /\ Same BY <1>4 DEF HeadersAlmostDone, Notify
  <2>2. "s_message_done" \in States BY DEF States, BodyStates
  <2>3. /\ ps \in Parser /\ ps.state = "s_message_done" /\ ps.http_errno = "OK"
        /\ ps.nread = parser.nread
    BY <1>2, <2>2 DEF To, Parser
  <2>4. Sound(ps) /\ ~ParsingHeader(ps.state)
    BY <2>3 DEF Sound, ChunkStates, SizeStates, ParsingHeader, BodyStates
  <2>5. left \in [DataKinds -> Nat] /\ MarksFit(left, ps.state, next)
    BY <1>1, BareIsUnmarked
  <2>6. ps.nread <= HTTP_MAX_HEADER_SIZE
    BY <1>1, <2>3, CountedSoFar, BareIsPlain, PlainIsSound
  <2>7. Quietly BY <2>1, SameIsQuiet
  <2>8. q \in 1..(Len(Text_) + 1) /\ q <= Len(Text_) BY <1>2
  <2>9. next \in {"byte", "fetch", "idle", "upgraded", "closed"} OBVIOUS
  <2>10. ps.state # "s_chunk_size_start" BY <2>3
  <2> HIDE DEF ps, left, q, next
  <2> QED BY <2>1, <2>3, <2>4, <2>5, <2>6, <2>7, <2>8, <2>9, <2>10, Arrived
<1>5. CASE ch = LF /\ "TRAILING" \notin parser.flags
  <2> DEFINE upgrade == \/ {"UPGRADE", "CONNECTION_UPGRADE"} \subseteq parser.flags
                        \/ parser.method = "CONNECT"
             flags == IF stream.skip THEN parser.flags \cup {"SKIPBODY"} ELSE parser.flags
             ps == [parser EXCEPT !.state = "s_headers_done", !.upgrade = upgrade,
                                  !.flags = flags]
  <2>1. [To("s_headers_done") EXCEPT
             !.upgrade = \/ {"UPGRADE", "CONNECTION_UPGRADE"} \subseteq parser.flags
                         \/ parser.method = "CONNECT",
             !.flags = IF stream.skip THEN @ \cup {"SKIPBODY"} ELSE @] = ps
    BY <1>2 DEF To, Parser
  <2>2. Resumable(ps, p, "byte", marks) /\ Twice
    <3> HIDE DEF ps
    <3> QED BY <1>5, <2>1 DEF HeadersAlmostDone, Notify
  <2>3. upgrade \in BOOLEAN OBVIOUS
  <2>4. flags \in SUBSET Flags BY <1>2 DEF Parser, Flags
  <2>5. "s_headers_done" \in Plain /\ "s_headers_done" \in States BY BareStates, PlainStates
  <2> HIDE DEF upgrade, flags
  <2>6. Onward(ps) /\ ps.state \in Plain BY <1>2, <2>3, <2>4, <2>5 DEF Onward, Parser
  <2> HIDE DEF ps
  <2> QED BY <1>1, <2>2, <2>6, Reread
<1> QED BY <1>3, <1>4, <1>5

\* The count begins again behind the character that is read.
LEMMA Recounted ==
    ASSUME ParserInv, phase = "byte", NEW n \in Nat, n <= HTTP_MAX_HEADER_SIZE,
           NEW ps \in Parser, Sound(ps), ps.http_errno = "OK", ps.nread = n,
           ps.state = "s_chunk_size_start" => n = 0,
           NEW next \in {"fetch", "upgraded"},
           NEW left \in [DataKinds -> Nat], MarksFit(left, ps.state, next),
           Resumable(ps, p + 1, next, left), Recount(n)
    PROVE  ParserInv'
<1> DEFINE q == p + 1
<1>1. p \in 1..Len(Text_) /\ Len(Text_) \in Nat BY InCall
<1>2. q \in 1..(Len(Text_) + 1) /\ q \in Nat BY <1>1
<1>3. Resumable(ps, q, next, left) OBVIOUS
<1>4. began' = q /\ extra' = n /\ UNCHANGED <<stream, start, cuts>> BY DEF Recount, Steady
<1> HIDE DEF q
<1>5. Quietly BY <1>2, <1>4 DEF ParserInv, TypeOK, Quietly
<1>6. phase' # "byte" BY <1>3 DEF Resumable
<1>7. ps.nread = (IF phase' = "byte" THEN q + 1 ELSE q) - began' + extra'
  BY <1>2, <1>4, <1>6
<1>8. next \in {"byte", "fetch", "idle", "upgraded", "closed"} /\ next # "byte" OBVIOUS
<1>9. ps.state = "s_chunk_size_start" => ps.nread = 0 OBVIOUS
<1> QED BY <1>2, <1>3, <1>5, <1>7, <1>8, <1>9, Arrived

\* The state a message ends with is bare.
LEMMA NextMessage ==
    ASSUME NEW ps
    PROVE  NewMessage(ps) \in {"s_dead", "s_start_req", "s_start_res"}
BY DEF NewMessage

LEMMA HeadersDoneKeeps == ASSUME ParserInv, HeadersDone PROVE ParserInv'
<1> DEFINE ps == [parser EXCEPT !.nread = 0]
           done == [ps EXCEPT !.state = NewMessage(ps)]
           body == [ps EXCEPT !.state = IF "CHUNKED" \in ps.flags THEN "s_chunk_size_start"
                                                                 ELSE "s_body_identity"]
           eof == [ps EXCEPT !.state = "s_body_identity_eof"]
           skip == "SKIPBODY" \in ps.flags
           upgraded == ps.upgrade /\ (ps.method = "CONNECT" \/ skip \/ ~HasBody(ps))
           untilEof == ps.content_length = ULLONG_MAX /\ NeedsEof(ps)
<1>1. phase = "byte" /\ parser.state \in Bare BY BareStates DEF HeadersDone, In
<1>2. ps \in Parser /\ ps.http_errno = "OK" /\ ps.nread = 0
  BY <1>1, InCall DEF Parser
<1>3. marks \in [DataKinds -> Nat] /\ \A state, ph : MarksFit(marks, state, ph)
  BY <1>1, BareIsUnmarked
<1>4. ASSUME NEW u \in Parser, Sound(u), u.http_errno = "OK", u.nread = 0,
             NEW next \in {"fetch", "upgraded"}, Resumable(u, p + 1, next, marks), Recount(0)
      PROVE  ParserInv'
  <2> DEFINE left == marks
             n == 0
  <2>1. left \in [DataKinds -> Nat] /\ MarksFit(left, u.state, next) BY <1>3
  <2>2. Resumable(u, p + 1, next, left) /\ Recount(n) BY <1>4
  <2>3. n \in Nat /\ n <= HTTP_MAX_HEADER_SIZE /\ u.nread = n
        /\ (u.state = "s_chunk_size_start" => n = 0)
    BY <1>4, Bounds
  <2> HIDE DEF left, n
  <2> QED BY <1>1, <1>4, <2>1, <2>2, <2>3, Recounted
<1>5. /\ done \in Parser /\ Sound(done) /\ done.http_errno = "OK" /\ done.nread = 0
  <2>1. NewMessage(ps) \in Plain /\ NewMessage(ps) \in States
    BY NextMessage, BareStates, PlainStates
  <2> DEFINE state == NewMessage(ps)
  <2>2. state \in Plain /\ state \in States BY <2>1
  <2> HIDE DEF state
  <2> DEFINE u == [ps EXCEPT !.state = state]
  <2>3. u \in Parser /\ u.state = state /\ u.http_errno = "OK" /\ u.nread = 0
    BY <1>2, <2>2 DEF Parser
  <2>4. done = u BY DEF state
  <2> HIDE DEF u, done
  <2> QED BY <2>2, <2>3, <2>4, PlainIsSound
<1>6. CASE ch # LF
  <2>1. Fail("STRICT") BY <1>6 DEF HeadersDone
  <2> QED BY <1>1, <2>1, Refused
<1>7. ASSUME NEW next \in {"fetch", "upgraded"},
             Notify("message_complete", done, p + 1, next), Recount(0)
      PROVE  ParserInv'
  <2>1. Resumable(done, p + 1, next, marks) BY <1>7 DEF Notify
  <2> HIDE DEF done
  <2> QED BY <1>4, <1>5, <1>7, <2>1
<1>8. CASE ch = LF /\ upgraded
  <2>1. Notify("message_complete", done, p + 1, "upgraded") /\ Recount(0)
    BY <1>8 DEF HeadersDone
  <2> QED BY <1>7, <2>1
<1>9. ASSUME ch = LF, ~upgraded
      PROVE  /\ Recount(0)
             /\ CASE skip -> Notify("message_complete", done, p + 1, "fetch")
                  [] ~skip /\ HasBody(ps) ->
                         /\ parser' = body /\ p' = p + 1 /\ phase' = "fetch"
                         /\ UNCHANGED marks /\ Quiet
                  [] ~skip /\ ~HasBody(ps) /\ ps.content_length = ULLONG_MAX /\ NeedsEof(ps) ->
                         /\ parser' = eof /\ p' = p + 1 /\ phase' = "fetch"
                         /\ UNCHANGED marks /\ Quiet
                  [] OTHER -> Notify("message_complete", done, p + 1, "fetch")
  BY <1>9 DEF HeadersDone
<1>10. CASE ch = LF /\ ~upgraded /\ (skip \/ (~HasBody(ps) /\ ~untilEof))
  <2>1. Notify("message_complete", done, p + 1, "fetch") /\ Recount(0)
    <3> HIDE DEF ps, done, body, eof, upgraded
    <3> QED BY <1>9, <1>10
  <2> QED BY <1>7, <2>1
<1>11. CASE ch = LF /\ ~upgraded /\ ~skip /\ HasBody(ps)
  <2>1. /\ parser' = body /\ p' = p + 1 /\ phase' = "fetch" /\ UNCHANGED marks /\ Quiet
        /\ Recount(0)
    <3> HIDE DEF ps, done, body, eof, upgraded, skip
    <3> QED BY <1>9, <1>11
  <2> DEFINE state == IF "CHUNKED" \in ps.flags THEN "s_chunk_size_start"
                                                ELSE "s_body_identity"
  <2>2. state \in States BY DEF States, BodyStates
  <2>3. /\ body \in Parser /\ body.state = state /\ body.http_errno = "OK"
        /\ body.nread = 0 /\ body.flags = ps.flags /\ body.content_length = ps.content_length
    <3> HIDE DEF ps
    <3> QED BY <1>2, <2>2 DEF Parser
  <2>4. "CHUNKED" \notin ps.flags => ps.content_length \notin {0, ULLONG_MAX}
    BY <1>11 DEF HasBody
  <2>5. Sound(body) BY <2>3, <2>4 DEF Sound, ChunkStates, SizeStates
  <2>6. Resumable(body, p + 1, "fetch", marks) BY <2>1 DEF Resumable, Quiet
  <2> HIDE DEF body
  <2> QED BY <1>4, <2>1, <2>3, <2>5, <2>6
<1>12. CASE ch = LF /\ ~upgraded /\ ~skip /\ ~HasBody(ps) /\ untilEof
  <2>1. /\ parser' = eof /\ p' = p + 1 /\ phase' = "fetch" /\ UNCHANGED marks /\ Quiet
        /\ Recount(0)
    <3> HIDE DEF ps, done, body, eof, upgraded, skip
    <3> QED BY <1>9, <1>12
  <2>2. "s_body_identity_eof" \in States BY DEF States, BodyStates
  <2>3. /\ eof \in Parser /\ eof.state = "s_body_identity_eof" /\ eof.http_errno = "OK"
        /\ eof.nread = 0
    BY <1>2, <2>2 DEF Parser
  <2>5. Sound(eof) BY <2>3 DEF Sound, ChunkStates, SizeStates
  <2>6. Resumable(eof, p + 1, "fetch", marks) BY <2>1 DEF Resumable, Quiet
  <2> HIDE DEF eof
  <2> QED BY <1>4, <2>1, <2>3, <2>5, <2>6
<1> QED BY <1>6, <1>8, <1>10, <1>11, <1>12

LEMMA ReadHeaderKeeps == ASSUME ParserInv, ReadHeader PROVE ParserInv'
BY HeaderFieldStartKeeps, EnterLoopKeeps, FieldCharKeeps, FieldEndKeeps, FieldCutKeeps,
   HeaderValueDiscardWsKeeps, HeaderValueStartKeeps, ValueCharKeeps, ValueSkipKeeps,
   ValueCutKeeps, ValueCRKeeps, ValueLFKeeps, HeaderValueLwsKeeps,
   HeaderValueDiscardLwsKeeps, HeadersAlmostDoneKeeps, HeadersDoneKeeps
   DEF ReadHeader
-----------------------------------------------------------------------------
\* Bodies.

\* Outside a header, too, no more is counted than may be.
LEMMA CountedAtMost ==
    ASSUME ParserInv, phase = "byte"
    PROVE  parser.nread <= HTTP_MAX_HEADER_SIZE
<1>1. parser.http_errno \in Going BY InCall DEF Going
<1> QED BY <1>1 DEF ParserInv, Counts

\* A mark is set where it belongs.
LEMMA Marking ==
    ASSUME ParserInv, NEW kind \in DataKinds, NEW state, NEW ph,
           MarkOf(state, ph) = kind, MarkOf(parser.state, phase) \in {kind, "none"}
    PROVE  Marked(kind) \in [DataKinds -> Nat] /\ MarksFit(Marked(kind), state, ph)
<1> DEFINE left == Marked(kind)
<1>1. marks \in [DataKinds -> Nat] /\ MarksFit(marks, parser.state, phase) /\ p \in Nat
  BY DEF ParserInv, TypeOK
<1>2. "none" \notin DataKinds BY DEF DataKinds
<1>3. left \in [DataKinds -> Nat] BY <1>1 DEF Marked
<1>4. \A k \in DataKinds : left[k] # 0 => k = kind \/ marks[k] # 0 BY <1>1 DEF Marked
<1>5. \A k \in DataKinds : marks[k] # 0 => k = kind BY <1>1, <1>2 DEF MarksFit
<1> HIDE DEF left
<1>6. MarksFit(left, state, ph) BY <1>4, <1>5 DEF MarksFit
<1> QED BY <1>3, <1>6 DEF left

\* What may be marked in each state of a body.
LEMMA BodyMarks ==
    /\ \A ph : MarkOf("s_chunk_data", ph) = "body"
    /\ \A ph : MarkOf("s_chunk_data_almost_done", ph) = "body"
    /\ MarkOf("s_body_identity", "byte") = "none"
    /\ MarkOf("s_body_identity", "cut") = "body"
    /\ MarkOf("s_body_identity_eof", "byte") = "none"
    /\ MarkOf("s_body_identity_eof", "cut") = "body"
    /\ \A ph : MarkOf("s_message_done", ph) = "none"
    /\ \A ph : MarkOf("s_chunk_data_done", ph) = "none"
    /\ \A ph : MarkOf("s_chunk_size_start", ph) = "none"
    /\ \A ph : MarkOf("s_chunk_size", ph) = "none"
    /\ \A ph : MarkOf("s_chunk_parameters", ph) = "none"
    /\ \A ph : MarkOf("s_chunk_size_almost_done", ph) = "none"
    /\ "body" \in DataKinds
BY DEF MarkOf, UrlStates, DataKinds

\* Where no text is read, the marks fit any state.
LEMMA UnmarkedHere ==
    ASSUME ParserInv, MarkOf(parser.state, phase) = "none"
    PROVE  /\ marks \in [DataKinds -> Nat]
           /\ \A state, ph : MarksFit(marks, state, ph)
<1>1. MarksFit(marks, parser.state, phase) /\ marks \in [DataKinds -> Nat]
  BY DEF ParserInv, TypeOK
<1> QED BY <1>1, Unmarked

\* The piece ends inside a body.
LEMMA BodyCut ==
    ASSUME ParserInv, phase = "byte",
           parser.state \in {"s_body_identity", "s_body_identity_eof", "s_chunk_data"},
           NEW ps \in Parser, Sound(ps), ps.state = parser.state, ps.http_errno = "OK",
           ps.nread = parser.nread, NEW q \in 1..(Len(Text_) + 1),
           parser' = ps, p' = q, phase' = "cut", marks' = Marked("body"), Quiet,
           Quietly
    PROVE  ParserInv'
<1>1. Marked("body") \in [DataKinds -> Nat] /\ MarksFit(Marked("body"), ps.state, "cut")
  BY BodyMarks, Marking
<1>2. TypeOK'
  BY <1>1 DEF ParserInv, TypeOK, Text_, Phases, Quietly, Quiet
<1>3. Placed' BY DEF Placed
<1>4. MarksFit(marks, parser.state, phase)' BY <1>1
<1>5. Counts'
  <2>1. ~ParsingHeader(ps.state) /\ ps.state # "s_chunk_size_start"
    BY DEF ParsingHeader, BodyStates
  <2> QED BY <2>1, CountedAtMost DEF Counts
<1>6. Sound(parser)' OBVIOUS
<1> QED BY <1>2, <1>3, <1>4, <1>5, <1>6 DEF ParserInv

\* What is taken of a body.
LEMMA Taking ==
    ASSUME ParserInv, phase = "byte", parser.state \in {"s_body_identity", "s_chunk_data"},
           NEW n \in 1..Len(Text_), Available(n),
           NEW ps, ps = [parser EXCEPT !.content_length = @ - n]
    PROVE  /\ ps \in Parser /\ ps.state = parser.state /\ ps.http_errno = "OK"
           /\ ps.nread = parser.nread /\ ps.flags = parser.flags
           /\ ps.content_length # 0 => Sound(ps)
           /\ p + n \in 1..(Len(Text_) + 1) /\ p + n - 1 \in 1..Len(Text_)
           /\ ps.content_length # 0 /\ p + n <= Len(Text_) => cuts < MaxCuts
<1>1. /\ parser \in Parser /\ parser.http_errno = "OK" /\ p \in 1..Len(Text_)
      /\ Len(Text_) \in Nat
  BY InCall
<1>2. parser.content_length \in 0..ULLONG_MAX /\ ULLONG_MAX \in Nat
  BY <1>1, Bounds DEF Parser
<1>3. /\ n \in Nat /\ n >= 1 /\ n <= parser.content_length /\ p + n <= Len(Text_) + 1
      /\ (n < parser.content_length /\ p + n <= Len(Text_) => cuts < MaxCuts)
  BY <1>1 DEF Available
<1> DEFINE left == parser.content_length - n
<1>4. /\ left \in 0..ULLONG_MAX /\ left # ULLONG_MAX
      /\ (left # 0 => n < parser.content_length)
  BY <1>2, <1>3
<1> HIDE DEF left
<1>5. /\ ps \in Parser /\ ps.state = parser.state /\ ps.http_errno = "OK"
      /\ ps.nread = parser.nread /\ ps.flags = parser.flags /\ ps.content_length = left
  <2>1. ps = [parser EXCEPT !.content_length = left] BY DEF left
  <2> QED BY <1>1, <1>4, <2>1 DEF Parser
<1>6. left # 0 => Sound(ps)
  <2>1. Sound(parser) BY DEF ParserInv
  <2> QED BY <1>4, <1>5, <2>1 DEF Sound, ChunkStates, SizeStates
<1>7. p + n \in 1..(Len(Text_) + 1) /\ p + n - 1 \in 1..Len(Text_) BY <1>1, <1>3
<1> QED BY <1>3, <1>4, <1>5, <1>6, <1>7

\* The end of the piece inside a body.
LEMMA Cutting ==
    ASSUME ParserInv, NEW q, q <= Len(Text_) => cuts < MaxCuts, EndsAt(q),
           UNCHANGED <<stream, start, extra, began>>
    PROVE  Quietly
<1>1. /\ cuts \in 0..MaxCuts /\ MaxCuts \in Nat /\ start \in Nat /\ began \in Nat
      /\ extra \in Int
  BY Bounds DEF ParserInv, TypeOK
<1>2. cuts' = IF q <= Len(Text_) THEN cuts + 1 ELSE cuts BY DEF EndsAt
<1>3. cuts' \in 0..MaxCuts BY <1>1, <1>2
<1> QED BY <1>1, <1>3 DEF Quietly

LEMMA BodyIdentityKeeps == ASSUME ParserInv, BodyIdentity PROVE ParserInv'
<1>1. PICK n \in 1..Len(Text_) :
          /\ Available(n)
          /\ LET ps == [parser EXCEPT !.content_length = @ - n]
             IN  IF ps.content_length = 0
                 THEN /\ out' = Heard("body", SubSeq(Text_, p, p + n - 1))
                      /\ Resumable([ps EXCEPT !.state = "s_message_done"], p + n - 1,
                                   "byte", marks)
                      /\ UNCHANGED cuts
                 ELSE /\ parser' = ps /\ p' = p + n /\ phase' = "cut"
                      /\ marks' = Marked("body") /\ EndsAt(p + n)
                      /\ Quiet
  BY DEF BodyIdentity
<1>2. /\ phase = "byte" /\ parser.state = "s_body_identity"
      /\ UNCHANGED <<stream, start, extra, began>>
  BY DEF BodyIdentity, In
<1> DEFINE ps == [parser EXCEPT !.content_length = @ - n]
<1>3. /\ ps \in Parser /\ ps.state = parser.state /\ ps.http_errno = "OK"
      /\ ps.nread = parser.nread
      /\ ps.content_length # 0 => Sound(ps)
      /\ p + n \in 1..(Len(Text_) + 1) /\ p + n - 1 \in 1..Len(Text_)
      /\ ps.content_length # 0 /\ p + n <= Len(Text_) => cuts < MaxCuts
  BY <1>1, <1>2, Taking
<1>4. IF ps.content_length = 0
      THEN /\ Resumable([ps EXCEPT !.state = "s_message_done"], p + n - 1, "byte", marks)
           /\ UNCHANGED cuts
      ELSE /\ parser' = ps /\ p' = p + n /\ phase' = "cut"
           /\ marks' = Marked("body") /\ EndsAt(p + n) /\ Quiet
  BY <1>1
<1>5. Len(Text_) \in Nat BY EndIsNumber DEF ParserInv
<1> HIDE DEF ps
<1>6. CASE ps.content_length = 0
  <2> DEFINE u == [ps EXCEPT !.state = "s_message_done"]
             q == p + n - 1
             next == "byte"
             left == marks
  <2>1. Resumable(u, q, next, left) BY <1>4, <1>6
  <2>2. Quietly BY <1>2, <1>4, <1>6 DEF ParserInv, TypeOK, Quietly
  <2>3. "s_message_done" \in States BY DEF States, BodyStates
  <2>4. u \in Parser /\ u.state = "s_message_done" /\ u.http_errno = "OK"
        /\ u.nread = parser.nread
    BY <1>3, <2>3 DEF Parser
  <2>5. Sound(u) /\ ~ParsingHeader(u.state) /\ u.state # "s_chunk_size_start"
    BY <2>4 DEF Sound, ChunkStates, SizeStates, ParsingHeader, BodyStates
  <2>6. left \in [DataKinds -> Nat] /\ MarksFit(left, u.state, next)
    BY <1>2, BodyMarks, UnmarkedHere
  <2>7. u.nread <= HTTP_MAX_HEADER_SIZE BY <1>2, <2>4, CountedAtMost
  <2>8. q \in 1..(Len(Text_) + 1) /\ q <= Len(Text_) BY <1>3, <1>5
  <2>9. next \in {"byte", "fetch", "idle", "upgraded", "closed"} OBVIOUS
  <2> HIDE DEF u, q, next, left
  <2> QED BY <2>1, <2>2, <2>4, <2>5, <2>6, <2>7, <2>8, <2>9, Arrived
<1>7. CASE ps.content_length # 0
  <2> DEFINE q == p + n
  <2>1. /\ parser' = ps /\ p' = q /\ phase' = "cut"
        /\ marks' = Marked("body") /\ EndsAt(q) /\ Quiet
        /\ q \in 1..(Len(Text_) + 1) /\ (q <= Len(Text_) => cuts < MaxCuts)
    BY <1>3, <1>4, <1>7
  <2> HIDE DEF q
  <2>2. Quietly BY <1>2, <2>1, Cutting
  <2>3. parser.state \in {"s_body_identity", "s_body_identity_eof", "s_chunk_data"}
    BY <1>2
  <2> QED BY <1>2, <1>3, <1>7, <2>1, <2>2, <2>3, BodyCut
<1> QED BY <1>6, <1>7

LEMMA BodyIdentityEofKeeps == ASSUME ParserInv, BodyIdentityEof PROVE ParserInv'
<1>1. PICK q \in (p + 1)..(Len(Text_) + 1) :
          (q <= Len(Text_) => cuts < MaxCuts) /\ p' = q /\ EndsAt(q)
  BY DEF BodyIdentityEof
<1>2. /\ phase = "byte" /\ parser.state = "s_body_identity_eof"
      /\ marks' = Marked("body") /\ phase' = "cut"
      /\ UNCHANGED <<stream, parser, start, extra, began>> /\ Quiet
  BY DEF BodyIdentityEof, In
<1> DEFINE ps == parser
<1>3. /\ ps \in Parser /\ ps.http_errno = "OK" /\ p \in 1..Len(Text_) /\ Len(Text_) \in Nat
      /\ Sound(ps)
  BY <1>2, InCall DEF ParserInv
<1>4. q \in 1..(Len(Text_) + 1) BY <1>3
<1>5. Quietly BY <1>1, <1>2, Cutting
<1>6. parser.state \in {"s_body_identity", "s_body_identity_eof", "s_chunk_data"}
  BY <1>2
<1>7. parser' = ps /\ ps.state = parser.state /\ ps.nread = parser.nread BY <1>2
<1> HIDE DEF ps
<1> QED BY <1>1, <1>2, <1>3, <1>4, <1>5, <1>6, <1>7, BodyCut

LEMMA MessageDoneKeeps == ASSUME ParserInv, MessageDone PROVE ParserInv'
<1> DEFINE state == NewMessage(parser)
           ps == To(state)
           n == parser.nread
           next == IF parser.upgrade THEN "upgraded" ELSE "fetch"
           left == marks
<1>1. phase = "byte" /\ parser.state = "s_message_done" BY DEF MessageDone, In
<1>2. Resumable(ps, p + 1, next, left) /\ Recount(n) BY DEF MessageDone, Notify
<1>3. state \in Plain BY NextMessage, BareStates, PlainStates
<1>4. left \in [DataKinds -> Nat] /\ \A s, ph : MarksFit(left, s, ph)
  BY <1>1, BodyMarks, UnmarkedHere
<1>5. n \in Nat /\ n <= HTTP_MAX_HEADER_SIZE BY <1>1, InCall, CountedAtMost DEF Parser
<1>6. next \in {"fetch", "upgraded"} OBVIOUS
<1> HIDE DEF state, next, left
<1>7. Onward(ps) /\ ps.state = state BY <1>1, <1>3, Moved
<1>8. /\ ps \in Parser /\ ps.http_errno = "OK" /\ ps.nread = n /\ Sound(ps)
      /\ ps.state # "s_chunk_size_start"
  BY <1>3, <1>7, PlainIsSound DEF Onward
<1> HIDE DEF ps, n
<1> QED BY <1>1, <1>2, <1>4, <1>5, <1>6, <1>8, Recounted

\* A character of a chunk's size is read.
LEMMA SizeRead ==
    ASSUME ParserInv, phase = "byte", parser.state \in {"s_chunk_size_start"} \cup SizeStates,
           NEW ps \in Parser, Sound(ps), ps.http_errno = "OK", ps.nread = parser.nread,
           ps.state # "s_chunk_size_start", Consume(ps)
    PROVE  ParserInv'
<1> DEFINE left == marks
<1>1. ParsingHeader(parser.state) BY DEF ParsingHeader, BodyStates, SizeStates
<1>2. MarkOf(parser.state, phase) = "none" BY BodyMarks DEF SizeStates
<1>3. left \in [DataKinds -> Nat] /\ MarksFit(left, ps.state, "fetch")
  BY <1>2, UnmarkedHere
<1>4. Resumable(ps, p + 1, "fetch", left) /\ Same BY DEF Consume, Resumable, Quiet
<1> HIDE DEF left
<1> QED BY <1>1, <1>3, <1>4, Behind

LEMMA ChunkSizeStartKeeps == ASSUME ParserInv, ChunkSizeStart PROVE ParserInv'
<1>1. phase = "byte" /\ parser.state = "s_chunk_size_start" BY DEF ChunkSizeStart, In
<1>2. CASE ch \in IsHex
  <2> DEFINE length == Unhex(ch)
             ps == [To("s_chunk_size") EXCEPT !.content_length = length]
  <2>1. Consume(ps) BY <1>2 DEF ChunkSizeStart
  <2>2. length \in 0..15 BY <1>2, HexDigit
  <2>3. length \in 0..ULLONG_MAX /\ length < ULLONG_MAX BY <2>2, Bounds
  <2>4. "s_chunk_size" \in States BY DEF States
  <2> HIDE DEF length
  <2>5. /\ ps \in Parser /\ ps.state = "s_chunk_size" /\ ps.http_errno = "OK"
        /\ ps.nread = parser.nread /\ ps.content_length = length /\ ps.flags = parser.flags
    BY <1>1, <2>3, <2>4, InCall DEF To, Parser
  <2>6. "CHUNKED" \in parser.flags BY <1>1 DEF ParserInv, Sound, ChunkStates
  <2>7. Sound(ps) BY <2>3, <2>5, <2>6 DEF Sound
  <2>8. ps.state # "s_chunk_size_start" BY <2>5
  <2> HIDE DEF ps
  <2> QED BY <1>1, <2>1, <2>5, <2>7, <2>8, SizeRead
<1>3. CASE ch \notin IsHex
  <2>1. Fail("INVALID_CHUNK_SIZE") BY <1>3 DEF ChunkSizeStart
  <2> QED BY <1>1, <2>1, Refused
<1> QED BY <1>2, <1>3

\* No hexadecimal digit ends a chunk's size.
LEMMA NoHex == IsHex \cap ({CR} \cup ParametersStart) = {}
<1>1. /\ HexDigits[1] = {"0"} /\ HexDigits[2] = {"1"} /\ HexDigits[3] = {"2"}
      /\ HexDigits[4] = {"3"} /\ HexDigits[5] = {"4"} /\ HexDigits[6] = {"5"}
      /\ HexDigits[7] = {"6"} /\ HexDigits[8] = {"7"} /\ HexDigits[9] = {"8"}
      /\ HexDigits[10] = {"9"}
  BY DEF HexDigits
<1>2. /\ HexDigits[11] = {"a", "A"} /\ HexDigits[12] = {"b", "B"}
      /\ HexDigits[13] = {"c", "C"} /\ HexDigits[14] = {"d", "D"}
      /\ HexDigits[15] = {"e", "E"} /\ HexDigits[16] = {"f", "F"}
  BY DEF HexDigits
<1>3. ASSUME NEW i \in 1..16, NEW c \in {CR} \cup ParametersStart
      PROVE  c \notin HexDigits[i]
  <2>1. /\ c \notin {"0", "1", "2", "3", "4", "5", "6", "7", "8", "9"}
        /\ c \notin {"a", "A", "b", "B", "c", "C", "d", "D", "e", "E", "f", "F"}
    BY Zenon DEF CR, ParametersStart
  <2>2. \/ i \in {1, 2, 3, 4, 5, 6, 7, 8, 9, 10}
        \/ i \in {11, 12, 13, 14, 15, 16}
    OBVIOUS
  <2> QED BY <1>1, <1>2, <2>1, <2>2
<1> QED BY <1>3 DEF IsHex

\* To another state of the size of a chunk.
LEMMA SizeMoved ==
    ASSUME ParserInv, phase = "byte", parser.state \in SizeStates,
           NEW state \in SizeStates
    PROVE  /\ To(state) \in Parser /\ Sound(To(state)) /\ To(state).http_errno = "OK"
           /\ To(state).nread = parser.nread /\ To(state).state = state
           /\ state # "s_chunk_size_start"
<1>1. parser \in Parser /\ parser.http_errno = "OK" /\ Sound(parser)
  BY InCall DEF ParserInv
<1>2. state \in States /\ state # "s_chunk_size_start" BY DEF States, SizeStates
<1> DEFINE ps == To(state)
<1>3. /\ ps \in Parser /\ ps.state = state /\ ps.http_errno = "OK"
      /\ ps.nread = parser.nread /\ ps.flags = parser.flags
      /\ ps.content_length = parser.content_length
  BY <1>1, <1>2 DEF To, Parser
<1>4. "CHUNKED" \in parser.flags /\ parser.content_length < ULLONG_MAX
  BY <1>1 DEF Sound, SizeStates, ChunkStates
<1> HIDE DEF ps
<1>5. Sound(ps) BY <1>3, <1>4 DEF Sound, SizeStates
<1> QED BY <1>2, <1>3, <1>5 DEF ps

\* A number within its range is its own remainder.
LEMMA Small_ ==
    ASSUME NEW x \in Nat, x < ULLONG_MAX
    PROVE  x % (ULLONG_MAX + 1) = x
<1> DEFINE m == ULLONG_MAX + 1
<1>1. m \in Nat \ {0} /\ x < m BY Bounds
<1> HIDE DEF m
<1>2. x % m = x BY <1>1
<1> QED BY <1>2 DEF m

LEMMA ChunkSizeKeeps == ASSUME ParserInv, ChunkSize PROVE ParserInv'
<1>1. phase = "byte" /\ parser.state = "s_chunk_size" /\ parser.state \in SizeStates
  BY DEF ChunkSize, In, SizeStates
<1>2. CR \notin ParametersStart BY Zenon DEF CR, ParametersStart
<1>3. CASE ch \in {CR} \cup ParametersStart
  <2> DEFINE state == IF ch = CR THEN "s_chunk_size_almost_done" ELSE "s_chunk_parameters"
             ps == To(state)
  <2>1. ch \notin IsHex BY <1>3, NoHex
  <2>2. Consume(ps) BY <1>2, <1>3, <2>1 DEF ChunkSize
  <2>3. state \in SizeStates BY DEF SizeStates
  <2> HIDE DEF state
  <2>4. /\ ps \in Parser /\ Sound(ps) /\ ps.http_errno = "OK" /\ ps.nread = parser.nread
        /\ ps.state # "s_chunk_size_start"
    BY <1>1, <2>3, SizeMoved
  <2> HIDE DEF ps
  <2> QED BY <1>1, <2>2, <2>4, SizeRead
<1>4. CASE ch \in IsHex /\ TooLong(parser, 16)
  <2>1. ch \notin {CR} \cup ParametersStart BY <1>4, NoHex
  <2>2. Fail("INVALID_CONTENT_LENGTH") BY <1>4, <2>1 DEF ChunkSize
  <2> QED BY <1>1, <2>2, Refused
<1>5. CASE ch \in IsHex /\ ~TooLong(parser, 16)
  <2> DEFINE digit == Unhex(ch)
             length == Sum(parser, 16, digit)
             ps == [parser EXCEPT !.content_length = length]
  <2>1. ch \notin {CR} \cup ParametersStart BY <1>5, NoHex
  <2>2. Consume(ps) BY <1>5, <2>1 DEF ChunkSize
  <2>3. digit \in 0..15 BY <1>5, HexDigit
  <2>4. /\ parser \in Parser /\ parser.http_errno = "OK" /\ Sound(parser)
    BY <1>1, InCall DEF ParserInv
  <2>5. parser.content_length \in Nat /\ ULLONG_MAX \in Nat /\ ULLONG_MAX >= 16
    BY <2>4, Bounds DEF Parser
  <2> DEFINE sum == 16 * parser.content_length + digit
  <2> HIDE DEF digit
  <2>6. ~((ULLONG_MAX - 16) \div 16 < parser.content_length) BY <1>5 DEF TooLong
  <2>7. sum \in Nat /\ sum < ULLONG_MAX BY <2>3, <2>5, <2>6
  <2>8. length = sum % (ULLONG_MAX + 1) BY DEF Sum
  <2> HIDE DEF sum, length
  <2>9. length = sum BY <2>7, <2>8, Small_
  <2>10. length \in 0..ULLONG_MAX /\ length < ULLONG_MAX BY <2>5, <2>7, <2>9
  <2>11. /\ ps \in Parser /\ ps.state = "s_chunk_size" /\ ps.http_errno = "OK"
         /\ ps.nread = parser.nread /\ ps.content_length = length
         /\ ps.flags = parser.flags
    BY <1>1, <2>4, <2>10 DEF Parser
  <2>12. "CHUNKED" \in parser.flags BY <1>1, <2>4 DEF Sound, ChunkStates
  <2>13. Sound(ps) BY <2>10, <2>11, <2>12 DEF Sound
  <2>14. ps.state # "s_chunk_size_start" BY <2>11
  <2> HIDE DEF ps
  <2> QED BY <1>1, <2>2, <2>11, <2>13, <2>14, SizeRead
<1>6. CASE ch \notin IsHex /\ ch \notin {CR} \cup ParametersStart
  <2>1. Fail("INVALID_CHUNK_SIZE") BY <1>6 DEF ChunkSize
  <2> QED BY <1>1, <2>1, Refused
<1> QED BY <1>3, <1>4, <1>5, <1>6

LEMMA ChunkParametersKeeps == ASSUME ParserInv, ChunkParameters PROVE ParserInv'
<1> DEFINE ps == IF ch = CR THEN To("s_chunk_size_almost_done") ELSE To(parser.state)
<1>1. /\ phase = "byte" /\ parser.state = "s_chunk_parameters"
      /\ parser.state \in SizeStates
  BY DEF ChunkParameters, In, SizeStates
<1>2. To(parser.state) = parser BY <1>1, InCall DEF To, Parser
<1>3. Consume(ps) BY <1>2 DEF ChunkParameters
<1>4. "s_chunk_size_almost_done" \in SizeStates BY DEF SizeStates
<1>5. /\ ps \in Parser /\ Sound(ps) /\ ps.http_errno = "OK" /\ ps.nread = parser.nread
      /\ ps.state # "s_chunk_size_start"
  BY <1>1, <1>4, SizeMoved
<1> HIDE DEF ps
<1> QED BY <1>1, <1>3, <1>5, SizeRead

LEMMA ChunkSizeAlmostDoneKeeps ==
    ASSUME ParserInv, ChunkSizeAlmostDone PROVE ParserInv'
<1> DEFINE trailers == [To("s_header_field_start") EXCEPT !.nread = 0,
                            !.flags = @ \cup {"TRAILING"}]
           data == [To("s_chunk_data") EXCEPT !.nread = 0]
           ps == IF parser.content_length = 0 THEN trailers ELSE data
           n == 0
           next == "fetch"
           left == marks
<1>1. phase = "byte" /\ parser.state = "s_chunk_size_almost_done"
  BY DEF ChunkSizeAlmostDone, In
<1>2. CASE ch # LF
  <2>1. Fail("STRICT") BY <1>2 DEF ChunkSizeAlmostDone
  <2> QED BY <1>1, <2>1, Refused
<1>3. CASE ch = LF
  <2>1. Resumable(ps, p + 1, next, left) /\ Recount(n)
    BY <1>3 DEF ChunkSizeAlmostDone, Notify
  <2>2. /\ parser \in Parser /\ parser.http_errno = "OK" /\ Sound(parser)
    BY <1>1, InCall DEF ParserInv
  <2>3. "CHUNKED" \in parser.flags /\ parser.content_length < ULLONG_MAX
    BY <1>1, <2>2 DEF Sound, ChunkStates, SizeStates
  <2>4. /\ trailers \in Parser /\ trailers.state = "s_header_field_start"
        /\ trailers.http_errno = "OK" /\ trailers.nread = 0 /\ Sound(trailers)
    <3>1. "s_header_field_start" \in Plain /\ "s_header_field_start" \in States
      BY BareStates, PlainStates
    <3>2. "TRAILING" \in Flags BY DEF Flags
    <3>3. /\ trailers \in Parser /\ trailers.state = "s_header_field_start"
          /\ trailers.http_errno = "OK" /\ trailers.nread = 0
      BY <2>2, <3>1, <3>2 DEF To, Parser
    <3> HIDE DEF trailers
    <3> QED BY <3>1, <3>3, PlainIsSound
  <2>5. /\ data \in Parser /\ data.state = "s_chunk_data"
        /\ data.http_errno = "OK" /\ data.nread = 0
        /\ parser.content_length # 0 => Sound(data)
    <3>1. "s_chunk_data" \in States BY DEF States, BodyStates
    <3>3. /\ data \in Parser /\ data.state = "s_chunk_data" /\ data.http_errno = "OK"
          /\ data.nread = 0 /\ data.flags = parser.flags
          /\ data.content_length = parser.content_length
      BY <2>2, <3>1 DEF To, Parser
    <3>4. ULLONG_MAX \in Nat /\ parser.content_length \in Nat BY <2>2, Bounds DEF Parser
    <3> HIDE DEF data
    <3> QED BY <2>3, <3>3, <3>4 DEF Sound, SizeStates, ChunkStates
  <2>6. left \in [DataKinds -> Nat] /\ \A s, ph : MarksFit(left, s, ph)
    BY <1>1, BodyMarks, UnmarkedHere
  <2>7. n \in Nat /\ n <= HTTP_MAX_HEADER_SIZE /\ n = 0 BY Bounds
  <2> HIDE DEF trailers, data
  <2>8. ps \in Parser /\ ps.http_errno = "OK" /\ ps.nread = n /\ Sound(ps)
    BY <2>4, <2>5
  <2>9. next \in {"fetch", "upgraded"} OBVIOUS
  <2> HIDE DEF ps, n, next, left
  <2> QED BY <1>1, <2>1, <2>6, <2>7, <2>8, <2>9, Recounted
<1> QED BY <1>2, <1>3

LEMMA ChunkDataKeeps == ASSUME ParserInv, ChunkData PROVE ParserInv'
<1>1. PICK n \in 1..Len(Text_) :
        /\ Available(n)
        /\ p' = p + n
        /\ LET ps == [parser EXCEPT !.content_length = @ - n]
           IN  IF ps.content_length = 0
               THEN /\ parser' = [ps EXCEPT !.state = "s_chunk_data_almost_done"]
                    /\ phase' = "fetch" /\ UNCHANGED cuts
               ELSE parser' = ps /\ phase' = "cut" /\ EndsAt(p + n)
  BY DEF ChunkData
<1>2. /\ phase = "byte" /\ parser.state = "s_chunk_data"
      /\ marks' = Marked("body") /\ Quiet /\ UNCHANGED <<stream, start, extra, began>>
  BY DEF ChunkData, In
<1> DEFINE ps == [parser EXCEPT !.content_length = @ - n]
           q == p + n
<1>3. /\ ps \in Parser /\ ps.state = parser.state /\ ps.http_errno = "OK"
      /\ ps.nread = parser.nread /\ ps.flags = parser.flags
      /\ ps.content_length # 0 => Sound(ps)
      /\ q \in 1..(Len(Text_) + 1)
      /\ ps.content_length # 0 /\ q <= Len(Text_) => cuts < MaxCuts
  BY <1>1, <1>2, Taking
<1>4. /\ p' = q
      /\ IF ps.content_length = 0
         THEN /\ parser' = [ps EXCEPT !.state = "s_chunk_data_almost_done"]
              /\ phase' = "fetch" /\ UNCHANGED cuts
         ELSE parser' = ps /\ phase' = "cut" /\ EndsAt(q)
  BY <1>1
<1> HIDE DEF ps, q
<1>5. CASE ps.content_length = 0
  <2> DEFINE u == [ps EXCEPT !.state = "s_chunk_data_almost_done"]
             next == "fetch"
             left == Marked("body")
  <2>1. Resumable(u, q, next, left) BY <1>2, <1>4, <1>5 DEF Resumable, Quiet
  <2>2. Quietly BY <1>2, <1>4, <1>5 DEF ParserInv, TypeOK, Quietly
  <2>3. "s_chunk_data_almost_done" \in States BY DEF States, BodyStates
  <2>4. /\ u \in Parser /\ u.state = "s_chunk_data_almost_done" /\ u.http_errno = "OK"
        /\ u.nread = parser.nread /\ u.flags = parser.flags /\ u.content_length = 0
    BY <1>3, <1>5, <2>3 DEF Parser
  <2>5. "CHUNKED" \in parser.flags BY <1>2 DEF ParserInv, Sound, ChunkStates
  <2>6. Sound(u) /\ ~ParsingHeader(u.state) /\ u.state # "s_chunk_size_start"
    BY <2>4, <2>5 DEF Sound, ChunkStates, SizeStates, ParsingHeader, BodyStates
  <2>7. left \in [DataKinds -> Nat] /\ MarksFit(left, u.state, next)
    BY <1>2, <2>4, BodyMarks, Marking
  <2>8. u.nread <= HTTP_MAX_HEADER_SIZE BY <1>2, <2>4, CountedAtMost
  <2>9. next \in {"byte", "fetch", "idle", "upgraded", "closed"} /\ next # "byte" OBVIOUS
  <2> HIDE DEF u, next, left
  <2> QED BY <1>3, <2>1, <2>2, <2>4, <2>6, <2>7, <2>8, <2>9, Arrived
<1>6. CASE ps.content_length # 0
  <2>1. /\ parser' = ps /\ phase' = "cut" /\ EndsAt(q)
        /\ (q <= Len(Text_) => cuts < MaxCuts)
    BY <1>3, <1>4, <1>6
  <2>2. Quietly BY <1>2, <2>1, Cutting
  <2>3. parser.state \in {"s_body_identity", "s_body_identity_eof", "s_chunk_data"}
    BY <1>2
  <2> QED BY <1>2, <1>3, <1>4, <1>6, <2>1, <2>2, <2>3, BodyCut
<1> QED BY <1>5, <1>6

LEMMA ChunkDataAlmostDoneKeeps ==
    ASSUME ParserInv, ChunkDataAlmostDone PROVE ParserInv'
<1>1. phase = "byte" /\ parser.state = "s_chunk_data_almost_done"
  BY DEF ChunkDataAlmostDone, In
<1>2. CASE ch # CR
  <2>1. Fail("STRICT") BY <1>2 DEF ChunkDataAlmostDone, Strict
  <2> QED BY <1>1, <2>1, Refused
<1>3. CASE ch = CR
  <2> DEFINE ps == To("s_chunk_data_done")
             q == p + 1
             next == "fetch"
             left == [marks EXCEPT !.body = 0]
  <2>1. Data("body", p, ps, q, next) /\ Same BY <1>3 DEF ChunkDataAlmostDone, Strict
  <2>2. Resumable(ps, q, next, left) BY <2>1 DEF Data, Resumable, Quiet
  <2>3. Quietly BY <2>1, SameIsQuiet
  <2>4. /\ parser \in Parser /\ parser.http_errno = "OK" /\ Sound(parser)
        /\ p \in 1..Len(Text_) /\ Len(Text_) \in Nat
    BY <1>1, InCall DEF ParserInv
  <2>5. "s_chunk_data_done" \in States BY DEF States, BodyStates
  <2>6. /\ ps \in Parser /\ ps.state = "s_chunk_data_done" /\ ps.http_errno = "OK"
        /\ ps.nread = parser.nread /\ ps.flags = parser.flags
    BY <2>4, <2>5 DEF To, Parser
  <2>7. "CHUNKED" \in parser.flags BY <1>1, <2>4 DEF Sound, ChunkStates
  <2>8. Sound(ps) /\ ~ParsingHeader(ps.state) /\ ps.state # "s_chunk_size_start"
    BY <2>6, <2>7 DEF Sound, ChunkStates, SizeStates, ParsingHeader, BodyStates
  <2>9. left \in [DataKinds -> Nat] /\ MarksFit(left, ps.state, next)
    <3>1. marks \in [DataKinds -> Nat] /\ MarksFit(marks, parser.state, phase)
          /\ MarkOf(parser.state, phase) = "body"
      BY <1>1, BodyMarks DEF ParserInv, TypeOK
    <3> QED BY <3>1, Unmarking
  <2>10. ps.nread <= HTTP_MAX_HEADER_SIZE BY <1>1, <2>6, CountedAtMost
  <2>11. q \in 1..(Len(Text_) + 1) BY <2>4
  <2>12. next \in {"byte", "fetch", "idle", "upgraded", "closed"} /\ next # "byte" OBVIOUS
  <2> HIDE DEF ps, q, next, left
  <2> QED BY <2>2, <2>3, <2>6, <2>8, <2>9, <2>10, <2>11, <2>12, Arrived
<1> QED BY <1>2, <1>3

LEMMA ChunkDataDoneKeeps == ASSUME ParserInv, ChunkDataDone PROVE ParserInv'
<1>1. phase = "byte" /\ parser.state = "s_chunk_data_done" BY DEF ChunkDataDone, In
<1>2. CASE ch # LF
  <2>1. Fail("STRICT") BY <1>2 DEF ChunkDataDone
  <2> QED BY <1>1, <2>1, Refused
<1>3. CASE ch = LF
  <2> DEFINE ps == [To("s_chunk_size_start") EXCEPT !.nread = 0]
             n == 0
             next == "fetch"
             left == marks
  <2>1. Resumable(ps, p + 1, next, left) /\ Recount(n) BY <1>3 DEF ChunkDataDone, Notify
  <2>2. parser \in Parser /\ parser.http_errno = "OK" /\ Sound(parser)
    BY <1>1, InCall DEF ParserInv
  <2>3. "s_chunk_size_start" \in States BY DEF States
  <2>4. /\ ps \in Parser /\ ps.state = "s_chunk_size_start" /\ ps.http_errno = "OK"
        /\ ps.nread = n /\ ps.flags = parser.flags
    BY <2>2, <2>3 DEF To, Parser
  <2>5. "CHUNKED" \in parser.flags BY <1>1, <2>2 DEF Sound, ChunkStates
  <2>6. Sound(ps) BY <2>4, <2>5 DEF Sound, ChunkStates, SizeStates
  <2>7. left \in [DataKinds -> Nat] /\ \A s, ph : MarksFit(left, s, ph)
    BY <1>1, BodyMarks, UnmarkedHere
  <2>8. n \in Nat /\ n <= HTTP_MAX_HEADER_SIZE /\ n = 0 BY Bounds
  <2>9. next \in {"fetch", "upgraded"} OBVIOUS
  <2> HIDE DEF ps, n, next, left
  <2> QED BY <1>1, <2>1, <2>4, <2>6, <2>7, <2>8, <2>9, Recounted
<1> QED BY <1>2, <1>3

LEMMA ReadBodyKeeps == ASSUME ParserInv, ReadBody PROVE ParserInv'
BY BodyIdentityKeeps, BodyIdentityEofKeeps, MessageDoneKeeps, ChunkSizeStartKeeps,
   ChunkSizeKeeps, ChunkParametersKeeps, ChunkSizeAlmostDoneKeeps, ChunkDataKeeps,
   ChunkDataAlmostDoneKeeps, ChunkDataDoneKeeps
   DEF ReadBody

-----------------------------------------------------------------------------
\* Calls.

\* Only where the piece is cut does it matter which loop runs.
LEMMA MarkOutsideCuts ==
    ASSUME NEW state, NEW ph, NEW other, ph # "cut", other # "cut"
    PROVE  MarkOf(state, ph) = MarkOf(state, other)
BY DEF MarkOf

\* The count of a character of a header, and the switch.
LEMMA FetchedKeeps ==
    ASSUME ParserInv, phase \in {"idle", "fetch"}, parser.http_errno = "OK", More,
           NEW left \in [DataKinds -> Nat], MarksFit(left, parser.state, "byte"),
           Fetched(left), Quiet, Same
    PROVE  ParserInv'
<1> DEFINE one == 1
           counted == Counted(parser, one)
           ps == IF ParsingHeader(parser.state) THEN counted ELSE parser
           n == parser.nread + 1
<1>1. /\ parser \in Parser /\ Sound(parser) /\ p \in Nat \ {0} /\ began \in Nat
      /\ extra \in Int /\ Len(Text_) \in Nat /\ pauses \in 0..MaxPauses
  BY EndIsNumber DEF ParserInv, TypeOK
<1>2. p <= Len(Text_) /\ parser.nread \in Nat /\ n \in Nat BY <1>1 DEF More, Parser
<1>3. /\ parser.nread <= HTTP_MAX_HEADER_SIZE
      /\ (ParsingHeader(parser.state) => parser.nread = p - began + extra)
      /\ (parser.state = "s_chunk_size_start" => parser.nread = 0)
  <2>1. Counting = p /\ parser.http_errno \in Going BY DEF Counting, Going
  <2> QED BY <1>1, <2>1 DEF ParserInv, Counts
<1>4. /\ counted \in Parser /\ counted.state = parser.state /\ counted.nread = n
      /\ counted.http_errno = IF n > HTTP_MAX_HEADER_SIZE
                              THEN "HEADER_OVERFLOW" ELSE "OK"
      /\ Sound(counted)
  <2>1. one \in Nat OBVIOUS
  <2> QED BY <1>1, <2>1, CountedAs
<1>5. IF ps.http_errno = "OK"
      THEN parser' = ps /\ phase' = "byte" /\ p' = p /\ marks' = left
      ELSE Return(ps)
  BY DEF Fetched
<1> HIDE DEF counted
<1>6. ps \in Parser /\ Sound(ps) /\ ps.state = parser.state BY <1>1, <1>4
<1>7. IF ParsingHeader(parser.state)
      THEN /\ ps.nread = n
           /\ ps.http_errno = IF n > HTTP_MAX_HEADER_SIZE THEN "HEADER_OVERFLOW" ELSE "OK"
      ELSE ps.nread = parser.nread /\ ps.http_errno = "OK"
  BY <1>4
<1>8. Quietly /\ UNCHANGED <<began, extra>> BY SameIsQuiet
<1>9. UNCHANGED pauses BY DEF Quiet
<1>10. n = parser.nread + 1 OBVIOUS
<1> HIDE DEF ps, n
<1>11. CASE ps.http_errno = "OK"
  <2>1. parser' = ps /\ phase' = "byte" /\ p' = p /\ marks' = left BY <1>5, <1>11
  <2>2. TypeOK'
    BY <1>1, <1>2, <1>6, <1>8, <1>9, <2>1 DEF ParserInv, TypeOK, Text_, Phases, Quietly
  <2>3. Placed' BY <1>8, <1>11, <2>1 DEF Placed, More, Text_, Quietly
  <2>4. MarksFit(marks, parser.state, phase)' BY <1>6, <2>1
  <2>5. Counts'
    <3>1. Counting' = p + 1 BY <2>1 DEF Counting
    <3>2. /\ ps.nread <= HTTP_MAX_HEADER_SIZE
          /\ ParsingHeader(ps.state) => ps.nread = p + 1 - began + extra
      BY <1>1, <1>2, <1>3, <1>6, <1>7, <1>10, <1>11, Bounds
    <3>3. ps.state = "s_chunk_size_start" => ps.nread = 1
      <4>1. parser.state = "s_chunk_size_start" => ParsingHeader(parser.state)
        BY DEF ParsingHeader, BodyStates
      <4> QED BY <1>3, <1>6, <1>7, <1>10, <4>1
    <3>4. began' = began /\ extra' = extra /\ parser' = ps /\ phase' = "byte" /\ p' = p
      BY <1>8, <2>1
    <3>5. parser'.http_errno # "HEADER_OVERFLOW" BY <1>11, <3>4
    <3>6. ParsingHeader(parser.state)' => parser'.nread = Counting' - began' + extra'
      <4>1. Counting' - began' + extra' = p + 1 - began + extra
        BY <1>1, <3>1, <3>4
      <4>2. ParsingHeader(parser.state)' => ParsingHeader(ps.state)
        BY <3>4 DEF ParsingHeader, BodyStates
      <4> QED BY <3>2, <3>4, <4>1, <4>2
    <3> QED BY <3>2, <3>3, <3>4, <3>5, <3>6 DEF Counts
  <2>6. Sound(parser)' BY <1>6, <2>1
  <2> QED BY <2>2, <2>3, <2>4, <2>5, <2>6 DEF ParserInv
<1>12. CASE ps.http_errno # "OK"
  <2>1. parser' = ps /\ phase' = "idle" /\ p' = p /\ marks' = NoMarks
    BY <1>5, <1>12 DEF Return
  <2>2. ps.http_errno \notin Going BY <1>7, <1>12 DEF Going
  <2>3. p' + 1 - began' + extra' > HTTP_MAX_HEADER_SIZE
    BY <1>1, <1>3, <1>7, <1>8, <1>10, <1>12, <2>1, Bounds
  <2>4. p' \in 1..(Len(Text_) + 1) /\ pauses' \in 0..MaxPauses BY <1>1, <1>2, <1>9, <2>1
  <2> QED BY <1>6, <1>8, <2>1, <2>2, <2>3, <2>4, Stopped
<1> QED BY <1>11, <1>12

\* A call marks the text that the state reads, and no other.
LEMMA Taken ==
    ASSUME p \in Nat, NEW state
    PROVE  TakenUp(state) \in [DataKinds -> Nat] /\ MarksFit(TakenUp(state), state, "byte")
<1> DEFINE left == TakenUp(state)
           Given(kind) == CASE kind = "header_field" -> state = "s_header_field"
                            [] kind = "header_value" -> state = "s_header_value"
                            [] kind = "url" -> state \in UrlStates
                            [] kind = "status" -> state = "s_res_status"
                            [] OTHER -> FALSE
<1>1. left = [kind \in DataKinds |-> IF Given(kind) THEN p ELSE 0]
  BY DEF TakenUp, NoMarks, DataKinds
<1>2. \A kind \in DataKinds : Given(kind) => kind = MarkOf(state, "byte")
  <2>1. UrlStates \cap {"s_res_status", "s_header_field", "s_header_value", "s_chunk_data",
            "s_chunk_data_almost_done", "s_body_identity", "s_body_identity_eof"} = {}
    BY DEF UrlStates
  <2>2. MarkOf("s_header_field", "byte") = "header_field"
        /\ MarkOf("s_header_value", "byte") = "header_value"
        /\ MarkOf("s_res_status", "byte") = "status"
    BY <2>1 DEF MarkOf
  <2>3. state \in UrlStates => MarkOf(state, "byte") = "url"
    BY <2>1 DEF MarkOf
  <2>4. ASSUME NEW kind \in DataKinds, Given(kind) PROVE kind = MarkOf(state, "byte")
    <3>1. CASE kind = "header_field" BY <2>2, <2>4, <3>1
    <3>2. CASE kind = "header_value" BY <2>2, <2>4, <3>2
    <3>3. CASE kind = "url" BY <2>3, <2>4, <3>3
    <3>4. CASE kind = "status" BY <2>2, <2>4, <3>4
    <3>5. CASE kind = "body" BY <2>4, <3>5
    <3> QED BY <3>1, <3>2, <3>3, <3>4, <3>5 DEF DataKinds
  <2> QED BY <2>4
<1> HIDE DEF Given
<1>3. left \in [DataKinds -> Nat] BY <1>1
<1>4. MarksFit(left, state, "byte") BY <1>1, <1>2 DEF MarksFit
<1> QED BY <1>3, <1>4

LEMMA ExecuteKeeps == ASSUME ParserInv, Execute PROVE ParserInv'
<1> DEFINE left == TakenUp(parser.state)
<1>1. /\ phase \in {"idle", "fetch"} /\ parser.http_errno = "OK" /\ More
      /\ Fetched(left) /\ Quiet /\ Same
  BY DEF Execute
<1>2. p \in Nat BY DEF ParserInv, TypeOK
<1>3. left \in [DataKinds -> Nat] /\ MarksFit(left, parser.state, "byte") BY <1>2, Taken
<1> HIDE DEF left
<1> QED BY <1>1, <1>3, FetchedKeeps

LEMMA FetchKeeps == ASSUME ParserInv, Fetch PROVE ParserInv'
<1> DEFINE left == marks
<1>1. phase = "fetch" /\ More /\ Fetched(left) /\ Quiet /\ Same BY DEF Fetch
<1>2. parser.http_errno = "OK" BY <1>1 DEF ParserInv, Placed
<1>3. left \in [DataKinds -> Nat] /\ MarksFit(left, parser.state, "byte")
  <2>1. MarkOf(parser.state, "fetch") = MarkOf(parser.state, "byte") BY MarkOutsideCuts
  <2> QED BY <1>1, <2>1 DEF ParserInv, TypeOK, MarksFit
<1> HIDE DEF left
<1> QED BY <1>1, <1>2, <1>3, FetchedKeeps

LEMMA LeftoverKeeps == ASSUME ParserInv, Leftover PROVE ParserInv'
<1> DEFINE ps == parser
           q == p
           next == "idle"
           kind == CHOOSE k \in DataKinds : marks[k] # 0
           left == [marks EXCEPT ![kind] = 0]
           marked == \E k \in DataKinds : marks[k] # 0
<1>1. /\ phase \in {"cut", "fetch"} /\ UNCHANGED <<stream, start, extra, began>>
      /\ (phase = "fetch" /\ More => cuts < MaxCuts)
      /\ cuts' = IF phase = "fetch" /\ More THEN cuts + 1 ELSE cuts
      /\ IF marked THEN Data(kind, p, ps, p, next) ELSE Return(ps) /\ Quiet
  BY DEF Leftover
<1>2. /\ ps \in Parser /\ ps.http_errno = "OK" /\ Sound(ps) /\ q \in 1..(Len(Text_) + 1)
      /\ marks \in [DataKinds -> Nat] /\ MarksFit(marks, ps.state, phase)
      /\ cuts \in 0..MaxCuts /\ MaxCuts \in Nat /\ start \in Nat /\ began \in Nat
      /\ extra \in Int
  BY <1>1, Bounds DEF ParserInv, TypeOK, Placed
<1>3. Quietly /\ UNCHANGED <<began, extra>>
  <2>1. cuts' \in 0..MaxCuts BY <1>1, <1>2
  <2> QED BY <1>1, <1>2, <2>1 DEF Quietly
<1>4. /\ ps.nread <= HTTP_MAX_HEADER_SIZE
      /\ (ps.state = "s_chunk_size_start" => ps.nread = 0)
      /\ (ParsingHeader(ps.state) => ps.nread = q - began + extra)
  <2>1. Counting = p /\ ps.http_errno \in Going /\ phase # "byte"
    BY <1>1, <1>2 DEF Counting, Going
  <2> QED BY <1>2, <2>1 DEF ParserInv, Counts
<1>5. next \in {"byte", "fetch", "idle", "upgraded", "closed"} /\ next # "byte"
      /\ next \notin {"upgraded", "closed"}
  OBVIOUS
<1>6. ASSUME NEW ms \in [DataKinds -> Nat], MarksFit(ms, ps.state, next),
             Resumable(ps, q, next, ms)
      PROVE  ParserInv'
  <2> HIDE DEF ps, q, next
  <2>1. phase' # "byte" BY <1>5, <1>6 DEF Resumable
  <2>2. ps.nread = (IF phase' = "byte" THEN q + 1 ELSE q) - began' + extra'
            \/ ~ParsingHeader(ps.state)
    BY <1>3, <1>4, <2>1
  <2> QED BY <1>2, <1>3, <1>4, <1>5, <1>6, <2>2, Arrived
<1>7. CASE marked
  <2>1. kind \in DataKinds /\ marks[kind] # 0 BY <1>7
  <2>2. Data(kind, p, ps, p, next) BY <1>1, <1>7
  <2> HIDE DEF kind
  <2>3. Resumable(ps, q, next, left) BY <2>1, <2>2 DEF Data, Resumable, Quiet
  <2>4. MarkOf(ps.state, phase) = kind BY <1>2, <2>1 DEF MarksFit
  <2>5. left \in [DataKinds -> Nat] /\ MarksFit(left, ps.state, next)
    BY <1>2, <2>4, Unmarking
  <2> HIDE DEF left
  <2> QED BY <1>6, <2>3, <2>5
<1>8. CASE ~marked
  <2>1. Return(ps) /\ Quiet BY <1>1, <1>8
  <2>2. Resumable(ps, q, next, NoMarks) BY <2>1 DEF Return, Resumable, Quiet
  <2> QED BY <1>6, <2>2, NothingMarked
<1> QED BY <1>7, <1>8

LEMMA ResumeKeeps == ASSUME ParserInv, Resume PROVE ParserInv'
<1> DEFINE ps == [parser EXCEPT !.http_errno = "OK"]
<1>1. /\ phase = "idle" /\ parser.http_errno = "PAUSED" /\ parser' = ps
      /\ UNCHANGED <<stream, p, phase, start, marks, cuts, extra, began, pauses>>
  BY DEF Resume, history
<1>2. parser \in Parser /\ Sound(parser) BY DEF ParserInv, TypeOK
<1>3. /\ ps \in Parser /\ ps.state = parser.state /\ ps.nread = parser.nread
      /\ ps.http_errno = "OK" /\ ps.flags = parser.flags
      /\ ps.content_length = parser.content_length /\ ps.header_state = parser.header_state
  BY <1>2 DEF Parser
<1> HIDE DEF ps
<1>4. Sound(ps) BY <1>2, <1>3 DEF Sound
<1>5. TypeOK' BY <1>1, <1>3 DEF ParserInv, TypeOK, Text_
<1>6. Placed' BY <1>1 DEF Placed
<1>7. MarksFit(marks, parser.state, phase)' BY <1>1, <1>3 DEF ParserInv
<1>8. Counts'
  <2>1. Counting = p /\ Counting' = p BY <1>1 DEF Counting
  <2> QED BY <1>1, <1>3, <2>1 DEF ParserInv, Counts, Going
<1> QED BY <1>1, <1>4, <1>5, <1>6, <1>7, <1>8 DEF ParserInv

LEMMA EofKeeps == ASSUME ParserInv, Eof PROVE ParserInv'
<1> DEFINE ps == parser
           q == p
           next == "closed"
           left == marks
           waiting == {"s_dead", "s_start_req_or_res", "s_start_res", "s_start_req"}
<1>1. /\ phase = "idle" /\ ps.http_errno = "OK" /\ Same
      /\ \/ Notify("message_complete", ps, q, next)
         \/ phase' = "closed" /\ UNCHANGED <<parser, p, marks>> /\ Quiet
         \/ /\ parser' = [ps EXCEPT !.http_errno = "INVALID_EOF_STATE"]
            /\ phase' = "closed" /\ UNCHANGED <<p, marks>> /\ Quiet
  <2>1. "s_body_identity_eof" \notin waiting OBVIOUS
  <2>2. CASE parser.state = "s_body_identity_eof" BY <2>1, <2>2 DEF Eof
  <2>3. CASE parser.state \in waiting BY <2>1, <2>3 DEF Eof
  <2>4. CASE parser.state \notin {"s_body_identity_eof"} \cup waiting BY <2>4 DEF Eof
  <2> QED BY <2>2, <2>3, <2>4
<1>2. /\ ps \in Parser /\ Sound(ps) /\ q \in 1..(Len(Text_) + 1)
      /\ left \in [DataKinds -> Nat] /\ MarksFit(left, ps.state, "idle")
      /\ began \in Nat /\ extra \in Int /\ pauses \in 0..MaxPauses
  BY <1>1 DEF ParserInv, TypeOK
<1>3. Quietly /\ UNCHANGED <<began, extra>> BY <1>1, SameIsQuiet
<1>4. MarksFit(left, ps.state, next)
  <2>1. MarkOf(ps.state, "idle") = MarkOf(ps.state, next) BY MarkOutsideCuts
  <2> QED BY <1>2, <2>1 DEF MarksFit
<1>5. /\ ps.nread <= HTTP_MAX_HEADER_SIZE
      /\ (ps.state = "s_chunk_size_start" => ps.nread = 0)
      /\ (ParsingHeader(ps.state) => ps.nread = q - began + extra)
  <2>1. Counting = p /\ ps.http_errno \in Going /\ phase # "byte"
    BY <1>1 DEF Counting, Going
  <2> QED BY <1>2, <2>1 DEF ParserInv, Counts
<1>6. next \in {"byte", "fetch", "idle", "upgraded", "closed"} /\ next # "byte" OBVIOUS
<1>7. ASSUME Resumable(ps, q, next, left) PROVE ParserInv'
  <2> HIDE DEF ps, q, next, left
  <2>1. phase' # "byte" BY <1>6, <1>7 DEF Resumable
  <2>2. ps.nread = (IF phase' = "byte" THEN q + 1 ELSE q) - began' + extra'
            \/ ~ParsingHeader(ps.state)
    BY <1>3, <1>5, <2>1
  <2> QED BY <1>1, <1>2, <1>3, <1>4, <1>5, <1>6, <1>7, <2>2, Arrived
<1>8. CASE Notify("message_complete", ps, q, next)
  BY <1>7, <1>8 DEF Notify
<1>9. CASE phase' = "closed" /\ UNCHANGED <<parser, p, marks>> /\ Quiet
  BY <1>7, <1>9 DEF Resumable, Quiet
<1>10. CASE /\ parser' = [ps EXCEPT !.http_errno = "INVALID_EOF_STATE"]
            /\ phase' = "closed" /\ UNCHANGED <<p, marks>> /\ Quiet
  <2> DEFINE u == [ps EXCEPT !.http_errno = "INVALID_EOF_STATE"]
  <2>1. "INVALID_EOF_STATE" \in Errors BY DEF Errors
  <2>2. u \in Parser /\ u.http_errno = "INVALID_EOF_STATE" /\ Sound(u) /\ u.state = ps.state
    BY <1>2, <2>1, Erring
  <2>3. parser' = u /\ phase' = "closed" /\ p' = q /\ marks' = left /\ UNCHANGED pauses
    BY <1>10 DEF Quiet
  <2> HIDE DEF u
  <2>4. TypeOK' BY <1>2, <1>3, <2>2, <2>3 DEF ParserInv, TypeOK, Text_, Phases, Quietly
  <2>5. Placed' BY <2>3 DEF Placed
  <2>6. MarksFit(marks, parser.state, phase)' BY <1>4, <2>2, <2>3
  <2>7. Counts' BY <2>2, <2>3 DEF Counts, Going
  <2> QED BY <2>2, <2>3, <2>4, <2>5, <2>6, <2>7 DEF ParserInv
<1> QED BY <1>1, <1>8, <1>9, <1>10

-----------------------------------------------------------------------------
\* The behaviours.

LEMMA InitHolds == ASSUME Init PROVE ParserInv
<1> DEFINE ps == ParserInit(stream.type)
<1>1. /\ stream \in Streams /\ parser = ps /\ p = 1 /\ phase = "idle" /\ start = 0
      /\ marks = NoMarks /\ cuts = 0 /\ extra = 0 /\ began = 1 /\ pauses = 0
  BY DEF Init
<1>2. stream.type \in {"REQUEST", "RESPONSE", "BOTH"} /\ Len(Text_) \in Nat
  BY <1>1, StreamsAssumption DEF Text_
<1>3. /\ StartState(stream.type) \in {"s_start_req", "s_start_res", "s_start_req_or_res"}
  BY <1>2 DEF StartState
<1>4. {"s_start_req", "s_start_res", "s_start_req_or_res"} \subseteq Plain
  BY DEF Plain, States, BodyStates, ChunkStates
<1>5. "DELETE" \in MethodNames
  <2>1. "D" \in DOMAIN FirstMethod /\ FirstMethod["D"] = "DELETE" BY DEF FirstMethod
  <2> QED BY <2>1 DEF MethodNames
<1>6. /\ ps.state = StartState(stream.type) /\ ps.nread = 0 /\ ps.http_errno = "OK"
      /\ ps.header_state = "h_general"
  BY DEF ParserInit
<1>7. ps \in Parser
  <2>1. StartState(stream.type) \in States BY <1>3, <1>4 DEF Plain
  <2>2. "h_general" \in HeaderStates BY DEF HeaderStates
  <2>3. 0 \in 0..ULLONG_MAX BY Bounds
  <2> QED BY <1>2, <1>5, <2>1, <2>2, <2>3 DEF Parser, ParserInit
<1>8. Sound(ps) /\ ps.state # "s_chunk_size_start" BY <1>3, <1>4, <1>6, PlainIsSound
<1> HIDE DEF ps
<1>9. TypeOK
  <2>1. p \in 1..(Len(Text_) + 1) BY <1>1, <1>2
  <2>2. cuts \in 0..MaxCuts /\ pauses \in 0..MaxPauses BY <1>1, Bounds
  <2> QED BY <1>1, <1>7, <2>1, <2>2, NothingMarked DEF TypeOK, Phases
<1>10. Placed BY <1>1, <1>6 DEF Placed
<1>11. MarksFit(marks, parser.state, phase) BY <1>1, NothingMarked
<1>12. Counts
  <2>1. Counting = 1 BY <1>1 DEF Counting
  <2>2. parser.nread = Counting - began + extra BY <1>1, <1>6, <2>1
  <2>3. parser.nread <= HTTP_MAX_HEADER_SIZE BY <1>1, <1>6, Bounds
  <2>4. parser.http_errno # "HEADER_OVERFLOW" BY <1>1, <1>6
  <2> QED BY <1>1, <1>8, <2>2, <2>3, <2>4 DEF Counts
<1> QED BY <1>1, <1>8, <1>9, <1>10, <1>11, <1>12 DEF ParserInv

\* Every step keeps the invariant.
LEMMA NextKeeps == ASSUME ParserInv, [Next]_vars PROVE ParserInv'
<1>1. CASE Next
  BY <1>1, ExecuteKeeps, FetchKeeps, LeftoverKeeps, ResumeKeeps, EofKeeps,
     ReadStartKeeps, ReadFirstLineKeeps, ReadHeaderKeeps, ReadBodyKeeps DEF Next
<1>2. CASE UNCHANGED vars
  <2>1. UNCHANGED <<stream, parser, p, phase, start, marks, cuts, extra, began, pauses>>
    BY <1>2 DEF vars, history
  <2>2. TypeOK' BY <2>1 DEF ParserInv, TypeOK, Text_
  <2>3. Placed' BY <2>1 DEF ParserInv, Placed, More, Text_
  <2>4. Counts' BY <2>1 DEF ParserInv, Counts, Counting
  <2>5. Sound(parser)' /\ MarksFit(marks, parser.state, phase)' BY <2>1 DEF ParserInv
  <2> QED BY <2>2, <2>3, <2>4, <2>5 DEF ParserInv
<1> QED BY <1>1, <1>2

\* Spec keeps what the three theorems below are read off.
THEOREM InvariantCorrect == Spec => []ParserInv
BY InitHolds, NextKeeps, PTL DEF Spec

\* Whatever streams arrive, however they are cut into pieces and whenever a
\* callback pauses the parser, http_parser_execute keeps its members' types,
\* and reads nothing behind the end of what it is given.
THEOREM TypeCorrect == Spec => []TypeOK
<1>1. ParserInv => TypeOK BY DEF ParserInv
<1> QED BY <1>1, InvariantCorrect, PTL

\* COUNT_HEADER_SIZE counts, of every stream and with every limit, what was
\* read of the header and what the pieces and pauses make it count twice; it
\* lets no header through that is longer, and refuses none that is shorter.
THEOREM CountedCorrect == Spec => []HeaderIsCounted
<1>1. ParserInv => HeaderIsCounted BY DEF ParserInv, Counts, HeaderIsCounted, Going
<1> QED BY <1>1, InvariantCorrect, PTL

\* The assertions of http_parser_execute hold, whatever it is given: the ones
\* about chunks and lengths, about the errno of a parser that reads, about
\* what a value is read for, and that no two marks are set where a piece ends.
THEOREM AssertsCorrect == Spec => []AssertsHold
<1>1. ASSUME ParserInv PROVE AssertsHold
  <2>1. /\ Sound(parser) /\ Placed /\ Counts /\ MarksFit(marks, parser.state, phase)
    BY <1>1 DEF ParserInv
  <2>2. ASSUME phase = "byte"
        PROVE  /\ parser.state = "s_chunk_size_start" => parser.nread = 1
               /\ parser.state \in {"s_chunk_size_start", "s_chunk_size",
                      "s_chunk_parameters", "s_chunk_size_almost_done", "s_chunk_data",
                      "s_chunk_data_almost_done", "s_chunk_data_done"}
                    => "CHUNKED" \in parser.flags
               /\ parser.state \in {"s_body_identity", "s_chunk_data"} =>
                      parser.content_length \notin {0, ULLONG_MAX}
               /\ parser.state = "s_chunk_data_almost_done" => parser.content_length = 0
    <3>1. parser.http_errno \in Going BY <2>1, <2>2 DEF Placed, Going
    <3>2. parser.state = "s_chunk_size_start" => parser.nread = 1
      BY <2>1, <2>2, <3>1 DEF Counts
    <3> QED BY <2>1, <3>2 DEF Sound, ChunkStates
  <2>3. phase \in {"byte", "fetch", "field", "value"} => parser.http_errno = "OK"
    BY <2>1 DEF Placed
  <2>4. ASSUME phase = "value"
        PROVE  parser.header_state \in {"h_general", "h_content_length",
                   "h_matching_connection_token_start", "h_matching_connection_token",
                   "h_transfer_encoding_chunked"} \cup DOMAIN Words \cup DOMAIN ConnectionFlag
    <3>1. parser.header_state \in ValueStates BY <2>1, <2>4 DEF Placed, Sound
    <3>2. {"h_matching_transfer_encoding_chunked", "h_matching_connection_keep_alive",
           "h_matching_connection_close", "h_matching_connection_upgrade"}
              \subseteq DOMAIN Words
      BY DEF Words
    <3> QED BY <3>1, <3>2 DEF ValueStates
  <2>5. Cardinality({k \in DataKinds : marks[k] # 0}) <= 1
    <3> DEFINE marked == {k \in DataKinds : marks[k] # 0}
               only == {MarkOf(parser.state, phase)}
    <3>1. marked \subseteq only BY <2>1 DEF MarksFit
    <3>2. IsFiniteSet(only) /\ Cardinality(only) = 1 BY FS_Singleton
    <3> HIDE DEF marked, only
    <3>3. Cardinality(marked) <= Cardinality(only) BY <3>1, <3>2, FS_Subset
    <3>4. Cardinality(marked) <= 1 BY <3>2, <3>3
    <3> QED BY <3>4 DEF marked
  <2> QED BY <2>2, <2>3, <2>4, <2>5 DEF AssertsHold
<1> QED BY <1>1, InvariantCorrect, PTL

-----------------------------------------------------------------------------
\* The URL: what http_parser_parse_url accepts is split whole.

\* The states in which a URL is being read, and the fields that may have been
\* met when it is in one of them.
UrlAlive == UrlStates \cup {"s_req_spaces_before_url"}
UrlMet(s) ==
    CASE s = "s_req_spaces_before_url" -> {}
      [] s \in {"s_req_schema", "s_req_schema_slash", "s_req_schema_slash_slash",
                "s_req_server_start"} -> {"SCHEMA"}
      [] s \in {"s_req_server", "s_req_server_with_at"} -> {"SCHEMA", "HOST"}
      [] s = "s_req_path" -> {"SCHEMA", "HOST", "PATH"}
      [] s = "s_req_query_string_start" -> {"SCHEMA", "HOST", "PATH"}
      [] s = "s_req_query_string" -> {"SCHEMA", "HOST", "PATH", "QUERY"}
      [] s = "s_req_fragment_start" -> {"SCHEMA", "HOST", "PATH", "QUERY"}
      [] OTHER -> {"SCHEMA", "HOST", "PATH", "QUERY", "FRAGMENT"}
Delimiters == {":", "/", "?", "#", "@", "[", "]"}

\* Where a character leads.
LEMMA UrlCharLeads ==
    ASSUME NEW s, NEW c, UrlChar(s, c) # UrlDead
    PROVE  LET t == UrlChar(s, c) IN
           /\ s = "s_req_spaces_before_url" => t \in {"s_req_path", "s_req_schema"}
           /\ s = "s_req_schema" =>
                  t = "s_req_schema" \/ (t = "s_req_schema_slash" /\ c = ":")
           /\ s = "s_req_schema_slash" => t = "s_req_schema_slash_slash" /\ c = "/"
           /\ s = "s_req_schema_slash_slash" => t = "s_req_server_start" /\ c = "/"
           /\ s \in {"s_req_server_start", "s_req_server", "s_req_server_with_at"} =>
                  \/ t \in {"s_req_path", "s_req_server", "s_req_server_with_at"}
                  \/ t = "s_req_query_string_start" /\ c = "?"
           /\ s = "s_req_path" =>
                  \/ t = "s_req_path"
                  \/ t = "s_req_query_string_start" /\ c = "?"
                  \/ t = "s_req_fragment_start" /\ c = "#"
           /\ s \in {"s_req_query_string_start", "s_req_query_string"} =>
                  t = "s_req_query_string" \/ (t = "s_req_fragment_start" /\ c = "#")
           /\ s = "s_req_fragment_start" =>
                  t = "s_req_fragment" \/ (t = "s_req_fragment_start" /\ c = "#")
           /\ s = "s_req_fragment" => t = "s_req_fragment"
<1>1. CASE s = "s_req_spaces_before_url" BY <1>1 DEF UrlChar, UrlDead
<1>2. CASE s = "s_req_schema" BY <1>2 DEF UrlChar, UrlDead
<1>3. CASE s = "s_req_schema_slash" BY <1>3 DEF UrlChar, UrlDead
<1>4. CASE s = "s_req_schema_slash_slash" BY <1>4 DEF UrlChar, UrlDead
<1>5. CASE s = "s_req_server_start" BY <1>5 DEF UrlChar, UrlDead
<1>6. CASE s = "s_req_server" BY <1>6 DEF UrlChar, UrlDead
<1>7. CASE s = "s_req_server_with_at" BY <1>7 DEF UrlChar, UrlDead
<1>8. CASE s = "s_req_path" BY <1>8 DEF UrlChar, UrlDead
<1>9. CASE s = "s_req_query_string_start" BY <1>9 DEF UrlChar, UrlDead
<1>10. CASE s = "s_req_query_string" BY <1>10 DEF UrlChar, UrlDead
<1>11. CASE s = "s_req_fragment_start" BY <1>11 DEF UrlChar, UrlDead
<1>12. CASE s = "s_req_fragment" BY <1>12 DEF UrlChar, UrlDead
<1> QED BY <1>1, <1>2, <1>3, <1>4, <1>5, <1>6, <1>7, <1>8, <1>9, <1>10, <1>11, <1>12, Zenon

\* A character leads to a state that has met as much; it is a delimiter or it
\* belongs to a field, and to one that was met only if it goes on with it.
LEMMA UrlCharMeets ==
    ASSUME NEW s \in UrlAlive, NEW c, NEW t, t = UrlChar(s, c), t # UrlDead
    PROVE  /\ t \in UrlAlive /\ UrlMet(s) \subseteq UrlMet(t)
           /\ UrlField(t) = "none" => c \in Delimiters
           /\ UrlField(t) # "none" => UrlField(t) \in UrlMet(t)
           /\ UrlField(t) \in UrlMet(s) => UrlField(t) = UrlField(s)
<1>1. CASE s = "s_req_spaces_before_url"
  BY <1>1, UrlCharLeads DEF UrlAlive, UrlStates, UrlMet, UrlField, Delimiters
<1>2. CASE s = "s_req_schema"
  BY <1>2, UrlCharLeads DEF UrlAlive, UrlStates, UrlMet, UrlField, Delimiters
<1>3. CASE s = "s_req_schema_slash"
  BY <1>3, UrlCharLeads DEF UrlAlive, UrlStates, UrlMet, UrlField, Delimiters
<1>4. CASE s = "s_req_schema_slash_slash"
  BY <1>4, UrlCharLeads DEF UrlAlive, UrlStates, UrlMet, UrlField, Delimiters
<1>5. CASE s = "s_req_server_start"
  BY <1>5, UrlCharLeads DEF UrlAlive, UrlStates, UrlMet, UrlField, Delimiters
<1>6. CASE s = "s_req_server"
  BY <1>6, UrlCharLeads DEF UrlAlive, UrlStates, UrlMet, UrlField, Delimiters
<1>7. CASE s = "s_req_server_with_at"
  BY <1>7, UrlCharLeads DEF UrlAlive, UrlStates, UrlMet, UrlField, Delimiters
<1>8. CASE s = "s_req_path"
  BY <1>8, UrlCharLeads DEF UrlAlive, UrlStates, UrlMet, UrlField, Delimiters
<1>9. CASE s = "s_req_query_string_start"
  BY <1>9, UrlCharLeads DEF UrlAlive, UrlStates, UrlMet, UrlField, Delimiters
<1>10. CASE s = "s_req_query_string"
  BY <1>10, UrlCharLeads DEF UrlAlive, UrlStates, UrlMet, UrlField, Delimiters
<1>11. CASE s = "s_req_fragment_start"
  BY <1>11, UrlCharLeads DEF UrlAlive, UrlStates, UrlMet, UrlField, Delimiters
<1>12. CASE s = "s_req_fragment"
  BY <1>12, UrlCharLeads DEF UrlAlive, UrlStates, UrlMet, UrlField, Delimiters
<1> QED BY <1>1, <1>2, <1>3, <1>4, <1>5, <1>6, <1>7, <1>8, <1>9, <1>10, <1>11, <1>12 DEF UrlAlive, UrlStates

LEMMA DeadStaysDead == ASSUME NEW c PROVE UrlChar(UrlDead, c) = UrlDead
BY DEF UrlChar, UrlDead

HostAlive == {"host_start", "host", "v6_start", "v6", "v6_zone_start", "v6_zone", "v6_end",
              "port_start", "port", "userinfo", "userinfo_start"}
HostMet(s) ==
    CASE s = "userinfo_start" -> {}
      [] s \in {"userinfo", "host_start", "v6_start"} -> {"USERINFO"}
      [] s = "port" -> {"USERINFO", "HOST", "PORT"}
      [] OTHER -> {"USERINFO", "HOST"}
Prolongs(s, t) == t \in {s, "v6_zone_start", "v6_zone"}

\* The same for the host part: a character goes on with the field before it, or
\* begins one that was not met.
LEMMA HostCharMeets ==
    ASSUME NEW s \in HostAlive, NEW c, HostChar(s, c) # "host_dead"
    PROVE  LET t == HostChar(s, c) IN
           /\ t \in HostAlive /\ HostMet(s) \subseteq HostMet(t)
           /\ HostField(t) = "none" => c \in Delimiters
           /\ HostField(t) # "none" => HostField(t) \in HostMet(t)
           /\ HostField(t) # "none" =>
                  IF Prolongs(s, t) THEN HostField(t) = HostField(s)
                                    ELSE HostField(t) \notin HostMet(s)
<1>1. CASE s \in {"userinfo_start", "userinfo"}
  BY <1>1 DEF HostAlive, HostChar, HostMet, HostField, Delimiters, Prolongs
<1>2. CASE s \in {"host_start", "host", "v6_end"}
  BY <1>2 DEF HostAlive, HostChar, HostMet, HostField, Delimiters, Prolongs
<1>3. CASE s \in {"v6_start", "v6", "v6_zone_start", "v6_zone"}
  BY <1>3 DEF HostAlive, HostChar, HostMet, HostField, Delimiters, Prolongs
<1>4. CASE s \in {"port_start", "port"}
  BY <1>4 DEF HostAlive, HostChar, HostMet, HostField, Delimiters, Prolongs
<1> QED BY <1>1, <1>2, <1>3, <1>4 DEF HostAlive

LEMMA HostDeadStaysDead == ASSUME NEW c PROVE HostChar("host_dead", c) = "host_dead"
BY DEF HostChar

\* What a character is owned by.
Owns(field, j) == j \in (field.off + 1)..(field.off + field.len)
FieldType == [Fields -> [off : Nat, len : Nat]]

\* Between two positions every character is owned by one of the fields of a
\* set, or is a delimiter that none owns, and the fields lie between them.
Whole(url, from, to, set, field) ==
    /\ \A f \in set : from <= field[f].off /\ field[f].off + field[f].len <= to
    /\ \A j \in (from + 1)..to :
           (\E f \in set : Owns(field[f], j)) \/ At(url, j) \in Delimiters
    /\ \A f, g \in set : \A j \in (from + 1)..to :
           Owns(field[f], j) /\ Owns(field[g], j) => f = g

\* It is so of no character.
LEMMA WholeBegins ==
    ASSUME NEW url, NEW from \in Nat, NEW set \in SUBSET Fields, NEW field \in FieldType,
           \A f \in set : field[f] = [off |-> from, len |-> 0]
    PROVE  Whole(url, from, from, set, field)
BY DEF Whole, FieldType

\* A delimiter is added.
LEMMA WholeSkips ==
    ASSUME NEW url, NEW from \in Nat, NEW to \in Nat,
           NEW set \in SUBSET Fields, NEW field \in FieldType,
           Whole(url, from, to, set, field), At(url, to + 1) \in Delimiters
    PROVE  Whole(url, from, to + 1, set, field)
<1>1. \A f \in set : field[f].off \in Nat /\ field[f].len \in Nat BY DEF FieldType
<1>2. \A f \in set : ~ Owns(field[f], to + 1) BY <1>1 DEF Whole, Owns
<1>3. \A j \in (from + 1)..(to + 1) : j \in (from + 1)..to \/ j = to + 1 OBVIOUS
<1> QED BY <1>1, <1>2, <1>3 DEF Whole

\* The last field goes on.
LEMMA WholeGoesOn ==
    ASSUME NEW url, NEW from \in Nat, NEW to \in Nat, from <= to,
           NEW set \in SUBSET Fields, NEW field \in FieldType,
           Whole(url, from, to, set, field),
           NEW f \in set, field[f].off + field[f].len = to, NEW next \in FieldType,
           next[f].off = field[f].off, next[f].len = field[f].len + 1,
           \A g \in Fields : g # f => next[g] = field[g]
    PROVE  Whole(url, from, to + 1, set, next)
<1>1. \A g \in Fields : field[g].off \in Nat /\ field[g].len \in Nat BY DEF FieldType
<1>2. /\ next \in FieldType
      /\ \A g \in Fields \ {f} : next[g] = field[g]
      /\ next[f].off = field[f].off /\ next[f].len = field[f].len + 1
  BY <1>1 DEF FieldType
<1>3. \A g \in set : g # f => ~ Owns(next[g], to + 1) BY <1>1, <1>2 DEF Whole, Owns
<1>4. Owns(next[f], to + 1) BY <1>1, <1>2 DEF Owns
<1>5. \A g \in set, j \in (from + 1)..to : Owns(next[g], j) <=> Owns(field[g], j)
  BY <1>1, <1>2 DEF Owns
<1>6. \A j \in (from + 1)..(to + 1) : j \in (from + 1)..to \/ j = to + 1 OBVIOUS
<1>7. \A g \in set : from <= next[g].off /\ next[g].off + next[g].len <= to + 1
  BY <1>1, <1>2 DEF Whole
<1>8. \A j \in (from + 1)..(to + 1) :
          (\E g \in set : Owns(next[g], j)) \/ At(url, j) \in Delimiters
  BY <1>4, <1>5, <1>6 DEF Whole
<1>9. \A g, h \in set : \A j \in (from + 1)..(to + 1) :
          Owns(next[g], j) /\ Owns(next[h], j) => g = h
  BY <1>3, <1>5, <1>6 DEF Whole
<1> QED BY <1>1, <1>2, <1>7, <1>8, <1>9 DEF Whole

\* A field begins that owned nothing.
LEMMA WholeBeginsField ==
    ASSUME NEW url, NEW from \in Nat, NEW to \in Nat, from <= to,
           NEW set \in SUBSET Fields, NEW field \in FieldType,
           Whole(url, from, to, set, field),
           NEW f \in Fields, f \in set => field[f].len = 0, NEW next \in FieldType,
           next[f].off = to, next[f].len = 1,
           \A g \in Fields : g # f => next[g] = field[g]
    PROVE  Whole(url, from, to + 1, set \cup {f}, next)
<1>1. \A g \in Fields : field[g].off \in Nat /\ field[g].len \in Nat BY DEF FieldType
<1>2. /\ next \in FieldType
      /\ \A g \in Fields \ {f} : next[g] = field[g]
      /\ next[f].off = to /\ next[f].len = 1
  BY <1>1 DEF FieldType
<1>3. \A g \in set : g # f => ~ Owns(next[g], to + 1) BY <1>1, <1>2 DEF Whole, Owns
<1>4. Owns(next[f], to + 1) BY <1>1, <1>2 DEF Owns
<1>5. /\ \A g \in set \ {f}, j \in (from + 1)..to : Owns(next[g], j) <=> Owns(field[g], j)
      /\ \A j \in (from + 1)..to : ~ Owns(next[f], j) /\ (f \in set => ~ Owns(field[f], j))
  BY <1>1, <1>2 DEF Owns
<1>6. \A j \in (from + 1)..(to + 1) : j \in (from + 1)..to \/ j = to + 1 OBVIOUS
<1>7. \A g \in set \cup {f} : from <= next[g].off /\ next[g].off + next[g].len <= to + 1
  BY <1>1, <1>2 DEF Whole
<1>8. \A j \in (from + 1)..(to + 1) :
          (\E g \in set \cup {f} : Owns(next[g], j)) \/ At(url, j) \in Delimiters
  BY <1>4, <1>5, <1>6 DEF Whole
<1>9. \A g, h \in set \cup {f} : \A j \in (from + 1)..(to + 1) :
          Owns(next[g], j) /\ Owns(next[h], j) => g = h
  <2> SUFFICES ASSUME NEW g \in set \cup {f}, NEW h \in set \cup {f},
                      NEW j \in (from + 1)..(to + 1), Owns(next[g], j), Owns(next[h], j)
               PROVE  g = h
    OBVIOUS
  <2>1. CASE j = to + 1 BY <2>1, <1>3
  <2>2. CASE j \in (from + 1)..to BY <2>2, <1>5 DEF Whole
  <2> QED BY <2>1, <2>2, <1>6
<1> QED BY <1>1, <1>2, <1>7, <1>8, <1>9 DEF Whole

\* A set of naturals with 0, and with n + 1 whenever with n, has them all.
LEMMA NaturalInduction ==
    ASSUME NEW T, 0 \in T, \A n \in Nat : n \in T => n + 1 \in T
    PROVE  Nat \subseteq T
<1> SUFFICES ASSUME NEW m \in Nat, m \notin T PROVE FALSE
  OBVIOUS
<1> DEFINE U == {n \in Nat : n \notin T}
<1>1. PICK x \in U : \A y \in U : x <= y
  <2>1. U \subseteq Nat /\ U # {} OBVIOUS
  <2> QED BY <2>1, LeastNatural
<1>2. x # 0 /\ x - 1 \in Nat /\ x - 1 \in T BY <1>1
<1> QED BY <1>1, <1>2

\* The partial results of the loop of http_parser_parse_url.
Scans(f, url, isConnect) ==
    f = [i \in 0..Len(url) |->
            IF i = 0 THEN UrlBegun(isConnect) ELSE UrlNext(f[i - 1], i, At(url, i))]

\* There are such results.
LEMMA ScansExists ==
    ASSUME NEW url, Len(url) \in Nat, NEW isConnect
    PROVE  \E f : Scans(f, url, isConnect)
<1> DEFINE Upto(f, k) == f = [i \in 0..k |->
               IF i = 0 THEN UrlBegun(isConnect) ELSE UrlNext(f[i - 1], i, At(url, i))]
           T == {k \in Nat : \E f : Upto(f, k)}
<1>2. Nat \subseteq T
  <2>1. 0 \in T
    <3> DEFINE f == [i \in 0..0 |-> UrlBegun(isConnect)]
    <3>1. Upto(f, 0) OBVIOUS
    <3> QED BY <3>1
  <2>2. ASSUME NEW k \in Nat, k \in T PROVE k + 1 \in T
    <3>1. PICK f : Upto(f, k) BY <2>2
    <3> DEFINE g == [i \in 0..(k + 1) |->
                        IF i = k + 1 THEN UrlNext(f[k], k + 1, At(url, k + 1)) ELSE f[i]]
    <3>2. ASSUME NEW i \in 0..(k + 1)
          PROVE  g[i] = IF i = 0 THEN UrlBegun(isConnect) ELSE UrlNext(g[i - 1], i, At(url, i))
      <4>1. CASE i = k + 1
        <5>1. i # 0 /\ i - 1 = k /\ g[k] = f[k] BY <4>1
        <5> QED BY <4>1, <5>1
      <4>2. CASE i # k + 1
        <5>1. i \in 0..k /\ g[i] = f[i] BY <4>2
        <5>2. f[i] = IF i = 0 THEN UrlBegun(isConnect) ELSE UrlNext(f[i - 1], i, At(url, i))
          BY <3>1, <5>1
        <5>3. i # 0 => g[i - 1] = f[i - 1] BY <5>1
        <5> QED BY <5>1, <5>2, <5>3
      <4> QED BY <4>1, <4>2
    <3>3. Upto(g, k + 1) BY <3>2
    <3>4. \E h : Upto(h, k + 1)
      <4> HIDE DEF g
      <4> QED BY <3>3
    <3> HIDE DEF Upto
    <3> QED BY <3>4
  <2> HIDE DEF T
  <2> QED BY <2>1, <2>2, NaturalInduction
<1>3. PICK f : Upto(f, Len(url)) BY <1>2
<1>4. Scans(f, url, isConnect) BY <1>3 DEF Scans
<1> QED BY <1>4

\* The last of them is what Scanned is.
LEMMA ScannedIs ==
    ASSUME NEW url, Len(url) \in Nat, NEW isConnect
    PROVE  \E f : /\ Scanned(url, isConnect) = f[Len(url)]
                  /\ f[0] = UrlBegun(isConnect)
                  /\ \A i \in 0..(Len(url) - 1) :
                         f[i + 1] = UrlNext(f[i], i + 1, At(url, i + 1))
<1> DEFINE upto == CHOOSE f : Scans(f, url, isConnect)
<1>1. Scans(upto, url, isConnect) BY ScansExists, Zenon
<1>2. Scanned(url, isConnect) = upto[Len(url)] BY DEF Scanned, Scans
<1> HIDE DEF upto
<1>3. \A i \in 0..Len(url) : upto[i] =
          IF i = 0 THEN UrlBegun(isConnect) ELSE UrlNext(upto[i - 1], i, At(url, i))
  BY <1>1 DEF Scans
<1>4. upto[0] = UrlBegun(isConnect) BY <1>3
<1>5. ASSUME NEW i \in 0..(Len(url) - 1)
      PROVE  upto[i + 1] = UrlNext(upto[i], i + 1, At(url, i + 1))
  <2> DEFINE j == i + 1
  <2>1. j \in 0..Len(url) /\ j # 0 /\ j - 1 = i OBVIOUS
  <2> HIDE DEF j
  <2>2. upto[j] = UrlNext(upto[i], j, At(url, j)) BY <1>3, <2>1
  <2> QED BY <2>2 DEF j
<1> QED BY <1>2, <1>4, <1>5

\* What the loop knows behind the i-th character, unless it has failed.
HostFrom == {"host_start", "userinfo_start"}
UrlParts == {"SCHEMA", "HOST", "PATH", "QUERY", "FRAGMENT"}
ScanType == [s : UrlAlive, old : UrlParts \cup {"none"}, host : HostFrom,
             u : [set : SUBSET UrlParts, field : FieldType]]
ScanInv(url, i, r) ==
    /\ r \in ScanType /\ r.u.set \subseteq UrlMet(r.s)
    /\ r.old # "none" => r.old \in r.u.set
    /\ UrlField(r.s) # "none" =>
           /\ r.old = UrlField(r.s)
           /\ r.u.field[r.old].off + r.u.field[r.old].len = i
    /\ Whole(url, 0, i, r.u.set, r.u.field)

\* A position within the limit is kept as it is.
LEMMA InRange == ASSUME NEW i \in Nat, i < FieldRange PROVE i % FieldRange = i
BY ParserAssumption

\* A field that goes on is kept one longer, and one that begins where it begins.
Put(field, f, new) == [field EXCEPT ![f] = new]
LEMMA FieldGoesOn ==
    ASSUME NEW url, NEW from \in Nat, NEW to \in Nat, from <= to, to + 1 < FieldRange,
           NEW set \in SUBSET Fields, NEW field \in FieldType,
           Whole(url, from, to, set, field), NEW f \in set, field[f].off + field[f].len = to
    PROVE  LET next == Put(field, f, Longer(field[f])) IN
           /\ next \in FieldType /\ next[f].off + next[f].len = to + 1
           /\ \A g \in Fields : g # f => next[g] = field[g]
           /\ Whole(url, from, to + 1, set, next)
<1>1. f \in Fields /\ FieldRange \in Nat BY ParserAssumption
<1>2. PICK o \in Nat, l \in Nat : field[f] = [off |-> o, len |-> l] BY <1>1 DEF FieldType
<1>3. o + l = to /\ l + 1 < FieldRange BY <1>1, <1>2
<1>4. (l + 1) % FieldRange = l + 1 BY <1>3, InRange
<1>5. Longer(field[f]) = [off |-> o, len |-> l + 1] BY <1>2, <1>4 DEF Longer
<1>6. PICK next : next = Put(field, f, Longer(field[f])) OBVIOUS
<1>7. next = [field EXCEPT ![f] = [off |-> o, len |-> l + 1]] BY <1>5, <1>6 DEF Put
<1>8. /\ next \in FieldType /\ next[f] = [off |-> o, len |-> l + 1]
      /\ \A g \in Fields : g # f => next[g] = field[g]
  BY <1>1, <1>7 DEF FieldType
<1>9. next[f].off = field[f].off /\ next[f].len = field[f].len + 1 BY <1>2, <1>8
<1>10. Whole(url, from, to + 1, set, next) BY <1>8, <1>9, WholeGoesOn
<1> QED BY <1>3, <1>6, <1>8, <1>10

Unread(set, field, f) == f \in set => field[f].len = 0
LEMMA FieldBegins ==
    ASSUME NEW url, NEW from \in Nat, NEW to \in Nat, from <= to, to + 1 < FieldRange,
           NEW set \in SUBSET Fields, NEW field \in FieldType,
           Whole(url, from, to, set, field), NEW f \in Fields, Unread(set, field, f)
    PROVE  LET next == Put(field, f, Opened(to)) IN
           /\ next \in FieldType /\ next[f].off + next[f].len = to + 1
           /\ \A g \in Fields : g # f => next[g] = field[g]
           /\ Whole(url, from, to + 1, set \cup {f}, next)
<1>1. FieldRange \in Nat /\ to < FieldRange BY ParserAssumption
<1>2. Opened(to) = [off |-> to, len |-> 1] BY <1>1, InRange DEF Opened
<1>3. PICK next : next = Put(field, f, Opened(to)) OBVIOUS
<1>4. next = [field EXCEPT ![f] = [off |-> to, len |-> 1]] BY <1>2, <1>3 DEF Put
<1>5. /\ next \in FieldType /\ next[f] = [off |-> to, len |-> 1]
      /\ \A g \in Fields : g # f => next[g] = field[g]
  BY <1>4 DEF FieldType
<1>6. next[f].off = to /\ next[f].len = 1 BY <1>5
<1>7. Whole(url, from, to + 1, set \cup {f}, next) BY <1>5, <1>6, WholeBeginsField DEF Unread
<1> QED BY <1>3, <1>5, <1>6, <1>7

\* What is read of a character of a field,
ReadBy(r, t, f, met, next) ==
    [s |-> t, old |-> f, host |-> met, u |-> [set |-> r.u.set \cup {f}, field |-> next]]
LEMMA FieldReadIs ==
    ASSUME NEW r, NEW i, NEW t, UrlField(t) # "none"
    PROVE  UrlRead(r, i, t) =
               ReadBy(r, t, UrlField(t), IF t = "s_req_server_with_at" THEN "userinfo_start" ELSE r.host,
                      Put(r.u.field, UrlField(t),
                          IF UrlField(t) = r.old THEN Longer(r.u.field[UrlField(t)])
                                                 ELSE Opened(i - 1)))
BY DEF UrlRead, ReadBy, Put

\* and of a delimiter.
LEMMA DelimiterReadIs ==
    ASSUME NEW r \in ScanType, NEW i, NEW t, UrlField(t) = "none"
    PROVE  UrlRead(r, i, t) = [s |-> t, old |-> r.old, host |-> r.host, u |-> r.u]
BY DEF UrlRead, ScanType

\* It knows it at the beginning,
LEMMA ScanBegins ==
    ASSUME NEW url, NEW isConnect
    PROVE  ScanInv(url, 0, UrlBegun(isConnect))
<1> DEFINE r == UrlBegun(isConnect)
<1>1. /\ r.s = IF isConnect THEN "s_req_server_start" ELSE "s_req_spaces_before_url"
      /\ r.old = "none" /\ r.host = "host_start" /\ r.u.set = {} /\ r.u = NoFields
  BY DEF UrlBegun, NoFields
<1>2. r.u.field \in FieldType BY <1>1 DEF NoFields, NoField, FieldType
<1>3. r \in ScanType
  <2>1. r = [s |-> r.s, old |-> "none", host |-> "host_start", u |-> NoFields] BY <1>1 DEF UrlBegun
  <2>2. PICK field \in FieldType : NoFields = [set |-> {}, field |-> field]
    BY <1>1, <1>2 DEF NoFields
  <2>3. r.s \in UrlAlive BY <1>1 DEF UrlAlive, UrlStates
  <2> QED BY <1>2, <2>1, <2>2, <2>3 DEF ScanType, HostFrom
<1>4. Whole(url, 0, 0, r.u.set, r.u.field) BY <1>1, <1>2, WholeBegins
<1>5. UrlField(r.s) = "none" BY <1>1 DEF UrlField
<1> QED BY <1>1, <1>3, <1>4, <1>5 DEF ScanInv

\* and keeps knowing it.
LEMMA ScanGoesOn ==
    ASSUME NEW url, NEW i \in Nat, i + 1 < FieldRange, NEW r, ScanInv(url, i, r), NEW r1,
           r1 = UrlNext(r, i + 1, At(url, i + 1)), r1.s # UrlDead
    PROVE  ScanInv(url, i + 1, r1)
<1>0. r \in ScanType BY DEF ScanInv
<1>1. PICK s \in UrlAlive, old \in UrlParts \cup {"none"}, host \in HostFrom,
           set \in SUBSET UrlParts, field \in FieldType :
               r = [s |-> s, old |-> old, host |-> host, u |-> [set |-> set, field |-> field]]
  BY DEF ScanInv, ScanType
<1>2. /\ set \subseteq UrlMet(s) /\ (old # "none" => old \in set)
      /\ UrlField(s) # "none" => old = UrlField(s) /\ field[old].off + field[old].len = i
      /\ Whole(url, 0, i, set, field)
  BY <1>1 DEF ScanInv
<1>3. PICK c : c = At(url, i + 1) OBVIOUS
<1>4. PICK t : t = UrlChar(s, c) OBVIOUS
<1>5. PICK f : f = UrlField(t) OBVIOUS
<1>6. r1 = UrlRead(r, i + 1, t) BY <1>1, <1>3, <1>4 DEF UrlNext
<1>7. r1.s = t
  <2>1. CASE f = "none"
    <3>1. UrlRead(r, i + 1, t) = [s |-> t, old |-> r.old, host |-> r.host, u |-> r.u]
      BY <1>0, <1>5, <2>1, DelimiterReadIs
    <3> QED BY <1>6, <3>1
  <2>2. CASE f # "none" BY <1>5, <1>6, <2>2, FieldReadIs DEF ReadBy
  <2> QED BY <2>1, <2>2
<1>8. /\ t \in UrlAlive /\ UrlMet(s) \subseteq UrlMet(t)
      /\ f = "none" => c \in Delimiters
      /\ f # "none" => f \in UrlMet(t)
      /\ f \in UrlMet(s) => f = UrlField(s)
  BY <1>4, <1>5, <1>7, UrlCharMeets
<1>9. /\ f \in UrlParts \cup {"none"} /\ set \in SUBSET Fields /\ "none" \notin UrlParts
      /\ UrlParts \subseteq Fields /\ FieldRange \in Nat
  BY <1>5, ParserAssumption DEF UrlField, UrlParts, Fields
<1>13. 0 \in Nat /\ 0 <= i OBVIOUS
<1>10. CASE f = "none"
  <2>1. r1 = [s |-> t, old |-> old, host |-> host, u |-> [set |-> set, field |-> field]]
    <3>1. UrlRead(r, i + 1, t) = [s |-> t, old |-> r.old, host |-> r.host, u |-> r.u]
      BY <1>0, <1>5, <1>10, DelimiterReadIs
    <3> QED BY <1>1, <1>6, <3>1
  <2>2. r1 \in ScanType BY <2>1, <1>8 DEF ScanType
  <2>3. Whole(url, 0, i + 1, set, field) BY <1>2, <1>3, <1>8, <1>9, <1>10, WholeSkips
  <2>4. r1.s = t /\ r1.old = old /\ r1.u.set = set /\ r1.u.field = field BY <2>1
  <2> QED BY <2>2, <2>3, <2>4, <1>2, <1>5, <1>8, <1>10 DEF ScanInv
<1>11. ASSUME NEW next \in FieldType, next[f].off + next[f].len = i + 1, f # "none",
              Whole(url, 0, i + 1, set \cup {f}, next),
              next = Put(field, f, IF f = old THEN Longer(field[f]) ELSE Opened(i))
       PROVE  ScanInv(url, i + 1, r1)
  <2>1. r.old = old /\ r.u.set = set /\ r.u.field = field /\ i + 1 - 1 = i BY <1>1
  <2>2. PICK from \in HostFrom : from = IF t = "s_req_server_with_at" THEN "userinfo_start"
                                                                       ELSE r.host
    BY <1>1 DEF HostFrom
  <2>3. r1 = ReadBy(r, t, f, from, next)
    <3>1. UrlRead(r, i + 1, t) =
              ReadBy(r, t, f, IF t = "s_req_server_with_at" THEN "userinfo_start" ELSE r.host,
                     Put(r.u.field, f, IF f = r.old THEN Longer(r.u.field[f])
                                                    ELSE Opened(i + 1 - 1)))
      BY <1>5, <1>11, FieldReadIs
    <3> QED BY <1>6, <1>11, <2>1, <2>2, <3>1
  <2>4. r1 = [s |-> t, old |-> f, host |-> from, u |-> [set |-> set \cup {f}, field |-> next]]
    BY <2>1, <2>3 DEF ReadBy
  <2>5. f \in UrlParts BY <1>9, <1>11
  <2>6. r1 \in ScanType BY <1>8, <1>11, <2>4, <2>5 DEF ScanType
  <2>7. r1.s = t /\ r1.old = f /\ r1.u.set = set \cup {f} /\ r1.u.field = next BY <2>4
  <2>8. set \cup {f} \subseteq UrlMet(t) BY <1>2, <1>8, <1>11
  <2> QED BY <2>6, <2>7, <2>8, <1>2, <1>5, <1>8, <1>11 DEF ScanInv
<1>12. CASE f # "none" /\ f = old
  <2>1. f \in set /\ field[f].off + field[f].len = i BY <1>2, <1>8, <1>12
  <2>2. PICK next : next = Put(field, f, Longer(field[f])) OBVIOUS
  <2>3. /\ next \in FieldType /\ next[f].off + next[f].len = i + 1
        /\ Whole(url, 0, i + 1, set, next)
    <3>1. /\ Put(field, f, Longer(field[f])) \in FieldType
          /\ Whole(url, 0, i + 1, set, Put(field, f, Longer(field[f])))
          /\ LET new == Put(field, f, Longer(field[f])) IN new[f].off + new[f].len = i + 1
      BY <1>2, <1>9, <1>13, <2>1, FieldGoesOn
    <3> QED BY <2>2, <3>1
  <2>4. set \cup {f} = set BY <2>1
  <2> QED BY <1>11, <1>12, <2>2, <2>3, <2>4
<1>14. CASE f # "none" /\ f # old
  <2>1. f \notin set /\ f \in Fields
    <3>1. f \in set => f = UrlField(s) BY <1>2, <1>8
    <3> QED BY <3>1, <1>2, <1>9, <1>14
  <2>4. Unread(set, field, f) BY <2>1 DEF Unread
  <2>2. PICK next : next = Put(field, f, Opened(i)) OBVIOUS
  <2>3. /\ next \in FieldType /\ next[f].off + next[f].len = i + 1
        /\ Whole(url, 0, i + 1, set \cup {f}, next)
    <3>1. /\ Put(field, f, Opened(i)) \in FieldType
          /\ Whole(url, 0, i + 1, set \cup {f}, Put(field, f, Opened(i)))
          /\ LET new == Put(field, f, Opened(i)) IN new[f].off + new[f].len = i + 1
      <4>1. PICK from \in Nat : from = 0 OBVIOUS
      <4>2. /\ Whole(url, from, i, set, field) /\ f \in Fields /\ Unread(set, field, f)
            /\ set \in SUBSET Fields /\ from <= i
        BY <1>2, <1>9, <1>13, <2>1, <2>4, <4>1
      <4>3. /\ Put(field, f, Opened(i)) \in FieldType
            /\ Whole(url, from, i + 1, set \cup {f}, Put(field, f, Opened(i)))
            /\ LET new == Put(field, f, Opened(i)) IN new[f].off + new[f].len = i + 1
        BY <4>2, FieldBegins
      <4> QED BY <4>1, <4>3
    <3> QED BY <2>2, <3>1
  <2> QED BY <1>11, <1>14, <2>2, <2>3
<1> QED BY <1>10, <1>12, <1>14

\* A failed scan has failed for good.
LEMMA ScanFails ==
    ASSUME NEW r, NEW i, NEW c, r.s = UrlDead
    PROVE  UrlNext(r, i, c).s = UrlDead
BY DeadStaysDead DEF UrlNext, UrlRead, UrlField, UrlDead

\* So a scan that has not failed knows it of the whole URL.
LEMMA ScannedKnows ==
    ASSUME NEW url, Len(url) \in Nat, Len(url) < FieldRange, NEW isConnect,
           Scanned(url, isConnect).s # UrlDead
    PROVE  ScanInv(url, Len(url), Scanned(url, isConnect))
<1>1. PICK f : /\ Scanned(url, isConnect) = f[Len(url)]
               /\ f[0] = UrlBegun(isConnect)
               /\ \A i \in 0..(Len(url) - 1) :
                      f[i + 1] = UrlNext(f[i], i + 1, At(url, i + 1))
  BY ScannedIs
<1> DEFINE P(i) == i <= Len(url) /\ f[i].s # UrlDead => ScanInv(url, i, f[i])
<1>2. P(0) BY <1>1, ScanBegins
<1>3. ASSUME NEW i \in Nat, P(i) PROVE P(i + 1)
  <2> SUFFICES ASSUME i + 1 <= Len(url), f[i + 1].s # UrlDead
               PROVE  ScanInv(url, i + 1, f[i + 1])
    OBVIOUS
  <2>1. f[i + 1] = UrlNext(f[i], i + 1, At(url, i + 1)) BY <1>1
  <2>2. CASE f[i].s = UrlDead BY <2>1, <2>2, ScanFails
  <2>3. CASE f[i].s # UrlDead
    <3>1. ScanInv(url, i, f[i]) BY <1>3, <2>3
    <3>2. i + 1 < FieldRange BY ParserAssumption
    <3> QED BY <2>1, <3>1, <3>2, ScanGoesOn, Zenon
  <2> QED BY <2>2, <2>3
<1> HIDE DEF P
<1> DEFINE T == {i \in Nat : P(i)}
<1>4. Nat \subseteq T
  <2>1. 0 \in T /\ \A i \in Nat : i \in T => i + 1 \in T BY <1>2, <1>3
  <2> HIDE DEF T
  <2> QED BY <2>1, NaturalInduction
<1>5. P(Len(url)) BY <1>4
<1> QED BY <1>1, <1>5 DEF P

\* The partial results of the loop of http_parse_host.
HostReads(f, url, u, s) ==
    f = [i \in 0..u.field.HOST.len |->
            IF i = 0 THEN HostBegun(u, s)
                     ELSE HostStep(u.field.HOST.off, f[i - 1], i,
                                   At(url, u.field.HOST.off + i))]

\* There are such results.
LEMMA HostReadsExists ==
    ASSUME NEW url, NEW u, u.field.HOST.len \in Nat, NEW s
    PROVE  \E f : HostReads(f, url, u, s)
<1> DEFINE First == HostBegun(u, s)
           Next1(w, i) == HostStep(u.field.HOST.off, w, i, At(url, u.field.HOST.off + i))
           Upto(f, k) == f = [i \in 0..k |-> IF i = 0 THEN First ELSE Next1(f[i - 1], i)]
           T == {k \in Nat : \E f : Upto(f, k)}
<1> HIDE DEF First, Next1
<1>1. Nat \subseteq T
  <2>1. 0 \in T
    <3> DEFINE f == [i \in 0..0 |-> First]
    <3>1. Upto(f, 0) OBVIOUS
    <3> QED BY <3>1
  <2>2. ASSUME NEW k \in Nat, k \in T PROVE k + 1 \in T
    <3>1. PICK f : Upto(f, k) BY <2>2
    <3> DEFINE g == [i \in 0..(k + 1) |-> IF i = k + 1 THEN Next1(f[k], k + 1) ELSE f[i]]
    <3>2. ASSUME NEW i \in 0..(k + 1)
          PROVE  g[i] = IF i = 0 THEN First ELSE Next1(g[i - 1], i)
      <4>1. CASE i = k + 1
        <5>1. i # 0 /\ i - 1 = k /\ g[k] = f[k] BY <4>1
        <5> QED BY <4>1, <5>1
      <4>2. CASE i # k + 1
        <5>1. i \in 0..k /\ g[i] = f[i] BY <4>2
        <5>2. f[i] = IF i = 0 THEN First ELSE Next1(f[i - 1], i) BY <3>1, <5>1
        <5>3. i # 0 => g[i - 1] = f[i - 1] BY <5>1
        <5> QED BY <5>1, <5>2, <5>3
      <4> QED BY <4>1, <4>2
    <3>3. Upto(g, k + 1) BY <3>2
    <3>4. \E h : Upto(h, k + 1)
      <4> HIDE DEF g
      <4> QED BY <3>3
    <3> HIDE DEF Upto
    <3> QED BY <3>4
  <2> HIDE DEF T
  <2> QED BY <2>1, <2>2, NaturalInduction
<1>2. PICK f : Upto(f, u.field.HOST.len) BY <1>1
<1>3. HostReads(f, url, u, s) BY <1>2 DEF HostReads, First, Next1
<1> QED BY <1>3

\* The last of them is what ParseHost is.
LEMMA ParseHostIs ==
    ASSUME NEW url, NEW u, NEW off, off = u.field.HOST.off, NEW n \in Nat, n = u.field.HOST.len,
           NEW s
    PROVE  \E f : /\ ParseHost(url, u, s) = f[n]
                  /\ f[0] = HostBegun(u, s)
                  /\ \A i \in 0..(n - 1) :
                         f[i + 1] = HostStep(off, f[i], i + 1, At(url, off + (i + 1)))
<1> DEFINE upto == CHOOSE f : HostReads(f, url, u, s)
<1>1. HostReads(upto, url, u, s) BY HostReadsExists, Zenon
<1>2. ParseHost(url, u, s) = upto[n] BY DEF ParseHost, HostReads
<1> HIDE DEF upto
<1>3. \A i \in 0..n : upto[i] =
          IF i = 0 THEN HostBegun(u, s) ELSE HostStep(off, upto[i - 1], i, At(url, off + i))
  BY <1>1 DEF HostReads
<1>4. upto[0] = HostBegun(u, s) BY <1>3
<1>5. ASSUME NEW i \in 0..(n - 1)
      PROVE  upto[i + 1] = HostStep(off, upto[i], i + 1, At(url, off + (i + 1)))
  <2> DEFINE j == i + 1
  <2>1. j \in 0..n /\ j # 0 /\ j - 1 = i OBVIOUS
  <2> HIDE DEF j
  <2>2. upto[j] = HostStep(off, upto[i], j, At(url, off + j)) BY <1>3, <2>1
  <2> QED BY <2>2 DEF j
<1> QED BY <1>2, <1>4, <1>5

\* What the loop knows behind the i-th character of an authority that begins
\* behind position off, of fields that were u, unless it has failed.
HostParts == {"USERINFO", "HOST", "PORT"}
HostType == [s : HostAlive, u : [set : SUBSET Fields, field : FieldType]]
HostInv(url, off, u, i, r) ==
    /\ r \in HostType
    /\ "HOST" \in r.u.set /\ r.u.set \ HostParts = u.set \ HostParts
    /\ \A g \in Fields \ HostParts : r.u.field[g] = u.field[g]
    /\ r.u.set \cap HostParts \subseteq HostMet(r.s) \cup {"HOST"}
    /\ "HOST" \notin HostMet(r.s) => r.u.field["HOST"].len = 0
    /\ HostField(r.s) # "none" =>
           /\ HostField(r.s) \in r.u.set
           /\ r.u.field[HostField(r.s)].off + r.u.field[HostField(r.s)].len = off + i
    /\ Whole(url, off, off + i, r.u.set \cap HostParts, r.u.field)

\* It knows it at the beginning,
LEMMA HostBegins ==
    ASSUME NEW url, NEW set \in SUBSET UrlParts, NEW field \in FieldType, "HOST" \in set,
           NEW u, u = [set |-> set, field |-> field], NEW s \in HostFrom
    PROVE  HostInv(url, field.HOST.off, u, 0, HostBegun(u, s))
<1> DEFINE off == field.HOST.off
<1>1. PICK new : new = [off |-> off, len |-> 0] OBVIOUS
<1>2. PICK next : next = [field EXCEPT !["HOST"] = new] OBVIOUS
<1>3. "HOST" \in Fields /\ off \in Nat BY DEF Fields, FieldType
<1>4. /\ next \in FieldType /\ next["HOST"] = new
      /\ \A g \in Fields : g # "HOST" => next[g] = field[g]
  BY <1>1, <1>2, <1>3 DEF FieldType
<1>5. PICK r : r = HostBegun(u, s) OBVIOUS
<1>6. r = [s |-> s, u |-> [set |-> set, field |-> next]]
  BY <1>1, <1>2, <1>3, <1>5 DEF HostBegun, FieldType
<1>7. set \in SUBSET Fields /\ set \cap HostParts = {"HOST"} /\ s \in HostAlive
  BY DEF UrlParts, Fields, HostParts, HostFrom, HostAlive
<1>8. r \in HostType BY <1>4, <1>6, <1>7 DEF HostType
<1>9. Whole(url, off, off, {"HOST"}, next)
  <2>1. {"HOST"} \in SUBSET Fields /\ \A f \in {"HOST"} : next[f] = [off |-> off, len |-> 0]
    BY <1>1, <1>3, <1>4
  <2> QED BY <1>3, <1>4, <2>1, WholeBegins
<1>10. HostField(s) = "none" /\ "HOST" \notin HostMet(s)
  BY DEF HostFrom, HostField, HostMet
<1>11. r.s = s /\ r.u.set = set /\ r.u.field = next /\ u.set = set /\ u.field = field BY <1>6
<1>12. \A g \in Fields \ HostParts : next[g] = field[g] BY <1>4 DEF HostParts
<1>13. off + 0 = off /\ next["HOST"].len = 0 BY <1>1, <1>3, <1>4
<1> QED BY <1>5, <1>7, <1>8, <1>9, <1>10, <1>11, <1>12, <1>13 DEF HostInv

\* What is read of a character of the host.
LEMMA HostReadIs ==
    ASSUME NEW off, NEW w, NEW i, NEW t, HostField(t) # "none"
    PROVE  HostRead(off, w, i, t) =
               [s |-> t,
                u |-> [set |-> w.u.set \cup {HostField(t)},
                       field |-> Put(w.u.field, HostField(t),
                           IF Prolongs(w.s, t) THEN Longer(w.u.field[HostField(t)])
                                               ELSE Opened(off + i - 1))]]
BY DEF HostRead, Put, Prolongs

LEMMA HostSkipIs ==
    ASSUME NEW off, NEW w, NEW i, NEW t, HostField(t) = "none"
    PROVE  HostRead(off, w, i, t) = [s |-> t, u |-> w.u]
BY DEF HostRead

\* and keeps knowing it.
LEMMA HostGoesOn ==
    ASSUME NEW url, NEW off \in Nat, NEW i \in Nat, off + i + 1 < FieldRange,
           NEW u, NEW r, HostInv(url, off, u, i, r), NEW r1,
           r1 = HostStep(off, r, i + 1, At(url, off + (i + 1))), r1.s # "host_dead"
    PROVE  HostInv(url, off, u, i + 1, r1)
<1>1. PICK s \in HostAlive, set \in SUBSET Fields, field \in FieldType :
               r = [s |-> s, u |-> [set |-> set, field |-> field]]
  BY DEF HostInv, HostType
<1>2. r.s = s /\ r.u = [set |-> set, field |-> field] /\ r.u.set = set /\ r.u.field = field
  BY <1>1
<1>3. /\ "HOST" \in set /\ set \ HostParts = u.set \ HostParts
      /\ \A g \in Fields \ HostParts : field[g] = u.field[g]
      /\ set \cap HostParts \subseteq HostMet(s) \cup {"HOST"}
      /\ "HOST" \notin HostMet(s) => field["HOST"].len = 0
      /\ HostField(s) # "none" =>
             /\ HostField(s) \in set
             /\ field[HostField(s)].off + field[HostField(s)].len = off + i
      /\ Whole(url, off, off + i, set \cap HostParts, field)
  BY <1>2 DEF HostInv
<1>4. PICK c : c = At(url, off + (i + 1)) OBVIOUS
<1>5. PICK t : t = HostChar(s, c) OBVIOUS
<1>6. PICK f : f = HostField(t) OBVIOUS
<1>7. r1 = HostRead(off, r, i + 1, t) BY <1>2, <1>4, <1>5 DEF HostStep
<1>8. r1.s = t
  <2>1. CASE f = "none"
    <3>2. HostField(t) = "none" BY <1>6, <2>1
    <3>1. HostRead(off, r, i + 1, t) = [s |-> t, u |-> r.u] BY <3>2, HostSkipIs
    <3> QED BY <1>7, <3>1
  <2>2. CASE f # "none" BY <1>6, <1>7, <2>2, HostReadIs
  <2> QED BY <2>1, <2>2
<1>9. /\ t \in HostAlive /\ HostMet(s) \subseteq HostMet(t)
      /\ f = "none" => c \in Delimiters
      /\ f # "none" => f \in HostMet(t)
      /\ f # "none" => IF Prolongs(s, t) THEN f = HostField(s) ELSE f \notin HostMet(s)
  BY <1>5, <1>6, <1>8, HostCharMeets
<1>10. PICK to \in Nat : to = off + i OBVIOUS
<1>11. /\ off <= to /\ to + 1 = off + (i + 1) /\ to + 1 < FieldRange /\ off + (i + 1) - 1 = to
       /\ FieldRange \in Nat
  BY <1>10, ParserAssumption
<1>12. /\ f \in HostParts \cup {"none"} /\ HostParts \subseteq Fields /\ "none" \notin HostParts
       /\ set \cap HostParts \in SUBSET Fields
  BY <1>6 DEF HostField, HostParts, Fields
<1>17. PICK parts \in SUBSET Fields : parts = set \cap HostParts BY <1>12
<1>13. CASE f = "none"
  <2>1. r1 = [s |-> t, u |-> [set |-> set, field |-> field]]
    <3>2. HostField(t) = "none" BY <1>6, <1>13
    <3>1. HostRead(off, r, i + 1, t) = [s |-> t, u |-> r.u] BY <3>2, HostSkipIs
    <3> QED BY <1>2, <1>7, <3>1
  <2>2. r1 \in HostType BY <1>9, <2>1 DEF HostType
  <2>3. r1.s = t /\ r1.u.set = set /\ r1.u.field = field BY <2>1
  <2>4. Whole(url, off, to + 1, set \cap HostParts, field)
    BY <1>3, <1>4, <1>9, <1>10, <1>11, <1>12, <1>13, WholeSkips
  <2> QED BY <1>3, <1>6, <1>9, <1>11, <1>13, <2>2, <2>3, <2>4 DEF HostInv
<1>14. ASSUME NEW next \in FieldType, f # "none", next[f].off + next[f].len = to + 1,
              \A g \in Fields : g # f => next[g] = field[g],
              Whole(url, off, to + 1, (set \cap HostParts) \cup {f}, next),
              next = Put(field, f, IF Prolongs(s, t) THEN Longer(field[f]) ELSE Opened(to))
       PROVE  HostInv(url, off, u, i + 1, r1)
  <2>1. HostRead(off, r, i + 1, t) =
            [s |-> t, u |-> [set |-> r.u.set \cup {f},
                             field |-> Put(r.u.field, f,
                                 IF Prolongs(r.s, t) THEN Longer(r.u.field[f])
                                                     ELSE Opened(off + (i + 1) - 1))]]
    <3>1. HostField(t) = f /\ HostField(t) # "none" BY <1>6, <1>14
    <3>2. HostRead(off, r, i + 1, t) =
              [s |-> t, u |-> [set |-> r.u.set \cup {HostField(t)},
                               field |-> Put(r.u.field, HostField(t),
                                   IF Prolongs(r.s, t) THEN Longer(r.u.field[HostField(t)])
                                                       ELSE Opened(off + (i + 1) - 1))]]
      BY <3>1, HostReadIs
    <3> QED BY <3>1, <3>2
  <2>2. r1 = [s |-> t, u |-> [set |-> set \cup {f}, field |-> next]]
    BY <1>2, <1>7, <1>11, <1>14, <2>1
  <2>3. f \in HostParts /\ f \in Fields BY <1>12, <1>14
  <2>4. r1 \in HostType BY <1>9, <1>14, <2>2, <2>3 DEF HostType
  <2>5. r1.s = t /\ r1.u.set = set \cup {f} /\ r1.u.field = next BY <2>2
  <2>6. (set \cup {f}) \cap HostParts = (set \cap HostParts) \cup {f} BY <2>3
  <2>7. (set \cup {f}) \cap HostParts \subseteq HostMet(t) \cup {"HOST"}
    BY <1>3, <1>9, <1>14
  <2>8. "HOST" \notin HostMet(t) => next["HOST"].len = 0
    <3>1. "HOST" \notin HostMet(t) => f # "HOST" /\ field["HOST"].len = 0 BY <1>3, <1>9, <1>14
    <3>2. "HOST" \in Fields BY DEF Fields
    <3> QED BY <1>14, <3>1, <3>2
  <2>9. \A g \in Fields \ HostParts : next[g] = u.field[g] BY <1>3, <1>14, <2>3
  <2>10. (set \cup {f}) \ HostParts = u.set \ HostParts BY <1>3, <2>3
  <2> QED BY <1>3, <1>6, <1>9, <1>11, <1>14, <2>4, <2>5, <2>6, <2>7, <2>8, <2>9, <2>10 DEF HostInv
<1>15. CASE f # "none" /\ Prolongs(s, t)
  <2>1. /\ f \in set \cap HostParts /\ field[f].off + field[f].len = to
    BY <1>3, <1>9, <1>10, <1>12, <1>15
  <2>2. PICK next : next = Put(field, f, Longer(field[f])) OBVIOUS
  <2>3. /\ next \in FieldType /\ next[f].off + next[f].len = to + 1
        /\ \A g \in Fields : g # f => next[g] = field[g]
        /\ Whole(url, off, to + 1, set \cap HostParts, next)
    <3>1. Whole(url, off, to, parts, field) /\ f \in parts /\ field[f].off + field[f].len = to
      BY <1>3, <1>10, <1>17, <2>1
    <3>2. /\ Put(field, f, Longer(field[f])) \in FieldType
          /\ Whole(url, off, to + 1, parts, Put(field, f, Longer(field[f])))
          /\ LET new == Put(field, f, Longer(field[f])) IN
             /\ new[f].off + new[f].len = to + 1
             /\ \A g \in Fields : g # f => new[g] = field[g]
      BY <1>11, <3>1, FieldGoesOn
    <3> QED BY <1>17, <2>2, <3>2
  <2>4. (set \cap HostParts) \cup {f} = set \cap HostParts BY <2>1
  <2> QED BY <1>14, <1>15, <2>2, <2>3, <2>4
<1>16. CASE f # "none" /\ ~ Prolongs(s, t)
  <2>1. f \in Fields /\ (f \in set \cap HostParts => field[f].len = 0)
    BY <1>3, <1>9, <1>12, <1>16
  <2>2. PICK next : next = Put(field, f, Opened(to)) OBVIOUS
  <2>3. /\ next \in FieldType /\ next[f].off + next[f].len = to + 1
        /\ \A g \in Fields : g # f => next[g] = field[g]
        /\ Whole(url, off, to + 1, (set \cap HostParts) \cup {f}, next)
    <3>1. Whole(url, off, to, parts, field) /\ f \in Fields /\ Unread(parts, field, f)
      BY <1>3, <1>10, <1>17, <2>1 DEF Unread
    <3>2. /\ Put(field, f, Opened(to)) \in FieldType
          /\ Whole(url, off, to + 1, parts \cup {f}, Put(field, f, Opened(to)))
          /\ LET new == Put(field, f, Opened(to)) IN
             /\ new[f].off + new[f].len = to + 1
             /\ \A g \in Fields : g # f => new[g] = field[g]
      BY <1>11, <3>1, FieldBegins
    <3> QED BY <1>17, <2>2, <3>2
  <2> QED BY <1>14, <1>16, <2>2, <2>3
<1> QED BY <1>13, <1>15, <1>16

\* A failed host has failed for good.
LEMMA HostFails ==
    ASSUME NEW off, NEW r, NEW i, NEW c, r.s = "host_dead"
    PROVE  HostStep(off, r, i, c).s = "host_dead"
<1>1. HostField("host_dead") = "none" BY DEF HostField
<1> QED BY <1>1, HostDeadStaysDead, HostSkipIs DEF HostStep

\* So a host that has not failed is known of the whole authority.
LEMMA HostKnows ==
    ASSUME NEW url, NEW set \in SUBSET UrlParts, NEW field \in FieldType, "HOST" \in set,
           NEW u, u = [set |-> set, field |-> field], NEW s \in HostFrom,
           field.HOST.off + field.HOST.len < FieldRange,
           ParseHost(url, u, s).s # "host_dead"
    PROVE  HostInv(url, field.HOST.off, u, field.HOST.len, ParseHost(url, u, s))
<1>1. PICK off \in Nat, n \in Nat : off = field.HOST.off /\ n = field.HOST.len
  BY DEF FieldType, Fields
<1>2. PICK f : /\ ParseHost(url, u, s) = f[n]
               /\ f[0] = HostBegun(u, s)
               /\ \A i \in 0..(n - 1) :
                      f[i + 1] = HostStep(off, f[i], i + 1, At(url, off + (i + 1)))
  <2>1. off = u.field.HOST.off /\ n = u.field.HOST.len /\ u.field.HOST.len \in Nat BY <1>1
  <2>2. \E f : /\ ParseHost(url, u, s) = f[u.field.HOST.len]
               /\ f[0] = HostBegun(u, s)
               /\ \A i \in 0..(u.field.HOST.len - 1) :
                      f[i + 1] = HostStep(u.field.HOST.off, f[i], i + 1,
                                          At(url, u.field.HOST.off + (i + 1)))
    BY <2>1, ParseHostIs
  <2> QED BY <2>1, <2>2
<1> DEFINE P(i) == i <= n /\ f[i].s # "host_dead" => HostInv(url, off, u, i, f[i])
<1>3. P(0) BY <1>1, <1>2, HostBegins
<1>4. ASSUME NEW i \in Nat, P(i) PROVE P(i + 1)
  <2> SUFFICES ASSUME i + 1 <= n, f[i + 1].s # "host_dead"
               PROVE  HostInv(url, off, u, i + 1, f[i + 1])
    OBVIOUS
  <2>1. f[i + 1] = HostStep(off, f[i], i + 1, At(url, off + (i + 1))) BY <1>2
  <2>2. CASE f[i].s = "host_dead" BY <2>1, <2>2, HostFails
  <2>3. CASE f[i].s # "host_dead"
    <3>1. HostInv(url, off, u, i, f[i]) BY <1>4, <2>3
    <3>2. off + i + 1 < FieldRange BY <1>1, ParserAssumption
    <3> QED BY <2>1, <3>1, <3>2, HostGoesOn
  <2> QED BY <2>2, <2>3
<1> HIDE DEF P
<1> DEFINE T == {i \in Nat : P(i)}
<1>5. Nat \subseteq T
  <2>1. 0 \in T /\ \A i \in Nat : i \in T => i + 1 \in T BY <1>3, <1>4
  <2> HIDE DEF T
  <2> QED BY <2>1, NaturalInduction
<1>6. P(n) BY <1>5
<1> QED BY <1>1, <1>2, <1>6 DEF P

\* The fields of the authority take the place of the field that spanned it.
LEMMA WholeIsSplit ==
    ASSUME NEW url, NEW n \in Nat, NEW set \in SUBSET UrlParts, NEW field \in FieldType,
           "HOST" \in set, Whole(url, 0, n, set, field),
           NEW u, u = [set |-> set, field |-> field],
           NEW r, HostInv(url, field.HOST.off, u, field.HOST.len, r)
    PROVE  Whole(url, 0, n, r.u.set, r.u.field)
<1>1. PICK off \in Nat, l \in Nat : off = field.HOST.off /\ l = field.HOST.len
  BY DEF FieldType, Fields
<1>2. PICK parts \in SUBSET Fields, next \in FieldType : parts = r.u.set /\ next = r.u.field
  BY DEF HostInv, HostType
<1>3. /\ parts \ HostParts = set \ HostParts
      /\ \A g \in Fields \ HostParts : next[g] = field[g]
      /\ Whole(url, off, off + l, parts \cap HostParts, next)
  BY <1>1, <1>2 DEF HostInv
<1>4. /\ \A g \in Fields : next[g].off \in Nat /\ next[g].len \in Nat
      /\ \A g \in Fields : field[g].off \in Nat /\ field[g].len \in Nat
  BY DEF FieldType
<1>5. set \cap HostParts = {"HOST"} /\ UrlParts \subseteq Fields
  BY DEF UrlParts, HostParts, Fields
<1>6. 0 <= off /\ off + l <= n BY <1>1 DEF Whole
<1>7. \A g \in parts \ HostParts : g \in set /\ g # "HOST" /\ next[g] = field[g]
  BY <1>3, <1>5
<1>8. \A g \in parts : 0 <= next[g].off /\ next[g].off + next[g].len <= n
  <2> TAKE g \in parts
  <2>1. CASE g \in HostParts
    <3>1. off <= next[g].off /\ next[g].off + next[g].len <= off + l
      BY <1>3, <2>1 DEF Whole
    <3> QED BY <1>4, <1>6, <3>1
  <2>2. CASE g \notin HostParts BY <1>7, <2>2 DEF Whole
  <2> QED BY <2>1, <2>2
<1>9. \A j \in (0 + 1)..n : Owns(field["HOST"], j) <=> j \in (off + 1)..(off + l)
  BY <1>1 DEF Owns
<1>10. \A g \in parts \cap HostParts : \A j \in (0 + 1)..n :
           Owns(next[g], j) => j \in (off + 1)..(off + l)
  <2> TAKE g \in parts \cap HostParts
  <2>1. off <= next[g].off /\ next[g].off + next[g].len <= off + l BY <1>3 DEF Whole
  <2> QED BY <1>4, <2>1 DEF Owns
<1>11. \A j \in (0 + 1)..n :
           (\E g \in parts : Owns(next[g], j)) \/ At(url, j) \in Delimiters
  <2> TAKE j \in (0 + 1)..n
  <2>1. CASE j \in (off + 1)..(off + l) BY <1>3, <2>1 DEF Whole
  <2>2. CASE j \notin (off + 1)..(off + l)
    <3>1. ~ Owns(field["HOST"], j) BY <1>9, <2>2
    <3>2. \A g \in set : g # "HOST" => g \in parts /\ next[g] = field[g] BY <1>3, <1>5
    <3>3. (\E g \in set : Owns(field[g], j)) \/ At(url, j) \in Delimiters BY DEF Whole
    <3> QED BY <3>1, <3>2, <3>3
  <2> QED BY <2>1, <2>2
<1>12. \A g, h \in parts : \A j \in (0 + 1)..n : Owns(next[g], j) /\ Owns(next[h], j) => g = h
  <2> SUFFICES ASSUME NEW g \in parts, NEW h \in parts, NEW j \in (0 + 1)..n,
                      Owns(next[g], j), Owns(next[h], j)
               PROVE  g = h
    OBVIOUS
  <2>1. CASE g \in HostParts /\ h \in HostParts
    <3>1. j \in (off + 1)..(off + l) BY <1>10, <2>1
    <3> QED BY <1>3, <2>1, <3>1 DEF Whole
  <2>2. CASE g \notin HostParts /\ h \notin HostParts BY <1>7, <2>2 DEF Whole
  <2>3. ASSUME NEW a \in parts \cap HostParts, NEW b \in parts \ HostParts,
               Owns(next[a], j), Owns(next[b], j)
        PROVE  FALSE
    <3>1. Owns(field["HOST"], j) BY <1>9, <1>10, <2>3
    <3>2. b \in set /\ b # "HOST" /\ Owns(field[b], j) BY <1>7, <2>3
    <3> QED BY <3>1, <3>2 DEF Whole
  <2> QED BY <2>1, <2>2, <2>3
<1> QED BY <1>2, <1>8, <1>11, <1>12 DEF Whole

\* What http_parser_parse_url accepts, its fields share out.
LEMMA AcceptedIsWhole ==
    ASSUME NEW url, Len(url) \in Nat, Len(url) < FieldRange, NEW isConnect,
           ParseUrl(url, isConnect).ok
    PROVE  LET u == ParseUrl(url, isConnect).u IN
           u.set \in SUBSET Fields /\ Whole(url, 0, Len(url), u.set, u.field)
<1>1. PICK scan : scan = Scanned(url, isConnect) OBVIOUS
<1>2. PICK host : host = IF "HOST" \in scan.u.set THEN ParseHost(url, scan.u, scan.host)
                                                 ELSE [s |-> "host", u |-> scan.u]
  OBVIOUS
<1>3. ParseUrl(url, isConnect) = Checked(url, isConnect, scan, host, PortOf(url, host.u))
  BY <1>1, <1>2 DEF ParseUrl, Hosted, Split
<1>4. /\ scan.s # UrlDead /\ host.s \notin HostUnfinished
      /\ ParseUrl(url, isConnect).u = host.u
  BY <1>3 DEF Checked, NoUrl
<1>5. ScanInv(url, Len(url), scan) BY <1>1, <1>4, ScannedKnows
<1>6. PICK set \in SUBSET UrlParts, field \in FieldType : scan.u = [set |-> set, field |-> field]
  BY <1>5 DEF ScanInv, ScanType
<1>7. Whole(url, 0, Len(url), set, field) /\ scan.host \in HostFrom
  BY <1>5, <1>6 DEF ScanInv, ScanType
<1>8. CASE "HOST" \notin set
  <2>1. host.u.set = set /\ host.u.field = field BY <1>2, <1>6, <1>8
  <2>2. set \in SUBSET Fields BY DEF UrlParts, Fields
  <2> QED BY <1>4, <1>7, <2>1, <2>2
<1>9. CASE "HOST" \in set
  <2>1. host = ParseHost(url, scan.u, scan.host) BY <1>2, <1>6, <1>9
  <2>2. host.s # "host_dead" BY <1>4 DEF HostUnfinished
  <2>3. field.HOST.off \in Nat /\ field.HOST.len \in Nat BY DEF FieldType, Fields
  <2>4. field.HOST.off + field.HOST.len <= Len(url) BY <1>7, <1>9 DEF Whole
  <2>5. field.HOST.off + field.HOST.len < FieldRange BY <2>3, <2>4, ParserAssumption
  <2>6. HostInv(url, field.HOST.off, scan.u, field.HOST.len, host)
    BY <1>6, <1>7, <1>9, <2>1, <2>2, <2>5, HostKnows
  <2>7. Whole(url, 0, Len(url), host.u.set, host.u.field)
    BY <1>6, <1>7, <1>9, <2>6, WholeIsSplit
  <2>8. host.u.set \in SUBSET Fields BY <2>6 DEF HostInv, HostType
  <2> QED BY <1>4, <2>7, <2>8
<1> QED BY <1>8, <1>9

\* Whatever http_parser_parse_url splits is split whole: no character belongs
\* to two fields, and only delimiters belong to none.
THEOREM SplitsWhole ==
    ASSUME NEW url, Len(url) \in Nat, Len(url) < FieldRange, NEW isConnect,
           NEW split, split = ParseUrl(url, isConnect), split.ok
    PROVE  \A j \in 1..Len(url) :
               \/ Cardinality(Owners(split, j)) = 1
               \/ Owners(split, j) = {} /\ At(url, j) \in Delimiters
<1>1. PICK set, field : set = split.u.set /\ field = split.u.field OBVIOUS
<1>2. Whole(url, 0, Len(url), set, field) BY <1>1, AcceptedIsWhole
<1> TAKE j \in 1..Len(url)
<1>3. Owners(split, j) = {f \in set : Owns(field[f], j)} BY <1>1 DEF Owners, Owns
<1>4. CASE \E f \in set : Owns(field[f], j)
  <2>1. PICK f \in set : Owns(field[f], j) BY <1>4
  <2>2. Owners(split, j) = {f} BY <1>2, <1>3, <2>1 DEF Whole
  <2> QED BY <2>2, FS_Singleton
<1>5. CASE ~ \E f \in set : Owns(field[f], j) BY <1>2, <1>3, <1>5 DEF Whole
<1> QED BY <1>4, <1>5

-----------------------------------------------------------------------------
\* A target is scanned a character at a time, however it arrives.

\* A character of a text.
LEMMA AtIs ==
    ASSUME NEW Chr, NEW t \in Seq(Chr), NEW i \in 1..Len(t)
    PROVE  At(t, i) = <<t[i]>> /\ t[i] \in Chr /\ SubSeq(t, i, i) = <<t[i]>>
<1>1. Len(t) \in Nat /\ t[i] \in Chr BY LenProperties, ElementOfSeq
<1>2. At(t, i) = SubSeq(t, i, i) BY DEF At
<1>3. SubSeq(t, i, i - 1) = <<>> BY <1>1, SubSeqEmpty
<1>4. SubSeq(t, i, i) = SubSeq(t, i, i - 1) \o <<t[i]>>
  <2>1. \A k \in i..i : t[k] \in Chr BY <1>1
  <2> QED BY <1>1, <2>1, SubSeqRecursiveSecond
<1>5. <<t[i]>> \in Seq(Chr) BY <1>1
<1>6. <<>> \o <<t[i]>> = <<t[i]>> BY <1>5, ConcatEmptySeq
<1> QED BY <1>1, <1>2, <1>3, <1>4, <1>6

\* One character more of a text is read.
LEMMA ReadsOn ==
    ASSUME NEW Chr, NEW t \in Seq(Chr), NEW m \in Nat, NEW q \in Nat,
           0 < m, m <= q, q <= Len(t)
    PROVE  /\ SubSeq(t, m, q) = SubSeq(t, m, q - 1) \o <<t[q]>>
           /\ SubSeq(t, m, q) \in Seq(Chr) /\ SubSeq(t, m, q - 1) \in Seq(Chr)
<1>1. Len(t) \in Nat /\ \A k \in m..q : t[k] \in Chr
  <2>1. Len(t) \in Nat BY LenProperties
  <2> QED BY <2>1, ElementOfSeq
<1>2. SubSeq(t, m, q) = SubSeq(t, m, q - 1) \o <<t[q]>>
  BY <1>1, SubSeqRecursiveSecond
<1>3. SubSeq(t, m, q) \in Seq(Chr) BY <1>1, SubSeqProperties
<1>4. \A k \in m..(q - 1) : t[k] \in Chr BY <1>1
<1>5. SubSeq(t, m, q - 1) \in Seq(Chr) BY <1>4, SubSeqProperties
<1> QED BY <1>2, <1>3, <1>5

\* A scan keeps its shape,
Shaped(r) == r = [s |-> r.s, old |-> r.old, host |-> r.host, u |-> r.u]
LEMMA ScanIsShaped ==
    /\ \A isConnect : Shaped(UrlBegun(isConnect))
    /\ \A r, i, c : Shaped(r) =>
           Shaped(UrlNext(r, i, c)) /\ UrlNext(r, i, c).s = UrlChar(r.s, c)
<1>1. \A isConnect : Shaped(UrlBegun(isConnect)) BY DEF Shaped, UrlBegun
<1>2. ASSUME NEW r, NEW i, NEW c, Shaped(r)
      PROVE  Shaped(UrlNext(r, i, c)) /\ UrlNext(r, i, c).s = UrlChar(r.s, c)
  <2>1. PICK t : t = UrlChar(r.s, c) OBVIOUS
  <2>2. CASE UrlField(t) = "none"
    <3>1. UrlNext(r, i, c) = [r EXCEPT !.s = t] BY <2>1, <2>2 DEF UrlNext, UrlRead
    <3> QED BY <1>2, <2>1, <3>1 DEF Shaped
  <2>3. CASE UrlField(t) # "none"
    <3>1. UrlRead(r, i, t) =
              ReadBy(r, t, UrlField(t), IF t = "s_req_server_with_at" THEN "userinfo_start"
                                                                      ELSE r.host,
                     Put(r.u.field, UrlField(t),
                         IF UrlField(t) = r.old THEN Longer(r.u.field[UrlField(t)])
                                                ELSE Opened(i - 1)))
      BY <2>3, FieldReadIs
    <3>2. UrlNext(r, i, c) = UrlRead(r, i, t) BY <2>1 DEF UrlNext
    <3> QED BY <2>1, <3>1, <3>2 DEF Shaped, ReadBy
  <2> QED BY <2>2, <2>3
<1> QED BY <1>1, <1>2

\* so its state is where the last character led from where the others had led.
LEMMA ScannedOn ==
    ASSUME NEW Chr, NEW w \in Seq(Chr), NEW c \in Chr, NEW isConnect
    PROVE  Scanned(w \o <<c>>, isConnect).s = UrlChar(Scanned(w, isConnect).s, <<c>>)
<1>1. PICK n \in Nat : n = Len(w) BY LenProperties
<1>2. PICK v : v = w \o <<c>> OBVIOUS
<1>3. /\ v \in Seq(Chr) /\ Len(v) = n + 1 /\ v[n + 1] = c
      /\ \A i \in 1..n : v[i] = w[i]
  <2>1. <<c>> \in Seq(Chr) /\ Len(<<c>>) = 1 /\ <<c>>[1] = c OBVIOUS
  <2> QED BY <1>1, <1>2, <2>1, ConcatProperties
<1>4. PICK f : /\ Scanned(w, isConnect) = f[n]
               /\ f[0] = UrlBegun(isConnect)
               /\ \A i \in 0..(n - 1) : f[i + 1] = UrlNext(f[i], i + 1, At(w, i + 1))
  BY <1>1, ScannedIs
<1>5. PICK g : /\ Scanned(v, isConnect) = g[n + 1]
               /\ g[0] = UrlBegun(isConnect)
               /\ \A i \in 0..n : g[i + 1] = UrlNext(g[i], i + 1, At(v, i + 1))
  <2>1. Len(v) \in Nat /\ Len(v) - 1 = n BY <1>3
  <2>2. \E g : /\ Scanned(v, isConnect) = g[Len(v)]
               /\ g[0] = UrlBegun(isConnect)
               /\ \A i \in 0..(Len(v) - 1) : g[i + 1] = UrlNext(g[i], i + 1, At(v, i + 1))
    BY <2>1, ScannedIs
  <2> QED BY <1>3, <2>1, <2>2
<1>6. \A i \in 0..(n - 1) : At(v, i + 1) = At(w, i + 1)
  <2> TAKE i \in 0..(n - 1)
  <2>1. i + 1 \in 1..n /\ i + 1 \in 1..Len(v) /\ i + 1 \in 1..Len(w) BY <1>1, <1>3
  <2> QED BY <1>3, <2>1, AtIs
<1> DEFINE T == {i \in Nat : i <= n => g[i] = f[i] /\ Shaped(g[i])}
<1>7. 0 \in T BY <1>4, <1>5, ScanIsShaped
<1>8. ASSUME NEW i \in Nat, i \in T PROVE i + 1 \in T
  <2> SUFFICES ASSUME i + 1 <= n PROVE g[i + 1] = f[i + 1] /\ Shaped(g[i + 1])
    OBVIOUS
  <2>1. i \in 0..(n - 1) /\ i \in 0..n /\ g[i] = f[i] /\ Shaped(g[i]) BY <1>8
  <2>2. g[i + 1] = UrlNext(g[i], i + 1, At(v, i + 1)) BY <1>5, <2>1
  <2>3. f[i + 1] = UrlNext(f[i], i + 1, At(w, i + 1)) BY <1>4, <2>1
  <2>4. Shaped(g[i + 1]) BY <2>1, <2>2, ScanIsShaped
  <2> QED BY <1>6, <2>1, <2>2, <2>3, <2>4
<1>9. Nat \subseteq T
  <2> HIDE DEF T
  <2> QED BY <1>7, <1>8, NaturalInduction
<1>10. g[n] = f[n] /\ Shaped(g[n]) BY <1>9
<1>11. g[n + 1] = UrlNext(g[n], n + 1, <<c>>)
  <2>1. n + 1 \in 1..Len(v) BY <1>3
  <2>2. At(v, n + 1) = <<c>> BY <1>3, <2>1, AtIs
  <2> QED BY <1>5, <2>2
<1>12. g[n + 1].s = UrlChar(g[n].s, <<c>>) BY <1>10, <1>11, ScanIsShaped
<1> QED BY <1>2, <1>4, <1>5, <1>10, <1>12

\* Of nothing it is where it begins.
LEMMA ScannedNothing ==
    ASSUME NEW isConnect
    PROVE  Scanned(<<>>, isConnect) = UrlBegun(isConnect)
<1>1. Len(<<>>) = 0 OBVIOUS
<1> QED BY <1>1, ScannedIs

\* What begins with a path has a path, a query and a fragment at most.
PathStates == {"s_req_path", "s_req_query_string_start", "s_req_query_string",
               "s_req_fragment_start", "s_req_fragment"}
PathParts == {"PATH", "QUERY", "FRAGMENT"}
Pathlike(r) == r.s # UrlDead => r.s \in PathStates /\ r.u.set \subseteq PathParts

LEMMA PathGoesOn ==
    ASSUME NEW r, Pathlike(r), NEW i, NEW c
    PROVE  Pathlike(UrlNext(r, i, c))
<1>1. PICK t : t = UrlChar(r.s, c) OBVIOUS
<1>2. UrlNext(r, i, c) = UrlRead(r, i, t) BY <1>1 DEF UrlNext
<1>3. CASE r.s = UrlDead BY <1>3, ScanFails DEF Pathlike
<1>4. CASE r.s # UrlDead /\ t = UrlDead
  <2>1. UrlField(t) = "none" BY <1>4 DEF UrlField, UrlDead
  <2>2. UrlNext(r, i, c) = [r EXCEPT !.s = t] BY <1>2, <2>1 DEF UrlRead
  <2>3. UrlNext(r, i, c).s \in {t, r.s}
    BY <2>2
  <2> QED BY <1>4, <2>2, <2>3 DEF Pathlike
<1>5. CASE r.s # UrlDead /\ t # UrlDead
  <2>1. r.s \in PathStates /\ r.u.set \subseteq PathParts BY <1>5 DEF Pathlike
  <2>2. t \in PathStates
    BY <1>1, <1>5, <2>1, UrlCharLeads DEF PathStates
  <2>3. UrlField(t) \in PathParts \cup {"none"} BY <2>2 DEF PathStates, PathParts, UrlField
  <2>4. CASE UrlField(t) = "none"
    <3>1. UrlNext(r, i, c) = [r EXCEPT !.s = t] BY <1>2, <2>4 DEF UrlRead
    <3> QED BY <2>1, <2>2, <3>1 DEF Pathlike
  <2>5. CASE UrlField(t) # "none"
    <3>1. UrlRead(r, i, t).s = t /\ UrlRead(r, i, t).u.set = r.u.set \cup {UrlField(t)}
      BY <2>5 DEF UrlRead
    <3> QED BY <1>2, <2>1, <2>2, <2>3, <2>5, <3>1 DEF Pathlike
  <2> QED BY <2>4, <2>5
<1> QED BY <1>3, <1>4, <1>5

LEMMA PathBegins ==
    ASSUME NEW c \in {"/", "*"}
    PROVE  Pathlike(UrlNext(UrlBegun(FALSE), 1, c))
<1>1. UrlBegun(FALSE).s = "s_req_spaces_before_url" /\ UrlBegun(FALSE).u.set = {}
  BY DEF UrlBegun, NoFields
<1>2. UrlChar("s_req_spaces_before_url", c) = "s_req_path"
  BY DEF UrlChar, Blank, LineEnd, CR, LF
<1>3. UrlField("s_req_path") = "PATH" BY DEF UrlField
<1>4. UrlNext(UrlBegun(FALSE), 1, c) = UrlRead(UrlBegun(FALSE), 1, "s_req_path")
  BY <1>1, <1>2 DEF UrlNext
<1>5. /\ UrlRead(UrlBegun(FALSE), 1, "s_req_path").s = "s_req_path"
      /\ UrlRead(UrlBegun(FALSE), 1, "s_req_path").u.set = {"PATH"}
  BY <1>1, <1>3 DEF UrlRead
<1> QED BY <1>4, <1>5 DEF Pathlike, PathStates, PathParts

\* A target that begins with a path and on which the automaton did not fail is
\* split.
LEMMA PathIsSplit ==
    ASSUME NEW url, Len(url) \in Nat, At(url, 1) \in {"/", "*"},
           Scanned(url, FALSE).s # UrlDead
    PROVE  ParseUrl(url, FALSE).ok
<1>1. PICK n \in Nat : n = Len(url) OBVIOUS
<1>2. PICK scan : scan = Scanned(url, FALSE) OBVIOUS
<1>3. PICK f : /\ scan = f[n]
               /\ f[0] = UrlBegun(FALSE)
               /\ \A i \in 0..(n - 1) : f[i + 1] = UrlNext(f[i], i + 1, At(url, i + 1))
  <2>1. Len(url) = n /\ Len(url) - 1 = n - 1 BY <1>1
  <2>2. \E f : /\ Scanned(url, FALSE) = f[Len(url)]
               /\ f[0] = UrlBegun(FALSE)
               /\ \A i \in 0..(Len(url) - 1) : f[i + 1] = UrlNext(f[i], i + 1, At(url, i + 1))
    BY ScannedIs
  <2> QED BY <1>2, <2>1, <2>2
<1>4. scan.u.set \cap {"SCHEMA", "HOST", "PORT"} = {}
  <2>1. CASE n = 0 BY <1>3, <2>1 DEF UrlBegun, NoFields
  <2>2. CASE n # 0
    <3> DEFINE T == {k \in Nat : k + 1 <= n => Pathlike(f[k + 1])}
    <3>1. 0 \in T
      <4>1. 0 \in 0..(n - 1) BY <2>2
      <4>2. f[0 + 1] = UrlNext(f[0], 0 + 1, At(url, 0 + 1)) BY <1>3, <4>1
      <4>3. 0 + 1 = 1 OBVIOUS
      <4>4. f[0 + 1] = UrlNext(UrlBegun(FALSE), 1, At(url, 1)) BY <1>3, <4>2, <4>3
      <4>5. Pathlike(f[0 + 1]) BY <4>4, PathBegins
      <4> QED BY <4>5
    <3>2. ASSUME NEW k \in Nat, k \in T PROVE k + 1 \in T
      <4> SUFFICES ASSUME (k + 1) + 1 <= n PROVE Pathlike(f[(k + 1) + 1]) OBVIOUS
      <4>1. k + 1 \in 0..(n - 1) /\ Pathlike(f[k + 1]) BY <3>2
      <4>2. f[(k + 1) + 1] = UrlNext(f[k + 1], (k + 1) + 1, At(url, (k + 1) + 1))
        BY <1>3, <4>1
      <4> QED BY <4>1, <4>2, PathGoesOn
    <3>3. Nat \subseteq T
      <4> HIDE DEF T
      <4> QED BY <3>1, <3>2, NaturalInduction
    <3>4. n - 1 \in Nat /\ (n - 1) + 1 = n BY <2>2
    <3>5. Pathlike(f[n]) BY <3>3, <3>4
    <3> QED BY <1>2, <1>3, <3>5 DEF Pathlike, PathParts
  <2> QED BY <2>1, <2>2
<1>5. "SCHEMA" \notin scan.u.set /\ "HOST" \notin scan.u.set /\ "PORT" \notin scan.u.set
  BY <1>4
<1> DEFINE host == [s |-> "host", u |-> scan.u]
<1>6. ParseUrl(url, FALSE) = Split(url, FALSE, scan, host)
  BY <1>2, <1>5 DEF ParseUrl, Hosted
<1>7. PortOf(url, host.u) = 0 BY <1>5 DEF PortOf
<1>8. Checked(url, FALSE, scan, host, 0) = [ok |-> TRUE, u |-> host.u, port |-> 0]
  <2>1. host.s = "host" OBVIOUS
  <2>2. host.s \notin HostUnfinished BY <2>1 DEF HostUnfinished
  <2>3. scan.s # UrlDead BY <1>2
  <2>4. 0 <= MaxPort BY DEF MaxPort
  <2> HIDE DEF host
  <2> QED BY <1>5, <2>2, <2>3, <2>4 DEF Checked
<1>9. Split(url, FALSE, scan, host) = Checked(url, FALSE, scan, host, 0) BY <1>7 DEF Split
<1> HIDE DEF host
<1>10. PICK split : split = ParseUrl(url, FALSE) OBVIOUS
<1>11. split = [ok |-> TRUE, u |-> host.u, port |-> 0] BY <1>6, <1>8, <1>9, <1>10, Zenon
<1>12. split.ok BY <1>11
<1> QED BY <1>10, <1>12, Zenon

-----------------------------------------------------------------------------
\* What is heard of a target.  Lemma XTurns says that a step X outside of a
\* target is Ordinary or Failing, or that X keeps UrlInv.

\* What was announced is a sequence of records.
Announcements(o) == \E K, S : o \in Seq([kind : K, text : S])

\* The last that is heard once a text is heard: a text of the same kind goes on.
LEMMA HeardIs ==
    ASSUME Announcements(out), NEW kind, NEW t
    PROVE  LET h == Heard(kind, t) IN
           /\ Announcements(h) /\ h # <<>> /\ Last(h).kind = kind
           /\ Last(h).text = IF kind \in DataKinds /\ out # <<>> /\ Last(out).kind = kind
                             THEN Last(out).text \o t ELSE t
<1>1. PICK h : h = Heard(kind, t) OBVIOUS
<1>2. PICK K, S : out \in Seq([kind : K, text : S]) BY DEF Announcements
<1>3. PICK n \in Nat : n = Len(out) BY <1>2, LenProperties
<1>4. CASE kind \in DataKinds /\ out # <<>> /\ Last(out).kind = kind
  <2>1. n \in 1..n /\ Last(out) = out[n] /\ out[n] \in [kind : K, text : S]
    <3>1. n # 0 BY <1>2, <1>3, <1>4, EmptySeq
    <3>2. n \in 1..Len(out) BY <1>3, <3>1
    <3>3. out[n] \in [kind : K, text : S] BY <1>2, <3>2, ElementOfSeq
    <3> QED BY <1>3, <3>2, <3>3 DEF Last
  <2>2. PICK k \in K, x \in S : out[n] = [kind |-> k, text |-> x] BY <2>1
  <2>3. PICK y : y = x \o t OBVIOUS
  <2>4. h = [out EXCEPT ![n] = [kind |-> k, text |-> y]]
    <3>1. h = [out EXCEPT ![n] = [out[n] EXCEPT !.text = out[n].text \o t]]
      BY <1>1, <1>3, <1>4 DEF Heard
    <3>2. [out[n] EXCEPT !.text = out[n].text \o t] = [kind |-> k, text |-> y]
      <4>1. out[n].text \o t = y BY <2>2, <2>3
      <4>2. [[kind |-> k, text |-> x] EXCEPT !.text = y] = [kind |-> k, text |-> y] OBVIOUS
      <4> QED BY <2>2, <4>1, <4>2
    <3> QED BY <3>1, <3>2
  <2>5. [kind |-> k, text |-> y] \in [kind : K, text : S \cup {y}] OBVIOUS
  <2>6. out \in Seq([kind : K, text : S \cup {y}])
    <3>1. [kind : K, text : S] \subseteq [kind : K, text : S \cup {y}] OBVIOUS
    <3> QED BY <1>2, <3>1, SeqMonotonic
  <2>7. /\ h \in Seq([kind : K, text : S \cup {y}]) /\ Len(h) = n
        /\ h[n] = [kind |-> k, text |-> y]
    BY <1>3, <2>1, <2>4, <2>5, <2>6, ExceptSeq
  <2>8. h # <<>> /\ Last(h) = [kind |-> k, text |-> y]
    BY <2>1, <2>7, EmptySeq DEF Last
  <2>9. Last(h).kind = kind /\ Last(h).text = Last(out).text \o t
    BY <1>4, <2>1, <2>2, <2>3, <2>8
  <2>10. Announcements(h) BY <2>7 DEF Announcements
  <2> QED BY <1>1, <1>4, <2>8, <2>9, <2>10
<1>5. CASE ~(kind \in DataKinds /\ out # <<>> /\ Last(out).kind = kind)
  <2>1. PICK e : e = [kind |-> kind, text |-> t] OBVIOUS
  <2>2. h = Append(out, e) BY <1>1, <1>5, <2>1 DEF Heard
  <2>3. e \in [kind : K \cup {kind}, text : S \cup {t}] BY <2>1
  <2>4. out \in Seq([kind : K \cup {kind}, text : S \cup {t}])
    <3>1. [kind : K, text : S] \subseteq [kind : K \cup {kind}, text : S \cup {t}] OBVIOUS
    <3> QED BY <1>2, <3>1, SeqMonotonic
  <2>5. /\ h \in Seq([kind : K \cup {kind}, text : S \cup {t}]) /\ Len(h) = n + 1
        /\ h[n + 1] = e
    BY <1>3, <2>2, <2>3, <2>4, AppendProperties
  <2>6. h # <<>> /\ Last(h) = e BY <1>3, <2>5, EmptySeq DEF Last
  <2>7. Announcements(h) BY <2>5 DEF Announcements
  <2> QED BY <1>1, <1>5, <2>1, <2>6, <2>7
<1> QED BY <1>4, <1>5

\* What was heard of a target last, and what was read of it since.
UrlHeard == out # <<>> /\ Last(out).kind = "url"
UrlText == Last(out).text
Known == IF UrlHeard THEN UrlText ELSE <<>>
Unsaid == IF marks.url = 0 THEN <<>> ELSE SubSeq(Text_, marks.url, p - 1)
Target == Known \o Unsaid

\* Before a target nothing but the beginning of its message was heard; behind
\* it, the automaton did not fail on what was heard; inside it, it is in the
\* state it comes to on what was heard and what was read since.
Early == {"s_res_or_resp_H", "s_req_method", "s_req_spaces_before_url"}
HeardInv(Chr) ==
    /\ Announcements(out)
    /\ UrlHeard => UrlText \in Seq(Chr)
    /\ parser.state \in Early => out # <<>> /\ Last(out).kind = "message_begin"
    /\ UrlHeard /\ parser.state \notin UrlStates /\ parser.method # "CONNECT" =>
           Scanned(UrlText, FALSE).s # UrlDead
ReadInv ==
    parser.state \in UrlStates /\ parser.http_errno \in Going =>
        /\ phase = "idle" => marks.url = 0
        /\ phase \in {"byte", "fetch"} => marks.url \in 1..p
        /\ parser.method # "CONNECT" => Scanned(Target, FALSE).s = parser.state
UrlInv(Chr) == HeardInv(Chr) /\ ReadInv

\* Steps outside a target: nothing is heard of one, and a method changes only
\* before one.
Ordinary ==
    /\ parser'.state \notin UrlStates
    /\ \/ /\ out' = out
          /\ \/ parser.state \in Early
             \/ /\ parser.state \notin UrlStates /\ parser'.state \notin Early
                /\ parser'.method = parser.method
       \/ \E kind, text :
              /\ kind # "url" /\ out' = Heard(kind, text)
              /\ parser'.state \in Early => kind = "message_begin"

\* Steps that find an error.
Failing == /\ out' = out /\ parser'.state = parser.state /\ parser'.method = parser.method
           /\ parser'.http_errno \notin Going

LEMMA OrdinaryKeeps ==
    ASSUME NEW Chr, UrlInv(Chr), Ordinary \/ Failing
    PROVE  UrlInv(Chr)'
<1>1. CASE Failing
  <2>1. ReadInv' BY <1>1 DEF ReadInv, Failing
  <2>2. HeardInv(Chr)' BY <1>1 DEF UrlInv, HeardInv, Failing, UrlHeard, UrlText
  <2> QED BY <2>1, <2>2 DEF UrlInv
<1>2. CASE Ordinary
  <2>1. ReadInv' BY <1>2 DEF ReadInv, Ordinary
  <2>2. CASE /\ out' = out
             /\ \/ parser.state \in Early
                \/ /\ parser.state \notin UrlStates /\ parser'.state \notin Early
                   /\ parser'.method = parser.method
    <3>1. Announcements(out)' /\ (UrlHeard => UrlText \in Seq(Chr))'
      BY <2>2 DEF UrlInv, HeardInv, UrlHeard, UrlText
    <3>2. CASE parser.state \in Early
      <4>1. out # <<>> /\ Last(out).kind = "message_begin" BY <3>2 DEF UrlInv, HeardInv
      <4>2. out' # <<>> /\ (Last(out).kind = "message_begin")' /\ ~UrlHeard'
        BY <2>2, <4>1 DEF UrlHeard
      <4> QED BY <2>1, <3>1, <4>2 DEF UrlInv, HeardInv
    <3>3. CASE /\ parser.state \notin UrlStates /\ parser'.state \notin Early
               /\ parser'.method = parser.method
      <4>1. (UrlHeard /\ parser.state \notin UrlStates /\ parser.method # "CONNECT" =>
                 Scanned(UrlText, FALSE).s # UrlDead)'
        BY <2>2, <3>3 DEF UrlInv, HeardInv, UrlHeard, UrlText
      <4> QED BY <2>1, <3>1, <3>3, <4>1 DEF UrlInv, HeardInv
    <3> QED BY <2>2, <3>2, <3>3
  <2>3. CASE \E kind, text :
                 /\ kind # "url" /\ out' = Heard(kind, text)
                 /\ parser'.state \in Early => kind = "message_begin"
    <3>1. PICK kind, text :
              /\ kind # "url" /\ out' = Heard(kind, text)
              /\ parser'.state \in Early => kind = "message_begin"
      BY <2>3
    <3>2. Announcements(out)' /\ out' # <<>> /\ Last(out)'.kind = kind
      BY <3>1, HeardIs DEF UrlInv, HeardInv
    <3>3. ~UrlHeard' BY <3>1, <3>2 DEF UrlHeard
    <3> QED BY <2>1, <3>1, <3>2, <3>3 DEF UrlInv, HeardInv
  <2> QED BY <1>2, <2>2, <2>3 DEF Ordinary
<1> QED BY <1>1, <1>2

-----------------------------------------------------------------------------
\* How ordinary steps end.
Turn(ps) ==
    /\ ps.state \notin UrlStates
    /\ \/ parser.state \in Early
       \/ /\ parser.state \notin UrlStates /\ ps.state \notin Early
          /\ ps.method = parser.method

LEMMA TurnIsOrdinary ==
    ASSUME NEW ps, Turn(ps), parser' = ps, out' = out
    PROVE  Ordinary
BY DEF Turn, Ordinary

LEMMA ByConsume == ASSUME NEW ps, Turn(ps), Consume(ps) PROVE Ordinary
BY TurnIsOrdinary DEF Consume, Quiet

LEMMA ByReexecute == ASSUME NEW ps, Turn(ps), Reexecute(ps) PROVE Ordinary
BY TurnIsOrdinary DEF Reexecute, Quiet

LEMMA ByFail == ASSUME TypeOK, NEW errno, errno \notin Going, Fail(errno) PROVE Failing
<1>1. parser' = [parser EXCEPT !.http_errno = errno] /\ out' = out
  BY DEF Fail, Return, Quiet
<1> QED BY <1>1 DEF Failing, TypeOK, Parser

\* A pause changes neither the state nor the method.
LEMMA ResumableIs ==
    ASSUME TypeOK', NEW ps, NEW q, NEW next, NEW left, Resumable(ps, q, next, left)
    PROVE  parser'.state = ps.state /\ parser'.method = ps.method
<1>1. CASE parser' = ps BY <1>1
<1>2. CASE parser' = [ps EXCEPT !.http_errno = "PAUSED"]
  <2>1. "state" \in DOMAIN parser' /\ "method" \in DOMAIN parser' BY DEF TypeOK, Parser
  <2>2. DOMAIN parser' = DOMAIN ps BY <1>2
  <2> QED BY <1>2, <2>1, <2>2
<1> QED BY <1>1, <1>2 DEF Resumable

LEMMA ByCallback ==
    ASSUME TypeOK', NEW kind, kind # "url", NEW text, out' = Heard(kind, text),
           NEW ps, ps.state \notin UrlStates, ps.state \in Early => kind = "message_begin",
           NEW q, NEW next, NEW left, Resumable(ps, q, next, left)
    PROVE  Ordinary
BY ResumableIs DEF Ordinary

LEMMA ByNotify ==
    ASSUME TypeOK', NEW kind, kind # "url",
           NEW ps, ps.state \notin UrlStates, ps.state \in Early => kind = "message_begin",
           NEW q, NEW next, Notify(kind, ps, q, next)
    PROVE  Ordinary
BY ByCallback DEF Notify

LEMMA ByData ==
    ASSUME TypeOK', NEW kind, kind # "url", NEW ps, Turn(ps), ps.state \notin Early,
           NEW upto, NEW q, NEW next, Data(kind, upto, ps, q, next)
    PROVE  Ordinary
<1>1. ps.state \notin UrlStates BY DEF Turn
<1>2. CASE marks[kind] = 0
  <2>1. parser' = ps /\ out' = out BY <1>2 DEF Data, Quiet
  <2> QED BY <2>1, TurnIsOrdinary
<1>3. CASE marks[kind] # 0
  <2>1. PICK text, left : out' = Heard(kind, text) /\ Resumable(ps, q, next, left)
    BY <1>3 DEF Data
  <2> QED BY <1>1, <2>1, ByCallback
<1> QED BY <1>2, <1>3

\* An error that a case of the switch finds.
Refusals == {"CLOSED_CONNECTION", "INVALID_VERSION", "INVALID_STATUS",
             "INVALID_METHOD", "INVALID_URL", "LF_EXPECTED", "STRICT",
             "INVALID_HEADER_TOKEN", "INVALID_CONTENT_LENGTH",
             "INVALID_CHUNK_SIZE", "INVALID_CONSTANT"}
LEMMA ByRefusal ==
    ASSUME TypeOK, NEW errno \in Refusals, Fail(errno) PROVE Failing
<1>1. errno \notin Going BY DEF Refusals, Going
<1> QED BY <1>1, ByFail

\* States that are neither inside a target nor before one.
Outside == States \ (UrlStates \cup Early)
LEMMA OutsideStates ==
    (Bare \ Early) \cup BodyStates \cup ChunkStates \cup
        {"s_header_field", "s_header_value", "s_res_status"} \subseteq Outside
BY DEF Outside, Bare, Plain, States, BodyStates, ChunkStates, UrlStates, Early

\* A parser that another state, or the same one, outside of targets makes.
Stays(ps) == ps.state \in Outside /\ ps.method = parser.method
LEMMA StaysTurns ==
    ASSUME parser.state \in Outside, NEW ps, Stays(ps)
    PROVE  Turn(ps) /\ ps.state \notin UrlStates /\ ps.state \notin Early
BY DEF Stays, Turn, Outside

LEMMA ToStays ==
    ASSUME TypeOK, NEW state \in Outside
    PROVE  Stays(To(state)) /\ To(state).state = state
BY DEF Stays, To, TypeOK, Parser, Outside

LEMMA DeadTurns == ASSUME ParserInv, Dead PROVE Ordinary \/ Failing
<1>1. TypeOK /\ parser.state \in Outside /\ Stays(parser)
  BY OutsideStates, BareStates DEF ParserInv, TypeOK, Dead, In, Stays, Early
<1>2. Consume(parser) \/ Fail("CLOSED_CONNECTION") BY DEF Dead
<1> QED BY <1>1, <1>2, StaysTurns, ByConsume, ByRefusal DEF Refusals

LEMMA StartReqOrResTurns == ASSUME ParserInv, TypeOK', StartReqOrRes PROVE Ordinary \/ Failing
<1>1. TypeOK /\ parser.state \in Outside /\ Stays(parser)
  BY OutsideStates, BareStates DEF ParserInv, TypeOK, StartReqOrRes, In, Stays, Early
<1>2. phase = "byte" BY DEF StartReqOrRes, In
<1>3. PICK fresh : fresh = Fresh(parser) /\ fresh \in Parser /\ fresh.method = parser.method
  <2>1. Fresh(parser) \in Parser BY <1>2, Fresh_ DEF Onward
  <2>2. Fresh(parser).method = parser.method BY <1>1 DEF Fresh, Stays, Parser
  <2> QED BY <2>1, <2>2
<1>4. \/ Consume(parser)
      \/ Notify("message_begin", [fresh EXCEPT !.state = "s_res_or_resp_H"], p + 1, "fetch")
      \/ Reexecute([fresh EXCEPT !.type = "REQUEST", !.state = "s_start_req"])
  BY <1>3 DEF StartReqOrRes
<1>5. CASE Consume(parser) BY <1>1, <1>5, StaysTurns, ByConsume
<1>6. CASE Notify("message_begin", [fresh EXCEPT !.state = "s_res_or_resp_H"], p + 1, "fetch")
  <2>1. PICK ps : ps = [fresh EXCEPT !.state = "s_res_or_resp_H"] OBVIOUS
  <2>2. ps.state = "s_res_or_resp_H" BY <1>3, <2>1 DEF Parser
  <2>3. ps.state \notin UrlStates BY <2>2 DEF UrlStates
  <2> QED BY <1>6, <2>1, <2>3, ByNotify
<1>7. CASE Reexecute([fresh EXCEPT !.type = "REQUEST", !.state = "s_start_req"])
  <2>1. PICK ps : ps = [fresh EXCEPT !.type = "REQUEST", !.state = "s_start_req"] OBVIOUS
  <2>2. "s_start_req" \in Outside /\ Outside \subseteq States
    BY OutsideStates, BareStates DEF Early, Outside
  <2>3. Stays(ps) BY <1>3, <2>1, <2>2 DEF Parser, Stays
  <2> QED BY <1>1, <1>7, <2>1, <2>3, StaysTurns, ByReexecute
<1> QED BY <1>4, <1>5, <1>6, <1>7

LEMMA ResOrRespHTurns == ASSUME ParserInv, ResOrRespH PROVE Ordinary \/ Failing
<1>1. TypeOK /\ parser.state \in Early /\ parser \in Parser
  BY DEF ParserInv, TypeOK, ResOrRespH, In, Early
<1>2. \/ Consume([To("s_res_HT") EXCEPT !.type = "RESPONSE"])
      \/ Consume([To("s_req_method") EXCEPT !.type = "REQUEST", !.method = "HEAD",
                                            !.index = 2])
      \/ Fail("INVALID_CONSTANT")
  BY DEF ResOrRespH
<1>3. CASE Fail("INVALID_CONSTANT") BY <1>1, <1>3, ByRefusal DEF Refusals
<1>4. ASSUME NEW ps, Consume(ps), ps.state \in {"s_res_HT", "s_req_method"} PROVE Ordinary
  <2>1. Turn(ps) BY <1>1, <1>4 DEF Turn, UrlStates
  <2> QED BY <1>4, <2>1, ByConsume
<1>5. /\ [To("s_res_HT") EXCEPT !.type = "RESPONSE"].state = "s_res_HT"
      /\ [To("s_req_method") EXCEPT !.type = "REQUEST", !.method = "HEAD",
                                    !.index = 2].state = "s_req_method"
  BY <1>1 DEF To, Parser
<1> QED BY <1>2, <1>3, <1>4, <1>5

LEMMA StartResTurns == ASSUME ParserInv, TypeOK', StartRes PROVE Ordinary \/ Failing
<1>1. TypeOK /\ parser.state = "s_start_res" /\ parser \in Parser
  BY DEF ParserInv, TypeOK, StartRes, In
<1>2. PICK ps : ps = [Fresh(parser) EXCEPT !.state = IF ch = "H" THEN "s_res_H" ELSE @]
  OBVIOUS
<1>3. Notify("message_begin", ps, p + 1, "fetch") \/ Fail("INVALID_CONSTANT")
  BY <1>2 DEF StartRes
<1>4. ps.state \in {"s_res_H", "s_start_res"} BY <1>1, <1>2 DEF Fresh, Parser
<1>5. ps.state \notin UrlStates BY <1>4 DEF UrlStates
<1> QED BY <1>1, <1>3, <1>5, ByNotify, ByRefusal DEF Refusals

LEMMA StartReqTurns == ASSUME ParserInv, TypeOK', StartReq PROVE Ordinary \/ Failing
<1>1. TypeOK /\ parser.state \in Outside /\ Stays(parser)
  BY OutsideStates, BareStates DEF ParserInv, TypeOK, StartReq, In, Stays, Early
<1>2. PICK ps : ps = [Fresh(parser) EXCEPT !.method = FirstMethod[ch], !.index = 1,
                                           !.state = "s_req_method"]
  OBVIOUS
<1>3. \/ Consume(parser) \/ Fail("INVALID_METHOD")
      \/ Notify("message_begin", ps, p + 1, "fetch")
  BY <1>2 DEF StartReq
<1>4. ps.state = "s_req_method" BY <1>1, <1>2 DEF Stays, Fresh, Parser
<1>5. ps.state \notin UrlStates BY <1>4 DEF UrlStates
<1> QED BY <1>1, <1>3, <1>5, StaysTurns, ByConsume, ByNotify, ByRefusal DEF Refusals

LEMMA ReadStartTurns == ASSUME ParserInv, TypeOK', ReadStart PROVE Ordinary \/ Failing
BY DeadTurns, StartReqOrResTurns, ResOrRespHTurns, StartResTurns, StartReqTurns
   DEF ReadStart

\* The states of the first line, outside of its method and its target.
LineStates == DOMAIN Literal \cup
    {"s_res_first_http_major", "s_res_http_major", "s_res_first_http_minor",
     "s_res_http_minor", "s_res_first_status_code", "s_res_status_code",
     "s_res_status_start", "s_req_first_http_major", "s_req_http_major",
     "s_req_first_http_minor", "s_req_http_minor", "s_req_http_start",
     "s_req_line_almost_done", "s_header_field_start", "s_header_value_lws",
     "s_header_value_discard_lws"}
LEMMA LineIsOutside == LineStates \subseteq Outside
BY OutsideStates, BareStates DEF LineStates, Early, Literal

LEMMA BySteps ==
    ASSUME parser.state \in Outside, NEW ps, Stays(ps), Consume(ps) \/ Reexecute(ps)
    PROVE  Ordinary
BY StaysTurns, ByConsume, ByReexecute

LEMMA ToLine ==
    ASSUME TypeOK, parser.state \in Outside, NEW state \in LineStates
    PROVE  Stays(To(state)) /\ (Consume(To(state)) => Ordinary)
BY LineIsOutside, ToStays, BySteps

LEMMA ReadLiteralTurns == ASSUME ParserInv, ReadLiteral PROVE Ordinary \/ Failing
<1>1. TypeOK /\ parser.state \in Outside /\ parser.state \in DOMAIN Literal
  BY LineIsOutside DEF ParserInv, ReadLiteral, LineStates
<1>2. PICK state : state = Literal[parser.state][2] OBVIOUS
<1>3. state \in LineStates BY <1>1, <1>2 DEF Literal, LineStates
<1>4. Consume(To(state)) \/ Fail("STRICT") BY <1>2 DEF ReadLiteral, Strict
<1> QED BY <1>1, <1>3, <1>4, ToLine, ByRefusal DEF Refusals

LEMMA FirstMajorTurns == ASSUME ParserInv, FirstMajor PROVE Ordinary \/ Failing
<1>1. TypeOK /\ parser.state \in Outside /\ parser \in Parser
  BY LineIsOutside DEF ParserInv, TypeOK, FirstMajor, LineStates
<1>2. PICK ps : ps = [parser EXCEPT !.http_major = DigitValue(ch),
                          !.state = IF @ = "s_res_first_http_major"
                                    THEN "s_res_http_major" ELSE "s_req_http_major"]
  OBVIOUS
<1>3. Consume(ps) \/ Fail("INVALID_VERSION") BY <1>2 DEF FirstMajor
<1>4. ps.state \in LineStates /\ ps.method = parser.method
  BY <1>1, <1>2 DEF Parser, LineStates
<1> QED BY <1>1, <1>3, <1>4, LineIsOutside, BySteps, ByRefusal DEF Refusals, Stays

LEMMA MajorTurns == ASSUME ParserInv, Major PROVE Ordinary \/ Failing
<1>1. TypeOK /\ parser.state \in Outside /\ parser \in Parser
  BY LineIsOutside DEF ParserInv, TypeOK, Major, LineStates
<1>2. PICK state : state = IF parser.state = "s_res_http_major"
                           THEN "s_res_first_http_minor" ELSE "s_req_first_http_minor"
  OBVIOUS
<1>3. PICK ps : ps = [parser EXCEPT !.http_major = Number(parser, "http_major")] OBVIOUS
<1>4. Consume(To(state)) \/ Consume(ps) \/ Fail("INVALID_VERSION")
  BY <1>2, <1>3 DEF Major
<1>5. state \in LineStates BY <1>2 DEF LineStates
<1>6. Stays(ps) BY <1>1, <1>3 DEF Parser, Stays
<1> QED BY <1>1, <1>4, <1>5, <1>6, ToLine, BySteps, ByRefusal DEF Refusals

LEMMA FirstMinorTurns == ASSUME ParserInv, FirstMinor PROVE Ordinary \/ Failing
<1>1. TypeOK /\ parser.state \in Outside /\ parser \in Parser
  BY LineIsOutside DEF ParserInv, TypeOK, FirstMinor, LineStates
<1>2. PICK ps : ps = [parser EXCEPT !.http_minor = DigitValue(ch),
                          !.state = IF @ = "s_res_first_http_minor"
                                    THEN "s_res_http_minor" ELSE "s_req_http_minor"]
  OBVIOUS
<1>3. Consume(ps) \/ Fail("INVALID_VERSION") BY <1>2 DEF FirstMinor
<1>4. ps.state \in LineStates /\ ps.method = parser.method
  BY <1>1, <1>2 DEF Parser, LineStates
<1> QED BY <1>1, <1>3, <1>4, LineIsOutside, BySteps, ByRefusal DEF Refusals, Stays

LEMMA MinorTurns == ASSUME ParserInv, Minor PROVE Ordinary \/ Failing
<1>1. TypeOK /\ parser.state \in Outside /\ parser \in Parser
  BY LineIsOutside DEF ParserInv, TypeOK, Minor, LineStates
<1>2. PICK ps : ps = [parser EXCEPT !.http_minor = Number(parser, "http_minor")] OBVIOUS
<1>3. \/ Consume(To("s_res_first_status_code")) \/ Consume(To("s_req_line_almost_done"))
      \/ Consume(To("s_header_field_start")) \/ Consume(ps) \/ Fail("INVALID_VERSION")
  BY <1>2 DEF Minor
<1>4. {"s_res_first_status_code", "s_req_line_almost_done", "s_header_field_start"}
          \subseteq LineStates
  BY DEF LineStates
<1>5. Stays(ps) BY <1>1, <1>2 DEF Parser, Stays
<1> QED BY <1>1, <1>3, <1>4, <1>5, ToLine, BySteps, ByRefusal DEF Refusals

LEMMA FirstStatusCodeTurns == ASSUME ParserInv, FirstStatusCode PROVE Ordinary \/ Failing
<1>1. TypeOK /\ parser.state \in Outside /\ parser \in Parser
  BY LineIsOutside DEF ParserInv, TypeOK, FirstStatusCode, In, LineStates
<1>2. PICK ps : ps = [To("s_res_status_code") EXCEPT !.status_code = DigitValue(ch)]
  OBVIOUS
<1>3. Consume(ps) \/ Consume(parser) \/ Fail("INVALID_STATUS")
  BY <1>2 DEF FirstStatusCode
<1>4. ps.state \in LineStates /\ ps.method = parser.method
  BY <1>1, <1>2 DEF To, Parser, LineStates
<1>5. Stays(ps) /\ Stays(parser) BY <1>1, <1>4, LineIsOutside DEF Stays
<1> QED BY <1>1, <1>3, <1>5, BySteps, ByRefusal DEF Refusals

LEMMA StatusCodeTurns == ASSUME ParserInv, StatusCode PROVE Ordinary \/ Failing
<1>1. TypeOK /\ parser.state \in Outside /\ parser \in Parser
  BY LineIsOutside DEF ParserInv, TypeOK, StatusCode, In, LineStates
<1>2. PICK ps : ps = [parser EXCEPT !.status_code = Number(parser, "status_code")]
  OBVIOUS
<1>3. \/ Consume(To("s_res_status_start")) \/ Consume(To("s_res_line_almost_done"))
      \/ Consume(To("s_header_field_start")) \/ Consume(ps) \/ Fail("INVALID_STATUS")
  BY <1>2 DEF StatusCode
<1>4. {"s_res_status_start", "s_res_line_almost_done", "s_header_field_start"}
          \subseteq LineStates
  BY DEF LineStates, Literal
<1>5. Stays(ps) BY <1>1, <1>2 DEF Parser, Stays
<1> QED BY <1>1, <1>3, <1>4, <1>5, ToLine, BySteps, ByRefusal DEF Refusals

LEMMA StatusStartTurns == ASSUME ParserInv, StatusStart PROVE Ordinary
<1>1. TypeOK /\ parser.state \in Outside /\ parser \in Parser
  BY LineIsOutside DEF ParserInv, TypeOK, StatusStart, In, LineStates
<1>2. PICK ps : ps = [To("s_res_status") EXCEPT !.index = 0] OBVIOUS
<1>3. Consume(To(LineEnded)) \/ (parser' = ps /\ out' = out)
  BY <1>2 DEF StatusStart, Quiet
<1>4. LineEnded \in LineStates BY DEF LineEnded, LineStates, Literal
<1>5. ps.state = "s_res_status" /\ ps.method = parser.method
  BY <1>1, <1>2 DEF To, Parser
<1>6. Stays(ps) BY <1>5, OutsideStates DEF Stays
<1> QED BY <1>1, <1>3, <1>4, <1>6, ToLine, StaysTurns, TurnIsOrdinary

LEMMA StatusTurns == ASSUME ParserInv, TypeOK', Status PROVE Ordinary
<1>1. TypeOK /\ parser.state \in Outside /\ parser \in Parser
  BY OutsideStates DEF ParserInv, TypeOK, Status, In
<1>2. PICK ended : ended = To(LineEnded) OBVIOUS
<1>3. Data("status", p, ended, p + 1, "fetch") \/ Consume(parser) BY <1>2 DEF Status
<1>4. LineEnded \in LineStates BY DEF LineEnded, LineStates, Literal
<1>5. Stays(ended) BY <1>1, <1>2, <1>4, ToLine
<1>6. Stays(parser) BY <1>1 DEF Stays
<1> QED BY <1>1, <1>3, <1>5, <1>6, StaysTurns, ByData, BySteps

LEMMA HttpStartTurns == ASSUME ParserInv, HttpStart PROVE Ordinary \/ Failing
<1>1. TypeOK /\ parser.state \in Outside
  BY LineIsOutside DEF ParserInv, HttpStart, In, LineStates
<1>2. Consume(To("s_req_http_H")) \/ Consume(parser) \/ Fail("INVALID_CONSTANT")
  BY DEF HttpStart
<1>3. "s_req_http_H" \in LineStates BY DEF LineStates, Literal
<1>4. Stays(parser) BY <1>1 DEF Stays
<1> QED BY <1>1, <1>2, <1>3, <1>4, ToLine, BySteps, ByRefusal DEF Refusals

LEMMA ReqLineAlmostDoneTurns ==
    ASSUME ParserInv, ReqLineAlmostDone PROVE Ordinary \/ Failing
<1>1. TypeOK /\ parser.state \in Outside
  BY LineIsOutside DEF ParserInv, ReqLineAlmostDone, In, LineStates
<1>2. Consume(To("s_header_field_start")) \/ Fail("LF_EXPECTED") BY DEF ReqLineAlmostDone
<1>3. "s_header_field_start" \in LineStates BY DEF LineStates
<1> QED BY <1>1, <1>2, <1>3, ToLine, ByRefusal DEF Refusals

LEMMA ReqMethodTurns == ASSUME ParserInv, ReqMethod PROVE Ordinary \/ Failing
<1>1. TypeOK /\ parser.state = "s_req_method" /\ parser \in Parser
  BY DEF ParserInv, TypeOK, ReqMethod, In
<1> DEFINE Spelt(method) == [parser EXCEPT !.method = method, !.index = @ + 1]
<1>2. \/ Consume([Spelt(parser.method) EXCEPT !.state = "s_req_spaces_before_url"])
      \/ \E method : Consume(Spelt(method))
      \/ Fail("INVALID_METHOD")
  BY DEF ReqMethod
<1>3. /\ [Spelt(parser.method) EXCEPT !.state = "s_req_spaces_before_url"].state
             = "s_req_spaces_before_url"
      /\ \A method : Spelt(method).state = "s_req_method"
  BY <1>1 DEF Parser
<1>4. ASSUME NEW ps, ps.state \in Early, Consume(ps) PROVE Ordinary
  <2>1. Turn(ps) BY <1>1, <1>4 DEF Turn, Early, UrlStates
  <2> QED BY <1>4, <2>1, ByConsume
<1>5. "s_req_method" \in Early /\ "s_req_spaces_before_url" \in Early BY DEF Early
<1> HIDE DEF Spelt
<1> QED BY <1>1, <1>2, <1>3, <1>4, <1>5, ByRefusal DEF Refusals

\* The states of the fields.
FieldStates == {"s_header_field_start", "s_header_field", "s_header_value_discard_ws",
    "s_header_value_start", "s_header_value", "s_header_value_lws",
    "s_header_value_discard_lws", "s_headers_almost_done", "s_headers_done",
    "s_header_almost_done", "s_header_value_discard_ws_almost_done", "s_message_done",
    "s_chunk_size_start", "s_body_identity", "s_body_identity_eof", "s_dead",
    "s_start_req", "s_start_res"}
LEMMA FieldsAreOutside == FieldStates \subseteq Outside
BY DEF FieldStates, Outside, States, UrlStates, Early, Literal, BodyStates

\* Behind a target nothing is heard, or something else.
LEMMA BySilence ==
    ASSUME parser.state \in Outside, Stays(parser'), out' = out
    PROVE  Ordinary
BY DEF Stays, Ordinary, Outside

LEMMA ByHearing ==
    ASSUME TypeOK', NEW kind, kind # "url", NEW text, out' = Heard(kind, text),
           NEW ps, ps.state \in Outside, NEW q, NEW next, NEW left,
           Resumable(ps, q, next, left)
    PROVE  Ordinary
<1>1. ps.state \notin UrlStates /\ ps.state \notin Early BY DEF Outside
<1> QED BY <1>1, ByCallback

LEMMA ByAnnouncing ==
    ASSUME TypeOK', parser.state \in Outside, NEW kind, kind # "url", NEW ps, Stays(ps),
           NEW upto, NEW q, NEW next, Data(kind, upto, ps, q, next)
    PROVE  Ordinary
BY StaysTurns, ByData

\* Only the state, or what does not matter to a target, changes.
Kept(u, ps) == u.state = ps.state /\ u.method = ps.method
LEMMA KeptStays ==
    ASSUME NEW u, NEW ps, Kept(u, ps), Stays(ps) PROVE Stays(u)
BY DEF Kept, Stays

LEMMA ErrorKept ==
    ASSUME NEW ps \in Parser, NEW errno PROVE Kept([ps EXCEPT !.http_errno = errno], ps)
BY DEF Kept, Parser

LEMMA CountedKept == ASSUME NEW ps \in Parser, NEW v PROVE Kept(Counted(ps, v), ps)
<1>1. PICK n : n = ps.nread + v OBVIOUS
<1>2. PICK e : Counted(ps, v) = [ps EXCEPT !.nread = n, !.http_errno = e]
  BY <1>1 DEF Counted, Parser
<1> QED BY <1>2 DEF Kept, Parser

LEMMA MatchedKept == ASSUME NEW ps \in Parser PROVE Kept(Matched(ps), ps)
<1>1. PICK next : next = [ps EXCEPT !.index = @ + 1] OBVIOUS
<1>2. PICK word : word = Words[ps.header_state] OBVIOUS
<1>3. Kept(next, ps) /\ "header_state" \in DOMAIN next
      /\ "state" \in DOMAIN next /\ "method" \in DOMAIN next
  BY <1>1 DEF Kept, Parser
<1>4. Matched(ps) \in {next, [next EXCEPT !.header_state = word[3]],
                       [next EXCEPT !.header_state = word[2]]}
  BY <1>1, <1>2 DEF Matched
<1>5. \A x : Kept([next EXCEPT !.header_state = x], next) BY <1>3 DEF Kept
<1> QED BY <1>3, <1>4, <1>5 DEF Kept

LEMMA NameMatchedKept == ASSUME NEW ps \in Parser PROVE Kept(NameMatched(ps), ps)
<1> DEFINE next(c, state) == [ps EXCEPT !.index = @ + 1,
                !.header_state = IF Lower(ch) = c THEN state ELSE "h_general"]
           general == [ps EXCEPT !.header_state = "h_general"]
<1>1. \A c, state : Kept(next(c, state), ps) BY DEF Kept, Parser
<1>2. Kept(general, ps) /\ Kept(ps, ps) BY DEF Kept, Parser
<1>3. \/ NameMatched(ps) \in {ps, general, Matched(ps)}
      \/ \E c, state : NameMatched(ps) = next(c, state)
  <2>1. CASE ps.header_state \in {"h_C", "h_CO", "h_CON"}
    <3>1. \/ NameMatched(ps) = next("o", "h_CO") \/ NameMatched(ps) = next("n", "h_CON")
          \/ NameMatched(ps) = next("n", "h_matching_connection")
          \/ NameMatched(ps) = next("t", "h_matching_content_length")
      BY <2>1 DEF NameMatched, Words
    <3> HIDE DEF next
    <3> QED BY <3>1
  <2>2. CASE ps.header_state \notin {"h_C", "h_CO", "h_CON"}
    BY <2>2 DEF NameMatched, Words
  <2> QED BY <2>1, <2>2
<1> HIDE DEF next, general
<1> QED BY <1>1, <1>2, <1>3, MatchedKept

LEMMA LengthDigitKept == ASSUME NEW ps \in Parser PROVE Kept(LengthDigit(ps), ps)
<1> DEFINE longer == [ps EXCEPT !.content_length = Sum(ps, 10, DigitValue(ch))]
           wrong == [ps EXCEPT !.http_errno = "INVALID_CONTENT_LENGTH"]
<1>1. Kept(longer, ps) /\ Kept(wrong, ps) /\ Kept(ps, ps) BY DEF Kept, Parser
<1>2. LengthDigit(ps) \in {ps, longer, wrong} BY DEF LengthDigit
<1> HIDE DEF longer, wrong
<1> QED BY <1>1, <1>2

LEMMA ValueMatchedKept ==
    ASSUME NEW ps \in Parser, ps.header_state \in ValueStates \ {"h_general"}
    PROVE  Kept(ValueMatched(ps), ps)
<1> DEFINE becomes(state) == [ps EXCEPT !.header_state = state]
           again == [becomes("h_matching_connection_token_start") EXCEPT !.index = 0]
           flagged == [becomes("h_matching_connection_token_start") EXCEPT !.index = 0,
                           !.flags = @ \cup {ConnectionFlag[ps.header_state]}]
<1>1. \A state : Kept(becomes(state), ps) BY DEF Kept, Parser
<1>2. Kept(again, ps) /\ Kept(flagged, ps) /\ Kept(ps, ps) BY DEF Kept, Parser
<1>3. \/ ValueMatched(ps) \in {ps, again, flagged, LengthDigit(ps), Matched(ps)}
      \/ \E state : ValueMatched(ps) = becomes(state)
  <2>1. CASE ps.header_state = "h_matching_connection_token_start"
    <3>1. \/ ValueMatched(ps) = ps
          \/ ValueMatched(ps) = becomes("h_matching_connection_keep_alive")
          \/ ValueMatched(ps) = becomes("h_matching_connection_close")
          \/ ValueMatched(ps) = becomes("h_matching_connection_upgrade")
          \/ ValueMatched(ps) = becomes("h_matching_connection_token")
          \/ ValueMatched(ps) = becomes("h_general")
      BY <2>1 DEF ValueMatched, ConnectionFlag, Words
    <3> HIDE DEF becomes
    <3> QED BY <3>1
  <2>2. CASE ps.header_state = "h_matching_connection_token"
    BY <2>2 DEF ValueMatched, ConnectionFlag, Words
  <2>3. CASE ps.header_state = "h_transfer_encoding_chunked"
    <3>1. ValueMatched(ps) = ps \/ ValueMatched(ps) = becomes("h_general")
      BY <2>3 DEF ValueMatched, ConnectionFlag, Words
    <3> HIDE DEF becomes
    <3> QED BY <3>1
  <2>4. CASE ps.header_state \in DOMAIN ConnectionFlag
    <3>1. ValueMatched(ps) \in {ps, flagged, becomes("h_matching_connection_token")}
      BY <2>4 DEF ValueMatched, ConnectionFlag, Words
    <3> HIDE DEF becomes
    <3> QED BY <3>1
  <2>5. CASE ps.header_state = "h_content_length"
    BY <2>5 DEF ValueMatched, ConnectionFlag, Words
  <2>6. CASE ps.header_state \in DOMAIN Words
    BY <2>6 DEF ValueMatched, ConnectionFlag, Words
  <2> QED BY <2>1, <2>2, <2>3, <2>4, <2>5, <2>6 DEF ValueStates, Words
<1> HIDE DEF becomes, again, flagged
<1> QED BY <1>1, <1>2, <1>3, MatchedKept, LengthDigitKept

LEMMA ConcludedKept == ASSUME NEW ps \in Parser PROVE Kept(Concluded(ps), ps)
<1> DEFINE with(x) == [ps EXCEPT !.flags = @ \cup {x}]
<1>1. \A x : Kept(with(x), ps) BY DEF Kept, Parser
<1>2. \/ Concluded(ps) = ps \/ Concluded(ps) = with(ConnectionFlag[ps.header_state])
      \/ Concluded(ps) = with("CHUNKED")
  BY DEF Concluded
<1>3. Kept(ps, ps) BY DEF Kept
<1> HIDE DEF with
<1> QED BY <1>1, <1>2, <1>3

LEMMA ValueBegunStays ==
    ASSUME parser \in Parser PROVE Stays(ValueBegun)
<1> DEFINE value == [parser EXCEPT !.state = "s_header_value"]
           ps == [To("s_header_value") EXCEPT !.index = 0]
           becomes(state) == [ps EXCEPT !.header_state = state]
           upgrade == [becomes("h_general") EXCEPT !.flags = @ \cup {"UPGRADE"}]
           length == [ps EXCEPT !.content_length = DigitValue(ch)]
           wrong == [ps EXCEPT !.http_errno = "INVALID_CONTENT_LENGTH"]
<1>1. /\ Kept(ps, value) /\ Kept(upgrade, value) /\ Kept(length, value)
      /\ Kept(wrong, value) /\ \A state : Kept(becomes(state), value)
  BY DEF Kept, Parser, To
<1>2. Stays(value) BY FieldsAreOutside DEF Stays, Parser, FieldStates
<1>3. \/ ValueBegun \in {ps, upgrade, length, wrong}
      \/ \E state : ValueBegun = becomes(state)
  <2>1. CASE ps.header_state = "h_upgrade" BY <2>1 DEF ValueBegun
  <2>2. CASE ps.header_state = "h_content_length" BY <2>2 DEF ValueBegun
  <2>3. CASE ps.header_state = "h_matching_connection_token_start" BY <2>3 DEF ValueBegun
  <2>4. CASE ps.header_state = "h_transfer_encoding"
    <3>1. \/ ValueBegun = becomes("h_matching_transfer_encoding_chunked")
          \/ ValueBegun = becomes("h_general")
      BY <2>4 DEF ValueBegun
    <3> HIDE DEF becomes
    <3> QED BY <3>1
  <2>5. CASE ps.header_state = "h_connection"
    <3>1. \/ ValueBegun = becomes("h_matching_connection_keep_alive")
          \/ ValueBegun = becomes("h_matching_connection_close")
          \/ ValueBegun = becomes("h_matching_connection_upgrade")
          \/ ValueBegun = becomes("h_matching_connection_token")
      BY <2>5 DEF ValueBegun
    <3> HIDE DEF becomes
    <3> QED BY <3>1
  <2>6. CASE ps.header_state \notin {"h_upgrade", "h_content_length", "h_connection",
                 "h_matching_connection_token_start", "h_transfer_encoding"}
    <3>1. ValueBegun = becomes("h_general") BY <2>6 DEF ValueBegun
    <3> HIDE DEF becomes
    <3> QED BY <3>1
  <2> QED BY <2>1, <2>2, <2>3, <2>4, <2>5, <2>6
<1> HIDE DEF value, ps, becomes, upgrade, length, wrong
<1> QED BY <1>1, <1>2, <1>3, KeptStays

\* What is known of a step in a field.
LEMMA InField ==
    ASSUME ParserInv, parser.state \in FieldStates
    PROVE  /\ TypeOK /\ parser \in Parser /\ parser.state \in Outside /\ Stays(parser)
           /\ \A state \in FieldStates :
                  Stays(To(state)) /\ (Consume(To(state)) => Ordinary)
           /\ (Consume(parser) => Ordinary)
           /\ \A errno \in Refusals : Fail(errno) => Failing
<1>1. /\ TypeOK /\ parser \in Parser /\ parser.state \in Outside /\ Stays(parser)
  BY FieldsAreOutside DEF ParserInv, TypeOK, Stays
<1>2. \A state \in FieldStates : Stays(To(state)) BY <1>1, FieldsAreOutside, ToStays
<1> QED BY <1>1, <1>2, BySteps, ByRefusal

LEMMA HeaderFieldStartTurns ==
    ASSUME ParserInv, HeaderFieldStart PROVE Ordinary \/ Failing
<1>1. parser.state \in FieldStates BY DEF HeaderFieldStart, In, FieldStates
<1> DEFINE begun(state) == [To("s_header_field") EXCEPT !.index = 0, !.header_state = state]
<1>2. \/ Consume(To("s_headers_almost_done")) \/ Reexecute(To("s_headers_almost_done"))
      \/ (\E state : parser' = begun(state)) /\ out' = out
      \/ Fail("INVALID_HEADER_TOKEN")
  BY DEF HeaderFieldStart, Quiet
<1>3. \A state : Kept(begun(state), To("s_header_field"))
  BY <1>1, InField DEF Kept, To, Parser
<1>4. "s_headers_almost_done" \in FieldStates /\ "s_header_field" \in FieldStates
  BY DEF FieldStates
<1>5. \A state : Stays(begun(state)) BY <1>1, <1>3, <1>4, InField, KeptStays
<1> HIDE DEF begun
<1>6. CASE Reexecute(To("s_headers_almost_done")) BY <1>1, <1>4, <1>6, InField, BySteps
<1>7. CASE (\E state : parser' = begun(state)) /\ out' = out
  BY <1>1, <1>5, <1>7, InField, BySilence
<1> QED BY <1>1, <1>2, <1>4, <1>6, <1>7, InField DEF Refusals

LEMMA EnterLoopTurns == ASSUME ParserInv, EnterLoop PROVE Ordinary
<1>1. parser.state \in FieldStates /\ parser' = parser /\ out' = out
  BY DEF EnterLoop, FieldStates
<1> QED BY <1>1, InField, BySilence

LEMMA FieldCharTurns == ASSUME ParserInv, FieldChar PROVE Ordinary
<1>1. parser.state \in FieldStates BY DEF FieldChar, FieldStates, ParserInv, Placed
<1>2. parser' = NameMatched(parser) /\ out' = out BY DEF FieldChar, Quiet
<1> QED BY <1>1, <1>2, InField, NameMatchedKept, KeptStays, BySilence

LEMMA FieldEndTurns == ASSUME ParserInv, TypeOK', FieldEnd PROVE Ordinary
<1>1. parser.state \in FieldStates BY DEF FieldEnd, FieldStates, ParserInv, Placed
<1>2. PICK ps : ps = Counted(parser, p - start) OBVIOUS
<1>3. PICK bad : bad = [ps EXCEPT !.http_errno = "INVALID_HEADER_TOKEN"] OBVIOUS
<1>4. PICK ended : ended = [ps EXCEPT !.state = "s_header_value_discard_ws"] OBVIOUS
<1>5. \/ parser' = ps /\ out' = out
      \/ parser' = bad /\ out' = out
      \/ Data("header_field", p, ended, p + 1, "fetch")
  BY <1>2, <1>3, <1>4 DEF FieldEnd, Return, Quiet
<1>6. Stays(ps) BY <1>1, <1>2, InField, CountedKept, KeptStays
<1>7. "state" \in DOMAIN ps /\ "method" \in DOMAIN ps
  <2>1. DOMAIN ps = DOMAIN parser BY <1>2 DEF Counted
  <2> QED BY <1>1, <2>1, InField DEF Parser
<1>8. Stays(bad) BY <1>3, <1>6, <1>7 DEF Stays
<1>9. Stays(ended)
  <2>1. "s_header_value_discard_ws" \in Outside BY FieldsAreOutside DEF FieldStates
  <2> QED BY <1>4, <1>6, <1>7, <2>1 DEF Stays
<1> QED BY <1>1, <1>5, <1>6, <1>8, <1>9, InField, BySilence, ByAnnouncing

LEMMA LoopCutTurns ==
    ASSUME ParserInv, parser.state \in FieldStates, NEW q, LoopCut(q) PROVE Ordinary
<1>1. parser' = Counted(parser, q - start) /\ out' = out BY DEF LoopCut, Quiet
<1> QED BY <1>1, InField, CountedKept, KeptStays, BySilence

LEMMA BeginValueTurns ==
    ASSUME ParserInv, parser.state \in FieldStates, BeginValue PROVE Ordinary
<1>1. parser' = ValueBegun /\ out' = out BY DEF BeginValue, Return, Quiet
<1> QED BY <1>1, InField, ValueBegunStays, BySilence

LEMMA HeaderValueDiscardWsTurns ==
    ASSUME ParserInv, HeaderValueDiscardWs PROVE Ordinary
<1>1. parser.state \in FieldStates BY DEF HeaderValueDiscardWs, In, FieldStates
<1>2. \/ Consume(parser) \/ Consume(To("s_header_value_discard_ws_almost_done"))
      \/ Consume(To("s_header_value_discard_lws")) \/ BeginValue
  BY DEF HeaderValueDiscardWs
<1>3. {"s_header_value_discard_ws_almost_done", "s_header_value_discard_lws"}
          \subseteq FieldStates
  BY DEF FieldStates
<1> QED BY <1>1, <1>2, <1>3, InField, BeginValueTurns

LEMMA ValueTurns ==
    ASSUME ParserInv, TypeOK', phase = "value",
           ValueChar \/ ValueSkip \/ ValueCut \/ ValueCR \/ ValueLF
    PROVE  Ordinary
<1>1. /\ parser.state \in FieldStates /\ parser.header_state \in ValueStates
  BY DEF FieldStates, ParserInv, Placed, Sound
<1>2. CASE ValueChar
  <2>1. parser' = ValueMatched(parser) /\ out' = out /\ parser.header_state # "h_general"
    BY <1>2 DEF ValueChar, Return, Quiet
  <2> QED BY <1>1, <2>1, InField, ValueMatchedKept, KeptStays, BySilence
<1>3. CASE ValueSkip
  <2>1. parser' = parser /\ out' = out BY <1>3 DEF ValueSkip, Quiet
  <2> QED BY <1>1, <2>1, InField, BySilence
<1>4. CASE ValueCut BY <1>1, <1>4, LoopCutTurns DEF ValueCut
<1> DEFINE ended == To("s_header_almost_done")
           ps == Counted(ended, p - start)
<1>5. ended \in Parser /\ Stays(ended)
  <2>1. "s_header_almost_done" \in FieldStates /\ "s_header_almost_done" \in States
    BY DEF FieldStates, States, Literal
  <2> QED BY <1>1, <2>1, InField DEF To, Parser
<1>6. Stays(ps) BY <1>5, CountedKept, KeptStays
<1>7. CASE ValueCR
  <2>1. \E text : out' = Heard("header_value", text) BY <1>7 DEF ValueCR
  <2>2. parser' = ps \/ parser' = [ended EXCEPT !.http_errno = "PAUSED"]
    BY <1>7 DEF ValueCR, Return
  <2>3. Stays(parser')
    <3>1. Stays([ended EXCEPT !.http_errno = "PAUSED"]) BY <1>5, ErrorKept, KeptStays
    <3> HIDE DEF ended, ps
    <3> QED BY <1>6, <2>2, <3>1
  <2> QED BY <2>1, <2>3 DEF Stays, Outside, Ordinary
<1>8. CASE ValueLF
  <2>1. (parser' = ps /\ out' = out) \/ Data("header_value", p, ps, p, "byte")
    BY <1>8 DEF ValueLF, Return, Quiet
  <2> HIDE DEF ps
  <2> QED BY <1>1, <1>6, <2>1, InField, BySilence, ByAnnouncing
<1> QED BY <1>2, <1>3, <1>4, <1>7, <1>8

LEMMA HeaderValueLwsTurns == ASSUME ParserInv, HeaderValueLws PROVE Ordinary
<1>1. parser.state \in FieldStates BY DEF HeaderValueLws, In, FieldStates
<1>2. {"s_header_value_start", "s_header_field_start"} \subseteq FieldStates /\
      "s_header_field_start" \in States
  BY DEF FieldStates, States
<1>3. Stays(Concluded(To("s_header_field_start")))
  <2>1. To("s_header_field_start") \in Parser BY <1>1, <1>2, InField DEF To, Parser
  <2> QED BY <1>1, <1>2, <2>1, InField, ConcludedKept, KeptStays
<1>4. \/ Reexecute(To("s_header_value_start"))
      \/ Reexecute(Concluded(To("s_header_field_start")))
  BY DEF HeaderValueLws
<1> QED BY <1>1, <1>2, <1>3, <1>4, InField, BySteps

LEMMA HeaderValueDiscardLwsTurns ==
    ASSUME ParserInv, TypeOK', HeaderValueDiscardLws PROVE Ordinary
<1>1. parser.state \in FieldStates BY DEF HeaderValueDiscardLws, In, FieldStates
<1>2. {"s_header_value_discard_ws", "s_header_field_start"} \subseteq FieldStates /\
      "s_header_field_start" \in States
  <2>1. "s_header_value_discard_ws" \in FieldStates BY DEF FieldStates
  <2>2. "s_header_field_start" \in FieldStates BY DEF FieldStates
  <2>3. "s_header_field_start" \in States BY DEF States
  <2> QED BY <2>1, <2>2, <2>3
<1>3. PICK ps : ps = Concluded(To("s_header_field_start")) OBVIOUS
<1>4. Stays(ps)
  <2>1. To("s_header_field_start") \in Parser BY <1>1, <1>2, InField DEF To, Parser
  <2> QED BY <1>1, <1>2, <1>3, <2>1, InField, ConcludedKept, KeptStays
<1>5. \/ Consume(To("s_header_value_discard_ws"))
      \/ out' = Heard("header_value", NoText) /\ Resumable(ps, p, "byte", marks)
  BY <1>3 DEF HeaderValueDiscardLws
<1>6. ps.state \in Outside BY <1>4 DEF Stays
<1>7. CASE out' = Heard("header_value", NoText) /\ Resumable(ps, p, "byte", marks)
  BY <1>6, <1>7, ByHearing
<1> QED BY <1>1, <1>2, <1>5, <1>7, InField

LEMMA HeadersAlmostDoneTurns ==
    ASSUME ParserInv, TypeOK', HeadersAlmostDone PROVE Ordinary \/ Failing
<1>1. parser.state \in FieldStates BY DEF HeadersAlmostDone, In, FieldStates
<1>2. PICK upgrade, flags, ps :
          /\ ps = [To("s_headers_done") EXCEPT !.upgrade = upgrade, !.flags = flags]
          /\ \/ Fail("STRICT") \/ Notify("chunk_complete", To("s_message_done"), p, "byte")
             \/ Notify("headers_complete", ps, p, "byte")
  BY DEF HeadersAlmostDone
<1>3. Kept(ps, To("s_headers_done"))
  BY <1>1, <1>2, InField DEF Kept, To, Parser
<1>4. "s_headers_done" \in FieldStates /\ "s_message_done" \in FieldStates
  BY DEF FieldStates
<1>5. ps.state \in Outside /\ To("s_message_done").state \in Outside
  BY <1>1, <1>3, <1>4, InField, KeptStays DEF Stays
<1>6. PICK done : done = To("s_message_done") OBVIOUS
<1>7. CASE Fail("STRICT") BY <1>1, <1>7, InField DEF Refusals
<1>8. CASE Notify("chunk_complete", done, p, "byte")
  BY <1>5, <1>6, <1>8, ByNotify DEF Outside
<1>9. CASE Notify("headers_complete", ps, p, "byte") BY <1>5, <1>9, ByNotify DEF Outside
<1> QED BY <1>2, <1>6, <1>7, <1>8, <1>9

\* The states of bodies.
BodyPlaces == BodyStates \cup ChunkStates \cup {"s_header_field_start"}
LEMMA InBody ==
    ASSUME ParserInv, parser.state \in BodyPlaces
    PROVE  /\ TypeOK /\ parser \in Parser /\ parser.state \in Outside /\ Stays(parser)
           /\ \A state \in BodyPlaces :
                  Stays(To(state)) /\ (Consume(To(state)) => Ordinary)
           /\ (Consume(parser) => Ordinary)
           /\ \A errno \in Refusals : Fail(errno) => Failing
<1>1. BodyPlaces \subseteq Outside
  BY OutsideStates, FieldsAreOutside DEF BodyPlaces, FieldStates
<1>2. /\ TypeOK /\ parser \in Parser /\ parser.state \in Outside /\ Stays(parser)
  BY <1>1 DEF ParserInv, TypeOK, Stays
<1>3. \A state \in BodyPlaces : Stays(To(state)) BY <1>1, <1>2, ToStays
<1> QED BY <1>2, <1>3, BySteps, ByRefusal

\* Between messages and behind a body, something else than a target is heard.
LEMMA NotifyingTurns ==
    ASSUME TypeOK', NEW kind, kind # "url", NEW ps, ps.state \in Outside,
           NEW q, NEW next, Notify(kind, ps, q, next)
    PROVE  Ordinary
BY ByNotify DEF Outside

LEMMA NextMessageOutside == ASSUME NEW ps PROVE NewMessage(ps) \in Outside
BY FieldsAreOutside DEF NewMessage, FieldStates

LEMMA HeadersDoneTurns == ASSUME ParserInv, TypeOK', HeadersDone PROVE Ordinary \/ Failing
<1>1. parser.state \in FieldStates BY DEF HeadersDone, In, FieldStates
<1>2. PICK ps : ps = [parser EXCEPT !.nread = 0] OBVIOUS
<1>3. PICK done : done = [ps EXCEPT !.state = NewMessage(ps)] OBVIOUS
<1>4. PICK body : body = [ps EXCEPT !.state = IF "CHUNKED" \in ps.flags
                                THEN "s_chunk_size_start" ELSE "s_body_identity"]
  OBVIOUS
<1>5. PICK eof : eof = [ps EXCEPT !.state = "s_body_identity_eof"] OBVIOUS
<1>6. \/ Fail("STRICT") \/ \E next : Notify("message_complete", done, p + 1, next)
      \/ parser' = body /\ out' = out
      \/ parser' = eof /\ out' = out
  BY <1>2, <1>3, <1>4, <1>5 DEF HeadersDone, Quiet
<1>7. /\ done.state = NewMessage(ps) /\ body.method = parser.method
      /\ body.state \in {"s_chunk_size_start", "s_body_identity"}
      /\ eof.method = parser.method /\ eof.state = "s_body_identity_eof"
  <2>1. parser \in Parser BY <1>1, InField
  <2> QED BY <1>2, <1>3, <1>4, <1>5, <2>1 DEF Parser
<1>8. Stays(body) /\ Stays(eof) BY <1>7, FieldsAreOutside DEF Stays, FieldStates
<1>9. done.state \in Outside BY <1>7, NextMessageOutside
<1> QED BY <1>1, <1>6, <1>8, <1>9, InField, BySilence, NotifyingTurns DEF Refusals

LEMMA BodyIdentityTurns == ASSUME ParserInv, TypeOK', BodyIdentity PROVE Ordinary
<1>1. parser.state \in BodyPlaces BY DEF BodyIdentity, In, BodyPlaces, BodyStates
<1>2. PICK n, ps, done :
          /\ ps = [parser EXCEPT !.content_length = n]
          /\ done = [ps EXCEPT !.state = "s_message_done"]
          /\ \/ \E text, q : out' = Heard("body", text)
                                 /\ Resumable(done, q, "byte", marks)
             \/ parser' = ps /\ out' = out
  BY DEF BodyIdentity, Quiet
<1>3. Kept(ps, parser) /\ done.state = "s_message_done" BY <1>1, <1>2, InBody DEF Kept, Parser
<1>4. done.state \in Outside BY <1>3, FieldsAreOutside DEF FieldStates
<1>5. Stays(ps) BY <1>1, <1>3, InBody, KeptStays
<1> QED BY <1>1, <1>2, <1>4, <1>5, InBody, BySilence, ByHearing

LEMMA BodyIdentityEofTurns == ASSUME ParserInv, BodyIdentityEof PROVE Ordinary
<1>1. parser.state \in BodyPlaces BY DEF BodyIdentityEof, In, BodyPlaces, BodyStates
<1>2. parser' = parser /\ out' = out BY DEF BodyIdentityEof, Quiet
<1> QED BY <1>1, <1>2, InBody, BySilence

LEMMA MessageDoneTurns == ASSUME ParserInv, TypeOK', MessageDone PROVE Ordinary
<1>1. parser.state \in BodyPlaces BY DEF MessageDone, In, BodyPlaces, BodyStates
<1>2. PICK done, next : /\ done = To(NewMessage(parser))
                        /\ Notify("message_complete", done, p + 1, next)
  BY DEF MessageDone
<1>3. done.state \in Outside BY <1>1, <1>2, InBody, NextMessageOutside, ToStays
<1> QED BY <1>2, <1>3, NotifyingTurns

LEMMA ChunkSizeStartTurns == ASSUME ParserInv, ChunkSizeStart PROVE Ordinary \/ Failing
<1>1. parser.state \in BodyPlaces BY DEF ChunkSizeStart, In, BodyPlaces, ChunkStates
<1>2. PICK ps : ps = [To("s_chunk_size") EXCEPT !.content_length = Unhex(ch)] OBVIOUS
<1>3. Consume(ps) \/ Fail("INVALID_CHUNK_SIZE") BY <1>2 DEF ChunkSizeStart
<1>4. Kept(ps, To("s_chunk_size")) BY <1>1, <1>2, InBody DEF Kept, To, Parser
<1>5. "s_chunk_size" \in BodyPlaces BY DEF BodyPlaces, ChunkStates
<1>6. Stays(ps) BY <1>1, <1>4, <1>5, InBody, KeptStays
<1> QED BY <1>1, <1>3, <1>6, InBody, BySteps DEF Refusals

LEMMA ChunkSizeTurns == ASSUME ParserInv, ChunkSize PROVE Ordinary \/ Failing
<1>1. parser.state \in BodyPlaces BY DEF ChunkSize, In, BodyPlaces, ChunkStates
<1>2. PICK ps : ps = [parser EXCEPT !.content_length = Sum(parser, 16, Unhex(ch))]
  OBVIOUS
<1>3. \/ Consume(To("s_chunk_size_almost_done")) \/ Consume(To("s_chunk_parameters"))
      \/ Fail("INVALID_CONTENT_LENGTH") \/ Consume(ps) \/ Fail("INVALID_CHUNK_SIZE")
  BY <1>2 DEF ChunkSize
<1>4. Kept(ps, parser) BY <1>1, <1>2, InBody DEF Kept, Parser
<1>5. {"s_chunk_size_almost_done", "s_chunk_parameters"} \subseteq BodyPlaces
  BY DEF BodyPlaces, ChunkStates
<1>6. Stays(ps) BY <1>1, <1>4, InBody, KeptStays
<1> QED BY <1>1, <1>3, <1>5, <1>6, InBody, BySteps DEF Refusals

LEMMA ChunkParametersTurns == ASSUME ParserInv, ChunkParameters PROVE Ordinary
<1>1. parser.state \in BodyPlaces BY DEF ChunkParameters, In, BodyPlaces, ChunkStates
<1>2. Consume(To("s_chunk_size_almost_done")) \/ Consume(parser) BY DEF ChunkParameters
<1>3. "s_chunk_size_almost_done" \in BodyPlaces BY DEF BodyPlaces, ChunkStates
<1> QED BY <1>1, <1>2, <1>3, InBody

LEMMA ChunkSizeAlmostDoneTurns ==
    ASSUME ParserInv, TypeOK', ChunkSizeAlmostDone PROVE Ordinary \/ Failing
<1>1. parser.state \in BodyPlaces BY DEF ChunkSizeAlmostDone, In, BodyPlaces, ChunkStates
<1>2. PICK ps, flags :
          /\ \/ ps = [To("s_header_field_start") EXCEPT !.nread = 0, !.flags = flags]
             \/ ps = [To("s_chunk_data") EXCEPT !.nread = 0]
          /\ Fail("STRICT") \/ Notify("chunk_header", ps, p + 1, "fetch")
  BY DEF ChunkSizeAlmostDone
<1>3. ps.state \in {"s_header_field_start", "s_chunk_data"}
  BY <1>1, <1>2, InBody DEF To, Parser
<1>4. ps.state \in Outside BY <1>3, OutsideStates, FieldsAreOutside DEF FieldStates, ChunkStates
<1> QED BY <1>1, <1>2, <1>4, InBody, NotifyingTurns DEF Refusals

LEMMA ChunkDataTurns == ASSUME ParserInv, ChunkData PROVE Ordinary
<1>1. parser.state \in BodyPlaces BY DEF ChunkData, In, BodyPlaces, ChunkStates
<1>2. PICK n, ps : /\ ps = [parser EXCEPT !.content_length = n]
                   /\ parser' \in {ps, [ps EXCEPT !.state = "s_chunk_data_almost_done"]}
                   /\ out' = out
  BY DEF ChunkData, Quiet
<1>3. /\ Kept(ps, parser)
      /\ [ps EXCEPT !.state = "s_chunk_data_almost_done"].state = "s_chunk_data_almost_done"
      /\ [ps EXCEPT !.state = "s_chunk_data_almost_done"].method = parser.method
  BY <1>1, <1>2, InBody DEF Kept, Parser
<1>4. "s_chunk_data_almost_done" \in Outside BY OutsideStates DEF ChunkStates
<1>5. Stays(parser') BY <1>1, <1>2, <1>3, <1>4, InBody, KeptStays DEF Stays
<1> QED BY <1>1, <1>2, <1>5, InBody, BySilence

LEMMA ChunkDataAlmostDoneTurns ==
    ASSUME ParserInv, TypeOK', ChunkDataAlmostDone PROVE Ordinary \/ Failing
<1>1. parser.state \in BodyPlaces BY DEF ChunkDataAlmostDone, In, BodyPlaces, ChunkStates
<1>2. PICK ps : ps = To("s_chunk_data_done") OBVIOUS
<1>3. Data("body", p, ps, p + 1, "fetch") \/ Fail("STRICT")
  BY <1>2 DEF ChunkDataAlmostDone, Strict
<1>4. "s_chunk_data_done" \in BodyPlaces BY DEF BodyPlaces, ChunkStates
<1>5. Stays(ps) BY <1>1, <1>2, <1>4, InBody
<1> QED BY <1>1, <1>3, <1>5, InBody, ByAnnouncing DEF Refusals

LEMMA ChunkDataDoneTurns ==
    ASSUME ParserInv, TypeOK', ChunkDataDone PROVE Ordinary \/ Failing
<1>1. parser.state \in BodyPlaces BY DEF ChunkDataDone, In, BodyPlaces, ChunkStates
<1>2. PICK ps : ps = [To("s_chunk_size_start") EXCEPT !.nread = 0] OBVIOUS
<1>3. Notify("chunk_complete", ps, p + 1, "fetch") \/ Fail("STRICT")
  BY <1>2 DEF ChunkDataDone
<1>4. ps.state = "s_chunk_size_start" BY <1>1, <1>2, InBody DEF To, Parser
<1>5. ps.state \in Outside BY <1>4, OutsideStates DEF ChunkStates
<1> QED BY <1>1, <1>3, <1>5, InBody, NotifyingTurns DEF Refusals

LEMMA ReadBodyTurns == ASSUME ParserInv, TypeOK', ReadBody PROVE Ordinary \/ Failing
BY BodyIdentityTurns, BodyIdentityEofTurns, MessageDoneTurns, ChunkSizeStartTurns,
   ChunkSizeTurns, ChunkParametersTurns, ChunkSizeAlmostDoneTurns, ChunkDataTurns,
   ChunkDataAlmostDoneTurns, ChunkDataDoneTurns
   DEF ReadBody

LEMMA HeaderValueStartTurns == ASSUME ParserInv, HeaderValueStart PROVE Ordinary
<1>1. parser.state \in FieldStates /\ BeginValue BY DEF HeaderValueStart, In, FieldStates
<1> QED BY <1>1, BeginValueTurns

LEMMA ReadHeaderTurns == ASSUME ParserInv, TypeOK', ReadHeader PROVE Ordinary \/ Failing
<1>1. CASE FieldCut
  <2>1. parser.state \in FieldStates BY <1>1 DEF FieldCut, FieldStates, ParserInv, Placed
  <2> QED BY <1>1, <2>1, LoopCutTurns DEF FieldCut
<1>2. CASE ValueChar \/ ValueSkip \/ ValueCut \/ ValueCR \/ ValueLF
  <2>1. phase = "value" BY <1>2 DEF ValueChar, ValueSkip, ValueCut, ValueCR, ValueLF
  <2> QED BY <1>2, <2>1, ValueTurns
<1> QED BY <1>1, <1>2, HeaderFieldStartTurns, EnterLoopTurns, FieldCharTurns, FieldEndTurns,
           HeaderValueDiscardWsTurns, HeaderValueStartTurns, HeaderValueLwsTurns,
           HeaderValueDiscardLwsTurns, HeadersAlmostDoneTurns, HeadersDoneTurns
        DEF ReadHeader

\* The texts that arrive are sequences of characters.
Texts(Chr) == \A s \in Streams : s.text \in Seq(Chr)

\* The character at p, and what was read of a target before it.
LEMMA Here ==
    ASSUME NEW Chr, Texts(Chr), ParserInv, phase = "byte"
    PROVE  /\ Text_ \in Seq(Chr) /\ p \in 1..Len(Text_) /\ Len(Text_) \in Nat
           /\ ch = <<Text_[p]>> /\ Text_[p] \in Chr
<1>1. Text_ \in Seq(Chr) BY DEF Texts, ParserInv, TypeOK, Text_
<1>2. p \in 1..Len(Text_) /\ Len(Text_) \in Nat BY InCall
<1> QED BY <1>1, <1>2, AtIs DEF ch

LEMMA TargetIsText ==
    ASSUME NEW Chr, Texts(Chr), ParserInv, UrlInv(Chr), marks.url \in 0..p
    PROVE  /\ Text_ \in Seq(Chr) /\ p - 1 \in Int /\ p - 1 <= Len(Text_)
           /\ Known \in Seq(Chr) /\ Unsaid \in Seq(Chr) /\ Target \in Seq(Chr)
<1>1. Text_ \in Seq(Chr) BY DEF Texts, ParserInv, TypeOK, Text_
<1>2. p \in Nat /\ Len(Text_) \in Nat /\ p - 1 \in Int /\ p - 1 <= Len(Text_)
  BY EndIsNumber DEF ParserInv, TypeOK
<1>3. Known \in Seq(Chr) BY EmptySeq DEF Known, UrlInv, HeardInv
<1>4. Unsaid \in Seq(Chr)
  <2>1. CASE marks.url = 0 BY <2>1, EmptySeq DEF Unsaid
  <2>2. CASE marks.url # 0
    <3>1. marks.url \in Int /\ \A i \in marks.url..(p - 1) : i \in 1..Len(Text_)
      BY <1>2, <2>2
    <3>2. \A i \in marks.url..(p - 1) : Text_[i] \in Chr BY <1>1, <3>1, ElementOfSeq
    <3> QED BY <1>2, <2>2, <3>1, <3>2, SubSeqProperties DEF Unsaid
  <2> QED BY <2>1, <2>2
<1>5. Target \in Seq(Chr) BY <1>3, <1>4, ConcatProperties DEF Target
<1> QED BY <1>1, <1>2, <1>3, <1>4, <1>5

\* Where nothing is heard, and a target is neither begun nor read.
LEMMA Unmoved ==
    ASSUME NEW Chr, UrlInv(Chr), out' = out, Kept(parser', parser),
           parser.state \notin UrlStates
    PROVE  UrlInv(Chr)'
BY DEF UrlInv, HeardInv, ReadInv, Kept, UrlHeard, UrlText

\* What was heard stays as it was, inside a target.
LEMMA HeardInside ==
    ASSUME NEW Chr, UrlInv(Chr), out' = out, parser'.state \in UrlStates
    PROVE  HeardInv(Chr)' /\ Known' = Known
<1>1. parser'.state \notin Early BY DEF Early, UrlStates
<1> QED BY <1>1 DEF UrlInv, HeardInv, Known, UrlHeard, UrlText

\* The automaton goes on with the target.
LEMMA UrlStepTurns ==
    ASSUME NEW Chr, Texts(Chr), ParserInv, UrlInv(Chr), phase = "byte",
           parser.state \in UrlStates, UrlStep(parser.state)
    PROVE  UrlInv(Chr)'
<1>1. TypeOK /\ parser \in Parser /\ parser.http_errno \in Going
  BY DEF ParserInv, TypeOK, Placed, Going
<1>2. PICK t : t = UrlChar(parser.state, ch) OBVIOUS
<1>3. CASE t = UrlDead
  <2>1. Fail("INVALID_URL") BY <1>2, <1>3 DEF UrlStep
  <2> QED BY <1>1, <2>1, ByRefusal, OrdinaryKeeps DEF Refusals
<1>4. CASE t # UrlDead
  <2>1. Consume(To(t)) BY <1>2, <1>4 DEF UrlStep
  <2>2. t \in UrlStates BY <1>2, <1>4, UrlStays
  <2>3. /\ parser'.state = t /\ parser'.method = parser.method
        /\ out' = out /\ phase' = "fetch" /\ p' = p + 1 /\ marks' = marks
        /\ stream' = stream
    <3>1. To(t).state = t /\ To(t).method = parser.method BY <1>1 DEF To, Parser
    <3> QED BY <2>1, <3>1 DEF Consume, Quiet, Same, Steady
  <2>4. HeardInv(Chr)' /\ Known' = Known BY <2>2, <2>3, HeardInside
  <2>5. marks.url \in 1..p BY <1>1 DEF UrlInv, ReadInv
  <2>6. p \in Nat /\ marks'.url \in 1..p' /\ marks.url \in 0..p
    BY <2>3, <2>5, Here
  <2>7. (marks.url \in 1..p)' BY <2>6
  <2>8. (parser.method # "CONNECT" => Scanned(Target, FALSE).s = parser.state)'
    <3> SUFFICES ASSUME parser'.method # "CONNECT"
                 PROVE  Scanned(Target', FALSE).s = t
      BY <2>3
    <3>1. Scanned(Target, FALSE).s = parser.state
      BY <1>1, <2>3 DEF UrlInv, ReadInv
    <3>2. PICK c \in Chr : c = Text_[p] /\ ch = <<c>> BY Here
    <3>3. Unsaid' = Unsaid \o <<c>>
      <4>1. marks.url # 0 /\ marks'.url = marks.url /\ p' - 1 = p BY <2>3, <2>5, <2>6
      <4>2. Unsaid' = SubSeq(Text_, marks.url, p) BY <2>3, <4>1 DEF Unsaid, Text_
      <4>3. Unsaid = SubSeq(Text_, marks.url, p - 1) BY <4>1 DEF Unsaid
      <4>4. SubSeq(Text_, marks.url, p) = SubSeq(Text_, marks.url, p - 1) \o <<Text_[p]>>
        <5>1. /\ Text_ \in Seq(Chr) /\ marks.url \in Nat /\ p \in Nat
              /\ 0 < marks.url /\ marks.url <= p /\ p <= Len(Text_)
          BY <2>5, Here
        <5> QED BY <5>1, ReadsOn
      <4> QED BY <3>2, <4>2, <4>3, <4>4
    <3>4. Target' = Target \o <<c>>
      <4>1. Known \in Seq(Chr) /\ Unsaid \in Seq(Chr) /\ <<c>> \in Seq(Chr)
        BY <2>6, TargetIsText
      <4> QED BY <2>4, <3>3, <4>1, ConcatAssociative DEF Target
    <3>5. Scanned(Target \o <<c>>, FALSE).s = UrlChar(Scanned(Target, FALSE).s, <<c>>)
      <4>1. Target \in Seq(Chr) BY <2>6, TargetIsText
      <4> QED BY <4>1, ScannedOn
    <3> QED BY <1>2, <3>1, <3>2, <3>4, <3>5
  <2>9. ReadInv' BY <2>3, <2>7, <2>8 DEF ReadInv
  <2> QED BY <2>4, <2>9 DEF UrlInv
<1> QED BY <1>3, <1>4

LEMMA UrlBeginningTurns ==
    ASSUME NEW Chr, Texts(Chr), ParserInv, UrlInv(Chr), UrlBeginning PROVE UrlInv(Chr)'
<1>1. phase = "byte" /\ parser.state \in UrlStates /\ UrlStep(parser.state)
  BY DEF UrlBeginning, UrlStates
<1> QED BY <1>1, UrlStepTurns

\* The first character of a target.
LEMMA SpacesBeforeUrlTurns ==
    ASSUME NEW Chr, Texts(Chr), ParserInv, UrlInv(Chr), SpacesBeforeUrl
    PROVE  UrlInv(Chr)'
<1>1. /\ TypeOK /\ parser \in Parser /\ parser.state = "s_req_spaces_before_url"
      /\ phase = "byte" /\ parser.state \in Early
  BY DEF SpacesBeforeUrl, In, ParserInv, TypeOK, Early
<1>2. PICK s : s = IF parser.method = "CONNECT" THEN "s_req_server_start" ELSE parser.state
  OBVIOUS
<1>3. PICK t : t = UrlChar(s, ch) OBVIOUS
<1>4. CASE ch = " "
  <2>1. Consume(parser) BY <1>4 DEF SpacesBeforeUrl
  <2>2. Turn(parser) BY <1>1 DEF Turn, UrlStates
  <2> QED BY <2>1, <2>2, ByConsume, OrdinaryKeeps
<1>5. CASE ch # " " /\ t = UrlDead
  <2>1. Fail("INVALID_URL") BY <1>2, <1>3, <1>5 DEF SpacesBeforeUrl
  <2> QED BY <1>1, <2>1, ByRefusal, OrdinaryKeeps DEF Refusals
<1>6. CASE ch # " " /\ t # UrlDead
  <2>1. /\ parser' = To(t) /\ marks' = Marked("url") /\ p' = p + 1 /\ phase' = "fetch"
        /\ out' = out /\ stream' = stream
    BY <1>2, <1>3, <1>6 DEF SpacesBeforeUrl, Quiet, Same, Steady
  <2>2. t \in UrlStates BY <1>3, <1>6, UrlStays
  <2>3. parser'.state = t /\ parser'.method = parser.method
    BY <1>1, <2>1 DEF To, Parser
  <2>4. HeardInv(Chr)' /\ Known' = Known BY <2>1, <2>2, <2>3, HeardInside
  <2>5. p \in Nat /\ p # 0 /\ marks'.url = p
    <3>1. marks.url = 0
      <4>1. marks \in [DataKinds -> Nat] /\ MarksFit(marks, parser.state, phase)
        BY DEF ParserInv, TypeOK
      <4>2. MarkOf(parser.state, phase) # "url" /\ "url" \in DataKinds
        BY <1>1 DEF MarkOf, UrlStates, DataKinds
      <4> QED BY <4>1, <4>2 DEF MarksFit
    <3>2. marks \in [DataKinds -> Nat] /\ "url" \in DataKinds
      BY DEF ParserInv, TypeOK, DataKinds
    <3>3. p \in Nat /\ p # 0 BY <1>1, Here
    <3> QED BY <2>1, <3>1, <3>2, <3>3 DEF Marked
  <2>6. (marks.url \in 1..p)' BY <2>1, <2>5
  <2>7. (parser.method # "CONNECT" => Scanned(Target, FALSE).s = parser.state)'
    <3> SUFFICES ASSUME parser'.method # "CONNECT"
                 PROVE  Scanned(Target', FALSE).s = t
      BY <2>3
    <3>1. PICK c \in Chr : c = Text_[p] /\ ch = <<c>> BY <1>1, Here
    <3>2. Unsaid' = <<>> \o <<c>>
      <4>1. Unsaid' = SubSeq(Text_, p, p)
        <5>1. p' - 1 = p BY <2>1, <2>5
        <5> QED BY <2>1, <2>5, <5>1 DEF Unsaid, Text_
      <4>2. SubSeq(Text_, p, p) = <<c>> BY <1>1, <3>1, Here, AtIs
      <4>3. <<c>> \in Seq(Chr) OBVIOUS
      <4> QED BY <4>1, <4>2, <4>3, ConcatEmptySeq
    <3>3. Known = <<>>
      BY <1>1 DEF UrlInv, HeardInv, Known, UrlHeard
    <3>4. <<>> \in Seq(Chr) /\ <<c>> \in Seq(Chr) BY EmptySeq
    <3>5. Target' = <<>> \o <<c>>
      <4>1. Target' = <<>> \o (<<>> \o <<c>>) BY <2>4, <3>2, <3>3 DEF Target
      <4> QED BY <3>4, <4>1, ConcatAssociative, ConcatEmptySeq
    <3>6. Scanned(<<>> \o <<c>>, FALSE).s = UrlChar(Scanned(<<>>, FALSE).s, <<c>>)
      BY <3>4, ScannedOn
    <3>7. Scanned(<<>>, FALSE).s = "s_req_spaces_before_url"
      <4>1. UrlBegun(FALSE).s = "s_req_spaces_before_url" BY DEF UrlBegun
      <4> QED BY <4>1, ScannedNothing
    <3>8. s = "s_req_spaces_before_url" BY <1>1, <1>2, <2>3
    <3> QED BY <1>3, <3>1, <3>5, <3>6, <3>7, <3>8
  <2>8. ReadInv' BY <2>1, <2>3, <2>6, <2>7 DEF ReadInv
  <2> QED BY <2>4, <2>8 DEF UrlInv
<1> QED BY <1>4, <1>5, <1>6

\* What is read of a target is announced.
LEMMA TargetHeard ==
    ASSUME NEW Chr, Texts(Chr), ParserInv, UrlInv(Chr), marks.url \in 1..p,
           out' = Heard("url", SubSeq(Text_, marks.url, p - 1))
    PROVE  /\ Announcements(out)' /\ out' # <<>> /\ Last(out)'.kind = "url"
           /\ UrlHeard' /\ UrlText' = Target /\ Target \in Seq(Chr)
<1>1. marks.url # 0 /\ Unsaid = SubSeq(Text_, marks.url, p - 1)
  <2>1. marks.url # 0 OBVIOUS
  <2> QED BY <2>1 DEF Unsaid
<1>2. "url" \in DataKinds BY DEF DataKinds
<1>3. PICK t : t = Unsaid OBVIOUS
<1>4. /\ Announcements(out)' /\ out' # <<>> /\ Last(out)'.kind = "url"
      /\ Last(out)'.text = IF UrlHeard THEN UrlText \o t ELSE t
  BY <1>1, <1>2, <1>3, HeardIs DEF UrlInv, HeardInv, UrlHeard, UrlText
<1>5. /\ Known \in Seq(Chr) /\ Unsaid \in Seq(Chr) /\ Target \in Seq(Chr)
  <2>1. marks.url \in 0..p OBVIOUS
  <2> QED BY <2>1, TargetIsText
<1>6. UrlText' = Target
  <2>1. CASE UrlHeard BY <1>3, <1>4, <2>1 DEF UrlText, Target, Known
  <2>2. CASE ~UrlHeard
    <3>1. Target = <<>> \o t BY <1>3, <2>2 DEF Target, Known
    <3> QED BY <1>3, <1>4, <1>5, <2>2, <3>1, ConcatEmptySeq DEF UrlText
  <2> QED BY <2>1, <2>2
<1> QED BY <1>4, <1>5, <1>6 DEF UrlHeard

\* A target ends: the automaton did not fail on what is heard of it.
LEMMA UrlTurns ==
    ASSUME NEW Chr, Texts(Chr), ParserInv, TypeOK', UrlInv(Chr), Url PROVE UrlInv(Chr)'
<1>1. /\ phase = "byte" /\ parser.state \in UrlStates /\ TypeOK /\ parser \in Parser
      /\ parser.http_errno \in Going
  BY DEF Url, UrlStates, ParserInv, TypeOK, Placed, Going
<1>2. PICK old : old = [parser EXCEPT !.http_major = 0, !.http_minor = 9,
                            !.state = IF ch = CR THEN "s_req_line_almost_done"
                                                 ELSE "s_header_field_start"]
  OBVIOUS
<1>3. PICK line : line = To("s_req_http_start") OBVIOUS
<1>4. \/ Data("url", p, line, p + 1, "fetch") \/ Data("url", p, old, p + 1, "fetch")
      \/ UrlStep(parser.state)
  BY <1>2, <1>3 DEF Url
<1>5. ASSUME NEW ps \in {line, old}, Data("url", p, ps, p + 1, "fetch") PROVE UrlInv(Chr)'
  <2>1. /\ ps.state \in {"s_req_http_start", "s_req_line_almost_done",
                         "s_header_field_start"}
        /\ ps.method = parser.method
    BY <1>1, <1>2, <1>3, <1>5 DEF To, Parser
  <2>2. ps.state \notin UrlStates /\ ps.state \notin Early BY <2>1 DEF UrlStates, Early
  <2>3. marks.url \in 1..p BY <1>1 DEF UrlInv, ReadInv
  <2>4. marks.url # 0 BY <2>3
  <2>5. PICK left : /\ out' = Heard("url", SubSeq(Text_, marks.url, p - 1))
                    /\ Resumable(ps, p + 1, "fetch", left)
    BY <1>5, <2>4 DEF Data
  <2>6. parser'.state = ps.state /\ parser'.method = parser.method
    BY <2>1, <2>5, ResumableIs
  <2>7. /\ Announcements(out)' /\ UrlHeard' /\ UrlText' = Target /\ Target \in Seq(Chr)
    BY <2>3, <2>5, TargetHeard
  <2>8. parser'.method # "CONNECT" => Scanned(Target, FALSE).s # UrlDead
    <3> SUFFICES ASSUME parser'.method # "CONNECT"
                 PROVE  Scanned(Target, FALSE).s # UrlDead
      OBVIOUS
    <3>1. Scanned(Target, FALSE).s = parser.state BY <1>1, <2>6 DEF UrlInv, ReadInv
    <3> QED BY <1>1, <3>1 DEF UrlStates, UrlDead
  <2>9. HeardInv(Chr)' BY <2>2, <2>6, <2>7, <2>8 DEF HeardInv
  <2>10. ReadInv' BY <2>2, <2>6 DEF ReadInv
  <2> QED BY <2>9, <2>10 DEF UrlInv
<1>6. CASE UrlStep(parser.state) BY <1>1, <1>6, UrlStepTurns
<1> QED BY <1>4, <1>5, <1>6

\* A piece that begins in a target marks what it has of it.
LEMMA FetchedTurns ==
    ASSUME NEW Chr, Texts(Chr), ParserInv, UrlInv(Chr), parser.http_errno = "OK",
           NEW left, Fetched(left), out' = out, stream' = stream,
           parser.state \in UrlStates =>
               /\ left.url \in 1..p /\ marks.url \in 0..p
               /\ SubSeq(Text_, left.url, p - 1) = Unsaid
    PROVE  UrlInv(Chr)'
<1>1. TypeOK /\ parser \in Parser BY DEF ParserInv, TypeOK
<1>2. PICK ps : ps = IF ParsingHeader(parser.state) THEN Counted(parser, 1) ELSE parser
  OBVIOUS
<1>3. Kept(ps, parser) BY <1>1, <1>2, CountedKept DEF Kept
<1>4. ps.http_errno \in {"OK", "HEADER_OVERFLOW"}
  BY <1>1, <1>2 DEF Counted, Parser
<1>5. CASE ps.http_errno # "OK"
  <2>1. parser' = ps BY <1>2, <1>5 DEF Fetched, Return
  <2>2. ps.http_errno \notin Going BY <1>4, <1>5 DEF Going
  <2>3. Failing BY <1>3, <2>1, <2>2 DEF Failing, Kept
  <2> QED BY <2>3, OrdinaryKeeps
<1>6. CASE ps.http_errno = "OK"
  <2>1. parser' = ps /\ phase' = "byte" /\ p' = p /\ marks' = left
    BY <1>2, <1>6 DEF Fetched
  <2>2. CASE parser.state \notin UrlStates BY <1>3, <2>1, <2>2, Unmoved
  <2>3. CASE parser.state \in UrlStates
    <3>1. parser'.state = parser.state /\ parser'.method = parser.method
      BY <1>3, <2>1 DEF Kept
    <3>2. HeardInv(Chr)' /\ Known' = Known BY <2>3, <3>1, HeardInside
    <3>3. left.url \in 1..p /\ left.url # 0 BY <2>3
    <3>4. Unsaid' = Unsaid BY <2>1, <2>3, <3>3 DEF Unsaid, Text_
    <3>5. Target' = Target BY <3>2, <3>4 DEF Target
    <3>6. (marks.url \in 1..p)' BY <2>1, <3>3
    <3>7. parser.method # "CONNECT" => Scanned(Target, FALSE).s = parser.state
      BY <2>3 DEF UrlInv, ReadInv, Going
    <3>8. ReadInv' BY <2>1, <3>1, <3>5, <3>6, <3>7 DEF ReadInv
    <3> QED BY <3>2, <3>8 DEF UrlInv
  <2> QED BY <2>2, <2>3
<1> QED BY <1>5, <1>6

LEMMA ExecuteTurns ==
    ASSUME NEW Chr, Texts(Chr), ParserInv, UrlInv(Chr), Execute PROVE UrlInv(Chr)'
<1>1. /\ phase = "idle" /\ parser.http_errno = "OK" /\ Fetched(TakenUp(parser.state))
      /\ out' = out /\ stream' = stream
  BY DEF Execute, Quiet, Same, Steady
<1>2. PICK left : left = TakenUp(parser.state) OBVIOUS
<1>3. ASSUME parser.state \in UrlStates
      PROVE  /\ left.url \in 1..p /\ marks.url \in 0..p
             /\ SubSeq(Text_, left.url, p - 1) = Unsaid
  <2>1. left.url = p
    <3>1. parser.state \notin {"s_header_field", "s_header_value"}
      BY <1>3 DEF UrlStates
    <3> QED BY <1>2, <1>3, <3>1 DEF TakenUp, NoMarks, DataKinds
  <2>2. p \in Nat /\ p # 0 BY EndIsNumber DEF ParserInv, TypeOK
  <2>3. marks.url = 0 BY <1>1, <1>3 DEF UrlInv, ReadInv, Going
  <2>4. SubSeq(Text_, p, p - 1) = <<>> BY <2>2, SubSeqEmpty
  <2> QED BY <2>1, <2>2, <2>3, <2>4 DEF Unsaid
<1> QED BY <1>1, <1>2, <1>3, FetchedTurns

LEMMA FetchTurns ==
    ASSUME NEW Chr, Texts(Chr), ParserInv, UrlInv(Chr), Fetch PROVE UrlInv(Chr)'
<1>1. /\ phase = "fetch" /\ parser.http_errno = "OK" /\ Fetched(marks)
      /\ out' = out /\ stream' = stream
  BY DEF Fetch, Quiet, Same, Steady, ParserInv, Placed
<1>2. PICK left : left = marks OBVIOUS
<1>3. ASSUME parser.state \in UrlStates
      PROVE  /\ left.url \in 1..p /\ marks.url \in 0..p
             /\ SubSeq(Text_, left.url, p - 1) = Unsaid
  <2>1. marks.url \in 1..p BY <1>1, <1>3 DEF UrlInv, ReadInv, Going
  <2>2. marks.url # 0 /\ marks.url \in 0..p BY <2>1
  <2>3. SubSeq(Text_, marks.url, p - 1) = Unsaid BY <2>2 DEF Unsaid
  <2> QED BY <1>2, <2>1, <2>2, <2>3
<1> QED BY <1>1, <1>2, <1>3, FetchedTurns

\* Where a piece ends in a target, what it had of it is heard.
LEMMA LeftoverTurns ==
    ASSUME NEW Chr, Texts(Chr), ParserInv, TypeOK', UrlInv(Chr), Leftover
    PROVE  UrlInv(Chr)'
<1>1. /\ TypeOK /\ parser \in Parser /\ parser.http_errno = "OK"
      /\ MarksFit(marks, parser.state, phase) /\ marks \in [DataKinds -> Nat]
      /\ phase \in {"cut", "fetch"} /\ stream' = stream
  BY DEF ParserInv, TypeOK, Placed, Leftover
<1>2. ASSUME parser.state \in UrlStates
      PROVE  phase = "fetch" /\ marks.url \in 1..p /\ marks.url # 0
  <2>1. phase = "fetch" BY <1>1, <1>2 DEF ParserInv, Placed, UrlStates
  <2>2. marks.url \in 1..p BY <1>1, <1>2, <2>1 DEF UrlInv, ReadInv, Going
  <2> QED BY <2>1, <2>2
<1>3. CASE \E kind \in DataKinds : marks[kind] # 0
  <2>1. PICK kind \in DataKinds : marks[kind] # 0 /\ Data(kind, p, parser, p, "idle")
    BY <1>3 DEF Leftover
  <2>2. kind = MarkOf(parser.state, phase) BY <1>1, <2>1 DEF MarksFit
  <2>3. CASE parser.state \notin UrlStates
    <3>1. kind # "url" /\ parser.state \notin Early
      BY <2>1, <2>2, <2>3 DEF MarkOf, Early, DataKinds
    <3>2. Turn(parser) BY <2>3, <3>1 DEF Turn
    <3>3. Ordinary BY <2>1, <3>1, <3>2, ByData
    <3> QED BY <3>3, OrdinaryKeeps
  <2>4. CASE parser.state \in UrlStates
    <3>1. kind = "url" BY <2>2, <2>4, UrlMarked
    <3>2. marks.url \in 1..p /\ marks.url # 0 BY <1>2, <2>4
    <3>3. PICK left : /\ left = [marks EXCEPT !["url"] = 0]
                      /\ out' = Heard("url", SubSeq(Text_, marks.url, p - 1))
                      /\ Resumable(parser, p, "idle", left)
      BY <2>1, <3>1, <3>2 DEF Data
    <3>4. parser'.state = parser.state /\ parser'.method = parser.method
      BY <3>3, ResumableIs
    <3>5. /\ Announcements(out)' /\ UrlHeard' /\ UrlText' = Target /\ Target \in Seq(Chr)
      BY <3>2, <3>3, TargetHeard
    <3>6. HeardInv(Chr)'
      <4>1. parser'.state \notin Early /\ parser'.state \in UrlStates
        BY <2>4, <3>4 DEF UrlStates, Early
      <4> QED BY <3>5, <4>1 DEF HeardInv
    <3>7. phase' = "idle" /\ marks'.url = 0
      <4>1. "url" \in DataKinds BY DEF DataKinds
      <4>2. left.url = 0 /\ NoMarks.url = 0 BY <1>1, <3>3, <4>1 DEF NoMarks
      <4> QED BY <3>3, <4>2 DEF Resumable
    <3>8. Target' = Target
      <4>1. Known' = Target /\ Unsaid' = <<>> BY <3>5, <3>7 DEF Known, Unsaid
      <4> QED BY <3>5, <4>1, ConcatEmptySeq DEF Target
    <3>9. parser.method # "CONNECT" => Scanned(Target, FALSE).s = parser.state
      BY <1>1, <2>4 DEF UrlInv, ReadInv, Going
    <3>10. ReadInv' BY <3>4, <3>7, <3>8, <3>9 DEF ReadInv
    <3> QED BY <3>6, <3>10 DEF UrlInv
  <2> QED BY <2>3, <2>4
<1>4. CASE ~\E kind \in DataKinds : marks[kind] # 0
  <2>1. parser' = parser /\ out' = out BY <1>4 DEF Leftover, Return, Quiet
  <2>2. "url" \in DataKinds BY DEF DataKinds
  <2>3. parser.state \notin UrlStates BY <1>2, <1>4, <2>2
  <2> QED BY <2>1, <2>3, Unmoved DEF Kept
<1> QED BY <1>3, <1>4

\* A paused parser goes on where it was.
LEMMA ResumeTurns ==
    ASSUME NEW Chr, ParserInv, UrlInv(Chr), Resume PROVE UrlInv(Chr)'
<1>1. /\ parser' = [parser EXCEPT !.http_errno = "OK"] /\ parser.http_errno \in Going
      /\ UNCHANGED <<stream, p, phase, marks, out>>
  BY DEF Resume, Going
<1>2. Kept(parser', parser) BY <1>1, ErrorKept DEF ParserInv, TypeOK
<1>3. CASE parser.state \notin UrlStates BY <1>1, <1>2, <1>3, Unmoved
<1>4. CASE parser.state \in UrlStates
  <2>1. HeardInv(Chr)' /\ Known' = Known BY <1>1, <1>2, <1>4, HeardInside DEF Kept
  <2>2. Target' = Target BY <1>1, <2>1 DEF Target, Unsaid, Text_
  <2>3. ReadInv' BY <1>1, <1>2, <1>4, <2>2 DEF UrlInv, ReadInv, Kept
  <2> QED BY <2>1, <2>3 DEF UrlInv
<1> QED BY <1>3, <1>4

LEMMA EofTurns == ASSUME NEW Chr, ParserInv, TypeOK', UrlInv(Chr), Eof PROVE UrlInv(Chr)'
<1>1. TypeOK /\ parser \in Parser BY DEF ParserInv, TypeOK
<1>2. \/ parser.state = "s_body_identity_eof" /\ Notify("message_complete", parser, p, "closed")
      \/ /\ parser.state \in {"s_dead", "s_start_req_or_res", "s_start_res", "s_start_req"}
         /\ parser' = parser /\ out' = out
      \/ parser' = [parser EXCEPT !.http_errno = "INVALID_EOF_STATE"] /\ out' = out
  BY DEF Eof, Quiet
<1>3. CASE parser.state = "s_body_identity_eof" /\ Notify("message_complete", parser, p, "closed")
  <2>1. parser.state \notin UrlStates /\ parser.state \notin Early
    BY <1>3 DEF UrlStates, Early
  <2>2. Ordinary BY <1>3, <2>1, ByNotify
  <2> QED BY <2>2, OrdinaryKeeps
<1>4. CASE /\ parser.state \in {"s_dead", "s_start_req_or_res", "s_start_res", "s_start_req"}
           /\ parser' = parser /\ out' = out
  <2>1. parser.state \notin UrlStates BY <1>4 DEF UrlStates
  <2> QED BY <1>4, <2>1, Unmoved DEF Kept
<1>5. CASE parser' = [parser EXCEPT !.http_errno = "INVALID_EOF_STATE"] /\ out' = out
  <2>1. Failing BY <1>1, <1>5 DEF Failing, Parser, Going
  <2> QED BY <2>1, OrdinaryKeeps
<1> QED BY <1>2, <1>3, <1>4, <1>5

-----------------------------------------------------------------------------
LEMMA UrlInitHolds == ASSUME NEW Chr, Init PROVE UrlInv(Chr)
<1>1. parser.state = StartState(stream.type) /\ out = <<>> /\ stream \in Streams
  BY DEF Init, ParserInit
<1>2. parser.state \in {"s_start_req", "s_start_res", "s_start_req_or_res"}
  BY <1>1, StreamsAssumption DEF StartState
<1>3. parser.state \notin UrlStates /\ parser.state \notin Early
  BY <1>2 DEF UrlStates, Early
<1>4. Announcements(out) BY <1>1, EmptySeq DEF Announcements
<1> QED BY <1>1, <1>3, <1>4 DEF UrlInv, HeardInv, ReadInv, UrlHeard

LEMMA UrlNextKeeps ==
    ASSUME NEW Chr, Texts(Chr), ParserInv, TypeOK', UrlInv(Chr), [Next]_vars
    PROVE  UrlInv(Chr)'
<1>1. CASE ReadStart BY <1>1, ReadStartTurns, OrdinaryKeeps
<1>2. CASE ReadHeader BY <1>2, ReadHeaderTurns, OrdinaryKeeps
<1>3. CASE ReadBody BY <1>3, ReadBodyTurns, OrdinaryKeeps
<1>4. CASE ReadFirstLine
  <2>1. CASE SpacesBeforeUrl BY <2>1, SpacesBeforeUrlTurns
  <2>2. CASE UrlBeginning BY <2>2, UrlBeginningTurns
  <2>3. CASE Url BY <2>3, UrlTurns
  <2>4. CASE ~(SpacesBeforeUrl \/ UrlBeginning \/ Url)
    <3>1. Ordinary \/ Failing
      BY <1>4, <2>4, ReadLiteralTurns, FirstMajorTurns, MajorTurns, FirstMinorTurns,
         MinorTurns, FirstStatusCodeTurns, StatusCodeTurns, StatusStartTurns, StatusTurns,
         ReqMethodTurns, HttpStartTurns, ReqLineAlmostDoneTurns
      DEF ReadFirstLine
    <3> QED BY <3>1, OrdinaryKeeps
  <2> QED BY <2>1, <2>2, <2>3, <2>4
<1>5. CASE UNCHANGED vars
  <2>1. UNCHANGED <<stream, parser, p, phase, marks, out>> BY <1>5 DEF vars
  <2>2. HeardInv(Chr)' BY <2>1 DEF UrlInv, HeardInv, UrlHeard, UrlText
  <2>3. Target' = Target BY <2>1 DEF Target, Known, Unsaid, UrlHeard, UrlText, Text_
  <2>4. ReadInv' BY <2>1, <2>3 DEF UrlInv, ReadInv
  <2> QED BY <2>2, <2>4 DEF UrlInv
<1> QED BY <1>1, <1>2, <1>3, <1>4, <1>5, ExecuteTurns, FetchTurns, LeftoverTurns,
           ResumeTurns, EofTurns
        DEF Next

\* What is heard of a target that was accepted is split whole.
LEMMA AcceptedIsSplitWhole ==
    ASSUME NEW Chr, Texts(Chr), ParserInv, UrlInv(Chr) PROVE AcceptedUrlIsSplit
<1> SUFFICES ASSUME UrlHeard,
                    parser.state \in {"s_req_http_start", "s_req_line_almost_done",
                                      "s_header_field_start"},
                    NEW url, url = UrlText, Len(url) < FieldRange,
                    NEW isConnect, isConnect = (parser.method = "CONNECT")
             PROVE  SplitWhole(url, isConnect, ParseUrl(url, isConnect))
  BY DEF AcceptedUrlIsSplit, UrlHeard, UrlText
<1>1. Len(url) \in Nat
  <2>1. url \in Seq(Chr) BY DEF UrlInv, HeardInv
  <2> QED BY <2>1, LenProperties
<1>2. PICK split : split = ParseUrl(url, isConnect) OBVIOUS
<1>3. split.ok => \A j \in 1..Len(url) :
           \/ Cardinality(Owners(split, j)) = 1
           \/ Owners(split, j) = {} /\ At(url, j) \in {":", "/", "?", "#", "@", "[", "]"}
  BY <1>1, <1>2, SplitsWhole DEF Delimiters
<1>4. ASSUME At(url, 1) \in {"/", "*"}, ~isConnect PROVE split.ok
  <2>1. parser.method # "CONNECT" /\ parser.state \notin UrlStates
    BY <1>4 DEF UrlStates
  <2>2. Scanned(url, FALSE).s # UrlDead BY <2>1 DEF UrlInv, HeardInv
  <2>3. ParseUrl(url, FALSE).ok BY <1>1, <1>4, <2>2, PathIsSplit
  <2>4. isConnect = FALSE BY <1>4, <2>1
  <2> QED BY <1>2, <2>3, <2>4, Zenon
<1> QED BY <1>2, <1>3, <1>4 DEF SplitWhole

\* Wherever a stream is cut and the parser paused, and whatever was heard before:
\* a target that http_parser_execute took as a whole is split whole by
\* http_parser_parse_url if that accepts it, which it does for every path outside
\* of CONNECT.  Chr is any set of characters: a string is a sequence of them,
\* which the provers have to be told of the texts that arrive.
THEOREM UrlCorrect ==
    ASSUME NEW Chr, \A s \in Streams : s.text \in Seq(Chr)
    PROVE  Spec => []AcceptedUrlIsSplit
<1>1. Texts(Chr) BY DEF Texts
<1>2. ASSUME Init PROVE UrlInv(Chr) BY <1>2, UrlInitHolds
<1>3. ASSUME ParserInv, ParserInv', UrlInv(Chr), [Next]_vars PROVE UrlInv(Chr)'
  BY <1>1, <1>3, UrlNextKeeps DEF ParserInv
<1>4. ASSUME ParserInv, UrlInv(Chr) PROVE AcceptedUrlIsSplit
  BY <1>1, <1>4, AcceptedIsSplitWhole
<1> QED BY <1>2, <1>3, <1>4, InvariantCorrect, PTL DEF Spec
=============================================================================
