------------------------------ MODULE HttpUrl ------------------------------
(***************************************************************************)
(* The URL automaton of parser.c, which http_parser_execute runs over a    *)
(* request's target and http_parser_parse_url over a whole URL, and the    *)
(* automaton for the host part.                                            *)
(***************************************************************************)
EXTENDS HttpChars

CONSTANT
    FieldRange    \* the offset and the length of a field are kept modulo this

UrlDead == "s_dead"

\* Where each character leads; what is not listed leads to s_dead.
UrlChar(s, ch) ==
    CASE ch \in Blank \cup LineEnd \cup {"\f"} -> UrlDead
      [] s = "s_req_spaces_before_url" /\ ch \in {"/", "*"} -> "s_req_path"
      [] s = "s_req_spaces_before_url" /\ ch \in IsAlpha \ {"/", "*"} -> "s_req_schema"
      [] s = "s_req_schema" /\ ch \in IsAlpha -> "s_req_schema"
      [] s = "s_req_schema" /\ ch = ":" -> "s_req_schema_slash"
      [] s = "s_req_schema_slash" /\ ch = "/" -> "s_req_schema_slash_slash"
      [] s = "s_req_schema_slash_slash" /\ ch = "/" -> "s_req_server_start"
      [] s = "s_req_server_with_at" /\ ch = "@" -> UrlDead
      [] s \in {"s_req_server_start", "s_req_server"}
             \/ (s = "s_req_server_with_at" /\ ch # "@") ->
             CASE ch = "/" -> "s_req_path"
               [] ch = "?" -> "s_req_query_string_start"
               [] ch = "@" -> "s_req_server_with_at"
               [] ch \in IsUserInfoChar \cup {"[", "]"} -> "s_req_server"
               [] OTHER -> UrlDead
      [] s = "s_req_path" ->
             CASE ch \in IsUrlChar -> "s_req_path"
               [] ch = "?" -> "s_req_query_string_start"
               [] ch = "#" -> "s_req_fragment_start"
               [] OTHER -> UrlDead
      [] s \in {"s_req_query_string_start", "s_req_query_string"} ->
             CASE ch \in IsUrlChar \cup {"?"} -> "s_req_query_string"
               [] ch = "#" -> "s_req_fragment_start"
               [] OTHER -> UrlDead
      [] s = "s_req_fragment_start" /\ ch = "#" -> "s_req_fragment_start"
      [] s = "s_req_fragment_start" /\ ch \in IsUrlChar \cup {"?"} -> "s_req_fragment"
      [] s = "s_req_fragment" /\ ch \in IsUrlChar \cup {"?", "#"} -> "s_req_fragment"
      [] OTHER -> UrlDead

-----------------------------------------------------------------------------
\* The host part.

HostChar(s, ch) ==
    CASE s \in {"userinfo_start", "userinfo"} /\ ch = "@" -> "host_start"
      [] s \in {"userinfo_start", "userinfo"} /\ ch \in IsUserInfoChar -> "userinfo"
      [] s = "host_start" /\ ch = "[" -> "v6_start"
      [] s \in {"host_start", "host"} /\ ch \in IsHostChar -> "host"
      [] s \in {"host", "v6_end"} /\ ch = ":" -> "port_start"
      [] s \in {"v6", "v6_zone"} /\ ch = "]" -> "v6_end"
      [] s \in {"v6_start", "v6"} /\ ch \in IsHex \cup {":", "."} -> "v6"
      [] s = "v6" /\ ch = "%" -> "v6_zone_start"
      [] s \in {"v6_zone_start", "v6_zone"}
             /\ ch \in IsAlphaNum \cup {"%", ".", "-", "_", "~"} -> "v6_zone"
      [] s \in {"port_start", "port"} /\ ch \in IsNum -> "port"
      [] OTHER -> "host_dead"

\* States in which a host may not end.
HostUnfinished == {"host_start", "v6_start", "v6", "v6_zone_start", "v6_zone",
                   "port_start", "userinfo", "userinfo_start", "host_dead"}

\* A field is where it starts, counted from 0, and how long it is.
Fields == {"SCHEMA", "HOST", "PORT", "PATH", "QUERY", "FRAGMENT", "USERINFO"}
NoField == [off |-> 0, len |-> 0]
WrongOpened(off) == [off |-> off % FieldRange, len |-> 0]
Opened(off) == [off |-> off % FieldRange, len |-> 1]
Longer(field) == [field EXCEPT !.len = (@ + 1) % FieldRange]
Text(url, field) == SubSeq(url, field.off + 1, field.off + field.len)

\* The field a character of the host part belongs to, and whether it is one of
\* the delimiters between them.
HostField(s) == CASE s \in {"host", "v6", "v6_zone_start", "v6_zone"} -> "HOST"
                  [] s = "port" -> "PORT"
                  [] s = "userinfo" -> "USERINFO"
                  [] OTHER -> "none"

\* The loop of http_parse_host, behind the i-th character of the authority.
\* A zone prolongs the address it follows.
HostRead(off, was, i, s) ==
    [s |-> s,
     u |-> IF HostField(s) = "none" THEN was.u
           ELSE [set |-> was.u.set \cup {HostField(s)},
                 field |-> [was.u.field EXCEPT ![HostField(s)] =
                     IF s \in {was.s, "v6_zone_start", "v6_zone"} THEN Longer(@)
                                                                  ELSE Opened(off + i - 1)]]]

\* http_parse_host from state s, for fields u of which HOST spans the whole
\* authority: the state it ends in, and the fields.
HostBegun(u, s) == [s |-> s, u |-> [u EXCEPT !.field.HOST.len = 0]]
HostStep(off, was, i, c) == HostRead(off, was, i, HostChar(was.s, c))
ParseHost(url, u, s) ==
    LET off == u.field.HOST.off
        upto[i \in 0..u.field.HOST.len] ==
            IF i = 0 THEN HostBegun(u, s)
                     ELSE HostStep(off, upto[i - 1], i, At(url, off + i))
    IN  upto[u.field.HOST.len]

\* The field a state of the URL automaton belongs to; delimiters to none.
UrlField(s) == CASE s = "s_req_schema" -> "SCHEMA"
                 [] s \in {"s_req_server", "s_req_server_with_at"} -> "HOST"
                 [] s = "s_req_path" -> "PATH"
                 [] s = "s_req_query_string" -> "QUERY"
                 [] s = "s_req_fragment" -> "FRAGMENT"
                 [] OTHER -> "none"

\* The loop of http_parser_parse_url: the fields before the host is split, and
\* the state the host will be read from, which knows if an @ was met.
UrlRead(was, i, s) ==
    IF UrlField(s) = "none" THEN [was EXCEPT !.s = s]
    ELSE [s |-> s, old |-> UrlField(s),
          host |-> IF s = "s_req_server_with_at" THEN "userinfo_start" ELSE was.host,
          u |-> [set |-> was.u.set \cup {UrlField(s)},
                 field |-> [was.u.field EXCEPT ![UrlField(s)] =
                     IF UrlField(s) = was.old THEN Longer(@) ELSE Opened(i - 1)]]]
NoFields == [set |-> {}, field |-> [f \in Fields |-> NoField]]
UrlBegun(isConnect) ==
    [s |-> IF isConnect THEN "s_req_server_start" ELSE "s_req_spaces_before_url",
     old |-> "none", host |-> "host_start", u |-> NoFields]
UrlNext(was, i, c) == UrlRead(was, i, UrlChar(was.s, c))
Scanned(url, isConnect) ==
    LET upto[i \in 0..Len(url)] ==
            IF i = 0 THEN UrlBegun(isConnect) ELSE UrlNext(upto[i - 1], i, At(url, i))
    IN  upto[Len(url)]

MaxPort == 65535
PortOf(url, u) == IF "PORT" \in u.set THEN NumberOf(Text(url, u.field.PORT)) ELSE 0

\* The checks behind the loops; the port counts only with PORT set.
NoUrl == [ok |-> FALSE, u |-> NoFields, port |-> 0]
Checked(url, isConnect, scan, host, port) ==
    IF /\ scan.s # UrlDead
       /\ "SCHEMA" \in scan.u.set => "HOST" \in scan.u.set
       /\ host.s \notin HostUnfinished
       /\ isConnect => host.u.set = {"HOST", "PORT"}
       /\ port <= MaxPort
    THEN [ok |-> TRUE, u |-> host.u, port |-> port]
    ELSE NoUrl
Split(url, isConnect, scan, host) ==
    Checked(url, isConnect, scan, host, PortOf(url, host.u))
Hosted(url, isConnect, scan) ==
    Split(url, isConnect, scan,
          IF "HOST" \in scan.u.set THEN ParseHost(url, scan.u, scan.host)
                                   ELSE [s |-> "host", u |-> scan.u])

\* http_parser_parse_url: u is [set, field].
ParseUrl(url, isConnect) == Hosted(url, isConnect, Scanned(url, isConnect))
=============================================================================
