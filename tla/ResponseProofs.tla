--------------------------- MODULE ResponseProofs ---------------------------
(***************************************************************************)
(* Proofs about Response, for any contents, either setting of compression  *)
(* and any number of edits: the length announced is the length of the body *)
(* that follows, but for the ending, the body is the content given last in *)
(* the coding that is announced, and the connection is kept only if the    *)
(* message says so.                                                        *)
(***************************************************************************)
EXTENDS Response, TLAPS

Schemes == {"none", "deflate", "gzip"}

\* What init() was asked for by the request.
Asked == accepts \in {"none", "deflate", "gzip", "deflate, gzip"}

LEMMA CodingIs ==
    ASSUME Asked
    PROVE  Coding \in Schemes /\ (Coding = "gzip" => accepts = "gzip")
BY DEF Coding, Asked, Schemes

LEMMA PlainIs ==
    ASSUME NEW c \in Contents
    PROVE  Plain(c) \in Body /\ Plain(c).content = c /\ Plain(c).coding = "none"
BY DEF Plain, Body, Codings

LEMMA LoadedIs ==
    ASSUME NEW c \in Contents
    PROVE  /\ Loaded(c) \in Resource /\ Loaded(c).raw = Plain(c)
           /\ Loaded(c).deflated = Plain("") /\ Loaded(c).gzipped = Plain("")
BY PlainIs, ConstantsAssumption DEF Loaded, Resource

\* A body keeps its content, and a plain one takes the coding asked for, or is
\* cut short by a gzip that has no room.
LEMMA ZippedIs ==
    ASSUME NEW b \in Body, NEW coding \in {"deflate", "gzip"}
    PROVE  /\ Zipped(b, coding) \in Body
           /\ Zipped(b, coding).content = b.content
           /\ b.coding = "none" =>
                  \/ Zipped(b, coding).coding = coding
                  \/ /\ Zipped(b, coding).coding = "cut gzip"
                     /\ coding = "gzip" /\ b.content \in Tight
<1>1. Zipped(b, coding).content = b.content BY DEF Zipped
<1>2. CASE b.coding # "none"
  BY <1>1, <1>2 DEF Zipped, Body, Codings
<1>3. CASE b.coding = "none" /\ coding = "gzip" /\ b.content \in Tight
  BY <1>1, <1>3 DEF Zipped, Body, Codings
<1>4. CASE b.coding = "none" /\ ~(coding = "gzip" /\ b.content \in Tight)
  BY <1>1, <1>4 DEF Zipped, Body, Codings
<1> QED BY <1>2, <1>3, <1>4

LEMMA BodyIs ==
    ASSUME NEW r \in Object
    PROVE  BodyOf(r) \in Body
<1>1. r.text \in Body /\ r.res \in Resource BY DEF Object
<1>2. r.res.raw \in Body /\ r.res.deflated \in Body /\ r.res.gzipped \in Body
  BY <1>1 DEF Resource
<1> QED BY <1>1, <1>2 DEF BodyOf

-----------------------------------------------------------------------------
\* What try_to_compress and init make of a response.

LEMMA Compressed ==
    ASSUME Asked, NEW r \in Object, MayCompress(r)
    PROVE  LET t == TryToCompress(r) IN
           /\ t \in Object /\ t.type = r.type
           /\ t.compressed = Coding /\ t.encoding = Coding
           /\ t.connection = r.connection /\ t.cache = r.cache
           /\ r.type = "text" => t.text = Zipped(r.text, Coding)
           /\ r.type = "resource" /\ Coding = "deflate" => t.res.deflated = Deflated(r.res)
           /\ r.type = "resource" /\ Coding = "gzip" => t.res.gzipped = Gzipped(r.res)
<1> DEFINE text == IF r.type = "text" THEN Zipped(r.text, Coding) ELSE r.text
           deflated == IF r.type = "resource" /\ Coding = "deflate"
                       THEN Deflated(r.res) ELSE r.res.deflated
           gzipped == IF r.type = "resource" /\ Coding = "gzip"
                      THEN Gzipped(r.res) ELSE r.res.gzipped
           res == [r.res EXCEPT !.deflated = deflated, !.gzipped = gzipped]
<1>1. Coding \in {"deflate", "gzip"} BY CodingIs DEF MayCompress, Schemes
<1>2. /\ r.text \in Body /\ r.res \in Resource
      /\ r.res.raw \in Body /\ r.res.deflated \in Body /\ r.res.gzipped \in Body
  BY DEF Object, Resource
<1>3. text \in Body BY <1>1, <1>2, ZippedIs
<1>4. deflated \in Body
  <2>1. Deflated(r.res) \in Body BY <1>2, ZippedIs DEF Deflated
  <2> QED BY <1>2, <2>1
<1>5. gzipped \in Body
  <2>1. Gzipped(r.res) \in Body BY <1>2, ZippedIs DEF Gzipped
  <2> QED BY <1>2, <2>1
<1>6. res \in Resource /\ res.deflated = deflated /\ res.gzipped = gzipped
  <2> HIDE DEF deflated, gzipped
  <2> QED BY <1>2, <1>4, <1>5 DEF Resource
<1>7. TryToCompress(r) = [r EXCEPT !.compressed = Coding, !.encoding = Coding,
                                   !.text = text, !.res = res]
  BY DEF TryToCompress
<1> HIDE DEF text, res
<1>8. /\ TryToCompress(r) \in Object /\ TryToCompress(r).type = r.type
      /\ TryToCompress(r).compressed = Coding /\ TryToCompress(r).encoding = Coding
      /\ TryToCompress(r).connection = r.connection /\ TryToCompress(r).cache = r.cache
      /\ TryToCompress(r).text = text /\ TryToCompress(r).res = res
  BY <1>1, <1>3, <1>6, <1>7 DEF Object
<1> QED BY <1>6, <1>8 DEF text

\* The response that is measured.
Prepared(r) == IF Compression THEN TryToCompress(r) ELSE r

LEMMA PreparedIs ==
    ASSUME Asked, NEW r \in Object
    PROVE  /\ Prepared(r) \in Object /\ Prepared(r).type = r.type
           /\ ~(Compression /\ MayCompress(r)) => Prepared(r) = r
BY Compressed DEF Prepared, TryToCompress

LEMMA InitialisedIs ==
    ASSUME Asked, NEW r \in Object
    PROVE  LET i == Initialised(r) IN
           /\ i \in Object /\ i.type = r.type
           /\ i.connection # "unset"
           /\ i.type # "file" => i.length = BodyOf(i)
           /\ BodyOf(i) = BodyOf(Prepared(r))
           /\ i.compressed = Prepared(r).compressed
           /\ i.encoding = Prepared(r).encoding
           /\ i.text = Prepared(r).text
<1> DEFINE p == Prepared(r)
           connection == IF p.connection = "unset" THEN "Close" ELSE p.connection
           cache == IF p.cache \in {"unset", "no-cache"} THEN p.cache ELSE "max-age"
           length == IF p.type = "file" THEN p.length ELSE Measured(p)
           i == Initialised(r)
<1>1. p \in Object /\ p.type = r.type BY PreparedIs
<1>2. i = [p EXCEPT !.connection = connection, !.cache = cache, !.length = length]
  BY DEF Initialised, Prepared
<1> HIDE DEF p, i
<1>3. connection \in Connections \ {"unset"} BY <1>1 DEF Object, Connections
<1>4. cache \in CacheControls BY <1>1 DEF Object, CacheControls
<1>5. length \in Body \cup {Unmeasured}
  BY <1>1, BodyIs DEF Object, Measured
<1> HIDE DEF connection, cache, length
<1>6. /\ i \in Object /\ i.type = p.type /\ i.connection = connection
      /\ i.length = length /\ i.compressed = p.compressed
      /\ i.encoding = p.encoding /\ i.text = p.text /\ i.res = p.res
  BY <1>1, <1>2, <1>3, <1>4, <1>5 DEF Object
<1>7. BodyOf(i) = BodyOf(p) BY <1>6 DEF BodyOf
<1>8. i.type # "file" => i.length = BodyOf(i) BY <1>6, <1>7 DEF length, Measured
<1> QED BY <1>1, <1>3, <1>6, <1>7, <1>8 DEF p, i

-----------------------------------------------------------------------------
\* The invariant.

\* The body of r is what was meant, in the coding r announces.
Faithful(r, c) ==
    /\ r.type # "file"
    /\ BodyOf(r).content = c
    /\ BodyOf(r).coding \in {r.encoding, "cut gzip"}
    /\ BodyOf(r).coding = "cut gzip" => c \in Tight /\ accepts = "gzip"

\* What no compression has touched announces none, and has a plain text: this
\* is what lets an assignment compress what it puts in.
Untouched(r) == r.compressed = "none" => r.encoding = "none" /\ r.text.coding = "none"

Building ==
    phase = "building" =>
        /\ resp.connection # "unset"
        /\ "setter" \notin late => resp.type # "file" /\ resp.length = BodyOf(resp)
        /\ late = {} => Faithful(resp, meant) /\ Untouched(resp)

FileReady ==
    phase = "file" =>
        /\ resp.connection # "unset" /\ late = {}
        /\ resp.length = Plain(meant) /\ resp.encoding = "none"

IsSent == phase = "sent" => LengthIsBody /\ ContentIsSent /\ KeptAsAnnounced

ResponseInv ==
    /\ TypeOK
    /\ phase = "none" => late = {}
    /\ Building /\ FileReady /\ IsSent

LEMMA BlankIs ==
    /\ Blank \in Object /\ Blank.type = "text" /\ Blank.compressed = "none"
    /\ Blank.encoding = "none" /\ Blank.text.coding = "none"
BY LoadedIs, PlainIs, ConstantsAssumption
   DEF Blank, Object, Connections, CacheControls

LEMMA ResponseInit == Init => ResponseInv
<1> SUFFICES ASSUME Init PROVE ResponseInv OBVIOUS
<1>1. TypeOK
  <2>1. accepts \in {"none", "deflate", "gzip", "deflate, gzip"} BY DEF Init
  <2>2. asksCache \in CacheControls BY DEF Init, CacheControls
  <2>3. edits \in 0..MaxEdits /\ meant \in Contents
    <3>1. MaxEdits \in Nat BY ConstantsAssumption, Zenon
    <3>2. edits = 0 BY Zenon DEF Init
    <3>3. edits \in 0..MaxEdits BY <3>1, <3>2
    <3>4. meant \in Contents BY ConstantsAssumption, Zenon DEF Init
    <3> QED BY <3>3, <3>4
  <2>4. resp \in Object BY BlankIs DEF Init
  <2>5. message \in Message \cup {Nothing} /\ late \subseteq {"setter", "replaced"}
    BY DEF Init
  <2>6. phase \in {"none", "building", "file", "sent", "terminated"} BY DEF Init
  <2> QED BY <2>1, <2>2, <2>3, <2>4, <2>5, <2>6 DEF TypeOK
<1>2. Building /\ FileReady /\ IsSent
  BY DEF Init, Building, FileReady, IsSent
<1> QED BY <1>1, <1>2 DEF Init, ResponseInv

LEMMA FaithfulIf ==
    ASSUME NEW i, NEW c, i.type # "file", BodyOf(i).content = c,
           i.encoding \in Schemes,
           \/ BodyOf(i).coding = i.encoding
           \/ BodyOf(i).coding = "cut gzip" /\ c \in Tight /\ accepts = "gzip"
    PROVE  Faithful(i, c)
<1>1. BodyOf(i).coding \in {i.encoding, "cut gzip"} OBVIOUS
<1>2. BodyOf(i).coding = "cut gzip" => c \in Tight /\ accepts = "gzip" BY DEF Schemes
<1> QED BY <1>1, <1>2 DEF Faithful

\* A text that is still plain is compressed to what is announced.
LEMMA TextIsFaithful ==
    ASSUME Asked, NEW r \in Object, r.type = "text", Untouched(r), r.compressed = "none",
           r.text.content \in Contents
    PROVE  Faithful(Initialised(r), r.text.content) /\ Untouched(Initialised(r))
<1> DEFINE i == Initialised(r)
           p == Prepared(r)
<1>1. /\ i.type = "text" /\ BodyOf(i) = BodyOf(p) /\ i.text = p.text
      /\ i.compressed = p.compressed /\ i.encoding = p.encoding
  BY InitialisedIs
<1>2. r.text \in Body BY DEF Object
<1>3. CASE Compression /\ MayCompress(r)
  <2>1. /\ p.type = "text" /\ p.compressed = Coding /\ p.encoding = Coding
        /\ p.text = Zipped(r.text, Coding)
    BY <1>3, Compressed DEF Prepared
  <2>2. Coding \in {"deflate", "gzip"} /\ (Coding = "gzip" => accepts = "gzip")
    BY <1>3, CodingIs DEF MayCompress, Schemes
  <2>3. BodyOf(i) = Zipped(r.text, Coding) BY <1>1, <2>1 DEF BodyOf
  <2>4. i.encoding = Coding /\ i.compressed # "none" BY <1>1, <2>1, <2>2
  <2>5. r.text.coding = "none" BY DEF Untouched
  <2>6. /\ BodyOf(i).content = r.text.content
        /\ \/ BodyOf(i).coding = i.encoding
           \/ /\ BodyOf(i).coding = "cut gzip"
              /\ r.text.content \in Tight /\ accepts = "gzip"
    <3>1. /\ Zipped(r.text, Coding).content = r.text.content
          /\ \/ Zipped(r.text, Coding).coding = Coding
             \/ /\ Zipped(r.text, Coding).coding = "cut gzip"
                /\ Coding = "gzip" /\ r.text.content \in Tight
      BY <1>2, <2>2, <2>5, ZippedIs
    <3> HIDE DEF i
    <3> QED BY <2>2, <2>3, <2>4, <3>1
  <2>7. i.encoding \in Schemes BY <2>2, <2>4 DEF Schemes
  <2>8. Faithful(i, r.text.content)
    <3>1. i.type # "file" BY <1>1
    <3> HIDE DEF i
    <3> QED BY <3>1, <2>6, <2>7, FaithfulIf
  <2> QED BY <2>4, <2>8 DEF Untouched
<1>4. CASE ~(Compression /\ MayCompress(r))
  <2>1. p = r BY <1>4, PreparedIs
  <2>2. BodyOf(p) = r.text BY <2>1 DEF BodyOf
  <2>3. r.encoding = "none" /\ r.text.coding = "none" BY DEF Untouched
  <2>4. /\ BodyOf(i) = r.text /\ i.encoding = "none" /\ i.text.coding = "none"
    BY <1>1, <2>1, <2>2, <2>3
  <2>5. Faithful(i, r.text.content)
    BY <1>1, <2>3, <2>4, FaithfulIf DEF Schemes
  <2> QED BY <2>4, <2>5 DEF Untouched
<1> QED BY <1>3, <1>4

\* So is a resource that was just put in.
LEMMA ResourceIsFaithful ==
    ASSUME Asked, NEW r \in Object, NEW c \in Contents,
           r.type = "resource", r.res = Loaded(c), Untouched(r), r.compressed = "none"
    PROVE  Faithful(Initialised(r), c) /\ Untouched(Initialised(r))
<1> DEFINE i == Initialised(r)
           p == Prepared(r)
<1>1. /\ i.type = "resource" /\ BodyOf(i) = BodyOf(p) /\ i.text = p.text
      /\ i.compressed = p.compressed /\ i.encoding = p.encoding
  BY InitialisedIs
<1>2. /\ r.res.raw = Plain(c) /\ r.res.deflated = Plain("") /\ r.res.gzipped = Plain("")
      /\ Plain(c) \in Body /\ Plain(c).content = c /\ Plain(c).coding = "none"
  BY LoadedIs, PlainIs
<1>3. CASE Compression /\ MayCompress(r)
  <2>1. Coding \in {"deflate", "gzip"} /\ (Coding = "gzip" => accepts = "gzip")
    BY <1>3, CodingIs DEF MayCompress, Schemes
  <2>2. /\ p.type = "resource" /\ p.compressed = Coding /\ p.encoding = Coding
        /\ Coding = "deflate" => p.res.deflated = Deflated(r.res)
        /\ Coding = "gzip" => p.res.gzipped = Gzipped(r.res)
    BY <1>3, Compressed DEF Prepared
  <2>3. BodyOf(i) = Zipped(Plain(c), Coding)
    BY <1>1, <1>2, <2>1, <2>2 DEF BodyOf, Deflated, Gzipped
  <2>4. i.encoding = Coding /\ i.compressed # "none" BY <1>1, <2>1, <2>2
  <2>5. /\ BodyOf(i).content = c
        /\ \/ BodyOf(i).coding = i.encoding
           \/ BodyOf(i).coding = "cut gzip" /\ c \in Tight /\ accepts = "gzip"
    <3>1. /\ Zipped(Plain(c), Coding).content = c
          /\ \/ Zipped(Plain(c), Coding).coding = Coding
             \/ /\ Zipped(Plain(c), Coding).coding = "cut gzip"
                /\ Coding = "gzip" /\ c \in Tight
      BY <1>2, <2>1, ZippedIs
    <3> HIDE DEF i
    <3> QED BY <2>1, <2>3, <2>4, <3>1
  <2>6. i.encoding \in Schemes BY <2>1, <2>4 DEF Schemes
  <2>7. Faithful(i, c)
    <3>1. i.type # "file" BY <1>1
    <3> HIDE DEF i
    <3> QED BY <3>1, <2>5, <2>6, FaithfulIf
  <2> QED BY <2>4, <2>7 DEF Untouched
<1>4. CASE ~(Compression /\ MayCompress(r))
  <2>1. p = r BY <1>4, PreparedIs
  <2>2. BodyOf(p) = Plain(c) BY <1>2, <2>1 DEF BodyOf
  <2>3. r.encoding = "none" /\ r.text.coding = "none" BY DEF Untouched
  <2>4. /\ BodyOf(i) = Plain(c) /\ i.encoding = "none" /\ i.text.coding = "none"
    BY <1>1, <2>1, <2>2, <2>3
  <2>5. Faithful(i, c)
    BY <1>1, <1>2, <2>3, <2>4, FaithfulIf DEF Schemes
  <2> QED BY <2>4, <2>5 DEF Untouched
<1> QED BY <1>3, <1>4

\* An assignment of what is already compressed changes neither body nor coding.
LEMMA CompressedStays ==
    ASSUME Asked, NEW r \in Object, r.compressed # "none", NEW c,
           Faithful(r, c), Untouched(r)
    PROVE  Faithful(Initialised(r), c) /\ Untouched(Initialised(r))
<1>1. Prepared(r) = r BY PreparedIs DEF MayCompress
<1> QED BY <1>1, InitialisedIs DEF Faithful, Untouched

-----------------------------------------------------------------------------
\* One step.

LEMMA EditKeepsType ==
    ASSUME TypeOK, NEW r \in Object, NEW c \in Contents, NEW marks,
           marks \subseteq {"setter", "replaced"}, Edit(r, c, marks)
    PROVE  TypeOK'
<1>1. /\ phase = "building" /\ edits < MaxEdits /\ edits' = edits + 1
      /\ resp' = r /\ meant' = c /\ late' = late \cup marks
      /\ UNCHANGED <<accepts, asksCache, phase, message>>
  BY DEF Edit
<1>2. edits' \in 0..MaxEdits
  <2>1. MaxEdits \in Nat BY ConstantsAssumption, Zenon
  <2>2. edits \in 0..MaxEdits BY DEF TypeOK
  <2> QED BY <1>1, <2>1, <2>2
<1>3. late' \subseteq {"setter", "replaced"} BY <1>1 DEF TypeOK
<1> QED BY <1>1, <1>2, <1>3 DEF TypeOK

\* An edit that ends in init(): the response is measured again, and is as
\* meant unless something compressed was replaced.
LEMMA Assigned ==
    ASSUME ResponseInv, NEW r \in Object, NEW c \in Contents, NEW marks,
           marks \in {{}, {"replaced"}}, r.type # "file",
           Edit(Initialised(r), c, marks),
           late = {} /\ marks = {} =>
               Faithful(Initialised(r), c) /\ Untouched(Initialised(r))
    PROVE  ResponseInv'
<1> DEFINE i == Initialised(r)
<1>1. Asked /\ Asked' BY DEF ResponseInv, TypeOK, Asked, Edit
<1>2. i \in Object /\ i.type = r.type /\ i.connection # "unset" /\ i.length = BodyOf(i)
  BY <1>1, InitialisedIs
<1>3. /\ phase = "building" /\ edits < MaxEdits /\ edits' = edits + 1
      /\ resp' = i /\ meant' = c /\ late' = late \cup marks
      /\ UNCHANGED <<accepts, asksCache, phase, message>>
  BY DEF Edit
<1> HIDE DEF i
<1>4. TypeOK' BY <1>2, EditKeepsType DEF ResponseInv, i
<1>5. Building'
  <2>1. late' = {} => Faithful(i, c) /\ Untouched(i) BY <1>3 DEF i
  <2>2. i = resp' BY <1>3
  <2>3. late' = {} => Faithful(resp, meant)' /\ Untouched(resp)'
    BY <1>3, <2>1, <2>2 DEF Faithful, Untouched
  <2> QED BY <1>2, <1>3, <2>2, <2>3 DEF Building
<1>6. FileReady' /\ IsSent' BY <1>3 DEF FileReady, IsSent
<1> QED BY <1>3, <1>4, <1>5, <1>6 DEF ResponseInv

\* An edit by a setter of the body.
LEMMA ChangedBySetter ==
    ASSUME ResponseInv, NEW r \in Object, NEW c \in Contents,
           r.connection = resp.connection, Edit(r, c, {"setter"})
    PROVE  ResponseInv'
<1>1. /\ phase = "building" /\ edits < MaxEdits /\ edits' = edits + 1
      /\ resp' = r /\ meant' = c /\ late' = late \cup {"setter"}
      /\ UNCHANGED <<accepts, asksCache, phase, message>>
  BY DEF Edit
<1>2. TypeOK' BY EditKeepsType DEF ResponseInv
<1>3. Building'
  <2>1. resp.connection # "unset" BY <1>1 DEF ResponseInv, Building
  <2>2. "setter" \in late' BY <1>1
  <2> QED BY <1>1, <2>1, <2>2 DEF Building
<1>4. FileReady' /\ IsSent' BY <1>1 DEF FileReady, IsSent
<1> QED BY <1>1, <1>2, <1>3, <1>4 DEF ResponseInv

\* An edit of a field that has nothing to do with the body.
LEMMA FieldSet ==
    ASSUME ResponseInv, NEW r \in Object, r.connection # "unset",
           r.type = resp.type, r.text = resp.text, r.res = resp.res,
           r.compressed = resp.compressed, r.encoding = resp.encoding,
           r.length = resp.length, Edit(r, meant, {})
    PROVE  ResponseInv'
<1>1. /\ phase = "building" /\ edits < MaxEdits /\ edits' = edits + 1
      /\ resp' = r /\ meant' = meant /\ late' = late
      /\ UNCHANGED <<accepts, asksCache, phase, message>>
  BY DEF Edit
<1>2. TypeOK'
  <2>1. TypeOK /\ meant \in Contents BY DEF ResponseInv, TypeOK
  <2> QED BY <2>1, EditKeepsType
<1>3. BodyOf(r) = BodyOf(resp) BY DEF BodyOf
<1>4. r = resp' /\ BodyOf(resp') = BodyOf(resp) BY <1>1, <1>3
<1>5. Building' BY <1>1, <1>4 DEF ResponseInv, Building, Faithful, Untouched
<1>6. FileReady' /\ IsSent' BY <1>1 DEF FileReady, IsSent
<1> QED BY <1>1, <1>2, <1>5, <1>6 DEF ResponseInv

\* A constructor.
LEMMA Constructed ==
    ASSUME ResponseInv, NEW r \in Object, NEW c \in Contents, r.type # "file",
           Construct(r, c, "building"),
           Asked => Faithful(Initialised(r), c) /\ Untouched(Initialised(r))
    PROVE  ResponseInv'
<1> DEFINE i == Initialised(r)
<1>1. Asked BY DEF ResponseInv, TypeOK, Asked
<1>2. i \in Object /\ i.type = r.type /\ i.connection # "unset" /\ i.length = BodyOf(i)
  BY <1>1, InitialisedIs
<1>3. /\ phase = "none" /\ phase' = "building" /\ resp' = i /\ meant' = c
      /\ UNCHANGED <<accepts, asksCache, message, edits, late>>
  BY DEF Construct
<1>4. Faithful(i, c) /\ Untouched(i) BY <1>1
<1> HIDE DEF i
<1>5. TypeOK' BY <1>2, <1>3 DEF ResponseInv, TypeOK
<1>6. Building' BY <1>2, <1>3, <1>4 DEF Building, Faithful, Untouched
<1>7. FileReady' /\ IsSent' BY <1>3 DEF FileReady, IsSent
<1> QED BY <1>3, <1>5, <1>6, <1>7 DEF ResponseInv

LEMMA StepOfText == ASSUME ResponseInv, NEW c \in Contents, OfText(c) PROVE ResponseInv'
<1> DEFINE r == [Blank EXCEPT !.text = Plain(c)]
<1>1. /\ r \in Object /\ r.type = "text" /\ r.text = Plain(c)
      /\ r.compressed = "none" /\ r.encoding = "none"
  BY BlankIs, PlainIs DEF Object
<1>2. r.text.content = c /\ r.text.coding = "none" BY <1>1, PlainIs
<1>3. Construct(r, c, "building") BY DEF OfText
<1> HIDE DEF r
<1>4. Asked => Faithful(Initialised(r), c) /\ Untouched(Initialised(r))
  BY <1>1, <1>2, TextIsFaithful DEF Untouched
<1> QED BY <1>1, <1>3, <1>4, Constructed

LEMMA StepOfResource ==
    ASSUME ResponseInv, NEW c \in Contents, OfResource(c) PROVE ResponseInv'
<1> DEFINE r == [Blank EXCEPT !.type = "resource", !.res = Loaded(c)]
<1>1. /\ r \in Object /\ r.type = "resource" /\ r.res = Loaded(c)
      /\ r.compressed = "none" /\ r.encoding = "none" /\ r.text = Blank.text
  BY BlankIs, LoadedIs DEF Object
<1>2. r.text.coding = "none" BY <1>1, BlankIs
<1>3. Construct(r, c, "building") BY DEF OfResource
<1> HIDE DEF r
<1>4. Asked => Faithful(Initialised(r), c) /\ Untouched(Initialised(r))
  BY <1>1, <1>2, ResourceIsFaithful DEF Untouched
<1> QED BY <1>1, <1>3, <1>4, Constructed

LEMMA StepOfFile == ASSUME ResponseInv, NEW c \in Contents, OfFile(c) PROVE ResponseInv'
<1> DEFINE r == [Blank EXCEPT !.type = "file"]
           i == Initialised(r)
<1>1. r \in Object /\ r.type = "file" /\ r.encoding = "none" BY BlankIs DEF Object
<1>2. Asked BY DEF ResponseInv, TypeOK, Asked
<1>3. Prepared(r) = r BY <1>1, <1>2, PreparedIs DEF MayCompress
<1>4. i \in Object /\ i.connection # "unset" /\ i.encoding = "none"
  BY <1>1, <1>2, <1>3, InitialisedIs
<1>5. /\ phase = "none" /\ phase' = "file"
      /\ resp' = [i EXCEPT !.length = Plain(c)] /\ meant' = c
      /\ UNCHANGED <<accepts, asksCache, message, edits, late>>
  BY DEF OfFile
<1> HIDE DEF i
<1>6. /\ resp' \in Object /\ resp'.connection # "unset" /\ resp'.encoding = "none"
      /\ resp'.length = Plain(c)
  BY <1>4, <1>5, PlainIs DEF Object
<1>7. TypeOK' BY <1>5, <1>6 DEF ResponseInv, TypeOK
<1>8. FileReady' BY <1>5, <1>6 DEF ResponseInv, FileReady
<1>9. Building' /\ IsSent' BY <1>5 DEF Building, IsSent
<1> QED BY <1>5, <1>7, <1>8, <1>9 DEF ResponseInv

\* What replaces a body that was compressed is marked.
LEMMA ReplacedIs ==
    /\ Replaced \in {{}, {"replaced"}}
    /\ Replaced = {} <=> resp.compressed = "none"
BY DEF Replaced

\* A response that nothing has spoiled is as meant.
LEMMA Unspoilt ==
    ASSUME ResponseInv, phase = "building", late = {}
    PROVE  Faithful(resp, meant) /\ Untouched(resp)
BY DEF ResponseInv, Building

LEMMA StepAssignText ==
    ASSUME ResponseInv, NEW c \in Contents, AssignText(c) PROVE ResponseInv'
<1> DEFINE r == [resp EXCEPT !.type = "text", !.text = Plain(c)]
<1>1. resp \in Object /\ Asked /\ phase = "building"
  BY DEF ResponseInv, TypeOK, Asked, AssignText, Edit
<1>2. /\ r \in Object /\ r.type = "text" /\ r.text = Plain(c)
      /\ r.compressed = resp.compressed /\ r.encoding = resp.encoding
  BY <1>1, PlainIs DEF Object
<1>3. r.text.content = c /\ r.text.coding = "none" BY <1>2, PlainIs
<1>4. Edit(Initialised(r), c, Replaced) BY DEF AssignText
<1> HIDE DEF r
<1>5. late = {} /\ Replaced = {} =>
          Faithful(Initialised(r), c) /\ Untouched(Initialised(r))
  <2> SUFFICES ASSUME late = {}, Replaced = {}
               PROVE Faithful(Initialised(r), c) /\ Untouched(Initialised(r))
    OBVIOUS
  <2>1. r.compressed = "none" /\ r.encoding = "none"
    BY <1>1, <1>2, ReplacedIs, Unspoilt DEF Untouched
  <2> QED BY <1>1, <1>2, <1>3, <2>1, TextIsFaithful DEF Untouched
<1> QED BY <1>2, <1>4, <1>5, ReplacedIs, Assigned

LEMMA StepAssignResource ==
    ASSUME ResponseInv, NEW c \in Contents, AssignResource(c) PROVE ResponseInv'
<1> DEFINE r == [resp EXCEPT !.type = "resource", !.res = Loaded(c)]
<1>1. resp \in Object /\ Asked /\ phase = "building"
  BY DEF ResponseInv, TypeOK, Asked, AssignResource, Edit
<1>2. /\ r \in Object /\ r.type = "resource" /\ r.res = Loaded(c)
      /\ r.compressed = resp.compressed /\ r.encoding = resp.encoding
      /\ r.text = resp.text
  BY <1>1, LoadedIs DEF Object
<1>3. Edit(Initialised(r), c, Replaced) BY DEF AssignResource
<1> HIDE DEF r
<1>4. late = {} /\ Replaced = {} =>
          Faithful(Initialised(r), c) /\ Untouched(Initialised(r))
  <2> SUFFICES ASSUME late = {}, Replaced = {}
               PROVE Faithful(Initialised(r), c) /\ Untouched(Initialised(r))
    OBVIOUS
  <2>1. r.compressed = "none" /\ Untouched(r)
    BY <1>1, <1>2, ReplacedIs, Unspoilt DEF Untouched
  <2> QED BY <1>1, <1>2, <2>1, ResourceIsFaithful
<1> QED BY <1>2, <1>3, <1>4, ReplacedIs, Assigned

LEMMA StepAssignStatus == ASSUME ResponseInv, AssignStatus PROVE ResponseInv'
<1> DEFINE r == [resp EXCEPT !.type = "text"]
           c == resp.text.content
           marks == IF resp.type = "text" THEN {} ELSE Replaced
<1>1. resp \in Object /\ Asked /\ phase = "building"
  BY DEF ResponseInv, TypeOK, Asked, AssignStatus, Edit
<1>2. /\ r \in Object /\ r.type = "text" /\ r.text = resp.text
      /\ r.compressed = resp.compressed /\ r.encoding = resp.encoding
  BY <1>1 DEF Object
<1>3. c \in Contents BY <1>1 DEF Object, Body
<1>4. Edit(Initialised(r), c, marks) BY DEF AssignStatus
<1>5. marks \in {{}, {"replaced"}} BY ReplacedIs
<1> HIDE DEF r
<1>6. late = {} /\ marks = {} =>
          Faithful(Initialised(r), c) /\ Untouched(Initialised(r))
  <2> SUFFICES ASSUME late = {}, marks = {}
               PROVE Faithful(Initialised(r), c) /\ Untouched(Initialised(r))
    OBVIOUS
  <2>1. Faithful(resp, meant) /\ Untouched(resp) BY <1>1, Unspoilt
  <2>2. Untouched(r) BY <1>2, <2>1 DEF Untouched
  <2>3. CASE r.compressed = "none"
    BY <1>1, <1>2, <1>3, <2>2, <2>3, TextIsFaithful
  <2>4. CASE r.compressed # "none"
    <3>1. resp.type = "text" BY <1>2, <2>4, ReplacedIs
    <3>2. BodyOf(resp) = resp.text /\ BodyOf(r) = resp.text BY <1>2, <3>1 DEF BodyOf
    <3>3. Faithful(r, c) BY <1>2, <2>1, <3>2 DEF Faithful
    <3> QED BY <1>1, <1>2, <2>2, <2>4, <3>3, CompressedStays
  <2> QED BY <2>3, <2>4
<1> HIDE DEF c, marks
<1> QED BY <1>2, <1>3, <1>4, <1>5, <1>6, Assigned

\* The setters, one of the body and one of another field for each.
LEMMA StepSetter ==
    ASSUME ResponseInv,
           \/ \E c \in Contents : SetText(c) \/ SetResource(c) \/ SetLength(c)
           \/ \E e \in {"none", "deflate", "gzip"} : SetEncoding(e)
           \/ \E t \in {"text", "resource", "file"} : SetType(t)
    PROVE  ResponseInv'
<1>1. resp \in Object /\ meant \in Contents BY DEF ResponseInv, TypeOK
<1>2. ASSUME NEW c \in Contents, SetText(c) PROVE ResponseInv'
  <2> DEFINE r == [resp EXCEPT !.type = "text", !.text = Plain(c)]
  <2>1. r \in Object /\ r.connection = resp.connection
    BY <1>1, PlainIs DEF Object
  <2>2. Edit(r, c, {"setter"}) BY <1>2 DEF SetText
  <2> HIDE DEF r
  <2> QED BY <2>1, <2>2, ChangedBySetter
<1>3. ASSUME NEW c \in Contents, SetResource(c) PROVE ResponseInv'
  <2> DEFINE r == [resp EXCEPT !.res = Loaded(c)]
  <2>1. r \in Object /\ r.connection = resp.connection
    BY <1>1, LoadedIs DEF Object
  <2>2. Edit(r, c, {"setter"}) BY <1>3 DEF SetResource
  <2> HIDE DEF r
  <2> QED BY <2>1, <2>2, ChangedBySetter
<1>4. ASSUME NEW t \in {"text", "resource", "file"}, SetType(t) PROVE ResponseInv'
  <2> DEFINE r == [resp EXCEPT !.type = t]
  <2>1. r \in Object /\ r.connection = resp.connection BY <1>1 DEF Object
  <2>2. Edit(r, meant, {"setter"}) BY <1>4 DEF SetType
  <2> HIDE DEF r
  <2> QED BY <1>1, <2>1, <2>2, ChangedBySetter
<1>5. ASSUME NEW c \in Contents, SetLength(c) PROVE ResponseInv'
  <2> DEFINE r == [resp EXCEPT !.length = Plain(c)]
  <2>1. r \in Object /\ r.connection = resp.connection BY <1>1, PlainIs DEF Object
  <2>2. Edit(r, meant, {"setter"}) BY <1>5 DEF SetLength
  <2> HIDE DEF r
  <2> QED BY <1>1, <2>1, <2>2, ChangedBySetter
<1>6. ASSUME NEW e \in {"none", "deflate", "gzip"}, SetEncoding(e) PROVE ResponseInv'
  <2> DEFINE r == [resp EXCEPT !.encoding = e]
  <2>1. r \in Object /\ r.connection = resp.connection BY <1>1 DEF Object
  <2>2. Edit(r, meant, {"setter"}) BY <1>6 DEF SetEncoding
  <2> HIDE DEF r
  <2> QED BY <1>1, <2>1, <2>2, ChangedBySetter
<1> QED BY <1>2, <1>3, <1>4, <1>5, <1>6

LEMMA StepField ==
    ASSUME ResponseInv,
           \/ \E v \in Connections \ {"unset"} : SetConnection(v)
           \/ \E v \in {"no-cache", "public"} : SetCache(v)
    PROVE  ResponseInv'
<1>1. resp \in Object BY DEF ResponseInv, TypeOK
<1>2. ASSUME NEW v \in Connections \ {"unset"}, SetConnection(v) PROVE ResponseInv'
  <2> DEFINE r == [resp EXCEPT !.connection = v]
  <2>1. /\ r \in Object /\ r.connection # "unset"
        /\ r.type = resp.type /\ r.text = resp.text /\ r.res = resp.res
        /\ r.compressed = resp.compressed /\ r.encoding = resp.encoding
        /\ r.length = resp.length
    BY <1>1 DEF Object
  <2>2. Edit(r, meant, {}) BY <1>2 DEF SetConnection
  <2> HIDE DEF r
  <2> QED BY <2>1, <2>2, FieldSet
<1>3. ASSUME NEW v \in {"no-cache", "public"}, SetCache(v) PROVE ResponseInv'
  <2> DEFINE r == [resp EXCEPT !.cache = v]
  <2>1. resp.connection # "unset" BY <1>3 DEF ResponseInv, Building, SetCache, Edit
  <2>2. v \in CacheControls BY DEF CacheControls
  <2>3. /\ r \in Object /\ r.connection # "unset"
        /\ r.type = resp.type /\ r.text = resp.text /\ r.res = resp.res
        /\ r.compressed = resp.compressed /\ r.encoding = resp.encoding
        /\ r.length = resp.length
    BY <1>1, <2>1, <2>2 DEF Object
  <2>4. Edit(r, meant, {}) BY <1>3 DEF SetCache
  <2> HIDE DEF r
  <2> QED BY <2>3, <2>4, FieldSet
<1> QED BY <1>2, <1>3

LEMMA PairIs ==
    ASSUME NEW S, NEW a \in S, NEW b
    PROVE  <<a, b>> \in Seq(S \cup {b})
OBVIOUS

\* What is sent is what the response holds, and KeepAlive is asked of it.
LEMMA StepSent ==
    ASSUME ResponseInv, NEW body \in Body, NEW later \in BOOLEAN, Sent(body, later),
           resp.connection # "unset",
           "setter" \notin late => resp.length = body,
           late = {} => /\ body.content = meant
                        /\ body.coding \in {resp.encoding, "cut gzip"}
                        /\ body.coding = "cut gzip" => meant \in Tight /\ accepts = "gzip"
    PROVE  ResponseInv'
<1> DEFINE keep == ~later /\ KeepAlive(resp)
<1>1. /\ phase' = "sent"
      /\ UNCHANGED <<accepts, asksCache, resp, edits, meant, late>>
      /\ message' = [follows |-> <<body, Ending>>, encoding |-> resp.encoding,
                     length |-> resp.length, connection |-> resp.connection,
                     cache |-> resp.cache, later |-> later, keep |-> keep]
  BY DEF Sent
<1>2. resp \in Object BY DEF ResponseInv, TypeOK
<1>3. keep \in BOOLEAN /\ (keep <=> resp.connection = "Keep-Alive" /\ ~later)
  BY Zenon DEF KeepAlive
<1> HIDE DEF keep
<1>4. /\ message'.follows = <<body, Ending>> /\ message'.encoding = resp.encoding
      /\ message'.length = resp.length /\ message'.connection = resp.connection
  BY <1>1
<1>5. message'.later = later /\ message'.keep = keep BY <1>1
<1>6. message' \in Message
  <2>1. /\ resp.encoding \in {"none", "deflate", "gzip"}
        /\ resp.length \in Body \cup {Unmeasured}
        /\ resp.connection \in Connections /\ resp.cache \in CacheControls
    BY <1>2 DEF Object
  <2>2. <<body, Ending>> \in Seq(Body \cup {Ending}) BY PairIs
  <2> QED BY <1>1, <1>3, <2>1, <2>2, Zenon DEF Message
<1>7. TypeOK' BY <1>1, <1>6 DEF ResponseInv, TypeOK
<1>8. LengthIsBody' BY <1>1, <1>4 DEF LengthIsBody
<1>9. ContentIsSent' BY <1>1, <1>4 DEF ContentIsSent
<1>10. KeptAsAnnounced' BY <1>3, <1>4, <1>5, Zenon DEF KeptAsAnnounced
<1>11. Building' /\ FileReady' BY <1>1 DEF Building, FileReady
<1> QED BY <1>1, <1>7, <1>8, <1>9, <1>10, <1>11 DEF ResponseInv, IsSent

LEMMA StepSend ==
    ASSUME ResponseInv, Serialize \/ SerializeLater \/ SerializeFile \/ SendFile PROVE ResponseInv'
<1>1. CASE Serialize \/ SerializeLater
  <2>1. /\ phase = "building" /\ resp.connection # "unset"
        /\ "setter" \notin late => resp.length = BodyOf(resp)
        /\ late = {} => Faithful(resp, meant)
    BY <1>1 DEF Serialize, SerializeLater, ResponseInv, Building
  <2>2. BodyOf(resp) \in Body BY BodyIs DEF ResponseInv, TypeOK
  <2>3. PICK later \in BOOLEAN : Sent(BodyOf(resp), later)
    BY <1>1 DEF Serialize, SerializeLater
  <2> QED BY <2>1, <2>2, <2>3, StepSent DEF Faithful
<1>2. CASE SerializeFile
  BY <1>2 DEF SerializeFile, ResponseInv, TypeOK, Building, FileReady, IsSent
<1>3. CASE SendFile
  <2>1. /\ resp.connection # "unset" /\ resp.length = Plain(meant)
        /\ resp.encoding = "none" /\ Sent(Plain(meant), FALSE)
    BY <1>3 DEF SendFile, ResponseInv, FileReady
  <2>2. meant \in Contents BY DEF ResponseInv, TypeOK
  <2> QED BY <2>1, <2>2, PlainIs, StepSent
<1> QED BY <1>1, <1>2, <1>3

LEMMA ResponseStep == ResponseInv /\ [Next]_vars => ResponseInv'
<1> SUFFICES ASSUME ResponseInv, [Next]_vars PROVE ResponseInv' OBVIOUS
<1>1. CASE UNCHANGED vars
  BY <1>1 DEF vars, ResponseInv, TypeOK, Building, FileReady, IsSent, Faithful,
              Untouched, LengthIsBody, ContentIsSent, KeptAsAnnounced
<1>2. CASE Next
  BY <1>2, StepOfText, StepOfResource, StepOfFile, StepAssignText, StepAssignResource,
     StepAssignStatus, StepSetter, StepField, StepSend DEF Next
<1> QED BY <1>1, <1>2

THEOREM ResponseInvariant == Spec => []ResponseInv
BY ResponseInit, ResponseStep, PTL DEF Spec

\* The Content-Length is that of the body that follows, for any contents, any
\* Accept-Encoding and any number of assignments, unless a setter changed the
\* body or the field after init() had measured it; what comes behind the body is
\* the ending, which is not counted.
THEOREM LengthCorrect == Spec => []LengthIsBody
<1>1. ResponseInv => LengthIsBody BY DEF ResponseInv, IsSent, LengthIsBody
<1> QED BY <1>1, ResponseInvariant, PTL

\* What a peer decodes by Content-Encoding is the content given last, unless a
\* compressed body was replaced, a setter was used, or gzip had no room.
THEOREM ContentCorrect == Spec => []ContentIsSent
<1>1. ResponseInv => ContentIsSent BY DEF ResponseInv, IsSent, ContentIsSent
<1> QED BY <1>1, ResponseInvariant, PTL

\* The connection is kept only if the message says so, and by an answer given at
\* once whenever it says so: init() leaves no response without the field, and
\* get_keep_alive's default is never used.
THEOREM KeptCorrect == Spec => []KeptAsAnnounced
<1>1. ResponseInv => KeptAsAnnounced BY DEF ResponseInv, IsSent, KeptAsAnnounced
<1> QED BY <1>1, ResponseInvariant, PTL
=============================================================================
