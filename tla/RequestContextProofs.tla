------------------------ MODULE RequestContextProofs ------------------------
(***************************************************************************)
(* Theorems about RequestContext: that a request which was not split is    *)
(* handed over as it was sent, and that one which has arrived as a whole   *)
(* is answered.                                                            *)
(*                                                                         *)
(* As long as every answered request is the one that was sent, the buffer, *)
(* the wire and what the peer has still to send are together the tokens of *)
(* the last request, or nothing at all is under way; and the context says  *)
(* of its buffer what one parse of it would say, but for a body that was   *)
(* read more than once and a length that was cut off.                      *)
(***************************************************************************)
EXTENDS RequestContext, SequenceTheorems, WellFoundedInduction, TLAPS

Newest == Len(script)
Asking == script[Newest]
Sent == Tokens(Newest, Asking)

\* Tokens of requests the peer has made.
Known == {t \in Token : /\ t.n \in 1..Newest
                        /\ t.kind = "digit" => t.i \in 1..Len(script[t.n].digits)}

Origins ==
    /\ Newest \in 1..MaxRequests
    /\ tosend \in Seq(Known) /\ wire \in Seq(Known) /\ context.buffer \in Seq(Known)
    /\ context.url \in 0..Newest
    /\ \A n \in 1..Len(answered) : answered[n].url \in 0..Newest

\* What the buffer of c, a piece of the newest request, has told c.
HeadEnd == Len(Asking.digits) + 2
Whole(c) == Len(c.buffer) >= HeadEnd
LastLength == IF Asking.digits = <<>> THEN NoValue ELSE ContentLength(Asking)
Reading(c) ==
    /\ c.url = Newest
    /\ c.method = IF Whole(c) /\ Asking.method # "unknown" THEN Asking.method ELSE Unset
    /\ c.length # NoValue => c.length \in 0..ContentLength(Asking)
    /\ Len(c.buffer) = Len(Sent) => Len(c.body) >= Asking.units
    /\ Range(c.body) \subseteq Range(c.buffer)
    /\ c.split = {} => /\ Whole(c) /\ c.length = LastLength
                       /\ c.body = OfKind(c.buffer, "body")

Waits(c) == \E method \in IF c.method = Unset THEN Methods ELSE {c.method} :
                ~IsComplete(method, c)

Idle == /\ Len(answered) = Newest
        /\ tosend = <<>> /\ wire = <<>> /\ context = NoContext
UnderWay == /\ Len(answered) = Newest - 1
            /\ context.buffer \o wire \o tosend = Sent
            /\ \/ context = NoContext
               \/ context.buffer # <<>> /\ Reading(context) /\ Waits(context)

AllExact == \A n \in 1..Len(answered) : Exact(answered[n], n)

ContextInv ==
    /\ TypeOK /\ Origins
    /\ AllExact => Idle \/ UnderWay
    /\ ExactUnlessSplit

-----------------------------------------------------------------------------
\* Induction over the naturals, least and greatest elements.

\* Naturals are well-founded: a set of them that is not empty has a least element.
LEMMA LeastNatural ==
    ASSUME NEW T, T \subseteq Nat, T # {}
    PROVE  \E x \in T : \A y \in T : x <= y
<1> DEFINE R == {ss \in Nat \X Nat : ss[1] < ss[2]}
<1>1. IsWellFoundedOn(R, Nat) BY NatLessThanWellFounded DEF OpToRel
<1>2. PICK x \in T : \A y \in T : <<y, x>> \notin R
  <2> HIDE DEF R
  <2> QED BY <1>1, WFMin
<1>3. ASSUME NEW y \in T PROVE x <= y
  <2>1. <<y, x>> \in Nat \X Nat OBVIOUS
  <2>2. <<y, x>> \notin R BY <1>2
  <2>3. ~(y < x) BY <2>1, <2>2
  <2> QED BY <2>3
<1> QED BY <1>3

\* A set of naturals with 0, and with n + 1 whenever with n, has them all.
LEMMA NaturalInduction ==
    ASSUME NEW T, 0 \in T, \A n \in Nat : n \in T => n + 1 \in T
    PROVE  Nat \subseteq T
<1> SUFFICES ASSUME NEW m \in Nat, m \notin T PROVE FALSE
  OBVIOUS
<1> DEFINE U == {n \in Nat : n \notin T}
<1>1. PICK x \in U : \A y \in U : x <= y
  <2>1. U \subseteq Nat /\ U # {} OBVIOUS
  <2> QED BY <2>1, LeastNatural
<1>2. x # 0 /\ x - 1 \in Nat /\ x - 1 \in T BY <1>1
<1> QED BY <1>1, <1>2

\* A bounded set of naturals that is not empty has a greatest element.
LEMMA GreatestNatural ==
    ASSUME NEW b \in Nat, NEW T, T \subseteq 0..b, T # {}
    PROVE  Max(T) \in T /\ \A y \in T : y <= Max(T)
<1> DEFINE U == {b - y : y \in T}
<1>1. PICK x \in U : \A y \in U : x <= y
  <2>1. \A y \in T : b - y \in Nat OBVIOUS
  <2>2. U \subseteq Nat BY <2>1
  <2>3. PICK y \in T : TRUE OBVIOUS
  <2>4. b - y \in U OBVIOUS
  <2> HIDE DEF U
  <2> QED BY <2>2, <2>4, LeastNatural
<1>2. PICK m \in T : x = b - m OBVIOUS
<1>3. ASSUME NEW y \in T PROVE y <= m
  <2>1. b - m <= b - y BY <1>1, <1>2
  <2>2. b \in Nat /\ m \in Nat /\ y \in Nat OBVIOUS
  <2> QED BY <2>1, <2>2
<1> QED BY <1>3 DEF Max

\* Concatenation, with the positions of the second part.
LEMMA ConcatAt ==
    ASSUME NEW S, NEW s \in Seq(S), NEW t \in Seq(S)
    PROVE  /\ s \o t \in Seq(S) /\ Len(s \o t) = Len(s) + Len(t)
           /\ \A i \in 1..Len(s) : (s \o t)[i] = s[i]
           /\ \A i \in 1..Len(t) : (s \o t)[Len(s) + i] = t[i]
<1>1. Len(s) \in Nat /\ Len(t) \in Nat BY LenProperties
<1>2. s \o t \in Seq(S) /\ Len(s \o t) = Len(s) + Len(t) BY ConcatProperties
<1>3. \A i \in 1..(Len(s) + Len(t)) :
          (s \o t)[i] = IF i <= Len(s) THEN s[i] ELSE t[i - Len(s)]
  BY <1>1, ConcatProperties
<1>4. \A i \in 1..Len(s) : (s \o t)[i] = s[i] BY <1>1, <1>3
<1>5. ASSUME NEW i \in 1..Len(t) PROVE (s \o t)[Len(s) + i] = t[i]
  <2>1. Len(s) + i \in 1..(Len(s) + Len(t)) /\ ~(Len(s) + i <= Len(s))
        /\ (Len(s) + i) - Len(s) = i
    BY <1>1
  <2> QED BY <1>3, <2>1
<1> QED BY <1>2, <1>4, <1>5

-----------------------------------------------------------------------------
\* What OfKind selects.

\* The partial results of OfKind.
Selects(f, b, kind) ==
    f = [i \in 0..Len(b) |->
            IF i = 0 THEN <<>>
            ELSE IF b[i].kind = kind THEN Append(f[i - 1], b[i])
            ELSE f[i - 1]]

\* Such partial results exist.
LEMMA SelectsExists ==
    ASSUME NEW S, NEW b \in Seq(S), NEW kind
    PROVE  \E f : Selects(f, b, kind)
<1>1. Len(b) \in Nat BY LenProperties
<1> DEFINE Next1(s, x) == IF x.kind = kind THEN Append(s, x) ELSE s
           Upto(f, k) == f = [i \in 0..k |-> IF i = 0 THEN <<>> ELSE Next1(f[i - 1], b[i])]
           T == {k \in Nat : \E f : Upto(f, k)}
<1>2. Nat \subseteq T
  <2>1. 0 \in T
    <3> DEFINE f == [i \in 0..0 |-> <<>>]
    <3> HIDE DEF Next1
    <3>1. Upto(f, 0) OBVIOUS
    <3> QED BY <3>1
  <2>2. ASSUME NEW k \in Nat, k \in T PROVE k + 1 \in T
    <3> HIDE DEF Next1
    <3>1. PICK f : Upto(f, k) BY <2>2
    <3> DEFINE g == [i \in 0..(k + 1) |-> IF i = k + 1 THEN Next1(f[k], b[k + 1]) ELSE f[i]]
    <3>2. ASSUME NEW i \in 0..(k + 1)
          PROVE  g[i] = IF i = 0 THEN <<>> ELSE Next1(g[i - 1], b[i])
      <4>1. CASE i = k + 1
        <5>1. i # 0 /\ i - 1 = k /\ g[k] = f[k] BY <4>1
        <5> QED BY <4>1, <5>1
      <4>2. CASE i # k + 1
        <5>1. i \in 0..k /\ g[i] = f[i] BY <4>2
        <5>2. f[i] = IF i = 0 THEN <<>> ELSE Next1(f[i - 1], b[i]) BY <3>1, <5>1
        <5>3. i # 0 => g[i - 1] = f[i - 1] BY <5>1
        <5> QED BY <5>1, <5>2, <5>3
      <4> QED BY <4>1, <4>2
    <3>3. Upto(g, k + 1) BY <3>2
    <3>4. \E h : Upto(h, k + 1)
      <4> HIDE DEF g
      <4> QED BY <3>3
    <3> HIDE DEF Upto
    <3> QED BY <3>4
  <2> HIDE DEF T
  <2> QED BY <2>1, <2>2, NaturalInduction
<1>3. PICK f : Upto(f, Len(b)) BY <1>1, <1>2
<1>4. Selects(f, b, kind) BY <1>3 DEF Selects
<1> QED BY <1>4

\* OfKind is the last of them.
LEMMA OfKindIs ==
    ASSUME NEW S, NEW b \in Seq(S), NEW kind
    PROVE  \E f : Selects(f, b, kind) /\ OfKind(b, kind) = f[Len(b)]
<1> DEFINE upto == CHOOSE f : Selects(f, b, kind)
<1>1. Selects(upto, b, kind) BY SelectsExists, Zenon
<1>2. OfKind(b, kind) = upto[Len(b)] BY DEF OfKind, Selects
<1> QED BY <1>1, <1>2

\* Nothing is selected from nothing, and each element adds itself or nothing.
LEMMA SelectsSteps ==
    ASSUME NEW S, NEW b \in Seq(S), NEW kind, NEW f, Selects(f, b, kind)
    PROVE  /\ f[0] = <<>>
           /\ \A k \in Nat : k + 1 \in 1..Len(b) =>
                  f[k + 1] = IF b[k + 1].kind = kind THEN Append(f[k], b[k + 1]) ELSE f[k]
<1>1. Len(b) \in Nat BY LenProperties
<1>2. \A i \in 0..Len(b) : f[i] = IF i = 0 THEN <<>>
                                  ELSE IF b[i].kind = kind THEN Append(f[i - 1], b[i])
                                  ELSE f[i - 1]
  BY DEF Selects
<1>3. f[0] = <<>> BY <1>1, <1>2
<1>4. ASSUME NEW k \in Nat, k + 1 \in 1..Len(b)
      PROVE  f[k + 1] = IF b[k + 1].kind = kind THEN Append(f[k], b[k + 1]) ELSE f[k]
  <2> DEFINE i == k + 1
  <2>1. i \in 0..Len(b) /\ i # 0 /\ i - 1 = k BY <1>1, <1>4
  <2> HIDE DEF i
  <2>2. f[i] = IF b[i].kind = kind THEN Append(f[i - 1], b[i]) ELSE f[i - 1]
    BY <1>2, <2>1
  <2>3. f[i] = IF b[i].kind = kind THEN Append(f[k], b[i]) ELSE f[k] BY <2>1, <2>2
  <2> QED BY <2>3 DEF i
<1> QED BY <1>3, <1>4

\* Appending an element adds it to the elements.
LEMMA RangeAppend ==
    ASSUME NEW S, NEW s \in Seq(S), NEW x \in S
    PROVE  Append(s, x) \in Seq(S) /\ Range(Append(s, x)) = Range(s) \cup {x}
<1> DEFINE n == Len(s)
           t == Append(s, x)
<1>1. n \in Nat BY LenProperties
<1>2. /\ t \in Seq(S) /\ DOMAIN t = 1..(n + 1) /\ DOMAIN s = 1..n
      /\ \A i \in 1..n : t[i] = s[i]
      /\ t[n + 1] = x
  BY <1>1, AppendProperties, LenProperties
<1> HIDE DEF n, t
<1>3. \A y \in Range(t) : y \in Range(s) \cup {x} BY <1>1, <1>2 DEF Range
<1>4. \A y \in Range(s) \cup {x} : y \in Range(t) BY <1>1, <1>2 DEF Range
<1> QED BY <1>2, <1>3, <1>4 DEF t

\* The elements of a kind are selected, all of them and nothing else.
LEMMA OfKindElements ==
    ASSUME NEW S, NEW b \in Seq(S), NEW kind
    PROVE  /\ OfKind(b, kind) \in Seq(S)
           /\ Range(OfKind(b, kind)) = {t \in Range(b) : t.kind = kind}
<1>1. Len(b) \in Nat /\ DOMAIN b = 1..Len(b) /\ \A i \in 1..Len(b) : b[i] \in S
  BY LenProperties, ElementOfSeq
<1>2. PICK f : Selects(f, b, kind) /\ OfKind(b, kind) = f[Len(b)] BY OfKindIs
<1>3. /\ f[0] = <<>>
      /\ \A k \in Nat : k + 1 \in 1..Len(b) =>
             f[k + 1] = IF b[k + 1].kind = kind THEN Append(f[k], b[k + 1]) ELSE f[k]
  BY <1>2, SelectsSteps
<1> DEFINE Part(k) == {t \in S : t.kind = kind /\ \E i \in 1..k : t = b[i]}
           T == {k \in Nat : k <= Len(b) => f[k] \in Seq(S) /\ Range(f[k]) = Part(k)}
<1>4. Nat \subseteq T
  <2>1. 0 \in T
    <3>1. <<>> \in Seq(S) /\ Range(<<>>) = {} BY EmptySeq DEF Range
    <3>2. Part(0) = {} OBVIOUS
    <3> HIDE DEF Part
    <3> QED BY <1>3, <3>1, <3>2
  <2>2. ASSUME NEW k \in Nat, k \in T PROVE k + 1 \in T
    <3> SUFFICES ASSUME k + 1 <= Len(b)
                 PROVE  f[k + 1] \in Seq(S) /\ Range(f[k + 1]) = Part(k + 1)
      BY k + 1 \in Nat
    <3> DEFINE x == b[k + 1]
    <3>1. k + 1 \in 1..Len(b) /\ x \in S BY <1>1
    <3>2. f[k] \in Seq(S) /\ Range(f[k]) = Part(k) BY <1>1, <2>2
    <3>3. \A i : i \in 1..(k + 1) <=> i \in 1..k \/ i = k + 1 OBVIOUS
    <3>4. f[k + 1] = IF x.kind = kind THEN Append(f[k], x) ELSE f[k] BY <1>3, <3>1
    <3>7. Part(k + 1) = Part(k) \cup (IF x.kind = kind THEN {x} ELSE {}) BY <3>1, <3>3
    <3> HIDE DEF Part, x
    <3>5. CASE x.kind = kind
      <4>1. Append(f[k], x) \in Seq(S) /\ Range(Append(f[k], x)) = Range(f[k]) \cup {x}
        BY <3>1, <3>2, RangeAppend
      <4> QED BY <3>2, <3>4, <3>5, <3>7, <4>1
    <3>6. CASE x.kind # kind BY <3>2, <3>4, <3>6, <3>7
    <3> QED BY <3>5, <3>6
  <2> HIDE DEF T
  <2> QED BY <2>1, <2>2, NaturalInduction
<1>5. f[Len(b)] \in Seq(S) /\ Range(f[Len(b)]) = Part(Len(b))
  <2>1. Len(b) \in T
    <3> HIDE DEF T
    <3> QED BY <1>1, <1>4
  <2>2. Len(b) <= Len(b) BY <1>1
  <2> HIDE DEF Part
  <2> QED BY <2>1, <2>2
<1>6. Part(Len(b)) = {t \in Range(b) : t.kind = kind} BY <1>1 DEF Range
<1> QED BY <1>2, <1>5, <1>6

\* If there is an element of the kind, the first and the last that are selected
\* are of it.
LEMMA OfKindEnds ==
    ASSUME NEW S, NEW b \in Seq(S), NEW kind
    PROVE  LET s == OfKind(b, kind)
           IN  /\ s = <<>> <=> \A t \in Range(b) : t.kind # kind
               /\ s # <<>> => /\ s[1] \in Range(s) /\ Last(s) \in Range(s)
                              /\ Len(s) \in Nat /\ DOMAIN s = 1..Len(s) /\ Len(s) # 0
<1> DEFINE s == OfKind(b, kind)
<1>1. s \in Seq(S) /\ Range(s) = {t \in Range(b) : t.kind = kind} BY OfKindElements
<1> HIDE DEF s
<1>2. Len(s) \in Nat /\ DOMAIN s = 1..Len(s) /\ (s = <<>> <=> Len(s) = 0)
  BY <1>1, LenProperties, EmptySeq
<1>3. s # <<>> => s[1] \in Range(s) /\ s[Len(s)] \in Range(s) BY <1>2 DEF Range
<1>4. s = <<>> => Range(s) = {} BY <1>2 DEF Range
<1>5. s = <<>> <=> \A t \in Range(b) : t.kind # kind BY <1>1, <1>3, <1>4
<1> QED BY <1>2, <1>3, <1>5 DEF Last, s

-----------------------------------------------------------------------------
\* The tokens of a request.

\* The length is the value of the last digit, and no digit has a greater one.
LEMMA ContentLengthType ==
    ASSUME NEW r \in Requests
    PROVE  /\ Len(r.digits) \in Nat /\ ContentLength(r) \in Nat
           /\ r.digits = <<>> <=> Len(r.digits) = 0
           /\ \A i \in 1..Len(r.digits) : r.digits[i] \in 0..ContentLength(r)
           /\ r.digits # <<>> => ContentLength(r) = r.digits[Len(r.digits)]
           /\ r.digits = <<>> => ContentLength(r) = 0
           /\ r.units \in Nat /\ ContentLength(r) <= r.units
           /\ r.digits # <<>> => r.units = ContentLength(r) /\ r.coding = "identity"
<1>1. /\ r.units \in Nat
      /\ r.digits # <<>> => r.units = Last(r.digits) /\ r.coding = "identity"
  BY RequestsAssumption DEF Request
<1> DEFINE d == r.digits
<1>2. d \in Seq(Nat) BY RequestsAssumption DEF Request
<1>3. \A i, j \in 1..Len(d) : i <= j => d[i] <= d[j] BY RequestsAssumption
<1>4. ContentLength(r) = IF d = <<>> THEN 0 ELSE d[Len(d)]
  BY DEF ContentLength, Last
<1> HIDE DEF d
<1>5. Len(d) \in Nat /\ (d = <<>> <=> Len(d) = 0) /\ \A i \in 1..Len(d) : d[i] \in Nat
  BY <1>2, LenProperties, EmptySeq, ElementOfSeq
<1>6. d # <<>> => Len(d) \in 1..Len(d) BY <1>5
<1>7. ContentLength(r) \in Nat BY <1>4, <1>5, <1>6
<1>8. ASSUME NEW i \in 1..Len(d) PROVE d[i] \in 0..ContentLength(r)
  <2>1. d # <<>> /\ i <= Len(d) BY <1>5
  <2>2. d[i] <= d[Len(d)] /\ d[i] \in Nat BY <1>3, <1>5, <1>6, <2>1
  <2> QED BY <1>4, <1>7, <2>1, <2>2
<1>9. /\ ContentLength(r) <= r.units
      /\ d # <<>> => r.units = ContentLength(r) /\ r.coding = "identity"
  BY <1>1, <1>4, <1>7 DEF d, Last
<1> QED BY <1>1, <1>4, <1>5, <1>7, <1>8, <1>9 DEF d

\* The tokens behind the body.
Chunked(r) == IF r.coding = "chunked" THEN 1 ELSE 0

\* Where the tokens of a request are.
LEMMA TokensAt ==
    ASSUME NEW n \in 1..MaxRequests, NEW r \in Requests
    PROVE  LET T == Tokens(n, r)
               h == Len(r.digits) + 2
           IN  /\ T \in Seq(Token) /\ Len(T) = h + r.units + Chunked(r)
               /\ h \in Nat /\ h >= 2
               /\ T[1] = [n |-> n, kind |-> "head", i |-> 0]
               /\ \A i \in 1..Len(r.digits) :
                      T[1 + i] = [n |-> n, kind |-> "digit", i |-> i]
               /\ T[h] = [n |-> n, kind |-> "end", i |-> 0]
               /\ \A i \in 1..r.units : T[h + i] = [n |-> n, kind |-> "body", i |-> i]
               /\ Chunked(r) = 1 =>
                      T[h + r.units + 1] = [n |-> n, kind |-> "last", i |-> 0]
<1> DEFINE d == Len(r.digits)
           c == r.units
           L == [n |-> n, kind |-> "last", i |-> 0]
           O == IF r.coding = "chunked" THEN <<L>> ELSE <<>>
           H == [n |-> n, kind |-> "head", i |-> 0]
           D == [i \in 1..d |-> [n |-> n, kind |-> "digit", i |-> i]]
           E == [n |-> n, kind |-> "end", i |-> 0]
           B == [i \in 1..c |-> [n |-> n, kind |-> "body", i |-> i]]
<1>1. d \in Nat /\ c \in Nat BY ContentLengthType
<1>2. Tokens(n, r) = (((<<H>> \o D) \o <<E>>) \o B) \o O BY DEF Tokens
<1>3. H \in Token /\ E \in Token /\ L \in Token BY DEF Token, Kinds
<1>4. O \in Seq(Token) /\ Len(O) = Chunked(r) /\ (Chunked(r) = 1 => O[1] = L)
  <2> HIDE DEF L
  <2>1. CASE r.coding = "chunked" BY <1>3, <2>1 DEF Chunked
  <2>2. CASE r.coding # "chunked" BY <2>2 DEF Chunked
  <2> QED BY <2>1, <2>2
<1> HIDE DEF d, c, H, E, L, O
<1>5. D \in [1..d -> Token] /\ B \in [1..c -> Token]
  BY <1>1 DEF Token, Kinds
<1>6. D \in Seq(Token) /\ Len(D) = d /\ B \in Seq(Token) /\ Len(B) = c
  BY <1>1, <1>5 
<1>7. /\ \A i \in 1..d : D[i] = [n |-> n, kind |-> "digit", i |-> i]
      /\ \A i \in 1..c : B[i] = [n |-> n, kind |-> "body", i |-> i]
  OBVIOUS
<1>8. /\ <<H>> \in Seq(Token) /\ Len(<<H>>) = 1 /\ <<H>>[1] = H
      /\ <<E>> \in Seq(Token) /\ Len(<<E>>) = 1 /\ <<E>>[1] = E
  BY <1>3
<1> HIDE DEF D, B
<1> DEFINE P == <<H>> \o D
           Q == P \o <<E>>
           R == Q \o B
           T == R \o O
<1>9. /\ P \in Seq(Token) /\ Len(P) = 1 + d /\ P[1] = H
      /\ \A i \in 1..d : P[1 + i] = D[i]
  <2> DEFINE h == <<H>>
  <2>1. h \in Seq(Token) /\ Len(h) = 1 /\ h[1] = H BY <1>8
  <2> HIDE DEF h
  <2>2. /\ h \o D \in Seq(Token) /\ Len(h \o D) = Len(h) + Len(D)
        /\ \A i \in 1..Len(h) : (h \o D)[i] = h[i]
        /\ \A i \in 1..Len(D) : (h \o D)[Len(h) + i] = D[i]
    <3>1. h \in Seq(Token) /\ D \in Seq(Token) BY <1>6, <2>1
    <3> QED BY <3>1, ConcatAt
  <2>3. (h \o D)[1] = H BY <2>1, <2>2
  <2> QED BY <1>6, <2>1, <2>2, <2>3 DEF h
<1> HIDE DEF P
<1>10. /\ Q \in Seq(Token) /\ Len(Q) = d + 2 /\ Q[d + 2] = E
      /\ \A i \in 1..(1 + d) : Q[i] = P[i]
  <2> DEFINE e == <<E>>
  <2>1. e \in Seq(Token) /\ Len(e) = 1 /\ e[1] = E BY <1>8
  <2> HIDE DEF e
  <2>2. /\ P \o e \in Seq(Token) /\ Len(P \o e) = Len(P) + Len(e)
        /\ \A i \in 1..Len(P) : (P \o e)[i] = P[i]
        /\ \A i \in 1..Len(e) : (P \o e)[Len(P) + i] = e[i]
    <3>1. P \in Seq(Token) /\ e \in Seq(Token) BY <1>9, <2>1
    <3> QED BY <3>1, ConcatAt
  <2>3. (P \o e)[Len(P) + 1] = E /\ Len(P) + 1 = d + 2 BY <1>1, <1>9, <2>1, <2>2
  <2>4. Len(P \o e) = d + 2 BY <1>1, <1>9, <2>1, <2>2
  <2>5. P \o e \in Seq(Token) /\ \A i \in 1..(1 + d) : (P \o e)[i] = P[i]
    BY <1>9, <2>2
  <2>6. (P \o e)[d + 2] = E BY <2>3
  <2> QED BY <2>4, <2>5, <2>6 DEF e
<1> HIDE DEF Q
<1>11. /\ R \in Seq(Token) /\ Len(R) = (d + 2) + c
       /\ \A i \in 1..(d + 2) : R[i] = Q[i]
       /\ \A i \in 1..c : R[(d + 2) + i] = B[i]
  <2>1. Q \in Seq(Token) /\ B \in Seq(Token) BY <1>6, <1>10
  <2>2. /\ Q \o B \in Seq(Token) /\ Len(Q \o B) = Len(Q) + Len(B)
        /\ \A i \in 1..Len(Q) : (Q \o B)[i] = Q[i]
        /\ \A i \in 1..Len(B) : (Q \o B)[Len(Q) + i] = B[i]
    BY <2>1, ConcatAt
  <2> QED BY <1>6, <1>10, <2>2
<1> HIDE DEF R
<1>12. /\ T \in Seq(Token) /\ Len(T) = ((d + 2) + c) + Chunked(r)
       /\ \A i \in 1..((d + 2) + c) : T[i] = R[i]
       /\ Chunked(r) = 1 => T[((d + 2) + c) + 1] = L
  <2>1. /\ R \o O \in Seq(Token) /\ Len(R \o O) = Len(R) + Len(O)
        /\ \A i \in 1..Len(R) : (R \o O)[i] = R[i]
        /\ \A i \in 1..Len(O) : (R \o O)[Len(R) + i] = O[i]
    <3>1. R \in Seq(Token) /\ O \in Seq(Token) BY <1>4, <1>11
    <3> QED BY <3>1, ConcatAt
  <2>2. Chunked(r) = 1 => (R \o O)[Len(R) + 1] = L BY <1>4, <2>1
  <2> QED BY <1>4, <1>11, <2>1, <2>2
<1> HIDE DEF T
<1>13. /\ \A i \in 1..(d + 2) : T[i] = Q[i]
       /\ \A i \in 1..c : T[(d + 2) + i] = B[i]
  <2>1. ASSUME NEW i \in 1..(d + 2) PROVE T[i] = Q[i]
    <3>1. i \in 1..((d + 2) + c) BY <1>1
    <3> QED BY <1>11, <1>12, <3>1
  <2>2. ASSUME NEW i \in 1..c PROVE T[(d + 2) + i] = B[i]
    <3>1. (d + 2) + i \in 1..((d + 2) + c) BY <1>1
    <3> QED BY <1>11, <1>12, <3>1
  <2> QED BY <2>1, <2>2
<1>14. T[1] = H /\ T[d + 2] = E BY <1>1, <1>9, <1>10, <1>13
<1>15. ASSUME NEW i \in 1..d PROVE T[1 + i] = [n |-> n, kind |-> "digit", i |-> i]
  <2>1. 1 + i \in 1..(1 + d) /\ 1 + i \in 1..(d + 2) BY <1>1
  <2>2. T[1 + i] = D[i] BY <1>9, <1>10, <1>13, <2>1
  <2> QED BY <1>7, <2>2
<1>16. \A i \in 1..c : T[(d + 2) + i] = [n |-> n, kind |-> "body", i |-> i]
  BY <1>7, <1>13
<1>17. Tokens(n, r) = T BY <1>2 DEF T, R, Q, P
<1>18. d + 2 \in Nat /\ d + 2 >= 2 BY <1>1
<1> QED BY <1>12, <1>14, <1>15, <1>16, <1>17, <1>18 DEF d, c, H, E, L

-----------------------------------------------------------------------------
\* What has arrived of a request.

\* b is how the request r, the n-th, begins.
Piece(b, n, r) ==
    /\ b \in Seq(Token) /\ Len(b) <= Len(Tokens(n, r))
    /\ \A i \in 1..Len(b) : b[i] = Tokens(n, r)[i]

\* Everything in a piece is of the request; the end of the head is in it from its
\* position on, and the digits then are too.
LEMMA PieceElements ==
    ASSUME NEW n \in 1..MaxRequests, NEW r \in Requests, NEW b, Piece(b, n, r)
    PROVE  LET h == Len(r.digits) + 2
           IN  /\ \A t \in Range(b) : t.n = n /\ (t.kind = "digit" => t.i \in 1..Len(r.digits))
               /\ b # <<>> => b[1] \in Range(b) /\ b[1].kind = "head"
               /\ Len(b) >= h <=> \E t \in Range(b) : t.kind = "end"
               /\ Len(b) >= h => \A i \in 1..Len(r.digits) :
                                     [n |-> n, kind |-> "digit", i |-> i] \in Range(b)
<1> DEFINE d == Len(r.digits)
           c == r.units
           o == Chunked(r)
           h == d + 2
           T == Tokens(n, r)
<1>1. d \in Nat /\ c \in Nat /\ o \in {0, 1} BY ContentLengthType DEF Chunked
<1>2. /\ Len(T) = h + c + o
      /\ T[1] = [n |-> n, kind |-> "head", i |-> 0]
      /\ \A i \in 1..d : T[1 + i] = [n |-> n, kind |-> "digit", i |-> i]
      /\ T[h] = [n |-> n, kind |-> "end", i |-> 0]
      /\ \A i \in 1..c : T[h + i] = [n |-> n, kind |-> "body", i |-> i]
      /\ o = 1 => T[h + c + 1] = [n |-> n, kind |-> "last", i |-> 0]
  BY TokensAt
<1>3. /\ Len(b) \in Nat /\ DOMAIN b = 1..Len(b) /\ Len(b) <= h + c + o
      /\ \A i \in 1..Len(b) : b[i] = T[i]
      /\ b # <<>> => Len(b) # 0
  BY <1>2, LenProperties, EmptySeq DEF Piece
<1> HIDE DEF d, c, o, T
<1>4. Range(b) = {T[i] : i \in 1..Len(b)} BY <1>3 DEF Range
<1>5. ASSUME NEW i \in 1..Len(b)
      PROVE  \/ i = 1
             \/ \E j \in 1..d : i = 1 + j
             \/ i = h
             \/ \E j \in 1..c : i = h + j
             \/ o = 1 /\ i = h + c + 1
  <2>1. i - 1 \in 1..d => \E j \in 1..d : i = 1 + j BY <1>1
  <2>2. i - h \in 1..c => \E j \in 1..c : i = h + j BY <1>1
  <2>3. i = 1 \/ i - 1 \in 1..d \/ i = h \/ i - h \in 1..c \/ (o = 1 /\ i = h + c + 1)
    BY <1>1, <1>3
  <2> QED BY <2>1, <2>2, <2>3
<1>6. ASSUME NEW i \in 1..Len(b)
      PROVE  /\ T[i].n = n
             /\ T[i].kind = "digit" => T[i].i \in 1..d
             /\ T[i].kind = "end" => i = h
  <2>1. CASE i = 1 BY <1>2, <2>1
  <2>2. CASE \E k \in 1..d : i = 1 + k
    <3>1. PICK k \in 1..d : i = 1 + k BY <2>2
    <3>2. T[i] = [n |-> n, kind |-> "digit", i |-> k] BY <1>2, <3>1
    <3> QED BY <3>2
  <2>3. CASE i = h BY <1>2, <2>3
  <2>4. CASE \E k \in 1..c : i = h + k
    <3>1. PICK k \in 1..c : i = h + k BY <2>4
    <3>2. T[i] = [n |-> n, kind |-> "body", i |-> k] BY <1>2, <3>1
    <3> QED BY <3>1, <3>2
  <2>5. CASE o = 1 /\ i = h + c + 1 BY <1>2, <2>5
  <2> QED BY <1>5, <2>1, <2>2, <2>3, <2>4, <2>5
<1>7. \A t \in Range(b) : t.n = n /\ (t.kind = "digit" => t.i \in 1..d)
  BY <1>4, <1>6
<1>8. b # <<>> => b[1] \in Range(b) /\ b[1].kind = "head"
  <2>1. b # <<>> => 1 \in 1..Len(b) BY <1>3
  <2> QED BY <1>2, <1>3, <1>4, <2>1
<1>9. ASSUME Len(b) >= h PROVE \E t \in Range(b) : t.kind = "end"
  <2>1. h \in 1..Len(b) BY <1>1, <1>3, <1>9
  <2> QED BY <1>2, <1>4, <2>1
<1>10. ASSUME NEW t \in Range(b), t.kind = "end" PROVE Len(b) >= h
  <2>1. PICK i \in 1..Len(b) : t = T[i] BY <1>4
  <2>2. i = h BY <1>6, <1>10, <2>1
  <2> QED BY <1>1, <1>3, <2>2
<1>11. ASSUME Len(b) >= h, NEW i \in 1..d
       PROVE  [n |-> n, kind |-> "digit", i |-> i] \in Range(b)
  <2>1. 1 + i \in 1..Len(b) BY <1>1, <1>3, <1>11
  <2> QED BY <1>2, <1>4, <2>1
<1> QED BY <1>7, <1>8, <1>9, <1>10, <1>11 DEF d

\* The body of a piece is the units that have arrived, in order.
LEMMA PieceBody ==
    ASSUME NEW n \in 1..MaxRequests, NEW r \in Requests, NEW b, Piece(b, n, r)
    PROVE  LET h == Len(r.digits) + 2
               units == IF Len(b) <= h THEN 0
                        ELSE IF Len(b) - h <= r.units THEN Len(b) - h ELSE r.units
           IN  OfKind(b, "body") = [i \in 1..units |-> [n |-> n, kind |-> "body", i |-> i]]
<1> DEFINE d == Len(r.digits)
           c == r.units
           o == Chunked(r)
           h == d + 2
           T == Tokens(n, r)
           U(k) == IF k <= h THEN 0 ELSE IF k - h <= c THEN k - h ELSE c
           B(k) == [i \in 1..U(k) |-> [n |-> n, kind |-> "body", i |-> i]]
<1>1. d \in Nat /\ c \in Nat /\ o \in {0, 1} BY ContentLengthType DEF Chunked
<1>2. /\ Len(T) = h + c + o
      /\ T[1] = [n |-> n, kind |-> "head", i |-> 0]
      /\ \A i \in 1..d : T[1 + i] = [n |-> n, kind |-> "digit", i |-> i]
      /\ T[h] = [n |-> n, kind |-> "end", i |-> 0]
      /\ \A i \in 1..c : T[h + i] = [n |-> n, kind |-> "body", i |-> i]
      /\ o = 1 => T[h + c + 1] = [n |-> n, kind |-> "last", i |-> 0]
  BY TokensAt
<1>3. /\ Len(b) \in Nat /\ Len(b) <= h + c + o /\ b \in Seq(Token)
      /\ \A i \in 1..Len(b) : b[i] = T[i]
  BY <1>2, LenProperties DEF Piece
<1>4. PICK f : Selects(f, b, "body") /\ OfKind(b, "body") = f[Len(b)] BY <1>3, OfKindIs
<1>5. /\ f[0] = <<>>
      /\ \A k \in Nat : k + 1 \in 1..Len(b) =>
             f[k + 1] = IF b[k + 1].kind = "body" THEN Append(f[k], b[k + 1]) ELSE f[k]
  BY <1>3, <1>4, SelectsSteps
<1> HIDE DEF d, c, o, T
<1> DEFINE S == {k \in Nat : k <= Len(b) => f[k] = B(k)}
<1>6. 0 \in S
  <2>1. B(0) = <<>> BY <1>1
  <2> HIDE DEF B
  <2> QED BY <1>5, <2>1
<1>7. ASSUME NEW k \in Nat, k \in S PROVE k + 1 \in S
  <2> SUFFICES ASSUME k + 1 <= Len(b) PROVE f[k + 1] = B(k + 1)
    BY k + 1 \in Nat
  <2>1. k + 1 \in 1..Len(b) /\ k <= Len(b) BY <1>3
  <2>2. f[k] = B(k) BY <1>7, <2>1
  <2>3. b[k + 1] = T[k + 1] BY <1>3, <2>1
  <2>4. f[k + 1] = IF T[k + 1].kind = "body" THEN Append(f[k], T[k + 1]) ELSE f[k]
    BY <1>5, <2>1, <2>3
  <2>5. CASE k + 1 <= h
    <3>1. k + 1 = 1 \/ (k \in 1..d) \/ k + 1 = h BY <1>1, <2>5
    <3>2. T[k + 1].kind # "body"
      <4> HIDE DEF B, S
      <4>1. CASE k + 1 = 1 BY <1>2, <4>1
      <4>2. CASE k \in 1..d
        <5>1. T[1 + k] = [n |-> n, kind |-> "digit", i |-> k] BY <1>2, <4>2
        <5>2. T[1 + k].kind = "digit" BY <5>1
        <5>3. 1 + k = k + 1 OBVIOUS
        <5> QED BY <5>2, <5>3
      <4>3. CASE k + 1 = h BY <1>2, <4>3
      <4> QED BY <3>1, <4>1, <4>2, <4>3
    <3>3. B(k + 1) = B(k) BY <1>1, <2>5
    <3> HIDE DEF B
    <3> QED BY <2>2, <2>4, <3>2, <3>3
  <2>6. CASE k + 1 > h + c
    <3>1. o = 1 /\ k + 1 = h + c + 1 BY <1>1, <1>3, <2>1, <2>6
    <3>2. T[k + 1].kind # "body" BY <1>2, <3>1
    <3>3. U(k) = c /\ U(k + 1) = c BY <1>1, <3>1
    <3>4. B(k + 1) = B(k) BY <3>3
    <3> HIDE DEF B
    <3> QED BY <2>2, <2>4, <3>2, <3>4
  <2>7. CASE ~(k + 1 <= h) /\ ~(k + 1 > h + c)
    <3> DEFINE j == (k + 1) - h
               m == k - h
    <3>1. j \in 1..c /\ h + j = k + 1 /\ m \in Nat /\ j = m + 1 BY <1>1, <1>3, <2>1, <2>7
    <3>2. T[k + 1] = [n |-> n, kind |-> "body", i |-> j] BY <1>2, <3>1
    <3>9. U(k) = m /\ U(k + 1) = j BY <1>1, <2>7
    <3>3. B(k) = [i \in 1..m |-> [n |-> n, kind |-> "body", i |-> i]] BY <3>9
    <3>4. B(k + 1) = [i \in 1..j |-> [n |-> n, kind |-> "body", i |-> i]] BY <3>9
    <3> HIDE DEF B, j, m
    <3> DEFINE s == [i \in 1..m |-> [n |-> n, kind |-> "body", i |-> i]]
               x == [n |-> n, kind |-> "body", i |-> j]
               t == [i \in 1..j |-> [n |-> n, kind |-> "body", i |-> i]]
    <3>5. Append(s, x) = t
      <4>1. s \in Seq(Token) /\ Len(s) = m /\ x \in Token
        <5>1. s \in [1..m -> Token] /\ x \in Token BY <3>1 DEF Token, Kinds
        <5> HIDE DEF s, x
        <5> QED BY <3>1, <5>1
      <4>2. t \in Seq(Token) /\ Len(t) = m + 1
        <5>1. t \in [1..j -> Token] BY <3>1 DEF Token, Kinds
        <5>2. j \in Nat BY <3>1
        <5> HIDE DEF t
        <5>3. t \in Seq(Token) /\ Len(t) = j BY <5>1, <5>2
        <5> QED BY <3>1, <5>3
      <4>3. \A i \in 1..m : t[i] = s[i] BY <3>1
      <4>4. t[m + 1] = x BY <3>1
      <4> HIDE DEF s, x, t
      <4>5. /\ Append(s, x) \in Seq(Token) /\ Len(Append(s, x)) = m + 1
            /\ \A i \in 1..m : Append(s, x)[i] = s[i]
            /\ Append(s, x)[m + 1] = x
        BY <4>1, AppendProperties
      <4>6. \A i \in 1..(m + 1) : Append(s, x)[i] = t[i] BY <3>1, <4>3, <4>4, <4>5
      <4> QED BY <4>2, <4>5, <4>6, SeqEqual
    <3>6. T[k + 1] = x /\ x.kind = "body" BY <3>2
    <3>7. f[k] = s /\ B(k + 1) = t BY <2>2, <3>3, <3>4
    <3> HIDE DEF s, x, t
    <3>8. f[k + 1] = Append(s, x) BY <2>4, <3>6, <3>7
    <3> QED BY <3>5, <3>7, <3>8
  <2> QED BY <1>1, <2>5, <2>7, <2>6
<1>8. Nat \subseteq S
  <2> HIDE DEF S
  <2> QED BY <1>6, <1>7, NaturalInduction
<1>9. Len(b) \in S BY <1>3, <1>8
<1>10. Len(b) <= Len(b) BY <1>3
<1>11. f[Len(b)] = B(Len(b))
  <2> HIDE DEF B
  <2> QED BY <1>9, <1>10
<1> QED BY <1>4, <1>11 DEF d, c

-----------------------------------------------------------------------------
\* What the callbacks make of a buffer.

\* The elements of a concatenation are those of its parts.
LEMMA RangeConcat ==
    ASSUME NEW S, NEW s \in Seq(S), NEW t \in Seq(S)
    PROVE  /\ Range(s) \subseteq S /\ Range(s \o t) = Range(s) \cup Range(t)
<1> DEFINE m == Len(s)
           n == Len(t)
           u == s \o t
<1>1. /\ m \in Nat /\ DOMAIN s = 1..m /\ \A i \in 1..m : s[i] \in S
      /\ n \in Nat /\ DOMAIN t = 1..n
  BY LenProperties, ElementOfSeq
<1>2. /\ u \in Seq(S) /\ Len(u) = m + n
      /\ \A i \in 1..m : u[i] = s[i]
      /\ \A i \in 1..n : u[m + i] = t[i]
  BY ConcatAt
<1> HIDE DEF m, n, u
<1>3. DOMAIN u = 1..(m + n) BY <1>2, LenProperties
<1>4. ASSUME NEW i \in 1..(m + n) PROVE u[i] \in Range(s) \cup Range(t)
  <2>1. CASE i \in 1..m BY <1>1, <1>2, <2>1 DEF Range
  <2>2. CASE i \notin 1..m
    <3>1. i - m \in 1..n /\ m + (i - m) = i BY <1>1, <2>2
    <3>2. u[m + (i - m)] = t[i - m] BY <1>2, <3>1
    <3>3. u[i] = t[i - m] BY <3>1, <3>2
    <3> QED BY <1>1, <3>1, <3>3 DEF Range
  <2> QED BY <2>1, <2>2
<1>5. Range(u) \subseteq Range(s) \cup Range(t) BY <1>3, <1>4 DEF Range
<1>6. Range(s) \subseteq Range(u)
  <2>1. ASSUME NEW i \in 1..m PROVE s[i] \in Range(u)
    <3>1. i \in 1..(m + n) BY <1>1
    <3> QED BY <1>2, <1>3, <3>1 DEF Range
  <2> QED BY <1>1, <2>1 DEF Range
<1>7. Range(t) \subseteq Range(u)
  <2>1. ASSUME NEW i \in 1..n PROVE t[i] \in Range(u)
    <3>1. m + i \in 1..(m + n) BY <1>1
    <3> QED BY <1>2, <1>3, <3>1 DEF Range
  <2> QED BY <1>1, <2>1 DEF Range
<1>8. Range(s) \subseteq S BY <1>1 DEF Range
<1> QED BY <1>5, <1>6, <1>7, <1>8 DEF u

\* What is known of a request that was made.
LEMMA RequestType ==
    ASSUME script \in Seq(Requests), NEW n \in 1..Newest
    PROVE  /\ script[n] \in Requests /\ script[n].method \in Methods
           /\ script[n].digits \in Seq(Nat)
           /\ \A i \in 1..Len(script[n].digits) : script[n].digits[i] \in Nat
<1>1. script[n] \in Requests BY ElementOfSeq DEF Newest
<1>2. script[n].method \in Methods /\ script[n].digits \in Seq(Nat)
  BY <1>1, RequestsAssumption DEF Request
<1> QED BY <1>1, <1>2, ElementOfSeq

\* The length is that of the first request in the buffer, at a digit of its.
LEMMA LengthAt ==
    ASSUME TypeOK, Origins, NEW b \in Seq(Known), OfKind(b, "digit") # <<>>
    PROVE  LET digits == OfKind(b, "digit")
               first == {t \in Range(digits) : t.n = digits[1].n}
               m == Max({t.i : t \in first})
           IN  /\ digits[1] \in Range(b) /\ digits[1].n \in 1..Newest
               /\ m \in 1..Len(script[digits[1].n].digits)
               /\ \A t \in first : t.i <= m
<1> DEFINE digits == OfKind(b, "digit")
           n == digits[1].n
           first == {t \in Range(digits) : t.n = n}
           T == {t.i : t \in first}
<1>1. digits # <<>> /\ digits[1] \in Range(digits) BY OfKindEnds
<1>2. Range(digits) = {t \in Range(b) : t.kind = "digit"} BY OfKindElements
<1>3. Range(b) \subseteq Known BY RangeConcat
<1> HIDE DEF digits
<1>4. n \in 1..Newest /\ digits[1] \in Range(b) BY <1>1, <1>2, <1>3 DEF Known
<1> DEFINE d == Len(script[n].digits)
<1>5. d \in Nat
  <2>1. script[n].digits \in Seq(Nat) BY <1>4, RequestType DEF TypeOK
  <2> QED BY <2>1, LenProperties
<1>6. \A t \in first : t.i \in 1..d BY <1>2, <1>3 DEF Known
<1>7. digits[1] \in first BY <1>1
<1> HIDE DEF d, n, first
<1>8. T \subseteq 0..d /\ T \subseteq 1..d BY <1>5, <1>6
<1>9. T # {} BY <1>7
<1>10. \A t \in first : t.i \in T OBVIOUS
<1> HIDE DEF T
<1>11. Max(T) \in T /\ \A y \in T : y <= Max(T) BY <1>5, <1>8, <1>9, GreatestNatural
<1>12. Max(T) \in 1..d /\ \A t \in first : t.i <= Max(T) BY <1>8, <1>10, <1>11
<1> QED BY <1>4, <1>12 DEF T, first, d, n, digits

\* Whatever the buffer, the callbacks set what their fields may hold.
LEMMA CallbackTypes ==
    ASSUME TypeOK, Origins, NEW b \in Seq(Known), b # <<>>, Parsable(b)
    PROVE  /\ Url(b) \in 1..Newest
           /\ Method(b) \in Methods \cup {Unset}
           /\ \A l \in Nat \cup {NoValue} : Length(l, b) \in Nat \cup {NoValue}
<1>1. Range(b) \subseteq Known /\ script \in Seq(Requests) BY RangeConcat DEF TypeOK
<1>2. Url(b) \in 1..Newest
  <2> DEFINE heads == OfKind(b, "head")
  <2>1. b[1] \in Range(b)
    <3>1. Len(b) \in Nat /\ Len(b) # 0 /\ DOMAIN b = 1..Len(b) BY LenProperties, EmptySeq
    <3> QED BY <3>1 DEF Range
  <2>2. heads # <<>> BY <2>1, OfKindEnds DEF Parsable
  <2>3. Last(heads) \in Range(heads) BY <2>2, OfKindEnds
  <2>4. Last(heads) \in Range(b) BY <2>3, OfKindElements
  <2> QED BY <1>1, <2>4 DEF Url, Known
<1>3. Method(b) \in Methods \cup {Unset}
  <2> DEFINE named == {t \in Range(OfKind(b, "end")) : script[t.n].method # "unknown"}
             T == {t.n : t \in named}
  <2>1. Method(b) = IF named = {} THEN Unset ELSE script[Max(T)].method BY DEF Method
  <2>2. T \subseteq 1..Newest BY <1>1, OfKindElements DEF Known
  <2>3. named # {} => T # {} OBVIOUS
  <2>4. T \subseteq 0..Newest /\ Newest \in Nat BY <2>2 DEF Origins
  <2> HIDE DEF T, named
  <2>5. named # {} => Max(T) \in 1..Newest BY <2>2, <2>3, <2>4, GreatestNatural
  <2>6. named # {} => script[Max(T)].method \in Methods BY <1>1, <2>5, RequestType
  <2> QED BY <2>1, <2>6
<1>4. ASSUME NEW l \in Nat \cup {NoValue} PROVE Length(l, b) \in Nat \cup {NoValue}
  <2> DEFINE digits == OfKind(b, "digit")
             first == {t \in Range(digits) : t.n = digits[1].n}
             m == Max({t.i : t \in first})
  <2>1. Length(l, b) = IF l # NoValue \/ digits = <<>> THEN l
                       ELSE script[digits[1].n].digits[m]
    BY DEF Length
  <2>2. digits # <<>> => /\ digits[1].n \in 1..Newest
                        /\ m \in 1..Len(script[digits[1].n].digits)
    BY LengthAt
  <2> HIDE DEF digits, m
  <2>3. digits # <<>> => script[digits[1].n].digits[m] \in Nat
    BY <1>1, <2>2, RequestType
  <2> QED BY <2>1, <2>3
<1> QED BY <1>2, <1>3, <1>4

-----------------------------------------------------------------------------
\* Types, and that every token is of a request that was made.

\* A sequence over a set is one over a larger set.
LEMMA SeqInLarger ==
    ASSUME NEW S, NEW R, NEW s \in Seq(S), \A i \in 1..Len(s) : s[i] \in R
    PROVE  s \in Seq(R)
<1>1. Len(s) \in Nat /\ s = [i \in 1..Len(s) |-> s[i]] BY LenProperties
<1>2. s \in [1..Len(s) -> R] BY <1>1
<1> QED BY <1>1, <1>2

\* A part of a sequence, by positions.
LEMMA SubSeqAt ==
    ASSUME NEW S, NEW s \in Seq(S), NEW j \in Nat, NEW k \in Nat,
           j \in 1..(Len(s) + 1), k <= Len(s), j <= k + 1
    PROVE  /\ SubSeq(s, j, k) \in Seq(S) /\ Len(SubSeq(s, j, k)) = k + 1 - j
           /\ \A i \in 1..(k + 1 - j) : SubSeq(s, j, k)[i] = s[j + i - 1]
<1>1. Len(s) \in Nat /\ \A i \in 1..Len(s) : s[i] \in S BY LenProperties, ElementOfSeq
<1> DEFINE n == k + 1 - j
           f == [i \in 1..n |-> s[j + i - 1]]
<1>2. n \in Nat BY <1>1
<1>3. \A i \in 1..n : j + i - 1 \in 1..Len(s) BY <1>1
<1>4. f \in [1..n -> S] BY <1>1, <1>3
<1>5. \A i \in 1..n : f[i] = s[j + i - 1] OBVIOUS
<1>6. SubSeq(s, j, k) = f
  <2>1. SubSeq(s, j, k) = [i \in 1..(1 + k - j) |-> s[i + j - 1]] BY <1>1
  <2>2. 1 + k - j = n BY <1>1
  <2>3. \A i \in 1..n : i + j - 1 = j + i - 1 BY <1>1
  <2> QED BY <2>1, <2>2, <2>3
<1> HIDE DEF n, f
<1>7. f \in Seq(S) /\ Len(f) = n BY <1>2, <1>4
<1> QED BY <1>5, <1>6, <1>7 DEF n

\* A request as a whole is a piece of itself, and its tokens are known when it
\* is the newest.
LEMMA TokensKnown ==
    ASSUME script \in Seq(Requests), Newest \in 1..MaxRequests
    PROVE  /\ Asking \in Requests /\ Sent \in Seq(Token) /\ Sent \in Seq(Known)
           /\ Piece(Sent, Newest, Asking)
<1>1. Newest \in Nat /\ Newest \in 1..Newest OBVIOUS
<1>2. Asking \in Requests BY <1>1, RequestType DEF Asking
<1>3. Sent \in Seq(Token) BY <1>2, TokensAt DEF Sent
<1>4. Len(Sent) \in Nat /\ DOMAIN Sent = 1..Len(Sent) BY <1>3, LenProperties
<1>5. Piece(Sent, Newest, Asking) BY <1>3, <1>4 DEF Piece, Sent
<1>6. \A t \in Range(Sent) :
          t.n = Newest /\ (t.kind = "digit" => t.i \in 1..Len(Asking.digits))
  BY <1>2, <1>5, PieceElements
<1>7. ASSUME NEW i \in 1..Len(Sent) PROVE Sent[i] \in Known
  <2>1. Sent[i] \in Token /\ Sent[i] \in Range(Sent) BY <1>3, <1>4, ElementOfSeq DEF Range
  <2> QED BY <1>1, <1>6, <2>1 DEF Known, Asking
<1> QED BY <1>2, <1>3, <1>5, <1>7, SeqInLarger

\* What one parse leaves is a context, of the buffer that was parsed.
LEMMA ParsedType ==
    ASSUME TypeOK, Origins, wire # <<>>
    PROVE  LET b == context.buffer \o wire
           IN  /\ b \in Seq(Known) /\ b # <<>> /\ b \in Seq(Token)
               /\ Parsed(b) \in Context
               /\ Parsed(b).buffer = b /\ Parsed(b).url \in 0..Newest
<1> DEFINE b == context.buffer \o wire
<1>1. context.buffer \in Seq(Known) /\ wire \in Seq(Known) BY DEF Origins
<1>2. b \in Seq(Known) /\ Len(b) = Len(context.buffer) + Len(wire)
  BY <1>1, ConcatAt
<1>3. Len(context.buffer) \in Nat /\ Len(wire) \in Nat /\ Len(wire) # 0
  BY <1>1, LenProperties, EmptySeq
<1>4. b # <<>>
  <2>1. Len(b) # 0 BY <1>2, <1>3
  <2> QED BY <2>1, EmptySeq
<1>5. b \in Seq(Token)
  <2>1. \A i \in 1..Len(b) : b[i] \in Token BY <1>2, ElementOfSeq DEF Known
  <2> QED BY <1>2, <2>1, SeqInLarger
<1> HIDE DEF b
<1>6. Newest \in Nat /\ Newest <= MaxRequests /\ MaxRequests \in Nat
  BY RequestsAssumption DEF Origins
<1>7. /\ context.buffer \in Seq(Token) /\ context.url \in 0..MaxRequests
      /\ context.method \in Methods \cup {Unset}
      /\ context.length \in Nat \cup {NoValue} /\ context.body \in Seq(Token)
      /\ context.split \in SUBSET {"head", "body"}
      /\ context = [buffer |-> context.buffer, url |-> context.url,
                    method |-> context.method, length |-> context.length,
                    body |-> context.body, split |-> context.split]
  BY DEF TypeOK, Context
<1>8. context.url \in 0..Newest BY DEF Origins
<1>9. CASE Parsable(b)
  <2>1. /\ Url(b) \in 1..Newest
        /\ Method(b) \in Methods \cup {Unset}
        /\ \A l \in Nat \cup {NoValue} : Length(l, b) \in Nat \cup {NoValue}
    BY <1>2, <1>4, <1>9, CallbackTypes
  <2>2. Body(context.body, b) \in Seq(Token)
    <3>1. OfKind(b, "body") \in Seq(Token) BY <1>5, OfKindElements
    <3> QED BY <1>7, <3>1, ConcatProperties DEF Body
  <2>3. Split(b) \in SUBSET {"head", "body"} BY DEF Split
  <2>4. Length(context.length, b) \in Nat \cup {NoValue} BY <1>7, <2>1
  <2>5. Parsed(b) = [buffer |-> b, url |-> Url(b), method |-> Method(b),
                     length |-> Length(context.length, b),
                     body |-> Body(context.body, b),
                     split |-> context.split \cup Split(b)]
    BY <1>9 DEF Parsed
  <2>6. Url(b) \in 0..MaxRequests /\ Url(b) \in 0..Newest BY <1>6, <2>1
  <2>7. context.split \cup Split(b) \in SUBSET {"head", "body"} BY <1>7, <2>3
  <2>8. Parsed(b) \in Context BY <1>5, <2>1, <2>2, <2>4, <2>5, <2>6, <2>7 DEF Context
  <2> QED BY <1>2, <1>4, <1>5, <2>5, <2>6, <2>8 DEF b
<1>10. CASE ~Parsable(b)
  <2>1. Parsed(b) = [buffer |-> b, url |-> context.url,
                     method |-> context.method, length |-> context.length,
                     body |-> context.body, split |-> context.split \cup {"head"}]
    BY <1>7, <1>10 DEF Parsed
  <2>2. context.split \cup {"head"} \in SUBSET {"head", "body"} BY <1>7
  <2>3. Parsed(b) \in Context BY <1>5, <1>7, <2>1, <2>2 DEF Context
  <2> QED BY <1>2, <1>4, <1>5, <1>8, <2>1, <2>3 DEF b
<1> QED BY <1>9, <1>10

\* So is the context of a channel without one.
LEMMA NoContextType == NoContext \in Context /\ NoContext.buffer = <<>> /\ NoContext.url = 0
<1>1. <<>> \in Seq(Token) /\ 0 \in 0..MaxRequests BY RequestsAssumption, EmptySeq
<1> QED BY <1>1 DEF NoContext, Context

\* Both hold at the start.
LEMMA InitTypes == Init => TypeOK /\ Origins
<1> SUFFICES ASSUME Init PROVE TypeOK /\ Origins
  OBVIOUS
<1>1. PICK r \in Requests : script = <<r>> BY DEF Init
<1>2. script \in Seq(Requests) /\ Len(script) = 1 /\ Newest = 1
  BY <1>1 DEF Newest
<1>3. Newest \in 1..MaxRequests BY <1>2, RequestsAssumption
<1>4. tosend = Sent BY <1>2 DEF Init, Sent, Asking
<1>5. tosend \in Seq(Token) /\ tosend \in Seq(Known) BY <1>2, <1>3, <1>4, TokensKnown
<1>6. wire = <<>> /\ context = NoContext /\ answered = <<>> BY DEF Init
<1>7. \A S : <<>> \in Seq(S) OBVIOUS
<1>8. Len(answered) = 0 BY <1>6, EmptySeq
<1>9. TypeOK BY <1>2, <1>5, <1>6, <1>7, NoContextType DEF TypeOK
<1>10. context.url \in 0..Newest /\ context.buffer \in Seq(Known)
  BY <1>2, <1>6, <1>7, NoContextType
<1>11. Origins BY <1>3, <1>5, <1>6, <1>7, <1>8, <1>10 DEF Origins
<1> QED BY <1>9, <1>11

\* What a step of the peer leaves to be sent and read.
LEMMA SendTypes ==
    ASSUME TypeOK, Origins, NEW k \in 1..Len(tosend), Send(k)
    PROVE  /\ tosend' \in Seq(Known) /\ wire' \in Seq(Known)
           /\ wire' \o tosend' = wire \o tosend
<1> DEFINE n == Len(tosend)
           a == SubSeq(tosend, 1, k)
           c == SubSeq(tosend, k + 1, n)
<1>1. tosend \in Seq(Known) /\ wire \in Seq(Known) BY DEF Origins
<1>2. n \in Nat /\ k \in 1..n BY <1>1, LenProperties
<1>3. wire' = wire \o a /\ tosend' = c BY DEF Send
<1>4. a \in Seq(Known) /\ Len(a) = k /\ \A i \in 1..k : a[i] = tosend[i]
  <2>1. k \in Nat /\ 1 \in Nat /\ 1 \in 1..(Len(tosend) + 1) /\ k <= Len(tosend) /\ 1 <= k + 1
    BY <1>2
  <2>2. /\ a \in Seq(Known) /\ Len(a) = k + 1 - 1
        /\ \A i \in 1..(k + 1 - 1) : a[i] = tosend[1 + i - 1]
    BY <1>1, <2>1, SubSeqAt
  <2>3. k + 1 - 1 = k /\ \A i \in 1..k : 1 + i - 1 = i BY <1>2
  <2> HIDE DEF a
  <2> QED BY <2>2, <2>3
<1>5. c \in Seq(Known) /\ Len(c) = n - k /\ \A i \in 1..(n - k) : c[i] = tosend[k + i]
  <2>1. /\ k + 1 \in Nat /\ n \in Nat /\ k + 1 \in 1..(Len(tosend) + 1)
        /\ n <= Len(tosend) /\ k + 1 <= n + 1
    BY <1>2
  <2>2. /\ c \in Seq(Known) /\ Len(c) = n + 1 - (k + 1)
        /\ \A i \in 1..(n + 1 - (k + 1)) : c[i] = tosend[(k + 1) + i - 1]
    BY <1>1, <2>1, SubSeqAt
  <2>3. n + 1 - (k + 1) = n - k /\ \A i \in 1..(n - k) : (k + 1) + i - 1 = k + i BY <1>2
  <2> HIDE DEF c, n
  <2> QED BY <2>2, <2>3
<1> HIDE DEF a, c
<1>6. a \o c = tosend
  <2>1. /\ a \o c \in Seq(Known) /\ Len(a \o c) = Len(a) + Len(c)
        /\ \A i \in 1..Len(a) : (a \o c)[i] = a[i]
        /\ \A i \in 1..Len(c) : (a \o c)[Len(a) + i] = c[i]
    <3>1. a \in Seq(Known) /\ c \in Seq(Known) BY <1>4, <1>5
    <3> QED BY <3>1, ConcatAt
  <2>2. Len(a \o c) = n BY <1>2, <1>4, <1>5, <2>1
  <2>3. ASSUME NEW i \in 1..n PROVE (a \o c)[i] = tosend[i]
    <3>1. CASE i \in 1..k BY <1>4, <2>1, <3>1
    <3>2. CASE i \notin 1..k
      <4>1. i - k \in 1..(n - k) /\ k + (i - k) = i BY <1>2, <3>2
      <4>2. (a \o c)[k + (i - k)] = c[i - k] BY <1>4, <1>5, <2>1, <4>1
      <4>3. c[i - k] = tosend[k + (i - k)] BY <1>5, <4>1
      <4> QED BY <4>1, <4>2, <4>3
    <3> QED BY <3>1, <3>2
  <2> QED BY <1>1, <2>1, <2>2, <2>3, SeqEqual
<1>7. wire \o a \in Seq(Known) BY <1>1, <1>4, ConcatProperties
<1>8. (wire \o a) \o c = wire \o (a \o c)
  <2>1. \A x, y, z \in Seq(Known) : (x \o y) \o z = x \o (y \o z) BY ConcatAssociative
  <2>2. a \in Seq(Known) /\ c \in Seq(Known) BY <1>4, <1>5
  <2> QED BY <1>1, <2>1, <2>2
<1> QED BY <1>3, <1>5, <1>6, <1>7, <1>8

\* The buffer is parsed with what the wire has, and the request is answered or not.
LEMMA ReadCases ==
    ASSUME Read
    PROVE  LET q == Parsed(context.buffer \o wire)
           IN  /\ wire # <<>> /\ wire' = <<>> /\ script' = script /\ tosend' = tosend
               /\ \E method \in IF q.method = Unset THEN Methods ELSE {q.method} :
                      \/ /\ IsComplete(method, q)
                         /\ context' = NoContext /\ answered' = Append(answered, q)
                      \/ /\ ~IsComplete(method, q)
                         /\ context' = q /\ answered' = answered
<1> DEFINE q == Parsed(context.buffer \o wire)
<1>1. wire # <<>> /\ wire' = <<>> /\ script' = script /\ tosend' = tosend BY DEF Read
<1>2. \E method \in IF q.method = Unset THEN Methods ELSE {q.method} :
          IF IsComplete(method, q)
          THEN context' = NoContext /\ answered' = Append(answered, q)
          ELSE context' = q /\ UNCHANGED answered
  BY DEF Read
<1> HIDE DEF q
<1>3. \E method \in IF q.method = Unset THEN Methods ELSE {q.method} :
          \/ IsComplete(method, q) /\ context' = NoContext /\ answered' = Append(answered, q)
          \/ ~IsComplete(method, q) /\ context' = q /\ answered' = answered
  BY <1>2
<1> QED BY <1>1, <1>3 DEF q

\* Any sequence of requests knows the tokens of its last.
LEMMA TokensOwn ==
    ASSUME NEW m \in 1..MaxRequests, NEW t \in Seq(Requests), Len(t) = m
    PROVE  Tokens(m, t[m]) \in
               Seq({u \in Token : u.n \in 1..m /\ (u.kind = "digit" => u.i \in 1..Len(t[u.n].digits))})
<1> DEFINE T == Tokens(m, t[m])
           K == {u \in Token : u.n \in 1..m /\ (u.kind = "digit" => u.i \in 1..Len(t[u.n].digits))}
<1>1. t[m] \in Requests /\ m \in 1..m BY ElementOfSeq
<1>2. T \in Seq(Token) BY <1>1, TokensAt
<1>3. Len(T) \in Nat /\ DOMAIN T = 1..Len(T) BY <1>2, LenProperties
<1>4. Piece(T, m, t[m]) BY <1>2, <1>3 DEF Piece
<1> HIDE DEF T
<1>5. \A u \in Range(T) :
          u.n = m /\ (u.kind = "digit" => u.i \in 1..Len(t[m].digits))
  BY <1>1, <1>4, PieceElements
<1>6. \A i \in 1..Len(T) : T[i] \in Token /\ T[i] \in Range(T)
  BY <1>2, <1>3, ElementOfSeq DEF Range
<1>7. \A i \in 1..Len(T) : T[i] \in K BY <1>1, <1>5, <1>6
<1> HIDE DEF K
<1>8. T \in Seq(K) BY <1>2, <1>7, SeqInLarger
<1> QED BY <1>8 DEF T, K

\* Every step keeps the types, and the tokens those of requests that were made.
LEMMA StepTypes == TypeOK /\ Origins /\ [Next]_vars => TypeOK' /\ Origins'
<1> SUFFICES ASSUME TypeOK, Origins, [Next]_vars PROVE TypeOK' /\ Origins'
  OBVIOUS
<1>0. /\ script \in Seq(Requests) /\ context \in Context /\ answered \in Seq(Context)
      /\ Newest \in 1..MaxRequests /\ MaxRequests \in Nat
      /\ tosend \in Seq(Known) /\ wire \in Seq(Known) /\ context.buffer \in Seq(Known)
      /\ context.url \in 0..Newest
      /\ \A n \in 1..Len(answered) : answered[n].url \in 0..Newest
  BY RequestsAssumption DEF TypeOK, Origins
<1>1. \A s \in Seq(Known) : s \in Seq(Token)
  <2> SUFFICES ASSUME NEW s \in Seq(Known) PROVE s \in Seq(Token)
    OBVIOUS
  <2>1. \A i \in 1..Len(s) : s[i] \in Token BY ElementOfSeq DEF Known
  <2> QED BY <2>1, SeqInLarger
<1>2. ASSUME UNCHANGED script PROVE Known' = Known /\ Newest' = Newest
  BY <1>2 DEF Known, Newest
<1>3. ASSUME NEW k \in 1..Len(tosend), Send(k) PROVE TypeOK' /\ Origins'
  <2>1. tosend' \in Seq(Known) /\ wire' \in Seq(Known) BY <1>3, SendTypes
  <2>2. UNCHANGED <<script, context, answered>> BY <1>3 DEF Send
  <2>3. Known' = Known /\ Newest' = Newest BY <1>2, <2>2
  <2>4. TypeOK' BY <1>0, <1>1, <2>1, <2>2 DEF TypeOK
  <2>5. Origins' BY <1>0, <2>1, <2>2, <2>3 DEF Origins
  <2> QED BY <2>4, <2>5
<1>4. ASSUME NEW r \in Requests, NextRequest(r) PROVE TypeOK' /\ Origins'
  <2>1. /\ script' = Append(script, r) /\ Len(script) < MaxRequests
        /\ tosend' = Tokens(Len(script) + 1, r)
        /\ UNCHANGED <<wire, context, answered>>
    BY <1>4 DEF NextRequest
  <2>2. /\ script' \in Seq(Requests) /\ Newest' = Newest + 1
        /\ script'[Newest + 1] = r /\ \A n \in 1..Newest : script'[n] = script[n]
    BY <1>0, <2>1, AppendProperties DEF Newest
  <2>3. Newest' \in 1..MaxRequests BY <1>0, <2>1, <2>2 DEF Newest
  <2>4. \A n \in 1..Newest : n \in 1..Newest' BY <1>0, <2>2
  <2>5. \A t \in Known : t \in Known' BY <2>2, <2>4 DEF Known
  <2>6. ASSUME NEW s \in Seq(Known) PROVE s \in Seq(Known')
    <3>1. \A i \in 1..Len(s) : s[i] \in Known' BY <2>5, ElementOfSeq
    <3> QED BY <3>1, SeqInLarger
  <2>7. tosend' \in Seq(Known')
    <3>1. PICK m \in 1..MaxRequests : m = Newest' BY <2>3
    <3>2. PICK t \in Seq(Requests) : t = script' BY <2>2
    <3>3. Len(t) = m BY <3>1, <3>2 DEF Newest
    <3> DEFINE K == {u \in Token : u.n \in 1..m /\ (u.kind = "digit" => u.i \in 1..Len(t[u.n].digits))}
    <3>4. Tokens(m, t[m]) \in Seq(K) BY <3>3, TokensOwn
    <3>5. Known' = K BY <3>1, <3>2 DEF Known
    <3>6. t[m] = r /\ m = Len(script) + 1 BY <2>2, <3>1, <3>2 DEF Newest
    <3>7. tosend' = Tokens(m, t[m]) BY <2>1, <3>6
    <3> HIDE DEF K
    <3> QED BY <3>4, <3>5, <3>7
  <2>8. wire' \in Seq(Known') /\ context'.buffer \in Seq(Known') BY <1>0, <2>1, <2>6
  <2>9. tosend' \in Seq(Token)
    <3>1. \A i \in 1..Len(tosend') : tosend'[i] \in Token BY <2>7, ElementOfSeq DEF Known
    <3> QED BY <2>7, <3>1, SeqInLarger
  <2>10. \A u \in 0..Newest : u \in 0..Newest' BY <1>0, <2>2
  <2>11. TypeOK' BY <1>0, <1>1, <2>1, <2>2, <2>9 DEF TypeOK
  <2>12. Origins' BY <1>0, <2>1, <2>3, <2>7, <2>8, <2>10 DEF Origins
  <2> QED BY <2>11, <2>12
<1>5. ASSUME Read PROVE TypeOK' /\ Origins'
  <2> DEFINE b == context.buffer \o wire
             q == Parsed(b)
  <2>1. /\ wire # <<>> /\ wire' = <<>> /\ script' = script /\ tosend' = tosend
        /\ \E method \in IF q.method = Unset THEN Methods ELSE {q.method} :
               \/ /\ IsComplete(method, q)
                  /\ context' = NoContext /\ answered' = Append(answered, q)
               \/ /\ ~IsComplete(method, q)
                  /\ context' = q /\ answered' = answered
    BY <1>5, ReadCases
  <2>2. /\ q \in Context /\ q.buffer \in Seq(Known) /\ q.url \in 0..Newest
    BY <2>1, ParsedType
  <2> HIDE DEF q, b
  <2>3. Known' = Known /\ Newest' = Newest BY <1>2, <2>1
  <2>4. wire' \in Seq(Token) /\ wire' \in Seq(Known) BY <2>1, EmptySeq
  <2>5. NoContext.buffer \in Seq(Known) /\ NoContext.url \in 0..Newest /\ NoContext \in Context
    BY <1>0, NoContextType, EmptySeq
  <2>6. CASE context' = q /\ answered' = answered
    <3>1. TypeOK' BY <1>0, <1>1, <2>1, <2>2, <2>4, <2>6 DEF TypeOK
    <3>2. Origins' BY <1>0, <2>1, <2>2, <2>3, <2>4, <2>6 DEF Origins
    <3> QED BY <3>1, <3>2
  <2>7. CASE context' = NoContext /\ answered' = Append(answered, q)
    <3>1. /\ answered' \in Seq(Context) /\ Len(answered') = Len(answered) + 1
          /\ answered'[Len(answered) + 1] = q
          /\ \A n \in 1..Len(answered) : answered'[n] = answered[n]
      BY <1>0, <2>2, <2>7, AppendProperties
    <3>2. Len(answered) \in Nat BY <1>0, LenProperties
    <3>3. \A n \in 1..Len(answered') : n \in 1..Len(answered) \/ n = Len(answered) + 1
      BY <3>1, <3>2
    <3>4. \A n \in 1..Len(answered') : answered'[n].url \in 0..Newest
      BY <1>0, <2>2, <3>1, <3>3
    <3>5. TypeOK' BY <1>0, <1>1, <2>1, <2>4, <2>5, <2>7, <3>1 DEF TypeOK
    <3>6. Origins' BY <1>0, <2>1, <2>3, <2>4, <2>5, <2>7, <3>4 DEF Origins
    <3> QED BY <3>5, <3>6
  <2> QED BY <2>1, <2>6, <2>7
<1>6. ASSUME UNCHANGED vars PROVE TypeOK' /\ Origins'
  <2>1. UNCHANGED <<script, tosend, wire, context, answered>> BY <1>6 DEF vars
  <2>2. Known' = Known /\ Newest' = Newest BY <1>2, <2>1
  <2>3. TypeOK' BY <1>0, <1>1, <2>1 DEF TypeOK
  <2>4. Origins' BY <1>0, <2>1, <2>2 DEF Origins
  <2> QED BY <2>3, <2>4
<1> QED BY <1>3, <1>4, <1>5, <1>6 DEF Next

-----------------------------------------------------------------------------
\* What a piece of the newest request tells the context.

\* A piece is parsed from the head of its request, and its method is told with the
\* end of the head.
LEMMA PieceTold ==
    ASSUME TypeOK, Origins, NEW b, b # <<>>, Piece(b, Newest, Asking)
    PROVE  /\ Parsable(b) /\ Url(b) = Newest
           /\ Method(b) = IF Len(b) >= HeadEnd /\ Asking.method # "unknown"
                          THEN Asking.method ELSE Unset
           /\ OfKind(b, "end") # <<>> <=> Len(b) >= HeadEnd
<1>1. Newest \in 1..MaxRequests /\ Asking \in Requests BY TokensKnown DEF TypeOK, Origins
<1>2. /\ \A t \in Range(b) : t.n = Newest
      /\ b[1] \in Range(b) /\ b[1].kind = "head"
      /\ Len(b) >= HeadEnd <=> \E t \in Range(b) : t.kind = "end"
  BY <1>1, PieceElements DEF HeadEnd
<1>3. b \in Seq(Token) BY DEF Piece
<1>4. Url(b) = Newest
  <2> DEFINE heads == OfKind(b, "head")
  <2>1. heads # <<>> BY <1>2, <1>3, OfKindEnds
  <2>2. Last(heads) \in Range(heads) BY <1>3, <2>1, OfKindEnds
  <2>3. Last(heads) \in Range(b) BY <1>3, <2>2, OfKindElements
  <2> QED BY <1>2, <2>3 DEF Url
<1> DEFINE ends == OfKind(b, "end")
<1>5. ends # <<>> <=> Len(b) >= HeadEnd BY <1>2, <1>3, OfKindEnds
<1>6. \A t \in Range(ends) : t.n = Newest BY <1>2, <1>3, OfKindElements
<1>7. ends = <<>> <=> Range(ends) = {} BY <1>3, OfKindElements, OfKindEnds
<1> HIDE DEF ends
<1>8. Method(b) = IF ends # <<>> /\ Asking.method # "unknown" THEN Asking.method ELSE Unset
  <2> DEFINE named == {t \in Range(ends) : script[t.n].method # "unknown"}
             T == {t.n : t \in named}
  <2>1. Method(b) = IF named = {} THEN Unset ELSE script[Max(T)].method BY DEF Method, ends
  <2>2. named = IF Asking.method # "unknown" THEN Range(ends) ELSE {}
    BY <1>6 DEF Asking
  <2>3. named # {} => T = {Newest} BY <1>6
  <2>4. Newest \in Nat /\ {Newest} \subseteq 0..Newest BY <1>1
  <2>5. Max({Newest}) \in {Newest} BY <2>4, GreatestNatural
  <2> HIDE DEF named, T
  <2>6. named # {} => script[Max(T)] = Asking BY <2>3, <2>5 DEF Asking
  <2>7. named = {} <=> ends = <<>> \/ Asking.method = "unknown" BY <1>7, <2>2
  <2> QED BY <2>1, <2>6, <2>7
<1> QED BY <1>2, <1>4, <1>5, <1>8 DEF Parsable, ends

\* The length that a piece gives is at most the whole one, and it is the whole one
\* when the head has ended.
LEMMA PieceLength ==
    ASSUME TypeOK, Origins, NEW b \in Seq(Known), b # <<>>, Piece(b, Newest, Asking)
    PROVE  /\ Length(NoValue, b) # NoValue => Length(NoValue, b) \in 0..ContentLength(Asking)
           /\ Len(b) >= HeadEnd => Length(NoValue, b) = LastLength
<1> DEFINE digits == OfKind(b, "digit")
           n == digits[1].n
           first == {t \in Range(digits) : t.n = n}
           m == Max({t.i : t \in first})
           d == Len(Asking.digits)
           c == ContentLength(Asking)
<1>1. Newest \in 1..MaxRequests /\ Asking \in Requests BY TokensKnown DEF TypeOK, Origins
<1>2. /\ d \in Nat /\ c \in Nat
      /\ Asking.digits = <<>> <=> d = 0
      /\ \A i \in 1..d : Asking.digits[i] \in 0..c
      /\ Asking.digits # <<>> => c = Asking.digits[d]
  BY <1>1, ContentLengthType
<1>3. /\ \A t \in Range(b) : t.n = Newest /\ (t.kind = "digit" => t.i \in 1..d)
      /\ Len(b) >= HeadEnd => \A i \in 1..d :
                                 [n |-> Newest, kind |-> "digit", i |-> i] \in Range(b)
  BY <1>1, PieceElements DEF HeadEnd
<1>4. /\ Range(digits) = {t \in Range(b) : t.kind = "digit"}
      /\ digits = <<>> <=> \A t \in Range(b) : t.kind # "digit"
  BY OfKindElements, OfKindEnds
<1>5. Length(NoValue, b) = IF digits = <<>> THEN NoValue ELSE script[n].digits[m]
  BY DEF Length
<1>6. digits # <<>> => /\ digits[1] \in Range(b)
                      /\ m \in 1..Len(script[n].digits)
                      /\ \A t \in first : t.i <= m
  BY LengthAt
<1> HIDE DEF digits, m
<1>7. digits # <<>> => n = Newest /\ script[n] = Asking BY <1>3, <1>6 DEF Asking
<1>8. digits # <<>> => m \in 1..d /\ Length(NoValue, b) = Asking.digits[m]
  BY <1>5, <1>6, <1>7
<1>9. Length(NoValue, b) # NoValue => Length(NoValue, b) \in 0..c
  BY <1>2, <1>5, <1>8
<1>10. ASSUME Len(b) >= HeadEnd PROVE Length(NoValue, b) = LastLength
  <2>1. CASE Asking.digits = <<>>
    <3>1. digits = <<>> BY <1>2, <1>3, <1>4, <2>1
    <3> QED BY <1>5, <2>1, <3>1 DEF LastLength
  <2>2. CASE Asking.digits # <<>>
    <3> DEFINE last == [n |-> Newest, kind |-> "digit", i |-> d]
    <3>1. d \in 1..d BY <1>2, <2>2
    <3>2. last \in Range(b) /\ last.kind = "digit" /\ last.n = Newest /\ last.i = d
      BY <1>3, <1>10, <3>1
    <3> HIDE DEF last, d
    <3>3. digits # <<>> /\ last \in Range(digits) BY <1>4, <3>2
    <3>4. last \in first BY <1>7, <3>2, <3>3
    <3>5. d <= m BY <1>6, <3>2, <3>3, <3>4
    <3>6. m = d BY <1>2, <1>8, <3>3, <3>5
    <3> QED BY <1>2, <1>8, <2>2, <3>3, <3>6 DEF LastLength
  <2> QED BY <2>1, <2>2
<1> QED BY <1>9, <1>10

\* The positions of the newest request.
LEMMA SentFacts ==
    ASSUME TypeOK, Origins
    PROVE  /\ Newest \in 1..MaxRequests /\ Asking \in Requests /\ Asking.method \in Methods
           /\ HeadEnd \in Nat /\ Asking.units \in Nat
           /\ Sent \in Seq(Known) /\ Sent \in Seq(Token) /\ Piece(Sent, Newest, Asking)
           /\ Len(Sent) = HeadEnd + Asking.units + Chunked(Asking)
           /\ Len(OfKind(Sent, "body")) = Asking.units
<1>1. /\ Newest \in 1..MaxRequests /\ Asking \in Requests
      /\ Sent \in Seq(Known) /\ Sent \in Seq(Token) /\ Piece(Sent, Newest, Asking)
  BY TokensKnown DEF TypeOK, Origins
<1>2. Asking.method \in Methods BY <1>1, RequestsAssumption DEF Request
<1>3. Len(Asking.digits) \in Nat /\ Asking.units \in Nat BY <1>1, ContentLengthType
<1>4. HeadEnd \in Nat /\ HeadEnd = Len(Asking.digits) + 2 BY <1>3 DEF HeadEnd
<1>5. Len(Sent) = HeadEnd + Asking.units + Chunked(Asking)
  BY <1>1, <1>4, TokensAt DEF Sent
<1> DEFINE units == IF Len(Sent) <= HeadEnd THEN 0
                    ELSE IF Len(Sent) - HeadEnd <= Asking.units THEN Len(Sent) - HeadEnd
                    ELSE Asking.units
<1>6. OfKind(Sent, "body") = [i \in 1..units |-> [n |-> Newest, kind |-> "body", i |-> i]]
  BY <1>1, <1>4, PieceBody
<1>7. units = Asking.units BY <1>3, <1>4, <1>5 DEF Chunked
<1> HIDE DEF units
<1>8. Len(OfKind(Sent, "body")) = units BY <1>3, <1>6, <1>7
<1> QED BY <1>1, <1>2, <1>3, <1>4, <1>5, <1>7, <1>8

\* A piece as long as the request is the request.
LEMMA PieceWhole ==
    ASSUME TypeOK, Origins, NEW b, Piece(b, Newest, Asking), Len(b) = Len(Sent)
    PROVE  b = Sent
<1>1. b \in Seq(Token) /\ \A i \in 1..Len(b) : b[i] = Sent[i] BY DEF Piece, Sent
<1>2. Sent \in Seq(Token) BY SentFacts
<1> QED BY <1>1, <1>2, SeqEqual

\* However often the pieces of the newest request are parsed, the context says of
\* them what Reading says.
LEMMA ParsedReads ==
    ASSUME TypeOK, Origins, wire # <<>>,
           Piece(context.buffer \o wire, Newest, Asking),
           context = NoContext \/ Reading(context)
    PROVE  Reading(Parsed(context.buffer \o wire))
<1> DEFINE b == context.buffer \o wire
           q == Parsed(b)
           body == OfKind(b, "body")
           c == ContentLength(Asking)
<1>1. /\ b \in Seq(Known) /\ b # <<>> /\ b \in Seq(Token)
      /\ context.buffer \in Seq(Known) /\ wire \in Seq(Known)
      /\ context.body \in Seq(Token)
  BY ParsedType DEF Origins, TypeOK, Context
<1>2. Piece(b, Newest, Asking) OBVIOUS
<1>3. Range(context.buffer) \subseteq Range(b) BY <1>1, RangeConcat
<1> HIDE DEF b
<1>4. Newest \in 1..MaxRequests /\ Asking \in Requests /\ HeadEnd \in Nat
  <2>1. Newest \in 1..MaxRequests /\ Asking \in Requests BY TokensKnown DEF TypeOK, Origins
  <2>2. Len(Asking.digits) \in Nat BY <2>1, ContentLengthType
  <2> QED BY <2>1, <2>2 DEF HeadEnd
<1>5. /\ Parsable(b) /\ Url(b) = Newest
      /\ Method(b) = IF Len(b) >= HeadEnd /\ Asking.method # "unknown"
                     THEN Asking.method ELSE Unset
      /\ OfKind(b, "end") # <<>> <=> Len(b) >= HeadEnd
  BY <1>1, <1>2, PieceTold
<1>6. /\ Length(NoValue, b) # NoValue => Length(NoValue, b) \in 0..c
      /\ Len(b) >= HeadEnd => Length(NoValue, b) = LastLength
  BY <1>1, <1>2, PieceLength
<1>7. q = [buffer |-> b, url |-> Url(b), method |-> Method(b),
           length |-> Length(context.length, b),
           body |-> Body(context.body, b),
           split |-> context.split \cup Split(b)]
  BY <1>5 DEF Parsed
<1>8. /\ q.buffer = b /\ q.url = Newest
      /\ q.method = IF Len(b) >= HeadEnd /\ Asking.method # "unknown"
                    THEN Asking.method ELSE Unset
      /\ q.length = Length(context.length, b)
      /\ q.body = context.body \o body
      /\ q.split = context.split \cup Split(b)
  BY <1>5, <1>7 DEF Body
<1>9. /\ body \in Seq(Token)
      /\ Range(body) = {t \in Range(b) : t.kind = "body"}
      /\ body = <<>> <=> \A t \in Range(b) : t.kind # "body"
  BY <1>1, OfKindElements, OfKindEnds
<1>10. Len(body) \in Nat /\ (Len(b) = Len(Sent) => Len(body) = Asking.units)
  <2>1. Len(body) \in Nat BY <1>9, LenProperties
  <2>2. Len(b) = Len(Sent) => b = Sent BY <1>1, <1>2, PieceWhole
  <2>3. Len(OfKind(Sent, "body")) = Asking.units BY SentFacts
  <2> QED BY <2>1, <2>2, <2>3
<1>11. context.length \in Nat \cup {NoValue} /\ (context.length = NoValue \/ Reading(context))
  BY DEF TypeOK, Context, NoContext
<1>12. /\ context.length # NoValue => Length(context.length, b) = context.length
  BY DEF Length
<1> HIDE DEF q, body
<1>13. q.length # NoValue => q.length \in 0..c
  <2>1. CASE context.length = NoValue BY <1>6, <1>8, <2>1
  <2>2. CASE context.length # NoValue
    <3>1. context.length \in 0..c BY <1>11, <2>2 DEF Reading
    <3> QED BY <1>8, <1>12, <2>2, <3>1
  <2> QED BY <2>1, <2>2
<1>14. Len(q.buffer) = Len(Sent) => Len(q.body) >= Asking.units
  <2>1. Len(q.body) = Len(context.body) + Len(body) /\ Len(context.body) \in Nat
    BY <1>1, <1>8, <1>9, ConcatProperties, LenProperties
  <2>2. Asking.units \in Nat BY <1>4, ContentLengthType
  <2> QED BY <1>8, <1>10, <2>1, <2>2
<1>15. Range(context.body) \subseteq Range(context.buffer)
  <2>1. CASE context = NoContext
    <3>1. context.body = <<>> BY <2>1 DEF NoContext
    <3>2. Range(<<>>) = {} BY DEF Range
    <3> QED BY <3>1, <3>2
  <2>2. CASE Reading(context) BY <2>2 DEF Reading
  <2> QED BY <2>1, <2>2
<1>16. Range(q.body) \subseteq Range(q.buffer)
  <2>1. Range(q.body) = Range(context.body) \cup Range(body) BY <1>1, <1>8, <1>9, RangeConcat
  <2> QED BY <1>3, <1>8, <1>9, <1>15, <2>1
<1>17. ASSUME q.split = {}
       PROVE  Whole(q) /\ q.length = LastLength /\ q.body = OfKind(q.buffer, "body")
  <2>1. Split(b) = {} /\ context.split = {} BY <1>8, <1>17
  <2>2. OfKind(b, "end") # <<>> /\ (body = <<>> \/ context.body = <<>>)
    BY <2>1 DEF Split, body
  <2>3. Len(b) >= HeadEnd BY <1>5, <2>2
  <2>4. q.length = LastLength
    <3>1. CASE context = NoContext
      <4>1. context.length = NoValue BY <3>1 DEF NoContext
      <4> QED BY <1>6, <1>8, <2>3, <4>1
    <3>2. CASE Reading(context)
      <4>1. context.length = LastLength BY <2>1, <3>2 DEF Reading
      <4> QED BY <1>6, <1>8, <1>12, <2>3, <4>1
    <3> QED BY <3>1, <3>2
  <2>5. context.body = <<>>
    <3>1. CASE body = <<>>
      <4>1. Range(context.body) \subseteq Range(b) BY <1>3, <1>15
      <4>2. \A t \in Range(context.body) : t.kind = "body"
        <5>1. CASE context = NoContext
          <6>1. context.body = <<>> BY <5>1 DEF NoContext
          <6>2. Range(<<>>) = {} BY DEF Range
          <6> QED BY <6>1, <6>2
        <5>2. CASE Reading(context)
          <6>1. context.body = OfKind(context.buffer, "body") BY <2>1, <5>2 DEF Reading
          <6> QED BY <1>1, <6>1, OfKindElements
        <5> QED BY <5>1, <5>2
      <4>3. Range(context.body) = {} BY <1>9, <3>1, <4>1, <4>2
      <4>4. context.body # <<>> => context.body[1] \in Range(context.body)
        <5>1. /\ Len(context.body) \in Nat /\ DOMAIN context.body = 1..Len(context.body)
              /\ context.body # <<>> => Len(context.body) # 0
          BY <1>1, LenProperties, EmptySeq
        <5> QED BY <5>1 DEF Range
      <4> QED BY <4>3, <4>4
    <3> QED BY <2>2, <3>1
  <2>6. q.body = body BY <1>8, <1>9, <2>5, ConcatEmptySeq
  <2> QED BY <1>8, <2>3, <2>4, <2>6 DEF Whole, body
<1>18. q.method = IF Whole(q) /\ Asking.method # "unknown" THEN Asking.method ELSE Unset
  BY <1>8 DEF Whole
<1>19. Reading(q) BY <1>8, <1>13, <1>14, <1>16, <1>17, <1>18 DEF Reading
<1> QED BY <1>19 DEF q, b

-----------------------------------------------------------------------------
\* Exact, complete and whole.

\* atoi keeps a number that an int holds.
LEMMA AtoiFits ==
    ASSUME NEW number \in Nat, number < IntRange
    PROVE  Atoi(number) = number
<1>1. IntRange \in Nat BY RequestsAssumption
<1>2. number % (2 * IntRange) = number BY <1>1
<1> QED BY <1>2 DEF Atoi

\* A request that was not split, and is regular, is exact when it counts as
\* complete.
LEMMA CompleteIsExact ==
    ASSUME TypeOK, Origins, NEW c, Reading(c), Piece(c.buffer, Newest, Asking),
           c.split = {}, Regular(Asking), IsComplete(Asking.method, c)
    PROVE  Exact(c, Newest)
<1> DEFINE l == Asking.units
           b == c.buffer
           u == IF Len(b) <= HeadEnd THEN 0
                ELSE IF Len(b) - HeadEnd <= l THEN Len(b) - HeadEnd ELSE l
<1>1. /\ Newest \in 1..MaxRequests /\ Asking \in Requests
      /\ HeadEnd \in Nat /\ l \in Nat /\ Len(Sent) = HeadEnd + l
  BY SentFacts DEF Regular, Chunked
<1>2. Len(b) \in Nat /\ Len(b) <= HeadEnd + l
  <2>1. b \in Seq(Token) /\ Len(b) <= Len(Sent) BY DEF Piece, Sent
  <2> QED BY <1>1, <2>1, LenProperties
<1>3. /\ c.url = Newest /\ Len(b) >= HeadEnd /\ c.method = Asking.method
      /\ c.length = LastLength /\ c.body = OfKind(b, "body")
  BY DEF Reading, Whole, Regular
<1>4. c.body = [i \in 1..u |-> [n |-> Newest, kind |-> "body", i |-> i]]
  <2>1. Piece(b, Newest, Asking) OBVIOUS
  <2>2. Newest \in 1..MaxRequests /\ Asking \in Requests BY <1>1
  <2> HIDE DEF b
  <2>3. OfKind(b, "body") = [i \in 1..u |-> [n |-> Newest, kind |-> "body", i |-> i]]
    BY <2>1, <2>2, PieceBody DEF HeadEnd
  <2> QED BY <1>3, <2>3
<1>5. u \in Nat /\ u = Len(b) - HeadEnd BY <1>1, <1>2, <1>3
<1> HIDE DEF u
<1>6. Len(c.body) = u BY <1>4, <1>5
<1>7. u >= l
  <2>1. CASE l = 0 BY <1>5, <2>1
  <2>2. CASE l # 0
    <3>1. CanHaveBody(Asking.method) /\ Asking.digits # <<>> BY <1>1, <2>2 DEF Regular
    <3>2. ContentLength(Asking) = l /\ l = Last(Asking.digits)
      BY <1>1, <3>1, ContentLengthType DEF ContentLength
    <3>3. c.length = l /\ c.length # NoValue BY <1>1, <1>3, <3>1, <3>2 DEF LastLength, NoValue
    <3>4. Atoi(l) = l BY <1>1, <3>1, <3>2, AtoiFits DEF Regular, Fits
    <3>5. l \in 0..Len(c.body) BY <3>1, <3>3, <3>4 DEF IsComplete
    <3> QED BY <1>5, <1>6, <3>5
  <2> QED BY <2>1, <2>2
<1>8. Len(b) = Len(Sent) BY <1>1, <1>2, <1>5, <1>7
<1>9. b = Sent BY <1>8, PieceWhole
<1> QED BY <1>3, <1>9 DEF Exact, Asking, Sent

\* A request that has been read to its end counts as complete: no value of its
\* length, not even one that was cut off, is above its body's.
LEMMA WholeIsComplete ==
    ASSUME TypeOK, Origins, NEW c, Reading(c), Len(c.buffer) = Len(Sent), Fits(Asking),
           Len(c.body) \in Nat
    PROVE  ~Waits(c)
<1> DEFINE l == ContentLength(Asking)
<1>1. IntRange \in Nat \ {0} BY RequestsAssumption
<1>2. l \in Nat /\ l <= Asking.units /\ l < IntRange /\ Asking.units \in Nat
  <2>1. Asking \in Requests BY SentFacts
  <2>2. /\ l \in Nat /\ l <= Asking.units /\ Asking.units \in Nat
        /\ Asking.digits = <<>> => l = 0
    BY <2>1, ContentLengthType
  <2>3. Asking.digits # <<>> => l = Last(Asking.digits) BY DEF ContentLength
  <2> QED BY <1>1, <2>2, <2>3 DEF Fits
<1>3. Len(c.body) >= Asking.units BY DEF Reading
<1>4. c.length # NoValue => c.length \in 0..l BY DEF Reading
<1> HIDE DEF l
<1>5. c.length # NoValue => Atoi(c.length) = c.length
  BY <1>1, <1>2, <1>4, AtoiFits
<1>6. c.length # NoValue => Atoi(c.length) \in 0..Len(c.body) BY <1>2, <1>3, <1>4, <1>5
<1>7. \A method : IsComplete(method, c) BY <1>6 DEF IsComplete
<1> QED BY <1>7 DEF Waits

-----------------------------------------------------------------------------
\* The invariant.

\* The buffer, and the buffer with what the wire has, are pieces of what was sent.
LEMMA UnderWayPieces ==
    ASSUME TypeOK, Origins, context.buffer \o wire \o tosend = Sent
    PROVE  LET b == context.buffer \o wire
           IN  /\ Piece(context.buffer, Newest, Asking) /\ Piece(b, Newest, Asking)
               /\ Len(b) = Len(Sent) <=> tosend = <<>>
<1> DEFINE a == context.buffer
           b == a \o wire
<1>1. /\ a \in Seq(Known) /\ wire \in Seq(Known) /\ tosend \in Seq(Known)
      /\ a \in Seq(Token)
  BY DEF TypeOK, Origins, Context
<1>2. /\ b \in Seq(Known) /\ Len(b) = Len(a) + Len(wire)
      /\ \A i \in 1..Len(a) : b[i] = a[i]
  BY <1>1, ConcatAt
<1>3. /\ Len(a) \in Nat /\ Len(wire) \in Nat /\ Len(b) \in Nat /\ Len(tosend) \in Nat
      /\ tosend = <<>> <=> Len(tosend) = 0
  BY <1>1, <1>2, LenProperties, EmptySeq
<1>4. b \in Seq(Token)
  <2>1. \A i \in 1..Len(b) : b[i] \in Token BY <1>2, ElementOfSeq DEF Known
  <2> QED BY <1>2, <2>1, SeqInLarger
<1> HIDE DEF a, b
<1>5. /\ Len(b \o tosend) = Len(b) + Len(tosend)
      /\ \A i \in 1..Len(b) : (b \o tosend)[i] = b[i]
  BY <1>1, <1>2, ConcatAt
<1>6. b \o tosend = Sent BY DEF a, b
<1>7. Len(Sent) = Len(b) + Len(tosend) /\ \A i \in 1..Len(b) : b[i] = Sent[i]
  BY <1>5, <1>6
<1>8. Piece(b, Newest, Asking)
  <2>1. Len(b) <= Len(Sent) BY <1>3, <1>7
  <2> QED BY <1>4, <1>7, <2>1 DEF Piece, Sent
<1>9. Piece(a, Newest, Asking)
  <2>1. Len(a) <= Len(Sent) /\ \A i \in 1..Len(a) : i \in 1..Len(b) BY <1>2, <1>3, <1>7
  <2>2. \A i \in 1..Len(a) : a[i] = Sent[i] BY <1>2, <1>7, <2>1
  <2> QED BY <1>1, <2>1, <2>2 DEF Piece, Sent
<1>10. Len(b) = Len(Sent) <=> tosend = <<>> BY <1>3, <1>7
<1> QED BY <1>8, <1>9, <1>10 DEF a, b

\* It holds when the first request is made.
LEMMA InitContextInv == Init => ContextInv
<1> SUFFICES ASSUME Init PROVE ContextInv
  OBVIOUS
<1>1. TypeOK /\ Origins BY InitTypes
<1>2. wire = <<>> /\ context = NoContext /\ answered = <<>> /\ Len(answered) = 0
  BY EmptySeq DEF Init
<1>3. Len(script) = 1 /\ tosend = Sent BY DEF Init, Sent, Asking, Newest
<1>4. context.buffer = <<>> BY <1>2 DEF NoContext
<1>5. <<>> \o <<>> \o tosend = tosend
  <2>1. tosend \in Seq(Known) BY <1>1 DEF Origins
  <2>2. <<>> \o <<>> = <<>> OBVIOUS
  <2> QED BY <2>1, <2>2, ConcatEmptySeq
<1>6. UnderWay BY <1>2, <1>3, <1>4, <1>5 DEF UnderWay, Newest
<1>7. ExactUnlessSplit BY <1>2 DEF ExactUnlessSplit
<1> QED BY <1>1, <1>6, <1>7 DEF ContextInv

\* Requests up to the n-th answered one were parsed once, with bodies they may have.
AllGood(n) ==
    \A m \in 1..n : m <= Len(script) => answered[m].split = {} /\ Regular(script[m])

\* Without a change of the requests, what was said of a context remains true.
LEMMA ReadingStays ==
    ASSUME UNCHANGED script, NEW c
    PROVE  /\ ((Reading(c))' <=> Reading(c)) /\ ((Waits(c))' <=> Waits(c))
           /\ Newest' = Newest /\ Sent' = Sent /\ Asking' = Asking
<1>1. Newest' = Newest /\ Asking' = Asking BY DEF Newest, Asking
<1>2. Sent' = Sent BY <1>1 DEF Sent
<1>3. HeadEnd' = HeadEnd /\ LastLength' = LastLength BY <1>1 DEF HeadEnd, LastLength
<1> QED BY <1>1, <1>2, <1>3 DEF Reading, Waits, Whole

\* The peer sends a piece: it moves from one side to the other.
LEMMA SendInv ==
    ASSUME ContextInv, NEW k \in 1..Len(tosend), Send(k)
    PROVE  (AllExact => Idle \/ UnderWay)' /\ ExactUnlessSplit'
<1>1. UNCHANGED <<script, context, answered>> BY DEF Send
<1>2. ExactUnlessSplit' BY <1>1 DEF ContextInv, ExactUnlessSplit, Exact
<1>3. ASSUME AllExact' PROVE UnderWay'
  <2>1. AllExact BY <1>1, <1>3 DEF AllExact, Exact
  <2>2. ~Idle
    <3>1. Idle => Len(tosend) = 0 BY EmptySeq DEF Idle
    <3> QED BY <3>1
  <2>3. UnderWay BY <2>1, <2>2 DEF ContextInv
  <2>4. /\ tosend' \in Seq(Known) /\ wire' \in Seq(Known)
        /\ wire' \o tosend' = wire \o tosend
    BY SendTypes DEF ContextInv
  <2>5. /\ context.buffer \in Seq(Known) /\ wire \in Seq(Known) /\ tosend \in Seq(Known)
    BY DEF ContextInv, Origins
  <2>6. \A x, y, z \in Seq(Known) : (x \o y) \o z = x \o (y \o z) BY ConcatAssociative
  <2>7. context.buffer \o wire' \o tosend' = context.buffer \o wire \o tosend
    <3>1. (context.buffer \o wire') \o tosend' = context.buffer \o (wire' \o tosend')
      BY <2>4, <2>5, <2>6
    <3>2. (context.buffer \o wire) \o tosend = context.buffer \o (wire \o tosend)
      BY <2>5, <2>6
    <3> QED BY <2>4, <3>1, <3>2
  <2>8. /\ ((Reading(context))' <=> Reading(context)) /\ ((Waits(context))' <=> Waits(context))
        /\ Newest' = Newest /\ Sent' = Sent
    <3>1. PICK c : c = context OBVIOUS
    <3>2. c = context' BY <1>1, <3>1
    <3>3. /\ ((Reading(c))' <=> Reading(c)) /\ ((Waits(c))' <=> Waits(c))
          /\ Newest' = Newest /\ Sent' = Sent
      BY <1>1, ReadingStays
    <3> QED BY <3>1, <3>2, <3>3 DEF Reading, Waits, Whole
  <2> QED BY <1>1, <2>3, <2>7, <2>8 DEF UnderWay
<1> QED BY <1>2, <1>3

\* The peer asks again only when everything it asked before was answered.
LEMMA NextRequestInv ==
    ASSUME ContextInv, NEW r \in Requests, NextRequest(r)
    PROVE  (AllExact => Idle \/ UnderWay)' /\ ExactUnlessSplit'
<1>1. /\ script' = Append(script, r) /\ Len(answered) >= Len(script)
      /\ tosend' = Tokens(Len(script) + 1, r)
      /\ UNCHANGED <<wire, context, answered>>
  BY DEF NextRequest
<1>2. /\ script \in Seq(Requests) /\ Len(script) \in Nat /\ Len(answered) \in Nat
      /\ tosend' \in Seq(Token)
      /\ \A n \in 1..Len(answered) : answered[n].url \in 0..Newest
  <2>1. [Next]_vars BY DEF Next
  <2>2. TypeOK' BY <2>1, StepTypes DEF ContextInv
  <2> QED BY <2>2, LenProperties DEF ContextInv, TypeOK, Origins
<1>3. /\ Len(script') = Len(script) + 1 /\ script'[Len(script) + 1] = r
      /\ \A n \in 1..Len(script) : script'[n] = script[n]
  BY <1>1, <1>2, AppendProperties
<1>4. ExactUnlessSplit'
  <2> SUFFICES ASSUME NEW n \in 1..Len(answered'), AllGood(n)'
               PROVE  n <= Len(script') /\ (Exact(answered[n], n))'
    BY DEF ExactUnlessSplit, AllGood
  <2>1. ASSUME NEW m \in 1..n, m <= Len(script)
        PROVE  answered[m].split = {} /\ Regular(script[m])
    <3>1. m <= Len(script') /\ script'[m] = script[m] BY <1>2, <1>3, <2>1
    <3> QED BY <1>1, <3>1 DEF AllGood
  <2>2. n <= Len(script) /\ Exact(answered[n], n)
    BY <1>1, <2>1 DEF ContextInv, ExactUnlessSplit
  <2>3. script'[n] = script[n] /\ n <= Len(script') BY <1>2, <1>3, <2>2
  <2> QED BY <1>1, <2>2, <2>3 DEF Exact
<1>5. ASSUME AllExact' PROVE UnderWay'
  <2>1. ASSUME NEW n \in 1..Len(answered) PROVE Exact(answered[n], n)
    <3>1. /\ answered[n].url = n /\ answered[n].method = script'[n].method
          /\ answered[n].buffer = Tokens(n, script'[n])
          /\ answered[n].body = OfKind(Tokens(n, script'[n]), "body")
      BY <1>1, <1>5 DEF AllExact, Exact
    <3>2. n \in 1..Len(script) BY <1>2, <3>1 DEF Newest
    <3> QED BY <1>3, <3>1, <3>2 DEF Exact
  <2>2. Idle \/ UnderWay BY <2>1 DEF ContextInv, AllExact
  <2>3. ~UnderWay BY <1>1, <1>2 DEF UnderWay, Newest
  <2>4. wire = <<>> /\ context = NoContext /\ Len(answered) = Len(script)
    BY <2>2, <2>3 DEF Idle, Newest
  <2>5. Newest' = Len(script) + 1 /\ Asking' = r /\ Sent' = tosend'
    BY <1>1, <1>3 DEF Newest, Asking, Sent
  <2>6. <<>> \o <<>> \o tosend' = tosend'
    <3>1. <<>> \o <<>> = <<>> OBVIOUS
    <3> QED BY <1>2, <3>1, ConcatEmptySeq
  <2>7. context'.buffer = <<>> BY <1>1, <2>4 DEF NoContext
  <2>8. context'.buffer \o wire' \o tosend' = Sent' BY <1>1, <2>4, <2>5, <2>6, <2>7
  <2>9. Len(answered') = Newest' - 1 BY <1>1, <1>2, <2>4, <2>5
  <2> QED BY <1>1, <2>4, <2>8, <2>9 DEF UnderWay
<1> QED BY <1>4, <1>5

\* A read: what is parsed is a piece of the newest request, and only a request that
\* has been read to its end can be exact.
LEMMA ReadInv ==
    ASSUME ContextInv, Read
    PROVE  (AllExact => Idle \/ UnderWay)' /\ ExactUnlessSplit'
<1> DEFINE b == context.buffer \o wire
           q == Parsed(b)
           n == Len(answered)
<1>1. /\ wire # <<>> /\ wire' = <<>> /\ script' = script /\ tosend' = tosend
      /\ \E method \in IF q.method = Unset THEN Methods ELSE {q.method} :
             \/ /\ IsComplete(method, q)
                /\ context' = NoContext /\ answered' = Append(answered, q)
             \/ /\ ~IsComplete(method, q)
                /\ context' = q /\ answered' = answered
  BY ReadCases
<1>2. /\ TypeOK /\ Origins /\ (AllExact => Idle \/ UnderWay) /\ ExactUnlessSplit
  BY DEF ContextInv
<1>3. b # <<>> /\ b \in Seq(Known) /\ q \in Context /\ q.buffer = b BY <1>1, <1>2, ParsedType
<1>4. ~Idle BY <1>1 DEF Idle
<1>5. ASSUME AllExact
      PROVE  /\ n = Newest - 1 /\ b \o tosend = Sent /\ Reading(q)
             /\ Piece(q.buffer, Newest, Asking)
             /\ Len(q.buffer) = Len(Sent) <=> tosend = <<>>
  <2>1. UnderWay BY <1>2, <1>4, <1>5
  <2>2. context.buffer \o wire \o tosend = Sent BY <2>1 DEF UnderWay
  <2>3. /\ Piece(context.buffer, Newest, Asking) /\ Piece(b, Newest, Asking)
        /\ Len(b) = Len(Sent) <=> tosend = <<>>
    BY <1>2, <2>2, UnderWayPieces
  <2>4. Reading(q) BY <1>1, <1>2, <2>1, <2>3, ParsedReads DEF UnderWay
  <2> HIDE DEF q
  <2> QED BY <1>3, <2>1, <2>2, <2>3, <2>4 DEF UnderWay
<1>6. n \in Nat /\ answered \in Seq(Context) BY <1>2, LenProperties DEF TypeOK
<1>7. Newest \in Nat /\ Asking.method \in Methods /\ Newest = Len(script)
  BY <1>2, SentFacts DEF Newest
<1> HIDE DEF b, q
<1>8. CASE context' = q /\ answered' = answered /\ Waits(q)
  <2>1. ExactUnlessSplit' BY <1>1, <1>2, <1>8 DEF ExactUnlessSplit, Exact
  <2>2. ASSUME AllExact' PROVE UnderWay'
    <3>1. AllExact BY <1>1, <1>8, <2>2 DEF AllExact, Exact
    <3>2. n = Newest - 1 /\ b \o tosend = Sent /\ Reading(q) BY <1>5, <3>1
    <3>3. Waits(q) BY <1>8
    <3>4. b \o <<>> = b BY <1>3, ConcatEmptySeq
    <3>5. context'.buffer \o wire' \o tosend' = Sent BY <1>1, <1>3, <1>8, <3>2, <3>4
    <3>6. PICK c : c = q OBVIOUS
    <3>7. /\ ((Reading(c))' <=> Reading(c)) /\ ((Waits(c))' <=> Waits(c))
          /\ Newest' = Newest /\ Sent' = Sent
      BY <1>1, ReadingStays
    <3>8. c = context' BY <1>8, <3>6
    <3>9. (Reading(context))' /\ (Waits(context))'
      BY <3>2, <3>3, <3>6, <3>7, <3>8 DEF Reading, Waits, Whole
    <3> QED BY <1>3, <1>8, <3>2, <3>5, <3>7, <3>9 DEF UnderWay
  <2> QED BY <2>1, <2>2
<1>9. ASSUME NEW method \in IF q.method = Unset THEN Methods ELSE {q.method},
             IsComplete(method, q), context' = NoContext, answered' = Append(answered, q)
      PROVE  (AllExact => Idle \/ UnderWay)' /\ ExactUnlessSplit'
  <2>1. /\ Len(answered') = n + 1 /\ answered'[n + 1] = q
        /\ \A m \in 1..n : answered'[m] = answered[m]
    BY <1>3, <1>6, <1>9, AppendProperties
  <2>2. ASSUME AllExact' PROVE Idle'
    <3>1. AllExact
      <4> SUFFICES ASSUME NEW m \in 1..n PROVE Exact(answered[m], m)
        BY DEF AllExact
      <4>1. m \in 1..Len(answered') /\ answered'[m] = answered[m] BY <1>6, <2>1
      <4> QED BY <1>1, <2>2, <4>1 DEF AllExact, Exact
    <3>2. /\ n = Newest - 1 /\ Reading(q) /\ Piece(q.buffer, Newest, Asking)
          /\ Len(q.buffer) = Len(Sent) <=> tosend = <<>>
      BY <1>5, <3>1
    <3>3. Exact(q, Newest)
      <4>1. n + 1 \in 1..Len(answered') /\ n + 1 = Newest BY <1>6, <1>7, <2>1, <3>2
      <4> QED BY <1>1, <2>1, <2>2, <4>1 DEF AllExact, Exact
    <3>4. tosend = <<>> BY <3>2, <3>3 DEF Exact, Sent, Asking
    <3>5. Newest' = Newest /\ n + 1 = Newest BY <1>1, <1>6, <1>7, <3>2 DEF Newest
    <3> QED BY <1>1, <1>9, <2>1, <3>4, <3>5 DEF Idle
  <2>3. ExactUnlessSplit'
    <3> SUFFICES ASSUME NEW k \in 1..Len(answered'), AllGood(k)'
                 PROVE  k <= Len(script') /\ (Exact(answered[k], k))'
      BY DEF ExactUnlessSplit, AllGood
    <3>1. \A m \in 1..k : m <= Len(script) => answered'[m].split = {} /\ Regular(script[m])
      BY <1>1 DEF AllGood
    <3>2. ASSUME NEW j \in 1..n, j <= k PROVE j <= Len(script) /\ Exact(answered[j], j)
      <4>1. ASSUME NEW m \in 1..j, m <= Len(script)
            PROVE  answered[m].split = {} /\ Regular(script[m])
        <5>1. m \in 1..k /\ answered'[m] = answered[m] BY <1>6, <2>1, <3>2
        <5> QED BY <3>1, <4>1, <5>1
      <4> QED BY <1>2, <4>1 DEF ExactUnlessSplit
    <3>3. CASE k <= n
      <4>1. k \in 1..n /\ answered'[k] = answered[k] BY <1>6, <2>1, <3>3
      <4>2. k <= Len(script) /\ Exact(answered[k], k) BY <1>6, <3>2, <4>1
      <4> QED BY <1>1, <4>1, <4>2 DEF Exact
    <3>4. CASE ~(k <= n)
      <4>1. k = n + 1 BY <1>6, <2>1, <3>4
      <4>2. AllExact BY <1>6, <3>2, <4>1 DEF AllExact
      <4>3. n = Newest - 1 /\ Reading(q) /\ Piece(q.buffer, Newest, Asking) BY <1>5, <4>2
      <4>4. k = Newest /\ k \in 1..k BY <1>6, <1>7, <4>1, <4>3
      <4>5. k <= Len(script) BY <1>7, <4>4
      <4>6. q.split = {} /\ Regular(Asking)
        BY <2>1, <3>1, <4>1, <4>4, <4>5 DEF Asking
      <4>7. q.method = Asking.method BY <4>3, <4>6 DEF Reading, Regular
      <4>8. IsComplete(Asking.method, q)
        <5>1. q.method # Unset BY <1>7, <4>7 DEF Methods, Unset
        <5> QED BY <1>9, <4>7, <5>1
      <4>9. Exact(q, Newest) BY <1>2, <4>3, <4>6, <4>8, CompleteIsExact
      <4>10. answered'[k] = q BY <2>1, <4>1
      <4> QED BY <1>1, <4>4, <4>5, <4>9, <4>10 DEF Exact
    <3> QED BY <3>3, <3>4
  <2> QED BY <2>2, <2>3
<1> QED BY <1>1, <1>8, <1>9 DEF Waits

\* Every step keeps the invariant.
LEMMA StepContextInv == ContextInv /\ [Next]_vars => ContextInv'
<1> SUFFICES ASSUME ContextInv, [Next]_vars PROVE ContextInv'
  OBVIOUS
<1>1. TypeOK' /\ Origins' BY StepTypes DEF ContextInv
<1>2. ASSUME NEW k \in 1..Len(tosend), Send(k) PROVE ContextInv'
  BY <1>1, <1>2, SendInv DEF ContextInv
<1>3. ASSUME NEW r \in Requests, NextRequest(r) PROVE ContextInv'
  BY <1>1, <1>3, NextRequestInv DEF ContextInv
<1>4. CASE Read BY <1>1, <1>4, ReadInv DEF ContextInv
<1>5. CASE UNCHANGED vars
  <2>1. UNCHANGED <<script, tosend, wire, context, answered>> BY <1>5 DEF vars
  <2>2. ExactUnlessSplit' /\ (AllExact' <=> AllExact)
    BY <2>1 DEF ContextInv, ExactUnlessSplit, AllExact, Exact
  <2>3. Idle' <=> Idle BY <2>1 DEF Idle, Newest
  <2>4. UnderWay' <=> UnderWay
    BY <2>1 DEF UnderWay, Reading, Waits, Whole, HeadEnd, LastLength, Sent, Asking, Newest
  <2> QED BY <1>1, <2>2, <2>3, <2>4 DEF ContextInv
<1> QED BY <1>2, <1>3, <1>4, <1>5 DEF Next

-----------------------------------------------------------------------------
\* The theorems.

\* The fields of the context and the tokens keep their types, whatever has been
\* answered too early (context, handle_connection).
THEOREM TypeCorrect == Spec => []TypeOK
<1>1. ContextInv => TypeOK BY DEF ContextInv
<1> QED BY <1>1, InitContextInv, StepContextInv, PTL DEF Spec

\* Up to the first request that was split, every request is handed to
\* process_request exactly as it was sent, with any number of requests, of any
\* lengths, cut anywhere (context::operator(), on_body, is_complete).
THEOREM ExactCorrect == Spec => []ExactUnlessSplit
<1>1. ContextInv => ExactUnlessSplit BY DEF ContextInv
<1> QED BY <1>1, InitContextInv, StepContextInv, PTL DEF Spec

\* What has arrived as a whole and has been read is not left waiting in the
\* context.
LEMMA WholeIsNotKept == ContextInv => WholeIsAnswered
<1> SUFFICES ASSUME ContextInv, tosend = <<>>, wire = <<>>, AllExact,
                    \A n \in 1..Len(script) : Fits(script[n])
             PROVE  Len(answered) = Len(script)
  BY DEF WholeIsAnswered, AllExact
<1>1. TypeOK /\ Origins /\ (Idle \/ UnderWay) BY DEF ContextInv
<1>2. CASE Idle BY <1>2 DEF Idle, Newest
<1>3. CASE UnderWay
  <2>1. context.buffer \o wire \o tosend = Sent BY <1>3 DEF UnderWay
  <2>2. Len(context.buffer \o wire) = Len(Sent) BY <1>1, <2>1, UnderWayPieces
  <2>3. context.buffer \in Seq(Known) BY <1>1 DEF Origins
  <2>4. context.buffer \o wire = context.buffer BY <2>3, ConcatEmptySeq
  <2>5. Len(context.buffer) = Len(Sent) BY <2>2, <2>4
  <2>6. CASE context = NoContext
    <3>1. Len(context.buffer) = 0 BY <2>6, EmptySeq DEF NoContext
    <3>2. Len(Sent) >= 2
      <4>1. Newest \in 1..MaxRequests /\ Asking \in Requests BY <1>1, SentFacts
      <4>2. Len(Sent) = Len(Asking.digits) + 2 + Asking.units + Chunked(Asking)
        BY <4>1, TokensAt DEF Sent
      <4>3. Len(Asking.digits) \in Nat /\ Asking.units \in Nat /\ Chunked(Asking) \in {0, 1}
        BY <4>1, ContentLengthType DEF Chunked
      <4> QED BY <4>2, <4>3
    <3> QED BY <2>5, <3>1, <3>2
  <2>7. CASE Reading(context) /\ Waits(context)
    <3>1. Fits(Asking)
      <4>1. Newest \in 1..Newest BY <1>1, SentFacts
      <4> QED BY <4>1 DEF Asking, Newest
    <3>2. Len(context.body) \in Nat BY <1>1, LenProperties DEF TypeOK, Context
    <3> QED BY <1>1, <2>5, <2>7, <3>1, <3>2, WholeIsComplete
  <2> QED BY <1>3, <2>6, <2>7 DEF UnderWay
<1> QED BY <1>1, <1>2, <1>3

\* A request that has arrived as a whole is answered, in however many pieces it
\* came, unless an earlier one was answered too early or wrongly (is_complete,
\* handle_connection).
THEOREM WholeCorrect == Spec => []WholeIsAnswered
<1>1. ContextInv => WholeIsAnswered BY WholeIsNotKept
<1> QED BY <1>1, InitContextInv, StepContextInv, PTL DEF Spec
=============================================================================
