---------------------------- MODULE ServerProofs ----------------------------
(***************************************************************************)
(* Theorems about servers and their sockets, for any number of objects,    *)
(* ports, limits and calls.                                                *)
(***************************************************************************)
EXTENDS Server, TLAPS

\* An object has an implementation of its own, which is allocated and has the
\* port it was made for.
ObjectsOwn ==
    /\ \A o \in Objects : impl[o] # None => impl[o] \in alive
    /\ \A o, q \in Objects : impl[o] # None /\ impl[o] = impl[q] => o = q
    /\ \A i \in Impls : i \in alive \/ scheduler[i] # None => port[i] # None

\* What init() is at: the implementation stays, and the socket is bound to its
\* port unless that may not be.
CallKnown ==
    /\ Called("bind") \/ Called("listen") =>
           /\ thread.impl \in alive /\ thread.sock \in Sockets
           /\ sock[thread.sock].state \in {"created", "bound"}
    /\ Called("listen") =>
           sock[thread.sock].port =
               IF port[thread.impl] \in Privileged THEN None ELSE port[thread.impl]
    /\ Called("check") \/ Called("poll") => thread.impl \in Impls

\* A scheduler's acceptor listens, or did until the server was destroyed, on the
\* port asked for, or elsewhere if that may not be bound.
AcceptorPort(i) == IF port[i] \in Privileged THEN Ephemeral ELSE port[i]
AcceptorsListen ==
    \A i \in Impls : scheduler[i] # None =>
        /\ sock[scheduler[i]].state \in {"listening", "closed"}
        /\ sock[scheduler[i]].port = AcceptorPort(i)

\* No two schedulers have one acceptor.
AcceptorsDiffer ==
    \A i, j \in Impls : scheduler[i] # None /\ scheduler[i] = scheduler[j] => i = j

ServerInv == /\ TypeOK /\ ObjectsOwn /\ CallKnown /\ AcceptorsListen /\ AcceptorsDiffer
             /\ ListenersAreOwned /\ StartedServersListen

\* None and Ephemeral are no implementation, socket or port.
LEMMA Names ==
    /\ None \notin Impls /\ None \notin Sockets /\ None \notin Ports
    /\ Ephemeral \notin Ports /\ Ephemeral # None /\ Default \in Limits
    /\ Privileged \subseteq Ports
BY ServerAssumption

LEMMA ServerInit == Init => ServerInv
BY Names DEF Init, ServerInv, TypeOK, ObjectsOwn, CallKnown, AcceptorsListen,
   AcceptorsDiffer, StartedServersListen, ListenersAreOwned, Listeners, Called, Idle,
   NoSocket, Socket

-----------------------------------------------------------------------------
\* Objects: made, destroyed, moved and configured.

LEMMA ConstructStep ==
    ASSUME ServerInv, NEW o \in Objects, NEW i \in Impls, NEW p \in Ports, Construct(o, i, p)
    PROVE  ServerInv'
<1> USE Names DEF ServerInv
<1>1. /\ port[i] = None /\ i \notin alive /\ scheduler[i] = None /\ impl[o] = None
      /\ thread.at = "idle"
      /\ impl' = [impl EXCEPT ![o] = i] /\ alive' = alive \cup {i}
      /\ port' = [port EXCEPT ![i] = p]
      /\ UNCHANGED <<maxPending, stopRequested, scheduler, config, sock, thread, other>>
  BY DEF Construct, NextImpl, ObjectsOwn, Called
<1>2. TypeOK' BY <1>1 DEF TypeOK
<1>3. ObjectsOwn'
  <2>1. \A q \in Objects : impl'[q] = IF q = o THEN i ELSE impl[q] BY <1>1 DEF TypeOK
  <2>2. \A q \in Objects : impl[q] # i BY <1>1 DEF ObjectsOwn
  <2>3. \A j \in Impls : port'[j] = IF j = i THEN p ELSE port[j] BY <1>1 DEF TypeOK
  <2> QED BY <1>1, <2>1, <2>2, <2>3 DEF ObjectsOwn
<1>4. CallKnown' BY <1>1 DEF CallKnown, Called
<1>5. AcceptorsListen' BY <1>1 DEF AcceptorsListen, AcceptorPort, TypeOK
<1>6. ListenersAreOwned' BY <1>1 DEF ListenersAreOwned, Listeners
<1>7. AcceptorsDiffer' BY <1>1 DEF AcceptorsDiffer
<1>8. StartedServersListen'
  <2>1. \A q \in Objects : impl'[q] = IF q = o THEN i ELSE impl[q] BY <1>1 DEF TypeOK
  <2> QED BY <1>1, <2>1 DEF StartedServersListen
<1> QED BY <1>2, <1>3, <1>4, <1>5, <1>6, <1>7, <1>8

LEMMA DestroyStep ==
    ASSUME ServerInv, NEW o \in Objects, Destroy(o)
    PROVE  ServerInv'
<1> USE Names DEF ServerInv
<1> DEFINE i == impl[o]
<1>1. /\ i \in Impls /\ thread.at = "idle"
      /\ impl' = [impl EXCEPT ![o] = None] /\ alive' = alive \ {i}
      /\ UNCHANGED <<port, maxPending, stopRequested, scheduler, config, thread, other>>
  BY DEF Destroy, Called, members, TypeOK
<1>2. /\ sock' \in [Sockets -> Socket]
      /\ \A s \in Sockets : /\ sock'[s].port = sock[s].port
                            /\ sock'[s].state = IF s = scheduler[i] THEN "closed"
                                                ELSE sock[s].state
  BY DEF Destroy, Deleted, TypeOK, Socket
<1> HIDE DEF i
<1>3. TypeOK' BY <1>1, <1>2 DEF TypeOK
<1>4. ObjectsOwn'
  <2>1. \A q \in Objects : impl'[q] = IF q = o THEN None ELSE impl[q] BY <1>1 DEF TypeOK
  <2>2. \A q \in Objects : q # o => impl[q] # i BY <1>1 DEF ObjectsOwn, i
  <2> QED BY <1>1, <2>1, <2>2 DEF ObjectsOwn
<1>5. CallKnown' BY <1>1 DEF CallKnown, Called
<1>6. AcceptorsListen'
  <2>1. \A j \in Impls : scheduler[j] # None => scheduler[j] \in Sockets BY DEF TypeOK
  <2> QED BY <1>1, <1>2, <2>1 DEF AcceptorsListen, AcceptorPort
<1>7. ListenersAreOwned'
  <2> SUFFICES ASSUME NEW p \in Ports, NEW s \in Sockets,
                      sock'[s].state = "listening", sock'[s].port = p
               PROVE  \E j \in alive' : scheduler'[j] = s
    BY DEF ListenersAreOwned, Listeners
  <2>1. s # scheduler[i] /\ sock[s].state = "listening" /\ sock[s].port = p BY <1>2
  <2>2. PICK j \in alive : scheduler[j] = s BY <2>1 DEF ListenersAreOwned, Listeners
  <2> QED BY <1>1, <2>1, <2>2
<1>8. AcceptorsDiffer' BY <1>1 DEF AcceptorsDiffer
<1>9. StartedServersListen'
  <2> SUFFICES ASSUME NEW q \in Objects, impl'[q] # None
               PROVE  /\ impl'[q] \in alive'
                      /\ scheduler'[impl'[q]] # None =>
                             sock'[scheduler'[impl'[q]]].state = "listening"
    BY DEF StartedServersListen
  <2>1. q # o /\ impl'[q] = impl[q] /\ impl[q] \in Impls BY <1>1 DEF TypeOK
  <2>2. impl[q] # i /\ impl[q] \in alive' BY <1>1, <2>1 DEF ObjectsOwn, i
  <2>3. ASSUME scheduler[impl[q]] # None
        PROVE  sock'[scheduler[impl[q]]].state = "listening"
    <3>1. scheduler[impl[q]] # scheduler[i] /\ scheduler[impl[q]] \in Sockets
      BY <1>1, <2>1, <2>2, <2>3 DEF AcceptorsDiffer, TypeOK
    <3>2. sock[scheduler[impl[q]]].state = "listening"
      BY <2>1, <2>3 DEF StartedServersListen
    <3> QED BY <1>2, <3>1, <3>2
  <2> QED BY <1>1, <2>1, <2>2, <2>3
<1> QED BY <1>3, <1>4, <1>5, <1>6, <1>7, <1>8, <1>9

LEMMA MoveStep ==
    ASSUME ServerInv, NEW o \in Objects, NEW from \in Objects, Move(o, from)
    PROVE  ServerInv'
<1> USE Names DEF ServerInv
<1>1. /\ o # from /\ impl' = [impl EXCEPT ![o] = impl[from], ![from] = None]
      /\ UNCHANGED <<alive, port, maxPending, stopRequested, scheduler, config, sock,
                     thread, other>>
  BY DEF Move, Moved, members
<1>2. \A q \in Objects : impl'[q] = IF q = from THEN None ELSE IF q = o THEN impl[from] ELSE impl[q]
  BY <1>1 DEF TypeOK
<1>3. TypeOK' BY <1>1 DEF TypeOK
<1>4. ObjectsOwn'
  <2>1. ASSUME NEW q \in Objects, impl'[q] # None PROVE impl'[q] \in alive'
    <3>1. q # from /\ impl'[q] = impl[IF q = o THEN from ELSE q] BY <1>2, <2>1
    <3>2. impl[IF q = o THEN from ELSE q] \in alive BY <2>1, <3>1 DEF ObjectsOwn
    <3> QED BY <1>1, <3>1, <3>2
  <2>2. ASSUME NEW q \in Objects, NEW r \in Objects, impl'[q] # None, impl'[q] = impl'[r]
        PROVE  q = r
    <3>1. q # from /\ r # from BY <1>2, <2>2
    <3>2. impl[IF q = o THEN from ELSE q] = impl[IF r = o THEN from ELSE r]
      BY <1>2, <2>2, <3>1
    <3>3. impl[IF q = o THEN from ELSE q] # None BY <1>2, <2>2, <3>1
    <3>4. (IF q = o THEN from ELSE q) = (IF r = o THEN from ELSE r)
      BY <3>2, <3>3 DEF ObjectsOwn
    <3> QED BY <3>1, <3>4
  <2>3. \A i \in Impls : i \in alive' \/ scheduler'[i] # None => port'[i] # None
    BY <1>1 DEF ObjectsOwn
  <2> QED BY <2>1, <2>2, <2>3 DEF ObjectsOwn
<1>5. StartedServersListen'
  <2> SUFFICES ASSUME NEW q \in Objects, impl'[q] # None
               PROVE  /\ impl'[q] \in alive
                      /\ scheduler[impl'[q]] # None =>
                             sock[scheduler[impl'[q]]].state = "listening"
    BY <1>1 DEF StartedServersListen
  <2>1. q # from /\ impl'[q] = impl[IF q = o THEN from ELSE q] BY <1>2
  <2> QED BY <2>1 DEF StartedServersListen
<1> QED BY <1>1, <1>3, <1>4, <1>5
        DEF AcceptorsDiffer, CallKnown, Called, AcceptorsListen, AcceptorPort, ListenersAreOwned, Listeners

-----------------------------------------------------------------------------
\* init().

LEMMA NewSocketStep ==
    ASSUME ServerInv, NEW o \in Objects, NEW s \in Sockets, NewSocket(o, s)
    PROVE  ServerInv'
<1> USE Names DEF ServerInv
<1>1. /\ impl[o] \in Impls /\ impl[o] \in alive /\ sock[s].state = "unused"
      /\ sock' = [sock EXCEPT ![s].state = "created"]
      /\ thread' = [Idle EXCEPT !.at = "bind", !.impl = impl[o], !.sock = s]
      /\ UNCHANGED <<impl, alive, port, maxPending, stopRequested, scheduler, config,
                     other>>
  BY DEF NewSocket, NextSocket, members, TypeOK, ObjectsOwn
<1>2. \A r \in Sockets : r # s => sock'[r] = sock[r] BY <1>1 DEF TypeOK
<1>3. sock'[s].state = "created" BY <1>1 DEF TypeOK, Socket
<1>4. TypeOK' BY <1>1 DEF TypeOK, Socket, Idle
<1>5. ObjectsOwn' BY <1>1 DEF ObjectsOwn
<1>6. CallKnown' BY <1>1, <1>3 DEF CallKnown, Called, Idle
<1>7. \A i \in Impls : scheduler[i] # s BY <1>1 DEF AcceptorsListen
<1>8. AcceptorsListen'
  BY <1>1, <1>2, <1>7 DEF AcceptorsListen, AcceptorPort, TypeOK
<1>9. ListenersAreOwned' BY <1>1, <1>2, <1>3 DEF ListenersAreOwned, Listeners
<1>10. AcceptorsDiffer' BY <1>1 DEF AcceptorsDiffer
<1>11. StartedServersListen' BY <1>1, <1>2, <1>7 DEF StartedServersListen, TypeOK
<1> QED BY <1>4, <1>5, <1>6, <1>8, <1>9, <1>10, <1>11

LEMMA BindStep ==
    ASSUME ServerInv, Bind
    PROVE  ServerInv'
<1> USE Names DEF ServerInv
<1> DEFINE i == thread.impl
           s == thread.sock
<1>1. /\ thread.at = "bind" /\ i \in alive /\ i \in Impls /\ s \in Sockets
      /\ sock[s].state \in {"created", "bound"}
      /\ UNCHANGED <<impl, alive, port, maxPending, stopRequested, scheduler, config,
                     other>>
  BY DEF Bind, Called, CallKnown, members, TypeOK
<1>2. CASE thread' = Idle /\ sock' = sock
  BY <1>1, <1>2 DEF TypeOK, ObjectsOwn, CallKnown, Called, Idle, AcceptorsListen,
     AcceptorPort, AcceptorsDiffer, StartedServersListen, ListenersAreOwned, Listeners
<1>3. CASE /\ ~ToldInUse(port[i])
           /\ sock' = [sock EXCEPT ![s].state = "bound", ![s].port = Bound(port[i])]
           /\ thread' = [thread EXCEPT !.at = "listen"]
  <2>1. port[i] \in Ports BY <1>1 DEF ObjectsOwn, TypeOK
  <2>2. Bound(port[i]) = IF port[i] \in Privileged THEN None ELSE port[i]
    BY <1>3 DEF ToldInUse, Bound
  <2> DEFINE bound == Bound(port[i])
  <2>3. bound \in Ports \cup {None} BY <2>1, <2>2
  <2>4. /\ sock' = [sock EXCEPT ![s].state = "bound", ![s].port = bound]
        /\ bound = IF port[i] \in Privileged THEN None ELSE port[i]
    BY <1>3, <2>2
  <2>5. thread' \in [at : {"listen"}, impl : {i}, sock : {s}, indefinitely : BOOLEAN]
    BY <1>3 DEF TypeOK
  <2> HIDE DEF i, s, bound
  <2>6. /\ sock' \in [Sockets -> Socket] /\ sock'[s].state = "bound" /\ sock'[s].port = bound
        /\ \A r \in Sockets : r # s => sock'[r] = sock[r]
    <3>1. sock \in [Sockets -> Socket] /\ sock[s] \in Socket BY <1>1 DEF TypeOK
    <3> DEFINE now == [sock[s] EXCEPT !.state = "bound", !.port = bound]
    <3>2. now \in Socket /\ now.state = "bound" /\ now.port = bound
      BY <2>3, <3>1 DEF Socket
    <3>3. sock' = [sock EXCEPT ![s] = now]
      <4>1. DOMAIN sock' = Sockets BY <2>4, <3>1
      <4>2. sock'[s] = now BY <1>1, <2>4, <3>1 DEF Socket
      <4>3. \A r \in Sockets : r # s => sock'[r] = sock[r] BY <1>1, <2>4, <3>1
      <4> HIDE DEF now
      <4> QED BY <1>1, <2>4, <3>1, <4>1, <4>2, <4>3
    <3> HIDE DEF now
    <3> QED BY <1>1, <3>1, <3>2, <3>3
  <2>7. TypeOK' BY <1>1, <2>5, <2>6 DEF TypeOK
  <2>8. ObjectsOwn' BY <1>1 DEF ObjectsOwn
  <2>9. CallKnown' BY <1>1, <2>4, <2>5, <2>6 DEF CallKnown, Called
  <2>10. \A j \in Impls : scheduler[j] # s BY <1>1 DEF AcceptorsListen
  <2>11. AcceptorsListen'
    BY <1>1, <2>6, <2>10 DEF AcceptorsListen, AcceptorPort, TypeOK
  <2>12. ListenersAreOwned' BY <1>1, <2>6 DEF ListenersAreOwned, Listeners
  <2>13. AcceptorsDiffer' BY <1>1 DEF AcceptorsDiffer
  <2>14. StartedServersListen' BY <1>1, <2>6, <2>10 DEF StartedServersListen, TypeOK
  <2> QED BY <2>7, <2>8, <2>9, <2>11, <2>12, <2>13, <2>14
<1> QED BY <1>2, <1>3 DEF Bind

\* The socket that has come to listen, and the scheduler that takes its place.
LEMMA ListenStep ==
    ASSUME ServerInv, Listen
    PROVE  ServerInv'
<1> USE Names DEF ServerInv
<1> DEFINE i == thread.impl
           s == thread.sock
           now == [state |-> "listening", port |-> ListensAt(s), backlog |-> Backlog(i)]
<1>1. /\ i \in alive /\ i \in Impls /\ s \in Sockets /\ thread' = Idle
      /\ sock[s].state \in {"created", "bound"}
      /\ sock[s].port = IF port[i] \in Privileged THEN None ELSE port[i]
      /\ UNCHANGED <<impl, alive, port, maxPending, stopRequested, config, other>>
  BY DEF Listen, Called, CallKnown, TypeOK
<1>2. CASE UNCHANGED <<sock, scheduler>>
  BY <1>1, <1>2 DEF TypeOK, ObjectsOwn, CallKnown, Called, Idle, AcceptorsListen,
     AcceptorPort, AcceptorsDiffer, StartedServersListen, ListenersAreOwned, Listeners
<1>3. CASE /\ ~(sock[s].port \in Ports /\ Taken(sock[s].port))
           /\ sock' = [sock EXCEPT ![s] = now]
           /\ scheduler' = [scheduler EXCEPT ![i] = s]
  <2>1. port[i] \in Ports BY <1>1 DEF ObjectsOwn, TypeOK
  <2>2. now.state = "listening" /\ now.port = AcceptorPort(i) /\ now \in Socket
    BY <1>1, <2>1 DEF ListensAt, AcceptorPort, Socket, Backlog, TypeOK
  <2> HIDE DEF now
  <2>3. /\ sock' \in [Sockets -> Socket] /\ sock'[s] = now
        /\ \A r \in Sockets : r # s => sock'[r] = sock[r]
    BY <1>1, <1>3, <2>2 DEF TypeOK
  <2>4. /\ scheduler'[i] = s
        /\ \A j \in Impls : j # i => scheduler'[j] = scheduler[j]
    BY <1>1, <1>3 DEF TypeOK
  <2>5. TypeOK' BY <1>1, <1>3, <2>3 DEF TypeOK, Idle
  <2>6. ObjectsOwn' BY <1>1, <2>1, <2>4 DEF ObjectsOwn
  <2>7. CallKnown' BY <1>1 DEF CallKnown, Called, Idle
  <2>8. \A j \in Impls : scheduler[j] # s BY <1>1 DEF AcceptorsListen
  <2>9. AcceptorsListen'
    <3> SUFFICES ASSUME NEW j \in Impls, scheduler'[j] # None
                 PROVE  /\ sock'[scheduler'[j]].state \in {"listening", "closed"}
                        /\ sock'[scheduler'[j]].port = AcceptorPort(j)'
      BY DEF AcceptorsListen
    <3>1. AcceptorPort(j)' = AcceptorPort(j) BY <1>1 DEF AcceptorPort
    <3>2. CASE j = i BY <2>2, <2>3, <2>4, <3>1, <3>2
    <3>3. CASE j # i
      BY <2>3, <2>4, <2>8, <3>1, <3>3 DEF AcceptorsListen, TypeOK
    <3> QED BY <3>2, <3>3
  <2>10. ListenersAreOwned'
    <3> SUFFICES ASSUME NEW p \in Ports, NEW r \in Sockets,
                        sock'[r].state = "listening", sock'[r].port = p
                 PROVE  \E j \in alive' : scheduler'[j] = r
      BY DEF ListenersAreOwned, Listeners
    <3>1. CASE r = s BY <1>1, <2>4, <3>1
    <3>2. CASE r # s
      <4>1. r \in Listeners(p) BY <2>3, <3>2 DEF Listeners
      <4>2. PICK j \in alive : scheduler[j] = r BY <4>1 DEF ListenersAreOwned
      <4>3. ASSUME j = i PROVE FALSE
        \* The scheduler that is replaced listened on the port, too.
        <5>1. p = AcceptorPort(i) BY <1>1, <4>1, <4>2, <4>3 DEF AcceptorsListen, Listeners
        <5>2. p = port[i] /\ port[i] \notin Privileged BY <5>1 DEF AcceptorPort
        <5>3. sock[s].port = p BY <1>1, <5>2
        <5> QED BY <1>3, <4>1, <5>3 DEF Taken
      <4> QED BY <1>1, <2>4, <4>2, <4>3 DEF TypeOK
    <3> QED BY <3>1, <3>2
  <2>11. AcceptorsDiffer' BY <1>1, <2>4, <2>8 DEF AcceptorsDiffer
  <2>12. StartedServersListen'
    <3> SUFFICES ASSUME NEW q \in Objects, impl[q] # None, scheduler'[impl[q]] # None
                 PROVE  sock'[scheduler'[impl[q]]].state = "listening"
      BY <1>1 DEF StartedServersListen
    <3>1. impl[q] \in Impls BY DEF TypeOK
    <3>2. CASE impl[q] = i BY <2>2, <2>3, <2>4, <3>2
    <3>3. CASE impl[q] # i
      <4>1. scheduler'[impl[q]] = scheduler[impl[q]] /\ scheduler[impl[q]] # s
        BY <2>4, <2>8, <3>1, <3>3
      <4>2. scheduler[impl[q]] \in Sockets /\ sock[scheduler[impl[q]]].state = "listening"
        BY <3>1, <4>1 DEF StartedServersListen, TypeOK
      <4> QED BY <2>3, <4>1, <4>2
    <3> QED BY <3>2, <3>3
  <2> QED BY <2>5, <2>6, <2>7, <2>9, <2>10, <2>11, <2>12
<1> QED BY <1>2, <1>3 DEF Listen

-----------------------------------------------------------------------------
\* Configuration, the loop and the other process leave sockets and owners alone.
Kept == /\ UNCHANGED <<impl, alive, port, scheduler, sock>>
        /\ TypeOK' /\ CallKnown'

LEMMA OtherStep ==
    ASSUME ServerInv,
           \/ \E o \in Objects :
                 \/ \E limit \in Limits : SetConfig(o, limit)
                 \/ \E indefinitely \in BOOLEAN : Run(o, indefinitely)
                 \/ Freeze(o)
           \/ Check \/ Poll
           \/ \E p \in Ports : OtherBinds(p) \/ OtherListens(p) \/ OtherEnds(p)
    PROVE  ServerInv'
<1> USE Names DEF ServerInv
<1>1. ASSUME NEW o \in Objects, NEW limit \in Limits, SetConfig(o, limit) PROVE Kept
  <2>2. impl[o] \in Impls BY <1>1 DEF SetConfig, TypeOK
  <2>3. TypeOK' BY <1>1, <2>2 DEF SetConfig, TypeOK
  <2>4. CallKnown' BY <1>1 DEF SetConfig, CallKnown, Called
  <2> QED BY <1>1, <2>3, <2>4 DEF Kept, SetConfig
<1>2. ASSUME NEW o \in Objects, NEW indefinitely \in BOOLEAN, Run(o, indefinitely) PROVE Kept
  <2>1. impl[o] \in Impls BY <1>2 DEF Run, TypeOK
  <2>2. /\ thread'.at \in {"check", "poll"} /\ thread'.impl = impl[o]
        /\ thread' \in [at : {"check", "poll"}, impl : Impls, sock : {None},
                        indefinitely : BOOLEAN]
    BY <1>2, <2>1 DEF Run, Idle
  <2>3. CallKnown' BY <2>1, <2>2 DEF CallKnown, Called
  <2>4. stopRequested' \in [Impls -> BOOLEAN] BY <1>2, <2>1 DEF Run, TypeOK
  <2> QED BY <1>2, <2>2, <2>3, <2>4 DEF Kept, Run, TypeOK, ObjectsOwn
<1>3. ASSUME NEW o \in Objects, Freeze(o) PROVE Kept
  BY <1>3 DEF Kept, Freeze, TypeOK, ObjectsOwn, CallKnown, Called
<1>4. ASSUME Check PROVE Kept
  <2>1. /\ thread'.at \in {"idle", "poll"}
        /\ thread'.at = "poll" => thread'.impl \in Impls
        /\ thread' \in [at : {"idle", "bind", "listen", "check", "poll"},
                        impl : Impls \cup {None}, sock : Sockets \cup {None},
                        indefinitely : BOOLEAN]
    BY <1>4 DEF Check, Called, CallKnown, TypeOK, Idle
  <2>2. CallKnown' BY <2>1 DEF CallKnown, Called
  <2>3. TypeOK' BY <1>4, <2>1 DEF Check, members, TypeOK
  <2>4. UNCHANGED <<impl, alive, port, scheduler, sock>>
    BY <1>4 DEF Check, members, TypeOK
  <2> QED BY <2>2, <2>3, <2>4 DEF Kept, ObjectsOwn
<1>5. ASSUME Poll PROVE Kept
  <2>1. /\ thread'.at \in {"idle", "check"}
        /\ thread'.at = "check" => thread'.impl \in Impls
        /\ thread' \in [at : {"idle", "bind", "listen", "check", "poll"},
                        impl : Impls \cup {None}, sock : Sockets \cup {None},
                        indefinitely : BOOLEAN]
    BY <1>5 DEF Poll, Called, CallKnown, TypeOK, Idle
  <2>2. CallKnown' BY <2>1 DEF CallKnown, Called
  <2>3. stopRequested' \in [Impls -> BOOLEAN]
    BY <1>5 DEF Poll, StillRequested, Called, CallKnown, TypeOK
  <2>4. TypeOK' BY <1>5, <2>1, <2>3 DEF Poll, TypeOK
  <2>5. UNCHANGED <<impl, alive, port, scheduler, sock>>
    BY <1>5 DEF Poll, TypeOK
  <2> QED BY <2>2, <2>4, <2>5 DEF Kept, ObjectsOwn
<1>6. ASSUME NEW p \in Ports, OtherBinds(p) \/ OtherListens(p) \/ OtherEnds(p) PROVE Kept
  BY <1>6 DEF Kept, OtherBinds, OtherListens, OtherEnds, members,
     TypeOK, ObjectsOwn, CallKnown, Called
<1>7. Kept BY <1>1, <1>2, <1>3, <1>4, <1>5, <1>6
<1> QED BY <1>7 DEF Kept, ObjectsOwn, AcceptorsListen, AcceptorPort, AcceptorsDiffer,
        StartedServersListen, ListenersAreOwned, Listeners

LEMMA ServerStep == ServerInv /\ [Next]_vars => ServerInv'
<1> SUFFICES ASSUME ServerInv, [Next]_vars PROVE ServerInv'
  OBVIOUS
<1>1. CASE UNCHANGED vars
  BY <1>1 DEF vars, members, ServerInv, TypeOK, ObjectsOwn, CallKnown, Called,
     AcceptorsListen, AcceptorPort, AcceptorsDiffer, StartedServersListen,
     ListenersAreOwned, Listeners
<1>2. CASE Next
  BY <1>2, ConstructStep, DestroyStep, MoveStep, NewSocketStep, BindStep, ListenStep,
     OtherStep DEF Next
<1> QED BY <1>1, <1>2

\* A server that init() has started listens on the port it was made for, unless
\* the process may not bind that port (tcp_socket::bind, make_socket).
THEOREM ListensCorrect == Spec => []ListensWhereAsked
<1>1. ServerInv => ListensWhereAsked
  BY DEF ServerInv, AcceptorsListen, AcceptorPort, ListensWhereAsked
<1> QED BY <1>1, ServerInit, ServerStep, PTL DEF Spec

\* What listens on a port the program asked for is the acceptor of a server
\* that is still allocated (server::~server, init).
THEOREM OwnedCorrect == Spec => []ListenersAreOwned
<1>1. ServerInv => ListenersAreOwned BY DEF ServerInv
<1> QED BY <1>1, ServerInit, ServerStep, PTL DEF Spec

\* A server that init() has started goes on listening until it is destroyed
\* itself (server::operator=, ~server, server_impl::init).
THEOREM StartedCorrect == Spec => []StartedServersListen
<1>1. ServerInv => StartedServersListen BY DEF ServerInv
<1> QED BY <1>1, ServerInit, ServerStep, PTL DEF Spec
=============================================================================
