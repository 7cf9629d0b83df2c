------------------------------- MODULE Server -------------------------------
(***************************************************************************)
(* The library's front (server.cpp) and what it sets up: server objects,   *)
(* the implementations they own, the listening socket each makes in        *)
(* init(), the process-wide configuration, the loop of run() and freeze()  *)
(* called beside it.  Another process uses the same ports.  One thread     *)
(* makes, moves, configures, starts and destroys servers; freeze() comes   *)
(* from any thread, or from a handler in the loop.                         *)
(***************************************************************************)
EXTENDS FiniteSets, Naturals

CONSTANTS
    Objects,      \* the web::server variables of the program
    Impls,        \* the server_impl objects it may allocate, numbered
    Sockets,      \* the tcp_sockets it may allocate, numbered
    Ports,        \* the ports asked for
    Privileged,   \* those of them this process may not bind
    Limits,       \* values of configuration::max_connections
    Default,      \* the one a configuration starts with
    None, Ephemeral, Uninitialised

ASSUME ServerAssumption ==
    /\ Impls \subseteq Nat /\ Sockets \subseteq Nat
    /\ Privileged \subseteq Ports
    /\ Default \in Limits
    /\ None \notin Impls \cup Sockets \cup Ports
    /\ Ephemeral \notin Ports \cup {None}
    /\ Uninitialised \notin Limits

VARIABLES
    impl,          \* the implementation of each object: None before and after its life
    alive,         \* the implementations that are allocated
    port, maxPending, stopRequested, scheduler,   \* their members
    config,        \* storage::m_settings, its max_connections
    sock,          \* each socket: how far it is, its port and its backlog
    thread,        \* what the main thread is in
    other          \* each port in the other process

members == <<port, maxPending, stopRequested, scheduler>>
vars == <<impl, alive, port, maxPending, stopRequested, scheduler, config, sock,
          thread, other>>

Idle == [at |-> "idle", impl |-> None, sock |-> None, indefinitely |-> FALSE]
NoSocket == [state |-> "unused", port |-> None, backlog |-> None]

Init ==
    /\ impl = [o \in Objects |-> None]
    /\ alive = {}
    /\ port = [i \in Impls |-> None]
    /\ maxPending = [i \in Impls |-> Uninitialised]
    /\ stopRequested = [i \in Impls |-> FALSE]
    /\ scheduler = [i \in Impls |-> None]
    /\ config = Default
    /\ sock = [s \in Sockets |-> NoSocket]
    /\ thread = Idle
    /\ other = [p \in Ports |-> "none"]

-----------------------------------------------------------------------------
(* Objects.                                                                *)

Called(at) == thread.at = at

(* The next implementation and the next socket that are allocated.         *)
NextImpl(i) ==
    /\ port[i] = None
    /\ \A j \in Impls : j < i => port[j] # None
NextSocket(s) ==
    /\ sock[s].state = "unused"
    /\ \A r \in Sockets : r < s => sock[r].state # "unused"

(* server(int port): a dispatcher without routes and a scheduler without   *)
(* channels.  m_max_pending is left as the memory had it.                  *)
Construct(o, i, p) ==
    /\ Called("idle") /\ impl[o] = None /\ NextImpl(i)
    /\ impl' = [impl EXCEPT ![o] = i]
    /\ alive' = alive \cup {i}
    /\ port' = [port EXCEPT ![i] = p]
    /\ UNCHANGED <<maxPending, stopRequested, scheduler, config, sock, thread, other>>

(* What deleting a scheduler does to its acceptor.                         *)
WrongDeleted(i) == sock
Deleted(i) ==
    [s \in Sockets |-> IF s = scheduler[i] THEN [sock[s] EXCEPT !.state = "closed"] ELSE sock[s]]

(* ~server(), which deletes the implementation and with it the scheduler,  *)
(* its channels and their sockets.                                         *)
Destroy(o) ==
    /\ Called("idle") /\ impl[o] # None
    /\ impl' = [impl EXCEPT ![o] = None]
    /\ alive' = alive \ {impl[o]}
    /\ sock' = Deleted(impl[o])
    /\ UNCHANGED <<members, config, thread, other>>

(* operator=(server &&), also as the constructor: the implementation o had *)
(* is forgotten, not deleted.                                              *)
WrongMoved(o, from) == [impl EXCEPT ![o] = impl[from]]
Moved(o, from) == [impl EXCEPT ![o] = impl[from], ![from] = None]

Move(o, from) ==
    /\ Called("idle") /\ o # from
    /\ impl' = Moved(o, from)
    /\ UNCHANGED <<alive, members, config, sock, thread, other>>

(* The limit set_config() keeps for init().                                *)
SetConfig(o, limit) ==
    /\ thread.at \in {"idle", "poll"} /\ impl[o] # None
    /\ config' = limit
    /\ maxPending' = [maxPending EXCEPT ![impl[o]] = limit]
    /\ UNCHANGED <<impl, alive, port, stopRequested, scheduler, sock, thread, other>>

-----------------------------------------------------------------------------
(* init(): socket, bind and listen, with the other process in between.     *)

Listeners(p) == {s \in Sockets : sock[s].state = "listening" /\ sock[s].port = p}
Taken(p) == Listeners(p) # {} \/ other[p] = "listening"

(* A socket the process never had.  It may have no descriptor left for it. *)
NewSocket(o, s) ==
    /\ Called("idle") /\ impl[o] # None /\ NextSocket(s)
    /\ sock' = [sock EXCEPT ![s].state = "created"]
    /\ thread' = [Idle EXCEPT !.at = "bind", !.impl = impl[o], !.sock = s]
    /\ UNCHANGED <<impl, alive, members, config, other>>

(* bind() tells a port in use from other errors, which it passes over.     *)
(* SO_REUSEADDR lets two sockets bind one port while neither listens.      *)
WrongToldInUse(p) == FALSE
ToldInUse(p) == p \notin Privileged /\ Taken(p)
Bound(p) == IF p \in Privileged \/ Taken(p) THEN None ELSE p

Bind ==
    /\ Called("bind")
    /\ LET p == port[thread.impl]
       IN  IF ToldInUse(p)
           THEN thread' = Idle /\ UNCHANGED sock    \* port_in_use; nobody deletes the socket
           ELSE /\ sock' = [sock EXCEPT ![thread.sock].state = "bound",
                                        ![thread.sock].port = Bound(p)]
                /\ thread' = [thread EXCEPT !.at = "listen"]
    /\ UNCHANGED <<impl, alive, members, config, other>>

(* The backlog handed to listen.                                           *)
Backlog(i) == maxPending[i]

(* Where a socket listens: one that bound nothing is given a port by the   *)
(* kernel.                                                                 *)
ListensAt(s) == IF sock[s].port = None THEN Ephemeral ELSE sock[s].port

(* listen(), which fails when another socket bound to the port was quicker *)
(* ("Listen failed", and nobody deletes the socket), and then the new      *)
(* scheduler, which replaces the one there was without deleting it.        *)
Listen ==
    /\ Called("listen")
    /\ thread' = Idle
    /\ LET s == thread.sock
           i == thread.impl
       IN  IF sock[s].port \in Ports /\ Taken(sock[s].port)
           THEN UNCHANGED <<sock, scheduler>>
           ELSE /\ sock' = [sock EXCEPT ![s] = [state |-> "listening", port |-> ListensAt(s),
                                                backlog |-> Backlog(i)]]
                /\ scheduler' = [scheduler EXCEPT ![i] = s]
    /\ UNCHANGED <<impl, alive, port, maxPending, stopRequested, config, other>>

-----------------------------------------------------------------------------
(* run() and freeze().                                                     *)

Run(o, indefinitely) ==
    /\ Called("idle") /\ impl[o] # None
    /\ thread' = [Idle EXCEPT !.at = IF indefinitely THEN "check" ELSE "poll",
                              !.impl = impl[o], !.indefinitely = indefinitely]
    /\ stopRequested' = IF indefinitely THEN [stopRequested EXCEPT ![impl[o]] = FALSE]
                                        ELSE stopRequested
    /\ UNCHANGED <<impl, alive, port, maxPending, scheduler, config, sock, other>>

(* while (!m_stop_requested)                                               *)
Check ==
    /\ Called("check")
    /\ thread' = IF stopRequested[thread.impl] THEN Idle ELSE [thread EXCEPT !.at = "poll"]
    /\ UNCHANGED <<impl, alive, members, config, sock, other>>

(* Whether the flag still stands when a pass over the events is over.      *)
WrongStillRequested(i) == stopRequested[i] /\ ~thread.indefinitely
StillRequested(i) == stopRequested[i]

(* m_scheduler.run(): one await, of a second at most, and its events.      *)
Poll ==
    /\ Called("poll")
    /\ thread' = IF thread.indefinitely THEN [thread EXCEPT !.at = "check"] ELSE Idle
    /\ stopRequested' = [stopRequested EXCEPT ![thread.impl] = StillRequested(thread.impl)]
    /\ UNCHANGED <<impl, alive, port, maxPending, scheduler, config, sock, other>>

(* From another thread at any moment, from a handler during a pass.        *)
Freeze(o) ==
    /\ impl[o] # None
    /\ stopRequested' = [stopRequested EXCEPT ![impl[o]] = TRUE]
    /\ UNCHANGED <<impl, alive, port, maxPending, scheduler, config, sock, thread, other>>

-----------------------------------------------------------------------------
(* The other process, which sets up a server of the same kind.             *)

OtherBinds(p) ==
    /\ p \notin Privileged /\ other[p] = "none" /\ Listeners(p) = {}
    /\ other' = [other EXCEPT ![p] = "bound"]
    /\ UNCHANGED <<impl, alive, members, config, sock, thread>>

OtherListens(p) ==
    /\ other[p] = "bound" /\ Listeners(p) = {}
    /\ other' = [other EXCEPT ![p] = "listening"]
    /\ UNCHANGED <<impl, alive, members, config, sock, thread>>

OtherEnds(p) ==
    /\ other[p] # "none"
    /\ other' = [other EXCEPT ![p] = "none"]
    /\ UNCHANGED <<impl, alive, members, config, sock, thread>>

Next ==
    \/ \E o \in Objects :
        \/ \E i \in Impls, p \in Ports : Construct(o, i, p)
        \/ Destroy(o)
        \/ \E from \in Objects : Move(o, from)
        \/ \E limit \in Limits : SetConfig(o, limit)
        \/ \E s \in Sockets : NewSocket(o, s)
        \/ \E indefinitely \in BOOLEAN : Run(o, indefinitely)
        \/ Freeze(o)
    \/ Bind
    \/ Listen
    \/ Check
    \/ Poll
    \/ \E p \in Ports : OtherBinds(p) \/ OtherListens(p) \/ OtherEnds(p)

(* The thread goes on: a pass ends after a second without events, and its  *)
(* handlers return.                                                        *)
Spec == Init /\ [][Next]_vars /\ WF_vars(Bind) /\ WF_vars(Listen) /\ WF_vars(Check) /\ WF_vars(Poll)

-----------------------------------------------------------------------------
Socket == [state : {"unused", "created", "bound", "listening", "closed"},
           port : Ports \cup {None, Ephemeral},
           backlog : Limits \cup {None, Uninitialised}]

(* The types of the variables.                                             *)
TypeOK ==
    /\ impl \in [Objects -> Impls \cup {None}]
    /\ alive \subseteq Impls
    /\ port \in [Impls -> Ports \cup {None}]
    /\ maxPending \in [Impls -> Limits \cup {Uninitialised}]
    /\ stopRequested \in [Impls -> BOOLEAN]
    /\ scheduler \in [Impls -> Sockets \cup {None}]
    /\ config \in Limits
    /\ sock \in [Sockets -> Socket]
    /\ thread \in [at : {"idle", "bind", "listen", "check", "poll"},
                   impl : Impls \cup {None}, sock : Sockets \cup {None}, indefinitely : BOOLEAN]
    /\ other \in [Ports -> {"none", "bound", "listening"}]

(* A server that init() has started listens on the port it was made for,   *)
(* whoever else was binding or listening meanwhile and however often       *)
(* init() was tried, unless the process may not bind that port: then       *)
(* bind() passes over the error and listen() takes a port of its own       *)
(* (tcp_socket::bind, make_socket).                                        *)
ListensWhereAsked ==
    \A i \in Impls : scheduler[i] # None =>
        \/ sock[scheduler[i]].port = port[i]
        \/ port[i] \in Privileged

(* A port is given back: what listens on a port the program asked for is   *)
(* the acceptor of an implementation that is still allocated.  Failed and  *)
(* repeated init()s leave sockets behind, but none that listens there      *)
(* (server::~server, init).                                                *)
ListenersAreOwned ==
    \A p \in Ports : \A s \in Listeners(p) : \E i \in alive : scheduler[i] = s

(* A server that init() has started goes on listening until it is          *)
(* destroyed itself: no move, no destruction of the object it was moved    *)
(* from or of another server, and no failed or repeated init() takes its   *)
(* acceptor away (server::operator=, ~server, server_impl::init).          *)
StartedServersListen ==
    \A o \in Objects : impl[o] # None =>
        /\ impl[o] \in alive
        /\ scheduler[impl[o]] # None => sock[scheduler[impl[o]]].state = "listening"

(* freeze() during the loop ends it.  One that precedes the start of the   *)
(* loop is forgotten (server_impl::run, freeze).                           *)
FreezeIsHeard ==
    \A i \in Impls :
        (thread.impl = i /\ thread.indefinitely /\ stopRequested[i]) ~> Called("idle")
=============================================================================
