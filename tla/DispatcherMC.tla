---------------------------- MODULE DispatcherMC ----------------------------
(***************************************************************************)
(* Small instances of Dispatcher for TLC.                                  *)
(***************************************************************************)
EXTENDS Dispatcher

\* Two routes that take a GET, one that takes none, and one of a method that
\* is never passed on.
Registered ==
    {[method |-> "Get", matches |-> TRUE, handler |-> "sync"],
     [method |-> "Get", matches |-> TRUE, handler |-> "async"],
     [method |-> "Get", matches |-> FALSE, handler |-> "sync"],
     [method |-> "other", matches |-> TRUE, handler |-> "sync"]}

\* A file, a picture and a directory with its slash.
Places == {[slash |-> FALSE, jpg |-> FALSE], [slash |-> FALSE, jpg |-> TRUE],
           [slash |-> TRUE, jpg |-> FALSE]}
=============================================================================
