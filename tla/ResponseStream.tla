--------------------------- MODULE ResponseStream ---------------------------
(***************************************************************************)
(* What the scheduler promises every peer: the units of its answers arrive *)
(* in the order of its requests, each exactly once, and the connection is  *)
(* closed under it only when everything promised has been handed over and  *)
(* the last answer did not ask to keep it.  The one thing that may cut an  *)
(* answer short under a peer that stays is a file the answer is made of.   *)
(* There is no event loop here, no epoll and no buffers.                   *)
(***************************************************************************)
EXTENDS Integers, SequencesExt

CONSTANTS
    Conns,       \* connections
    MaxAnswers,  \* bound: answers per connection
    Sizes        \* how many units an answer may have

VARIABLES
    life,      \* "none", "open" or "closed"
    gone,      \* the peer has left
    promised,  \* answers given so far
    filed,     \* the answers that a file is a part of
    pending,   \* units still to be handed over, each the number of its answer
    handed,    \* units handed over that the peer has not taken yet
    stay       \* the connection survives the end of what is pending

vars == <<life, gone, promised, filed, pending, handed, stay>>

Init ==
    /\ life = [c \in Conns |-> "none"]
    /\ gone = [c \in Conns |-> FALSE]
    /\ promised = [c \in Conns |-> 0]
    /\ filed = [c \in Conns |-> {}]
    /\ pending = [c \in Conns |-> <<>>]
    /\ handed = [c \in Conns |-> <<>>]
    /\ stay = [c \in Conns |-> FALSE]

\* Several connections may be accepted at once.
Open(new) ==
    /\ \A c \in new : life[c] = "none"
    /\ life' = [c \in Conns |-> IF c \in new THEN "open" ELSE life[c]]
    /\ UNCHANGED <<gone, promised, filed, pending, handed, stay>>

\* An answer of n units, of a file or not, joins the end of what is pending.
Answer(c, n, file, keep) ==
    /\ life[c] = "open" /\ promised[c] < MaxAnswers
    /\ promised' = [promised EXCEPT ![c] = @ + 1]
    /\ filed' = [filed EXCEPT ![c] = IF file THEN @ \cup {promised'[c]} ELSE @]
    /\ pending' = [pending EXCEPT ![c] = @ \o [i \in 1..n |-> promised'[c]]]
    /\ stay' = [stay EXCEPT ![c] = keep]
    /\ UNCHANGED <<life, gone, handed>>

\* The first n pending units are handed over.  When they are the last ones,
\* the connection closes if it is not to stay.
HandOver(c, n) ==
    /\ life[c] = "open"
    /\ handed' = [handed EXCEPT ![c] = @ \o SubSeq(pending[c], 1, n)]
    /\ pending' = [pending EXCEPT ![c] = SubSeq(@, n + 1, Len(@))]
    /\ IF pending'[c] = <<>> /\ ~stay[c]
       THEN /\ life' = [life EXCEPT ![c] = "closed"]
            /\ stay' = [stay EXCEPT ![c] = FALSE]
       ELSE UNCHANGED <<life, stay>>
    /\ UNCHANGED <<gone, promised, filed>>

Take(c) ==
    /\ handed[c] # <<>>
    /\ handed' = [handed EXCEPT ![c] = Tail(@)]
    /\ UNCHANGED <<life, gone, promised, filed, pending, stay>>

\* The peer leaves; a reset discards what is on its way.
Depart(c) ==
    /\ gone' = [gone EXCEPT ![c] = TRUE]
    /\ handed' \in {handed, [handed EXCEPT ![c] = <<>>]}
    /\ UNCHANGED <<life, promised, filed, pending, stay>>

\* A peer that left loses what is still pending for it, and so does one that
\* is in the middle of an answer whose file fails.
Abandon(c) ==
    /\ life[c] = "open"
    /\ gone[c] \/ (pending[c] # <<>> /\ Head(pending[c]) \in filed[c])
    /\ life' = [life EXCEPT ![c] = "closed"]
    /\ pending' = [pending EXCEPT ![c] = <<>>]
    /\ stay' = [stay EXCEPT ![c] = FALSE]
    /\ UNCHANGED <<gone, promised, filed, handed>>

Next ==
  \/ \E new \in SUBSET Conns : Open(new)
  \/ \E c \in Conns :
    \/ Take(c) \/ Depart(c) \/ Abandon(c)
    \/ \E n \in Sizes : \E file, keep \in BOOLEAN : Answer(c, n, file, keep)
    \/ \E n \in 1..Len(pending[c]) : HandOver(c, n)

Spec == Init /\ [][Next]_vars
=============================================================================
