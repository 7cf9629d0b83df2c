-------------------------- MODULE RequestContextMC --------------------------
(***************************************************************************)
(* Small instances of RequestContext for TLC, with ints below 3.           *)
(***************************************************************************)
EXTENDS RequestContext

Plain(method) == [method |-> method, digits |-> <<>>, units |-> 0, coding |-> "identity"]
Measured(method, digits) ==
    [method |-> method, digits |-> digits, units |-> Last(digits), coding |-> "identity"]
Unmeasured(coding) == [method |-> "Put", digits |-> <<>>, units |-> 1, coding |-> coding]

\* Lengths of one and of two digits, one that atoi makes negative (3) and one that
\* it makes 0 (6); bodies that is_complete finds no length for.
Asked ==
    {Plain("Get"), Plain("unknown"), Plain("Put")}
        \cup {Measured("Put", d) : d \in {<<1>>, <<1, 2>>, <<3>>, <<6>>}}
        \cup {Measured("Delete", <<2>>), Measured("unknown", <<1>>)}
        \cup {Unmeasured("identity"), Unmeasured("chunked")}
=============================================================================
