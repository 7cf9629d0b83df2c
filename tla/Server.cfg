\* Two variables, two implementations and two sockets on a port and on one
\* that may not be bound; another process sets up the same.
SPECIFICATION Spec
CONSTANTS
    Objects = {a, b}
    Impls = {1, 2}
    Sockets = {1, 2}
    Ports = {free, low}
    Privileged = {low}
    Limits = {few, many}
    Default = many
    None = None
    Ephemeral = Ephemeral
    Uninitialised = Uninitialised
INVARIANTS
    ListensWhereAsked
    ListenersAreOwned
    StartedServersListen
PROPERTIES
    FreezeIsHeard
CHECK_DEADLOCK FALSE
