SPECIFICATION Spec
CONSTANTS
    Conns = {c1, c2}
    Acceptor = acceptor
    NoChan = noChan
    Responses <- AllKinds
    Room = 2
    FdLimit = 2
    MaxRequests = 2
    Polite = TRUE
    Departures = {"fin", "reset"}
    AddMayFail = TRUE
    AsyncJoins = TRUE
SYMMETRY Interchangeable
INVARIANTS NoTouchAfterRemove ArmedForQueue NoLostWakeup
PROPERTIES ClosedOnlyOnRequest WaitsOnlyForLeavers
CHECK_DEADLOCK FALSE
