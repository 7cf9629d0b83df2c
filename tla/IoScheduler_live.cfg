SPECIFICATION FairSpec
CONSTANTS
    Conns = {c1, c2}
    Acceptor = acceptor
    NoChan = noChan
    Responses <- AllKinds
    Room = 2
    FdLimit = 2
    MaxRequests = 1
    Polite = TRUE
    Departures = {"fin", "reset"}
    AddMayFail = FALSE
    AsyncJoins = TRUE
PROPERTIES Served Accepted DepartedAreRemoved
CHECK_DEADLOCK FALSE
