SPECIFICATION FairSpec
CONSTANTS
    Conns = {c1}
    Acceptor = acceptor
    NoChan = noChan
    Responses <- SyncAndFile
    Room = 3
    FdLimit = 2
    MaxRequests = 3
    Polite = FALSE
    Departures = {"fin", "reset"}
    AddMayFail = FALSE
    AsyncJoins = TRUE
PROPERTIES KeepsPromise Drains
CHECK_DEADLOCK FALSE
