SPECIFICATION Spec
CONSTANTS
    Streams <- AllStreams
    FieldRange = 65536
    HTTP_MAX_HEADER_SIZE = 110
    ULLONG_MAX = 255
    MaxCuts = 2
    MaxPauses = 1
INVARIANTS
    AnnouncedAsSent
    HeaderIsCounted
    AssertsHold
    AcceptedUrlIsSplit
PROPERTY
    Finishes
CHECK_DEADLOCK FALSE
