\* One request whose Content-Length arrives in two pieces.
SPECIFICATION Spec
CONSTANTS
    Requests <- Asked
    IntRange = 3
    MaxRequests = 1
INVARIANTS
    HeaderValueWhole
CHECK_DEADLOCK FALSE
