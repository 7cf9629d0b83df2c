SPECIFICATION Spec
CONSTANTS
    maxInt = 7
    maxLargestInt = 127
    maxLargestUInt = 255
    MaxWord = 3
    Documents <- AllDocuments
INVARIANTS AcceptedAsMeant ReadAsMeant OffsetsNest CommentsKept
PROPERTY Finishes
CHECK_DEADLOCK FALSE
