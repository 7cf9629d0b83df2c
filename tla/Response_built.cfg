\* A text, a page and nothing, edited three times, with compression.
SPECIFICATION Spec
CONSTANTS
    Contents = {"", "note", "page"}
    Tight = {"", "note"}
    Compression = TRUE
    MaxEdits = 3
INVARIANTS
    LengthIsBody
    ContentIsSent
    KeptAsAnnounced
CHECK_DEADLOCK FALSE
