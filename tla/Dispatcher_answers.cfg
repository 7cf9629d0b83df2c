\* Two routes of four, files of up to three units around a page of one and a
\* limit of three.
SPECIFICATION Spec
CONSTANTS
    Routes <- Registered
    Paths <- Places
    Asked = {"Get", "other"}
    Page = 1
    CopyLimit = 3
    MaxSize = 3
    MaxRoutes = 2
    MaxChanges = 2
INVARIANTS
    NotFoundHasReason
    ServedWasThere
    LargeIsNotCopied
    
CHECK_DEADLOCK FALSE
