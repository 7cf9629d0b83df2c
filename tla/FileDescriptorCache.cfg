\* Two names, two files and two objects under fairness: shared, replaced,
\* removed, reused and sent.
SPECIFICATION FairSpec
CONSTANTS
    Paths = {p1, p2}
    Inodes = {i1, i2}
    Missing = Missing
    Files = {f1, f2}
    NumFds = 2
    MaxLen = 2
    Lengths = {0, 2}
    MaxLeaks = 1
INVARIANTS
    UseCountExact
    HandleStaysOpen
    NoDescriptorLost
    SizeIsOfHandle
PROPERTY
    SentToTheEnd
CHECK_DEADLOCK FALSE
