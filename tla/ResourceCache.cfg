\* Three ticks and three contents: written, removed and renamed over at every
\* question of every call.
SPECIFICATION MemorySpec
CONSTANTS
    MaxTime = 3
    MaxVersion = 3
INVARIANTS
    NeverStampedTooLate
PROPERTY
    StaleOnlyWithinTick
