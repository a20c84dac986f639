SPECIFICATION RepFairSpec
CONSTANTS
    MaxTime = 3
    MaxRestarts = 1
    MaxFaults = 1
INVARIANT NothingLost
PROPERTY QueueDrains
PROPERTY AtLeastOnce
\* The clock stops at its bound, and everyone waits for it.
CHECK_DEADLOCK FALSE
