SPECIFICATION RepSpec
CONSTANTS
    MaxTime = 3
    MaxRestarts = 1
    MaxFaults = 0
INVARIANT Accounted
CHECK_DEADLOCK FALSE
