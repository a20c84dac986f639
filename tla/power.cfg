SPECIFICATION PowerFairSpec
CONSTANTS
    Addresses = {"a", "b"}
    NodeEnv = {"call", "lost", "crash", "subscribe", "wake"}
    MaxFaults = 2
    MaxEvents = 1
INVARIANT OffIsRecorded
INVARIANT DoneIsCurrent
PROPERTY AddressFollows
PROPERTY DownFollows
PROPERTY UpFollows
PROPERTY DisabledIsUp
