SPECIFICATION UpFairSpec
CONSTANTS
    MaxRelease = 3
    UpdateEnv <- FaultsEnv
    MaxFaults = 2
    Packages = {"base", "extra", "zos"}
    Zos = "zos"
    Flist <- MCFlist
    Nodes <- MCNodes
INVARIANT RunsRelease
INVARIANT ZosIsLast
INVARIANT FilesWhole
PROPERTY NodesFollow
\* A node whose bootstrap failed does nothing until it is rebooted.
CHECK_DEADLOCK FALSE
