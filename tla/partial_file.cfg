SPECIFICATION UpSpec
CONSTANTS
    MaxRelease = 3
    UpdateEnv = {"copyError"}
    MaxFaults = 1
    Packages = {"base", "extra", "zos"}
    Zos = "zos"
    Flist <- MCFlist
    Nodes <- HubNode
INVARIANT FilesWhole
