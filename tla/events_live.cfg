SPECIFICATION NodeFairSpec
CONSTANTS
    Contracts = {c1}
    Names = {"vm"}
    TypeIndex <- MCTypeIndex
    Updatable = {"vm"}
    Env <- UpEnv
    MaxVersion = 0
    MaxQueue = 2
    Callers = {"handler", "sync"}
    Gateway = "chain"
    Lossy = {"lock"}
    MaxLocks = 2
PROPERTY CancelledIsUninstalled
PROPERTY LockFollowsChain
