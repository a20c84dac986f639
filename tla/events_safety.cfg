SPECIFICATION NodeSpec
CONSTANTS
    Contracts = {c1}
    Names = {"net", "vm"}
    TypeIndex <- MCTypeIndex
    Updatable = {"vm"}
    Env <- NodeEnv
    MaxVersion = 0
    MaxQueue = 2
    Callers = {"handler", "sync"}
    Gateway = "flaky"
    Lossy = {"cancel", "lock"}
    MaxLocks = 1
INVARIANT DeletedIsUninstalled
