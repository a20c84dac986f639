SPECIFICATION Spec
CONSTANTS
    Contracts = {c1}
    Names = {"net", "vm"}
    TypeIndex <- MCTypeIndex
    Updatable = {"vm"}
    Env <- CrashEnv
    MaxVersion = 2
    MaxQueue = 2
    Callers = {"handler"}
INVARIANT StoredIsProvisioned
PROPERTY NeverRetried
