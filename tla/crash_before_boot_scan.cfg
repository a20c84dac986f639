SPECIFICATION Spec
CONSTANTS
    Contracts = {c1}
    Names = {"vm"}
    TypeIndex <- MCTypeIndex
    Updatable = {"vm"}
    Env <- CrashRebootEnv
    MaxVersion = 0
    MaxQueue = 2
    Callers = {"handler"}
INVARIANT StoredIsProvisioned
