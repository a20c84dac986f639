SPECIFICATION Spec
CONSTANTS
    Contracts = {c1}
    Names = {"vm"}
    TypeIndex <- MCTypeIndex
    Updatable = {"vm"}
    Env <- FullEnv
    MaxVersion = 1
    MaxQueue = 3
    Callers = {"handler"}
INVARIANT TypeOK
INVARIANT StoredIsProvisioned
INVARIANT NoStrandedInit
