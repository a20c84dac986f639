SPECIFICATION HistSpec
CONSTANTS
    Contracts = {c1}
    Names = {"vm"}
    TypeIndex <- MCTypeIndex
    Updatable = {"vm"}
    Env <- HistRebootEnv
    MaxVersion = 0
    MaxQueue = 2
    Callers = {"handler"}
PROPERTY ValidatedFirst
