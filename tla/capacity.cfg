SPECIFICATION CapFairSpec
CONSTANTS
    Contracts = {c1}
    Names = {"vm"}
    TypeIndex <- MCTypeIndex
    Updatable = {"vm"}
    Env <- SetterEnv
    MaxVersion = 1
    MaxQueue = 2
    Callers = {"handler"}
    ChanCap = 1
INVARIANT UsedIsCurrent
PROPERTY CallbackReturns
