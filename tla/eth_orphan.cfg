SPECIFICATION Spec
CONSTANTS
    t1 = t1
    t2 = t2
    Nil = Nil
    Txs = {t1}
    ConsistencyLevel <- MCLevelsOne
    MinConfirmations = 1
    MaxReorg = 1
    RPCMayFail = FALSE
    MayResubscribe = FALSE
    MaxHeight = 6
    MaxForks = 2
    MaxLag = 2
CHECK_DEADLOCK FALSE
INVARIANTS LookUpSurvivesReorg
