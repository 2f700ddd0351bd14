SPECIFICATION Spec
CONSTANTS
    t1 = t1
    t2 = t2
    Nil = Nil
    Txs = {t1, t2}
    ConsistencyLevel <- MCLevels
    MinConfirmations = 1
    MaxReorg = 2
    RPCMayFail = FALSE
    MayResubscribe = TRUE
    MaxHeight = 5
    MaxForks = 1
    MaxLag = 2
CHECK_DEADLOCK FALSE
INVARIANTS TypeOK PublishedIsFinal TimestampIsOfBlock OneMessagePerTx
