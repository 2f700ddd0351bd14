SPECIFICATION Spec
CONSTANTS
    g1 = g1
    g2 = g2
    g3 = g3
    g4 = g4
    d1 = d1
    d2 = d2
    gov = gov
    id1 = id1
    idGov = idGov
    Nil = Nil
    Guardians = {g1, g2, g3}
    Self = g1
    GuardianSets <- MCReplacing
    Digests = {d1, d2}
    VaaIDs = {id1}
    IdOf <- MCIdOfChain
    Timestamp <- MCTimestampChain
    GovernanceDigests = {}
    SettlementTime = 0
    UnsubmittedTime = 1
    SubmittedTime = 2
    OwnRetryLimit = 2
    NilRetryLimit = 1
    DBMayFail = FALSE
    GossipedVAAs <- MCGossipChain
    MaxLoopback = 1
CHECK_DEADLOCK FALSE
INVARIANTS TypeOK QuorumOfNamedSet StoredBeforeBroadcast
PROPERTIES StoredVAAStays
