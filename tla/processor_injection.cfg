SPECIFICATION FairSpec
CONSTANTS
    g1 = g1
    g2 = g2
    g3 = g3
    g4 = g4
    d1 = d1
    d2 = d2
    gov = gov
    id1 = id1
    idGov = idGov
    Nil = Nil
    Guardians = {g1, g2, g3, g4}
    Self = g1
    GuardianSets <- MCFour
    Digests = {gov}
    VaaIDs = {idGov}
    IdOf <- MCIdOfGov
    Timestamp <- MCTimestampGov
    GovernanceDigests = {gov}
    SettlementTime = 0
    UnsubmittedTime = 1
    SubmittedTime = 2
    OwnRetryLimit = 2
    NilRetryLimit = 1
    DBMayFail = FALSE
    GossipedVAAs <- MCGossipFour
    MaxLoopback = 1
CHECK_DEADLOCK FALSE
PROPERTIES QuorumActedOn SubmittedExpires UnobservedExpires
