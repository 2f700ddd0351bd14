SPECIFICATION Spec
CONSTANTS
    g1 = g1
    g2 = g2
    g3 = g3
    g4 = g4
    d1 = d1
    d2 = d2
    gov = gov
    id1 = id1
    idGov = idGov
    Nil = Nil
    Guardians = {g1, g2, g3, g4}
    Self = g1
    GuardianSets <- MCGrowing
    Digests = {gov}
    VaaIDs = {idGov}
    IdOf <- MCIdOfGov
    Timestamp <- MCTimestampGov
    GovernanceDigests = {gov}
    SettlementTime = 0
    UnsubmittedTime = 1
    SubmittedTime = 2
    OwnRetryLimit = 2
    NilRetryLimit = 1
    DBMayFail = TRUE
    GossipedVAAs <- MCGossipGrowing
    MaxLoopback = 1
CONSTRAINT MCOneBroadcast
CHECK_DEADLOCK FALSE
INVARIANTS VerifiedHere QuorumNotMissed
PROPERTIES SubmittedOnce ObservationNotForgotten
