SPECIFICATION FairSpec
CONSTANTS
    m1 = m1
    c1 = c1
    Nil = Nil
    Messages = {m1}
    Creations = {c1}
    Sender <- MCSender
    ConsistencyLevel <- MCLevels
    MinConfirmations = 1
    MaxForkHeight = 1
    ChannelSize = 1
    MaxReorg = 1
    MaxHeight = 4
    MaxForks = 1
    MaxRestarts = 1
INVARIANTS TypeOK PublishedIsFinal DoneIsPublished ContractsAreKnown
PROPERTIES EveryMessagePublished
CHECK_DEADLOCK FALSE
