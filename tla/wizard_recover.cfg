SPECIFICATION Spec
CONSTANTS
    eth = eth
    bsc = bsc
    sol = sol
    Nil = Nil
    Chains = {eth, bsc, sol}
    Kind <- MCKind
    Home = eth
    Registered = {bsc, sol}
    DefaultSource = sol
    DefaultTarget = eth
    PastTarget = eth
    Links = {}
    MaxSends = 1
    MaxChoices = 3
    MaxReloads = 0
INVARIANT CompleteMeansReleased
CHECK_DEADLOCK FALSE
