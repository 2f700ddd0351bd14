SPECIFICATION MCSpec
CONSTANTS
    eth = eth
    bsc = bsc
    sol = sol
    Nil = Nil
    Chains = {eth, bsc, sol}
    Kind <- MCKind
    Home = eth
    Registered = {bsc, sol}
    DefaultSource = sol
    DefaultTarget = eth
    PastTarget = eth
    Links <- MCLinks
    MaxSends = 2
    MaxChoices = 2
    MaxReloads = 1
    x = x
    y = y
    Assets = {x, y}
    AttestAssets = {x}
    MaxAttests = 2
    MaxEdits = 3
    n1 = n1
    n2 = n2
    NFTs = {n1, n2}
    HomeOf <- MCHomeOf
    PastToken = n1
    PastNFTTarget = sol
    MaxNFTSends = 1
    MaxNFTChoices = 3
    e1 = e1
    e2 = e2
    s1 = s1
    s2 = s2
    Wallets <- MCWallets
    FirstWallet <- MCFirstWallet
    MaxClicks = 3
    terra = terra
    VerifierChains = {eth, bsc, sol, terra}
    VerifierKind <- MCVerifierKind
    DefaultPrimary = sol
    DefaultSecondary = terra
    OriginOf <- MCOriginOf
    MaxChanges = 3
    Users = {"lp", "swapper"}
    Owner = "lp"
    Units <- MCUnits
    ShareUnit = 2
    Holdings <- MCHoldings
    Amounts = {1, 2}
    MaxCalls = 3
INVARIANTS TypesOK SentIsConsistent VaaIsForTargetChain CompleteUnlessRecovered CompleteMeansRegistered NFTSentIsConsistent NFTCompleteMeansReceived SelectionIsOfWallet AnswerIsForQuestion PoolIsSolvent
PROPERTIES WaitingEndsOnEveryPage
CHECK_DEADLOCK FALSE
