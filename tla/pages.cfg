SPECIFICATION Spec
CONSTANTS
    owner = owner
    successor = successor
    member1 = member1
    member2 = member2
    open = open
    NoAccount = NoAccount
    Registry = Registry
    Accounts <- MCAccounts
    MaxBids = 0
    Markets = {1}
    MarketSchemas <- MCMarketSchemas
    OpenSchemas = {open}
    Data <- MCData
    MaxAttestations = 2
    MaxSignatures = 0
    MarketSettings <- MCMarketSettings
    Expirations = {2}
    ThirtyDays = 2
    ManagedMarkets = {1}
    Stakeholders = {member1, member2}
    Successors = {}
    Creators = {owner}
    InitialMarkets = 0
    InitialSettings <- MCInitialSettings
    InitialOwner <- MCInitialOwner
    Signers = {}
    References = {0}
    MaxTime = 1
    PageSizes = {1, 2}
INVARIANTS
    EveryPageReadable
