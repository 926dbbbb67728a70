SPECIFICATION Spec
CONSTANTS
    owner = owner
    successor = successor
    member1 = member1
    member2 = member2
    open = open
    NoAccount = NoAccount
    Registry = Registry
    Accounts <- MCAccounts
    MaxBids = 0
    Markets = {1}
    MarketSchemas <- MCMarketSchemas
    OpenSchemas = {open}
    Data <- MCData
    MaxAttestations = 2
    MaxSignatures = 1
    MarketSettings <- MCMarketSettings
    Expirations = {2}
    ThirtyDays = 2
    ManagedMarkets = {1}
    Stakeholders = {member1}
    Successors = {successor, NoAccount}
    Creators = {owner}
    InitialMarkets = 0
    InitialSettings <- MCInitialSettings
    InitialOwner <- MCInitialOwner
    Signers = {owner, successor}
    References = {0, 1}
    MaxTime = 3
    PageSizes = {1, 2}
INVARIANTS
    TypeOK
    VerifiedAgrees
    LatestAttestationCounts
    SignatureGoodOnce
    RegistryAttestationsStand
    ListsMatchAttestations
    SlicesTile
PROPERTIES
    ImplementsMarketRegistry
