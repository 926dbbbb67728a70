SPECIFICATION Spec
CONSTANTS
    borrower = borrower
    lender1 = lender1
    keeper = keeper
    coin = coin
    nft = nft
    NoAccount = NoAccount
    Vault = Vault
    Self = Self
    UsingLenderManager = UsingLenderManager
    Accounts <- MCAccounts
    Markets = {1}
    MaxBids = 2
    Assets = {coin, nft}
    NFTAssets = {nft}
    ProtocolOwner = keeper
    LiquidationDelay = 1
    Principals = {2}
    Durations = {1}
    APRs = {0}
    Payments = {2}
    CollateralAmounts = {0, 1}
    ProtocolFees = {0}
    Borrowers = {borrower}
    Receivers = {NoAccount}
    Lenders = {lender1}
    Assignees = {keeper}
    Payers = {keeper}
    Rated = {}
    InitialTokens <- MCInitialTokens
    InitialAssets <- MCInitialAssets
    InitialSettings <- MCInitialSettings
    InitialOwner <- MCInitialOwner
    ProtocolOwnerActs = FALSE
    TransferOutcomes = {TRUE, FALSE}
    MarketSettings = {}
    Expirations = {}
    ManagedMarkets = {}
    Stakeholders = {}
    Successors = {}
    Creators = {}
    InitialMarkets = 1
    ThirtyDays = 30
    StartTime = 1
    MaxTime = 5
    LastSubmission = 1
    Wad = 1000
    RatioUnit = 1000
    SecondsYear = 12
    MonthlyYear = 12
    MaxUint32 = 1000
    MonthLengths <- MCMonthLengths
    SecondsPerDay = 1
INVARIANTS
    TypeOK
    WellFormed
    CustodyMatchesState
    CollateralNeverStuck
    VaultSolvent
    ActiveLoansTracked
PROPERTIES
    ImplementsCollateralizedLoan
CHECK_DEADLOCK FALSE
