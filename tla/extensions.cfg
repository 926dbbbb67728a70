SPECIFICATION ExtensionsSpec
CONSTANTS
    borrower = borrower
    lender1 = lender1
    lender2 = lender2
    keeper = keeper
    dao = dao
    pool = pool
    flash = flash
    roll = roll
    autopay = autopay
    coin = coin
    NoAccount = NoAccount
    Vault = Vault
    Self = Self
    UsingLenderManager = UsingLenderManager
    FlashRollover = flash
    CommitmentRollover = roll
    Autopay = autopay
    Pool = pool
    Commitments <- MCCommitments
    PremiumPct = 2500
    AutopayFees = {5000}
    Callers = {keeper}
    NewPrincipals = {8}
    Margins <- MCMargins
    FlashMargins = {0, 4}
    Accounts <- MCAccounts
    Markets = {1}
    MaxBids = 2
    Assets = {coin}
    NFTAssets = {}
    ProtocolOwner = dao
    LiquidationDelay = 1
    Principals = {4}
    Durations = {4}
    APRs = {10000}
    Payments = {}
    CollateralAmounts = {1}
    ProtocolFees = {1250}
    Borrowers = {borrower}
    Receivers = {NoAccount}
    Lenders = {lender1}
    Assignees = {}
    Payers = {dao}
    Rated = {}
    InitialTokens <- MCInitialTokens
    InitialAssets <- MCInitialAssets
    InitialSettings <- MCInitialSettings
    InitialOwner <- MCInitialOwner
    ProtocolOwnerActs = FALSE
    TransferOutcomes = {TRUE}
    MarketSettings = {}
    Expirations = {}
    ManagedMarkets = {}
    Stakeholders = {}
    Successors = {}
    Creators = {}
    InitialMarkets = 1
    ThirtyDays = 2
    StartTime = 3
    MaxTime = 5
    LastSubmission = 5
    Wad = 1000
    RatioUnit = 1000
    SecondsYear = 4
    MonthlyYear = 4
    MaxUint32 = 1000
    MonthLengths <- MCMonthLengths
    SecondsPerDay = 1
INVARIANTS
    ExtensionsTypeOK
    QuoteSuffices
PROPERTIES
    ImplementsLoanSwap
    QuotesHold
    AutopayWithinSchedule
