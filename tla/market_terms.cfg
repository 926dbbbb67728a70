SPECIFICATION Spec
CONSTANTS
    borrower = borrower
    lender1 = lender1
    owner = owner
    dao = dao
    NoAccount = NoAccount
    Vault = Vault
    Self = Self
    UsingLenderManager = UsingLenderManager
    Accounts <- MCAccounts
    Markets = {1}
    MaxBids = 1
    Assets = {}
    NFTAssets = {}
    ProtocolOwner = dao
    LiquidationDelay = 1
    Principals = {4}
    Durations = {2}
    APRs = {0}
    Payments = {2}
    CollateralAmounts = {1}
    ProtocolFees = {0, 5000}
    Borrowers = {borrower}
    Receivers = {NoAccount}
    Lenders = {lender1}
    Assignees = {}
    Payers = {borrower}
    Rated = {}
    InitialTokens <- MCInitialTokens
    InitialAssets <- MCInitialAssets
    InitialSettings <- MCInitialSettings
    InitialOwner <- MCInitialOwner
    ProtocolOwnerActs = TRUE
    TransferOutcomes = {TRUE}
    MarketSettings <- MCMarketSettings
    Expirations = {2}
    ManagedMarkets = {1}
    Stakeholders = {lender1}
    Successors = {borrower}
    Creators = {owner}
    InitialMarkets = 0
    ThirtyDays = 2
    StartTime = 1
    MaxTime = 3
    LastSubmission = 1
    Wad = 1000
    RatioUnit = 1000
    SecondsYear = 12
    MonthlyYear = 12
    MaxUint32 = 5
    MonthLengths <- MCMonthLengths
    SecondsPerDay = 1
INVARIANTS
    RunningLoanRepayable
PROPERTIES
    LenderPaysPrincipal
    DefaultMovesOnlyByPayment
