SPECIFICATION Spec
CONSTANTS
    borrower = borrower
    lender1 = lender1
    keeper = keeper
    NoAccount = NoAccount
    Vault = Vault
    Self = Self
    UsingLenderManager = UsingLenderManager
    Accounts <- MCAccounts
    Markets = {1}
    MaxBids = 1
    Assets = {}
    NFTAssets = {}
    ProtocolOwner = keeper
    LiquidationDelay = 1
    Principals = {4}
    Durations = {5}
    APRs = {0, 10000}
    Payments = {2, 3, 6}
    CollateralAmounts = {1}
    ProtocolFees = {0}
    Borrowers = {borrower}
    Receivers = {NoAccount}
    Lenders = {lender1}
    Assignees = {}
    Payers = {borrower}
    Rated = {borrower}
    InitialTokens <- MCInitialTokens
    InitialAssets <- MCInitialAssets
    InitialSettings <- MCInitialSettings
    InitialOwner <- MCInitialOwner
    ProtocolOwnerActs = FALSE
    TransferOutcomes = {TRUE}
    MarketSettings = {}
    Expirations = {}
    ManagedMarkets = {}
    Stakeholders = {}
    Successors = {}
    Creators = {}
    InitialMarkets = 1
    ThirtyDays = 2
    StartTime = 3
    MaxTime = 12
    LastSubmission = 3
    Wad = 1000
    RatioUnit = 1000
    SecondsYear = 8
    MonthlyYear = 8
    MaxUint32 = 1000
    MonthLengths <- MCMonthLengths
    SecondsPerDay = 1
INVARIANTS
    PaidLoanHasNoCurrentMark
