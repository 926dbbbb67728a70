SPECIFICATION Spec
CONSTANTS
    lender = lender
    borrower = borrower
    ext = ext
    self = self
    main = main
    NoAccount = NoAccount
    Accounts <- MCAccounts
    MaxBids = 2
    Markets = {1}
    Forwarders = {self}
    lenderCommitmentForwarder = main
    MarketOwner <- MCMarketOwner
    Self = self
    Candidates = {self}
    Extensions = {ext}
    Offers <- MCOffers
    Guests <- MCGuests
    Collaterals <- MCCollaterals
    Principals = {1}
    Rates = {0, 1}
    Durations = {1, 2}
    Leaves <- MCLeaves
    TokenUnit = 1
    CollateralUnit = 1
    NoAsset = 0
    MaxCommitments = 2
    MaxTime = 2
INVARIANTS
    TypeOK
    NobodyBoundUnasked
PROPERTIES
    ImplementsCreditLine
    LoanCoveredByCollateral
CHECK_DEADLOCK FALSE
