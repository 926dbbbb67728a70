SPECIFICATION Spec
CONSTANTS
    lender = lender
    borrower = borrower
    ext = ext
    self = self
    main = main
    NoAccount = NoAccount
    Accounts <- MCAccounts
    MaxBids = 2
    Markets = {1}
    Forwarders = {self}
    lenderCommitmentForwarder = main
    MarketOwner <- MCMarketOwner
    Self = self
    Candidates = {self}
    Extensions = {}
    Offers <- MCBlankOffers
    Guests <- MCGuests
    Collaterals <- MCCollaterals
    Principals = {1, 2}
    Rates = {0, 1}
    Durations = {1, 2}
    Leaves <- MCLeaves
    TokenUnit = 1
    CollateralUnit = 1
    NoAsset = 0
    MaxCommitments = 2
    MaxTime = 2
INVARIANTS
    LendableUpToMaximum
CHECK_DEADLOCK FALSE
