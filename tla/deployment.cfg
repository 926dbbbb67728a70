SPECIFICATION FairSpec
CONSTANTS
    Targets = {"mainnet", "hardhat", "mumbai"}
    Tags = {"all", "liquidity-rewards"}
    MaxFaults = 2
    Wallets <- MCWallets
INVARIANTS
    TypeOK
    CompleteMeansHandedOver
    ProposedOncePerCrash
    AbortsExplained
PROPERTIES
    ImplementsHandOver
    DeploymentCompletes
