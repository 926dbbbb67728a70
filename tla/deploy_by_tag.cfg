SPECIFICATION Spec
CONSTANTS
    Targets = {"mainnet", "hardhat", "mumbai"}
    Tags = {"all", "liquidity-rewards"}
    MaxFaults = 2
    Wallets <- MCWallets
INVARIANT
    DependenciesSuffice
