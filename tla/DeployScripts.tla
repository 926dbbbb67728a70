---------------------------- MODULE DeployScripts ----------------------------
(***************************************************************************)
(* packages/contracts/deploy: what each script declares (tags,             *)
(* dependencies, networks it is skipped on, whether it runs at the end)    *)
(* and what it does, as a list of steps; hardhat.config.ts: the networks   *)
(* and the named accounts; and the order in which hardhat-deploy, an       *)
(* external library, runs the scripts a set of tags selects.               *)
(*                                                                         *)
(* A contract is its deployment's name and a script its id.                *)
(***************************************************************************)
EXTENDS Naturals, SequencesExt, FiniteSetsExt

(* Networks and accounts *)

LiveNetworks ==
    {"mainnet", "polygon", "arbitrum", "base", "mantle", "sepolia", "goerli", "mumbai",
     "mantle-testnet"}
LocalNetworks == {"hardhat", "localhost"}
Networks == LiveNetworks \cup LocalNetworks

ChainId ==
    [n \in Networks |->
        CASE n = "mainnet" -> 1 [] n = "goerli" -> 5 [] n = "polygon" -> 137 [] n = "mantle" -> 5000
          [] n = "mantle-testnet" -> 5001 [] n = "base" -> 8453 [] n = "arbitrum" -> 42161
          [] n = "mumbai" -> 80001 [] n = "sepolia" -> 11155111 [] OTHER -> 31337]

\* protocolOwnerSafe and protocolTimelock are given for the same chains.
ChainsWithOwners == {31337, 1, 5, 137, 5000, 8453, 42161, 11155111}
OwnersNamed(n) == ChainId[n] \in ChainsWithOwners

\* The account that deploys: the first of the mnemonic, but on a local chain a
\* fixed address.
GoerliDeployer == "goerliDeployer"
Deployer(n, first) == IF ChainId[n] = 31337 THEN GoerliDeployer ELSE first

NetworksWithAave == {"mainnet", "goerli", "sepolia", "polygon", "arbitrum", "base"}

-----------------------------------------------------------------------------
(* Steps and scripts *)

\* deployProxy, deployBeacon, deploy: args are the contracts given to the
\* constructor, the initializer or the linker.
Deploys(c, args) == [do |-> "deploy", contract |-> c, args |-> args]
\* transferOwnership, sent whoever the owner is.
Transfers(c, to, waits) == [do |-> "transfer", contract |-> c, to |-> to, waits |-> waits]
\* transferOwnership after looking who the owner is.
HandsOver(c, to, waits) == [do |-> "handOver", contract |-> c, to |-> to, waits |-> waits]
Initializes(args) == [do |-> "initialize", contract |-> "LendNestV2", args |-> args]
Proposes == [do |-> "propose"]

\* needs: the contracts the script gets by name before it does anything.
Script(id, tags, dependencies, needs, steps) ==
    [id |-> id, tags |-> tags \cup {id}, dependencies |-> dependencies, needs |-> needs,
     steps |-> steps, networks |-> Networks, runAtTheEnd |-> FALSE, records |-> TRUE]

ScriptOn(networks, id, tags, dependencies, needs, steps) ==
    [Script(id, tags, dependencies, needs, steps) EXCEPT !.networks = networks]

\* Mutant of EscrowBeacon: to the Gnosis Safe, as its log message has it.
EscrowBeaconToSafe ==
    Script("collateral:escrow-beacon:deploy", {"collateral", "collateral:escrow-beacon"}, << >>, {},
           << Deploys("CollateralEscrowBeacon", {}),
              Transfers("CollateralEscrowBeacon", "protocolOwnerSafe", FALSE) >>)

EscrowBeacon ==
    Script("collateral:escrow-beacon:deploy", {"collateral", "collateral:escrow-beacon"}, << >>, {},
           << Deploys("CollateralEscrowBeacon", {}),
              Transfers("CollateralEscrowBeacon", "protocolTimelock", FALSE) >>)

CollateralManager ==
    Script("collateral:manager:deploy", {"collateral", "collateral:manager"},
           << "LendNest-v2:deploy", "collateral:escrow-beacon:deploy" >>,
           {"CollateralEscrowBeacon", "LendNestV2"},
           << Deploys("CollateralManager", {"CollateralEscrowBeacon", "LendNestV2"}) >>)

\* Mutant of DefaultProxyAdmin: transfers whoever the owner is.
ProxyAdminUnchecked ==
    [Script("default-proxy-admin:transfer", {"default-proxy-admin"}, << "LendNest-v2:deploy" >>, {},
            << Transfers("ProxyAdmin", "protocolTimelock", FALSE) >>) EXCEPT !.runAtTheEnd = TRUE]

DefaultProxyAdmin ==
    [Script("default-proxy-admin:transfer", {"default-proxy-admin"}, << "LendNest-v2:deploy" >>, {},
            << HandsOver("ProxyAdmin", "protocolTimelock", FALSE) >>) EXCEPT !.runAtTheEnd = TRUE]

EscrowVault ==
    Script("escrow-vault:deploy", {"escrow-vault"}, << >>, {}, << Deploys("EscrowVault", {}) >>)

LenderCommitmentForwarder ==
    Script("lender-commitment-forwarder:deploy", {"lender-commitment-forwarder"},
           << "LendNest-v2:deploy", "market-registry:deploy" >>, {"LendNestV2", "MarketRegistry"},
           << Deploys("LenderCommitmentForwarder", {"LendNestV2", "MarketRegistry"}) >>)

LenderCommitmentForwarderStaging ==
    Script("lender-commitment-forwarder:staging:deploy",
           {"lender-commitment-forwarder", "lender-commitment-forwarder:staging"},
           << "LendNest-v2:deploy", "market-registry:deploy" >>, {"LendNestV2", "MarketRegistry"},
           << Deploys("LenderCommitmentForwarderStaging", {"LendNestV2", "MarketRegistry"}) >>)

ExtensionTags ==
    {"lender-commitment-forwarder", "lender-commitment-forwarder:extensions",
     "lender-commitment-forwarder:extensions:flash-rollover"}

FlashRollover ==
    ScriptOn(LiveNetworks \cap NetworksWithAave,
             "lender-commitment-forwarder:extensions:flash-rollover:deploy",
             ExtensionTags \cup {"lender-commitment-forwarder:extensions:deploy"},
             << "LendNest-v2:deploy", "lender-commitment-forwarder:deploy" >>,
             {"LendNestV2", "LenderCommitmentForwarderStaging"},
             << Deploys("FlashRolloverLoan", {"LendNestV2", "LenderCommitmentForwarderStaging"}) >>)

LenderManager ==
    Script("lender-manager:deploy", {"lender-manager"}, << "market-registry:deploy" >>,
           {"MarketRegistry"}, << Deploys("LenderManager", {"MarketRegistry"}) >>)

\* Mutant of LenderManagerTransfer: asks for the LendNestV2 proxy only.
LenderManagerTransferEarly ==
    Script("lender-manager:transfer-ownership", {"lender-manager"},
           << "LendNest-v2:deploy", "lender-manager:deploy" >>, {"LendNestV2", "LenderManager"},
           << Transfers("LenderManager", "LendNestV2", TRUE) >>)

LenderManagerTransfer ==
    Script("lender-manager:transfer-ownership", {"lender-manager"},
           << "LendNest-v2", "lender-manager:deploy" >>, {"LendNestV2", "LenderManager"},
           << Transfers("LenderManager", "LendNestV2", TRUE) >>)

MarketLiquidityRewards ==
    Script("liquidity-rewards:deploy", {"liquidity-rewards"},
           << "LendNest-v2:deploy", "market-registry:deploy", "collateral:deploy" >>,
           {"LendNestV2", "MarketRegistry", "CollateralManager"},
           << Deploys("MarketLiquidityRewards",
                      {"LendNestV2", "MarketRegistry", "CollateralManager"}) >>)

MarketRegistryScript ==
    Script("market-registry:deploy", {"market-registry"}, << >>, {},
           << Deploys("LendNestASRegistry", {}), Deploys("LendNestASEIP712Verifier", {}),
              Deploys("LendNestAS", {"LendNestASRegistry", "LendNestASEIP712Verifier"}),
              Deploys("MarketRegistry", {"LendNestAS"}) >>)

MetaForwarder ==
    Script("meta-forwarder:deploy", {"meta-forwarder"}, << >>, {}, << Deploys("MetaForwarder", {}) >>)

ReputationManager ==
    Script("reputation-manager:deploy", {"reputation-manager"}, << "LendNest-v2:deploy" >>,
           {"LendNestV2"}, << Deploys("ReputationManager", {"LendNestV2"}) >>)

LendNestV2Deploy ==
    Script("LendNest-v2:deploy", {"LendNest-v2"},
           << "meta-forwarder:deploy", "LendNest-v2:v2-calculations" >>,
           {"MetaForwarder", "V2Calculations"},
           << Deploys("LendNestV2", {"MetaForwarder", "V2Calculations"}) >>)

Initialized ==
    {"MarketRegistry", "ReputationManager", "LenderCommitmentForwarder", "CollateralManager",
     "LenderManager", "EscrowVault"}

LendNestV2Init ==
    Script("LendNest-v2:init", {"LendNest-v2"},
           << "LendNest-v2:deploy", "market-registry:deploy", "reputation-manager:deploy",
              "lender-commitment-forwarder:deploy", "collateral:manager:deploy",
              "lender-manager:deploy", "escrow-vault:deploy" >>,
           Initialized \cup {"LendNestV2"}, << Initializes(Initialized) >>)

\* Mutant of TransferToSafe: transfers whoever the owner is.
TransferToSafeUnchecked ==
    Script("LendNest-v2:transfer-ownership-to-safe", {"LendNest-v2"}, << "LendNest-v2:init" >>,
           {"LendNestV2"}, << Transfers("LendNestV2", "protocolOwnerSafe", TRUE) >>)

TransferToSafe ==
    Script("LendNest-v2:transfer-ownership-to-safe", {"LendNest-v2"}, << "LendNest-v2:init" >>,
           {"LendNestV2"}, << HandsOver("LendNestV2", "protocolOwnerSafe", TRUE) >>)

\* The script returns nothing, so it is run each time; its one dependency is
\* the empty tag, which no script has.
V2Calculations ==
    [Script("LendNest-v2:v2-calculations", {"LendNest-v2"}, << "" >>, {},
            << Deploys("V2Calculations", {}) >>) EXCEPT !.records = FALSE]

SherlockNeeds ==
    {"MetaForwarder", "V2Calculations", "LendNestV2", "MarketRegistry", "EscrowVault",
     "CollateralManager", "CollateralEscrowBeacon", "LenderManager", "LenderCommitmentForwarder"}

SherlockUpgrade ==
    ScriptOn({"mainnet", "polygon", "goerli"}, "sherlock-audit:upgrade",
             {"proposal", "upgrade", "sherlock-audit"},
             << "default-proxy-admin", "market-registry:deploy", "LendNest-v2:v2-calculations",
                "LendNest-v2:init", "escrow-vault:deploy" >>,
             SherlockNeeds, << Proposes >>)

ForwarderNeeds == {"LendNestV2", "MarketRegistry", "LenderCommitmentForwarder"}
ForwarderUpgradeDependencies ==
    << "market-registry:deploy", "LendNest-v2:deploy", "lender-commitment-forwarder:deploy" >>

\* Mutant of MerkleUpgrade: does not return true.
MerkleUpgradeUnrecorded ==
    [ScriptOn({"mainnet", "polygon", "arbitrum", "goerli"},
              "lender-commitment-forwarder:merkle-upgrade",
              {"proposal", "upgrade", "lender-commitment-forwarder"},
              ForwarderUpgradeDependencies, ForwarderNeeds, << Proposes >>) EXCEPT !.records = FALSE]

MerkleUpgrade ==
    ScriptOn({"mainnet", "polygon", "arbitrum", "goerli"},
             "lender-commitment-forwarder:merkle-upgrade",
             {"proposal", "upgrade", "lender-commitment-forwarder"},
             ForwarderUpgradeDependencies, ForwarderNeeds, << Proposes >>)

\* Skipped on every network.
G2Upgrade ==
    ScriptOn({}, "lender-commitment-forwarder:g2-upgrade",
             {"proposal", "upgrade", "lender-commitment-forwarder"},
             Append(ForwarderUpgradeDependencies, "lender-commitment-forwarder:extensions:deploy"),
             ForwarderNeeds, << Proposes >>)

LoanLiquidatedStateUpgrade ==
    ScriptOn({"mainnet", "polygon", "arbitrum", "goerli"},
             "LendNest-v2:loan-liquidated-state-upgrade", {"proposal", "upgrade", "LendNest-v2"},
             << "LendNest-v2:deploy" >>, {"LendNestV2", "MetaForwarder", "V2Calculations"},
             << Proposes >>)

FlashRolloverG3Upgrade ==
    ScriptOn({"mainnet", "polygon", "arbitrum", "base", "goerli", "sepolia"},
             "lender-commitment-forwarder:extensions:flash-rollover:g3-upgrade",
             {"proposal", "upgrade"} \cup ExtensionTags,
             << "LendNest-v2:deploy", "lender-commitment-forwarder:staging:deploy",
                "lender-commitment-forwarder:extensions:flash-rollover:deploy" >>,
             {"FlashRolloverLoan", "LendNestV2", "LenderCommitmentForwarderStaging"},
             << Proposes >>)

\* In the order of their paths under deploy/.
Scripts ==
    << EscrowBeacon, CollateralManager, DefaultProxyAdmin, EscrowVault, LenderCommitmentForwarder,
       LenderCommitmentForwarderStaging, FlashRollover, LenderManager, LenderManagerTransfer,
       MarketLiquidityRewards, MarketRegistryScript, MetaForwarder, ReputationManager,
       LendNestV2Deploy, LendNestV2Init, TransferToSafe, V2Calculations, SherlockUpgrade,
       MerkleUpgrade, G2Upgrade, LoanLiquidatedStateUpgrade, FlashRolloverG3Upgrade >>

Ids == {Scripts[i].id : i \in DOMAIN Scripts}
Upgrades == {Scripts[i].id : i \in {j \in DOMAIN Scripts : Scripts[j].steps = << Proposes >>}}
StepsOf(kind) ==
    UNION {{step \in ToSet(Scripts[i].steps) : step.do = kind} : i \in DOMAIN Scripts}
Contracts == {step.contract : step \in StepsOf("deploy")}

-----------------------------------------------------------------------------
(* The order of a run *)

\* No tag selects every script.
AllScripts == "all"

Selected(tag) == {i \in DOMAIN Scripts : tag = AllScripts \/ tag \in Scripts[i].tags}

\* The scripts a script depends on, in the order of its tags and then of the
\* paths. A tag no script has stands for none.
DependsOn ==
    [i \in DOMAIN Scripts |->
        FlattenSeq([k \in DOMAIN Scripts[i].dependencies |->
            SetToSortSeq(Selected(Scripts[i].dependencies[k]), <)])]

\* The next script to register: down the dependencies not yet registered.
NextScript(registered, wanted) ==
    LET Missing(i) == SelectSeq(DependsOn[i], LAMBDA d : d \notin registered)
        deepest[i \in DOMAIN Scripts] ==
            IF Missing(i) = << >> THEN i ELSE deepest[Head(Missing(i))]
    IN  deepest[Min(wanted \ registered)]

Registered(tag) ==
    LET wanted == Selected(tag)
        upTo[n \in 0 .. Len(Scripts)] ==
            IF n = 0 THEN << >>
            ELSE LET sofar == upTo[n - 1]
                 IN  IF wanted \subseteq ToSet(sofar) THEN sofar
                     ELSE Append(sofar, NextScript(ToSet(sofar), wanted))
    IN  upTo[Len(Scripts)]

\* Registered in dependency order, but those marked runAtTheEnd are run last,
\* whoever depends on them.
Plan(tag) ==
    LET AtTheEnd(i) == Scripts[i].runAtTheEnd
        Sooner(i) == ~ Scripts[i].runAtTheEnd
    IN  SelectSeq(Registered(tag), Sooner) \o SelectSeq(Registered(tag), AtTheEnd)
=============================================================================
