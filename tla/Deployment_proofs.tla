-------------------------- MODULE Deployment_proofs --------------------------
(***************************************************************************)
(* Proofs about deployments: whatever runs, crashes, tags and tasks there  *)
(* were, no upgrade is proposed twice but for a crash, and a deployment    *)
(* whose scripts are all recorded leaves nothing with the deploying        *)
(* account.                                                                *)
(***************************************************************************)
EXTENDS DeploymentProperties, SequenceTheorems, TLAPS

-----------------------------------------------------------------------------
(* The scripts, one by one *)

Deployed ==
    {"CollateralEscrowBeacon", "CollateralManager", "EscrowVault", "LenderCommitmentForwarder",
     "LenderCommitmentForwarderStaging", "FlashRolloverLoan", "LenderManager",
     "MarketLiquidityRewards", "LendNestASRegistry", "LendNestASEIP712Verifier", "LendNestAS",
     "MarketRegistry", "MetaForwarder", "ReputationManager", "LendNestV2", "V2Calculations"}

LEMMA ScriptList ==
    /\ DOMAIN Scripts = 1 .. 22 /\ Len(Scripts) = 22
    /\ Scripts[1] = EscrowBeacon /\ Scripts[2] = CollateralManager
    /\ Scripts[3] = DefaultProxyAdmin /\ Scripts[4] = EscrowVault
    /\ Scripts[5] = LenderCommitmentForwarder /\ Scripts[6] = LenderCommitmentForwarderStaging
    /\ Scripts[7] = FlashRollover /\ Scripts[8] = LenderManager
    /\ Scripts[9] = LenderManagerTransfer /\ Scripts[10] = MarketLiquidityRewards
    /\ Scripts[11] = MarketRegistryScript /\ Scripts[12] = MetaForwarder
    /\ Scripts[13] = ReputationManager /\ Scripts[14] = LendNestV2Deploy
    /\ Scripts[15] = LendNestV2Init /\ Scripts[16] = TransferToSafe
    /\ Scripts[17] = V2Calculations /\ Scripts[18] = SherlockUpgrade
    /\ Scripts[19] = MerkleUpgrade /\ Scripts[20] = G2Upgrade
    /\ Scripts[21] = LoanLiquidatedStateUpgrade /\ Scripts[22] = FlashRolloverG3Upgrade
  BY DEF Scripts

\* What a script is run for: its id, what it needs and its steps.
Says(i, id, needs, steps) ==
    Scripts[i].id = id /\ Scripts[i].needs = needs /\ Scripts[i].steps = steps

LEMMA ScriptTable ==
    /\ Says(1, "collateral:escrow-beacon:deploy",
               {},
               << Deploys("CollateralEscrowBeacon", {}),
                  Transfers("CollateralEscrowBeacon", "protocolTimelock", FALSE) >>)
    /\ Says(2, "collateral:manager:deploy",
               {"CollateralEscrowBeacon", "LendNestV2"},
               << Deploys("CollateralManager", {"CollateralEscrowBeacon", "LendNestV2"}) >>)
    /\ Says(3, "default-proxy-admin:transfer",
               {},
               << HandsOver("ProxyAdmin", "protocolTimelock", FALSE) >>)
    /\ Says(4, "escrow-vault:deploy",
               {},
               << Deploys("EscrowVault", {}) >>)
    /\ Says(5, "lender-commitment-forwarder:deploy",
               {"LendNestV2", "MarketRegistry"},
               << Deploys("LenderCommitmentForwarder", {"LendNestV2", "MarketRegistry"}) >>)
    /\ Says(6, "lender-commitment-forwarder:staging:deploy",
               {"LendNestV2", "MarketRegistry"},
               << Deploys("LenderCommitmentForwarderStaging", {"LendNestV2", "MarketRegistry"}) >>)
    /\ Says(7, "lender-commitment-forwarder:extensions:flash-rollover:deploy",
               {"LendNestV2", "LenderCommitmentForwarderStaging"},
               << Deploys("FlashRolloverLoan", {"LendNestV2", "LenderCommitmentForwarderStaging"}) >>)
    /\ Says(8, "lender-manager:deploy",
               {"MarketRegistry"},
               << Deploys("LenderManager", {"MarketRegistry"}) >>)
    /\ Says(9, "lender-manager:transfer-ownership",
               {"LendNestV2", "LenderManager"},
               << Transfers("LenderManager", "LendNestV2", TRUE) >>)
    /\ Says(10, "liquidity-rewards:deploy",
               {"LendNestV2", "MarketRegistry", "CollateralManager"},
               << Deploys("MarketLiquidityRewards", {"LendNestV2", "MarketRegistry", "CollateralManager"}) >>)
    /\ Says(11, "market-registry:deploy",
               {},
               << Deploys("LendNestASRegistry", {}),
                  Deploys("LendNestASEIP712Verifier", {}),
                  Deploys("LendNestAS", {"LendNestASRegistry", "LendNestASEIP712Verifier"}),
                  Deploys("MarketRegistry", {"LendNestAS"}) >>)
    /\ Says(12, "meta-forwarder:deploy",
               {},
               << Deploys("MetaForwarder", {}) >>)
    /\ Says(13, "reputation-manager:deploy",
               {"LendNestV2"},
               << Deploys("ReputationManager", {"LendNestV2"}) >>)
    /\ Says(14, "LendNest-v2:deploy",
               {"MetaForwarder", "V2Calculations"},
               << Deploys("LendNestV2", {"MetaForwarder", "V2Calculations"}) >>)
    /\ Says(15, "LendNest-v2:init",
               Initialized \cup {"LendNestV2"},
               << Initializes(Initialized) >>)
    /\ Says(16, "LendNest-v2:transfer-ownership-to-safe",
               {"LendNestV2"},
               << HandsOver("LendNestV2", "protocolOwnerSafe", TRUE) >>)
    /\ Says(17, "LendNest-v2:v2-calculations",
               {},
               << Deploys("V2Calculations", {}) >>)
    /\ Says(18, "sherlock-audit:upgrade",
               SherlockNeeds,
               << Proposes >>)
    /\ Says(19, "lender-commitment-forwarder:merkle-upgrade",
               ForwarderNeeds,
               << Proposes >>)
    /\ Says(20, "lender-commitment-forwarder:g2-upgrade",
               ForwarderNeeds,
               << Proposes >>)
    /\ Says(21, "LendNest-v2:loan-liquidated-state-upgrade",
               {"LendNestV2", "MetaForwarder", "V2Calculations"},
               << Proposes >>)
    /\ Says(22, "lender-commitment-forwarder:extensions:flash-rollover:g3-upgrade",
               {"FlashRolloverLoan", "LendNestV2", "LenderCommitmentForwarderStaging"},
               << Proposes >>)
  <1>1. Says(1, "collateral:escrow-beacon:deploy",
              {},
              << Deploys("CollateralEscrowBeacon", {}),
                 Transfers("CollateralEscrowBeacon", "protocolTimelock", FALSE) >>)
    <2>1. EscrowBeacon.id = "collateral:escrow-beacon:deploy" /\ EscrowBeacon.needs = {}
      BY DEF EscrowBeacon, Script
    <2>2. EscrowBeacon.steps = << Deploys("CollateralEscrowBeacon", {}),
                 Transfers("CollateralEscrowBeacon", "protocolTimelock", FALSE) >>
      BY DEF EscrowBeacon, Script
    <2> QED
      BY <2>1, <2>2, ScriptList DEF Says
  <1>2. Says(2, "collateral:manager:deploy",
              {"CollateralEscrowBeacon", "LendNestV2"},
              << Deploys("CollateralManager", {"CollateralEscrowBeacon", "LendNestV2"}) >>)
    BY ScriptList DEF Says, CollateralManager, Script
  <1>3. Says(3, "default-proxy-admin:transfer",
              {},
              << HandsOver("ProxyAdmin", "protocolTimelock", FALSE) >>)
    BY ScriptList DEF Says, DefaultProxyAdmin, Script
  <1>4. Says(4, "escrow-vault:deploy",
              {},
              << Deploys("EscrowVault", {}) >>)
    BY ScriptList DEF Says, EscrowVault, Script
  <1>5. Says(5, "lender-commitment-forwarder:deploy",
              {"LendNestV2", "MarketRegistry"},
              << Deploys("LenderCommitmentForwarder", {"LendNestV2", "MarketRegistry"}) >>)
    BY ScriptList DEF Says, LenderCommitmentForwarder, Script
  <1>6. Says(6, "lender-commitment-forwarder:staging:deploy",
              {"LendNestV2", "MarketRegistry"},
              << Deploys("LenderCommitmentForwarderStaging", {"LendNestV2", "MarketRegistry"}) >>)
    BY ScriptList DEF Says, LenderCommitmentForwarderStaging, Script
  <1>7. Says(7, "lender-commitment-forwarder:extensions:flash-rollover:deploy",
              {"LendNestV2", "LenderCommitmentForwarderStaging"},
              << Deploys("FlashRolloverLoan", {"LendNestV2", "LenderCommitmentForwarderStaging"}) >>)
    BY ScriptList DEF Says, FlashRollover, Script, ScriptOn
  <1>8. Says(8, "lender-manager:deploy",
              {"MarketRegistry"},
              << Deploys("LenderManager", {"MarketRegistry"}) >>)
    BY ScriptList DEF Says, LenderManager, Script
  <1>9. Says(9, "lender-manager:transfer-ownership",
              {"LendNestV2", "LenderManager"},
              << Transfers("LenderManager", "LendNestV2", TRUE) >>)
    <2>1. LenderManagerTransfer.id = "lender-manager:transfer-ownership" /\ LenderManagerTransfer.needs = {"LendNestV2", "LenderManager"}
      BY DEF LenderManagerTransfer, Script
    <2>2. LenderManagerTransfer.steps = << Transfers("LenderManager", "LendNestV2", TRUE) >>
      BY DEF LenderManagerTransfer, Script
    <2> QED
      BY <2>1, <2>2, ScriptList DEF Says
  <1>10. Says(10, "liquidity-rewards:deploy",
              {"LendNestV2", "MarketRegistry", "CollateralManager"},
              << Deploys("MarketLiquidityRewards", {"LendNestV2", "MarketRegistry", "CollateralManager"}) >>)
    BY ScriptList DEF Says, MarketLiquidityRewards, Script
  <1>11. Says(11, "market-registry:deploy",
              {},
              << Deploys("LendNestASRegistry", {}),
                 Deploys("LendNestASEIP712Verifier", {}),
                 Deploys("LendNestAS", {"LendNestASRegistry", "LendNestASEIP712Verifier"}),
                 Deploys("MarketRegistry", {"LendNestAS"}) >>)
    BY ScriptList DEF Says, MarketRegistryScript, Script
  <1>12. Says(12, "meta-forwarder:deploy",
              {},
              << Deploys("MetaForwarder", {}) >>)
    BY ScriptList DEF Says, MetaForwarder, Script
  <1>13. Says(13, "reputation-manager:deploy",
              {"LendNestV2"},
              << Deploys("ReputationManager", {"LendNestV2"}) >>)
    BY ScriptList DEF Says, ReputationManager, Script
  <1>14. Says(14, "LendNest-v2:deploy",
              {"MetaForwarder", "V2Calculations"},
              << Deploys("LendNestV2", {"MetaForwarder", "V2Calculations"}) >>)
    BY ScriptList DEF Says, LendNestV2Deploy, Script
  <1>15. Says(15, "LendNest-v2:init",
              Initialized \cup {"LendNestV2"},
              << Initializes(Initialized) >>)
    BY ScriptList DEF Says, LendNestV2Init, Script
  <1>16. Says(16, "LendNest-v2:transfer-ownership-to-safe",
              {"LendNestV2"},
              << HandsOver("LendNestV2", "protocolOwnerSafe", TRUE) >>)
    <2>1. TransferToSafe.id = "LendNest-v2:transfer-ownership-to-safe" /\ TransferToSafe.needs = {"LendNestV2"}
      BY DEF TransferToSafe, Script
    <2>2. TransferToSafe.steps = << HandsOver("LendNestV2", "protocolOwnerSafe", TRUE) >>
      BY DEF TransferToSafe, Script
    <2> QED
      BY <2>1, <2>2, ScriptList DEF Says
  <1>17. Says(17, "LendNest-v2:v2-calculations",
              {},
              << Deploys("V2Calculations", {}) >>)
    BY ScriptList DEF Says, V2Calculations, Script
  <1>18. Says(18, "sherlock-audit:upgrade",
              SherlockNeeds,
              << Proposes >>)
    BY ScriptList DEF Says, SherlockUpgrade, Script, ScriptOn
  <1>19. Says(19, "lender-commitment-forwarder:merkle-upgrade",
              ForwarderNeeds,
              << Proposes >>)
    BY ScriptList DEF Says, MerkleUpgrade, Script, ScriptOn
  <1>20. Says(20, "lender-commitment-forwarder:g2-upgrade",
              ForwarderNeeds,
              << Proposes >>)
    BY ScriptList DEF Says, G2Upgrade, Script, ScriptOn
  <1>21. Says(21, "LendNest-v2:loan-liquidated-state-upgrade",
              {"LendNestV2", "MetaForwarder", "V2Calculations"},
              << Proposes >>)
    BY ScriptList DEF Says, LoanLiquidatedStateUpgrade, Script, ScriptOn
  <1>22. Says(22, "lender-commitment-forwarder:extensions:flash-rollover:g3-upgrade",
              {"FlashRolloverLoan", "LendNestV2", "LenderCommitmentForwarderStaging"},
              << Proposes >>)
    BY ScriptList DEF Says, FlashRolloverG3Upgrade, Script, ScriptOn
  <1> QED
    BY <1>1, <1>2, <1>3, <1>4, <1>5, <1>6, <1>7, <1>8, <1>9, <1>10, <1>11, <1>12, <1>13, <1>14,
       <1>15, <1>16, <1>17, <1>18, <1>19, <1>20, <1>21, <1>22

LEMMA IdsDiffer ==
    ASSUME NEW i \in DOMAIN Scripts, NEW j \in DOMAIN Scripts, Scripts[i].id = Scripts[j].id
    PROVE  i = j
  BY ScriptTable, ScriptList DEF Says

\* Which scripts are recorded, and on which networks they are run.
RunsOn(i) ==
    /\ i # 17 => Scripts[i].records
    /\ i \in 1 .. 17 /\ i # 7 => Scripts[i].networks = Networks

LEMMA RecordedScripts == \A i \in DOMAIN Scripts : RunsOn(i)
  <1>1. RunsOn(1)
    BY ScriptList DEF RunsOn, EscrowBeacon, Script
  <1>2. RunsOn(2)
    BY ScriptList DEF RunsOn, CollateralManager, Script
  <1>3. RunsOn(3)
    BY ScriptList DEF RunsOn, DefaultProxyAdmin, Script
  <1>4. RunsOn(4)
    BY ScriptList DEF RunsOn, EscrowVault, Script
  <1>5. RunsOn(5)
    BY ScriptList DEF RunsOn, LenderCommitmentForwarder, Script
  <1>6. RunsOn(6)
    BY ScriptList DEF RunsOn, LenderCommitmentForwarderStaging, Script
  <1>7. RunsOn(7)
    BY ScriptList DEF RunsOn, FlashRollover, Script, ScriptOn
  <1>8. RunsOn(8)
    BY ScriptList DEF RunsOn, LenderManager, Script
  <1>9. RunsOn(9)
    BY ScriptList DEF RunsOn, LenderManagerTransfer, Script
  <1>10. RunsOn(10)
    BY ScriptList DEF RunsOn, MarketLiquidityRewards, Script
  <1>11. RunsOn(11)
    BY ScriptList DEF RunsOn, MarketRegistryScript, Script
  <1>12. RunsOn(12)
    BY ScriptList DEF RunsOn, MetaForwarder, Script
  <1>13. RunsOn(13)
    BY ScriptList DEF RunsOn, ReputationManager, Script
  <1>14. RunsOn(14)
    BY ScriptList DEF RunsOn, LendNestV2Deploy, Script
  <1>15. RunsOn(15)
    BY ScriptList DEF RunsOn, LendNestV2Init, Script
  <1>16. RunsOn(16)
    BY ScriptList DEF RunsOn, TransferToSafe, Script
  <1>17. RunsOn(17)
    BY ScriptList DEF RunsOn, V2Calculations, Script
  <1>18. RunsOn(18)
    BY ScriptList DEF RunsOn, SherlockUpgrade, Script, ScriptOn
  <1>19. RunsOn(19)
    BY ScriptList DEF RunsOn, MerkleUpgrade, Script, ScriptOn
  <1>20. RunsOn(20)
    BY ScriptList DEF RunsOn, G2Upgrade, Script, ScriptOn
  <1>21. RunsOn(21)
    BY ScriptList DEF RunsOn, LoanLiquidatedStateUpgrade, Script, ScriptOn
  <1>22. RunsOn(22)
    BY ScriptList DEF RunsOn, FlashRolloverG3Upgrade, Script, ScriptOn
  <1> QED
    BY ScriptList, <1>1, <1>2, <1>3, <1>4, <1>5, <1>6, <1>7, <1>8, <1>9, <1>10, <1>11, <1>12,
       <1>13, <1>14, <1>15, <1>16, <1>17, <1>18, <1>19, <1>20, <1>21, <1>22

\* The contracts some script deploys.
LEMMA DeployedByStep ==
    ASSUME NEW i \in DOMAIN Scripts, NEW k \in DOMAIN Scripts[i].steps,
           Scripts[i].steps[k].do = "deploy"
    PROVE  Scripts[i].steps[k].contract \in Contracts
  BY DEF Contracts, StepsOf, ToSet

LEMMA SomeContracts == Deployed \subseteq Contracts
  <1>1. ASSUME NEW i \in DOMAIN Scripts, NEW c, NEW args, Scripts[i].steps = << Deploys(c, args) >>
        PROVE  c \in Contracts
    BY <1>1, DeployedByStep DEF Deploys
  <1>2. "CollateralEscrowBeacon" \in Contracts
    BY ScriptTable, ScriptList, DeployedByStep DEF Says, Deploys
  <1>3. {"LendNestASRegistry", "LendNestASEIP712Verifier", "LendNestAS", "MarketRegistry"}
            \subseteq Contracts
    BY ScriptTable, ScriptList, DeployedByStep DEF Says, Deploys
  <1> QED
    BY <1>1, <1>2, <1>3, ScriptTable, ScriptList DEF Says, Deployed

LEMMA Deployers ==
    ASSUME NEW c \in Contracts
    PROVE  \E i \in DOMAIN Scripts : \E k \in DOMAIN Scripts[i].steps :
              Scripts[i].steps[k].do = "deploy" /\ Scripts[i].steps[k].contract = c
  BY DEF Contracts, StepsOf, ToSet

LEMMA AllContracts == Contracts = Deployed
  <1> DEFINE Fits(i) == \A k \in DOMAIN Scripts[i].steps :
                           Scripts[i].steps[k].do = "deploy" => Scripts[i].steps[k].contract \in Deployed
  <1>1. ASSUME NEW i, NEW c \in Deployed, NEW args, Scripts[i].steps = << Deploys(c, args) >>
        PROVE  Fits(i)
    BY <1>1 DEF Deploys
  <1>2. Fits(1) /\ Fits(11)
    BY ScriptTable DEF Says, Deploys, Transfers, Deployed
  <1>3. Fits(3) /\ Fits(9) /\ Fits(15) /\ Fits(16) /\ Fits(18) /\ Fits(19) /\ Fits(20) /\ Fits(21)
        /\ Fits(22)
    BY ScriptTable DEF Says, HandsOver, Transfers, Initializes, Proposes
  <1> HIDE DEF Fits
  <1>4. Fits(2) /\ Fits(4) /\ Fits(5) /\ Fits(6) /\ Fits(7) /\ Fits(8) /\ Fits(10)
    BY <1>1, ScriptTable DEF Says, Deployed
  <1>5. Fits(12) /\ Fits(13) /\ Fits(14) /\ Fits(17)
    BY <1>1, ScriptTable DEF Says, Deployed
  <1>6. \A i \in DOMAIN Scripts : Fits(i)
    BY <1>2, <1>3, <1>4, <1>5, ScriptList
  <1> QED
    BY <1>6, SomeContracts, Deployers DEF Fits

\* What any step of a script says.
StepOK(step) ==
    /\ step.do \in {"deploy", "transfer", "handOver", "initialize", "propose"}
    /\ step.do = "deploy" => step.contract \in Contracts /\ step.args \subseteq Contracts
    /\ step.do \in {"transfer", "handOver"} =>
          step.contract \in Owned /\ step.to = FinalOwner[step.contract]
    /\ step.do = "initialize" => step.args \subseteq Contracts

ScriptOK(i) ==
    /\ Scripts[i].needs \subseteq Contracts
    /\ Len(Scripts[i].steps) \in Nat \ {0}
    /\ DOMAIN Scripts[i].steps = 1 .. Len(Scripts[i].steps)
    /\ \A k \in DOMAIN Scripts[i].steps : StepOK(Scripts[i].steps[k])
    /\ (\E k \in DOMAIN Scripts[i].steps : Scripts[i].steps[k].do = "propose") =>
          Scripts[i].steps = << Proposes >>
    /\ Scripts[i].steps = << Proposes >> => Scripts[i].records

LEMMA OneStep ==
    ASSUME NEW i \in DOMAIN Scripts, NEW step, StepOK(step), Scripts[i].steps = << step >>,
           Scripts[i].needs \subseteq Contracts, step.do = "propose" => step = Proposes /\ i # 17
    PROVE  ScriptOK(i)
  <1>1. /\ Len(Scripts[i].steps) = 1 /\ DOMAIN Scripts[i].steps = 1 .. 1
        /\ Scripts[i].steps[1] = step
    OBVIOUS
  <1>2. Scripts[i].steps = << Proposes >> => step.do = "propose"
    BY DEF Proposes
  <1> QED
    BY <1>1, <1>2, RecordedScripts DEF ScriptOK, RunsOn

LEMMA OneDeploy ==
    ASSUME NEW i \in DOMAIN Scripts, NEW c \in Contracts, NEW args \in SUBSET Contracts,
           Scripts[i].steps = << Deploys(c, args) >>, Scripts[i].needs \subseteq Contracts
    PROVE  ScriptOK(i)
  <1>1. StepOK(Deploys(c, args)) /\ Deploys(c, args).do = "deploy"
    BY DEF StepOK, Deploys
  <1> QED
    BY <1>1, OneStep

LEMMA OneProposal ==
    ASSUME NEW i \in DOMAIN Scripts, i # 17, Scripts[i].steps = << Proposes >>,
           Scripts[i].needs \subseteq Contracts
    PROVE  ScriptOK(i)
  <1>1. StepOK(Proposes)
    BY DEF StepOK, Proposes
  <1> QED
    BY <1>1, OneStep

LEMMA OwnedOnes ==
    /\ Owned = {"LendNestV2", "CollateralEscrowBeacon", "LenderManager", "ProxyAdmin"}
    /\ FinalOwner["LendNestV2"] = "protocolOwnerSafe" /\ FinalOwner["LenderManager"] = "LendNestV2"
    /\ FinalOwner["CollateralEscrowBeacon"] = "protocolTimelock"
    /\ FinalOwner["ProxyAdmin"] = "protocolTimelock"
  BY DEF FinalOwner, Owned

LEMMA ScriptsOK == \A i \in DOMAIN Scripts : ScriptOK(i)
  <1>1. ASSUME NEW i \in DOMAIN Scripts PROVE Scripts[i].needs \subseteq Contracts
    <2>1. \A n \in 1 .. 22 : Scripts[n].needs \subseteq Deployed
      BY ScriptTable DEF Says, Deployed, Initialized, SherlockNeeds, ForwarderNeeds
    <2> QED
      BY <2>1, SomeContracts, ScriptList
  <1>2. \A n \in 1 .. 22 : n \in DOMAIN Scripts
    BY ScriptList
  <1>3. Deployed \subseteq Contracts
    BY SomeContracts
  <1>101. ScriptOK(1)
    <2> DEFINE first == Deploys("CollateralEscrowBeacon", {})
               second == Transfers("CollateralEscrowBeacon", "protocolTimelock", FALSE)
    <2>1. Scripts[1].steps = << first, second >>
      BY ScriptTable DEF Says
    <2>2. StepOK(first) /\ first.do = "deploy"
      BY <1>3 DEF StepOK, Deploys, Deployed
    <2>3. StepOK(second) /\ second.do = "transfer"
      BY OwnedOnes DEF StepOK, Transfers
    <2> HIDE DEF first, second
    <2>4. Scripts[1].steps # << Proposes >>
      BY <2>1
    <2> QED
      BY <1>1, <1>2, <2>1, <2>2, <2>3, <2>4 DEF ScriptOK
  <1>111. ScriptOK(11)
    <2> DEFINE a == Deploys("LendNestASRegistry", {})
               b == Deploys("LendNestASEIP712Verifier", {})
               c == Deploys("LendNestAS", {"LendNestASRegistry", "LendNestASEIP712Verifier"})
               d == Deploys("MarketRegistry", {"LendNestAS"})
    <2>1. Scripts[11].steps = << a, b, c, d >>
      BY ScriptTable DEF Says
    <2>2. /\ StepOK(a) /\ a.do = "deploy" /\ StepOK(b) /\ b.do = "deploy"
          /\ StepOK(c) /\ c.do = "deploy" /\ StepOK(d) /\ d.do = "deploy"
      BY <1>3 DEF StepOK, Deploys, Deployed
    <2> HIDE DEF a, b, c, d
    <2>3. Scripts[11].steps # << Proposes >>
      BY <2>1
    <2> QED
      BY <1>1, <1>2, <2>1, <2>2, <2>3 DEF ScriptOK
  <1>115. ScriptOK(15)
    <2>1. Initialized \subseteq Contracts
      BY <1>3 DEF Initialized, Deployed
    <2>2. StepOK(Initializes(Initialized)) /\ Initializes(Initialized).do = "initialize"
      BY <2>1 DEF StepOK, Initializes
    <2> QED
      BY <1>1, <1>2, <2>2, ScriptTable, OneStep DEF Says
  <1>102. ScriptOK(2)
    <2>1. "CollateralManager" \in Contracts /\ {"CollateralEscrowBeacon", "LendNestV2"} \in SUBSET Contracts
      BY <1>3 DEF Deployed
    <2> QED
      BY <1>1, <1>2, <2>1, ScriptTable, OneDeploy DEF Says
  <1>103. ScriptOK(3)
    <2> DEFINE step == HandsOver("ProxyAdmin", "protocolTimelock", FALSE)
    <2>1. Scripts[3].steps = << step >>
      BY ScriptTable DEF Says
    <2>2. StepOK(step) /\ step.do # "propose"
      BY OwnedOnes DEF StepOK, HandsOver
    <2> HIDE DEF step
    <2> QED
      BY <1>1, <1>2, <2>1, <2>2, OneStep
  <1>104. ScriptOK(4)
    <2>1. "EscrowVault" \in Contracts /\ {} \in SUBSET Contracts
      BY <1>3 DEF Deployed
    <2> QED
      BY <1>1, <1>2, <2>1, ScriptTable, OneDeploy DEF Says
  <1>105. ScriptOK(5)
    <2>1. "LenderCommitmentForwarder" \in Contracts /\ {"LendNestV2", "MarketRegistry"} \in SUBSET Contracts
      BY <1>3 DEF Deployed
    <2> QED
      BY <1>1, <1>2, <2>1, ScriptTable, OneDeploy DEF Says
  <1>106. ScriptOK(6)
    <2>1. "LenderCommitmentForwarderStaging" \in Contracts /\ {"LendNestV2", "MarketRegistry"} \in SUBSET Contracts
      BY <1>3 DEF Deployed
    <2> QED
      BY <1>1, <1>2, <2>1, ScriptTable, OneDeploy DEF Says
  <1>107. ScriptOK(7)
    <2>1. "FlashRolloverLoan" \in Contracts /\ {"LendNestV2", "LenderCommitmentForwarderStaging"} \in SUBSET Contracts
      BY <1>3 DEF Deployed
    <2> QED
      BY <1>1, <1>2, <2>1, ScriptTable, OneDeploy DEF Says
  <1>108. ScriptOK(8)
    <2>1. "LenderManager" \in Contracts /\ {"MarketRegistry"} \in SUBSET Contracts
      BY <1>3 DEF Deployed
    <2> QED
      BY <1>1, <1>2, <2>1, ScriptTable, OneDeploy DEF Says
  <1>109. ScriptOK(9)
    <2> DEFINE step == Transfers("LenderManager", "LendNestV2", TRUE)
    <2>1. Scripts[9].steps = << step >>
      BY ScriptTable DEF Says
    <2>2. StepOK(step) /\ step.do # "propose"
      BY OwnedOnes DEF StepOK, Transfers
    <2> HIDE DEF step
    <2> QED
      BY <1>1, <1>2, <2>1, <2>2, OneStep
  <1>110. ScriptOK(10)
    <2>1. "MarketLiquidityRewards" \in Contracts /\ {"LendNestV2", "MarketRegistry", "CollateralManager"} \in SUBSET Contracts
      BY <1>3 DEF Deployed
    <2> QED
      BY <1>1, <1>2, <2>1, ScriptTable, OneDeploy DEF Says
  <1>112. ScriptOK(12)
    <2>1. "MetaForwarder" \in Contracts /\ {} \in SUBSET Contracts
      BY <1>3 DEF Deployed
    <2> QED
      BY <1>1, <1>2, <2>1, ScriptTable, OneDeploy DEF Says
  <1>113. ScriptOK(13)
    <2>1. "ReputationManager" \in Contracts /\ {"LendNestV2"} \in SUBSET Contracts
      BY <1>3 DEF Deployed
    <2> QED
      BY <1>1, <1>2, <2>1, ScriptTable, OneDeploy DEF Says
  <1>114. ScriptOK(14)
    <2>1. "LendNestV2" \in Contracts /\ {"MetaForwarder", "V2Calculations"} \in SUBSET Contracts
      BY <1>3 DEF Deployed
    <2> QED
      BY <1>1, <1>2, <2>1, ScriptTable, OneDeploy DEF Says
  <1>116. ScriptOK(16)
    <2> DEFINE step == HandsOver("LendNestV2", "protocolOwnerSafe", TRUE)
    <2>1. Scripts[16].steps = << step >>
      BY ScriptTable DEF Says
    <2>2. StepOK(step) /\ step.do # "propose"
      BY OwnedOnes DEF StepOK, HandsOver
    <2> HIDE DEF step
    <2> QED
      BY <1>1, <1>2, <2>1, <2>2, OneStep
  <1>117. ScriptOK(17)
    <2>1. "V2Calculations" \in Contracts /\ {} \in SUBSET Contracts
      BY <1>3 DEF Deployed
    <2> QED
      BY <1>1, <1>2, <2>1, ScriptTable, OneDeploy DEF Says
  <1>118. ScriptOK(18)
    BY <1>1, <1>2, ScriptTable, OneProposal DEF Says
  <1>119. ScriptOK(19)
    BY <1>1, <1>2, ScriptTable, OneProposal DEF Says
  <1>120. ScriptOK(20)
    BY <1>1, <1>2, ScriptTable, OneProposal DEF Says
  <1>121. ScriptOK(21)
    BY <1>1, <1>2, ScriptTable, OneProposal DEF Says
  <1>122. ScriptOK(22)
    BY <1>1, <1>2, ScriptTable, OneProposal DEF Says
  <1> QED
    BY ScriptList, <1>101, <1>102, <1>103, <1>104, <1>105, <1>106, <1>107, <1>108, <1>109, <1>110,
       <1>111, <1>112, <1>113, <1>114, <1>115, <1>116, <1>117, <1>118, <1>119, <1>120,
       <1>121, <1>122

LEMMA UpgradeScripts ==
    ASSUME NEW i \in DOMAIN Scripts
    PROVE  /\ Scripts[i].id \in Ids
           /\ Scripts[i].id \in Upgrades <=> Scripts[i].steps = << Proposes >>
  BY IdsDiffer DEF Ids, Upgrades

-----------------------------------------------------------------------------
(* The inductive invariant *)

Givens == UNION {[S -> Nat] : S \in SUBSET Contracts}
Txs ==
    [do : {"deploy"}, from : Accounts, contract : Contracts, instance : Nat \ {0}, args : Givens]
    \cup [do : {"initialize"}, from : Accounts, contract : {"LendNestV2"}, args : Givens]
    \cup {[do |-> "transfer", from |-> k, contract |-> o, to |-> FinalOwner[o]] :
             k \in Accounts, o \in Owned}
    \cup [do : {"fund"}, from : Accounts]

\* A transfer of this thing is on its way.
OnItsWay(o) == \E i \in DOMAIN pending : pending[i].do = "transfer" /\ pending[i].contract = o

\* What is built, and what is out of the deploying account's hands: handed over,
\* on its way, or lost to the send task.
Built == {c \in Contracts : deployment[c] # 0}
Given == {o \in Owned : owner[o] = FinalOwner[o] \/ OnItsWay(o) \/ o \in replaced}

\* A transfer that is pending was sent by the owner, so it succeeds, unless an
\* earlier one has; what was not built or opened has no owner.
ChainOK ==
    /\ pending \in Seq(Txs)
    /\ deployment \in [Contracts -> Nat] /\ issued \in [Contracts -> Nat]
    /\ \A c \in Contracts : deployment[c] <= issued[c]
    /\ DOMAIN references = Contracts /\ \A c \in Contracts : DOMAIN references[c] \subseteq Contracts
    /\ DOMAIN owner = Owned /\ owner = [o \in Owned |-> owner[o]]
    /\ \A o \in Owned : owner[o] = FinalOwner[o] \/ owner[o] \in Accounts \cup {Nobody}
    /\ version \in {0, 1, 9}
    /\ version = 0 => owner["LendNestV2"] = Nobody
    /\ \A c \in {"CollateralEscrowBeacon", "LenderManager"} : deployment[c] = 0 => owner[c] = Nobody
    /\ \A i \in DOMAIN pending : pending[i].do = "transfer" =>
          owner[pending[i].contract] \in {pending[i].from, FinalOwner[pending[i].contract]}

Achieved(step, built, given) ==
    /\ step.do = "deploy" => step.contract \in built
    /\ step.do \in {"transfer", "handOver"} => step.contract \in given

\* The scripts recorded have achieved what they are for.
RecordsOK(recorded, built, given) ==
    /\ recorded \subseteq Ids
    /\ \A i \in DOMAIN Scripts : Scripts[i].id \in recorded =>
          /\ Scripts[i].needs \subseteq built
          /\ \A k \in DOMAIN Scripts[i].steps : Achieved(Scripts[i].steps[k], built, given)

Sent == {"waiting", "mined", "failed"}
RunType ==
    [stage : {"idle", "running"} \cup Sent, from : Accounts \cup {Nobody},
     plan : Seq(DOMAIN Scripts), step : Nat \ {0}, tx : Txs \cup {NoTx}]
ScriptOf(r) == Scripts[Head(r.plan)]
StepOf(r) == ScriptOf(r).steps[r.step]

\* A script that has begun has what it needs, and has achieved its steps so far.
ScriptFits(r, recorded, built, given) ==
    /\ r.step <= Len(ScriptOf(r).steps) + 1
    /\ r.step > 1 \/ r.stage \in Sent =>
          /\ ScriptOf(r).id \notin recorded /\ network \in ScriptOf(r).networks
          /\ ScriptOf(r).needs \subseteq built
    /\ \A k \in 1 .. r.step - 1 : Achieved(ScriptOf(r).steps[k], built, given)

\* The transaction that was sent is the step's.
TxFits(r, built, given) ==
    /\ r.plan # << >> /\ r.step <= Len(ScriptOf(r).steps) /\ r.tx \in Txs
    /\ StepOf(r).do = "deploy" => r.tx.do = "deploy"
    /\ StepOf(r).do \in {"transfer", "handOver"} => r.tx.do = "transfer"
    /\ StepOf(r).do = "initialize" => r.tx.do = "initialize"
    /\ r.tx.do = "deploy" =>
          /\ StepOf(r).do = "deploy" /\ r.tx.contract = StepOf(r).contract
          /\ r.tx.contract \notin built
    /\ r.tx.do = "transfer" =>
          /\ r.tx.contract = StepOf(r).contract
          /\ r.stage = "mined" => r.tx.contract \in given

RunOK(r, recorded, built, given) ==
    /\ r \in RunType
    /\ r.stage # "idle" => r.from \in Accounts
    /\ r.plan # << >> => ScriptFits(r, recorded, built, given)
    /\ r.stage \in Sent => TxFits(r, built, given)

\* The instance a run waits for is one that was sent.
InstanceOK ==
    run.stage \in Sent /\ run.tx.do = "deploy" => run.tx.instance <= issued[run.tx.contract]

\* An upgrade's script that has proposed it and is not recorded yet.
Proposed(u) ==
    /\ run.stage = "running" /\ run.plan # << >> /\ run.step > 1
    /\ Current.id = u

\* The proposals of an upgrade that no crash accounts for.
ProposalsOK ==
    /\ proposals \in [Upgrades -> Nat] /\ crashes \in Nat
    /\ \A u \in Upgrades :
          proposals[u] <= crashes + (IF u \in migrations \/ Proposed(u) THEN 1 ELSE 0)

OperatorOK ==
    /\ network \in Targets /\ mnemonic \in DOMAIN Wallets
    /\ aborted.script \in Ids \cup {""}

IInv ==
    /\ OperatorOK
    /\ ChainOK
    /\ RecordsOK(migrations, Built, Given)
    /\ RunOK(run, migrations, Built, Given)
    /\ InstanceOK
    /\ ProposalsOK

LEMMA AccountsDiffer ==
    /\ Nobody \notin Accounts
    /\ \A o \in Owned : FinalOwner[o] \notin Accounts /\ FinalOwner[o] # Nobody
  BY DeploymentAssumption, OwnedOnes DEF Accounts, Nobody, GoerliDeployer

LEMMA DeployerOK ==
    ASSUME mnemonic \in DOMAIN Wallets
    PROVE  Wallets[mnemonic] \in Accounts /\ Deployer(network, Wallets[mnemonic]) \in Accounts
  BY DeploymentAssumption DEF Accounts, Deployer, ToSet

LEMMA TxFacts ==
    ASSUME NEW tx \in Txs
    PROVE  /\ tx.from \in Accounts /\ tx.do \in {"deploy", "initialize", "transfer", "fund"}
           /\ tx.do = "deploy" => /\ tx.contract \in Contracts /\ tx.instance \in Nat \ {0}
                                  /\ DOMAIN tx.args \subseteq Contracts
           /\ tx.do = "initialize" => DOMAIN tx.args \subseteq Contracts
           /\ tx.do = "transfer" => tx.contract \in Owned /\ tx.to = FinalOwner[tx.contract]
  <1>1. \A args \in Givens : DOMAIN args \subseteq Contracts
    BY DEF Givens
  <1> QED
    BY <1>1 DEF Txs

LEMMA InvType == IInv => TypeOK
  <1> SUFFICES ASSUME IInv PROVE TypeOK
    OBVIOUS
  <1>1. /\ run.stage \in {"idle", "running", "waiting", "mined", "failed"}
        /\ ToSet(run.plan) \subseteq DOMAIN Scripts /\ run.from \in Accounts \cup {Nobody}
    BY DEF IInv, RunOK, RunType, Sent, ToSet
  <1>2. /\ \A c \in Contracts : deployment[c] \in 0 .. issued[c]
        /\ \A c \in Contracts : DOMAIN references[c] \subseteq Contracts
    BY DEF IInv, ChainOK
  <1>3. \A i \in DOMAIN pending : pending[i].from \in Accounts
    BY TxFacts DEF IInv, ChainOK
  <1> QED
    BY <1>1, <1>2, <1>3 DEF TypeOK, IInv, OperatorOK, ChainOK, RecordsOK, ProposalsOK

LEMMA InitInv == Init => IInv
  <1> SUFFICES ASSUME Init PROVE IInv
    OBVIOUS
  <1>1. OperatorOK
    <2>1. DOMAIN Wallets = 1 .. Len(Wallets) /\ Len(Wallets) \in Nat /\ Len(Wallets) > 0
      BY DeploymentAssumption
    <2> QED
      <3>1. network \in Targets /\ mnemonic \in DOMAIN Wallets
        BY <2>1 DEF Init
      <3>2. aborted.script = ""
        BY DEF Init, NoAbort
      <3> QED
        BY <3>1, <3>2 DEF OperatorOK
  <1>2. ChainOK
    BY OwnedOnes DEF Init, ChainOK
  <1>3. RecordsOK(migrations, Built, Given)
    BY DEF Init, RecordsOK
  <1>4. RunOK(run, migrations, Built, Given) /\ InstanceOK
    BY DEF Init, Idle, RunOK, RunType, Sent, InstanceOK
  <1>5. ProposalsOK
    BY DEF Init, ProposalsOK
  <1> QED
    BY <1>1, <1>2, <1>3, <1>4, <1>5 DEF IInv
-----------------------------------------------------------------------------
(* What a step does to the chain, and what to the run *)

Quiet == UNCHANGED <<issued, deployment, references, owner, version, pending, replaced>>

\* A transaction is sent.
Sending(tx) ==
    /\ tx \in Txs /\ pending' = Append(pending, tx)
    /\ tx.do = "transfer" => owner[tx.contract] = tx.from
    /\ issued' \in [Contracts -> Nat] /\ \A c \in Contracts : issued[c] <= issued'[c]
    /\ tx.do = "deploy" => tx.instance <= issued'[tx.contract]
    /\ UNCHANGED <<deployment, references, owner, version, replaced>>

\* The run at a step of a script, and past it.
Working ==
    /\ run.plan # << >> /\ run.stage # "idle" /\ run.step <= Len(Current.steps)
    /\ Due /\ Current.needs \subseteq Built
Passes == Working /\ NextStep /\ UNCHANGED migrations

Starts ==
    /\ \E tag \in Tags :
          run' = [Idle EXCEPT !.stage = "running", !.from = Deployer(network, Wallets[mnemonic]),
                              !.plan = Plans[tag]]
    /\ run = Idle /\ UNCHANGED migrations
Ends == run' = Idle /\ UNCHANGED migrations
Skips ==
    /\ run.stage = "running" /\ run.plan # << >> /\ ~ Due
    /\ run' = [run EXCEPT !.plan = Tail(@)] /\ UNCHANGED migrations
Finishes ==
    /\ Running /\ run.step > Len(Current.steps)
    /\ run' = [run EXCEPT !.plan = Tail(@), !.step = 1]
    /\ migrations' = IF Current.records THEN migrations \cup {Current.id} ELSE migrations
Waits(tx) ==
    /\ Working /\ run.stage = "running"
    /\ run' = [run EXCEPT !.stage = "waiting", !.tx = tx] /\ UNCHANGED migrations
    /\ tx.do = Step.do \/ (tx.do = "transfer" /\ Step.do = "handOver")
    /\ tx.do \in {"deploy", "transfer"} => tx.contract = Step.contract
    /\ tx.do = "deploy" => tx.contract \notin Built
    /\ tx.do \in {"deploy", "initialize"} => tx.args = Instances(Step.args)
    /\ tx.do = "transfer" => Named(Step.to) /\ Step.waits
    /\ tx.from = run.from /\ ~ WouldRevert(tx)
GoesOn(tx) ==
    /\ Working /\ run.stage = "running"
    /\ run' = [run EXCEPT !.step = @ + 1] /\ UNCHANGED migrations
    /\ tx.do = "transfer" /\ tx.contract = Step.contract /\ Step.do \in {"transfer", "handOver"}
    /\ Named(Step.to) /\ ~ Step.waits
    /\ tx.from = run.from
Same == UNCHANGED <<run, migrations>>

\* The step has nothing to send.
PassesQuietly ==
    /\ run.stage = "running" /\ Achieved(Step, Built, Given)
    /\ Step.do \in {"deploy", "handOver", "propose"}
    /\ Step.do = "handOver" => owner[Step.contract] = FinalOwner[Step.contract]

QuietStep ==
    /\ Quiet
    /\ \/ Starts \/ Ends \/ Skips \/ Finishes \/ Same
       \/ Passes /\ PassesQuietly
       \/ Resume
SendStep == \E tx \in Txs : Sending(tx) /\ (Waits(tx) \/ GoesOn(tx) \/ (Same /\ tx.do = "fund"))

LEMMA Needed ==
    ASSUME NEW i \in DOMAIN Scripts, \A c \in Scripts[i].needs : deployment[c] # 0
    PROVE  Scripts[i].needs \subseteq Built
  BY ScriptsOK DEF Built, ScriptOK

LEMMA CurrentScript ==
    ASSUME NEW r \in RunType, r.plan # << >>
    PROVE  /\ Head(r.plan) \in DOMAIN Scripts /\ Tail(r.plan) \in Seq(DOMAIN Scripts)
           /\ r.step \in DOMAIN ScriptOf(r).steps <=> r.step <= Len(ScriptOf(r).steps)
  <1>1. Head(r.plan) \in DOMAIN Scripts /\ Tail(r.plan) \in Seq(DOMAIN Scripts) /\ r.step \in Nat \ {0}
    BY DEF RunType
  <1>2. /\ DOMAIN ScriptOf(r).steps = 1 .. Len(ScriptOf(r).steps)
        /\ Len(ScriptOf(r).steps) \in Nat
    BY <1>1, ScriptsOK DEF ScriptOf, ScriptOK
  <1> QED
    BY <1>1, <1>2

LEMMA AtWork ==
    ASSUME IInv, NEW kind, At(kind)
    PROVE  /\ Working /\ run.stage = "running" /\ Step.do = kind /\ StepOK(Step)
           /\ Head(run.plan) \in DOMAIN Scripts
           /\ run.step \in DOMAIN Current.steps
           /\ run.from \in Accounts
  <1>1. run \in RunType /\ run.plan # << >> /\ run.stage = "running" /\ run.from \in Accounts
    BY DEF IInv, RunOK, At, Running
  <1>2. Head(run.plan) \in DOMAIN Scripts /\ run.step \in DOMAIN Current.steps
    BY <1>1, CurrentScript DEF At, ScriptOf, Current
  <1>3. StepOK(Step)
    BY <1>2, ScriptsOK DEF ScriptOK, Current, Step
  <1>4. Current.needs \subseteq Built
    BY <1>2, Needed DEF At, Current
  <1> QED
    BY <1>1, <1>2, <1>3, <1>4 DEF At, Running, Working


LEMMA InstancesOK ==
    ASSUME ChainOK, NEW args \in SUBSET Contracts
    PROVE  Instances(args) \in Givens
  <1>1. Instances(args) \in [args -> Nat]
    BY DEF Instances, ChainOK
  <1> QED
    BY <1>1 DEF Givens

LEMMA SubmitDeployForm ==
    ASSUME IInv, SubmitDeploy
    PROVE  SendStep
  <1> DEFINE tx == [do |-> "deploy", from |-> run.from, contract |-> Step.contract,
                    instance |-> issued[Step.contract] + 1, args |-> Instances(Step.args)]
  <1>1. /\ Working /\ run.stage = "running" /\ Step.do = "deploy" /\ StepOK(Step)
        /\ run.from \in Accounts
    BY AtWork DEF SubmitDeploy
  <1>2. Step.contract \in Contracts /\ Step.args \in SUBSET Contracts
    BY <1>1 DEF StepOK
  <1>3. Instances(Step.args) \in Givens /\ issued[Step.contract] \in Nat
    BY <1>2, InstancesOK DEF IInv, ChainOK
  <1>4. tx \in Txs
    BY <1>1, <1>2, <1>3 DEF Txs
  <1>5. tx.do = "deploy" /\ tx.contract = Step.contract /\ tx.instance = issued[Step.contract] + 1
        /\ tx.args = Instances(Step.args) /\ tx.from = run.from
    OBVIOUS
  <1>6. /\ issued' = [issued EXCEPT ![Step.contract] = @ + 1]
        /\ Submit(tx, TRUE) /\ deployment[Step.contract] = 0
        /\ UNCHANGED <<deployment, references, owner, version, replaced, migrations>>
    BY DEF SubmitDeploy, diskVars, chainVars, faultVars
  <1> HIDE DEF tx
  <1>7. issued' \in [Contracts -> Nat] /\ (\A c \in Contracts : issued[c] <= issued'[c])
        /\ issued'[Step.contract] = issued[Step.contract] + 1
    BY <1>2, <1>3, <1>6 DEF IInv, ChainOK
  <1>8. Sending(tx)
    BY <1>4, <1>5, <1>6, <1>7 DEF Sending, Submit
  <1>9. Waits(tx)
    BY <1>1, <1>5, <1>6 DEF Waits, Submit, Built, WouldRevert
  <1> QED
    BY <1>4, <1>8, <1>9 DEF SendStep

LEMMA SendForm ==
    ASSUME IInv, Send(Step), Working, run.stage = "running", StepOK(Step), run.from \in Accounts,
           Step.do \in {"transfer", "handOver"}
    PROVE  QuietStep \/ SendStep
  <1> DEFINE tx == TransferTx(Step)
  <1>1. Step.contract \in Owned /\ Step.to = FinalOwner[Step.contract]
    BY DEF StepOK
  <1>2. tx \in Txs
    BY <1>1 DEF Txs, TransferTx
  <1>3. tx.do = "transfer" /\ tx.from = run.from /\ tx.contract = Step.contract
    BY DEF TransferTx
  <1>4. ASSUME NEW why, Abort(why) PROVE QuietStep
    BY <1>4 DEF Abort, QuietStep, Quiet, Ends, diskVars, chainVars, faultVars
  <1>5. ASSUME ~ WouldRevert(tx), Named(Step.to), Submit(tx, Step.waits),
               UNCHANGED <<network, mnemonic, diskVars, issued, references, chainVars, proposals,
                           aborted, faultVars>>
        PROVE  SendStep
    <2>1. owner[tx.contract] = tx.from
      BY <1>3, <1>5 DEF WouldRevert
    <2>2. Sending(tx)
      BY <1>2, <1>3, <1>5, <2>1 DEF Sending, Submit, IInv, ChainOK, diskVars, chainVars, faultVars
    <2> HIDE DEF tx
    <2>3. Waits(tx) \/ GoesOn(tx)
      BY <1>3, <1>5 DEF Waits, GoesOn, Submit, diskVars
    <2> QED
      BY <1>2, <2>2, <2>3 DEF SendStep
  <1> QED
    BY <1>4, <1>5 DEF Send

LEMMA InitializeForm ==
    ASSUME IInv, Initialize
    PROVE  QuietStep \/ SendStep
  <1> DEFINE tx == [do |-> "initialize", from |-> run.from, contract |-> "LendNestV2",
                    args |-> Instances(Step.args)]
  <1>1. /\ Working /\ run.stage = "running" /\ Step.do = "initialize" /\ StepOK(Step)
        /\ run.from \in Accounts
    BY AtWork DEF Initialize
  <1>2. Instances(Step.args) \in Givens
    BY <1>1, InstancesOK DEF StepOK, IInv
  <1>3. tx \in Txs /\ tx.do = "initialize" /\ tx.args = Instances(Step.args) /\ tx.from = run.from
    BY <1>1, <1>2 DEF Txs
  <1>4. \/ Abort("reverted")
        \/ /\ ~ WouldRevert(tx) /\ Submit(tx, TRUE)
           /\ UNCHANGED <<diskVars, issued, references, chainVars, faultVars>>
    BY DEF Initialize
  <1> HIDE DEF tx
  <1>5. CASE Abort("reverted")
    BY <1>5 DEF Abort, QuietStep, Quiet, Ends, diskVars, chainVars, faultVars
  <1>6. CASE /\ ~ WouldRevert(tx) /\ Submit(tx, TRUE)
             /\ UNCHANGED <<diskVars, issued, references, chainVars, faultVars>>
    <2>1. Sending(tx)
      BY <1>3, <1>6 DEF Sending, Submit, IInv, ChainOK, diskVars, chainVars, faultVars
    <2>2. Waits(tx)
      BY <1>1, <1>3, <1>6 DEF Waits, Submit, diskVars
    <2> QED
      BY <1>3, <2>1, <2>2 DEF SendStep
  <1> QED
    BY <1>4, <1>5, <1>6

LEMMA HandOverForm ==
    ASSUME IInv, HandOver
    PROVE  QuietStep \/ SendStep
  <1>1. /\ Working /\ run.stage = "running" /\ Step.do = "handOver" /\ StepOK(Step)
        /\ run.from \in Accounts
    BY AtWork DEF HandOver
  <1>2. Step.contract \in Owned /\ Step.to = FinalOwner[Step.contract]
    BY <1>1 DEF StepOK
  <1>3. CASE Send(Step)
    BY <1>1, <1>3, SendForm
  <1>4. CASE owner[Step.contract] = Step.to /\ NextStep
             /\ UNCHANGED <<diskVars, issued, references, chainVars, pending, faultVars>>
    <2>1. Achieved(Step, Built, Given)
      BY <1>1, <1>2, <1>4 DEF Achieved, Given
    <2> QED
      BY <1>1, <1>2, <1>4, <2>1
         DEF QuietStep, Quiet, Passes, PassesQuietly, diskVars, chainVars, faultVars
  <1>5. CASE Abort("not the owner")
    BY <1>5 DEF Abort, QuietStep, Quiet, Ends, diskVars, chainVars, faultVars
  <1> QED
    BY <1>3, <1>4, <1>5 DEF HandOver

LEMMA RunForm ==
    ASSUME IInv, RunNext
    PROVE  QuietStep \/ SendStep \/ SaveDeployment
  <1> USE DEF diskVars, chainVars, faultVars
  <1>1. CASE Skip \/ EndRun \/ FinishScript
    BY <1>1 DEF Skip, EndRun, FinishScript, QuietStep, Quiet, Skips, Ends, Finishes
  <1>2. CASE MissingContract \/ WaitThrows
    BY <1>2 DEF MissingContract, WaitThrows, Abort, QuietStep, Quiet, Ends
  <1>3. CASE AlreadyDeployed
    <2>1. Working /\ run.stage = "running" /\ Step.do = "deploy" /\ StepOK(Step)
      BY <1>3, AtWork DEF AlreadyDeployed
    <2>2. Achieved(Step, Built, Given)
      BY <1>3, <2>1 DEF AlreadyDeployed, Achieved, Built, StepOK
    <2> QED
      BY <1>3, <2>1, <2>2 DEF AlreadyDeployed, QuietStep, Quiet, Passes, PassesQuietly
  <1>4. CASE Propose
    <2>1. Working /\ run.stage = "running" /\ Step.do = "propose"
      BY <1>4, AtWork DEF Propose
    <2>2. Achieved(Step, Built, Given)
      BY <2>1 DEF Achieved
    <2> QED
      BY <1>4, <2>1, <2>2 DEF Propose, QuietStep, Quiet, Passes, PassesQuietly
  <1>5. CASE Resume
    BY <1>5 DEF Resume, QuietStep, Quiet
  <1>6. CASE Transfer
    <2>1. /\ Working /\ run.stage = "running" /\ Step.do = "transfer" /\ StepOK(Step)
          /\ run.from \in Accounts
      BY <1>6, AtWork DEF Transfer
    <2> QED
      BY <1>6, <2>1, SendForm DEF Transfer
  <1>7. CASE SubmitDeploy \/ Initialize \/ HandOver
    BY <1>7, SubmitDeployForm, InitializeForm, HandOverForm
  <1> QED
    BY <1>1, <1>2, <1>3, <1>4, <1>5, <1>6, <1>7 DEF RunNext

LEMMA StepForm ==
    ASSUME IInv, [Next]_vars
    PROVE  \/ QuietStep \/ SendStep \/ SaveDeployment
           \/ \E i \in DOMAIN pending : Mine(i)
           \/ SendTask \/ ExecuteSherlock
  <1> USE DEF diskVars, chainVars, faultVars
  <1>1. ASSUME NEW tag \in Tags, StartRun(tag) PROVE QuietStep
    <2>1. \E t \in Tags :
             run' = [Idle EXCEPT !.stage = "running", !.from = Deployer(network, Wallets[mnemonic]),
                                 !.plan = Plans[t]]
      BY <1>1 DEF StartRun
    <2> QED
      BY <1>1, <2>1 DEF StartRun, QuietStep, Quiet, Starts
  <1>2. CASE Crash \/ MineContractAddress \/ UNCHANGED vars
    BY <1>2 DEF Crash, MineContractAddress, vars, QuietStep, Quiet, Ends, Same
  <1>3. CASE FundedWallet
    <2> DEFINE tx == [do |-> "fund", from |-> Wallets[mnemonic]]
    <2>0. Wallets[mnemonic] \in Accounts
      BY DeployerOK DEF IInv, OperatorOK
    <2>1. tx \in Txs /\ tx.do = "fund"
      BY <2>0 DEF Txs
    <2>2. pending' = Append(pending, tx)
          /\ UNCHANGED <<issued, deployment, references, owner, version, replaced, run, migrations>>
      BY <1>3 DEF FundedWallet
    <2> HIDE DEF tx
    <2>3. Sending(tx) /\ Same
      BY <2>1, <2>2 DEF Sending, Same, IInv, ChainOK
    <2> QED
      BY <2>1, <2>3 DEF SendStep
  <1> QED
    BY <1>1, <1>2, <1>3, RunForm DEF Next, MineNext

LEMMA NetworkStays ==
    ASSUME OperatorOK, [Next]_vars
    PROVE  network' = network /\ mnemonic' \in DOMAIN Wallets
  <1>1. DOMAIN Wallets = 1 .. Len(Wallets) /\ Len(Wallets) \in Nat
    BY DeploymentAssumption
  <1> USE DEF diskVars, chainVars, faultVars
  <1>2. ASSUME NEW why, Abort(why) PROVE network' = network /\ mnemonic' = mnemonic
    BY <1>2 DEF Abort
  <1>3. ASSUME NEW step, Send(step) PROVE network' = network /\ mnemonic' = mnemonic
    BY <1>2, <1>3 DEF Send
  <1>4. CASE RunNext
    <2>1. network' = network /\ mnemonic' = mnemonic
      BY <1>2, <1>3, <1>4
         DEF RunNext, Skip, EndRun, MissingContract, FinishScript, SubmitDeploy, AlreadyDeployed,
             SaveDeployment, Initialize, Transfer, HandOver, Propose, Resume, WaitThrows
    <2> QED
      BY <2>1 DEF OperatorOK
  <1>5. ASSUME NEW i \in DOMAIN pending, Mine(i)
        PROVE  network' = network /\ mnemonic' = mnemonic
    BY <1>5 DEF Mine
  <1>6. CASE MineContractAddress
    <2>1. network' = network /\ mnemonic' = mnemonic + 1 /\ mnemonic < Len(Wallets)
      BY <1>6 DEF MineContractAddress
    <2>2. mnemonic \in 1 .. Len(Wallets)
      BY <1>1 DEF OperatorOK
    <2>3. mnemonic' \in 1 .. Len(Wallets)
      BY <1>1, <2>1, <2>2
    <2> QED
      BY <1>1, <2>1, <2>3
  <1>7. ASSUME NEW tag \in Tags, StartRun(tag)
        PROVE  network' = network /\ mnemonic' = mnemonic
    BY <1>7 DEF StartRun
  <1>8. CASE ExecuteSherlock \/ Crash \/ SendTask \/ FundedWallet \/ UNCHANGED vars
    BY <1>8 DEF ExecuteSherlock, Crash, SendTask, FundedWallet, vars, OperatorOK
  <1> QED
    BY <1>4, <1>5, <1>6, <1>7, <1>8 DEF Next, MineNext, OperatorOK

-----------------------------------------------------------------------------
(* What a step keeps of the chain: nothing built is undone, nothing given is *)
(* taken back.                                                               *)

Kept == ChainOK' /\ Built \subseteq Built' /\ Given \subseteq Given'

LEMMA ChainQuiet ==
    ASSUME ChainOK, Quiet
    PROVE  Kept /\ Built' = Built /\ Given' = Given
  <1>1. ChainOK'
    BY DEF ChainOK, Quiet
  <1>2. Built' = Built
    BY DEF Built, Quiet
  <1>3. Given' = Given
    BY DEF Given, OnItsWay, Quiet
  <1> QED
    BY <1>1, <1>2, <1>3 DEF Kept

LEMMA ChainSending ==
    ASSUME ChainOK, NEW tx, Sending(tx)
    PROVE  Kept /\ Built' = Built /\ (tx.do = "transfer" => tx.contract \in Given')
  <1>1. /\ pending' \in Seq(Txs) /\ DOMAIN pending' = DOMAIN pending \cup {Len(pending) + 1}
        /\ \A i \in DOMAIN pending : pending'[i] = pending[i]
        /\ pending'[Len(pending) + 1] = tx
    BY DEF ChainOK, Sending
  <1>2. tx \in Txs /\ (tx.do = "transfer" => owner[tx.contract] = tx.from /\ tx.contract \in Owned)
    BY TxFacts DEF Sending
  <1>3. \A i \in DOMAIN pending' : pending'[i].do = "transfer" =>
           owner'[pending'[i].contract] \in {pending'[i].from, FinalOwner[pending'[i].contract]}
    BY <1>1, <1>2 DEF ChainOK, Sending
  <1>4. \A c \in Contracts : deployment'[c] <= issued'[c]
    BY DEF ChainOK, Sending
  <1>5. ChainOK'
    BY <1>1, <1>3, <1>4 DEF ChainOK, Sending
  <1>6. Built' = Built
    BY DEF Built, Sending
  <1>7. Given \subseteq Given' /\ (tx.do = "transfer" => tx.contract \in Given')
    BY <1>1, <1>2 DEF Given, OnItsWay, Sending
  <1> QED
    BY <1>5, <1>6, <1>7 DEF Kept

LEMMA ChainSherlock ==
    ASSUME ChainOK, ExecuteSherlock
    PROVE  Kept /\ Built' = Built
  <1> USE DEF diskVars, chainVars, faultVars
  <1>1. ChainOK'
    BY DEF ChainOK, ExecuteSherlock
  <1>2. Built' = Built
    BY DEF Built, ExecuteSherlock
  <1>3. Given' = Given
    BY DEF Given, OnItsWay, ExecuteSherlock
  <1> QED
    BY <1>1, <1>2, <1>3 DEF Kept

\* What a deployment that is written down changes.
LEMMA Saved ==
    ASSUME IInv, SaveDeployment
    PROVE  \E c \in Contracts, n \in Nat \ {0} :
              /\ run.tx.contract = c /\ run.tx.do = "deploy" /\ run.tx \in Txs
              /\ deployment[c] = 0 /\ deployment' = [deployment EXCEPT ![c] = n]
              /\ n <= issued[c]
              /\ DOMAIN run.tx.args \subseteq Contracts
              /\ references' = [references EXCEPT ![c] = run.tx.args]
              /\ c # "ProxyAdmin" /\ run.tx.from \in Accounts
              /\ owner' = IF c \in Owned \ {"LendNestV2"} THEN [owner EXCEPT ![c] = run.tx.from]
                          ELSE owner
              /\ c \in Owned \ {"LendNestV2"} => owner[c] = Nobody
              /\ UNCHANGED <<issued, version, pending, replaced>>
  <1> DEFINE c == run.tx.contract
             n == run.tx.instance
  <1>1. ChainOK /\ run.tx \in Txs /\ run.tx.do = "deploy" /\ c \notin Built /\ run.from \in Accounts
        /\ n <= issued[c]
    BY DEF IInv, RunOK, TxFits, SaveDeployment, InstanceOK, Sent
  <1>2. c \in Contracts /\ n \in Nat \ {0} /\ DOMAIN run.tx.args \subseteq Contracts
        /\ run.tx.from \in Accounts
    BY <1>1, TxFacts
  <1>3. /\ deployment' = [deployment EXCEPT ![c] = n]
        /\ references' = [references EXCEPT ![c] = run.tx.args]
        /\ owner' = IF c \in Owned \ {"LendNestV2"} THEN [owner EXCEPT ![c] = run.tx.from]
                    ELSE owner
        /\ UNCHANGED <<issued, version, pending, replaced>>
    BY DEF SaveDeployment, faultVars
  <1> HIDE DEF c, n
  <1>4. deployment[c] = 0
    BY <1>1, <1>2 DEF Built
  <1>5. c \notin {"ProxyAdmin"}
    BY <1>2, AllContracts DEF Deployed
  <1>6. c \in Owned \ {"LendNestV2"} => owner[c] = Nobody
    BY <1>1, <1>4, <1>5, OwnedOnes DEF ChainOK
  <1> QED
    BY <1>1, <1>2, <1>3, <1>4, <1>5, <1>6 DEF c, n

LEMMA ChainSaved ==
    ASSUME IInv, SaveDeployment
    PROVE  Kept /\ run.tx.contract \in Built'
  <1>1. ChainOK
    BY DEF IInv
  <1> PICK c \in Contracts, n \in Nat \ {0} :
         /\ run.tx.contract = c /\ run.tx.do = "deploy" /\ run.tx \in Txs
         /\ deployment[c] = 0 /\ deployment' = [deployment EXCEPT ![c] = n]
         /\ n <= issued[c]
         /\ DOMAIN run.tx.args \subseteq Contracts
         /\ references' = [references EXCEPT ![c] = run.tx.args]
         /\ c # "ProxyAdmin" /\ run.tx.from \in Accounts
         /\ owner' = IF c \in Owned \ {"LendNestV2"} THEN [owner EXCEPT ![c] = run.tx.from]
                     ELSE owner
         /\ c \in Owned \ {"LendNestV2"} => owner[c] = Nobody
         /\ UNCHANGED <<issued, version, pending, replaced>>
    BY Saved
  <1>2. /\ DOMAIN owner' = Owned /\ owner' = [o \in Owned |-> owner'[o]]
        /\ \A o \in Owned : owner'[o] = owner[o] \/ (o = c /\ owner[o] = Nobody
                                                       /\ owner'[o] = run.tx.from)
        /\ owner'["LendNestV2"] = owner["LendNestV2"]
    BY <1>1, OwnedOnes DEF ChainOK
  <1>3. /\ deployment' \in [Contracts -> Nat] /\ issued' \in [Contracts -> Nat]
        /\ \A d \in Contracts : deployment'[d] <= issued'[d]
        /\ \A d \in Contracts : d # c => deployment'[d] = deployment[d]
        /\ deployment'[c] = n
    BY <1>1 DEF ChainOK
  <1>4. DOMAIN references' = Contracts /\ \A d \in Contracts : DOMAIN references'[d] \subseteq Contracts
    BY <1>1 DEF ChainOK
  <1>5. \A o \in Owned : owner'[o] = FinalOwner[o] \/ owner'[o] \in Accounts \cup {Nobody}
    BY <1>1, <1>2 DEF ChainOK
  <1>6. \A d \in {"CollateralEscrowBeacon", "LenderManager"} :
            deployment'[d] = 0 => owner'[d] = Nobody
    <2>1. {"CollateralEscrowBeacon", "LenderManager"} \subseteq Owned \cap Contracts
      BY OwnedOnes, SomeContracts DEF Deployed
    <2> QED
      BY <1>1, <1>2, <1>3, <2>1 DEF ChainOK
  <1>7. \A i \in DOMAIN pending : pending[i].do = "transfer" =>
            owner'[pending[i].contract] \in {pending[i].from, FinalOwner[pending[i].contract]}
    <2>1. \A i \in DOMAIN pending : pending[i] \in Txs
      BY <1>1 DEF ChainOK
    <2>2. \A i \in DOMAIN pending : pending[i].do = "transfer" =>
             pending[i].contract \in Owned /\ pending[i].from \in Accounts
      BY <2>1, TxFacts
    <2>3. \A i \in DOMAIN pending : pending[i].do = "transfer" =>
             owner[pending[i].contract] \in {pending[i].from, FinalOwner[pending[i].contract]}
      BY <1>1 DEF ChainOK
    <2>4. \A i \in DOMAIN pending : pending[i].do = "transfer" =>
             owner[pending[i].contract] # Nobody
      BY <2>2, <2>3, AccountsDiffer
    <2> QED
      BY <1>2, <2>2, <2>3, <2>4
  <1>8. ChainOK'
    BY <1>1, <1>2, <1>3, <1>4, <1>5, <1>6, <1>7 DEF ChainOK
  <1>9. Built \subseteq Built' /\ c \in Built'
    BY <1>3 DEF Built
  <1>10. Given \subseteq Given'
    BY <1>2, AccountsDiffer DEF Given, OnItsWay
  <1> QED
    BY <1>8, <1>9, <1>10 DEF Kept

LEMMA RemoveOne ==
    ASSUME NEW T, NEW s \in Seq(T), NEW i \in DOMAIN s, NEW r, r = RemoveAt(s, i)
    PROVE  /\ r \in Seq(T)
           /\ \A j \in DOMAIN r : \E k \in DOMAIN s : r[j] = s[k]
           /\ \A k \in DOMAIN s : k # i => \E j \in DOMAIN r : r[j] = s[k]
           /\ DOMAIN s = 1 .. Len(s) /\ DOMAIN r = 1 .. Len(s) - 1
           /\ \A j \in DOMAIN r : r[j] = IF j < i THEN s[j] ELSE s[j + 1]
  <1> DEFINE f == SubSeq(s, 1, i - 1)
             g == SubSeq(s, i + 1, Len(s))
  <1>1. Len(s) \in Nat /\ DOMAIN s = 1 .. Len(s) /\ i \in 1 .. Len(s)
    OBVIOUS
  <1>2. f \in Seq(T) /\ Len(f) = i - 1 /\ \A j \in 1 .. i - 1 : f[j] = s[j]
    BY <1>1
  <1>3. g \in Seq(T) /\ Len(g) = Len(s) - i /\ \A j \in 1 .. Len(s) - i : g[j] = s[j + i]
    BY <1>1
  <1>4. r = f \o g
    BY DEF RemoveAt
  <1> HIDE DEF f, g
  <1>5. /\ r \in Seq(T) /\ Len(r) = Len(s) - 1 /\ DOMAIN r = 1 .. Len(s) - 1
        /\ \A j \in 1 .. Len(s) - 1 : r[j] = IF j < i THEN f[j] ELSE g[j - (i - 1)]
    <2>1. /\ f \o g \in Seq(T) /\ Len(f \o g) = Len(f) + Len(g)
          /\ \A j \in 1 .. Len(f) + Len(g) :
                (f \o g)[j] = IF j <= Len(f) THEN f[j] ELSE g[j - Len(f)]
      BY <1>2, <1>3, ConcatProperties
    <2>2. Len(f) = i - 1
      BY <1>2
    <2>3. Len(f) + Len(g) = Len(s) - 1
      BY <1>1, <1>2, <1>3
    <2> QED
      <3>1. r \in Seq(T) /\ Len(r) = Len(s) - 1
        BY <1>4, <2>1, <2>3
      <3>2. DOMAIN r = 1 .. Len(s) - 1
        BY <3>1
      <3>3. ASSUME NEW j \in 1 .. Len(s) - 1
            PROVE  r[j] = IF j < i THEN f[j] ELSE g[j - (i - 1)]
        <4>1. j <= Len(f) <=> j < i
          BY <1>1, <2>2
        <4> QED
          BY <1>4, <2>1, <2>2, <2>3, <4>1
      <3> QED
        BY <3>1, <3>2, <3>3
  <1>6. ASSUME NEW j \in 1 .. Len(s) - 1 PROVE r[j] = IF j < i THEN s[j] ELSE s[j + 1]
    <2>1. CASE j < i
      BY <1>1, <1>2, <1>5, <2>1
    <2>2. CASE j >= i
      <3>1. j - (i - 1) \in 1 .. Len(s) - i /\ j - (i - 1) + i = j + 1
        BY <1>1, <2>2
      <3>2. g[j - (i - 1)] = s[j - (i - 1) + i]
        BY <1>3, <3>1
      <3> QED
        BY <1>1, <1>5, <2>2, <3>1, <3>2
    <2> QED
      BY <1>1, <2>1, <2>2
  <1>7. \A j \in DOMAIN r : \E k \in DOMAIN s : r[j] = s[k]
    <2>1. \A j \in DOMAIN r : j \in DOMAIN s /\ j + 1 \in DOMAIN s
      BY <1>1, <1>5
    <2> QED
      BY <1>5, <1>6, <2>1
  <1>8. ASSUME NEW k \in DOMAIN s, k # i PROVE \E j \in DOMAIN r : r[j] = s[k]
    <2>1. CASE k < i
      BY <1>1, <1>5, <1>6, <1>8, <2>1
    <2>2. CASE k > i
      <3>1. k - 1 \in DOMAIN r /\ r[k - 1] = s[k]
        BY <1>1, <1>5, <1>6, <1>8, <2>2
      <3> QED
        BY <3>1
    <2> QED
      BY <1>1, <1>8, <2>1, <2>2
  <1> QED
    BY <1>1, <1>5, <1>6, <1>7, <1>8

\* What owners a mined transaction may change.
LEMMA Mined ==
    ASSUME ChainOK, NEW i \in DOMAIN pending, Mine(i)
    PROVE  /\ DOMAIN owner' = Owned /\ owner' = [o \in Owned |-> owner'[o]]
           /\ \A o \in Owned :
                 \/ owner'[o] = owner[o]
                 \/ owner[o] = Nobody /\ owner'[o] \in Accounts /\ o \in {"ProxyAdmin", "LendNestV2"}
                    /\ (o = "LendNestV2" => version' # 0)
                 \/ owner[o] \in Accounts /\ owner'[o] = FinalOwner[o]
           /\ version' \in {version, 1} /\ (version # 0 => version' = version)
           /\ pending[i].do = "transfer" =>
                 owner'[pending[i].contract] = FinalOwner[pending[i].contract]
  <1> DEFINE tx == pending[i]
  <1>1. tx \in Txs /\ tx.from \in Accounts /\ tx.do \in {"deploy", "initialize", "transfer", "fund"}
        /\ (tx.do = "transfer" => tx.contract \in Owned /\ tx.to = FinalOwner[tx.contract]
                                  /\ owner[tx.contract] \in {tx.from, FinalOwner[tx.contract]})
    <2>1. tx \in Txs
      BY DEF ChainOK
    <2> QED
      BY <2>1, TxFacts DEF ChainOK
  <1>2. /\ version' = IF tx.do = "initialize" /\ ~ WouldRevert(tx) THEN 1 ELSE version
        /\ owner' =
             IF WouldRevert(tx) THEN owner
             ELSE CASE tx.do = "initialize" -> [owner EXCEPT !["LendNestV2"] = tx.from]
                    [] tx.do = "transfer" -> [owner EXCEPT ![tx.contract] = tx.to]
                    [] tx.do = "deploy" /\ tx.contract \in Proxies
                       /\ owner["ProxyAdmin"] = Nobody -> [owner EXCEPT !["ProxyAdmin"] = tx.from]
                    [] OTHER -> owner
    BY DEF Mine
  <1> HIDE DEF tx
  <1>3. DOMAIN owner = Owned /\ owner = [o \in Owned |-> owner[o]] /\ version \in {0, 1, 9}
        /\ (version = 0 => owner["LendNestV2"] = Nobody)
    BY DEF ChainOK
  <1>4. CASE WouldRevert(tx)
    <2>1. owner' = owner /\ version' = version
      BY <1>2, <1>4
    <2>2. tx.do = "transfer" => owner[tx.contract] = FinalOwner[tx.contract]
      BY <1>1, <1>4 DEF WouldRevert
    <2> QED
      BY <1>3, <2>1, <2>2 DEF tx
  <1>5. CASE tx.do = "initialize" /\ ~ WouldRevert(tx)
    <2>1. version = 0 /\ version' = 1 /\ owner' = [owner EXCEPT !["LendNestV2"] = tx.from]
      BY <1>2, <1>5 DEF WouldRevert
    <2> QED
      BY <1>1, <1>3, <1>5, <2>1 DEF tx
  <1>6. CASE tx.do = "transfer" /\ ~ WouldRevert(tx)
    <2>1. owner[tx.contract] = tx.from /\ version' = version
          /\ owner' = [owner EXCEPT ![tx.contract] = FinalOwner[tx.contract]]
      BY <1>1, <1>2, <1>6 DEF WouldRevert
    <2> QED
      BY <1>1, <1>3, <1>6, <2>1 DEF tx
  <1>7. CASE tx.do \notin {"initialize", "transfer"} /\ ~ WouldRevert(tx)
    <2>1. version' = version
      BY <1>2, <1>7
    <2>2. \/ owner' = owner
          \/ owner["ProxyAdmin"] = Nobody /\ owner' = [owner EXCEPT !["ProxyAdmin"] = tx.from]
      BY <1>2, <1>7
    <2> QED
      BY <1>1, <1>3, <1>7, <2>1, <2>2 DEF tx
  <1> QED
    BY <1>4, <1>5, <1>6, <1>7

LEMMA ChainMined ==
    ASSUME ChainOK, NEW i \in DOMAIN pending, Mine(i)
    PROVE  /\ Kept /\ Built' = Built
           /\ pending[i].do = "transfer" => pending[i].contract \in Given'
  <1>1. /\ pending' = RemoveAt(pending, i)
        /\ UNCHANGED <<deployment, issued, replaced>>
    BY DEF Mine, diskVars, faultVars
  <1>2. /\ pending' \in Seq(Txs)
        /\ \A j \in DOMAIN pending' : \E k \in DOMAIN pending : pending'[j] = pending[k]
        /\ \A k \in DOMAIN pending : k # i => \E j \in DOMAIN pending' : pending'[j] = pending[k]
    BY <1>1, RemoveOne DEF ChainOK
  <1>3. /\ DOMAIN owner' = Owned /\ owner' = [o \in Owned |-> owner'[o]]
        /\ \A o \in Owned :
              \/ owner'[o] = owner[o]
              \/ owner[o] = Nobody /\ owner'[o] \in Accounts /\ o \in {"ProxyAdmin", "LendNestV2"}
                 /\ (o = "LendNestV2" => version' # 0)
              \/ owner[o] \in Accounts /\ owner'[o] = FinalOwner[o]
        /\ version' \in {version, 1} /\ (version # 0 => version' = version)
        /\ pending[i].do = "transfer" => owner'[pending[i].contract] = FinalOwner[pending[i].contract]
    BY Mined
  <1>4. \A k \in DOMAIN pending : pending[k].do = "transfer" =>
           /\ pending[k].contract \in Owned /\ pending[k].from \in Accounts
           /\ owner[pending[k].contract] \in {pending[k].from, FinalOwner[pending[k].contract]}
    <2>1. \A k \in DOMAIN pending : pending[k] \in Txs
      BY DEF ChainOK
    <2> QED
      BY <2>1, TxFacts DEF ChainOK
  <1>5. \A k \in DOMAIN pending : pending[k].do = "transfer" =>
           owner'[pending[k].contract] \in {pending[k].from, FinalOwner[pending[k].contract]}
    BY <1>3, <1>4, AccountsDiffer
  <1>6. DOMAIN references' = Contracts /\ \A c \in Contracts : DOMAIN references'[c] \subseteq Contracts
    <2>1. pending[i] \in Txs
      BY DEF ChainOK
    <2>2. pending[i].do = "initialize" => DOMAIN pending[i].args \subseteq Contracts
      BY <2>1, TxFacts
    <2>3. DOMAIN references = Contracts /\ \A c \in Contracts : DOMAIN references[c] \subseteq Contracts
      BY DEF ChainOK
    <2> DEFINE old == references["LendNestV2"]
               tx == pending[i]
               given == [a \in DOMAIN old \cup DOMAIN tx.args |->
                            IF a \in DOMAIN tx.args THEN tx.args[a] ELSE old[a]]
    <2>4. \/ references' = references
          \/ tx.do = "initialize" /\ references' = [references EXCEPT !["LendNestV2"] = given]
      BY DEF Mine
    <2>6. DOMAIN given = DOMAIN old \cup DOMAIN tx.args
      OBVIOUS
    <2> HIDE DEF given
    <2>5. "LendNestV2" \in Contracts
      BY AllContracts DEF Deployed
    <2> QED
      BY <2>2, <2>3, <2>4, <2>5, <2>6
  <1>7. \A o \in Owned : owner'[o] = FinalOwner[o] \/ owner'[o] \in Accounts \cup {Nobody}
    BY <1>3 DEF ChainOK
  <1>8. /\ version' \in {0, 1, 9} /\ (version' = 0 => owner'["LendNestV2"] = Nobody)
        /\ \A c \in {"CollateralEscrowBeacon", "LenderManager"} :
              deployment'[c] = 0 => owner'[c] = Nobody
    <2>1. /\ version \in {0, 1, 9} /\ (version = 0 => owner["LendNestV2"] = Nobody)
          /\ \A c \in {"CollateralEscrowBeacon", "LenderManager"} :
                deployment[c] = 0 => owner[c] = Nobody
      BY DEF ChainOK
    <2> QED
      BY <1>1, <1>3, <2>1, OwnedOnes, AccountsDiffer
  <1>9. ChainOK'
    <2>1. /\ deployment' \in [Contracts -> Nat] /\ issued' \in [Contracts -> Nat]
          /\ \A c \in Contracts : deployment'[c] <= issued'[c]
      BY <1>1 DEF ChainOK
    <2>2. \A j \in DOMAIN pending' : pending'[j].do = "transfer" =>
             owner'[pending'[j].contract] \in {pending'[j].from, FinalOwner[pending'[j].contract]}
      BY <1>2, <1>5
    <2> QED
      BY <1>2, <1>3, <1>6, <1>7, <1>8, <2>1, <2>2 DEF ChainOK
  <1>10. Built' = Built
    BY <1>1 DEF Built
  <1>11. ASSUME NEW o \in Given PROVE o \in Given'
    <2>1. CASE owner[o] = FinalOwner[o]
      BY <1>3, <2>1, AccountsDiffer DEF Given
    <2>2. CASE o \in replaced
      BY <1>1, <2>2 DEF Given
    <2>3. ASSUME NEW k \in DOMAIN pending, pending[k].do = "transfer", pending[k].contract = o
          PROVE  o \in Given'
      BY <1>2, <1>3, <2>3 DEF Given, OnItsWay
    <2> QED
      BY <2>1, <2>2, <2>3 DEF Given, OnItsWay
  <1>12. pending[i].do = "transfer" => pending[i].contract \in Given'
    BY <1>3, <1>4 DEF Given
  <1> QED
    BY <1>9, <1>10, <1>11, <1>12 DEF Kept

LEMMA ChainSendTask ==
    ASSUME ChainOK, SendTask
    PROVE  Kept /\ Built' = Built
  <1>1. PICK i \in DOMAIN pending :
           /\ pending' = RemoveAt(pending, i)
           /\ replaced' = IF pending[i].do = "transfer" THEN replaced \cup {pending[i].contract}
                          ELSE replaced
    BY DEF SendTask
  <1>2. /\ pending' \in Seq(Txs)
        /\ \A j \in DOMAIN pending' : \E k \in DOMAIN pending : pending'[j] = pending[k]
        /\ \A k \in DOMAIN pending : k # i => \E j \in DOMAIN pending' : pending'[j] = pending[k]
    BY <1>1, RemoveOne DEF ChainOK
  <1>3. UNCHANGED <<deployment, issued, references, owner, version>>
    BY DEF SendTask, diskVars, chainVars
  <1>4. ChainOK'
    <2>1. /\ deployment' \in [Contracts -> Nat] /\ issued' \in [Contracts -> Nat]
          /\ \A c \in Contracts : deployment'[c] <= issued'[c]
      BY <1>3 DEF ChainOK, SendTask
    <2>2. \A j \in DOMAIN pending' : pending'[j].do = "transfer" =>
             owner'[pending'[j].contract] \in {pending'[j].from, FinalOwner[pending'[j].contract]}
      <3>1. \A j \in DOMAIN pending : pending[j].do = "transfer" =>
               owner[pending[j].contract] \in {pending[j].from, FinalOwner[pending[j].contract]}
        BY DEF ChainOK
      <3> QED
        BY <1>2, <1>3, <3>1
    <2> QED
      BY <1>2, <1>3, <2>1, <2>2 DEF ChainOK
  <1>5. Built' = Built
    BY <1>3 DEF Built
  <1>6. Given \subseteq Given'
    BY <1>1, <1>2, <1>3 DEF Given, OnItsWay
  <1> QED
    BY <1>4, <1>5, <1>6 DEF Kept

-----------------------------------------------------------------------------
(* What a step keeps of the records and of the run *)

LEMMA RecordsStay ==
    ASSUME NEW recorded, NEW built, NEW given, NEW built2, NEW given2,
           built \subseteq built2, given \subseteq given2, RecordsOK(recorded, built, given)
    PROVE  RecordsOK(recorded, built2, given2)
  BY DEF RecordsOK, Achieved

\* So does a script that has begun, and a run, while more is built and given.
LEMMA ScriptStays ==
    ASSUME NEW r, NEW recorded, NEW built, NEW given, NEW built2, NEW given2,
           built \subseteq built2, given \subseteq given2, ScriptFits(r, recorded, built, given)
    PROVE  ScriptFits(r, recorded, built2, given2)
  BY DEF ScriptFits, Achieved

LEMMA RunStays ==
    ASSUME NEW r, NEW recorded, NEW built, NEW given, NEW built2, NEW given2,
           built \subseteq built2, given \subseteq given2, RunOK(r, recorded, built, given),
           r.stage \in Sent /\ r.tx.do = "deploy" => r.tx.contract \notin built2
    PROVE  RunOK(r, recorded, built2, given2)
  <1>1. r.plan # << >> => ScriptFits(r, recorded, built2, given2)
    BY ScriptStays DEF RunOK
  <1>2. r.stage \in Sent => TxFits(r, built2, given2)
    BY DEF RunOK, TxFits
  <1> QED
    BY <1>1, <1>2 DEF RunOK

LEMMA RunIdle ==
    ASSUME NEW recorded, NEW built, NEW given
    PROVE  RunOK(Idle, recorded, built, given)
  BY DEF Idle, RunOK, RunType, Sent

LEMMA FirstStep ==
    ASSUME NEW r \in RunType, NEW recorded, NEW built, NEW given,
           r.stage = "running", r.from \in Accounts, r.step = 1
    PROVE  RunOK(r, recorded, built, given)
  <1>1. ASSUME r.plan # << >> PROVE ScriptFits(r, recorded, built, given)
    <2>1. Head(r.plan) \in DOMAIN Scripts
      BY <1>1, CurrentScript
    <2>2. Len(ScriptOf(r).steps) \in Nat
      BY <2>1, ScriptsOK DEF ScriptOf, ScriptOK
    <2> QED
      BY <2>2 DEF ScriptFits, Sent
  <1> QED
    BY <1>1 DEF RunOK, Sent

LEMMA RunStarts ==
    ASSUME NEW from \in Accounts, NEW plan \in Seq(DOMAIN Scripts),
           NEW recorded, NEW built, NEW given, NEW r,
           r = [stage |-> "running", from |-> from, plan |-> plan, step |-> 1, tx |-> NoTx]
    PROVE  RunOK(r, recorded, built, given)
  <1>1. r \in RunType
    BY DEF RunType
  <1>2. r.stage = "running"
    OBVIOUS
  <1>3. r.from = from
    OBVIOUS
  <1>4. r.step = 1
    OBVIOUS
  <1> QED
    BY <1>1, <1>2, <1>3, <1>4, FirstStep

\* On to the next script.
LEMMA RunTurns ==
    ASSUME NEW r, NEW recorded, NEW built, NEW given, RunOK(r, recorded, built, given),
           r.stage = "running", r.plan # << >>, NEW recorded2, NEW r2,
           r2 = [r EXCEPT !.plan = Tail(@), !.step = 1]
    PROVE  RunOK(r2, recorded2, built, given)
  <1> DEFINE rest == Tail(r.plan)
  <1>1. r \in RunType /\ r.from \in Accounts /\ rest \in Seq(DOMAIN Scripts)
    BY CurrentScript DEF RunOK
  <1>2. r2 = [r EXCEPT !.plan = rest, !.step = 1]
    OBVIOUS
  <1> HIDE DEF rest
  <1>3. r2 = [stage |-> r.stage, from |-> r.from, plan |-> rest, step |-> 1, tx |-> r.tx]
    BY <1>1, <1>2 DEF RunType
  <1>4. r2 \in RunType
    BY <1>1, <1>3 DEF RunType
  <1>5. r2.stage = "running" /\ r2.from \in Accounts /\ r2.step = 1
    BY <1>1, <1>2 DEF RunType
  <1> QED
    BY <1>4, <1>5, FirstStep

\* On to the next step.
LEMMA RunPasses ==
    ASSUME NEW r \in RunType, NEW recorded, NEW built, NEW given,
           r.from \in Accounts, r.plan # << >>, r.step <= Len(ScriptOf(r).steps),
           ScriptFits(r, recorded, built, given), ScriptOf(r).id \notin recorded,
           network \in ScriptOf(r).networks, ScriptOf(r).needs \subseteq built,
           Achieved(StepOf(r), built, given),
           NEW r2 \in RunType, r2.plan = r.plan, r2.from = r.from, r2.stage = "running",
           r2.step = r.step + 1
    PROVE  RunOK(r2, recorded, built, given)
  <1>1. r.step \in Nat \ {0} /\ Len(ScriptOf(r).steps) \in Nat
    <2>1. r.step \in Nat \ {0} /\ Head(r.plan) \in DOMAIN Scripts
      BY CurrentScript DEF RunType
    <2> QED
      BY <2>1, ScriptsOK DEF ScriptOf, ScriptOK
  <1>2. ScriptOf(r2) = ScriptOf(r)
    BY DEF ScriptOf
  <1>3. \A k \in 1 .. r.step - 1 : Achieved(ScriptOf(r).steps[k], built, given)
    BY DEF ScriptFits
  <1>4. \A k \in 1 .. r2.step - 1 : Achieved(ScriptOf(r2).steps[k], built, given)
    BY <1>1, <1>2, <1>3 DEF StepOf
  <1>5. ScriptFits(r2, recorded, built, given)
    BY <1>1, <1>2, <1>4 DEF ScriptFits
  <1> QED
    BY <1>5 DEF RunOK, Sent

\* The transaction of the step is sent, or has come to something.
LEMMA RunAtStep ==
    ASSUME NEW r \in RunType, NEW recorded, NEW built, NEW given,
           r.from \in Accounts, r.plan # << >>, ScriptFits(r, recorded, built, given),
           ScriptOf(r).id \notin recorded, network \in ScriptOf(r).networks,
           ScriptOf(r).needs \subseteq built,
           NEW r2 \in RunType, r2.plan = r.plan, r2.from = r.from, r2.stage \in Sent,
           r2.step = r.step, TxFits(r2, built, given)
    PROVE  RunOK(r2, recorded, built, given)
  <1>1. ScriptOf(r2) = ScriptOf(r)
    BY DEF ScriptOf
  <1>2. ScriptFits(r2, recorded, built, given)
    BY <1>1 DEF ScriptFits
  <1> QED
    BY <1>2 DEF RunOK, Sent

\* What NextStep and the other moves of a run make of it.
LEMMA NextRun ==
    ASSUME run \in RunType, NextStep
    PROVE  /\ run' \in RunType /\ run'.plan = run.plan /\ run'.from = run.from
           /\ run'.stage = "running" /\ run'.step = run.step + 1
  <1>1. run.step \in Nat \ {0} /\ run.step + 1 \in Nat \ {0}
    BY DEF RunType
  <1>2. run' = [stage |-> "running", from |-> run.from, plan |-> run.plan, step |-> run.step + 1,
                tx |-> NoTx]
    BY DEF NextStep, RunType
  <1>3. run' \in RunType
    BY <1>1, <1>2 DEF RunType
  <1> QED
    BY <1>2, <1>3

LEMMA SentRun ==
    ASSUME run \in RunType, NEW stage \in Sent, NEW tx \in Txs,
           run' = [run EXCEPT !.stage = stage, !.tx = tx]
    PROVE  /\ run' \in RunType /\ run'.plan = run.plan /\ run'.from = run.from
           /\ run'.stage = stage /\ run'.step = run.step /\ run'.tx = tx
  <1>1. run' = [stage |-> stage, from |-> run.from, plan |-> run.plan, step |-> run.step, tx |-> tx]
    BY DEF RunType
  <1>2. run' \in RunType
    BY <1>1 DEF RunType
  <1> QED
    BY <1>1, <1>2

-----------------------------------------------------------------------------
(* Every step keeps the records and the run what they should be *)

RunKept ==
    /\ RecordsOK(migrations', Built', Given')
    /\ RunOK(run', migrations', Built', Given')
    /\ InstanceOK'

LEMMA RecordsKept ==
    ASSUME IInv, Kept, migrations' = migrations
    PROVE  RecordsOK(migrations', Built', Given')
  BY RecordsStay DEF IInv, Kept

\* What is known of a run that is at a step.
LEMMA AtStep ==
    ASSUME IInv, Working \/ run.stage \in Sent
    PROVE  /\ run \in RunType /\ run.plan # << >> /\ run.from \in Accounts /\ run.stage # "idle"
           /\ run.step <= Len(ScriptOf(run).steps)
           /\ ScriptFits(run, migrations, Built, Given) /\ ScriptOf(run).id \notin migrations
           /\ network \in ScriptOf(run).networks /\ ScriptOf(run).needs \subseteq Built
           /\ run.stage \in Sent => TxFits(run, Built, Given)
  <1>1. run \in RunType /\ (run.stage # "idle" => run.from \in Accounts)
        /\ (run.plan # << >> => ScriptFits(run, migrations, Built, Given))
        /\ (run.stage \in Sent => TxFits(run, Built, Given))
    BY DEF IInv, RunOK
  <1>2. CASE Working
    BY <1>1, <1>2 DEF Working, Due, Current, ScriptOf
  <1>3. CASE run.stage \in Sent
    <2>1. TxFits(run, Built, Given) /\ run.stage # "idle"
      BY <1>1, <1>3 DEF Sent
    <2>2. run.plan # << >> /\ run.step <= Len(ScriptOf(run).steps)
      BY <2>1 DEF TxFits
    <2> QED
      BY <1>1, <1>3, <2>1, <2>2 DEF ScriptFits
  <1> QED
    BY <1>2, <1>3

LEMMA SameKept ==
    ASSUME IInv, Kept, Built' = Built, Same, \A c \in Contracts : issued[c] <= issued'[c],
           issued' \in [Contracts -> Nat]
    PROVE  RunKept
  <1>1. RecordsOK(migrations', Built', Given')
    BY RecordsKept DEF Same
  <1>2. run.stage \in Sent /\ run.tx.do = "deploy" => run.tx.contract \notin Built'
    BY DEF IInv, RunOK, TxFits
  <1>3. RunOK(run, migrations, Built', Given')
    BY <1>2, RunStays DEF IInv, Kept
  <1>4. ASSUME run'.stage \in Sent, run'.tx.do = "deploy"
        PROVE  run'.tx.instance <= issued'[run'.tx.contract]
    <2>1. run' = run /\ run.tx.instance <= issued[run.tx.contract] /\ run.tx \in Txs
      BY <1>4 DEF Same, IInv, InstanceOK, RunOK, TxFits
    <2>2. run.tx.contract \in Contracts /\ run.tx.instance \in Nat
      BY <1>4, <2>1, TxFacts
    <2> QED
      BY <2>1, <2>2 DEF IInv, ChainOK
  <1> QED
    BY <1>1, <1>3, <1>4 DEF RunKept, Same, InstanceOK

LEMMA FinishKept ==
    ASSUME IInv, Finishes
    PROVE  RecordsOK(migrations', Built, Given)
  <1> DEFINE h == Head(run.plan)
  <1>1. /\ run \in RunType /\ run.plan # << >> /\ ScriptFits(run, migrations, Built, Given)
        /\ RecordsOK(migrations, Built, Given)
        /\ run.step > Len(ScriptOf(run).steps)
    BY DEF IInv, RunOK, Finishes, Running, Current, ScriptOf
  <1>2. h \in DOMAIN Scripts /\ run.step \in Nat \ {0} /\ ScriptOf(run) = Scripts[h]
    BY <1>1, CurrentScript DEF RunType, ScriptOf
  <1>3. Len(Scripts[h].steps) \in Nat \ {0} /\ DOMAIN Scripts[h].steps = 1 .. Len(Scripts[h].steps)
    BY <1>2, ScriptsOK DEF ScriptOK
  <1>4. Scripts[h].needs \subseteq Built
    BY <1>1, <1>2, <1>3 DEF ScriptFits
  <1>5. \A k \in DOMAIN Scripts[h].steps : Achieved(Scripts[h].steps[k], Built, Given)
    BY <1>1, <1>2, <1>3 DEF ScriptFits
  <1>6. migrations' \subseteq migrations \cup {Scripts[h].id} /\ Scripts[h].id \in Ids
    BY <1>2, UpgradeScripts DEF Finishes, Current
  <1> HIDE DEF h
  <1>7. ASSUME NEW i \in DOMAIN Scripts, Scripts[i].id \in migrations'
        PROVE  /\ Scripts[i].needs \subseteq Built
               /\ \A k \in DOMAIN Scripts[i].steps : Achieved(Scripts[i].steps[k], Built, Given)
    <2>1. CASE Scripts[i].id \in migrations
      BY <1>1, <2>1 DEF RecordsOK
    <2>2. CASE Scripts[i].id = Scripts[h].id
      <3>1. i = h
        BY <1>2, <2>2, IdsDiffer
      <3> QED
        BY <1>4, <1>5, <3>1
    <2> QED
      BY <1>6, <1>7, <2>1, <2>2
  <1> QED
    BY <1>1, <1>6, <1>7 DEF RecordsOK

LEMMA PassKept ==
    ASSUME IInv, Kept, Working \/ run.stage \in Sent, Achieved(StepOf(run), Built', Given'),
           migrations' = migrations, run' \in RunType, run'.plan = run.plan, run'.from = run.from,
           run'.stage = "running", run'.step = run.step + 1
    PROVE  RunKept
  <1>1. /\ run \in RunType /\ run.plan # << >> /\ run.from \in Accounts
        /\ run.step <= Len(ScriptOf(run).steps)
        /\ ScriptFits(run, migrations, Built, Given) /\ ScriptOf(run).id \notin migrations
        /\ network \in ScriptOf(run).networks /\ ScriptOf(run).needs \subseteq Built
    BY AtStep
  <1>2. Built \subseteq Built' /\ Given \subseteq Given'
    BY DEF Kept
  <1>3. ScriptFits(run, migrations, Built', Given') /\ ScriptOf(run).needs \subseteq Built'
    BY <1>1, <1>2, ScriptStays
  <1>4. RunOK(run', migrations, Built', Given')
    BY <1>1, <1>3, RunPasses
  <1>5. InstanceOK'
    BY DEF InstanceOK, Sent
  <1> QED
    BY <1>4, <1>5, RecordsKept DEF RunKept

LEMMA SentKept ==
    ASSUME IInv, Kept, Working \/ run.stage \in Sent, TxFits(run', Built', Given'),
           migrations' = migrations, run' \in RunType, run'.plan = run.plan, run'.from = run.from,
           run'.stage \in Sent, run'.step = run.step, InstanceOK'
    PROVE  RunKept
  <1>1. /\ run \in RunType /\ run.plan # << >> /\ run.from \in Accounts
        /\ ScriptFits(run, migrations, Built, Given) /\ ScriptOf(run).id \notin migrations
        /\ network \in ScriptOf(run).networks /\ ScriptOf(run).needs \subseteq Built
    BY AtStep
  <1>2. Built \subseteq Built' /\ Given \subseteq Given'
    BY DEF Kept
  <1>3. ScriptFits(run, migrations, Built', Given') /\ ScriptOf(run).needs \subseteq Built'
    BY <1>1, <1>2, ScriptStays
  <1>4. RunOK(run', migrations, Built', Given')
    BY <1>1, <1>3, RunAtStep
  <1> QED
    BY <1>4, RecordsKept DEF RunKept

LEMMA QuietKept ==
    ASSUME IInv, QuietStep
    PROVE  Kept /\ RunKept
  <1>1. Kept /\ Built' = Built /\ Given' = Given /\ issued' = issued
    BY ChainQuiet DEF QuietStep, IInv, Quiet
  <1>2. RunOK(run, migrations, Built, Given) /\ run \in RunType
    BY DEF IInv, RunOK
  <1>3. CASE Starts
    <2> PICK tag \in Tags :
           run' = [Idle EXCEPT !.stage = "running", !.from = Deployer(network, Wallets[mnemonic]),
                               !.plan = Plans[tag]]
      BY <1>3 DEF Starts
    <2> PICK plan \in Seq(DOMAIN Scripts) : plan = Plans[tag]
      BY PlansAssumption
    <2>1. run' = [Idle EXCEPT !.stage = "running", !.from = Deployer(network, Wallets[mnemonic]),
                              !.plan = plan]
      OBVIOUS
    <2>2. Deployer(network, Wallets[mnemonic]) \in Accounts
      BY DeployerOK DEF IInv, OperatorOK
    <2>3. run' = [stage |-> "running", from |-> Deployer(network, Wallets[mnemonic]),
                  plan |-> plan, step |-> 1, tx |-> NoTx]
      BY <2>1 DEF Idle
    <2>4. RunOK(run', migrations', Built', Given')
      BY <2>2, <2>3, RunStarts
    <2>5. run'.stage = "running"
      BY <2>3
    <2> QED
      BY <1>1, <1>3, <2>4, <2>5, RecordsKept DEF RunKept, InstanceOK, Starts, Sent
  <1>4. CASE Ends
    <2>1. run'.stage = "idle"
      BY <1>4 DEF Ends, Idle
    <2> QED
      BY <1>1, <1>4, <2>1, RunIdle, RecordsKept DEF RunKept, InstanceOK, Ends, Sent
  <1>5. CASE Skips
    <2>1. run.stage = "running" /\ run.plan # << >> /\ ~ Due
          /\ run' = [run EXCEPT !.plan = Tail(@)] /\ migrations' = migrations
      BY <1>5 DEF Skips
    <2>2. ScriptFits(run, migrations, Built, Given) /\ run.step \in Nat \ {0}
      BY <1>2, <2>1 DEF RunOK, RunType
    <2>3. run.step = 1
      BY <2>1, <2>2 DEF ScriptFits, Due, Current, ScriptOf
    <2>4. run' = [run EXCEPT !.plan = Tail(@), !.step = 1]
      BY <1>2, <2>1, <2>3 DEF RunType
    <2>5. RunOK(run', migrations', Built', Given')
      BY <1>1, <1>2, <2>1, <2>4, RunTurns
    <2>6. run'.stage = "running"
      BY <1>2, <2>1 DEF RunType
    <2> QED
      BY <1>1, <2>1, <2>5, <2>6, RecordsKept DEF RunKept, InstanceOK, Sent
  <1>6. CASE Finishes
    <2>1. run.stage = "running" /\ run.plan # << >> /\ run' = [run EXCEPT !.plan = Tail(@), !.step = 1]
      BY <1>6 DEF Finishes, Running
    <2>2. RunOK(run', migrations', Built', Given')
      BY <1>1, <1>2, <2>1, RunTurns
    <2>3. run'.stage = "running"
      BY <1>2, <2>1 DEF RunType
    <2>4. RecordsOK(migrations', Built', Given')
      BY <1>1, <1>6, FinishKept
    <2> QED
      BY <1>1, <2>2, <2>3, <2>4 DEF RunKept, InstanceOK, Sent
  <1>7. CASE Same
    <2>1. issued \in [Contracts -> Nat]
      BY DEF IInv, ChainOK
    <2> QED
      BY <1>1, <1>7, <2>1, SameKept
  <1>8. CASE Passes /\ PassesQuietly
    <2>1. Working /\ NextStep /\ migrations' = migrations
      BY <1>8 DEF Passes
    <2>2. Achieved(StepOf(run), Built', Given')
      BY <1>1, <1>8 DEF PassesQuietly, Step, StepOf, Current, ScriptOf
    <2> QED
      BY <1>1, <1>2, <2>1, <2>2, NextRun, PassKept
  <1>9. CASE Resume
    <2>1. run.stage = "mined" /\ run.stage \in Sent /\ run.tx.do # "deploy" /\ NextStep
          /\ migrations' = migrations
      BY <1>9 DEF Resume, Sent, diskVars
    <2>2. TxFits(run, Built, Given)
      BY <2>1, AtStep
    <2>3. Achieved(StepOf(run), Built, Given)
      BY <2>1, <2>2 DEF TxFits, Achieved
    <2> QED
      BY <1>1, <1>2, <2>1, <2>3, NextRun, PassKept
  <1> QED
    BY <1>3, <1>4, <1>5, <1>6, <1>7, <1>8, <1>9 DEF QuietStep

LEMMA SendKept ==
    ASSUME IInv, NEW tx \in Txs, Sending(tx), Waits(tx) \/ GoesOn(tx) \/ Same
    PROVE  Kept /\ RunKept
  <1>1. Kept /\ Built' = Built /\ (tx.do = "transfer" => tx.contract \in Given')
    BY ChainSending DEF IInv
  <1>2. run \in RunType /\ issued' \in [Contracts -> Nat]
        /\ \A c \in Contracts : issued[c] <= issued'[c]
    BY DEF IInv, RunOK, Sending
  <1>3. CASE Waits(tx)
    <2>1. /\ Working /\ run.stage = "running"
          /\ run' = [run EXCEPT !.stage = "waiting", !.tx = tx] /\ migrations' = migrations
          /\ tx.do = StepOf(run).do \/ (tx.do = "transfer" /\ StepOf(run).do = "handOver")
          /\ tx.do \in {"deploy", "transfer"} => tx.contract = StepOf(run).contract
          /\ tx.do = "deploy" => tx.contract \notin Built
      BY <1>3 DEF Waits, Step, StepOf, Current, ScriptOf
    <2>2. /\ run' \in RunType /\ run'.plan = run.plan /\ run'.from = run.from
          /\ run'.stage = "waiting" /\ run'.step = run.step /\ run'.tx = tx
      BY <1>2, <2>1, SentRun DEF Sent
    <2>3. StepOf(run') = StepOf(run) /\ ScriptOf(run') = ScriptOf(run)
      BY <2>2 DEF StepOf, ScriptOf
    <2>4. run.plan # << >> /\ run.step <= Len(ScriptOf(run).steps)
      BY <2>1, AtStep
    <2>5. TxFits(run', Built', Given')
      <3> DEFINE step == StepOf(run)
      <3>0. tx.do = step.do \/ (tx.do = "transfer" /\ step.do = "handOver")
        BY <2>1
      <3>1. step.do = "deploy" => tx.do = "deploy"
        BY <3>0
      <3>2. step.do \in {"transfer", "handOver"} => tx.do = "transfer"
        BY <3>0, TxFacts
      <3>6. step.do = "initialize" => tx.do = "initialize"
        BY <3>0
      <3>3. tx.do = "deploy" => step.do = "deploy" /\ tx.contract = step.contract /\ tx.contract \notin Built'
        BY <1>1, <2>1
      <3>4. tx.do = "transfer" => tx.contract = step.contract
        BY <2>1
      <3>5. run'.stage # "mined" /\ run'.tx = tx /\ run'.plan # << >>
            /\ run'.step <= Len(ScriptOf(run').steps) /\ StepOf(run') = step
        BY <2>2, <2>3, <2>4
      <3> HIDE DEF step
      <3> QED
        BY <3>1, <3>2, <3>3, <3>4, <3>5, <3>6 DEF TxFits
    <2>6. InstanceOK'
      BY <2>2 DEF InstanceOK, Sending
    <2> QED
      BY <1>1, <2>1, <2>2, <2>5, <2>6, SentKept DEF Sent
  <1>4. CASE GoesOn(tx)
    <2>1. /\ Working /\ run.stage = "running" /\ run' = [run EXCEPT !.step = @ + 1]
          /\ migrations' = migrations
          /\ StepOf(run).contract \in Given' /\ StepOf(run).do \in {"transfer", "handOver"}
      BY <1>1, <1>4 DEF GoesOn, Step, StepOf, Current, ScriptOf
    <2>2. run.step \in Nat \ {0} /\ run.step + 1 \in Nat \ {0}
      BY <1>2 DEF RunType
    <2>3. run' = [stage |-> run.stage, from |-> run.from, plan |-> run.plan,
                  step |-> run.step + 1, tx |-> run.tx]
      BY <1>2, <2>1 DEF RunType
    <2>4. run' \in RunType
      BY <1>2, <2>2, <2>3 DEF RunType
    <2>5. run'.plan = run.plan /\ run'.from = run.from /\ run'.stage = "running"
          /\ run'.step = run.step + 1
      BY <2>1, <2>3
    <2>6. Achieved(StepOf(run), Built', Given')
      BY <2>1 DEF Achieved
    <2> QED
      BY <1>1, <2>1, <2>4, <2>5, <2>6, PassKept
  <1>5. CASE Same
    BY <1>1, <1>2, <1>5, SameKept
  <1> QED
    BY <1>3, <1>4, <1>5

LEMMA SavedKept ==
    ASSUME IInv, SaveDeployment
    PROVE  Kept /\ RunKept
  <1>1. Kept /\ run.tx.contract \in Built'
    BY ChainSaved
  <1>2. run.stage \in Sent /\ run.tx.do = "deploy" /\ NextStep /\ migrations' = migrations
    BY DEF SaveDeployment, Sent
  <1>3. run \in RunType /\ TxFits(run, Built, Given)
    BY <1>2, AtStep
  <1>4. Achieved(StepOf(run), Built', Given')
    BY <1>1, <1>2, <1>3 DEF TxFits, Achieved
  <1> QED
    BY <1>1, <1>2, <1>3, <1>4, NextRun, PassKept

\* The transaction waited for is mined, or replaced.
LEMMA StageKept ==
    ASSUME IInv, Kept, Built' = Built, run.stage \in Sent, NEW stage \in Sent,
           run' = [run EXCEPT !.stage = stage], UNCHANGED <<migrations, issued>>,
           stage = "mined" /\ run.tx.do = "transfer" => run.tx.contract \in Given'
    PROVE  RunKept
  <1>1. run \in RunType /\ TxFits(run, Built, Given)
    BY AtStep
  <1>2. run.tx \in Txs
    BY <1>1 DEF TxFits
  <1>3. run' = [run EXCEPT !.stage = stage, !.tx = run.tx]
    BY <1>1 DEF RunType
  <1>4. /\ run' \in RunType /\ run'.plan = run.plan /\ run'.from = run.from
        /\ run'.stage = stage /\ run'.step = run.step /\ run'.tx = run.tx
    BY <1>1, <1>2, <1>3, SentRun
  <1>5. StepOf(run') = StepOf(run) /\ ScriptOf(run') = ScriptOf(run)
    BY <1>4 DEF StepOf, ScriptOf
  <1>6. TxFits(run', Built', Given')
    BY <1>1, <1>4, <1>5 DEF TxFits
  <1>7. InstanceOK'
    BY <1>4 DEF InstanceOK, IInv
  <1> QED
    BY <1>4, <1>6, <1>7, SentKept

LEMMA MinedKept ==
    ASSUME IInv, NEW i \in DOMAIN pending, Mine(i)
    PROVE  Kept /\ RunKept
  <1>1. Kept /\ Built' = Built /\ (pending[i].do = "transfer" => pending[i].contract \in Given')
    BY ChainMined DEF IInv
  <1>2. UNCHANGED <<migrations, issued>> /\ issued \in [Contracts -> Nat]
    BY DEF Mine, diskVars, IInv, ChainOK
  <1>3. CASE WaitedFor(i)
    <2>1. run.stage \in Sent /\ pending[i] = run.tx
      BY <1>3 DEF WaitedFor, Sent
    <2>2. \E stage \in {"failed", "mined"} : run' = [run EXCEPT !.stage = stage]
      BY <1>3 DEF Mine
    <2> QED
      BY <1>1, <1>2, <2>1, <2>2, StageKept DEF Sent
  <1>4. CASE ~ WaitedFor(i)
    <2>1. run' = run
      BY <1>4 DEF Mine
    <2> QED
      BY <1>1, <1>2, <2>1, SameKept DEF Same
  <1> QED
    BY <1>3, <1>4

LEMMA ReplacedKept ==
    ASSUME IInv, SendTask
    PROVE  Kept /\ RunKept
  <1>1. Kept /\ Built' = Built
    BY ChainSendTask DEF IInv
  <1>2. UNCHANGED <<migrations, issued>> /\ issued \in [Contracts -> Nat]
    BY DEF SendTask, diskVars, IInv, ChainOK
  <1>3. PICK i \in DOMAIN pending :
           run' = IF WaitedFor(i) THEN [run EXCEPT !.stage = "failed"] ELSE run
    BY DEF SendTask
  <1>4. CASE WaitedFor(i)
    <2>1. run.stage \in Sent /\ run' = [run EXCEPT !.stage = "failed"]
      BY <1>3, <1>4 DEF WaitedFor, Sent
    <2> QED
      BY <1>1, <1>2, <2>1, StageKept DEF Sent
  <1>5. CASE ~ WaitedFor(i)
    BY <1>1, <1>2, <1>3, <1>5, SameKept DEF Same
  <1> QED
    BY <1>4, <1>5

LEMMA SherlockKept ==
    ASSUME IInv, ExecuteSherlock
    PROVE  Kept /\ RunKept
  <1>1. Kept /\ Built' = Built
    BY ChainSherlock DEF IInv
  <1>2. UNCHANGED <<run, migrations, issued>> /\ issued \in [Contracts -> Nat]
    BY DEF ExecuteSherlock, diskVars, IInv, ChainOK
  <1> QED
    BY <1>1, <1>2, SameKept DEF Same

-----------------------------------------------------------------------------
(* Proposals *)

\* A run that has proposed an upgrade does nothing but record it.
LEMMA ProposedWaits ==
    ASSUME IInv, [Next]_vars, NEW u \in Upgrades, Proposed(u)
    PROVE  \/ run' = run \/ FinishScript \/ Crash
  <1> DEFINE h == Head(run.plan)
  <1>1. run \in RunType /\ run.stage = "running" /\ run.plan # << >> /\ run.step > 1
        /\ Scripts[h].id = u /\ ScriptFits(run, migrations, Built, Given)
    BY DEF IInv, RunOK, Proposed, Current
  <1>2. h \in DOMAIN Scripts /\ run.step \in Nat
    BY <1>1, CurrentScript DEF RunType
  <1>3. Scripts[h].steps = << Proposes >>
    BY <1>1, <1>2, UpgradeScripts
  <1>4. Len(Current.steps) = 1
    BY <1>3 DEF Current
  <1>5. Due /\ run.step > Len(Current.steps)
    BY <1>1, <1>2, <1>4 DEF ScriptFits, ScriptOf, Due, Current
  <1>6. ASSUME NEW kind, At(kind) PROVE FALSE
    BY <1>2, <1>4, <1>5, <1>6 DEF At
  <1>7. ASSUME RunNext PROVE FinishScript
    <2>1. ~ SubmitDeploy /\ ~ AlreadyDeployed /\ ~ Initialize /\ ~ Transfer /\ ~ HandOver /\ ~ Propose
      BY <1>6 DEF SubmitDeploy, AlreadyDeployed, Initialize, Transfer, HandOver, Propose
    <2>2. ~ Skip /\ ~ EndRun
      BY <1>1, <1>5 DEF Skip, EndRun
    <2>3. ~ MissingContract
      BY <1>1 DEF MissingContract
    <2>4. ~ SaveDeployment /\ ~ Resume /\ ~ WaitThrows
      BY <1>1 DEF SaveDeployment, Resume, WaitThrows
    <2> QED
      BY <1>7, <2>1, <2>2, <2>3, <2>4 DEF RunNext
  <1>8. ASSUME NEW tag \in Tags PROVE ~ StartRun(tag)
    BY <1>1 DEF StartRun, Idle
  <1>9. ASSUME NEW i \in DOMAIN pending, Mine(i) PROVE run' = run
    BY <1>1, <1>9 DEF Mine, WaitedFor
  <1>10. CASE SendTask
    BY <1>1, <1>10 DEF SendTask, WaitedFor
  <1>11. CASE ExecuteSherlock \/ FundedWallet \/ MineContractAddress \/ UNCHANGED vars
    BY <1>11 DEF ExecuteSherlock, FundedWallet, MineContractAddress, vars
  <1> QED
    BY <1>7, <1>8, <1>9, <1>10, <1>11 DEF Next, MineNext

LEMMA ProposeKept ==
    ASSUME IInv, Propose
    PROVE  ProposalsOK'
  <1> DEFINE h == Head(run.plan)
  <1>1. run \in RunType /\ Working /\ run.stage = "running" /\ Step.do = "propose"
        /\ h \in DOMAIN Scripts /\ run.step \in DOMAIN Scripts[h].steps
    BY AtWork DEF Propose, IInv, RunOK, Current
  <1>2. Scripts[h].steps = << Proposes >>
    BY <1>1, ScriptsOK DEF ScriptOK, Step, Current
  <1>3. Current.id \in Upgrades /\ run.step = 1 /\ Current.id \notin migrations
    BY <1>1, <1>2, UpgradeScripts DEF Current, Working, Due
  <1> PICK u \in Upgrades : u = Current.id
    BY <1>3
  <1>4. proposals' = [proposals EXCEPT ![u] = @ + 1] /\ UNCHANGED <<migrations, crashes>> /\ NextStep
    BY DEF Propose, diskVars, faultVars
  <1>5. run'.stage = "running" /\ run'.plan = run.plan /\ run'.step = 2
    BY <1>1, <1>3, <1>4, NextRun
  <1>6. Proposed(u)'
    <2>1. Current' = Current /\ run'.plan # << >>
      BY <1>1, <1>5 DEF Current, Working
    <2> QED
      BY <1>5, <2>1 DEF Proposed
  <1>7. \A v : ~ Proposed(v)
    BY <1>3 DEF Proposed
  <1>8. /\ proposals \in [Upgrades -> Nat] /\ crashes \in Nat
        /\ \A v \in Upgrades : proposals[v] <= crashes + (IF v \in migrations THEN 1 ELSE 0)
    BY <1>7 DEF IInv, ProposalsOK
  <1>9. /\ proposals' \in [Upgrades -> Nat] /\ proposals'[u] <= crashes + 1
        /\ \A v \in Upgrades : v # u => proposals'[v] <= crashes + (IF v \in migrations THEN 1 ELSE 0)
    BY <1>3, <1>4, <1>8
  <1>10. ASSUME NEW v \in Upgrades
         PROVE  proposals'[v] <= crashes' + (IF v \in migrations' \/ Proposed(v)' THEN 1 ELSE 0)
    <2>1. CASE v = u
      BY <1>4, <1>6, <1>8, <1>9, <2>1
    <2>2. CASE v # u
      <3>1. proposals'[v] <= crashes + (IF v \in migrations THEN 1 ELSE 0) /\ proposals'[v] \in Nat
        BY <1>9, <2>2
      <3> QED
        BY <1>4, <1>8, <3>1
    <2> QED
      BY <2>1, <2>2
  <1> QED
    BY <1>4, <1>8, <1>9, <1>10 DEF ProposalsOK

LEMMA CountsStay ==
    ASSUME [Next]_vars, ~ Propose
    PROVE  /\ proposals' = proposals
           /\ ~ Crash => crashes' = crashes
           /\ ~ FinishScript => migrations' = migrations
  <1> USE DEF diskVars, chainVars, faultVars
  <1> DEFINE Stay == proposals' = proposals /\ crashes' = crashes /\ migrations' = migrations
  <1>1. ASSUME NEW why, Abort(why) PROVE Stay
    BY <1>1 DEF Abort
  <1>2. ASSUME NEW step, Send(step) PROVE Stay
    BY <1>1, <1>2 DEF Send
  <1>3. CASE RunNext /\ ~ FinishScript
    BY <1>1, <1>2, <1>3
       DEF RunNext, Skip, EndRun, MissingContract, SubmitDeploy, AlreadyDeployed, SaveDeployment,
           Initialize, Transfer, HandOver, Resume, WaitThrows
  <1>4. CASE FinishScript
    BY <1>4 DEF FinishScript
  <1>5. CASE Crash
    BY <1>5 DEF Crash
  <1>6. ASSUME NEW i \in DOMAIN pending, Mine(i) PROVE Stay
    BY <1>6 DEF Mine
  <1>7. ASSUME NEW tag \in Tags, StartRun(tag) PROVE Stay
    BY <1>7 DEF StartRun
  <1>8. CASE ExecuteSherlock \/ SendTask \/ FundedWallet \/ MineContractAddress \/ UNCHANGED vars
    BY <1>8 DEF ExecuteSherlock, SendTask, FundedWallet, MineContractAddress, vars
  <1> QED
    BY <1>3, <1>4, <1>5, <1>6, <1>7, <1>8 DEF Next, MineNext

LEMMA ProposalsKept ==
    ASSUME IInv, [Next]_vars
    PROVE  ProposalsOK'
  <1>1. /\ proposals \in [Upgrades -> Nat] /\ crashes \in Nat
        /\ \A u \in Upgrades :
              proposals[u] <= crashes + (IF u \in migrations \/ Proposed(u) THEN 1 ELSE 0)
    BY DEF IInv, ProposalsOK
  <1> USE DEF diskVars, chainVars, faultVars
  <1>2. CASE Propose
    BY <1>2, ProposeKept
  <1>3. CASE Crash
    <2>1. proposals' = proposals /\ crashes' = crashes + 1 /\ migrations' = migrations
      BY <1>3 DEF Crash
    <2>2. \A u \in Upgrades : proposals[u] <= crashes + 1
      BY <1>1
    <2>3. crashes' \in Nat /\ \A u \in Upgrades : proposals'[u] <= crashes'
      BY <1>1, <2>1, <2>2
    <2>4. ASSUME NEW u \in Upgrades
          PROVE  proposals'[u] <= crashes' + (IF u \in migrations' \/ Proposed(u)' THEN 1 ELSE 0)
      <3>1. proposals'[u] \in Nat /\ proposals'[u] <= crashes'
        BY <1>1, <2>1, <2>3
      <3> QED
        BY <2>3, <3>1
    <2> QED
      BY <1>1, <2>1, <2>3, <2>4 DEF ProposalsOK
  <1>4. CASE FinishScript
    <2>1. proposals' = proposals /\ crashes' = crashes /\ migrations \subseteq migrations'
      BY <1>4 DEF FinishScript
    <2>2. ASSUME NEW u \in Upgrades, Proposed(u) PROVE u \in migrations'
      <3>1. run \in RunType /\ run.plan # << >> /\ Scripts[Head(run.plan)].id = u
        BY <2>2 DEF IInv, RunOK, Proposed, Current
      <3>2. Head(run.plan) \in DOMAIN Scripts
        BY <3>1, CurrentScript
      <3>3. Scripts[Head(run.plan)].records
        BY <3>1, <3>2, UpgradeScripts, ScriptsOK DEF ScriptOK
      <3> QED
        BY <1>4, <3>1, <3>3 DEF FinishScript, Current
    <2>3. ASSUME NEW u \in Upgrades
          PROVE  proposals'[u] <= crashes' + (IF u \in migrations' \/ Proposed(u)' THEN 1 ELSE 0)
      <3>1. proposals[u] \in Nat
            /\ proposals[u] <= crashes + (IF u \in migrations \/ Proposed(u) THEN 1 ELSE 0)
        BY <1>1
      <3>2. u \in migrations \/ Proposed(u) => u \in migrations'
        BY <2>1, <2>2
      <3> QED
        BY <1>1, <2>1, <3>1, <3>2
    <2> QED
      BY <1>1, <2>1, <2>3 DEF ProposalsOK
  <1>5. CASE ~ Propose /\ ~ Crash /\ ~ FinishScript
    <2>1. proposals' = proposals /\ crashes' = crashes /\ migrations' = migrations
      BY <1>5, CountsStay
    <2>2. ASSUME NEW u \in Upgrades, Proposed(u) PROVE Proposed(u)'
      <3>1. run' = run
        BY <1>5, <2>2, ProposedWaits
      <3> QED
        BY <2>2, <3>1 DEF Proposed, Current
    <2>3. ASSUME NEW u \in Upgrades
          PROVE  proposals'[u] <= crashes' + (IF u \in migrations' \/ Proposed(u)' THEN 1 ELSE 0)
      <3>1. proposals[u] \in Nat
            /\ proposals[u] <= crashes + (IF u \in migrations \/ Proposed(u) THEN 1 ELSE 0)
        BY <1>1
      <3>2. u \in migrations \/ Proposed(u) => u \in migrations' \/ Proposed(u)'
        BY <2>1, <2>2
      <3> QED
        BY <1>1, <2>1, <3>1, <3>2
    <2> QED
      BY <1>1, <2>1, <2>3 DEF ProposalsOK
  <1> QED
    BY <1>2, <1>3, <1>4, <1>5

-----------------------------------------------------------------------------
(* The theorems *)

LEMMA AbortedOK ==
    ASSUME IInv, [Next]_vars
    PROVE  aborted'.script \in Ids \cup {""}
  <1>1. aborted.script \in Ids \cup {""} /\ run \in RunType
    BY DEF IInv, OperatorOK, RunOK
  <1>2. ASSUME NEW why, Abort(why), run.plan # << >>
        PROVE  aborted'.script \in Ids \cup {""}
    <2>1. Current.id \in Ids
      BY <1>1, <1>2, CurrentScript, UpgradeScripts DEF Current
    <2> QED
      BY <1>2, <2>1 DEF Abort
  <1> USE DEF diskVars, chainVars, faultVars
  <1>3. ASSUME NEW step, Send(step), run.plan # << >>
        PROVE  aborted'.script \in Ids \cup {""}
    BY <1>1, <1>2, <1>3 DEF Send
  <1>4. ASSUME NEW kind, At(kind) PROVE run.plan # << >>
    BY <1>4 DEF At, Running
  <1>5. CASE Skip \/ EndRun \/ FinishScript \/ SubmitDeploy \/ AlreadyDeployed \/ SaveDeployment
             \/ Propose \/ Resume
    BY <1>1, <1>5
       DEF Skip, EndRun, FinishScript, SubmitDeploy, AlreadyDeployed, SaveDeployment, Propose, Resume
  <1>6. CASE MissingContract
    BY <1>2, <1>6 DEF MissingContract, Running
  <1>7. CASE WaitThrows
    <2>1. run.plan # << >>
      BY <1>7, AtStep DEF WaitThrows, Sent
    <2> QED
      BY <1>2, <1>7, <2>1 DEF WaitThrows
  <1>8. CASE Initialize
    BY <1>1, <1>2, <1>4, <1>8 DEF Initialize
  <1>9. CASE Transfer
    BY <1>3, <1>4, <1>9 DEF Transfer
  <1>10. CASE HandOver
    BY <1>1, <1>2, <1>3, <1>4, <1>10 DEF HandOver
  <1>11. ASSUME NEW tag \in Tags, StartRun(tag) PROVE aborted'.script \in Ids \cup {""}
    BY <1>11 DEF StartRun, NoAbort
  <1>12. ASSUME NEW i \in DOMAIN pending, Mine(i) PROVE aborted' = aborted
    BY <1>12 DEF Mine
  <1>13. CASE ExecuteSherlock \/ Crash \/ SendTask \/ FundedWallet \/ MineContractAddress
              \/ UNCHANGED vars
    BY <1>1, <1>13 DEF ExecuteSherlock, Crash, SendTask, FundedWallet, MineContractAddress, vars
  <1> QED
    BY <1>1, <1>5, <1>6, <1>7, <1>8, <1>9, <1>10, <1>11, <1>12, <1>13 DEF Next, RunNext, MineNext

LEMMA StepInv == IInv /\ [Next]_vars => IInv'
  <1> SUFFICES ASSUME IInv, [Next]_vars PROVE IInv'
    OBVIOUS
  <1>1. Kept /\ RunKept
    <2>1. ASSUME NEW i \in DOMAIN pending, Mine(i) PROVE Kept /\ RunKept
      BY <2>1, MinedKept
    <2>2. CASE SendStep
      BY <2>2, SendKept DEF SendStep
    <2> QED
      BY <2>1, <2>2, StepForm, QuietKept, SavedKept, ReplacedKept, SherlockKept
  <1>2. network' = network /\ mnemonic' \in DOMAIN Wallets
    BY NetworkStays DEF IInv
  <1>3. OperatorOK'
    BY <1>2, AbortedOK DEF OperatorOK, IInv
  <1>4. RecordsOK(migrations, Built, Given)'
    BY <1>1 DEF RunKept, RecordsOK, Achieved
  <1>5. RunOK(run, migrations, Built, Given)'
    BY <1>1, <1>2 DEF RunKept, RunOK, ScriptFits, TxFits, Achieved, ScriptOf, StepOf
  <1> QED
    BY <1>1, <1>3, <1>4, <1>5, ProposalsKept DEF IInv, Kept, RunKept

THEOREM Invariance == Spec => []IInv
  <1> QED
    BY InitInv, StepInv, PTL DEF Spec

\* deploy/: every variable keeps to its type, whatever networks, tags and
\* wallets there are, and however runs end.
THEOREM TypeCorrect == Spec => []TypeOK
  BY Invariance, InvType, PTL

\* deploy/upgrades: whatever the operator runs, an upgrade is proposed once, and
\* once more for each run that died.
THEOREM ProposalsCounted == Spec => []ProposedOncePerCrash
  <1>1. IInv => ProposedOncePerCrash
    <2> SUFFICES ASSUME IInv, NEW u \in Upgrades PROVE proposals[u] <= 1 + crashes
      BY DEF ProposedOncePerCrash
    <2>1. proposals[u] \in Nat /\ crashes \in Nat
          /\ proposals[u] <= crashes + (IF u \in migrations \/ Proposed(u) THEN 1 ELSE 0)
      BY DEF IInv, ProposalsOK
    <2> QED
      BY <2>1
  <1> QED
    BY <1>1, Invariance, PTL

\* deploy/: once every script is recorded and nothing is pending, every contract
\* of the network is deployed and everything owned is its final owner's, but for
\* transfers the send task replaced.
THEOREM NothingLeftBehind == Spec => []CompleteMeansHandedOver
  <1>1. IInv => CompleteMeansHandedOver
    <2> SUFFICES ASSUME IInv, Complete, pending = << >>
                 PROVE  /\ \A o \in Owned \ replaced : owner[o] = FinalOwner[o]
                        /\ \A c \in Contracts \ {"FlashRolloverLoan"} : deployment[c] # 0
      BY DEF CompleteMeansHandedOver
    <2>1. ASSUME NEW i \in 1 .. 16, i # 7
          PROVE  /\ i \in DOMAIN Scripts /\ Scripts[i].needs \subseteq Built
                 /\ \A k \in DOMAIN Scripts[i].steps : Achieved(Scripts[i].steps[k], Built, Given)
      <3>1. i \in DOMAIN Scripts /\ Scripts[i].records /\ Scripts[i].networks = Networks
        BY <2>1, ScriptList, RecordedScripts DEF RunsOn
      <3>2. network \in Networks
        BY DeploymentAssumption DEF IInv, OperatorOK
      <3>3. Scripts[i].id \in migrations
        BY <3>1, <3>2 DEF Complete, Recorded
      <3> QED
        BY <3>1, <3>3 DEF IInv, RecordsOK
    <2>2. ASSUME NEW o \in Given \ replaced PROVE owner[o] = FinalOwner[o]
      BY <2>2 DEF Given, OnItsWay
    <2>3. {"CollateralEscrowBeacon", "ProxyAdmin", "LenderManager", "LendNestV2"} \subseteq Given
      <3>1. Scripts[1].steps[2] = Transfers("CollateralEscrowBeacon", "protocolTimelock", FALSE)
            /\ 2 \in DOMAIN Scripts[1].steps
        BY ScriptTable DEF Says
      <3>2. Scripts[3].steps[1] = HandsOver("ProxyAdmin", "protocolTimelock", FALSE)
            /\ 1 \in DOMAIN Scripts[3].steps
        BY ScriptTable DEF Says
      <3>3. Scripts[9].steps[1] = Transfers("LenderManager", "LendNestV2", TRUE)
            /\ 1 \in DOMAIN Scripts[9].steps
        BY ScriptTable DEF Says
      <3>4. Scripts[16].steps[1] = HandsOver("LendNestV2", "protocolOwnerSafe", TRUE)
            /\ 1 \in DOMAIN Scripts[16].steps
        BY ScriptTable DEF Says
      <3>5. ASSUME NEW i \in {1, 3, 9, 16}, NEW k \in DOMAIN Scripts[i].steps,
                   Scripts[i].steps[k].do \in {"transfer", "handOver"}
            PROVE  Scripts[i].steps[k].contract \in Given
        BY <2>1, <3>5 DEF Achieved
      <3> QED
        BY <3>1, <3>2, <3>3, <3>4, <3>5 DEF Transfers, HandsOver
    <2>4. ASSUME NEW c \in Contracts \ {"FlashRolloverLoan"} PROVE deployment[c] # 0
      <3> PICK i \in DOMAIN Scripts : \E k \in DOMAIN Scripts[i].steps :
               Scripts[i].steps[k].do = "deploy" /\ Scripts[i].steps[k].contract = c
        BY Deployers
      <3>1. PICK k \in DOMAIN Scripts[i].steps :
               Scripts[i].steps[k].do = "deploy" /\ Scripts[i].steps[k].contract = c
        OBVIOUS
      <3>2. CASE i \in 1 .. 16 /\ i # 7
        BY <2>1, <3>1, <3>2 DEF Achieved, Built
      <3>3. CASE i = 17
        <4>1. c = "V2Calculations"
          BY <3>1, <3>3, ScriptTable DEF Says, Deploys
        <4>2. "V2Calculations" \in Scripts[14].needs
          BY ScriptTable DEF Says
        <4> QED
          BY <2>1, <4>1, <4>2 DEF Built
      <3>4. i # 7
        <4>1. Scripts[7].steps = << Deploys("FlashRolloverLoan",
                                            {"LendNestV2", "LenderCommitmentForwarderStaging"}) >>
          BY ScriptTable DEF Says
        <4> QED
          BY <3>1, <4>1 DEF Deploys
      <3>5. i \notin 18 .. 22
        <4>1. \A n \in 18 .. 22 : Scripts[n].steps = << Proposes >>
          BY ScriptTable DEF Says
        <4> QED
          BY <3>1, <4>1 DEF Proposes
      <3> QED
        BY <3>2, <3>3, <3>4, <3>5, ScriptList
    <2> QED
      BY <2>2, <2>3, <2>4, OwnedOnes
  <1> QED
    BY <1>1, Invariance, PTL
=============================================================================
