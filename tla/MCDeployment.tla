---------------------------- MODULE MCDeployment ----------------------------
(***************************************************************************)
(* Deployments to one network of each kind: with every script, without the *)
(* upgrades, local, and one hardhat.config.ts names no owners for.         *)
(***************************************************************************)
EXTENDS DeploymentProperties

MCWallets == << "firstWallet", "secondWallet" >>
=============================================================================
