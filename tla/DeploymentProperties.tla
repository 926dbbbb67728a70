------------------------ MODULE DeploymentProperties ------------------------
(***************************************************************************)
(* What holds of a deployment, however its runs end.                       *)
(***************************************************************************)
EXTENDS Deployment

FinalOwner ==
    [o \in Owned |-> CASE o = "LendNestV2" -> "protocolOwnerSafe"
                       [] o = "LenderManager" -> "LendNestV2"
                       [] OTHER -> "protocolTimelock"]
Accounts == ToSet(Wallets) \cup {GoerliDeployer}

\* Every variable keeps to its type: instances are instances sent, a run is a
\* list of scripts, owners are the deploying accounts and the final owners.
TypeOK ==
    /\ network \in Targets /\ mnemonic \in DOMAIN Wallets
    /\ run.stage \in {"idle", "running", "waiting", "mined", "failed"}
    /\ ToSet(run.plan) \subseteq DOMAIN Scripts /\ run.from \in Accounts \cup {Nobody}
    /\ migrations \subseteq Ids
    /\ \A c \in Contracts : deployment[c] \in 0 .. issued[c]
    /\ \A c \in Contracts : DOMAIN references[c] \subseteq Contracts
    /\ \A o \in Owned : owner[o] = FinalOwner[o] \/ owner[o] \in Accounts \cup {Nobody}
    /\ version \in {0, 1, 9}
    /\ \A i \in DOMAIN pending : pending[i].from \in Accounts
    /\ proposals \in [Upgrades -> Nat]
    /\ aborted.script \in Ids \cup {""}

-----------------------------------------------------------------------------
(* Safety *)

\* deploy/: a deployment that crashed, was run again, in whole or by tag, with
\* another mnemonic, beside other tasks, still builds, opens and hands over
\* the protocol as ProtocolHandOver says.
HO == INSTANCE ProtocolHandOver WITH
        Components <- Initialized, Keys <- Accounts, built <- deployment, wiring <- references
ImplementsHandOver == HO!Spec

\* The scripts that are run on this network, and are remembered.
Recorded == {Scripts[i].id : i \in {j \in DOMAIN Scripts :
                                       Scripts[j].records /\ network \in Scripts[j].networks}}
Complete == Recorded \subseteq migrations

\* Once every script is recorded, and the mempool is empty, nothing is left to
\* the deploying account, but for transfers the send task replaced.
CompleteMeansHandedOver ==
    Complete /\ pending = << >> =>
        /\ \A o \in Owned \ replaced : owner[o] = FinalOwner[o]
        /\ \A c \in Contracts \ {"FlashRolloverLoan"} : deployment[c] # 0

\* deploy/upgrades: a batch is proposed to the timelock again only because a
\* run died after proposing it.
ProposedOncePerCrash == \A u \in Upgrades : proposals[u] <= 1 + crashes

\* Only these scripts send a transaction without asking whether it was sent
\* before; the others can be run again after any crash.
OneShot == {"LendNest-v2:init", "collateral:escrow-beacon:deploy", "lender-manager:transfer-ownership"}

\* A run ends before its time only if it was asked for a tag whose dependencies
\* leave a contract out; or the network has no owner accounts; or the mnemonic
\* is not the one that deployed; or a one-shot script had sent its transaction
\* before; or what it waits for was overtaken by an earlier run's or replaced.
AbortsExplained ==
    CASE aborted.why = "missing" ->
            aborted.script \in {"liquidity-rewards:deploy",
                                "lender-commitment-forwarder:extensions:flash-rollover:deploy"}
      [] aborted.why = "unnamed account" -> network \in {"mumbai", "mantle-testnet"}
      [] aborted.why = "not the owner" -> mnemonic > 1 /\ network \notin LocalNetworks
      [] aborted.why = "reverted" ->
            aborted.script \in OneShot /\ (crashes > 0 \/ sends > 0 \/ mnemonic > 1)
      [] aborted.why = "wait failed" -> crashes > 0 \/ sends > 0
      [] OTHER -> aborted = NoAbort

-----------------------------------------------------------------------------
(* Liveness *)

\* A script's transaction took effect and the script was not recorded: no later
\* run gets past it.
SentNotRecorded ==
    \/ version # 0 /\ "LendNest-v2:init" \notin migrations
    \/ /\ owner["CollateralEscrowBeacon"] = FinalOwner["CollateralEscrowBeacon"]
       /\ "collateral:escrow-beacon:deploy" \notin migrations
    \/ /\ owner["LenderManager"] = FinalOwner["LenderManager"]
       /\ "lender-manager:transfer-ownership" \notin migrations
\* The deploying account's mnemonic was overwritten while it owned something.
KeyLost == \E o \in Owned : owner[o] \in Accounts /\ owner[o] # Deployer(network, Wallets[mnemonic])

\* deploy/: an operator who runs all scripts until they are done gets there,
\* unless the network has no owner accounts, a run died between sending and
\* recording one of the one-shot scripts, or the deploying account is lost.
DeploymentCompletes ==
    <>[](Complete \/ ~ OwnersNamed(network) \/ SentNotRecorded \/ KeyLost)

-----------------------------------------------------------------------------
(* What the repository says, and the program does not do *)

\* deploy/*: the dependencies a script lists are enough to run it by its tag.
DependenciesSuffice == aborted.why # "missing"
=============================================================================
