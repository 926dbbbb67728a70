----------------------------- MODULE Deployment -----------------------------
(***************************************************************************)
(* The deployment of the protocol: an operator runs `yarn deploy`, with or *)
(* without a tag, hardhat-deploy runs the scripts of DeployScripts one     *)
(* step at a time, each step sending transactions from the account of the  *)
(* mnemonic, and remembers on disk the contracts deployed and the scripts  *)
(* that returned true. A run may die at any moment, what it sent staying   *)
(* in the mempool; the hardhat tasks mineContractAddress, fundedwallet and *)
(* send change the mnemonic and use the account's nonces meanwhile.        *)
(*                                                                         *)
(* hardhat-deploy, the helpers deployProxy and proposeBatchTimelock, the   *)
(* timelock and the mempool are external: deployProxy gives back the       *)
(* deployment recorded under the name when there is one.                   *)
(***************************************************************************)
EXTENDS DeployScripts

CONSTANTS
    Targets,        \* the networks deployed to
    Tags,           \* what the operator may ask for: tags, or AllScripts
    MaxFaults,      \* bound on runs that die, transactions of tasks and mnemonics mined
    Wallets         \* the first account of each mnemonic, in the order they are mined

ASSUME DeploymentAssumption ==
    /\ Targets \subseteq Networks
    /\ MaxFaults \in Nat
    /\ Wallets \in Seq(STRING) /\ Len(Wallets) > 0
    /\ ToSet(Wallets) \cap {GoerliDeployer, "nobody", "protocolOwnerSafe", "protocolTimelock",
                           "LendNestV2"} = {}

VARIABLES
    network,       \* the network deployed to
    mnemonic,      \* mnemonic.secret: which of the mnemonics it holds
    run,           \* the run of hardhat-deploy in progress, or Idle
    migrations,    \* .migrations.json: ids of the scripts that returned true
    deployment,    \* deployments/: the instance recorded of each contract, 0 for none
    issued,        \* how many instances of each contract were sent
    references,    \* what each contract recorded was given: contract to instance
    owner,         \* owner() of the contracts that are handed over
    version,       \* _initialized of LendNestV2
    pending,       \* the mempool, in the order sent
    proposals,     \* how often each upgrade was proposed to the timelock
    aborted,       \* which script ended the last run, and why
    crashes, sends, funded,
    replaced       \* the transfers the send task replaced

diskVars == <<migrations, deployment>>
chainVars == <<owner, version>>
faultVars == <<crashes, sends, funded, replaced>>
vars == <<network, mnemonic, run, diskVars, issued, references, chainVars, pending, proposals,
          aborted, faultVars>>

Nobody == "nobody"
Owned == {"LendNestV2", "CollateralEscrowBeacon", "LenderManager", "ProxyAdmin"}
Proxies ==
    Contracts \ {"V2Calculations", "LendNestASRegistry", "LendNestASEIP712Verifier", "LendNestAS",
                 "CollateralEscrowBeacon"}
NoAbort == [script |-> "", why |-> ""]
NoTx == [do |-> "none"]
Idle == [stage |-> "idle", from |-> Nobody, plan |-> << >>, step |-> 1, tx |-> NoTx]

Plans == [t \in Tags |-> Plan(t)]

\* A run consists of scripts, each after those it depends on, but for those that
\* are run at the end.
ASSUME PlansAssumption ==
    /\ Plans \in [Tags -> Seq(DOMAIN Scripts)]
    /\ \A t \in Tags : \A n \in DOMAIN Plans[t] :
          \A k \in DOMAIN Scripts[Plans[t][n]].dependencies :
             \A d \in Selected(Scripts[Plans[t][n]].dependencies[k]) :
                Scripts[d].runAtTheEnd \/ \E m \in 1 .. n - 1 : Plans[t][m] = d

Init ==
    /\ network \in Targets
    /\ mnemonic = 1
    /\ run = Idle
    /\ migrations = {}
    /\ deployment = [c \in Contracts |-> 0]
    /\ issued = [c \in Contracts |-> 0]
    /\ references = [c \in Contracts |-> << >>]
    /\ owner = [c \in Owned |-> Nobody]
    /\ version = 0
    /\ pending = << >>
    /\ proposals = [u \in Upgrades |-> 0]
    /\ aborted = NoAbort
    /\ crashes = 0 /\ sends = 0 /\ funded = 0 /\ replaced = {}

-----------------------------------------------------------------------------
(* The runner *)

Current == Scripts[Head(run.plan)]
Step == Current.steps[run.step]

StartRun(tag) ==
    /\ run = Idle
    /\ run' = [Idle EXCEPT !.stage = "running", !.from = Deployer(network, Wallets[mnemonic]),
                           !.plan = Plans[tag]]
    /\ aborted' = NoAbort
    /\ UNCHANGED <<network, mnemonic, diskVars, issued, references, chainVars, pending, proposals,
                   faultVars>>

\* A script recorded as run is not run again; a skipped one is not recorded.
Due == Current.id \notin migrations /\ network \in Current.networks

Skip ==
    /\ run.stage = "running" /\ run.plan # << >> /\ ~ Due
    /\ run' = [run EXCEPT !.plan = Tail(@)]
    /\ UNCHANGED <<network, mnemonic, diskVars, issued, references, chainVars, pending, proposals,
                   aborted, faultVars>>

EndRun ==
    /\ run.stage = "running" /\ run.plan = << >>
    /\ run' = Idle
    /\ UNCHANGED <<network, mnemonic, diskVars, issued, references, chainVars, pending, proposals,
                   aborted, faultVars>>

\* A script that throws ends the run.
Abort(why) ==
    /\ run' = Idle
    /\ aborted' = [script |-> Current.id, why |-> why]
    /\ UNCHANGED <<network, mnemonic, diskVars, issued, references, chainVars, pending, proposals,
                   faultVars>>

Running == run.stage = "running" /\ run.plan # << >> /\ Due

\* hre.contracts.get of a contract no script has deployed.
MissingContract ==
    /\ Running /\ run.step = 1
    /\ \E c \in Current.needs : deployment[c] = 0
    /\ Abort("missing")

At(kind) ==
    /\ Running
    /\ run.step <= Len(Current.steps) /\ Step.do = kind
    /\ \A c \in Current.needs : deployment[c] # 0

NextStep == run' = [run EXCEPT !.stage = "running", !.step = @ + 1, !.tx = NoTx]

FinishScript ==
    /\ Running /\ run.step > Len(Current.steps)
    /\ run' = [run EXCEPT !.plan = Tail(@), !.step = 1]
    /\ migrations' = IF Current.records THEN migrations \cup {Current.id} ELSE migrations
    /\ UNCHANGED <<network, mnemonic, deployment, issued, references, chainVars, pending,
                   proposals, aborted, faultVars>>

-----------------------------------------------------------------------------
(* Transactions *)

\* Sending estimates the gas first, and so throws on a call that would revert.
WouldRevert(tx) ==
    CASE tx.do = "initialize" -> version # 0
      [] tx.do = "transfer" -> owner[tx.contract] # tx.from
      [] OTHER -> FALSE

\* tx goes to the mempool; the script waits for it or goes on.
Submit(tx, waits) ==
    /\ pending' = Append(pending, tx)
    /\ run' = IF waits THEN [run EXCEPT !.stage = "waiting", !.tx = tx]
              ELSE [run EXCEPT !.step = @ + 1]

TransferTx(step) ==
    [do |-> "transfer", from |-> run.from, contract |-> step.contract, to |-> step.to]

Instances(args) == [a \in args |-> deployment[a]]

\* deployProxy, deployBeacon and deploy, when there is something to deploy.
SubmitDeploy ==
    /\ At("deploy") /\ deployment[Step.contract] = 0
    /\ issued' = [issued EXCEPT ![Step.contract] = @ + 1]
    /\ Submit([do |-> "deploy", from |-> run.from, contract |-> Step.contract,
               instance |-> issued[Step.contract] + 1, args |-> Instances(Step.args)], TRUE)
    /\ UNCHANGED <<network, mnemonic, diskVars, references, chainVars, proposals, aborted,
                   faultVars>>

AlreadyDeployed ==
    /\ At("deploy") /\ deployment[Step.contract] # 0
    /\ NextStep
    /\ UNCHANGED <<network, mnemonic, diskVars, issued, references, chainVars, pending, proposals,
                   aborted, faultVars>>

\* The deployment is mined: it is written to deployments/.
SaveDeployment ==
    /\ run.stage = "mined" /\ run.tx.do = "deploy"
    /\ deployment' = [deployment EXCEPT ![run.tx.contract] = run.tx.instance]
    /\ references' = [references EXCEPT ![run.tx.contract] = run.tx.args]
    /\ owner' = IF run.tx.contract \in Owned \ {"LendNestV2"}
                THEN [owner EXCEPT ![run.tx.contract] = run.tx.from] ELSE owner
    /\ NextStep
    /\ UNCHANGED <<network, mnemonic, migrations, issued, version, pending, proposals, aborted,
                   faultVars>>

Initialize ==
    /\ At("initialize")
    /\ LET tx == [do |-> "initialize", from |-> run.from, contract |-> "LendNestV2",
                  args |-> Instances(Step.args)]
       IN  IF WouldRevert(tx) THEN Abort("reverted")
           ELSE /\ Submit(tx, TRUE)
                /\ UNCHANGED <<network, mnemonic, diskVars, issued, references, chainVars,
                               proposals, aborted, faultVars>>

\* A named account the network has not is undefined, which the call refuses.
Named(to) == to = "LendNestV2" \/ OwnersNamed(network)

\* Sends the transfer, or throws.
Send(step) ==
    IF ~ Named(step.to) THEN Abort("unnamed account")
    ELSE IF WouldRevert(TransferTx(step)) THEN Abort("reverted")
    ELSE /\ Submit(TransferTx(step), step.waits)
         /\ UNCHANGED <<network, mnemonic, diskVars, issued, references, chainVars, proposals,
                        aborted, faultVars>>

Transfer == At("transfer") /\ Send(Step)

HandOver ==
    /\ At("handOver")
    /\ CASE owner[Step.contract] = run.from -> Send(Step)
         [] owner[Step.contract] = Step.to /\ Named(Step.to) ->
               /\ NextStep
               /\ UNCHANGED <<network, mnemonic, diskVars, issued, references, chainVars, pending,
                              proposals, aborted, faultVars>>
         [] OTHER -> Abort("not the owner")

Propose ==
    /\ At("propose")
    /\ proposals' = [proposals EXCEPT ![Current.id] = @ + 1]
    /\ NextStep
    /\ UNCHANGED <<network, mnemonic, diskVars, issued, references, chainVars, pending, aborted,
                   faultVars>>

\* A transaction sent and waited for that is mined.
Resume ==
    /\ run.stage = "mined" /\ run.tx.do # "deploy"
    /\ NextStep
    /\ UNCHANGED <<network, mnemonic, diskVars, issued, references, chainVars, pending, proposals,
                   aborted, faultVars>>

\* Mutant of WaitThrows: the receipt is not looked at.
WaitIgnored ==
    /\ run.stage = "failed" /\ NextStep
    /\ UNCHANGED <<network, mnemonic, diskVars, issued, references, chainVars, pending, proposals,
                   aborted, faultVars>>

\* wait() throws for a transaction that reverted or was replaced.
WaitThrows == run.stage = "failed" /\ Abort("wait failed")

-----------------------------------------------------------------------------
(* Mempool, timelock and operator *)

\* The account's transactions are mined in the order of their nonces.
FirstOfSender(i) == \A j \in 1 .. i - 1 : pending[j].from # pending[i].from
\* A run waits for the transaction it sent; an equal one of an earlier run is before it.
WaitedFor(i) ==
    /\ run.stage = "waiting" /\ pending[i] = run.tx
    /\ \A j \in i + 1 .. Len(pending) : pending[j] # run.tx

Mine(i) ==
    LET tx == pending[i]
        reverts == WouldRevert(tx)
    IN  /\ FirstOfSender(i)
        /\ pending' = RemoveAt(pending, i)
        /\ run' = IF ~ WaitedFor(i) THEN run
                  ELSE [run EXCEPT !.stage = IF reverts THEN "failed" ELSE "mined"]
        /\ version' = IF tx.do = "initialize" /\ ~ reverts THEN 1 ELSE version
        /\ references' =
               IF tx.do = "initialize" /\ ~ reverts
               THEN [references EXCEPT !["LendNestV2"] =
                        [a \in DOMAIN @ \cup DOMAIN tx.args |->
                            IF a \in DOMAIN tx.args THEN tx.args[a] ELSE @[a]]]
               ELSE references
        /\ owner' =
               IF reverts THEN owner
               ELSE CASE tx.do = "initialize" -> [owner EXCEPT !["LendNestV2"] = tx.from]
                      [] tx.do = "transfer" -> [owner EXCEPT ![tx.contract] = tx.to]
                      [] tx.do = "deploy" /\ tx.contract \in Proxies
                         /\ owner["ProxyAdmin"] = Nobody -> [owner EXCEPT !["ProxyAdmin"] = tx.from]
                      [] OTHER -> owner
        /\ UNCHANGED <<network, mnemonic, diskVars, issued, proposals, aborted, faultVars>>

\* The timelock carries out the batch proposed first: the implementations of
\* the proxies and of the beacon, and the call of setEscrowVault, a
\* reinitializer(9).
ExecuteSherlock ==
    /\ proposals["sherlock-audit:upgrade"] > 0
    /\ owner["ProxyAdmin"] = "protocolTimelock"
    /\ owner["CollateralEscrowBeacon"] = "protocolTimelock"
    /\ version < 9
    /\ version' = 9
    /\ UNCHANGED <<network, mnemonic, run, diskVars, issued, references, owner, pending, proposals,
                   aborted, faultVars>>

MoreFaults == crashes + sends + funded + mnemonic - 1 < MaxFaults

Crash ==
    /\ run # Idle
    /\ MoreFaults
    /\ crashes' = crashes + 1
    /\ run' = Idle
    /\ UNCHANGED <<network, mnemonic, diskVars, issued, references, chainVars, pending, proposals,
                   aborted, sends, funded, replaced>>

\* The send task takes the nonce from the transactions mined, so what it sends
\* replaces a pending transaction of the account, when its gas price is higher.
SendTask ==
    /\ MoreFaults
    /\ \E i \in DOMAIN pending :
          /\ FirstOfSender(i) /\ pending[i].from = Deployer(network, Wallets[mnemonic])
          /\ pending' = RemoveAt(pending, i)
          /\ replaced' = IF pending[i].do = "transfer" THEN replaced \cup {pending[i].contract}
                         ELSE replaced
          /\ run' = IF WaitedFor(i) THEN [run EXCEPT !.stage = "failed"] ELSE run
    /\ sends' = sends + 1
    /\ UNCHANGED <<network, mnemonic, diskVars, issued, references, chainVars, proposals, aborted,
                   crashes, funded>>

\* The fundedwallet task sends Ether from the first account of the mnemonic, after
\* all that is pending, and does not wait.
FundedWallet ==
    /\ MoreFaults
    /\ pending' = Append(pending, [do |-> "fund", from |-> Wallets[mnemonic]])
    /\ funded' = funded + 1
    /\ UNCHANGED <<network, mnemonic, run, diskVars, issued, references, chainVars, proposals,
                   aborted, crashes, sends, replaced>>

\* Overwrites mnemonic.secret with a new account's.
MineContractAddress ==
    /\ MoreFaults /\ mnemonic < Len(Wallets)
    /\ mnemonic' = mnemonic + 1
    /\ UNCHANGED <<network, run, diskVars, issued, references, chainVars, pending, proposals,
                   aborted, faultVars>>

-----------------------------------------------------------------------------
RunNext ==
    \/ Skip \/ EndRun \/ MissingContract \/ FinishScript
    \/ SubmitDeploy \/ AlreadyDeployed \/ SaveDeployment
    \/ Initialize \/ Transfer \/ HandOver \/ Propose \/ Resume \/ WaitThrows
MineNext == \E i \in DOMAIN pending : Mine(i)

Next ==
    \/ \E tag \in Tags : StartRun(tag)
    \/ RunNext
    \/ MineNext
    \/ ExecuteSherlock
    \/ Crash
    \/ SendTask
    \/ FundedWallet
    \/ MineContractAddress

\* A run that has started goes on, what was sent is mined in the end, and the
\* operator runs everything again.
Fairness ==
    /\ WF_vars(RunNext)
    /\ WF_vars(MineNext)
    /\ SF_vars(StartRun(AllScripts))

Spec == Init /\ [][Next]_vars
FairSpec == Spec /\ Fairness
=============================================================================
