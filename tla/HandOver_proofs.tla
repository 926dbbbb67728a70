--------------------------- MODULE HandOver_proofs ---------------------------
(***************************************************************************)
(* Deployments implement ProtocolHandOver, whatever runs, crashes, tags    *)
(* and tasks there are; and a run that ends before its time does so for    *)
(* one of the reasons AbortsExplained lists.                               *)
(***************************************************************************)
EXTENDS Deployment_proofs

-----------------------------------------------------------------------------
(* The order in which things happen *)

\* What a contract is given has been deployed.
Placed(args, at) == \A a \in DOMAIN args : at[a] # 0 /\ args[a] = at[a]

\* A transaction is sent when it may be carried out.
TxGood(tx, at, who) ==
    /\ tx.do \in {"deploy", "initialize"} => Placed(tx.args, at)
    /\ tx.do = "initialize" => Initialized \subseteq DOMAIN tx.args
    /\ tx.do = "transfer" /\ tx.contract = "LenderManager" =>
          who["LendNestV2"] = FinalOwner["LendNestV2"]

\* A transaction mined for the run that waits for it has not reverted.
TookEffect(tx, who, number) ==
    /\ tx.do = "transfer" => who[tx.contract] = FinalOwner[tx.contract]
    /\ tx.do = "initialize" => number # 0

\* A script is recorded, or has passed its first step.
Past(i, r, recorded) ==
    \/ Scripts[i].id \in recorded
    \/ r.plan # << >> /\ Head(r.plan) = i /\ r.step > 1

\* What LendNest-v2:init (15) and LendNest-v2:transfer-ownership-to-safe (16),
\* which both wait, are for.
HasDone(i, who, number) ==
    /\ i = 15 => number # 0
    /\ i = 16 => who["LendNestV2"] = FinalOwner["LendNestV2"]

\* Script i is still to run only after script d.
Follows(plan, recorded, i, d) ==
    \A n \in DOMAIN plan : plan[n] = i =>
        Scripts[d].id \in recorded \/ \E m \in 1 .. n - 1 : plan[m] = d

\* LenderManager is handed over (9) after LendNestV2 (16), and an upgrade is
\* proposed (18) after LendNestV2 is open (15).
OrderOK ==
    /\ \A i \in DOMAIN pending : TxGood(pending[i], deployment, owner)
    /\ run.stage \in Sent => TxGood(run.tx, deployment, owner)
    /\ \A c \in Contracts : Placed(references[c], deployment)
    /\ run.stage = "mined" => TookEffect(run.tx, owner, version)
    /\ \A i \in {15, 16} : Past(i, run, migrations) => HasDone(i, owner, version)
    /\ Follows(run.plan, migrations, 9, 16) /\ Follows(run.plan, migrations, 18, 15)
    /\ proposals["sherlock-audit:upgrade"] > 0 => version # 0

OInv == IInv /\ OrderOK

-----------------------------------------------------------------------------
(* The scripts *)

\* A step's arguments are got by name, or deployed by the script itself.
ArgsKnown(i, k) ==
    \A a \in Scripts[i].steps[k].args :
        \/ a \in Scripts[i].needs
        \/ \E m \in 1 .. k - 1 :
              Scripts[i].steps[m].do = "deploy" /\ Scripts[i].steps[m].contract = a

StepPlaced(i, k) ==
    /\ Scripts[i].steps[k].do \in {"deploy", "initialize"} => ArgsKnown(i, k)
    /\ Scripts[i].steps[k].do = "initialize" => Scripts[i].steps[k].args = Initialized
    /\ Scripts[i].steps[k].do \in {"transfer", "handOver"}
       /\ Scripts[i].steps[k].contract = "LenderManager" => i = 9

LEMMA OneStepPlaced ==
    ASSUME NEW i, NEW step, Scripts[i].steps = << step >>,
           step.do \in {"deploy", "initialize"} => step.args \subseteq Scripts[i].needs,
           step.do = "initialize" => step.args = Initialized,
           step.do \in {"transfer", "handOver"} => step.contract # "LenderManager"
    PROVE  \A k \in DOMAIN Scripts[i].steps : StepPlaced(i, k)
  <1>1. DOMAIN Scripts[i].steps = {1} /\ Scripts[i].steps[1] = step
    OBVIOUS
  <1> QED
    BY <1>1 DEF StepPlaced, ArgsKnown

LEMMA OneDeployPlaced ==
    ASSUME NEW i, NEW c, NEW args, Scripts[i].steps = << Deploys(c, args) >>,
           args \subseteq Scripts[i].needs
    PROVE  \A k \in DOMAIN Scripts[i].steps : StepPlaced(i, k)
  <1>1. Deploys(c, args).do = "deploy" /\ Deploys(c, args).args = args
    BY DEF Deploys
  <1> QED
    BY <1>1, OneStepPlaced

LEMMA OneProposalPlaced ==
    ASSUME NEW i, Scripts[i].steps = << Proposes >>
    PROVE  \A k \in DOMAIN Scripts[i].steps : StepPlaced(i, k)
  <1>1. Proposes.do = "propose"
    BY DEF Proposes
  <1> QED
    BY <1>1, OneStepPlaced

LEMMA StepsPlaced ==
    \A i \in DOMAIN Scripts : \A k \in DOMAIN Scripts[i].steps : StepPlaced(i, k)
  <1> DEFINE P(i) == \A k \in DOMAIN Scripts[i].steps : StepPlaced(i, k)
  <1>1. P(1)
    <2> DEFINE first == Deploys("CollateralEscrowBeacon", {})
               second == Transfers("CollateralEscrowBeacon", "protocolTimelock", FALSE)
    <2>1. Scripts[1].steps = << first, second >>
      BY ScriptTable DEF Says
    <2>2. first.do = "deploy" /\ first.args = {}
      BY DEF Deploys
    <2>3. second.do = "transfer" /\ second.contract = "CollateralEscrowBeacon"
      BY DEF Transfers
    <2> HIDE DEF first, second
    <2>4. DOMAIN Scripts[1].steps = {1, 2} /\ Scripts[1].steps[1] = first
          /\ Scripts[1].steps[2] = second
      BY <2>1
    <2> QED
      BY <2>2, <2>3, <2>4 DEF StepPlaced, ArgsKnown
  <1>2. P(11)
    <2> DEFINE a == Deploys("LendNestASRegistry", {})
               b == Deploys("LendNestASEIP712Verifier", {})
               c == Deploys("LendNestAS", {"LendNestASRegistry", "LendNestASEIP712Verifier"})
               d == Deploys("MarketRegistry", {"LendNestAS"})
    <2>1. Scripts[11].steps = << a, b, c, d >>
      BY ScriptTable DEF Says
    <2>2. /\ a.do = "deploy" /\ a.args = {} /\ a.contract = "LendNestASRegistry"
          /\ b.do = "deploy" /\ b.args = {} /\ b.contract = "LendNestASEIP712Verifier"
          /\ c.do = "deploy" /\ c.args = {"LendNestASRegistry", "LendNestASEIP712Verifier"}
          /\ c.contract = "LendNestAS"
          /\ d.do = "deploy" /\ d.args = {"LendNestAS"}
      BY DEF Deploys
    <2> HIDE DEF a, b, c, d
    <2>3. DOMAIN Scripts[11].steps = {1, 2, 3, 4} /\ Scripts[11].steps[1] = a
          /\ Scripts[11].steps[2] = b /\ Scripts[11].steps[3] = c /\ Scripts[11].steps[4] = d
      BY <2>1
    <2>4. 1 \in 1 .. 3 - 1 /\ 2 \in 1 .. 3 - 1 /\ 3 \in 1 .. 4 - 1
      OBVIOUS
    <2>5. ArgsKnown(11, 1) /\ ArgsKnown(11, 2)
      BY <2>2, <2>3 DEF ArgsKnown
    <2>6. ArgsKnown(11, 3)
      BY <2>2, <2>3, <2>4 DEF ArgsKnown
    <2>7. ArgsKnown(11, 4)
      BY <2>2, <2>3, <2>4 DEF ArgsKnown
    <2> QED
      BY <2>2, <2>3, <2>5, <2>6, <2>7 DEF StepPlaced
  <1>3. P(3) /\ P(16)
    <2>1. /\ HandsOver("ProxyAdmin", "protocolTimelock", FALSE).do = "handOver"
          /\ HandsOver("ProxyAdmin", "protocolTimelock", FALSE).contract = "ProxyAdmin"
          /\ HandsOver("LendNestV2", "protocolOwnerSafe", TRUE).do = "handOver"
          /\ HandsOver("LendNestV2", "protocolOwnerSafe", TRUE).contract = "LendNestV2"
      BY DEF HandsOver
    <2> QED
      BY <2>1, ScriptTable, OneStepPlaced DEF Says
  <1>4. P(15)
    <2>1. Initializes(Initialized).do = "initialize" /\ Initializes(Initialized).args = Initialized
      BY DEF Initializes
    <2> QED
      BY <2>1, ScriptTable, OneStepPlaced DEF Says
  <1>5. P(9)
    <2> DEFINE step == Transfers("LenderManager", "LendNestV2", TRUE)
    <2>1. step.do = "transfer"
      BY DEF Transfers
    <2>2. Scripts[9].steps = << step >>
      BY ScriptTable DEF Says
    <2> HIDE DEF step
    <2>3. DOMAIN Scripts[9].steps = {1} /\ Scripts[9].steps[1] = step
      BY <2>2
    <2> QED
      BY <2>1, <2>3 DEF StepPlaced
  <1> HIDE DEF P
  <1>6. P(2) /\ P(5) /\ P(6) /\ P(7) /\ P(8) /\ P(10) /\ P(13) /\ P(14)
    <2>1. ASSUME NEW i, NEW id, NEW c, NEW args, Says(i, id, args, << Deploys(c, args) >>)
          PROVE  P(i)
      BY <2>1, OneDeployPlaced DEF Says, P
    <2> QED
      BY <2>1, ScriptTable
  <1>7. P(4) /\ P(12) /\ P(17)
    <2>1. ASSUME NEW i, NEW id, NEW c, Says(i, id, {}, << Deploys(c, {}) >>)
          PROVE  P(i)
      BY <2>1, OneDeployPlaced DEF Says, P
    <2> QED
      BY <2>1, ScriptTable
  <1>8. P(18) /\ P(19) /\ P(20) /\ P(21) /\ P(22)
    BY ScriptTable, OneProposalPlaced DEF Says, P
  <1>9. \A i \in DOMAIN Scripts : P(i)
    BY <1>1, <1>2, <1>3, <1>4, <1>5, <1>6, <1>7, <1>8, ScriptList
  <1> QED
    BY <1>9 DEF P

\* The two scripts that the order is about.
LEMMA TwoScripts ==
    /\ Scripts[15].steps[1].do = "initialize" /\ Len(Scripts[15].steps) = 1
    /\ Scripts[16].steps[1].do = "handOver" /\ Scripts[16].steps[1].contract = "LendNestV2"
    /\ Scripts[16].steps[1].waits /\ Len(Scripts[16].steps) = 1
    /\ \A i \in {15, 16} : /\ i \in DOMAIN Scripts /\ Scripts[i].records
                           /\ network \in Targets => network \in Scripts[i].networks
  <1>1. Scripts[15].steps = << Initializes(Initialized) >>
        /\ Scripts[16].steps = << HandsOver("LendNestV2", "protocolOwnerSafe", TRUE) >>
    BY ScriptTable DEF Says
  <1>2. \A i \in {15, 16} : i \in DOMAIN Scripts /\ Scripts[i].records /\ Scripts[i].networks = Networks
    BY ScriptList, RecordedScripts DEF RunsOn
  <1> QED
    BY <1>1, <1>2, DeploymentAssumption DEF Initializes, HandsOver

-----------------------------------------------------------------------------
(* What lasts *)

Lasts ==
    /\ \A c \in Contracts : deployment[c] # 0 => deployment'[c] = deployment[c]
    /\ \A o \in Owned : owner[o] = FinalOwner[o] => owner'[o] = FinalOwner[o]
    /\ version # 0 => version' # 0

LEMMA Lasting ==
    ASSUME IInv, [Next]_vars
    PROVE  Lasts
  <1>1. ChainOK
    BY DEF IInv
  <1>2. CASE QuietStep
    BY <1>2 DEF QuietStep, Quiet, Lasts
  <1>3. CASE SendStep
    BY <1>3 DEF SendStep, Sending, Lasts
  <1>4. CASE SaveDeployment
    <2> PICK c \in Contracts, n \in Nat \ {0} :
           /\ deployment[c] = 0 /\ deployment' = [deployment EXCEPT ![c] = n]
           /\ c # "ProxyAdmin"
           /\ owner' = IF c \in Owned \ {"LendNestV2"} THEN [owner EXCEPT ![c] = run.tx.from]
                       ELSE owner
           /\ c \in Owned \ {"LendNestV2"} => owner[c] = Nobody
           /\ version' = version
      BY <1>4, Saved
    <2>1. \A o \in Owned : owner'[o] = owner[o] \/ owner[o] = Nobody
      BY <1>1 DEF ChainOK
    <2>2. \A d \in Contracts : deployment[d] # 0 => deployment'[d] = deployment[d]
      BY <1>1 DEF ChainOK
    <2> QED
      BY <2>1, <2>2, AccountsDiffer DEF Lasts
  <1>5. ASSUME NEW i \in DOMAIN pending, Mine(i) PROVE Lasts
    <2>1. /\ \A o \in Owned :
                \/ owner'[o] = owner[o]
                \/ owner[o] = Nobody /\ owner'[o] \in Accounts
                \/ owner[o] \in Accounts /\ owner'[o] = FinalOwner[o]
          /\ version # 0 => version' = version
      BY <1>1, <1>5, Mined
    <2>2. deployment' = deployment
      BY <1>5 DEF Mine, diskVars
    <2> QED
      BY <2>1, <2>2, AccountsDiffer DEF Lasts
  <1>6. CASE SendTask
    BY <1>6 DEF SendTask, Lasts, diskVars, chainVars
  <1>7. CASE ExecuteSherlock
    BY <1>7 DEF ExecuteSherlock, Lasts, diskVars
  <1> QED
    BY <1>2, <1>3, <1>4, <1>5, <1>6, <1>7, StepForm

LEMMA PlacedLasts ==
    ASSUME Lasts, NEW args, DOMAIN args \subseteq Contracts, Placed(args, deployment)
    PROVE  Placed(args, deployment')
  BY DEF Lasts, Placed

LEMMA TxLasts ==
    ASSUME Lasts, NEW tx \in Txs, TxGood(tx, deployment, owner)
    PROVE  TxGood(tx, deployment', owner')
  <1>1. tx.do \in {"deploy", "initialize"} => DOMAIN tx.args \subseteq Contracts
    BY TxFacts
  <1>2. tx.do \in {"deploy", "initialize"} => Placed(tx.args, deployment')
    BY <1>1, PlacedLasts DEF TxGood
  <1>3. "LendNestV2" \in Owned
    BY OwnedOnes
  <1> QED
    BY <1>2, <1>3 DEF TxGood, Lasts

\* The steps of a script that is at work.
LEMMA AtGivenStep ==
    ASSUME IInv, Working
    PROVE  /\ Head(run.plan) \in DOMAIN Scripts /\ run.step \in Nat \ {0}
           /\ run.step \in DOMAIN Scripts[Head(run.plan)].steps
           /\ Step = Scripts[Head(run.plan)].steps[run.step]
           /\ StepPlaced(Head(run.plan), run.step)
           /\ Scripts[Head(run.plan)].needs \subseteq Built
           /\ \A m \in 1 .. run.step - 1 :
                 Achieved(Scripts[Head(run.plan)].steps[m], Built, Given)
  <1>1. run \in RunType /\ run.plan # << >> /\ run.step <= Len(ScriptOf(run).steps)
        /\ ScriptFits(run, migrations, Built, Given) /\ ScriptOf(run).needs \subseteq Built
    BY AtStep
  <1>2. Head(run.plan) \in DOMAIN Scripts /\ run.step \in DOMAIN Scripts[Head(run.plan)].steps
        /\ run.step \in Nat \ {0}
    BY <1>1, CurrentScript DEF ScriptOf, RunType
  <1> QED
    BY <1>1, <1>2, StepsPlaced DEF ScriptFits, ScriptOf, Step, Current

\* What is sent may be carried out.
LEMMA SentGood ==
    ASSUME OInv, NEW tx \in Txs, Waits(tx) \/ GoesOn(tx)
    PROVE  TxGood(tx, deployment, owner)
  <1> DEFINE h == Head(run.plan)
             k == run.step
  <1>1. Working /\ IInv
    BY DEF Waits, GoesOn, OInv
  <1>2. /\ h \in DOMAIN Scripts /\ k \in DOMAIN Scripts[h].steps /\ Step = Scripts[h].steps[k]
        /\ StepPlaced(h, k) /\ Scripts[h].needs \subseteq Built
        /\ \A m \in 1 .. k - 1 : Achieved(Scripts[h].steps[m], Built, Given)
    BY <1>1, AtGivenStep
  <1> HIDE DEF h, k
  <1>3. ASSUME tx.do \in {"deploy", "initialize"}
        PROVE  /\ Placed(tx.args, deployment)
               /\ tx.do = "initialize" => Initialized \subseteq DOMAIN tx.args
    <2>1. tx.do = Step.do /\ tx.args = Instances(Step.args)
      BY <1>3 DEF Waits, GoesOn
    <2>2. ArgsKnown(h, k) /\ (tx.do = "initialize" => Step.args = Initialized)
      BY <1>2, <1>3, <2>1 DEF StepPlaced
    <2>3. \A a \in Step.args : a \in Built
      BY <1>2, <2>2 DEF ArgsKnown, Achieved
    <2>4. \A a \in Step.args : deployment[a] # 0
      BY <2>3 DEF Built
    <2>5. DOMAIN tx.args = Step.args /\ \A a \in Step.args : tx.args[a] = deployment[a]
      BY <2>1 DEF Instances
    <2> QED
      BY <2>2, <2>4, <2>5 DEF Placed
  <1>4. ASSUME tx.do = "transfer", tx.contract = "LenderManager"
        PROVE  owner["LendNestV2"] = FinalOwner["LendNestV2"]
    <2>1. Step.do \in {"transfer", "handOver"} /\ Step.contract = "LenderManager"
      BY <1>4 DEF Waits, GoesOn
    <2>2. h = 9
      BY <1>2, <2>1 DEF StepPlaced
    <2>3. run.plan \in Seq(DOMAIN Scripts) /\ run.plan # << >>
      BY <1>1, AtStep DEF RunType
    <2>4. 1 \in DOMAIN run.plan /\ run.plan[1] = 9
      BY <2>2, <2>3 DEF h
    <2>5. Scripts[16].id \in migrations \/ \E m \in 1 .. 1 - 1 : run.plan[m] = 16
      BY <2>4 DEF OInv, OrderOK, Follows
    <2>6. Past(16, run, migrations)
      BY <2>5 DEF Past
    <2> QED
      BY <2>6 DEF OInv, OrderOK, HasDone
  <1> QED
    BY <1>3, <1>4 DEF TxGood

LEMMA PendingGood ==
    ASSUME OInv, [Next]_vars
    PROVE  \A i \in DOMAIN pending' : TxGood(pending'[i], deployment', owner')
  <1>1. IInv /\ Lasts /\ pending \in Seq(Txs)
    BY Lasting DEF OInv, IInv, ChainOK
  <1>2. \A i \in DOMAIN pending : pending[i] \in Txs /\ TxGood(pending[i], deployment', owner')
    BY <1>1, TxLasts DEF OInv, OrderOK
  <1>3. ASSUME pending' = pending
        PROVE  \A i \in DOMAIN pending' : TxGood(pending'[i], deployment', owner')
    BY <1>2, <1>3
  <1>4. ASSUME NEW tx \in Txs, Sending(tx), TxGood(tx, deployment, owner)
        PROVE  \A i \in DOMAIN pending' : TxGood(pending'[i], deployment', owner')
    <2>1. /\ DOMAIN pending' = DOMAIN pending \cup {Len(pending) + 1}
          /\ \A i \in DOMAIN pending : pending'[i] = pending[i]
          /\ pending'[Len(pending) + 1] = tx
      BY <1>1, <1>4 DEF Sending
    <2>2. TxGood(tx, deployment', owner')
      BY <1>1, <1>4, TxLasts
    <2> QED
      BY <1>2, <2>1, <2>2
  <1>5. ASSUME NEW i \in DOMAIN pending, pending' = RemoveAt(pending, i)
        PROVE  \A j \in DOMAIN pending' : TxGood(pending'[j], deployment', owner')
    <2>1. \A j \in DOMAIN pending' : \E k \in DOMAIN pending : pending'[j] = pending[k]
      BY <1>1, <1>5, RemoveOne
    <2> QED
      BY <1>2, <2>1
  <1>6. CASE SendStep
    <2> PICK tx \in Txs : Sending(tx) /\ (Waits(tx) \/ GoesOn(tx) \/ tx.do = "fund")
      BY <1>6 DEF SendStep
    <2>1. TxGood(tx, deployment, owner)
      <3>1. CASE Waits(tx) \/ GoesOn(tx)
        BY <3>1, SentGood
      <3>2. CASE tx.do = "fund"
        BY <3>2 DEF TxGood
      <3> QED
        BY <3>1, <3>2
    <2> QED
      BY <1>4, <2>1
  <1>7. CASE QuietStep \/ SaveDeployment \/ ExecuteSherlock
    BY <1>3, <1>7 DEF QuietStep, Quiet, SaveDeployment, ExecuteSherlock
  <1>8. ASSUME NEW i \in DOMAIN pending, Mine(i) PROVE pending' = RemoveAt(pending, i)
    BY <1>8 DEF Mine
  <1>9. CASE SendTask
    BY <1>5, <1>9 DEF SendTask
  <1> QED
    BY <1>1, <1>5, <1>6, <1>7, <1>8, <1>9, StepForm

LEMMA ReferencesGood ==
    ASSUME OInv, [Next]_vars
    PROVE  \A c \in Contracts : Placed(references'[c], deployment')
  <1>1. IInv /\ ChainOK /\ Lasts
    BY Lasting DEF OInv, IInv
  <1>2. \A c \in Contracts : Placed(references[c], deployment')
    BY <1>1, PlacedLasts DEF OInv, OrderOK, ChainOK
  <1>3. CASE references' = references
    BY <1>2, <1>3
  <1>4. CASE SaveDeployment
    <2> PICK c \in Contracts : /\ run.tx.do = "deploy" /\ DOMAIN run.tx.args \subseteq Contracts
                               /\ references' = [references EXCEPT ![c] = run.tx.args]
      BY <1>1, <1>4, Saved
    <2>1. Placed(run.tx.args, deployment)
      BY <1>4 DEF SaveDeployment, Sent, OInv, OrderOK, TxGood
    <2>2. Placed(run.tx.args, deployment')
      BY <1>1, <2>1, PlacedLasts
    <2> QED
      BY <1>1, <1>2, <2>2 DEF ChainOK
  <1>5. ASSUME NEW i \in DOMAIN pending, Mine(i)
        PROVE  \A c \in Contracts : Placed(references'[c], deployment')
    <2> DEFINE old == references["LendNestV2"]
               args == pending[i].args
               given == [a \in DOMAIN old \cup DOMAIN args |->
                            IF a \in DOMAIN args THEN args[a] ELSE old[a]]
    <2>1. \/ references' = references
          \/ pending[i].do = "initialize" /\ references' = [references EXCEPT !["LendNestV2"] = given]
      BY <1>5 DEF Mine
    <2>2. CASE pending[i].do = "initialize"
               /\ references' = [references EXCEPT !["LendNestV2"] = given]
      <3>1. Placed(old, deployment')
        BY <1>2, AllContracts DEF Deployed
      <3>2. Placed(args, deployment')
        <4>1. pending[i] \in Txs /\ TxGood(pending[i], deployment, owner)
          BY <1>1 DEF ChainOK, OInv, OrderOK
        <4> QED
          BY <1>1, <2>2, <4>1, TxLasts DEF TxGood
      <3>3. Placed(given, deployment')
        BY <3>1, <3>2 DEF Placed
      <3> HIDE DEF given
      <3> QED
        BY <1>1, <1>2, <2>2, <3>3 DEF ChainOK
    <2> QED
      BY <1>3, <2>1, <2>2
  <1>6. CASE QuietStep \/ SendStep \/ SendTask \/ ExecuteSherlock
    BY <1>3, <1>6 DEF QuietStep, Quiet, SendStep, Sending, SendTask, ExecuteSherlock
  <1> QED
    BY <1>1, <1>4, <1>5, <1>6, StepForm

-----------------------------------------------------------------------------
(* What a step does to the run, and what a run has done *)

Anew ==
    /\ run = Idle /\ \E tag \in Tags : run'.plan = Plans[tag]
    /\ run'.from = Deployer(network, Wallets[mnemonic])
    /\ run'.step = 1 /\ run'.stage = "running" /\ migrations' = migrations
Turned ==
    /\ run.stage = "running" /\ run.plan # << >> /\ run'.plan = Tail(run.plan)
    /\ run'.step = 1 /\ run'.stage = "running" /\ run'.from = run.from
    /\ migrations \subseteq migrations' /\ migrations' \subseteq migrations \cup {Current.id}
    /\ migrations' # migrations => run.step > 1
    /\ Due => run.step > Len(Current.steps)
    /\ Current.records /\ network \in Current.networks => Current.id \in migrations'
Passed ==
    /\ Working \/ run.stage = "mined"
    /\ run'.plan = run.plan /\ run'.step = run.step + 1 /\ run'.stage = "running"
    /\ run'.from = run.from /\ migrations' = migrations
    /\ \/ run.stage = "mined"
       \/ Working /\ PassesQuietly
       \/ \E tx \in Txs : GoesOn(tx)
Waited ==
    /\ \E tx \in Txs : Waits(tx) /\ run'.tx = tx
    /\ run'.plan = run.plan /\ run'.step = run.step /\ run'.stage = "waiting"
    /\ run'.from = run.from /\ migrations' = migrations
Settled ==
    /\ run.stage = "waiting" /\ run'.from = run.from /\ run'.tx = run.tx
    /\ run'.plan = run.plan /\ run'.step = run.step /\ migrations' = migrations
    /\ \/ /\ run'.stage = "mined"
          /\ \E i \in DOMAIN pending : Mine(i) /\ pending[i] = run.tx /\ ~ WouldRevert(pending[i])
       \/ /\ run'.stage = "failed"
          /\ \/ SendTask
             \/ \E i \in DOMAIN pending : Mine(i) /\ pending[i] = run.tx /\ WouldRevert(pending[i])

LEMMA Turning ==
    ASSUME IInv, Skips \/ Finishes
    PROVE  Turned
  <1>1. /\ run \in RunType /\ run.plan # << >> /\ run.stage = "running"
        /\ ScriptFits(run, migrations, Built, Given)
    BY DEF IInv, RunOK, Skips, Finishes, Running
  <1>2. Head(run.plan) \in DOMAIN Scripts /\ run.step \in Nat \ {0}
    BY <1>1, CurrentScript DEF RunType
  <1>3. CASE Skips
    <2>1. ~ Due /\ run' = [run EXCEPT !.plan = Tail(@)] /\ migrations' = migrations
      BY <1>3 DEF Skips
    <2>2. run.step = 1
      BY <1>1, <1>2, <2>1 DEF ScriptFits, Due, Current, ScriptOf
    <2>3. run'.plan = Tail(run.plan) /\ run'.step = 1 /\ run'.stage = "running"
      BY <1>1, <2>1, <2>2 DEF RunType
    <2> QED
      BY <1>1, <2>1, <2>3 DEF Turned, Due
  <1>4. CASE Finishes
    <2>1. /\ run.step > Len(Current.steps)
          /\ run' = [run EXCEPT !.plan = Tail(@), !.step = 1]
          /\ migrations' = IF Current.records THEN migrations \cup {Current.id} ELSE migrations
      BY <1>4 DEF Finishes
    <2>2. Len(Current.steps) \in Nat \ {0}
      BY <1>2, ScriptsOK DEF ScriptOK, Current
    <2>3. run.step > 1
      BY <1>2, <2>1, <2>2
    <2>4. run'.plan = Tail(run.plan) /\ run'.step = 1 /\ run'.stage = "running"
      BY <1>1, <2>1 DEF RunType
    <2> QED
      BY <1>1, <2>1, <2>3, <2>4 DEF Turned
  <1> QED
    BY <1>3, <1>4

LEMMA Moves ==
    ASSUME IInv, [Next]_vars
    PROVE  Anew \/ Ends \/ Turned \/ Passed \/ Waited \/ Settled \/ Same
  <1>1. run \in RunType
    BY DEF IInv, RunOK
  <1>2. CASE QuietStep
    <2>1. CASE Starts
      <3> PICK tag \in Tags :
             run' = [Idle EXCEPT !.stage = "running", !.from = Deployer(network, Wallets[mnemonic]),
                                 !.plan = Plans[tag]]
        BY <2>1 DEF Starts
      <3>1. run'.plan = Plans[tag] /\ run'.step = 1 /\ run'.stage = "running"
        BY DEF Idle
      <3> QED
        BY <2>1, <3>1 DEF Starts, Anew
    <2>2. CASE Skips \/ Finishes
      BY <2>2, Turning
    <2>3. CASE Passes /\ PassesQuietly
      BY <1>1, <2>3, NextRun DEF Passes, Passed
    <2>4. CASE Resume
      BY <1>1, <2>4, NextRun DEF Resume, Passed, diskVars
    <2> QED
      BY <1>2, <2>1, <2>2, <2>3, <2>4 DEF QuietStep
  <1>3. CASE SendStep
    <2> PICK tx \in Txs : Waits(tx) \/ GoesOn(tx) \/ Same
      BY <1>3 DEF SendStep
    <2>1. CASE Waits(tx)
      <3>1. /\ run'.plan = run.plan /\ run'.step = run.step /\ run'.stage = "waiting"
            /\ run'.tx = tx /\ run'.from = run.from /\ migrations' = migrations
        BY <1>1, <2>1, SentRun DEF Waits, Sent, RunType
      <3> QED
        BY <2>1, <3>1 DEF Waited
    <2>2. CASE GoesOn(tx)
      <3>1. run'.plan = run.plan /\ run'.step = run.step + 1 /\ run'.stage = "running"
            /\ run'.from = run.from /\ migrations' = migrations /\ Working
        BY <1>1, <2>2 DEF GoesOn, RunType
      <3> QED
        BY <2>2, <3>1 DEF Passed
    <2> QED
      BY <2>1, <2>2
  <1>4. CASE SaveDeployment
    BY <1>1, <1>4, NextRun DEF SaveDeployment, Passed
  <1>5. ASSUME NEW i \in DOMAIN pending, Mine(i) PROVE Settled \/ Same
    <2>1. migrations' = migrations
      BY <1>5 DEF Mine, diskVars
    <2>2. CASE WaitedFor(i)
      <3>1. run.stage = "waiting" /\ pending[i] = run.tx
        BY <2>2 DEF WaitedFor
      <3>2. run' = [run EXCEPT !.stage = IF WouldRevert(pending[i]) THEN "failed" ELSE "mined"]
        BY <1>5, <2>2 DEF Mine
      <3> QED
        BY <1>1, <1>5, <2>1, <3>1, <3>2 DEF Settled, RunType, Sent
    <2>3. CASE ~ WaitedFor(i)
      BY <1>5, <2>1, <2>3 DEF Mine, Same
    <2> QED
      BY <2>2, <2>3
  <1>6. CASE SendTask
    <2>1. migrations' = migrations
      BY <1>6 DEF SendTask, diskVars
    <2> PICK i \in DOMAIN pending :
           run' = IF WaitedFor(i) THEN [run EXCEPT !.stage = "failed"] ELSE run
      BY <1>6 DEF SendTask
    <2>2. CASE WaitedFor(i)
      BY <1>1, <1>6, <2>1, <2>2 DEF WaitedFor, Settled, RunType
    <2> QED
      BY <2>1, <2>2 DEF Same
  <1>7. CASE ExecuteSherlock
    BY <1>7 DEF ExecuteSherlock, Same, diskVars
  <1> QED
    BY <1>2, <1>3, <1>4, <1>5, <1>6, <1>7, StepForm

LEMMA SentTxKept ==
    ASSUME OInv, [Next]_vars
    PROVE  /\ run'.stage \in Sent => TxGood(run'.tx, deployment', owner')
           /\ run'.stage = "mined" => TookEffect(run'.tx, owner', version')
  <1>1. IInv /\ Lasts /\ run \in RunType /\ ChainOK
    BY Lasting DEF OInv, IInv, RunOK
  <1>2. ASSUME run.stage \in Sent
        PROVE  run.tx \in Txs /\ TxGood(run.tx, deployment', owner')
    <2>1. run.tx \in Txs
      BY <1>1, <1>2, AtStep DEF TxFits
    <2> QED
      BY <1>1, <1>2, <2>1, TxLasts DEF OInv, OrderOK
  <1>3. CASE Anew \/ Turned \/ Passed \/ Ends
    BY <1>3 DEF Anew, Turned, Passed, Ends, Idle, Sent
  <1>4. CASE Waited
    <2> PICK tx \in Txs : Waits(tx) /\ run'.tx = tx /\ run'.stage = "waiting"
      BY <1>4 DEF Waited
    <2>1. TxGood(tx, deployment', owner')
      BY <1>1, SentGood, TxLasts
    <2> QED
      BY <2>1
  <1>5. CASE Settled
    <2>1. run.stage \in Sent /\ run'.tx = run.tx
      BY <1>5 DEF Settled, Sent
    <2>2. ASSUME run'.stage = "mined" PROVE TookEffect(run.tx, owner', version')
      <3> PICK i \in DOMAIN pending : Mine(i) /\ pending[i] = run.tx /\ ~ WouldRevert(pending[i])
        BY <1>5, <2>2 DEF Settled
      <3>1. run.tx.do = "transfer" => owner'[run.tx.contract] = FinalOwner[run.tx.contract]
        BY <1>1, Mined
      <3>2. run.tx.do = "initialize" => version' = 1
        BY DEF Mine
      <3> QED
        BY <3>1, <3>2 DEF TookEffect
    <2> QED
      BY <1>2, <2>1, <2>2
  <1>6. CASE Same
    <2>1. run' = run
      BY <1>6 DEF Same
    <2>2. ASSUME run.stage = "mined" PROVE TookEffect(run.tx, owner', version')
      <3>1. run.tx \in Txs /\ TookEffect(run.tx, owner, version)
        BY <1>2, <2>2 DEF OInv, OrderOK, Sent
      <3>2. run.tx.do = "transfer" => run.tx.contract \in Owned
        BY <3>1, TxFacts
      <3> QED
        BY <1>1, <3>1, <3>2 DEF TookEffect, Lasts
    <2> QED
      BY <1>2, <2>1, <2>2
  <1> QED
    BY <1>1, <1>3, <1>4, <1>5, <1>6, Moves

\* A run passes the first step of one of the two scripts once it has come to
\* something.
LEMMA FirstStepDone ==
    ASSUME OInv, Passed, NEW i \in {15, 16}, Head(run.plan) = i, run.step = 1
    PROVE  HasDone(i, owner, version)
  <1>1. IInv /\ Step = Scripts[i].steps[1] /\ StepOf(run) = Scripts[i].steps[1]
    BY DEF OInv, Step, StepOf, Current, ScriptOf
  <1>2. /\ i = 15 => Step.do = "initialize"
        /\ i = 16 => Step.do = "handOver" /\ Step.contract = "LendNestV2" /\ Step.waits
    BY <1>1, TwoScripts
  <1>3. CASE run.stage = "mined"
    <2>1. TxFits(run, Built, Given) /\ TookEffect(run.tx, owner, version)
      BY <1>1, <1>3, AtStep DEF Sent, OInv, OrderOK
    <2>2. CASE i = 15
      BY <1>1, <1>2, <2>1, <2>2 DEF TxFits, TookEffect, HasDone
    <2>3. CASE i = 16
      <3>1. run.tx.do = "transfer" /\ run.tx.contract = "LendNestV2"
        BY <1>1, <1>2, <2>1, <2>3 DEF TxFits
      <3> QED
        BY <2>1, <2>3, <3>1 DEF TookEffect, HasDone
    <2> QED
      BY <2>2, <2>3
  <1>4. CASE Working /\ PassesQuietly
    <2>1. i = 16 /\ owner["LendNestV2"] = FinalOwner["LendNestV2"]
      BY <1>2, <1>4 DEF PassesQuietly
    <2> QED
      BY <2>1 DEF HasDone
  <1>5. CASE \E tx \in Txs : GoesOn(tx)
    BY <1>2, <1>5 DEF GoesOn
  <1> QED
    BY <1>3, <1>4, <1>5 DEF Passed

LEMMA PastKept ==
    ASSUME OInv, [Next]_vars, NEW i \in {15, 16}, Past(i, run', migrations')
    PROVE  HasDone(i, owner', version')
  <1>1. IInv /\ Lasts /\ run \in RunType
    BY Lasting DEF OInv, IInv, RunOK
  <1>2. ASSUME HasDone(i, owner, version) PROVE HasDone(i, owner', version')
    BY <1>1, <1>2, OwnedOnes DEF HasDone, Lasts
  <1>3. ASSUME Past(i, run, migrations) PROVE HasDone(i, owner', version')
    BY <1>2, <1>3 DEF OInv, OrderOK
  <1>4. CASE Anew
    BY <1>3, <1>4 DEF Anew, Past
  <1>5. CASE Ends
    BY <1>3, <1>5 DEF Ends, Idle, Past
  <1>6. CASE Turned
    <2>1. Scripts[i].id \in migrations'
      BY <1>6 DEF Turned, Past
    <2>2. CASE Scripts[i].id \in migrations
      BY <1>3, <2>2 DEF Past
    <2>3. CASE Scripts[i].id \notin migrations
      <3>1. Scripts[i].id = Scripts[Head(run.plan)].id /\ run.step > 1 /\ run.plan # << >>
        BY <1>6, <2>1, <2>3 DEF Turned, Current
      <3>2. Head(run.plan) = i
        BY <1>1, <3>1, CurrentScript, TwoScripts, IdsDiffer
      <3> QED
        BY <1>3, <3>1, <3>2 DEF Past
    <2> QED
      BY <2>2, <2>3
  <1>7. CASE Passed
    <2>1. run'.plan = run.plan /\ run'.step = run.step + 1 /\ migrations' = migrations
      BY <1>7 DEF Passed
    <2>2. CASE Scripts[i].id \in migrations
      BY <1>3, <2>2 DEF Past
    <2>3. CASE run.plan # << >> /\ Head(run.plan) = i
      <3>1. run.step = 1 \/ run.step > 1
        BY <1>1 DEF RunType
      <3> QED
        BY <1>2, <1>3, <1>7, <2>3, <3>1, FirstStepDone DEF Past
    <2> QED
      BY <2>1, <2>2, <2>3 DEF Past
  <1>8. CASE Waited \/ Settled
    BY <1>3, <1>8 DEF Waited, Settled, Past
  <1>9. CASE Same
    BY <1>3, <1>9 DEF Same, Past
  <1> QED
    BY <1>1, <1>4, <1>5, <1>6, <1>7, <1>8, <1>9, Moves

\* The plan of a run keeps the order until the script that comes first is recorded.
LEMMA PlanOrder ==
    ASSUME NEW tag \in Tags, NEW recorded
    PROVE  Follows(Plans[tag], recorded, 9, 16) /\ Follows(Plans[tag], recorded, 18, 15)
  <1>1. /\ LenderManagerTransfer.dependencies = << "LendNest-v2", "lender-manager:deploy" >>
        /\ SherlockUpgrade.dependencies =
              << "default-proxy-admin", "market-registry:deploy", "LendNest-v2:v2-calculations",
                 "LendNest-v2:init", "escrow-vault:deploy" >>
    BY DEF LenderManagerTransfer, SherlockUpgrade, Script, ScriptOn
  <1>2. /\ 1 \in DOMAIN Scripts[9].dependencies /\ Scripts[9].dependencies[1] = "LendNest-v2"
        /\ 4 \in DOMAIN Scripts[18].dependencies
        /\ Scripts[18].dependencies[4] = "LendNest-v2:init"
    BY <1>1, ScriptList
  <1>3. 16 \in Selected("LendNest-v2") /\ ~ Scripts[16].runAtTheEnd
    BY ScriptList DEF Selected, TransferToSafe, Script
  <1>4. 15 \in Selected("LendNest-v2:init") /\ ~ Scripts[15].runAtTheEnd
    BY ScriptList DEF Selected, LendNestV2Init, Script
  <1>5. ASSUME NEW n \in DOMAIN Plans[tag], NEW k \in DOMAIN Scripts[Plans[tag][n]].dependencies,
               NEW d \in Selected(Scripts[Plans[tag][n]].dependencies[k]), ~ Scripts[d].runAtTheEnd
        PROVE  \E m \in 1 .. n - 1 : Plans[tag][m] = d
    BY <1>5, PlansAssumption
  <1> QED
    BY <1>2, <1>3, <1>4, <1>5 DEF Follows

LEMMA FollowsTail ==
    ASSUME IInv, Turned, NEW i, NEW d \in {15, 16}, Follows(run.plan, migrations, i, d)
    PROVE  Follows(run'.plan, migrations', i, d)
  <1>1. /\ run.plan \in Seq(DOMAIN Scripts) /\ run.plan # << >> /\ run'.plan = Tail(run.plan)
        /\ migrations \subseteq migrations'
    BY DEF IInv, RunOK, RunType, Turned
  <1>2. /\ Len(run.plan) \in Nat \ {0} /\ DOMAIN run'.plan = 1 .. Len(run.plan) - 1
        /\ \A n \in 1 .. Len(run.plan) - 1 : run'.plan[n] = run.plan[n + 1]
        /\ DOMAIN run.plan = 1 .. Len(run.plan)
    BY <1>1
  <1>3. Head(run.plan) = d => Scripts[d].id \in migrations'
    BY TwoScripts DEF Turned, Current, IInv, OperatorOK
  <1>4. Head(run.plan) = run.plan[1]
    BY <1>1
  <1>5. ASSUME NEW n \in DOMAIN run'.plan, run'.plan[n] = i, Scripts[d].id \notin migrations'
        PROVE  \E m \in 1 .. n - 1 : run'.plan[m] = d
    <2>1. n + 1 \in DOMAIN run.plan /\ run.plan[n + 1] = i
      BY <1>2, <1>5
    <2> PICK m \in 1 .. n + 1 - 1 : run.plan[m] = d
      BY <1>1, <1>5, <2>1 DEF Follows
    <2>2. m # 1
      BY <1>3, <1>4, <1>5
    <2>3. m - 1 \in 1 .. n - 1 /\ m - 1 \in 1 .. Len(run.plan) - 1 /\ m - 1 + 1 = m
      BY <1>2, <1>5, <2>2
    <2>4. run'.plan[m - 1] = run.plan[m]
      BY <1>2, <2>3
    <2> QED
      BY <2>3, <2>4
  <1> QED
    BY <1>5 DEF Follows

LEMMA FollowsKept ==
    ASSUME OInv, [Next]_vars
    PROVE  Follows(run'.plan, migrations', 9, 16) /\ Follows(run'.plan, migrations', 18, 15)
  <1>1. /\ IInv /\ Follows(run.plan, migrations, 9, 16) /\ Follows(run.plan, migrations, 18, 15)
    BY DEF OInv, OrderOK
  <1>2. CASE Anew
    BY <1>2, PlanOrder DEF Anew
  <1>3. CASE Ends
    <2>1. run'.plan = << >>
      BY <1>3 DEF Ends, Idle
    <2> QED
      BY <2>1 DEF Follows
  <1>4. CASE Turned
    BY <1>1, <1>4, FollowsTail
  <1>5. CASE Passed \/ Waited \/ Settled
    BY <1>1, <1>5 DEF Passed, Waited, Settled
  <1>6. CASE Same
    BY <1>1, <1>6 DEF Same
  <1> QED
    BY <1>1, <1>2, <1>3, <1>4, <1>5, <1>6, Moves

\* The upgrade is proposed once the protocol is open.
LEMMA ProposedOpen ==
    ASSUME OInv, [Next]_vars, proposals'["sherlock-audit:upgrade"] > 0
    PROVE  version' # 0
  <1> DEFINE u == "sherlock-audit:upgrade"
             h == Head(run.plan)
  <1>1. IInv /\ Lasts /\ run \in RunType /\ proposals \in [Upgrades -> Nat]
    BY Lasting DEF OInv, IInv, RunOK, ProposalsOK
  <1>2. ASSUME version # 0 PROVE version' # 0
    BY <1>1, <1>2 DEF Lasts
  <1>3. CASE proposals'[u] = proposals[u]
    BY <1>2, <1>3 DEF OInv, OrderOK
  <1>4. CASE proposals'[u] # proposals[u]
    <2>1. Propose
      BY <1>4, CountsStay
    <2>2. /\ run.plan # << >> /\ h \in DOMAIN Scripts /\ run.plan \in Seq(DOMAIN Scripts)
      BY <1>1, <2>1, AtWork DEF Propose, Working, RunType
    <2>3. proposals' = [proposals EXCEPT ![Scripts[h].id] = @ + 1]
      BY <2>1 DEF Propose, Current
    <2> HIDE DEF h
    <2>4. Scripts[h].id = u
      BY <1>1, <1>4, <2>3
    <2>5. Scripts[18].id = u /\ 18 \in DOMAIN Scripts
      BY ScriptTable, ScriptList DEF Says
    <2>6. h = 18
      BY <2>2, <2>4, <2>5, IdsDiffer
    <2>7. 1 \in DOMAIN run.plan /\ run.plan[1] = 18
      BY <2>2, <2>6 DEF h
    <2>8. Scripts[15].id \in migrations \/ \E m \in 1 .. 1 - 1 : run.plan[m] = 15
      BY <2>7 DEF OInv, OrderOK, Follows
    <2>9. Past(15, run, migrations)
      BY <2>8 DEF Past
    <2> QED
      BY <1>2, <2>9 DEF OInv, OrderOK, HasDone
  <1> QED
    BY <1>3, <1>4

LEMMA InitOrder == Init => OrderOK
  <1> SUFFICES ASSUME Init PROVE OrderOK
    OBVIOUS
  <1>1. /\ pending = << >> /\ run.stage = "idle" /\ run.plan = << >> /\ migrations = {}
        /\ \A c \in Contracts : references[c] = << >>
    BY DEF Init, Idle
  <1>2. proposals["sherlock-audit:upgrade"] = 0
    <2>1. 18 \in DOMAIN Scripts /\ Scripts[18].id = "sherlock-audit:upgrade"
          /\ Scripts[18].steps = << Proposes >>
      BY ScriptTable, ScriptList DEF Says
    <2>2. "sherlock-audit:upgrade" \in Upgrades
      BY <2>1 DEF Upgrades
    <2> QED
      BY <2>2 DEF Init
  <1> QED
    BY <1>1, <1>2 DEF OrderOK, Placed, Past, Follows, Sent

LEMMA StepOrder == OInv /\ [Next]_vars => OInv'
  <1> SUFFICES ASSUME OInv, [Next]_vars PROVE OInv'
    OBVIOUS
  <1>1. IInv'
    BY StepInv DEF OInv
  <1>2. OrderOK'
    <2>1. \A i \in DOMAIN pending' : TxGood(pending'[i], deployment', owner')
      BY PendingGood
    <2>2. /\ run'.stage \in Sent => TxGood(run'.tx, deployment', owner')
          /\ run'.stage = "mined" => TookEffect(run'.tx, owner', version')
      BY SentTxKept
    <2>3. \A c \in Contracts : Placed(references'[c], deployment')
      BY ReferencesGood
    <2>4. \A i \in {15, 16} : Past(i, run', migrations') => HasDone(i, owner', version')
      BY PastKept
    <2>5. Follows(run'.plan, migrations', 9, 16) /\ Follows(run'.plan, migrations', 18, 15)
      BY FollowsKept
    <2>6. proposals'["sherlock-audit:upgrade"] > 0 => version' # 0
      BY ProposedOpen
    <2> QED
      BY <2>1, <2>2, <2>3, <2>4, <2>5, <2>6 DEF OrderOK
  <1> QED
    BY <1>1, <1>2 DEF OInv

-----------------------------------------------------------------------------
(* Steps of a deployment are steps of the hand-over *)

LEMMA SaveBuilds ==
    ASSUME OInv, SaveDeployment
    PROVE  \E c \in Contracts : HO!Build(c)
  <1>1. IInv /\ ChainOK
    BY DEF OInv, IInv
  <1> PICK c \in Contracts, n \in Nat \ {0} :
         /\ run.tx.do = "deploy" /\ deployment[c] = 0 /\ deployment' = [deployment EXCEPT ![c] = n]
         /\ references' = [references EXCEPT ![c] = run.tx.args]
         /\ run.tx.from \in Accounts
         /\ owner' = IF c \in Owned \ {"LendNestV2"} THEN [owner EXCEPT ![c] = run.tx.from]
                     ELSE owner
         /\ version' = version
    BY <1>1, Saved
  <1>2. deployment'[c] = n /\ references'[c] = run.tx.args
    BY <1>1 DEF ChainOK
  <1>3. HO!IsBuilt(references'[c])
    <2>1. Placed(run.tx.args, deployment)
      BY DEF SaveDeployment, Sent, OInv, OrderOK, TxGood
    <2> QED
      BY <1>2, <2>1 DEF Placed, HO!IsBuilt
  <1>4. DOMAIN FinalOwner = Owned
    BY DEF FinalOwner
  <1> QED
    BY <1>2, <1>3, <1>4 DEF HO!Build

LEMMA MineHandsOver ==
    ASSUME OInv, NEW i \in DOMAIN pending, Mine(i)
    PROVE  \/ \E o \in DOMAIN FinalOwner : HO!Give(o)
           \/ HO!Administer \/ HO!Open
           \/ UNCHANGED HO!vars
  <1> DEFINE tx == pending[i]
             old == references["LendNestV2"]
             given == [a \in DOMAIN old \cup DOMAIN tx.args |->
                          IF a \in DOMAIN tx.args THEN tx.args[a] ELSE old[a]]
  <1>1. ChainOK /\ tx \in Txs /\ tx.from \in Accounts /\ TxGood(tx, deployment, owner)
    BY TxFacts DEF OInv, IInv, ChainOK, OrderOK
  <1>2. /\ deployment' = deployment
        /\ version' = IF tx.do = "initialize" /\ ~ WouldRevert(tx) THEN 1 ELSE version
        /\ references' = IF tx.do = "initialize" /\ ~ WouldRevert(tx)
                         THEN [references EXCEPT !["LendNestV2"] = given] ELSE references
        /\ owner' =
             IF WouldRevert(tx) THEN owner
             ELSE CASE tx.do = "initialize" -> [owner EXCEPT !["LendNestV2"] = tx.from]
                    [] tx.do = "transfer" -> [owner EXCEPT ![tx.contract] = tx.to]
                    [] tx.do = "deploy" /\ tx.contract \in Proxies
                       /\ owner["ProxyAdmin"] = Nobody -> [owner EXCEPT !["ProxyAdmin"] = tx.from]
                    [] OTHER -> owner
    BY DEF Mine, diskVars
  <1>3. CASE WouldRevert(tx)
    BY <1>2, <1>3 DEF HO!vars
  <1>4. CASE tx.do = "initialize" /\ ~ WouldRevert(tx)
    <2>1. /\ Placed(tx.args, deployment) /\ Initialized \subseteq DOMAIN tx.args
          /\ Placed(old, deployment) /\ "LendNestV2" \in DOMAIN references
      BY <1>1, <1>4, AllContracts DEF TxGood, OInv, OrderOK, Deployed, ChainOK
    <2>2. Placed(given, deployment) /\ Initialized \subseteq DOMAIN given
      BY <2>1 DEF Placed
    <2>3. /\ version = 0 /\ version' = 1 /\ owner' = [owner EXCEPT !["LendNestV2"] = tx.from]
          /\ references' = [references EXCEPT !["LendNestV2"] = given]
      BY <1>2, <1>4 DEF WouldRevert
    <2> HIDE DEF tx, old, given
    <2>4. references'["LendNestV2"] = given
      BY <2>1, <2>3
    <2>5. HO!IsBuilt(references'["LendNestV2"])
      BY <2>2, <2>4 DEF Placed, HO!IsBuilt
    <2>6. HO!Open
      BY <1>1, <1>2, <2>2, <2>3, <2>4, <2>5 DEF HO!Open
    <2> QED
      BY <2>6
  <1>5. CASE tx.do = "transfer" /\ ~ WouldRevert(tx)
    <2>1. /\ tx.contract \in Owned /\ tx.to = FinalOwner[tx.contract]
          /\ owner[tx.contract] = tx.from
      BY <1>1, <1>5, TxFacts DEF WouldRevert
    <2>2. /\ owner' = [owner EXCEPT ![tx.contract] = FinalOwner[tx.contract]]
          /\ version' = version /\ references' = references
      BY <1>2, <1>5, <2>1
    <2>3. tx.contract = "LenderManager" =>
             version # 0 /\ owner["LendNestV2"] = FinalOwner["LendNestV2"]
      <3>1. tx.contract = "LenderManager" => owner["LendNestV2"] = FinalOwner["LendNestV2"]
        BY <1>1, <1>5 DEF TxGood
      <3> QED
        BY <1>1, <3>1, AccountsDiffer, OwnedOnes DEF ChainOK
    <2> HIDE DEF tx
    <2>4. HO!Give(tx.contract) /\ tx.contract \in DOMAIN FinalOwner
      BY <1>1, <1>2, <2>1, <2>2, <2>3 DEF HO!Give, FinalOwner
    <2> QED
      BY <2>4
  <1>6. CASE tx.do \notin {"initialize", "transfer"} /\ ~ WouldRevert(tx)
    <2>1. version' = version /\ references' = references
      BY <1>2, <1>6
    <2>2. \/ owner' = owner
          \/ owner["ProxyAdmin"] = Nobody /\ owner' = [owner EXCEPT !["ProxyAdmin"] = tx.from]
      BY <1>2, <1>6
    <2> HIDE DEF tx
    <2> QED
      BY <1>1, <1>2, <2>1, <2>2 DEF HO!Administer, HO!vars, Nobody
  <1> QED
    BY <1>3, <1>4, <1>5, <1>6

LEMMA SherlockUpgrades ==
    ASSUME OInv, ExecuteSherlock
    PROVE  HO!Upgrade
  <1>1. /\ version \in {0, 1, 9} /\ version < 9 /\ version # 0 /\ version' = 9
        /\ owner["ProxyAdmin"] = "protocolTimelock"
        /\ UNCHANGED <<deployment, references, owner>>
    BY DEF ExecuteSherlock, OInv, OrderOK, IInv, ChainOK, diskVars
  <1> QED
    BY <1>1, OwnedOnes DEF HO!Upgrade

LEMMA StepRefines == OInv /\ [Next]_vars => [HO!Next]_HO!vars
  <1> SUFFICES ASSUME OInv, [Next]_vars PROVE [HO!Next]_HO!vars
    OBVIOUS
  <1>1. CASE QuietStep \/ SendStep
    <2>1. UNCHANGED <<deployment, references, owner, version>>
      BY <1>1 DEF QuietStep, Quiet, SendStep, Sending
    <2> QED
      BY <2>1 DEF HO!vars
  <1>2. CASE SendTask
    BY <1>2 DEF SendTask, diskVars, chainVars, HO!vars
  <1>3. CASE SaveDeployment
    BY <1>3, SaveBuilds DEF HO!Next
  <1>4. ASSUME NEW i \in DOMAIN pending, Mine(i) PROVE [HO!Next]_HO!vars
    BY <1>4, MineHandsOver DEF HO!Next
  <1>5. CASE ExecuteSherlock
    BY <1>5, SherlockUpgrades DEF HO!Next
  <1> QED
    BY <1>1, <1>2, <1>3, <1>4, <1>5, StepForm DEF OInv

\* deploy/: whatever runs there were, in whole or by tag, with whichever
\* mnemonic, crashed or not, beside the other tasks: a contract is built once and
\* from what was built before it, LendNestV2 opens once and with everything it
\* needs, owners hand over once and in order, and an upgrade comes last.
THEOREM HandOver_Refinement == Spec => ImplementsHandOver
  <1>1. Init => OInv
    BY InitInv, InitOrder DEF OInv
  <1>2. Spec => []OInv
    BY <1>1, StepOrder, PTL DEF Spec
  <1>3. Init => HO!Init
    <2>1. DOMAIN FinalOwner = Owned
      BY DEF FinalOwner
    <2> QED
      BY <2>1 DEF Init, HO!Init, Nobody
  <1> QED
    BY <1>2, <1>3, StepRefines, PTL DEF Spec, ImplementsHandOver, HO!Spec

-----------------------------------------------------------------------------
(* Why a run ends before its time. First, what is missing: a script finds what *)
(* it needs, but for the two whose dependencies leave a contract out.         *)

DeployedBy(i) ==
    {Scripts[i].steps[k].contract :
        k \in {n \in DOMAIN Scripts[i].steps : Scripts[i].steps[n].do = "deploy"}}

\* Script i depends on script d, which is run in its place.
Direct(i, d) ==
    /\ \E k \in DOMAIN Scripts[i].dependencies : d \in Selected(Scripts[i].dependencies[k])
    /\ ~ Scripts[d].runAtTheEnd

\* What a script needs and deploys is built, if it is run on this network.
Supplied(i, built) ==
    network \in Scripts[i].networks => Scripts[i].needs \cup DeployedBy(i) \subseteq built

\* The scripts to run come after those they depend on, or those have supplied.
Awaits(plan, built) ==
    \A n \in DOMAIN plan : \A d \in DOMAIN Scripts :
        Direct(plan[n], d) => Supplied(d, built) \/ \E m \in 1 .. n - 1 : plan[m] = d

\* What LendNestV2 and CollateralManager were deployed with.
Closed(built) ==
    /\ "LendNestV2" \in built => {"MetaForwarder", "V2Calculations"} \subseteq built
    /\ "CollateralManager" \in built => "CollateralEscrowBeacon" \in built

LEMMA DeployedByOne ==
    ASSUME NEW i, NEW step, Scripts[i].steps = << step >>
    PROVE  DeployedBy(i) = IF step.do = "deploy" THEN {step.contract} ELSE {}
  <1>1. DOMAIN Scripts[i].steps = {1} /\ Scripts[i].steps[1] = step
    OBVIOUS
  <1> QED
    BY <1>1 DEF DeployedBy

LEMMA DeployTable ==
    /\ DeployedBy(1) = {"CollateralEscrowBeacon"} /\ DeployedBy(2) = {"CollateralManager"}
    /\ DeployedBy(3) = {} /\ DeployedBy(4) = {"EscrowVault"}
    /\ DeployedBy(5) = {"LenderCommitmentForwarder"}
    /\ DeployedBy(6) = {"LenderCommitmentForwarderStaging"}
    /\ DeployedBy(7) = {"FlashRolloverLoan"} /\ DeployedBy(8) = {"LenderManager"}
    /\ DeployedBy(9) = {} /\ DeployedBy(10) = {"MarketLiquidityRewards"}
    /\ DeployedBy(11) = {"LendNestASRegistry", "LendNestASEIP712Verifier", "LendNestAS",
                         "MarketRegistry"}
    /\ DeployedBy(12) = {"MetaForwarder"} /\ DeployedBy(13) = {"ReputationManager"}
    /\ DeployedBy(14) = {"LendNestV2"} /\ DeployedBy(15) = {} /\ DeployedBy(16) = {}
    /\ DeployedBy(17) = {"V2Calculations"}
    /\ \A i \in 18 .. 22 : DeployedBy(i) = {}
  <1>1. ASSUME NEW i, NEW id, NEW c, NEW needs, NEW args, Says(i, id, needs, << Deploys(c, args) >>)
        PROVE  DeployedBy(i) = {c}
    <2>1. Deploys(c, args).do = "deploy" /\ Deploys(c, args).contract = c
      BY DEF Deploys
    <2> QED
      BY <1>1, <2>1, DeployedByOne DEF Says
  <1>2. ASSUME NEW i, NEW id, NEW needs, NEW step, step.do # "deploy", Says(i, id, needs, << step >>)
        PROVE  DeployedBy(i) = {}
    BY <1>2, DeployedByOne DEF Says
  <1>3. DeployedBy(1) = {"CollateralEscrowBeacon"}
    <2> DEFINE a == Deploys("CollateralEscrowBeacon", {})
               b == Transfers("CollateralEscrowBeacon", "protocolTimelock", FALSE)
    <2>1. Scripts[1].steps = << a, b >>
      BY ScriptTable DEF Says
    <2>2. a.do = "deploy" /\ a.contract = "CollateralEscrowBeacon" /\ b.do # "deploy"
      BY DEF Deploys, Transfers
    <2> HIDE DEF a, b
    <2>3. DOMAIN Scripts[1].steps = {1, 2} /\ Scripts[1].steps[1] = a /\ Scripts[1].steps[2] = b
      BY <2>1
    <2> QED
      BY <2>2, <2>3 DEF DeployedBy
  <1>4. DeployedBy(11) = {"LendNestASRegistry", "LendNestASEIP712Verifier", "LendNestAS",
                          "MarketRegistry"}
    <2> DEFINE a == Deploys("LendNestASRegistry", {})
               b == Deploys("LendNestASEIP712Verifier", {})
               c == Deploys("LendNestAS", {"LendNestASRegistry", "LendNestASEIP712Verifier"})
               d == Deploys("MarketRegistry", {"LendNestAS"})
    <2>1. Scripts[11].steps = << a, b, c, d >>
      BY ScriptTable DEF Says
    <2>2. /\ a.do = "deploy" /\ a.contract = "LendNestASRegistry"
          /\ b.do = "deploy" /\ b.contract = "LendNestASEIP712Verifier"
          /\ c.do = "deploy" /\ c.contract = "LendNestAS"
          /\ d.do = "deploy" /\ d.contract = "MarketRegistry"
      BY DEF Deploys
    <2> HIDE DEF a, b, c, d
    <2>3. /\ DOMAIN Scripts[11].steps = {1, 2, 3, 4} /\ Scripts[11].steps[1] = a
          /\ Scripts[11].steps[2] = b /\ Scripts[11].steps[3] = c /\ Scripts[11].steps[4] = d
      BY <2>1
    <2> QED
      BY <2>2, <2>3 DEF DeployedBy
  <1>5. /\ HandsOver("ProxyAdmin", "protocolTimelock", FALSE).do # "deploy"
        /\ HandsOver("LendNestV2", "protocolOwnerSafe", TRUE).do # "deploy"
        /\ Transfers("LenderManager", "LendNestV2", TRUE).do # "deploy"
        /\ Initializes(Initialized).do # "deploy" /\ Proposes.do # "deploy"
    BY DEF HandsOver, Transfers, Initializes, Proposes
  <1>6. /\ DeployedBy(3) = {} /\ DeployedBy(9) = {} /\ DeployedBy(15) = {} /\ DeployedBy(16) = {}
        /\ DeployedBy(18) = {} /\ DeployedBy(19) = {} /\ DeployedBy(20) = {}
        /\ DeployedBy(21) = {} /\ DeployedBy(22) = {}
    BY <1>2, <1>5, ScriptTable
  <1>7. \A i \in 18 .. 22 : DeployedBy(i) = {}
    BY <1>6
  <1> QED
    BY <1>1, <1>3, <1>4, <1>6, <1>7, ScriptTable

\* A script is selected by its id, and only that of the proxy admin is run at the end.
LEMMA SelectedById ==
    \A d \in DOMAIN Scripts : d # 3 => d \in Selected(Scripts[d].id) /\ ~ Scripts[d].runAtTheEnd
  <1> DEFINE P(d) == Scripts[d].id \in Scripts[d].tags /\ ~ Scripts[d].runAtTheEnd
  <1>1. P(1) /\ P(2) /\ P(4)
    BY ScriptList DEF Script, EscrowBeacon, CollateralManager, EscrowVault
  <1>2. P(5) /\ P(6)
    BY ScriptList DEF Script, LenderCommitmentForwarder, LenderCommitmentForwarderStaging
  <1>3. P(7)
    BY ScriptList DEF Script, ScriptOn, FlashRollover
  <1>4. P(8) /\ P(9) /\ P(10)
    BY ScriptList DEF Script, LenderManager, LenderManagerTransfer, MarketLiquidityRewards
  <1>5. P(11) /\ P(12) /\ P(13)
    BY ScriptList DEF Script, MarketRegistryScript, MetaForwarder, ReputationManager
  <1>6. P(14) /\ P(15) /\ P(16) /\ P(17)
    <2>1. P(14) /\ P(15)
      BY ScriptList DEF Script, LendNestV2Deploy, LendNestV2Init
    <2>2. P(16)
      <3>1. TransferToSafe.id \in TransferToSafe.tags /\ ~ TransferToSafe.runAtTheEnd
        BY DEF Script, TransferToSafe
      <3> QED
        BY <3>1, ScriptList
    <2>3. P(17)
      BY ScriptList DEF Script, V2Calculations
    <2> QED
      BY <2>1, <2>2, <2>3
  <1>7. P(18) /\ P(19)
    BY ScriptList DEF Script, ScriptOn, SherlockUpgrade, MerkleUpgrade
  <1>8. P(20) /\ P(21) /\ P(22)
    BY ScriptList DEF Script, ScriptOn, G2Upgrade, LoanLiquidatedStateUpgrade, FlashRolloverG3Upgrade
  <1> HIDE DEF P
  <1>9. \A d \in DOMAIN Scripts : d # 3 => P(d)
    BY <1>1, <1>2, <1>3, <1>4, <1>5, <1>6, <1>7, <1>8, ScriptList
  <1> QED
    BY <1>9 DEF P, Selected

LEMMA DirectById ==
    ASSUME NEW i \in DOMAIN Scripts, NEW d \in DOMAIN Scripts, d # 3,
           NEW k \in DOMAIN Scripts[i].dependencies, Scripts[i].dependencies[k] = Scripts[d].id
    PROVE  Direct(i, d)
  BY SelectedById DEF Direct

\* Which scripts supply what a script needs.
LEMMA DirectTable ==
    /\ Direct(2, 14) /\ Direct(2, 1) /\ Direct(5, 14) /\ Direct(5, 11)
    /\ Direct(6, 14) /\ Direct(6, 11) /\ Direct(8, 11) /\ Direct(9, 14) /\ Direct(9, 8)
    /\ Direct(13, 14) /\ Direct(14, 12) /\ Direct(14, 17)
    /\ Direct(15, 14) /\ Direct(15, 11) /\ Direct(15, 13) /\ Direct(15, 5) /\ Direct(15, 2)
    /\ Direct(15, 8) /\ Direct(15, 4) /\ Direct(16, 15)
    /\ Direct(18, 11) /\ Direct(18, 17) /\ Direct(18, 15) /\ Direct(18, 4)
    /\ Direct(19, 11) /\ Direct(19, 14) /\ Direct(19, 5) /\ Direct(21, 14)
    /\ Direct(22, 14) /\ Direct(22, 6) /\ Direct(22, 7) /\ Direct(3, 14)
  <1>1. Direct(2, 14) /\ Direct(2, 1)
    <2>1. Scripts[2].dependencies = << "LendNest-v2:deploy", "collateral:escrow-beacon:deploy" >>
      BY ScriptList DEF CollateralManager, Script
    <2> QED
      BY <2>1, DirectById, ScriptTable, ScriptList DEF Says
  <1>2. Direct(5, 14) /\ Direct(5, 11) /\ Direct(6, 14) /\ Direct(6, 11)
    <2>1. /\ Scripts[5].dependencies = << "LendNest-v2:deploy", "market-registry:deploy" >>
          /\ Scripts[6].dependencies = << "LendNest-v2:deploy", "market-registry:deploy" >>
      BY ScriptList DEF LenderCommitmentForwarder, LenderCommitmentForwarderStaging, Script
    <2> QED
      BY <2>1, DirectById, ScriptTable, ScriptList DEF Says
  <1>3. Direct(8, 11) /\ Direct(13, 14) /\ Direct(3, 14)
    <2>1. /\ Scripts[8].dependencies = << "market-registry:deploy" >>
          /\ Scripts[13].dependencies = << "LendNest-v2:deploy" >>
          /\ Scripts[3].dependencies = << "LendNest-v2:deploy" >>
      BY ScriptList DEF LenderManager, ReputationManager, DefaultProxyAdmin, Script
    <2> QED
      BY <2>1, DirectById, ScriptTable, ScriptList DEF Says
  <1>4. Direct(9, 14) /\ Direct(9, 8)
    <2>1. Scripts[9].dependencies = << "LendNest-v2", "lender-manager:deploy" >>
      BY ScriptList DEF LenderManagerTransfer, Script
    <2>2. Scripts[14].tags = {"LendNest-v2"} \cup {"LendNest-v2:deploy"}
      BY ScriptList DEF LendNestV2Deploy, Script
    <2>3. 14 \in Selected("LendNest-v2") /\ ~ Scripts[14].runAtTheEnd
      BY <2>2, SelectedById, ScriptList DEF Selected
    <2>4. Direct(9, 14)
      BY <2>1, <2>3, ScriptList DEF Direct
    <2> QED
      BY <2>1, <2>4, DirectById, ScriptTable, ScriptList DEF Says
  <1>5. Direct(14, 12) /\ Direct(14, 17)
    <2>1. Scripts[14].dependencies = << "meta-forwarder:deploy", "LendNest-v2:v2-calculations" >>
      BY ScriptList DEF LendNestV2Deploy, Script
    <2> QED
      BY <2>1, DirectById, ScriptTable, ScriptList DEF Says
  <1>6. /\ Direct(15, 14) /\ Direct(15, 11) /\ Direct(15, 13) /\ Direct(15, 5) /\ Direct(15, 2)
        /\ Direct(15, 8) /\ Direct(15, 4) /\ Direct(16, 15)
    <2>1. Scripts[15].dependencies =
             << "LendNest-v2:deploy", "market-registry:deploy", "reputation-manager:deploy",
                "lender-commitment-forwarder:deploy", "collateral:manager:deploy",
                "lender-manager:deploy", "escrow-vault:deploy" >>
      BY ScriptList DEF LendNestV2Init, Script
    <2>2. TransferToSafe.dependencies = << "LendNest-v2:init" >>
      BY DEF TransferToSafe, Script
    <2>3. Scripts[16].dependencies = << "LendNest-v2:init" >>
      BY <2>2, ScriptList
    <2> QED
      BY <2>1, <2>3, DirectById, ScriptTable, ScriptList DEF Says
  <1>7. Direct(18, 11) /\ Direct(18, 17) /\ Direct(18, 15) /\ Direct(18, 4)
    <2>1. Scripts[18].dependencies =
             << "default-proxy-admin", "market-registry:deploy", "LendNest-v2:v2-calculations",
                "LendNest-v2:init", "escrow-vault:deploy" >>
      BY ScriptList DEF SherlockUpgrade, Script, ScriptOn
    <2> QED
      BY <2>1, DirectById, ScriptTable, ScriptList DEF Says
  <1>8. Direct(19, 11) /\ Direct(19, 14) /\ Direct(19, 5) /\ Direct(21, 14)
    <2>1. /\ Scripts[19].dependencies =
                << "market-registry:deploy", "LendNest-v2:deploy",
                   "lender-commitment-forwarder:deploy" >>
          /\ Scripts[21].dependencies = << "LendNest-v2:deploy" >>
      BY ScriptList DEF MerkleUpgrade, LoanLiquidatedStateUpgrade, Script, ScriptOn,
                        ForwarderUpgradeDependencies
    <2> QED
      BY <2>1, DirectById, ScriptTable, ScriptList DEF Says
  <1>9. Direct(22, 14) /\ Direct(22, 6) /\ Direct(22, 7)
    <2>1. Scripts[22].dependencies =
             << "LendNest-v2:deploy", "lender-commitment-forwarder:staging:deploy",
                "lender-commitment-forwarder:extensions:flash-rollover:deploy" >>
      BY ScriptList DEF FlashRolloverG3Upgrade, Script, ScriptOn
    <2> QED
      BY <2>1, DirectById, ScriptTable, ScriptList DEF Says
  <1> QED
    BY <1>1, <1>2, <1>3, <1>4, <1>5, <1>6, <1>7, <1>8, <1>9

\* A script whose dependencies have supplied finds what it needs.
LEMMA NeedsMet ==
    ASSUME network \in Networks, NEW i \in DOMAIN Scripts \ {7, 10}, network \in Scripts[i].networks,
           NEW built, Closed(built), \A d \in DOMAIN Scripts : Direct(i, d) => Supplied(d, built)
    PROVE  Scripts[i].needs \subseteq built
  <1> DEFINE Has(d) == Scripts[d].needs \cup DeployedBy(d) \subseteq built
  <1>1. \A d \in 1 .. 17 : d # 7 /\ Direct(i, d) => Has(d)
    BY RecordedScripts, ScriptList DEF RunsOn, Supplied
  <1>2. CASE i \in {1, 3, 4, 11, 12, 17}
    BY <1>2, ScriptTable DEF Says
  <1>3. CASE i \in {2, 5, 6, 8, 9, 13, 14, 19, 21}
    <2>1. CASE i = 2
      BY <1>1, <2>1, DirectTable, DeployTable, ScriptTable DEF Says
    <2>2. CASE i \in {5, 6}
      BY <1>1, <2>2, DirectTable, DeployTable, ScriptTable DEF Says
    <2>3. CASE i = 8
      BY <1>1, <2>3, DirectTable, DeployTable, ScriptTable DEF Says
    <2>4. CASE i = 9
      BY <1>1, <2>4, DirectTable, DeployTable, ScriptTable DEF Says
    <2>5. CASE i = 13
      BY <1>1, <2>5, DirectTable, DeployTable, ScriptTable DEF Says
    <2>6. CASE i = 14
      BY <1>1, <2>6, DirectTable, DeployTable, ScriptTable DEF Says
    <2>7. CASE i = 19
      BY <1>1, <2>7, DirectTable, DeployTable, ScriptTable DEF Says, ForwarderNeeds
    <2>8. CASE i = 21
      <3>1. "LendNestV2" \in built
        BY <1>1, <2>8, DirectTable, DeployTable
      <3> QED
        BY <2>8, <3>1, ScriptTable DEF Says, Closed
    <2> QED
      BY <1>3, <2>1, <2>2, <2>3, <2>4, <2>5, <2>6, <2>7, <2>8
  <1>4. CASE i = 15
    <2>1. Has(14) /\ Has(11) /\ Has(13) /\ Has(5) /\ Has(2) /\ Has(8) /\ Has(4)
      BY <1>1, <1>4, DirectTable
    <2>2. Initialized \cup {"LendNestV2"} \subseteq built
      BY <2>1, DeployTable DEF Initialized
    <2> QED
      BY <1>4, <2>2, ScriptTable DEF Says
  <1>5. CASE i = 16
    <2>1. Has(15)
      BY <1>1, <1>5, DirectTable
    <2> QED
      BY <1>5, <2>1, ScriptTable DEF Says
  <1>6. CASE i = 18
    <2>1. Has(11) /\ Has(17) /\ Has(15) /\ Has(4)
      BY <1>1, <1>6, DirectTable
    <2>2. Initialized \cup {"LendNestV2"} \subseteq built
      BY <2>1, ScriptTable DEF Says
    <2>3. {"MetaForwarder", "V2Calculations", "CollateralEscrowBeacon"} \subseteq built
      BY <2>2 DEF Closed, Initialized
    <2>4. SherlockNeeds \subseteq built
      BY <2>2, <2>3 DEF SherlockNeeds, Initialized
    <2> QED
      BY <1>6, <2>4, ScriptTable DEF Says
  <1>7. CASE i = 20
    <2>1. Scripts[20].networks = {}
      BY ScriptList DEF G2Upgrade, Script, ScriptOn
    <2> QED
      BY <1>7, <2>1
  <1>8. CASE i = 22
    <2>1. Scripts[22].networks = {"mainnet", "polygon", "arbitrum", "base", "goerli", "sepolia"}
      BY ScriptList DEF FlashRolloverG3Upgrade, Script, ScriptOn
    <2>2. Scripts[7].networks = LiveNetworks \cap NetworksWithAave
      BY ScriptList DEF FlashRollover, Script, ScriptOn
    <2>3. network \in Scripts[7].networks
      BY <1>8, <2>1, <2>2 DEF LiveNetworks, NetworksWithAave
    <2>4. Has(14) /\ Has(6) /\ Has(7)
      BY <1>1, <1>8, <2>3, DirectTable, ScriptList DEF Supplied
    <2> QED
      BY <1>8, <2>4, DeployTable, ScriptTable DEF Says
  <1> QED
    BY <1>2, <1>3, <1>4, <1>5, <1>6, <1>7, <1>8, ScriptList

\* A script that is done, or not run, has supplied.
LEMMA HeadSupplied ==
    ASSUME IInv, Turned
    PROVE  Supplied(Head(run.plan), Built)
  <1> DEFINE h == Head(run.plan)
  <1>1. /\ run \in RunType /\ run.plan # << >> /\ ScriptFits(run, migrations, Built, Given)
        /\ RecordsOK(migrations, Built, Given) /\ (Due => run.step > Len(ScriptOf(run).steps))
    BY DEF IInv, RunOK, Turned, Current, ScriptOf
  <1>2. h \in DOMAIN Scripts /\ run.step \in Nat \ {0} /\ ScriptOf(run) = Scripts[h]
        /\ Current = Scripts[h]
    BY <1>1, CurrentScript DEF RunType, ScriptOf, Current
  <1> HIDE DEF h
  <1>3. Len(Scripts[h].steps) \in Nat \ {0} /\ DOMAIN Scripts[h].steps = 1 .. Len(Scripts[h].steps)
    BY <1>2, ScriptsOK DEF ScriptOK
  <1>4. ASSUME network \in Scripts[h].networks
        PROVE  /\ Scripts[h].needs \subseteq Built
               /\ \A k \in DOMAIN Scripts[h].steps : Achieved(Scripts[h].steps[k], Built, Given)
    <2>1. CASE Scripts[h].id \in migrations
      BY <1>1, <1>2, <2>1 DEF RecordsOK
    <2>2. CASE Scripts[h].id \notin migrations
      <3>1. run.step > Len(Scripts[h].steps) /\ run.step > 1
        BY <1>1, <1>2, <1>3, <1>4, <2>2 DEF Due
      <3>2. \A k \in 1 .. Len(Scripts[h].steps) : k \in 1 .. run.step - 1
        BY <1>2, <1>3, <3>1
      <3> QED
        BY <1>1, <1>2, <1>3, <3>1, <3>2 DEF ScriptFits
    <2> QED
      BY <2>1, <2>2
  <1>5. network \in Scripts[h].networks => DeployedBy(h) \subseteq Built
    BY <1>4 DEF DeployedBy, Achieved
  <1> QED
    BY <1>4, <1>5 DEF Supplied, h

SupplyOK == Awaits(run.plan, Built) /\ Closed(Built)

LEMMA BuiltGrows ==
    ASSUME IInv, [Next]_vars
    PROVE  /\ Built \subseteq Built'
           /\ Built' = Built \/ (SaveDeployment /\ Built' \subseteq Built \cup {run.tx.contract})
  <1>1. Built \subseteq Built'
    BY Lasting DEF Lasts, Built
  <1>2. CASE QuietStep \/ SendStep \/ SendTask \/ ExecuteSherlock
    BY <1>2 DEF QuietStep, Quiet, SendStep, Sending, SendTask, ExecuteSherlock, diskVars, Built
  <1>3. ASSUME NEW i \in DOMAIN pending, Mine(i) PROVE Built' = Built
    BY <1>3 DEF Mine, diskVars, Built
  <1>4. CASE SaveDeployment
    <2>1. deployment \in [Contracts -> Nat] /\ run.tx.contract \in Contracts
          /\ deployment' = [deployment EXCEPT ![run.tx.contract] = run.tx.instance]
      BY <1>4, Saved DEF IInv, ChainOK, SaveDeployment
    <2> QED
      BY <1>1, <1>4, <2>1 DEF Built
  <1> QED
    BY <1>1, <1>2, <1>3, <1>4, StepForm

LEMMA ClosedKept ==
    ASSUME IInv, Closed(Built), [Next]_vars
    PROVE  Closed(Built')
  <1>1. CASE SaveDeployment /\ Built' \subseteq Built \cup {run.tx.contract}
    <2> DEFINE h == Head(run.plan)
    <2>1. /\ run \in RunType /\ run.plan # << >> /\ run.step <= Len(ScriptOf(run).steps)
          /\ ScriptOf(run).needs \subseteq Built /\ TxFits(run, Built, Given)
      BY <1>1, AtStep DEF SaveDeployment, Sent
    <2>2. h \in DOMAIN Scripts /\ ScriptOf(run) = Scripts[h] /\ run.step \in DOMAIN Scripts[h].steps
      BY <2>1, CurrentScript DEF ScriptOf
    <2>3. StepOf(run).do = "deploy" /\ run.tx.contract = StepOf(run).contract
      BY <1>1, <2>1 DEF TxFits, SaveDeployment
    <2>4. run.tx.contract \in DeployedBy(h)
      BY <2>2, <2>3 DEF DeployedBy, StepOf
    <2>5. /\ run.tx.contract = "LendNestV2" => h = 14
          /\ run.tx.contract = "CollateralManager" => h = 2
      <3> HIDE DEF h
      <3> QED
        BY <2>2, <2>4, DeployTable, ScriptList
    <2>6. /\ run.tx.contract = "LendNestV2" => {"MetaForwarder", "V2Calculations"} \subseteq Built
          /\ run.tx.contract = "CollateralManager" => "CollateralEscrowBeacon" \in Built
      <3> HIDE DEF h
      <3>1. /\ Scripts[14].needs = {"MetaForwarder", "V2Calculations"}
            /\ Scripts[2].needs = {"CollateralEscrowBeacon", "LendNestV2"}
        BY ScriptTable DEF Says
      <3>2. Scripts[h].needs \subseteq Built
        BY <2>1, <2>2
      <3> QED
        BY <2>5, <3>1, <3>2
    <2>7. Built \subseteq Built'
      BY BuiltGrows
    <2> QED
      BY <1>1, <2>6, <2>7 DEF Closed
  <1> QED
    BY <1>1, BuiltGrows

LEMMA AwaitsKept ==
    ASSUME IInv, SupplyOK, [Next]_vars
    PROVE  SupplyOK'
  <1>1. network' = network /\ Built \subseteq Built'
    BY NetworkStays, BuiltGrows DEF IInv
  <1>2. \A d : Supplied(d, Built) => Supplied(d, Built)'
    BY <1>1 DEF Supplied
  <1>3. ASSUME run'.plan = run.plan PROVE Awaits(run.plan, Built)'
    BY <1>2, <1>3 DEF Awaits, SupplyOK
  <1>4. Awaits(run.plan, Built)'
    <2>1. CASE Anew
      BY <2>1, PlansAssumption DEF Anew, Awaits, Direct
    <2>2. CASE Ends
      <3>1. run'.plan = << >>
        BY <2>2 DEF Ends, Idle
      <3> QED
        BY <3>1 DEF Awaits
    <2>3. CASE Turned
      <3>1. /\ run.plan \in Seq(DOMAIN Scripts) /\ run.plan # << >> /\ run'.plan = Tail(run.plan)
        BY <2>3 DEF IInv, RunOK, RunType, Turned
      <3>2. /\ Len(run.plan) \in Nat \ {0} /\ DOMAIN run'.plan = 1 .. Len(run.plan) - 1
            /\ \A n \in 1 .. Len(run.plan) - 1 : run'.plan[n] = run.plan[n + 1]
            /\ DOMAIN run.plan = 1 .. Len(run.plan) /\ Head(run.plan) = run.plan[1]
        BY <3>1
      <3> PICK h : h = run.plan[1]
        OBVIOUS
      <3>3. Supplied(h, Built)'
        <4>1. Supplied(h, Built)
          BY <2>3, <3>2, HeadSupplied
        <4> QED
          BY <1>2, <4>1
      <3>4. ASSUME NEW n \in DOMAIN run'.plan, NEW d \in DOMAIN Scripts, Direct(run'.plan[n], d),
                   ~ Supplied(d, Built)'
            PROVE  \E m \in 1 .. n - 1 : run'.plan[m] = d
        <4>1. n + 1 \in DOMAIN run.plan /\ run.plan[n + 1] = run'.plan[n]
          BY <3>2
        <4>5. ~ Supplied(d, Built) /\ Direct(run.plan[n + 1], d)
          BY <1>2, <3>4, <4>1
        <4>6. \E m \in 1 .. (n + 1) - 1 : run.plan[m] = d
          <5> DEFINE k == n + 1
          <5>1. k \in DOMAIN run.plan /\ Direct(run.plan[k], d) /\ ~ Supplied(d, Built)
            BY <4>1, <4>5
          <5> HIDE DEF k
          <5>2. \E m \in 1 .. k - 1 : run.plan[m] = d
            BY <5>1 DEF SupplyOK, Awaits
          <5> QED
            BY <5>2 DEF k
        <4> PICK m \in 1 .. (n + 1) - 1 : run.plan[m] = d
          BY <4>6
        <4>2. m # 1
          BY <3>3, <3>4
        <4>3. m - 1 \in 1 .. n - 1 /\ m - 1 \in 1 .. Len(run.plan) - 1 /\ m - 1 + 1 = m
          BY <3>2, <3>4, <4>2
        <4>4. run'.plan[m - 1] = run.plan[m]
          BY <3>2, <4>3
        <4> QED
          BY <4>3, <4>4
      <3> QED
        BY <3>4 DEF Awaits, Direct
    <2>4. CASE Passed \/ Waited \/ Settled \/ Same
      BY <1>3, <2>4 DEF Passed, Waited, Settled, Same
    <2> QED
      BY <2>1, <2>2, <2>3, <2>4, Moves
  <1>5. Closed(Built)'
    BY ClosedKept DEF SupplyOK, Closed
  <1> QED
    BY <1>4, <1>5 DEF SupplyOK

\* A script to run finds what it needs.
LEMMA HeadFinds ==
    ASSUME IInv, SupplyOK, run.plan # << >>, Head(run.plan) \notin {7, 10},
           network \in Scripts[Head(run.plan)].networks
    PROVE  Scripts[Head(run.plan)].needs \subseteq Built
  <1>1. /\ run.plan \in Seq(DOMAIN Scripts) /\ network \in Networks
    BY DeploymentAssumption DEF IInv, RunOK, RunType, OperatorOK
  <1>2. 1 \in DOMAIN run.plan /\ run.plan[1] = Head(run.plan) /\ Head(run.plan) \in DOMAIN Scripts
    BY <1>1
  <1>3. \A d \in DOMAIN Scripts : Direct(run.plan[1], d) => Supplied(d, Built)
    <2>1. \A m : m \notin 1 .. 1 - 1
      OBVIOUS
    <2> QED
      BY <1>2, <2>1 DEF SupplyOK, Awaits
  <1> QED
    BY <1>1, <1>2, <1>3, NeedsMet DEF SupplyOK

LEMMA MissingExplained ==
    ASSUME IInv, SupplyOK, MissingContract
    PROVE  Current.id \in {"liquidity-rewards:deploy",
                           "lender-commitment-forwarder:extensions:flash-rollover:deploy"}
  <1> DEFINE h == Head(run.plan)
  <1>1. /\ run.plan # << >> /\ network \in Scripts[h].networks
        /\ \E c \in Scripts[h].needs : deployment[c] = 0
    BY DEF MissingContract, Running, Due, Current
  <1>2. h \in {7, 10}
    BY <1>1, HeadFinds DEF Built
  <1> QED
    BY <1>2, ScriptTable DEF Says, Current

-----------------------------------------------------------------------------
(* Then, who may send what: the accounts that have deployed, the owners the   *)
(* network names, and what a script waits for.                                *)

\* The steps that send something other than a deployment.
StepSays(i, k) ==
    LET step == Scripts[i].steps[k]
    IN  /\ step.do = "initialize" => i = 15
        /\ step.do = "transfer" =>
              \/ i = 1 /\ k = 2 /\ step.contract = "CollateralEscrowBeacon" /\ ~ step.waits
              \/ i = 9 /\ k = 1 /\ step.contract = "LenderManager" /\ step.waits
        /\ step.do = "handOver" =>
              \/ i = 3 /\ step.contract = "ProxyAdmin" /\ ~ step.waits
              \/ i = 16 /\ step.contract = "LendNestV2" /\ step.waits

LEMMA OneStepSays ==
    ASSUME NEW i, NEW step, Scripts[i].steps = << step >>,
           step.do \in {"transfer", "handOver"} =>
              /\ step.do = "transfer" => i = 9 /\ step.contract = "LenderManager" /\ step.waits
              /\ step.do = "handOver" =>
                    \/ i = 3 /\ step.contract = "ProxyAdmin" /\ ~ step.waits
                    \/ i = 16 /\ step.contract = "LendNestV2" /\ step.waits,
           step.do = "initialize" => i = 15
    PROVE  \A k \in DOMAIN Scripts[i].steps : StepSays(i, k)
  <1>1. DOMAIN Scripts[i].steps = {1} /\ Scripts[i].steps[1] = step
    OBVIOUS
  <1> QED
    BY <1>1 DEF StepSays

LEMMA StepTable ==
    /\ \A i \in DOMAIN Scripts : \A k \in DOMAIN Scripts[i].steps : StepSays(i, k)
    /\ Len(Scripts[1].steps) = 2
    /\ \A i \in {3, 9, 15, 16} : Len(Scripts[i].steps) = 1
  <1> DEFINE P(i) == \A k \in DOMAIN Scripts[i].steps : StepSays(i, k)
  <1>1. P(1) /\ Len(Scripts[1].steps) = 2
    <2> DEFINE a == Deploys("CollateralEscrowBeacon", {})
               b == Transfers("CollateralEscrowBeacon", "protocolTimelock", FALSE)
    <2>1. Scripts[1].steps = << a, b >>
      BY ScriptTable DEF Says
    <2>2. /\ a.do = "deploy"
          /\ b.do = "transfer" /\ b.contract = "CollateralEscrowBeacon" /\ ~ b.waits
      BY DEF Deploys, Transfers
    <2> HIDE DEF a, b
    <2>3. DOMAIN Scripts[1].steps = {1, 2} /\ Scripts[1].steps[1] = a /\ Scripts[1].steps[2] = b
      BY <2>1
    <2> QED
      BY <2>1, <2>2, <2>3 DEF StepSays
  <1>2. P(11)
    <2> DEFINE a == Deploys("LendNestASRegistry", {})
               b == Deploys("LendNestASEIP712Verifier", {})
               c == Deploys("LendNestAS", {"LendNestASRegistry", "LendNestASEIP712Verifier"})
               d == Deploys("MarketRegistry", {"LendNestAS"})
    <2>1. Scripts[11].steps = << a, b, c, d >>
      BY ScriptTable DEF Says
    <2>2. a.do = "deploy" /\ b.do = "deploy" /\ c.do = "deploy" /\ d.do = "deploy"
      BY DEF Deploys
    <2> HIDE DEF a, b, c, d
    <2>3. /\ DOMAIN Scripts[11].steps = {1, 2, 3, 4} /\ Scripts[11].steps[1] = a
          /\ Scripts[11].steps[2] = b /\ Scripts[11].steps[3] = c /\ Scripts[11].steps[4] = d
      BY <2>1
    <2> QED
      BY <2>2, <2>3 DEF StepSays
  <1>3. /\ P(3) /\ P(9) /\ P(15) /\ P(16)
        /\ \A i \in {3, 9, 15, 16} : Len(Scripts[i].steps) = 1
    <2> DEFINE a == HandsOver("ProxyAdmin", "protocolTimelock", FALSE)
               b == Transfers("LenderManager", "LendNestV2", TRUE)
               c == Initializes(Initialized)
               d == HandsOver("LendNestV2", "protocolOwnerSafe", TRUE)
    <2>1. /\ Scripts[3].steps = << a >> /\ Scripts[9].steps = << b >>
          /\ Scripts[15].steps = << c >> /\ Scripts[16].steps = << d >>
      BY ScriptTable DEF Says
    <2>2. /\ a.do = "handOver" /\ a.contract = "ProxyAdmin" /\ ~ a.waits
          /\ b.do = "transfer" /\ b.contract = "LenderManager" /\ b.waits
          /\ c.do = "initialize"
          /\ d.do = "handOver" /\ d.contract = "LendNestV2" /\ d.waits
      BY DEF HandsOver, Transfers, Initializes
    <2> HIDE DEF a, b, c, d
    <2>3. P(3) /\ P(9) /\ P(15) /\ P(16)
      BY <2>1, <2>2, OneStepSays
    <2> QED
      BY <2>1, <2>3
  <1> HIDE DEF P
  <1>5. ASSUME NEW i, NEW id, NEW c, NEW needs, NEW args, Says(i, id, needs, << Deploys(c, args) >>)
        PROVE  P(i)
    <2>1. Deploys(c, args).do = "deploy"
      BY DEF Deploys
    <2> QED
      BY <1>5, <2>1, OneStepSays DEF Says, P
  <1>6. ASSUME NEW i, NEW id, NEW needs, Says(i, id, needs, << Proposes >>)
        PROVE  P(i)
    <2>1. Proposes.do = "propose"
      BY DEF Proposes
    <2> QED
      BY <1>6, <2>1, OneStepSays DEF Says, P
  <1>7. /\ P(2) /\ P(4) /\ P(5) /\ P(6) /\ P(7) /\ P(8) /\ P(10) /\ P(12) /\ P(13) /\ P(14) /\ P(17)
        /\ P(18) /\ P(19) /\ P(20) /\ P(21) /\ P(22)
    BY <1>5, <1>6, ScriptTable
  <1>8. \A i \in DOMAIN Scripts : P(i)
    BY <1>1, <1>2, <1>3, <1>7, ScriptList
  <1> QED
    BY <1>1, <1>3, <1>8 DEF P

\* How an owner changes.
LEMMA OwnerMoves ==
    ASSUME IInv, [Next]_vars, NEW o \in Owned
    PROVE  \/ owner'[o] = owner[o]
           \/ /\ SaveDeployment /\ run.tx.from \in Accounts
              /\ owner[o] = Nobody /\ owner'[o] = run.tx.from
           \/ \E i \in DOMAIN pending :
                 /\ Mine(i) /\ pending[i].from \in Accounts
                 /\ \/ /\ pending[i].do \in {"deploy", "initialize"}
                       /\ owner[o] = Nobody /\ owner'[o] = pending[i].from
                    \/ /\ pending[i].do = "transfer" /\ pending[i].contract = o
                       /\ owner[o] = pending[i].from /\ owner'[o] = FinalOwner[o]
  <1>1. ChainOK
    BY DEF IInv
  <1>2. CASE QuietStep \/ SendStep \/ SendTask \/ ExecuteSherlock
    BY <1>2 DEF QuietStep, Quiet, SendStep, Sending, SendTask, ExecuteSherlock, chainVars
  <1>3. CASE SaveDeployment
    <2> PICK c \in Contracts :
           /\ run.tx.from \in Accounts
           /\ owner' = IF c \in Owned \ {"LendNestV2"} THEN [owner EXCEPT ![c] = run.tx.from]
                       ELSE owner
           /\ c \in Owned \ {"LendNestV2"} => owner[c] = Nobody
      BY <1>3, Saved
    <2> QED
      BY <1>1, <1>3 DEF ChainOK
  <1>4. ASSUME NEW i \in DOMAIN pending, Mine(i), owner'[o] # owner[o]
        PROVE  /\ pending[i].from \in Accounts
               /\ \/ /\ pending[i].do \in {"deploy", "initialize"}
                     /\ owner[o] = Nobody /\ owner'[o] = pending[i].from
                  \/ /\ pending[i].do = "transfer" /\ pending[i].contract = o
                     /\ owner[o] = pending[i].from /\ owner'[o] = FinalOwner[o]
    <2> DEFINE tx == pending[i]
    <2>1. /\ tx \in Txs /\ tx.from \in Accounts
          /\ tx.do \in {"deploy", "initialize", "transfer", "fund"}
          /\ tx.do = "transfer" => tx.contract \in Owned /\ tx.to = FinalOwner[tx.contract]
      BY <1>1, TxFacts DEF ChainOK
    <2>2. owner' =
             IF WouldRevert(tx) THEN owner
             ELSE CASE tx.do = "initialize" -> [owner EXCEPT !["LendNestV2"] = tx.from]
                    [] tx.do = "transfer" -> [owner EXCEPT ![tx.contract] = tx.to]
                    [] tx.do = "deploy" /\ tx.contract \in Proxies
                       /\ owner["ProxyAdmin"] = Nobody -> [owner EXCEPT !["ProxyAdmin"] = tx.from]
                    [] OTHER -> owner
      BY <1>4 DEF Mine
    <2> HIDE DEF tx
    <2>3. DOMAIN owner = Owned /\ (version = 0 => owner["LendNestV2"] = Nobody) /\ ~ WouldRevert(tx)
      BY <1>1, <1>4, <2>2 DEF ChainOK
    <2>4. CASE tx.do = "initialize"
      <3>1. owner' = [owner EXCEPT !["LendNestV2"] = tx.from] /\ version = 0
        BY <2>2, <2>3, <2>4 DEF WouldRevert
      <3> QED
        BY <1>4, <2>1, <2>3, <2>4, <3>1 DEF tx
    <2>5. CASE tx.do = "transfer"
      <3>1. owner' = [owner EXCEPT ![tx.contract] = tx.to] /\ owner[tx.contract] = tx.from
        BY <2>2, <2>3, <2>5 DEF WouldRevert
      <3> QED
        BY <1>4, <2>1, <2>3, <2>5, <3>1 DEF tx
    <2>6. CASE tx.do \in {"deploy", "fund"}
      <3>1. \/ owner' = owner
            \/ /\ tx.do = "deploy" /\ owner["ProxyAdmin"] = Nobody
               /\ owner' = [owner EXCEPT !["ProxyAdmin"] = tx.from]
        BY <2>2, <2>3, <2>6
      <3> QED
        BY <1>4, <2>1, <2>3, <2>6, <3>1 DEF tx
    <2> QED
      BY <2>1, <2>4, <2>5, <2>6
  <1> QED
    BY <1>2, <1>3, <1>4, StepForm

\* How often a fault happened only grows.
LEMMA FaultsGrow ==
    ASSUME IInv, sends \in Nat, [Next]_vars
    PROVE  /\ mnemonic \in Nat \ {0} /\ crashes \in Nat
           /\ mnemonic' \in {mnemonic, mnemonic + 1}
           /\ crashes' \in {crashes, crashes + 1} /\ sends' \in {sends, sends + 1}
  <1> DEFINE Stay == mnemonic' = mnemonic /\ crashes' = crashes /\ sends' = sends
  <1> USE DEF diskVars, chainVars, faultVars
  <1>1. mnemonic \in Nat \ {0} /\ crashes \in Nat
    <2>1. DOMAIN Wallets = 1 .. Len(Wallets) /\ Len(Wallets) \in Nat
      BY DeploymentAssumption
    <2>2. mnemonic \in 1 .. Len(Wallets)
      BY <2>1 DEF IInv, OperatorOK
    <2>3. mnemonic \in Nat \ {0}
      BY <2>1, <2>2
    <2> QED
      BY <2>3 DEF IInv, ProposalsOK
  <1>2. ASSUME NEW why, Abort(why) PROVE Stay
    BY <1>2 DEF Abort
  <1>3. ASSUME NEW step, Send(step) PROVE Stay
    BY <1>2, <1>3 DEF Send
  <1>4. CASE RunNext
    BY <1>1, <1>2, <1>3, <1>4
       DEF RunNext, Skip, EndRun, FinishScript, MissingContract, SubmitDeploy, AlreadyDeployed,
           SaveDeployment, Initialize, Transfer, HandOver, Propose, Resume, WaitThrows
  <1>5. ASSUME NEW i \in DOMAIN pending, Mine(i) PROVE Stay
    BY <1>5 DEF Mine
  <1>6. ASSUME NEW tag \in Tags, StartRun(tag) PROVE Stay
    BY <1>6 DEF StartRun
  <1>7. CASE ExecuteSherlock \/ FundedWallet \/ UNCHANGED vars
    BY <1>1, <1>7 DEF ExecuteSherlock, FundedWallet, vars
  <1>8. CASE Crash \/ SendTask \/ MineContractAddress
    BY <1>1, <1>8 DEF Crash, SendTask, MineContractAddress
  <1> QED
    BY <1>1, <1>4, <1>5, <1>6, <1>7, <1>8 DEF Next, MineNext

\* The accounts that have deployed so far.
Keys == {Deployer(network, Wallets[m]) : m \in 1 .. mnemonic}

\* What was sent was sent by them, and what is not handed over is theirs.
KeysOK ==
    /\ run.stage # "idle" => run.from \in Keys
    /\ \A i \in DOMAIN pending : pending[i].do # "fund" => pending[i].from \in Keys
    /\ run.stage \in Sent => run.tx.from \in Keys
    /\ \A o \in Owned : owner[o] \in Accounts => owner[o] \in Keys

\* What is handed over to a named account, or is to be, says that there is one.
NamesOK ==
    /\ \A i \in DOMAIN pending :
          pending[i].do = "transfer" /\ pending[i].contract # "LenderManager" => OwnersNamed(network)
    /\ \A o \in Owned \ {"LenderManager"} : owner[o] = FinalOwner[o] => OwnersNamed(network)

\* What was sent is the step's, and is waited for only when the step waits.
SentOK ==
    /\ run.stage \in Sent =>
          /\ run.tx.do = StepOf(run).do \/ (run.tx.do = "transfer" /\ StepOf(run).do = "handOver")
          /\ run.tx.do = "transfer" => StepOf(run).waits
    /\ run.stage = "idle" => run.plan = << >>

\* Who hands over owns: LendNestV2 comes with the proxy admin, and is opened before
\* it is handed over.
OwnersOK ==
    /\ "LendNestV2" \in Built
       \/ (run.stage = "mined" /\ run.tx.do = "deploy" /\ run.tx.contract = "LendNestV2") =>
          owner["ProxyAdmin"] # Nobody
    /\ version # 0 => owner["LendNestV2"] # Nobody
    /\ \A c \in {"CollateralEscrowBeacon", "LenderManager"} : c \in Built => owner[c] # Nobody
    /\ Follows(run.plan, migrations, 16, 15)

LEMMA KeysGrow ==
    ASSUME IInv, sends \in Nat, [Next]_vars
    PROVE  Keys \subseteq Keys' /\ Deployer(network, Wallets[mnemonic]) \in Keys
  <1>1. /\ mnemonic \in Nat \ {0} /\ mnemonic' \in {mnemonic, mnemonic + 1} /\ network' = network
    BY FaultsGrow, NetworkStays DEF IInv
  <1>2. 1 .. mnemonic \subseteq 1 .. mnemonic' /\ mnemonic \in 1 .. mnemonic
    BY <1>1
  <1> QED
    BY <1>1, <1>2 DEF Keys

\* What a step sends, and who from.
LEMMA PendingMoves ==
    ASSUME IInv, [Next]_vars, NEW i \in DOMAIN pending'
    PROVE  \/ \E j \in DOMAIN pending : pending'[i] = pending[j]
           \/ pending'[i].do = "fund"
           \/ pending'[i] \in Txs /\ (Waits(pending'[i]) \/ GoesOn(pending'[i]))
  <1>1. pending \in Seq(Txs)
    BY DEF IInv, ChainOK
  <1>2. CASE pending' = pending
    BY <1>2
  <1>3. CASE SendStep
    <2> PICK tx \in Txs : /\ pending' = Append(pending, tx)
                          /\ Waits(tx) \/ GoesOn(tx) \/ tx.do = "fund"
      BY <1>3 DEF SendStep, Sending
    <2>1. /\ DOMAIN pending' = DOMAIN pending \cup {Len(pending) + 1}
          /\ \A j \in DOMAIN pending : pending'[j] = pending[j]
          /\ pending'[Len(pending) + 1] = tx
      BY <1>1
    <2> QED
      BY <2>1
  <1>4. ASSUME NEW n \in DOMAIN pending, pending' = RemoveAt(pending, n)
        PROVE  \E j \in DOMAIN pending : pending'[i] = pending[j]
    BY <1>1, <1>4, RemoveOne
  <1>5. CASE QuietStep \/ SaveDeployment \/ ExecuteSherlock
    BY <1>2, <1>5 DEF QuietStep, Quiet, SaveDeployment, ExecuteSherlock
  <1>6. CASE SendTask \/ \E n \in DOMAIN pending : Mine(n)
    BY <1>4, <1>6 DEF SendTask, Mine
  <1> QED
    BY <1>3, <1>5, <1>6, StepForm

LEMMA KeysKept ==
    ASSUME IInv, sends \in Nat, KeysOK, [Next]_vars
    PROVE  KeysOK'
  <1>1. Keys \subseteq Keys' /\ Deployer(network, Wallets[mnemonic]) \in Keys
    BY KeysGrow
  <1>2. ASSUME NEW tx \in Txs, Waits(tx) \/ GoesOn(tx) PROVE tx.from \in Keys
    BY <1>2 DEF Waits, GoesOn, KeysOK
  <1>3. run'.stage # "idle" => run'.from \in Keys
    <2>1. CASE Anew
      BY <1>1, <2>1 DEF Anew
    <2>2. CASE Ends
      BY <2>2 DEF Ends, Idle
    <2>3. CASE Turned \/ Passed \/ Waited \/ Settled
      <3>1. run.stage # "idle" /\ run'.from = run.from
        BY <2>3 DEF Turned, Passed, Waited, Settled, Working, Waits
      <3> QED
        BY <3>1 DEF KeysOK
    <2>4. CASE Same
      BY <2>4 DEF Same, KeysOK
    <2> QED
      BY <2>1, <2>2, <2>3, <2>4, Moves
  <1>4. \A i \in DOMAIN pending' : pending'[i].do # "fund" => pending'[i].from \in Keys
    BY <1>2, PendingMoves DEF KeysOK
  <1>5. run'.stage \in Sent => run'.tx.from \in Keys
    <2>1. CASE Anew \/ Turned \/ Passed \/ Ends
      BY <2>1 DEF Anew, Turned, Passed, Ends, Idle, Sent
    <2>2. CASE Waited
      BY <1>2, <2>2 DEF Waited
    <2>3. CASE Settled \/ Same
      BY <2>3 DEF Settled, Same, Sent, KeysOK
    <2> QED
      BY <2>1, <2>2, <2>3, Moves
  <1>6. ASSUME NEW o \in Owned, owner'[o] \in Accounts PROVE owner'[o] \in Keys
    <2>1. owner'[o] # FinalOwner[o]
      BY <1>6, AccountsDiffer
    <2>2. CASE owner'[o] = owner[o]
      BY <1>6, <2>2 DEF KeysOK
    <2>3. CASE SaveDeployment /\ owner'[o] = run.tx.from
      BY <2>3 DEF SaveDeployment, Sent, KeysOK
    <2>4. CASE \E i \in DOMAIN pending :
                  pending[i].do \in {"deploy", "initialize"} /\ owner'[o] = pending[i].from
      BY <2>4 DEF KeysOK
    <2> QED
      BY <2>1, <2>2, <2>3, <2>4, OwnerMoves
  <1> QED
    BY <1>1, <1>3, <1>4, <1>5, <1>6 DEF KeysOK

LEMMA NamesKept ==
    ASSUME IInv, NamesOK, [Next]_vars
    PROVE  NamesOK'
  <1>1. network' = network
    BY NetworkStays DEF IInv
  <1>2. ASSUME NEW tx \in Txs, Waits(tx) \/ GoesOn(tx), tx.do = "transfer",
               tx.contract # "LenderManager"
        PROVE  OwnersNamed(network)
    <2>1. Working /\ Named(Step.to) /\ tx.contract = Step.contract
      BY <1>2 DEF Waits, GoesOn
    <2>2. StepOK(Step)
      BY <2>1, AtGivenStep, ScriptsOK DEF ScriptOK
    <2>3. Step.do \in {"transfer", "handOver"}
      BY <1>2 DEF Waits, GoesOn
    <2>4. Step.contract \in Owned /\ Step.to = FinalOwner[Step.contract]
      BY <2>2, <2>3 DEF StepOK
    <2> QED
      BY <1>2, <2>1, <2>4, OwnedOnes DEF Named
  <1>3. \A i \in DOMAIN pending' :
           pending'[i].do = "transfer" /\ pending'[i].contract # "LenderManager" =>
              OwnersNamed(network)
    BY <1>2, PendingMoves DEF NamesOK
  <1>4. ASSUME NEW o \in Owned \ {"LenderManager"}, owner'[o] = FinalOwner[o]
        PROVE  OwnersNamed(network)
    <2>1. FinalOwner[o] \notin Accounts
      BY AccountsDiffer
    <2>2. CASE owner'[o] = owner[o]
      BY <1>4, <2>2 DEF NamesOK
    <2>3. CASE \E i \in DOMAIN pending : pending[i].do = "transfer" /\ pending[i].contract = o
      BY <2>3 DEF NamesOK
    <2> QED
      BY <1>4, <2>1, <2>2, <2>3, OwnerMoves
  <1> QED
    BY <1>1, <1>3, <1>4 DEF NamesOK

LEMMA SentKindKept ==
    ASSUME IInv, SentOK, [Next]_vars
    PROVE  SentOK'
  <1>1. CASE Anew \/ Turned \/ Passed \/ Ends
    BY <1>1 DEF Anew, Turned, Passed, Ends, Idle, Sent, SentOK
  <1>2. CASE Waited
    <2> PICK tx \in Txs : Waits(tx) /\ run'.tx = tx
      BY <1>2 DEF Waited
    <2>1. StepOf(run) = Step /\ StepOf(run') = StepOf(run)
      BY <1>2 DEF Waited, StepOf, ScriptOf, Step, Current
    <2> QED
      BY <2>1 DEF Waits, SentOK
  <1>3. CASE Settled \/ Same
    <2>1. StepOf(run') = StepOf(run)
      BY <1>3 DEF Settled, Same, StepOf, ScriptOf
    <2> QED
      BY <1>3, <2>1 DEF Settled, Same, SentOK, Sent
  <1> QED
    BY <1>1, <1>2, <1>3, Moves

\* Where the version comes from.
LEMMA VersionMoves ==
    ASSUME OInv, [Next]_vars, version = 0, version' # 0
    PROVE  \E i \in DOMAIN pending : Mine(i) /\ pending[i].do = "initialize" /\ ~ WouldRevert(pending[i])
  <1>1. IInv
    BY DEF OInv
  <1>2. CASE QuietStep \/ SendStep \/ SendTask \/ SaveDeployment
    BY <1>2 DEF QuietStep, Quiet, SendStep, Sending, SendTask, SaveDeployment, chainVars
  <1>3. CASE ExecuteSherlock
    BY <1>3 DEF ExecuteSherlock, OInv, OrderOK
  <1>4. ASSUME NEW i \in DOMAIN pending, Mine(i)
        PROVE  pending[i].do = "initialize" /\ ~ WouldRevert(pending[i])
    BY <1>4 DEF Mine
  <1> QED
    BY <1>1, <1>2, <1>3, <1>4, StepForm

LEMMA OwnedStays ==
    ASSUME IInv, [Next]_vars, NEW o \in Owned, owner[o] # Nobody
    PROVE  owner'[o] # Nobody
  BY OwnerMoves, AccountsDiffer

LEMMA OwnersKept ==
    ASSUME OInv, OwnersOK, [Next]_vars
    PROVE  OwnersOK'
  <1> DEFINE c == "LendNestV2"
             Comes == run.stage = "mined" /\ run.tx.do = "deploy" /\ run.tx.contract = c
  <1>1. IInv /\ Lasts /\ c \in Owned /\ "ProxyAdmin" \in Owned
    BY Lasting, OwnedOnes DEF OInv
  <1>2. ASSUME c \in Built \/ Comes PROVE owner'["ProxyAdmin"] # Nobody
    BY <1>1, <1>2, OwnedStays DEF OwnersOK
  <1>3. ASSUME c \in Built' PROVE owner'["ProxyAdmin"] # Nobody
    <2>1. c \in Built \/ (SaveDeployment /\ run.tx.contract = c)
      BY <1>1, <1>3, BuiltGrows
    <2> QED
      BY <1>2, <2>1 DEF SaveDeployment
  <1>4. ASSUME Comes' PROVE owner'["ProxyAdmin"] # Nobody
    <2>1. CASE Same
      BY <1>2, <1>4, <2>1 DEF Same
    <2>2. CASE Settled
      <3> PICK i \in DOMAIN pending : Mine(i) /\ pending[i] = run.tx /\ run'.tx = run.tx
                                      /\ ~ WouldRevert(pending[i])
        BY <1>4, <2>2 DEF Settled
      <3>1. pending[i].do = "deploy" /\ pending[i].contract = c
        BY <1>4
      <3>2. c \in Proxies /\ DOMAIN owner = Owned
        BY <1>1, AllContracts DEF Proxies, Deployed, IInv, ChainOK
      <3>3. owner["ProxyAdmin"] = Nobody =>
               owner' = [owner EXCEPT !["ProxyAdmin"] = pending[i].from]
        BY <3>1, <3>2 DEF Mine
      <3>4. pending[i].from # Nobody
        BY <1>1, TxFacts, AccountsDiffer DEF IInv, ChainOK
      <3> QED
        BY <1>1, <3>2, <3>3, <3>4, OwnedStays
    <2>3. CASE Anew \/ Ends \/ Turned \/ Passed \/ Waited
      BY <1>4, <2>3 DEF Anew, Ends, Idle, Turned, Passed, Waited
    <2> QED
      BY <1>1, <2>1, <2>2, <2>3, Moves
  <1>5. ASSUME version' # 0 PROVE owner'[c] # Nobody
    <2>1. CASE version # 0
      BY <1>1, <2>1, OwnedStays DEF OwnersOK
    <2>2. CASE version = 0
      <3> PICK i \in DOMAIN pending : Mine(i) /\ pending[i].do = "initialize"
                                      /\ ~ WouldRevert(pending[i])
        BY <1>5, <2>2, VersionMoves
      <3>1. owner' = [owner EXCEPT ![c] = pending[i].from] /\ DOMAIN owner = Owned
        BY <1>1 DEF Mine, IInv, ChainOK
      <3>2. pending[i].from # Nobody
        BY <1>1, TxFacts, AccountsDiffer DEF IInv, ChainOK
      <3> QED
        BY <1>1, <3>1, <3>2
    <2> QED
      BY <2>1, <2>2
  <1>6. Follows(run'.plan, migrations', 16, 15)
    <2>1. CASE Anew
      <3>1. 15 \in DOMAIN Scripts
        BY ScriptList
      <3> PICK tag \in Tags : run'.plan = Plans[tag]
        BY <2>1 DEF Anew
      <3> PICK k \in DOMAIN Scripts[16].dependencies : 15 \in Selected(Scripts[16].dependencies[k])
        BY DirectTable DEF Direct
      <3>2. ~ Scripts[15].runAtTheEnd
        BY DirectTable DEF Direct
      <3>3. \A n \in DOMAIN Plans[tag] : Plans[tag][n] = 16 =>
               \E m \in 1 .. n - 1 : Plans[tag][m] = 15
        BY <3>1, <3>2, PlansAssumption
      <3> QED
        BY <3>3 DEF Follows
    <2>2. CASE Ends
      <3>1. run'.plan = << >>
        BY <2>2 DEF Ends, Idle
      <3> QED
        BY <3>1 DEF Follows
    <2>3. CASE Turned
      BY <1>1, <2>3, FollowsTail DEF OwnersOK
    <2>4. CASE Passed \/ Waited \/ Settled \/ Same
      BY <2>4 DEF Passed, Waited, Settled, Same, OwnersOK
    <2> QED
      BY <1>1, <2>1, <2>2, <2>3, <2>4, Moves
  <1>7. ASSUME NEW d \in {"CollateralEscrowBeacon", "LenderManager"}, d \in Built'
        PROVE  owner'[d] # Nobody
    <2>1. d \in Owned
      BY OwnedOnes
    <2>2. CASE d \in Built
      BY <1>1, <2>1, <2>2, OwnedStays DEF OwnersOK
    <2>3. CASE SaveDeployment /\ run.tx.contract = d
      <3>1. run.tx \in Txs /\ DOMAIN owner = Owned
        BY <1>1, <2>3, AtStep DEF SaveDeployment, Sent, TxFits, IInv, ChainOK
      <3>2. run.tx.from # Nobody
        BY <3>1, TxFacts, AccountsDiffer
      <3>3. owner' = [owner EXCEPT ![d] = run.tx.from]
        BY <2>1, <2>3 DEF SaveDeployment
      <3> QED
        BY <2>1, <3>1, <3>2, <3>3
    <2> QED
      BY <1>1, <1>7, <2>2, <2>3, BuiltGrows
  <1> QED
    BY <1>3, <1>4, <1>5, <1>6, <1>7 DEF OwnersOK

\* Another account than the owner's owns only after the mnemonic was overwritten,
\* and not on a local network, whose deploying account is fixed.
LEMMA OtherKey ==
    ASSUME IInv, sends \in Nat, NEW k \in Keys, NEW l \in Keys, k # l
    PROVE  mnemonic > 1 /\ network \notin LocalNetworks
  <1>1. mnemonic \in Nat \ {0} /\ network \in Networks
    <2>1. DOMAIN Wallets = 1 .. Len(Wallets) /\ Len(Wallets) \in Nat
      BY DeploymentAssumption
    <2>2. mnemonic \in 1 .. Len(Wallets) /\ network \in Targets
      BY <2>1 DEF IInv, OperatorOK
    <2> QED
      BY <2>1, <2>2, DeploymentAssumption
  <1>2. PICK m \in 1 .. mnemonic, n \in 1 .. mnemonic :
           k = Deployer(network, Wallets[m]) /\ l = Deployer(network, Wallets[n])
    BY DEF Keys
  <1>3. m # n
    BY <1>2
  <1>4. mnemonic > 1
    BY <1>1, <1>3
  <1>5. ChainId[network] # 31337
    BY <1>2 DEF Deployer
  <1>6. \A n1 \in LocalNetworks : n1 \in Networks /\ ChainId[n1] = 31337
    BY DEF LocalNetworks, Networks, ChainId
  <1> QED
    BY <1>4, <1>5, <1>6

-----------------------------------------------------------------------------
(* Last, deployments no run of which died and nothing of which was replaced:  *)
(* what is sent takes effect, and a script that has sent what cannot be sent  *)
(* again is recorded.                                                         *)

Calm == crashes = 0 /\ sends = 0

\* The transactions a run waits for that can fail.
Contested(tx) ==
    \/ tx.do = "initialize"
    \/ tx.do = "transfer" /\ tx.contract \in {"LendNestV2", "LenderManager"}

\* Script i is recorded, or has only to finish.
Through(i) ==
    \/ Scripts[i].id \in migrations
    \/ /\ run.plan # << >> /\ Head(run.plan) = i
       /\ \/ run.step > Len(Scripts[i].steps)
          \/ run.stage = "mined" /\ run.step = Len(Scripts[i].steps)

CalmOK ==
    /\ \A i \in DOMAIN pending : Contested(pending[i]) => run.stage = "waiting" /\ pending[i] = run.tx
    /\ \A i, j \in DOMAIN pending : Contested(pending[i]) /\ Contested(pending[j]) => i = j
    /\ run.stage = "waiting" => ~ WouldRevert(run.tx)
    /\ run.stage # "failed"
    /\ version # 0 => Through(15)
    /\ owner["LenderManager"] = FinalOwner["LenderManager"] => Through(9)
    /\ owner["CollateralEscrowBeacon"] = FinalOwner["CollateralEscrowBeacon"]
       \/ OnItsWay("CollateralEscrowBeacon") => Through(1)

\* How a run ends.
LEMMA EndsForm ==
    ASSUME IInv, SentOK, [Next]_vars, run'.stage = "idle"
    PROVE  \/ run.plan = << >> \/ run.stage = "failed" \/ Crash
           \/ run.stage = "running" /\ run.step <= Len(Current.steps)
  <1>1. run \in RunType /\ Idle.stage = "idle" /\ Idle.plan = << >>
    BY DEF IInv, RunOK, Idle
  <1> USE DEF diskVars, chainVars, faultVars
  <1>2. ASSUME NEW kind, At(kind) PROVE run.stage = "running" /\ run.step <= Len(Current.steps)
    BY <1>2 DEF At, Running
  <1>3. ASSUME run' = run PROVE run.plan = << >>
    BY <1>3 DEF SentOK
  <1>4. CASE SubmitDeploy \/ AlreadyDeployed \/ Initialize \/ Transfer \/ HandOver \/ Propose
    BY <1>2, <1>4 DEF SubmitDeploy, AlreadyDeployed, Initialize, Transfer, HandOver, Propose
  <1>5. CASE MissingContract
    <2>1. Head(run.plan) \in DOMAIN Scripts /\ run.plan # << >> /\ run.stage = "running"
          /\ run.step = 1
      BY <1>1, <1>5, CurrentScript DEF MissingContract, Running
    <2>2. Len(Current.steps) \in Nat \ {0}
      BY <2>1, ScriptsOK DEF ScriptOK, Current
    <2> QED
      BY <2>1, <2>2
  <1>6. CASE WaitThrows \/ EndRun
    BY <1>6 DEF WaitThrows, EndRun
  <1>7. CASE Skip \/ FinishScript
    BY <1>1, <1>7 DEF Skip, FinishScript, Running, RunType
  <1>8. CASE SaveDeployment \/ Resume
    BY <1>1, <1>8, NextRun DEF SaveDeployment, Resume
  <1>9. ASSUME NEW tag \in Tags, StartRun(tag) PROVE FALSE
    BY <1>9 DEF StartRun, Idle
  <1>10. ASSUME NEW i \in DOMAIN pending, Mine(i) PROVE run' = run
    <2>1. CASE WaitedFor(i)
      BY <1>1, <1>10, <2>1 DEF Mine, RunType
    <2> QED
      BY <1>10, <2>1 DEF Mine
  <1>11. CASE SendTask
    BY <1>1, <1>3, <1>11 DEF SendTask, RunType
  <1>12. CASE ExecuteSherlock \/ FundedWallet \/ MineContractAddress \/ UNCHANGED vars
    BY <1>3, <1>12 DEF ExecuteSherlock, FundedWallet, MineContractAddress, vars
  <1> QED
    BY <1>3, <1>4, <1>5, <1>6, <1>7, <1>8, <1>9, <1>10, <1>11, <1>12
       DEF Next, RunNext, MineNext

\* What is waited for can fail only in these three scripts, at their last step.
LEMMA SentAt ==
    ASSUME IInv, SentOK, run.stage \in Sent
    PROVE  /\ run.tx \in Txs /\ run.plan # << >>
           /\ run.tx.do = "initialize" =>
                 Head(run.plan) = 15 /\ run.step = Len(Scripts[15].steps)
           /\ run.tx.do = "transfer" =>
                 \/ /\ run.tx.contract = "LenderManager"
                    /\ Head(run.plan) = 9 /\ run.step = Len(Scripts[9].steps)
                 \/ run.tx.contract = "LendNestV2"
  <1> DEFINE h == Head(run.plan)
  <1>1. /\ run \in RunType /\ run.plan # << >> /\ run.step <= Len(ScriptOf(run).steps)
        /\ TxFits(run, Built, Given)
    BY AtStep
  <1>2. /\ h \in DOMAIN Scripts /\ ScriptOf(run) = Scripts[h] /\ run.step \in DOMAIN Scripts[h].steps
        /\ run.step \in Nat \ {0}
    BY <1>1, CurrentScript DEF ScriptOf, RunType
  <1> HIDE DEF h
  <1>3. StepOf(run) = Scripts[h].steps[run.step] /\ StepSays(h, run.step)
    BY <1>2, StepTable DEF StepOf
  <1>4. run.tx \in Txs /\ (run.tx.do = "transfer" => run.tx.contract = StepOf(run).contract)
    BY <1>1 DEF TxFits
  <1>5. ASSUME run.tx.do = "initialize" PROVE h = 15 /\ run.step = Len(Scripts[15].steps)
    <2>1. h = 15
      BY <1>3, <1>5 DEF SentOK, StepSays
    <2>2. Len(Scripts[15].steps) = 1
      BY StepTable
    <2>3. run.step <= Len(Scripts[15].steps)
      BY <1>1, <1>2, <2>1
    <2> QED
      BY <1>2, <2>1, <2>2, <2>3
  <1>6. ASSUME run.tx.do = "transfer"
        PROVE  \/ run.tx.contract = "LenderManager" /\ h = 9 /\ run.step = Len(Scripts[9].steps)
               \/ run.tx.contract = "LendNestV2"
    <2>1. \/ run.tx.contract = "LenderManager" /\ h = 9
          \/ run.tx.contract = "LendNestV2"
      BY <1>3, <1>4, <1>6 DEF SentOK, StepSays
    <2>2. Len(Scripts[9].steps) = 1
      BY StepTable
    <2>3. h = 9 => run.step <= Len(Scripts[9].steps)
      BY <1>1, <1>2
    <2> QED
      BY <1>2, <2>1, <2>2, <2>3
  <1> QED
    BY <1>1, <1>4, <1>5, <1>6 DEF h

LEMMA SendingAt ==
    ASSUME IInv, NEW tx \in Txs, tx.do = "transfer"
    PROVE  /\ Waits(tx) => tx.contract \in {"LendNestV2", "LenderManager"}
           /\ GoesOn(tx) => /\ tx.contract \in {"CollateralEscrowBeacon", "ProxyAdmin"}
                            /\ tx.contract = "CollateralEscrowBeacon" =>
                                  Head(run.plan) = 1 /\ run.step = Len(Scripts[1].steps)
  <1> DEFINE h == Head(run.plan)
  <1>1. ASSUME Waits(tx) \/ GoesOn(tx)
        PROVE  /\ Step = Scripts[h].steps[run.step] /\ StepSays(h, run.step)
               /\ tx.contract = Step.contract /\ Step.do \in {"transfer", "handOver"}
    <2>1. Working
      BY <1>1 DEF Waits, GoesOn
    <2>2. h \in DOMAIN Scripts /\ run.step \in DOMAIN Scripts[h].steps
          /\ Step = Scripts[h].steps[run.step]
      BY <2>1, AtGivenStep
    <2>3. tx.contract = Step.contract /\ Step.do \in {"transfer", "handOver"}
      BY <1>1 DEF Waits, GoesOn
    <2> HIDE DEF h
    <2> QED
      BY <2>2, <2>3, StepTable
  <1> HIDE DEF h
  <1>2. Waits(tx) => Step.waits
    BY DEF Waits
  <1>3. GoesOn(tx) => ~ Step.waits
    BY DEF GoesOn
  <1> QED
    BY <1>1, <1>2, <1>3, StepTable DEF StepSays, h

\* A transaction that can fail and is mined is the one that is waited for, and
\* takes effect.
LEMMA ContestedMined ==
    ASSUME OInv, SentOK, CalmOK, NEW i \in DOMAIN pending, Mine(i), Contested(pending[i])
    PROVE  /\ run.stage = "waiting" /\ pending[i] = run.tx /\ ~ WouldRevert(pending[i])
           /\ run'.stage = "mined" /\ run'.plan = run.plan /\ run'.step = run.step
           /\ migrations' = migrations
           /\ \A j \in DOMAIN pending' : ~ Contested(pending'[j])
  <1>1. run \in RunType /\ pending \in Seq(Txs)
    BY DEF OInv, IInv, RunOK, ChainOK
  <1>2. run.stage = "waiting" /\ pending[i] = run.tx /\ ~ WouldRevert(pending[i])
    BY DEF CalmOK
  <1>3. ASSUME NEW j \in i + 1 .. Len(pending) PROVE pending[j] # run.tx
    <2>1. j \in DOMAIN pending /\ j # i
      BY <1>1
    <2> QED
      BY <1>2, <2>1 DEF CalmOK
  <1>4. WaitedFor(i)
    BY <1>2, <1>3 DEF WaitedFor
  <1>5. run' = [run EXCEPT !.stage = "mined"] /\ migrations' = migrations
        /\ pending' = RemoveAt(pending, i)
    BY <1>2, <1>4 DEF Mine, diskVars
  <1>6. run'.stage = "mined" /\ run'.plan = run.plan /\ run'.step = run.step
    BY <1>1, <1>5 DEF RunType
  <1>7. ASSUME NEW j \in DOMAIN pending', Contested(pending'[j]) PROVE FALSE
    <2>1. /\ DOMAIN pending = 1 .. Len(pending) /\ DOMAIN pending' = 1 .. Len(pending) - 1
          /\ pending'[j] = IF j < i THEN pending[j] ELSE pending[j + 1]
      BY <1>1, <1>5, RemoveOne
    <2>2. PICK k \in DOMAIN pending : k # i /\ pending'[j] = pending[k]
      <3>1. Len(pending) \in Nat /\ i \in 1 .. Len(pending) /\ j \in 1 .. Len(pending) - 1
        BY <1>1, <2>1
      <3>2. CASE j < i
        BY <2>1, <3>1, <3>2
      <3>3. CASE ~ (j < i)
        <4>1. j + 1 \in DOMAIN pending /\ j + 1 # i
          BY <2>1, <3>1, <3>3
        <4> QED
          BY <2>1, <3>3, <4>1
      <3> QED
        BY <3>2, <3>3
    <2> QED
      BY <1>7, <2>2 DEF CalmOK
  <1> QED
    BY <1>2, <1>5, <1>6, <1>7

\* A script that has only to finish does.
LEMMA ThroughKept ==
    ASSUME IInv, SentOK, run.stage # "failed", [Next]_vars, ~ Crash, NEW i \in {1, 9, 15}, Through(i)
    PROVE  Through(i)'
  <1>1. run \in RunType /\ i \in DOMAIN Scripts
    BY ScriptList DEF IInv, RunOK
  <1>2. Len(Scripts[i].steps) \in Nat \ {0} /\ run.step \in Nat \ {0}
    BY <1>1, ScriptsOK DEF ScriptOK, RunType
  <1>3. ASSUME Scripts[i].id \in migrations' PROVE Through(i)'
    BY <1>3 DEF Through
  <1>4. CASE Scripts[i].id \in migrations
    <2>1. migrations \subseteq migrations'
      BY Moves DEF Anew, Ends, Turned, Passed, Waited, Settled, Same
    <2> QED
      BY <1>3, <1>4, <2>1
  <1>5. CASE /\ Scripts[i].id \notin migrations /\ run.plan # << >> /\ Head(run.plan) = i
             /\ \/ run.step > Len(Scripts[i].steps)
                \/ run.stage = "mined" /\ run.step = Len(Scripts[i].steps)
    <2>1. Current = Scripts[i]
      BY <1>5 DEF Current
    <2>2. CASE Anew
      BY <1>5, <2>2 DEF Anew, Idle
    <2>3. CASE Ends
      <3>1. run'.stage = "idle"
        BY <2>3 DEF Ends, Idle
      <3> QED
        BY <1>2, <1>5, <2>1, <3>1, EndsForm
    <2>4. CASE Turned
      <3>1. RunsOn(i) /\ i \in 1 .. 17 /\ i # 7 /\ i # 17
        BY <1>1, RecordedScripts
      <3>2. Scripts[i].records /\ Scripts[i].networks = Networks
        BY <3>1 DEF RunsOn
      <3>3. network \in Networks
        BY DeploymentAssumption DEF IInv, OperatorOK
      <3>4. Current.records /\ network \in Current.networks
        BY <2>1, <3>2, <3>3
      <3> QED
        BY <1>3, <2>1, <2>4, <3>4 DEF Turned
    <2>5. CASE Passed
      BY <1>2, <1>5, <2>5 DEF Passed, Through
    <2>6. CASE Waited
      <3>1. run.stage = "running" /\ run.step <= Len(Current.steps)
        BY <2>6 DEF Waited, Waits, Working
      <3> QED
        BY <1>2, <1>5, <2>1, <3>1
    <2>7. CASE Settled
      BY <1>5, <2>7 DEF Settled, Through
    <2>8. CASE Same
      BY <1>5, <2>8 DEF Same, Through
    <2> QED
      BY <2>2, <2>3, <2>4, <2>5, <2>6, <2>7, <2>8, Moves
  <1> QED
    BY <1>4, <1>5 DEF Through

\* What a calm step is: no run dies, and nothing is replaced.
LEMMA CalmStep ==
    ASSUME IInv, sends \in Nat, [Next]_vars, Calm'
    PROVE  Calm /\ ~ Crash /\ ~ SendTask
  <1>1. crashes \in Nat /\ crashes' \in {crashes, crashes + 1} /\ sends' \in {sends, sends + 1}
    BY FaultsGrow
  <1>2. crashes' = 0 /\ sends' = 0
    BY DEF Calm
  <1>3. Calm
    BY <1>1, <1>2 DEF Calm
  <1>4. ~ (crashes' = crashes + 1) /\ ~ (sends' = sends + 1)
    BY <1>2, <1>3 DEF Calm
  <1> QED
    BY <1>3, <1>4 DEF Crash, SendTask

\* What a run goes on waiting for is not overtaken.
LEMMA NotOvertaken ==
    ASSUME OInv, SentOK, CalmOK, [Next]_vars, run'.stage = "waiting"
    PROVE  /\ version = 0 => version' = 0
           /\ \A o \in {"LendNestV2", "LenderManager"} : owner[o] \in Accounts => owner'[o] = owner[o]
  <1>1. IInv
    BY DEF OInv
  <1>2. ASSUME NEW i \in DOMAIN pending, Mine(i), Contested(pending[i]) PROVE FALSE
    <2>1. run'.stage = "mined"
      BY <1>2, ContestedMined
    <2> QED
      BY <2>1
  <1>3. version = 0 => version' = 0
    BY <1>2, VersionMoves DEF Contested
  <1>4. ASSUME NEW o \in {"LendNestV2", "LenderManager"}, owner[o] \in Accounts
        PROVE  owner'[o] = owner[o]
    <2>1. owner[o] # Nobody /\ o \in Owned
      BY <1>4, AccountsDiffer, OwnedOnes
    <2> QED
      BY <1>1, <1>2, <1>4, <2>1, OwnerMoves DEF Contested
  <1> QED
    BY <1>3, <1>4

LEMMA CalmWaits ==
    ASSUME OInv, SentOK, CalmOK, [Next]_vars, ~ SendTask
    PROVE  run'.stage # "failed" /\ (run'.stage = "waiting" => ~ WouldRevert(run.tx)')
  <1>1. IInv
    BY DEF OInv
  <1>2. run'.stage # "failed"
    <2>1. CASE Settled
      BY <2>1 DEF Settled, CalmOK
    <2>2. CASE Same
      BY <2>2 DEF Same, CalmOK
    <2>3. CASE Anew \/ Ends \/ Turned \/ Passed \/ Waited
      BY <2>3 DEF Anew, Ends, Idle, Turned, Passed, Waited
    <2> QED
      BY <1>1, <2>1, <2>2, <2>3, Moves
  <1>3. ASSUME run'.stage = "waiting"
        PROVE  ~ WouldRevert(run.tx)'
    <2>1. /\ run'.tx \in Txs /\ ~ WouldRevert(run'.tx)
          /\ run'.tx.do = "transfer" => run'.tx.contract \in {"LendNestV2", "LenderManager"}
      <3>1. CASE Waited
        <4> PICK tx \in Txs : Waits(tx) /\ run'.tx = tx
          BY <3>1 DEF Waited
        <4> QED
          BY <1>1, SendingAt DEF Waits
      <3>2. CASE Same
        BY <1>1, <1>3, <3>2, SentAt DEF Same, CalmOK, Sent
      <3>3. CASE Anew \/ Ends \/ Turned \/ Passed \/ Settled
        BY <1>3, <3>3 DEF Anew, Ends, Idle, Turned, Passed, Settled
      <3> QED
        BY <1>1, <3>1, <3>2, <3>3, Moves
    <2> PICK tx \in Txs : tx = run'.tx
      BY <2>1
    <2>2. tx.from \in Accounts
      BY TxFacts
    <2>3. /\ tx.do = "initialize" => version' = 0
          /\ tx.do = "transfer" => owner'[tx.contract] = tx.from
      BY <1>3, <2>1, <2>2, NotOvertaken DEF WouldRevert
    <2> QED
      BY <2>3 DEF WouldRevert
  <1> QED
    BY <1>2, <1>3

\* What can fail is what is waited for, and there is one of it.
LEMMA CalmPending ==
    ASSUME OInv, SentOK, CalmOK, [Next]_vars, ~ Crash, ~ SendTask
    PROVE  /\ \A i \in DOMAIN pending' :
                 Contested(pending'[i]) => run'.stage = "waiting" /\ pending'[i] = run'.tx
           /\ \A i, j \in DOMAIN pending' : Contested(pending'[i]) /\ Contested(pending'[j]) => i = j
  <1>1. IInv /\ run \in RunType /\ pending \in Seq(Txs)
    BY DEF OInv, IInv, RunOK, ChainOK
  <1>2. ASSUME NEW tx \in Txs, GoesOn(tx) \/ tx.do = "fund" PROVE ~ Contested(tx)
    <2>1. CASE GoesOn(tx)
      <3>1. tx.do = "transfer"
        BY <2>1 DEF GoesOn
      <3>2. tx.contract \in {"CollateralEscrowBeacon", "ProxyAdmin"}
        BY <1>1, <2>1, <3>1, SendingAt
      <3> QED
        BY <3>1, <3>2 DEF Contested
    <2>2. CASE tx.do = "fund"
      BY <2>2 DEF Contested
    <2> QED
      BY <1>2, <2>1, <2>2
  <1>3. ASSUME NEW i \in DOMAIN pending', Contested(pending'[i])
        PROVE  run'.stage = "waiting" /\ pending'[i] = run'.tx
    <2>1. CASE \E j \in DOMAIN pending : pending'[i] = pending[j]
      <3> PICK j \in DOMAIN pending : pending'[i] = pending[j]
        BY <2>1
      <3>1. run.stage = "waiting" /\ pending'[i] = run.tx
        BY <1>3 DEF CalmOK
      <3>2. CASE Ends
        <4>1. run'.stage = "idle" /\ run.plan # << >>
          BY <1>1, <3>1, <3>2, SentAt DEF Ends, Idle, Sent
        <4> QED
          BY <1>1, <3>1, <4>1, EndsForm
      <3>3. CASE Settled
        <4>1. run'.stage # "failed"
          BY CalmWaits
        <4> PICK n \in DOMAIN pending : Mine(n) /\ pending[n] = run.tx
          BY <3>3, <4>1 DEF Settled
        <4>2. Contested(pending[n])
          BY <1>3, <3>1
        <4> QED
          BY <1>3, <4>2, ContestedMined
      <3>4. CASE Same
        BY <3>1, <3>4 DEF Same
      <3>5. CASE Anew \/ Turned \/ Passed \/ Waited
        BY <3>1, <3>5 DEF Anew, Idle, Turned, Passed, PassesQuietly, GoesOn, Waited, Waits
      <3> QED
        BY <1>1, <3>2, <3>3, <3>4, <3>5, Moves
    <2>2. CASE pending'[i] \in Txs /\ Waits(pending'[i])
      <3> PICK tx \in Txs : tx = pending'[i]
        BY <2>2
      <3>1. run' = [run EXCEPT !.stage = "waiting", !.tx = tx]
        BY <2>2 DEF Waits
      <3> QED
        BY <1>1, <3>1 DEF RunType
    <2>3. CASE pending'[i] \in Txs /\ GoesOn(pending'[i])
      BY <1>2, <1>3, <2>3
    <2>4. CASE pending'[i].do = "fund"
      BY <1>3, <2>4 DEF Contested
    <2> QED
      BY <1>1, <2>1, <2>2, <2>3, <2>4, PendingMoves
  <1>4. ASSUME NEW i \in DOMAIN pending', NEW j \in DOMAIN pending',
               Contested(pending'[i]), Contested(pending'[j])
        PROVE  i = j
    <2>1. CASE pending' = pending
      BY <1>4, <2>1 DEF CalmOK
    <2>2. CASE SendStep
      <3> PICK tx \in Txs : /\ pending' = Append(pending, tx)
                            /\ Waits(tx) \/ GoesOn(tx) \/ tx.do = "fund"
        BY <2>2 DEF SendStep, Sending
      <3>1. /\ DOMAIN pending' = DOMAIN pending \cup {Len(pending) + 1}
            /\ \A n \in DOMAIN pending : pending'[n] = pending[n]
            /\ pending'[Len(pending) + 1] = tx
        BY <1>1
      <3>2. CASE Waits(tx)
        <4>1. \A n \in DOMAIN pending : ~ Contested(pending[n])
          BY <3>2 DEF Waits, CalmOK
        <4> QED
          BY <1>4, <3>1, <4>1
      <3>3. CASE GoesOn(tx) \/ tx.do = "fund"
        BY <1>2, <1>4, <3>1, <3>3 DEF CalmOK
      <3> QED
        BY <3>2, <3>3
    <2>3. ASSUME NEW n \in DOMAIN pending, pending' = RemoveAt(pending, n) PROVE i = j
      <3> DEFINE f(m) == IF m < n THEN m ELSE m + 1
      <3> PICK r : r = pending'
        OBVIOUS
      <3>0. /\ DOMAIN pending = 1 .. Len(pending) /\ DOMAIN r = 1 .. Len(pending) - 1
            /\ \A m \in DOMAIN r : r[m] = IF m < n THEN pending[m] ELSE pending[m + 1]
        <4>1. pending \in Seq(Txs) /\ r = RemoveAt(pending, n)
          BY <1>1, <2>3
        <4> HIDE DEF f
        <4> QED
          BY ONLY <4>1, n \in DOMAIN pending, RemoveOne
      <3>1. /\ DOMAIN pending = 1 .. Len(pending) /\ DOMAIN pending' = 1 .. Len(pending) - 1
            /\ \A m \in DOMAIN pending' : pending'[m] = IF m < n THEN pending[m] ELSE pending[m + 1]
        BY <3>0
      <3>2. Len(pending) \in Nat /\ n \in Nat
        BY <1>1, <3>1
      <3>3. \A m \in DOMAIN pending' : f(m) \in DOMAIN pending /\ pending'[m] = pending[f(m)]
        BY <3>1, <3>2
      <3>4. f(i) = f(j)
        BY <1>4, <3>3 DEF CalmOK
      <3> QED
        BY <3>1, <3>2, <3>4
    <2>4. CASE QuietStep \/ SaveDeployment \/ ExecuteSherlock
      BY <2>1, <2>4 DEF QuietStep, Quiet, SaveDeployment, ExecuteSherlock
    <2>5. CASE \E n \in DOMAIN pending : Mine(n)
      BY <2>3, <2>5 DEF Mine
    <2> QED
      BY <1>1, <2>2, <2>4, <2>5, StepForm
  <1> QED
    BY <1>3, <1>4

LEMMA CalmThrough ==
    ASSUME OInv, SentOK, CalmOK, [Next]_vars, ~ Crash
    PROVE  /\ version' # 0 => Through(15)'
           /\ owner'["LenderManager"] = FinalOwner["LenderManager"] => Through(9)'
           /\ owner'["CollateralEscrowBeacon"] = FinalOwner["CollateralEscrowBeacon"]
              \/ OnItsWay("CollateralEscrowBeacon")' => Through(1)'
  <1>1. IInv /\ run.stage # "failed" /\ run \in RunType
        /\ {"LenderManager", "CollateralEscrowBeacon"} \subseteq Owned
    BY OwnedOnes DEF OInv, CalmOK, IInv, RunOK
  <1>2. \A i \in {1, 9, 15} : Through(i) => Through(i)'
    BY <1>1, ThroughKept
  <1>3. ASSUME version' # 0 PROVE Through(15)'
    <2>1. CASE version # 0
      BY <1>2, <2>1 DEF CalmOK
    <2>2. CASE version = 0
      <3> PICK i \in DOMAIN pending : Mine(i) /\ pending[i].do = "initialize"
        BY <1>3, <2>2, VersionMoves
      <3>1. /\ run.stage = "waiting" /\ pending[i] = run.tx /\ run'.stage = "mined"
            /\ run'.plan = run.plan /\ run'.step = run.step
        BY ContestedMined DEF Contested
      <3>2. run.plan # << >> /\ Head(run.plan) = 15 /\ run.step = Len(Scripts[15].steps)
        BY <1>1, <3>1, SentAt DEF Sent
      <3> QED
        BY <3>1, <3>2 DEF Through
    <2> QED
      BY <2>1, <2>2
  <1>4. ASSUME owner'["LenderManager"] = FinalOwner["LenderManager"] PROVE Through(9)'
    <2>1. CASE owner["LenderManager"] = FinalOwner["LenderManager"]
      BY <1>2, <2>1 DEF CalmOK
    <2>2. CASE owner["LenderManager"] # FinalOwner["LenderManager"]
      <3> PICK i \in DOMAIN pending : /\ Mine(i) /\ pending[i].do = "transfer"
                                      /\ pending[i].contract = "LenderManager"
        BY <1>1, <1>4, <2>2, OwnerMoves, AccountsDiffer
      <3>1. /\ run.stage = "waiting" /\ pending[i] = run.tx /\ run'.stage = "mined"
            /\ run'.plan = run.plan /\ run'.step = run.step
        BY ContestedMined DEF Contested
      <3>2. run.plan # << >> /\ Head(run.plan) = 9 /\ run.step = Len(Scripts[9].steps)
        BY <1>1, <3>1, SentAt DEF Sent
      <3> QED
        BY <3>1, <3>2 DEF Through
    <2> QED
      BY <2>1, <2>2
  <1> DEFINE b == "CollateralEscrowBeacon"
  <1>5. ASSUME owner'[b] = FinalOwner[b] PROVE Through(1)'
    <2>1. CASE owner[b] = FinalOwner[b]
      BY <1>2, <2>1 DEF CalmOK
    <2>2. CASE owner[b] # FinalOwner[b]
      <3>1. OnItsWay(b)
        BY <1>1, <1>5, <2>2, OwnerMoves, AccountsDiffer DEF OnItsWay
      <3> QED
        BY <1>2, <3>1 DEF CalmOK
    <2> QED
      BY <2>1, <2>2
  <1>6. ASSUME NEW i \in DOMAIN pending', pending'[i].do = "transfer", pending'[i].contract = b
        PROVE  Through(1)'
    <2>1. CASE \E j \in DOMAIN pending : pending'[i] = pending[j]
      BY <1>2, <1>6, <2>1 DEF CalmOK, OnItsWay
    <2>2. CASE pending'[i] \in Txs /\ (Waits(pending'[i]) \/ GoesOn(pending'[i]))
      <3> PICK tx \in Txs : tx = pending'[i]
        BY <2>2
      <3>1. GoesOn(tx) /\ Head(run.plan) = 1 /\ run.step = Len(Scripts[1].steps)
        BY <1>1, <1>6, <2>2, SendingAt
      <3>2. run'.plan = run.plan /\ run'.step = run.step + 1 /\ run.plan # << >>
            /\ run.step \in Nat
        BY <1>1, <3>1 DEF GoesOn, Working, RunType
      <3> QED
        BY <3>1, <3>2 DEF Through
    <2> QED
      BY <1>1, <1>6, <2>1, <2>2, PendingMoves
  <1> QED
    BY <1>3, <1>4, <1>5, <1>6 DEF OnItsWay

LEMMA CalmKept ==
    ASSUME OInv, SentOK, CalmOK, [Next]_vars, ~ Crash, ~ SendTask
    PROVE  CalmOK'
  BY CalmPending, CalmWaits, CalmThrough DEF CalmOK

-----------------------------------------------------------------------------
(* Why runs end before their time                                             *)

\* The ways a run ends so, and what the deployment is like then.
AbortsFor(why) ==
    \/ why = "missing" /\ MissingContract
    \/ why = "unnamed account" /\ Running /\ ~ Named(Step.to)
    \/ why = "reverted" /\ At("initialize") /\ version # 0
    \/ why = "reverted" /\ At("transfer") /\ owner[Step.contract] # run.from
    \/ /\ why = "not the owner" /\ At("handOver") /\ owner[Step.contract] # run.from
       /\ ~ (owner[Step.contract] = Step.to /\ Named(Step.to))
    \/ why = "wait failed" /\ run.stage = "failed"
Aborts ==
    \E why \in {"missing", "unnamed account", "reverted", "not the owner", "wait failed"} :
       /\ AbortsFor(why) /\ aborted' = [script |-> Current.id, why |-> why]
       /\ UNCHANGED <<network, mnemonic, crashes, sends>>

LEMMA AbortForm ==
    ASSUME [Next]_vars
    PROVE  aborted' \in {aborted, NoAbort} \/ Aborts
  <1> USE DEF diskVars, chainVars, faultVars
  <1>1. ASSUME NEW why, Abort(why)
        PROVE  /\ aborted' = [script |-> Current.id, why |-> why]
               /\ UNCHANGED <<network, mnemonic, crashes, sends>>
    BY <1>1 DEF Abort
  <1>2. CASE MissingContract
    <2>1. Abort("missing")
      BY <1>2 DEF MissingContract
    <2> QED
      BY <1>1, <1>2, <2>1 DEF Aborts, AbortsFor
  <1>3. CASE WaitThrows
    <2>1. Abort("wait failed")
      BY <1>3 DEF WaitThrows
    <2> QED
      BY <1>1, <1>3, <2>1 DEF Aborts, AbortsFor, WaitThrows
  <1>4. ASSUME Send(Step), Running,
               Abort("reverted") => At("transfer") \/ owner[Step.contract] = run.from
        PROVE  aborted' = aborted \/ Aborts
    <2>1. CASE ~ Named(Step.to)
      <3>1. Abort("unnamed account")
        BY <1>4, <2>1 DEF Send
      <3> QED
        BY <1>1, <1>4, <2>1, <3>1 DEF Aborts, AbortsFor
    <2>2. CASE Named(Step.to) /\ WouldRevert(TransferTx(Step))
      <3>1. Abort("reverted")
        BY <1>4, <2>2 DEF Send
      <3>2. owner[Step.contract] # run.from
        BY <2>2 DEF WouldRevert, TransferTx
      <3> QED
        BY <1>1, <1>4, <3>1, <3>2 DEF Aborts, AbortsFor
    <2>3. CASE Named(Step.to) /\ ~ WouldRevert(TransferTx(Step))
      BY <1>4, <2>3 DEF Send
    <2> QED
      BY <2>1, <2>2, <2>3
  <1>5. CASE Initialize
    <2> DEFINE tx == [do |-> "initialize", from |-> run.from, contract |-> "LendNestV2",
                      args |-> Instances(Step.args)]
    <2>1. WouldRevert(tx) <=> version # 0
      BY DEF WouldRevert
    <2>2. IF WouldRevert(tx) THEN Abort("reverted") ELSE aborted' = aborted
      BY <1>5 DEF Initialize
    <2> HIDE DEF tx
    <2>3. CASE version # 0
      BY <1>1, <1>5, <2>1, <2>2, <2>3 DEF Aborts, AbortsFor, Initialize
    <2> QED
      BY <2>1, <2>2, <2>3
  <1>6. CASE Transfer
    BY <1>4, <1>6 DEF Transfer, At
  <1>7. CASE HandOver
    <2>1. At("handOver") /\ Running
      BY <1>7 DEF HandOver, At
    <2>2. CASE owner[Step.contract] = run.from
      BY <1>4, <1>7, <2>1, <2>2 DEF HandOver
    <2>3. CASE /\ owner[Step.contract] # run.from
               /\ ~ (owner[Step.contract] = Step.to /\ Named(Step.to))
      <3>1. Abort("not the owner")
        BY <1>7, <2>3 DEF HandOver
      <3> QED
        BY <1>1, <2>1, <2>3, <3>1 DEF Aborts, AbortsFor
    <2>4. CASE /\ owner[Step.contract] # run.from
               /\ owner[Step.contract] = Step.to /\ Named(Step.to)
      BY <1>7, <2>4 DEF HandOver
    <2> QED
      BY <2>2, <2>3, <2>4
  <1>8. CASE Skip \/ EndRun \/ FinishScript \/ SubmitDeploy \/ AlreadyDeployed \/ SaveDeployment
             \/ Propose \/ Resume
    BY <1>8
       DEF Skip, EndRun, FinishScript, SubmitDeploy, AlreadyDeployed, SaveDeployment, Propose, Resume
  <1>9. ASSUME NEW tag \in Tags, StartRun(tag) PROVE aborted' = NoAbort
    BY <1>9 DEF StartRun
  <1>10. ASSUME NEW i \in DOMAIN pending, Mine(i) PROVE aborted' = aborted
    BY <1>10 DEF Mine
  <1>11. CASE ExecuteSherlock \/ Crash \/ SendTask \/ FundedWallet \/ MineContractAddress
              \/ UNCHANGED vars
    BY <1>11 DEF ExecuteSherlock, Crash, SendTask, FundedWallet, MineContractAddress, vars
  <1> QED
    BY <1>2, <1>3, <1>5, <1>6, <1>7, <1>8, <1>9, <1>10, <1>11 DEF Next, RunNext, MineNext

EInv ==
    /\ OInv /\ sends \in Nat
    /\ SupplyOK /\ KeysOK /\ NamesOK /\ SentOK /\ OwnersOK
    /\ Calm => CalmOK
    /\ AbortsExplained

LEMMA WithoutOwners ==
    ASSUME network \in Networks, ~ OwnersNamed(network)
    PROVE  network \in {"mumbai", "mantle-testnet"}
  BY DEF OwnersNamed, ChainsWithOwners, ChainId, Networks, LiveNetworks, LocalNetworks

\* Who owns what is not the deploying account's.
LEMMA OtherOwner ==
    ASSUME EInv, At("transfer") \/ At("handOver"), owner[Step.contract] # run.from
    PROVE  /\ Step.contract \in Owned /\ Step.to = FinalOwner[Step.contract]
           /\ owner[Step.contract] \in {Nobody, FinalOwner[Step.contract]}
              \/ (mnemonic > 1 /\ network \notin LocalNetworks)
  <1>1. IInv /\ StepOK(Step) /\ Step.do \in {"transfer", "handOver"} /\ run.stage = "running"
    BY AtWork DEF EInv, OInv
  <1>2. Step.contract \in Owned /\ Step.to = FinalOwner[Step.contract]
    BY <1>1 DEF StepOK
  <1>3. \/ owner[Step.contract] \in {Nobody, FinalOwner[Step.contract]}
        \/ owner[Step.contract] \in Accounts
    BY <1>1, <1>2 DEF IInv, ChainOK
  <1>4. ASSUME owner[Step.contract] \in Accounts
        PROVE  mnemonic > 1 /\ network \notin LocalNetworks
    <2>1. owner[Step.contract] \in Keys /\ run.from \in Keys /\ sends \in Nat
      BY <1>1, <1>2, <1>4 DEF EInv, KeysOK
    <2> QED
      BY <1>1, <2>1, OtherKey
  <1> QED
    BY <1>2, <1>3, <1>4

\* What the scripts that look at the owner hand over has one.
LEMMA HandOverOwned ==
    ASSUME EInv, At("handOver")
    PROVE  Step.contract # "LenderManager" /\ owner[Step.contract] # Nobody
  <1> DEFINE h == Head(run.plan)
  <1>1. IInv /\ Step.do = "handOver" /\ Working /\ run.plan \in Seq(DOMAIN Scripts)
        /\ run.plan # << >>
    BY AtWork DEF EInv, OInv, Working, IInv, RunOK, RunType
  <1>2. h \in DOMAIN Scripts /\ run.step \in DOMAIN Scripts[h].steps
        /\ Step = Scripts[h].steps[run.step]
    BY <1>1, AtGivenStep
  <1>3. 1 \in DOMAIN run.plan /\ run.plan[1] = h
    BY <1>1
  <1> HIDE DEF h
  <1>4. \/ h = 3 /\ Step.contract = "ProxyAdmin"
        \/ h = 16 /\ Step.contract = "LendNestV2"
    BY <1>1, <1>2, StepTable DEF StepSays
  <1>5. \A m : m \notin 1 .. 1 - 1
    OBVIOUS
  <1>6. CASE h = 3
    <2>1. Direct(3, 14) /\ 14 \in DOMAIN Scripts
      BY DirectTable, ScriptList
    <2>2. Supplied(14, Built)
      BY <1>3, <1>5, <1>6, <2>1 DEF EInv, SupplyOK, Awaits
    <2>3. network \in Scripts[14].networks
      <3>1. RunsOn(14)
        BY RecordedScripts, ScriptList
      <3> QED
        <4>1. Scripts[14].networks = Networks
          BY <3>1 DEF RunsOn
        <4>2. network \in Networks
          BY <1>1, DeploymentAssumption DEF IInv, OperatorOK
        <4> QED
          BY <4>1, <4>2
    <2>4. "LendNestV2" \in Built
      BY <2>2, <2>3, DeployTable DEF Supplied
    <2> QED
      BY <1>4, <1>6, <2>4 DEF EInv, OwnersOK
  <1>7. CASE h = 16
    <2>1. Scripts[15].id \in migrations
      BY <1>3, <1>5, <1>7 DEF EInv, OwnersOK, Follows
    <2>2. version # 0
      BY <2>1 DEF EInv, OInv, OrderOK, Past, HasDone
    <2> QED
      BY <1>4, <1>7, <2>2 DEF EInv, OwnersOK
  <1> QED
    BY <1>4, <1>6, <1>7

LEMMA ForeignExplained ==
    ASSUME EInv, AbortsFor("not the owner")
    PROVE  mnemonic > 1 /\ network \notin LocalNetworks
  <1>1. /\ At("handOver") /\ owner[Step.contract] # run.from
        /\ ~ (owner[Step.contract] = Step.to /\ Named(Step.to))
    BY DEF AbortsFor
  <1>2. owner[Step.contract] # Nobody /\ Step.contract # "LenderManager"
    BY <1>1, HandOverOwned
  <1>3. Step.contract \in Owned /\ Step.to = FinalOwner[Step.contract]
    BY <1>1, OtherOwner
  <1>4. CASE owner[Step.contract] = FinalOwner[Step.contract]
    <2>1. OwnersNamed(network)
      BY <1>2, <1>3, <1>4 DEF EInv, NamesOK
    <2> QED
      BY <1>1, <1>3, <1>4, <2>1 DEF Named
  <1> QED
    BY <1>1, <1>2, <1>4, OtherOwner

\* A script that is through its steps is not at one of them.
LEMMA ThroughNotAt ==
    ASSUME IInv, NEW kind, At(kind), NEW i, Head(run.plan) = i
    PROVE  ~ Through(i) /\ Current.id = Scripts[i].id
  <1>1. /\ run.stage = "running" /\ Scripts[i].id \notin migrations /\ Current = Scripts[i]
        /\ run.step <= Len(Scripts[i].steps)
    BY DEF At, Running, Due, Current
  <1>2. i \in DOMAIN Scripts /\ run.step \in Nat
    BY AtWork, AtGivenStep
  <1>3. Len(Scripts[i].steps) \in Nat
    BY <1>2, ScriptsOK DEF ScriptOK
  <1>4. ~ (run.step > Len(Scripts[i].steps))
    BY <1>1, <1>2, <1>3
  <1> QED
    BY <1>1, <1>4 DEF Through

LEMMA RevertExplained ==
    ASSUME EInv, AbortsFor("reverted")
    PROVE  Current.id \in OneShot /\ (crashes > 0 \/ sends > 0 \/ mnemonic > 1)
  <1> DEFINE h == Head(run.plan)
  <1>1. IInv /\ crashes \in Nat /\ sends \in Nat
    BY DEF EInv, OInv, IInv, ProposalsOK
  <1>2. ~ Calm => crashes > 0 \/ sends > 0
    BY <1>1 DEF Calm
  <1>3. \E kind \in {"initialize", "transfer"} : At(kind)
    BY DEF AbortsFor
  <1>4. /\ h \in DOMAIN Scripts /\ run.step \in DOMAIN Scripts[h].steps /\ run.step \in Nat \ {0}
        /\ Step = Scripts[h].steps[run.step] /\ Scripts[h].needs \subseteq Built
        /\ \A m \in 1 .. run.step - 1 : Achieved(Scripts[h].steps[m], Built, Given)
    BY <1>1, <1>3, AtWork, AtGivenStep
  <1>5. ~ Through(h) /\ Current.id = Scripts[h].id
    BY <1>1, <1>3, ThroughNotAt
  <1> HIDE DEF h
  <1>6. StepSays(h, run.step)
    BY <1>4, StepTable
  <1>7. CASE At("initialize") /\ version # 0
    <2>1. h = 15
      BY <1>1, <1>4, <1>6, <1>7, AtWork DEF StepSays
    <2>2. ~ Calm
      BY <1>5, <1>7, <2>1 DEF EInv, CalmOK
    <2> QED
      BY <1>2, <1>5, <2>1, <2>2, ScriptTable DEF Says, OneShot
  <1>8. CASE At("transfer") /\ owner[Step.contract] # run.from
    <2>1. \/ h = 1 /\ run.step = 2 /\ Step.contract = "CollateralEscrowBeacon"
          \/ h = 9 /\ Step.contract = "LenderManager"
      BY <1>1, <1>4, <1>6, <1>8, AtWork DEF StepSays
    <2>2. Step.contract \in Built
      <3>1. CASE h = 1 /\ run.step = 2 /\ Step.contract = "CollateralEscrowBeacon"
        <4>1. 1 \in 1 .. run.step - 1
          BY <3>1
        <4>2. Achieved(Scripts[1].steps[1], Built, Given)
          BY <1>4, <3>1, <4>1
        <4>3. Scripts[1].steps[1] = Deploys("CollateralEscrowBeacon", {})
          BY ScriptTable DEF Says
        <4> QED
          BY <3>1, <4>2, <4>3 DEF Achieved, Deploys
      <3>2. CASE h = 9 /\ Step.contract = "LenderManager"
        BY <1>4, <3>2, ScriptTable DEF Says
      <3> QED
        BY <2>1, <3>1, <3>2
    <2>3. owner[Step.contract] # Nobody
      BY <2>1, <2>2 DEF EInv, OwnersOK
    <2>4. owner[Step.contract] = FinalOwner[Step.contract] => ~ Calm
      BY <1>5, <2>1 DEF EInv, CalmOK
    <2>5. Current.id \in OneShot
      BY <1>5, <2>1, ScriptTable DEF Says, OneShot
    <2> QED
      BY <1>2, <1>8, <2>3, <2>4, <2>5, OtherOwner
  <1> QED
    BY <1>7, <1>8 DEF AbortsFor

LEMMA AbortExplained ==
    ASSUME EInv, Aborts
    PROVE  AbortsExplained'
  <1>1. IInv /\ crashes \in Nat /\ sends \in Nat /\ network \in Networks
    BY DeploymentAssumption DEF EInv, OInv, IInv, ProposalsOK, OperatorOK
  <1>0. ~ Calm => crashes > 0 \/ sends > 0
    BY <1>1 DEF Calm
  <1> PICK why \in {"missing", "unnamed account", "reverted", "not the owner", "wait failed"} :
         /\ AbortsFor(why) /\ aborted' = [script |-> Current.id, why |-> why]
         /\ UNCHANGED <<network, mnemonic, crashes, sends>>
    BY DEF Aborts
  <1>2. aborted'.why = why /\ aborted'.script = Current.id
    OBVIOUS
  <1>3. CASE why = "missing"
    <2>1. Current.id \in {"liquidity-rewards:deploy",
                          "lender-commitment-forwarder:extensions:flash-rollover:deploy"}
      BY <1>1, <1>3, MissingExplained DEF AbortsFor, EInv
    <2> QED
      BY <1>2, <1>3, <2>1 DEF AbortsExplained
  <1>4. CASE why = "unnamed account"
    <2>1. network \in {"mumbai", "mantle-testnet"}
      BY <1>1, <1>4, WithoutOwners DEF AbortsFor, Named
    <2> QED
      BY <1>2, <1>4, <2>1 DEF AbortsExplained
  <1>5. CASE why = "reverted"
    <2>1. Current.id \in OneShot /\ (crashes > 0 \/ sends > 0 \/ mnemonic > 1)
      BY <1>5, RevertExplained
    <2> QED
      BY <1>2, <1>5, <2>1 DEF AbortsExplained, OneShot
  <1>6. CASE why = "not the owner"
    <2>1. mnemonic > 1 /\ network \notin LocalNetworks
      BY <1>6, ForeignExplained
    <2> QED
      BY <1>2, <1>6, <2>1 DEF AbortsExplained
  <1>7. CASE why = "wait failed"
    <2>1. ~ Calm
      BY <1>7 DEF AbortsFor, EInv, CalmOK
    <2> QED
      BY <1>0, <1>2, <1>7, <2>1 DEF AbortsExplained
  <1> QED
    BY <1>3, <1>4, <1>5, <1>6, <1>7

LEMMA ExplainedKept ==
    ASSUME EInv, [Next]_vars
    PROVE  AbortsExplained'
  <1>1. IInv /\ sends \in Nat /\ AbortsExplained
    BY DEF EInv, OInv
  <1>2. /\ mnemonic \in Nat \ {0} /\ crashes \in Nat /\ network' = network
        /\ mnemonic' \in {mnemonic, mnemonic + 1}
        /\ crashes' \in {crashes, crashes + 1} /\ sends' \in {sends, sends + 1}
    BY <1>1, FaultsGrow, NetworkStays DEF IInv
  <1>3. /\ mnemonic > 1 => mnemonic' > 1
        /\ crashes > 0 => crashes' > 0
        /\ sends > 0 => sends' > 0
    BY <1>1, <1>2
  <1>4. CASE aborted' = aborted
    BY <1>1, <1>2, <1>3, <1>4 DEF AbortsExplained
  <1>5. CASE aborted' = NoAbort
    BY <1>5 DEF AbortsExplained, NoAbort
  <1> QED
    BY <1>4, <1>5, AbortForm, AbortExplained

LEMMA InitExplained == Init => EInv
  <1> SUFFICES ASSUME Init PROVE EInv
    OBVIOUS
  <1>1. OInv /\ sends \in Nat
    BY InitInv, InitOrder DEF Init, OInv
  <1>2. Built = {} /\ run.plan = << >> /\ run.stage = "idle"
    BY DEF Init, Built, Idle
  <1>3. SupplyOK
    BY <1>2 DEF SupplyOK, Awaits, Closed
  <1>4. KeysOK
    BY <1>2, AccountsDiffer DEF Init, KeysOK, Sent
  <1>5. NamesOK
    BY AccountsDiffer DEF Init, NamesOK
  <1>6. SentOK /\ OwnersOK
    BY <1>2 DEF Init, SentOK, OwnersOK, Sent, Follows
  <1>7. CalmOK
    BY <1>2, AccountsDiffer, OwnedOnes DEF Init, CalmOK, OnItsWay
  <1>8. AbortsExplained
    BY DEF Init, NoAbort, AbortsExplained
  <1> QED
    BY <1>1, <1>3, <1>4, <1>5, <1>6, <1>7, <1>8 DEF EInv

LEMMA StepExplained == EInv /\ [Next]_vars => EInv'
  <1> SUFFICES ASSUME EInv, [Next]_vars PROVE EInv'
    OBVIOUS
  <1>1. OInv /\ IInv /\ sends \in Nat
    BY DEF EInv, OInv
  <1>2. OInv'
    BY <1>1, StepOrder
  <1>3. sends' \in Nat
    BY <1>1, FaultsGrow
  <1>4. SupplyOK' /\ KeysOK' /\ NamesOK' /\ SentOK' /\ OwnersOK'
    BY <1>1, AwaitsKept, KeysKept, NamesKept, SentKindKept, OwnersKept DEF EInv
  <1>5. ASSUME Calm' PROVE CalmOK'
    <2>1. Calm /\ ~ Crash /\ ~ SendTask
      BY <1>1, <1>5, CalmStep
    <2> QED
      BY <1>1, <2>1, CalmKept DEF EInv
  <1>6. AbortsExplained'
    BY ExplainedKept
  <1> QED
    BY <1>2, <1>3, <1>4, <1>5, <1>6 DEF EInv

\* deploy/: a run of the scripts ends before its time only for a reason an operator
\* can see: a tag whose dependencies leave a contract out, a network without
\* protocolOwnerSafe and protocolTimelock, another mnemonic than the one that
\* deployed, a one-shot script whose transaction was sent before, or a transaction
\* overtaken by an earlier run's or replaced.
THEOREM AbortsAccounted == Spec => []AbortsExplained
  <1>1. EInv => AbortsExplained
    BY DEF EInv
  <1> QED
    BY <1>1, InitExplained, StepExplained, PTL DEF Spec
=============================================================================
