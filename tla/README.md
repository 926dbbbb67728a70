# LendNest, specified in TLA+

LendNest is a protocol for loans between two accounts, written in Solidity (a fork of Teller v2).
A borrower submits a bid in a market, a lender accepts it, the borrower pays the loan back by
instalments or at the end, and whoever steps in when the borrower fails to pay gets the collateral.
This directory holds TLA+ modules of the contracts that decide about money and collateral and of the
scripts that deploy them, TLC configurations that check them on small instances, and proofs, checked
by TLAPS, of most invariants, of the action properties about money and reputation and of all five
refinements, for instances of any size. Paths below are relative to
`src/packages/contracts/contracts/`, or to `src/packages/contracts/` for `deploy/` and
`hardhat.config.ts`.

## The system

| Part | State | Operations |
|---|---|---|
| `LendNest.sol` (contract LendNestV2), `LendNestStorage.sol`, `ProtocolFee.sol` | bids with their terms, state, lender and totals repaid; active bids of each borrower; volumes; fee; paused | submit, cancel, accept, claim the loan NFT, repay (minimum, partly, in full, with and without taking the collateral back), close, liquidate, pause, set the fee |
| `libraries/V2Calculations.sol`, `NumbersLib.sol`, `WadRayMath.sol`, `DateTimeLib.sol` | none | instalment, amount owed and due, next due date |
| `CollateralManager.sol`, `escrow/CollateralEscrowV1.sol` | what each bid pledged; one escrow contract per bid with its own record | commit, deploy and deposit, withdraw, hand over to lender or liquidator |
| `LenderManager.sol` | owner of each loan's NFT | mint, transfer to lenders the market verifies |
| `ReputationManager.sol` | four sets of loans per account: ever and currently late, ever and currently in default | update the marks of an account or of one bid |
| `EscrowVault.sol` | tokens owed to each account | deposit, withdraw |
| `MarketRegistry.sol` | settings, owner, fee recipient, members, attestations of each market | create, change, close, transfer, attest, remove |
| `EAS/` (LendNestAS) | schemas and attestations | register, attest, revoke, by signature or not |
| `LenderCommitmentForwarder/` | standing offers of lenders | create, update, delete, accept |
| `LenderCommitmentForwarder/extensions/` | none of their own, but for tokens during a transaction | roll a loan over into one under a commitment, with tokens of the borrower or a flash loan; quote the cost |
| `LendNestAutopay.sol` | who opted in; a fee | pay the minimum for a borrower, for a fee to whoever asks for it |
| `LendNestContext.sol` | trusted and approved forwarders | resolve who is speaking |
| `deploy/`, `hardhat.config.ts` | on disk: contracts deployed, scripts done, the mnemonic; on the chain: owners, versions, references; in the mempool: what was sent | run the scripts, in whole or by tag; send Ether, fund a wallet, mine a new account |

How they interact. The contracts call each other inside one transaction, and a failed check anywhere
undoes all of it. So there is no interleaving inside an operation, and each external function is one
action whose guards are the failed checks of the whole call tree. What does interleave are the
transactions of borrowers, lenders, NFT owners, liquidators, market owners, the protocol owner and
passers-by (many functions may be called by anyone), and the passing of time between them. One
failure is not an abort: the transfer of a payment to the lender is wrapped in `try`, and when it
fails the money goes to the vault, in a transaction that goes on. The rollovers and autopay are the
exception on the side of the model: their transactions consist of several calls of the core, with
balances looked at in between, so there every call is a step and a failed one brings back the state
the transaction started from.

A deployment is a process outside the chain. Each script sends transactions, waits for most of them and
is recorded as done when it returns `true`; the run may die between any two of these, the mempool
keeps what was sent, and the next run starts over with what is on disk.

What is hard here, and what the properties are aimed at:

- collateral is checked at submission and moved at acceptance, and several bids may pledge the same
  assets in between;
- there are five ways for collateral to leave an escrow, three of which compete on the same loan;
- the lender of a loan may change while it runs, by an NFT;
- markets and the protocol change their settings, fees and members while bids wait and loans run;
- payments cut down to the debt, sums that revert below zero, divisions by a cycle of length zero;
- due dates follow the calendar for monthly loans and move with each payment, while the amount due
  follows cycles of thirty days;
- reputation is computed when somebody asks for it, and once more around payments;
- whether an account is verified in a market depends on a list in the registry, an id beside it and an
  attestation in another contract, which has entry points of its own and accepts signed messages from
  anybody;
- one transaction of the commitment forwarder speaks for two accounts, whose approvals, offers and
  extensions may have changed since;
- a rollover pays one loan with the proceeds of the next, out of balances of a contract that may
  hold tokens already, after quoting a price that must include every fee on the way;
- anybody may trigger an automatic payment, as often as they like;
- deployment scripts are repeated after crashes, by tag, with another account, beside other tasks that
  use the same nonces, and hand what they deploy over to several owners in a certain order.

What makes each part correct:

- loan core: principal counted as repaid never exceeds the loan and covers it once it is paid; a payment
  takes what is owed and no more; the lender parts with the principal whatever the fees; terms are
  fixed at acceptance; a running loan can always be repaid and always ends or becomes liquidateable;
- collateral: an escrow holds what the state of its bid calls for, and gives it up once, whole, to the
  party the outcome entitles, who can always get it;
- calculations: the next due date moves forward, up to the end of the loan, and a minimum payment ends lateness;
- reputation: a late payment leaves its mark, and the present is part of the history;
- vault: it holds what it owes;
- markets and attestations: an account is verified when the latest attestation the market made for it
  stands, however the two contracts were called; a signature is good once; the lists agree;
- commitments: no further loan passes the limit of the moment, every loan is covered as the lender
  asked, and nobody is bound who never agreed;
- rollovers and autopay: both loans change or neither, the contracts keep nothing and spend nothing of
  their own, nobody but borrower and new lender pays, quotes are right and sufficient (but in the block a
  loan was accepted in, where it is known by how much they are not), and automatic
  payments stay within the schedule;
- deployment: each contract is built once from what was built before it, everything ends up with its
  final owner, in the right order, and repeating the run gets there unless it is known why not.

## The modules

| Module | Models |
|---|---|
| `LendNestTypes` | shared parameters, states of a bid |
| `TokenLedger` | the lending token (external): a function from holders to amounts |
| `NumbersLib`, `DateTimeLib`, `V2Calculations` | the arithmetic; each function that can revert comes with a predicate that says when |
| `CollateralManager` | the manager and its escrows: the record (`collateralBalances`) and the tokens really held (`escrowTokens`) are separate |
| `ReputationManager`, `EscrowVault`, `MarketRegistry` | the contracts of those names |
| `LendNestV2` | the loan core; extends all of the above, and each of its actions states what it changes in every contract |
| `CollateralizedLoan` | an abstract specification: goods go from the debtor into a pot and leave it once, whole, to the party the outcome of the loan entitles |
| `LoanProperties` | the properties, and the refinement mapping to `CollateralizedLoan` |
| `MCLoanCustody`, `MCRepayment`, `MCMarketTerms` | the instances that TLC checks |
| `LendNestV2_proofs` | theorems about the loans: the inductive invariant and what follows from it |
| `LoanSteps_proofs` | theorems about what single steps of the loans do, the vault, due dates and the calendar, the way out of a loan, and the refinement of `CollateralizedLoan` |
| `FiniteSums_proofs` | lemmas the other proofs share: sums over a finite set, least numbers, division |
| `LendNestAS` | the attestation service, its schema registry and verifier: attestations, the lists beside them, nonces, signatures |
| `AttestedMarkets` | `MarketRegistry` again, with the real lists of members and the real attestations, composed with `LendNestAS`, whose resolver it is |
| `MembershipProperties`, `MCMembership` | the properties of membership, with the refinement mapping to `MarketRegistry`; their instance |
| `Membership_proofs` | theorems about membership, with the refinement of `MarketRegistry` |
| `LendNestContext` | which contract may speak for an account in a market |
| `LenderCommitmentForwarder` | commitments and extensions, composed with `LendNestContext` and the loans the core makes |
| `CreditLine` | an abstract specification: a commitment is a line of credit |
| `CommitmentProperties`, `MCCommitments` | the properties of commitments, with the refinement mapping to `CreditLine`; their instances |
| `Commitment_proofs` | theorems about commitments, with the refinement of `CreditLine` |
| `LoanExtensions` | both rollovers and autopay, one step per call, on top of `LendNestV2` |
| `LoanSwap` | an abstract specification: a loan is replaced by another at one stroke or not at all, and no token is lost or sticks |
| `ExtensionProperties`, `MCExtensions` | the properties of the extensions, with the refinement mapping to `LoanSwap`; their instance |
| `Extension_proofs` | theorems about rollovers and automatic payments, on top of those about the loans |
| `DeployScripts` | the scripts of `deploy/` as lists of steps with tags, dependencies and networks; the networks and named accounts of `hardhat.config.ts`; the order in which scripts run |
| `Deployment` | runs of the scripts, mempool, timelock, crashes, and the hardhat tasks that interfere |
| `ProtocolHandOver` | an abstract specification: contracts are built, LendNestV2 opens, owners hand over, an upgrade comes after |
| `DeploymentProperties`, `MCDeployment` | the properties of deployments, with the refinement mapping to `ProtocolHandOver`; their instance |
| `Deployment_proofs` | theorems about deployments: types, proposals, what a finished deployment leaves behind |
| `HandOver_proofs` | the theorems that deployments implement `ProtocolHandOver`, and why a run ends before its time |

The modules form five specifications. `LendNestV2` is the loans, with `MarketRegistry` as all it
needs to know of membership: a set of members and, for each, until when its attestation is good.
`AttestedMarkets` is the membership in detail, and the run `membership` checks that it implements that
`MarketRegistry`, for every way in which the two contracts may be called; so nothing about loans has
to be checked again with attestations in it. `LenderCommitmentForwarder` is the offers; what the core
does with a bid is in `LendNestV2`, and the forwarder's model contains the loans that result, with
any refusal of the core left open. `LoanExtensions` is composed with `LendNestV2` itself, whose actions
are the steps of its transactions; while one is in progress nobody else acts. Its `Revert` is possible
after every step: a later call may fail for reasons outside the model, and gas may run out. What an
observer sees, and what the refinement of `LoanSwap` is about, is the state before a transaction
that is not finished. `Deployment` shares nothing with the others: its contracts are instances with an
owner, a version and references to one another.

State corresponds to storage one to one (`lender`, `accepted`, `repaidPrincipal`, `marks`, ...), with
the fields of `bids[b]` that `submitBid` fixes collected in the record `bid[b]`. An address that
stands for the loan NFT is `UsingLenderManager`. `_repayLoan` is `RepayLoan_`; its guards include the
reverts of both updates of reputation, and its callers add what happens to the collateral. `PROJECT.json` maps
every definition to its lines. Operators marked as mutants are wrong on purpose: each replaces the
definition after it in one more run, which must find a property violated.

Abstractions, all of data: token amounts and times are small naturals; the fixed-point units of the
annuity formula are parameters; the civil calendar is a repeating list of month lengths; allowances,
events, URIs and gas are left out; ERC20 and ERC1155 collateral are amounts and an ERC721 asset
exists once; an attestation is its expiration time in the loan model, a record in `LendNestAS`. A hash
is what it is the hash of: an attestation's uuid is its number, a Merkle root stands for the set of
its leaves, and a signature is signer, nonce and message, which recovers nobody known when compared
with anything else.

Code that is not in the repository is marked external in the map: the OpenZeppelin sets, rounding and
signature recovery, the parent of the forwarders (`LendNestV2MarketForwarder_G2`) and the storage
contract of the core (`LendNestV2Storage`), both of which are imported but absent. Of external programs
the models take this:

- the flash loan pool hands out what is asked for if it has it, and takes back as much and a premium,
  rounded up or down;
- the forwarder the rollovers call accepts a standing commitment at the lender's own rate and duration,
  counting the principal as `LenderCommitmentForwarder_G2` does;
- hardhat-deploy runs the scripts in the order of their paths, those a script depends on before it,
  those marked `runAtTheEnd` last; a dependency names a tag, and a tag nobody has selects nothing. A
  script that is recorded, or skipped on the network, is not run;
- `deployProxy`, `deployBeacon` and `deploy` give back the contract recorded under the name, and
  otherwise deploy one, wait for it and record it; `transferProxyAdminOwnership` does not wait;
- a transaction is tried before it is sent, so that one that would revert throws; an account's
  transactions are mined in the order sent, and one is replaced by another with its nonce;
- the timelock carries out a proposed batch once it owns what the batch upgrades. Only the first
  upgrade is carried out in the model, the one that changes the version.

## The runs

The loan instances take a `Spec` whose only fairness is `WF_vars(Tick)`: blocks keep being produced. No
account is obliged to do anything, so nothing else is fair. Membership, commitments and extensions have
no liveness property and no fairness. `deployment` has `FairSpec`: a run that has started goes on
(`WF_vars(RunNext)`) unless it crashes, what is pending is mined in the end (`WF_vars(MineNext)`), and the
operator runs everything again as long as it is possible again and again, which is what one does when a
run has thrown (`SF_vars(StartRun(AllScripts))`; strong, for a run by tag may always come first). Neither the
timelock nor any fault is fair.

| Run | States | Shows |
|---|---|---|
| `loan_custody` | 149,660 | collateral: `CustodyMatchesState`, `CollateralNeverStuck`, `ImplementsCollateralizedLoan`; `WellFormed`, `TypeOK`; `VaultSolvent` over failed transfers; `ActiveLoansTracked` |
| `repayment` | 48,112 | money and time: `RepaidWithinPrincipal`, `DebtPaidInFull`, `DueDateAdvances`, `PaymentCuresLateness`, `LoanEndsOrLiquidateable`, `LatePaymentsRecorded`, `HistoryContainsPresent` |
| `market_terms` | 268,300 | owners who change their minds: `RunningLoanRepayable`, `LenderPaysPrincipal`, `DefaultMovesOnlyByPayment` |
| `membership` | 369,934 | the registry and the attestation service: `VerifiedAgrees`, `LatestAttestationCounts`, `SignatureGoodOnce`, `RegistryAttestationsStand`, `ListsMatchAttestations`, `SlicesTile`, `TypeOK`, `ImplementsMarketRegistry` |
| `commitments` | 329,980 | standing offers: `ImplementsCreditLine`, `LoanCoveredByCollateral`, `NobodyBoundUnasked`, `TypeOK` |
| `extensions` | 912,151 | rollovers and automatic payments: `ImplementsLoanSwap`, `QuotesHold`, `QuoteSuffices`, `AutopayWithinSchedule`, `ExtensionsTypeOK` |
| `deployment` | 517,318 | deployments that crash and are repeated: `ImplementsHandOver`, `CompleteMeansHandedOver`, `ProposedOncePerCrash`, `AbortsExplained`, `DeploymentCompletes`, `TypeOK` |
| `stale_marks`, `zero_cycle`, `pages`, `first_commitment`, `deploy_by_tag` | | a statement of the repository the code does not keep (below) |

Bounds, and why they are enough.

`loan_custody` has two bids, the least with which one asset can be promised twice, and two assets, a
fungible one and an NFT, of which the borrower owns one unit each; amounts pledged are 0 and 1, so that
the deposit that must fail because of a zero is among them. Loans have one cycle of one tick, a
default duration and a liquidation delay of one tick, and the clock goes from 1 to 5, past the moment
a loan accepted last may be liquidated. The claim on a loan may go to the account that liquidates.
Deadlock is not checked, for the bounded clock and finished bids stop the instance.

`repayment` has one loan of principal 4 over 5 ticks, with a cycle of 2 ticks (so the last cycle is
shorter) or calendar months of 2, 3, 2 and 1 days (so that a day may not exist in the next month), as
instalments or bullet, with an APR of 0 or 100% in a year of 8 ticks, so that interest is whole
tokens. Every payment may be the minimum, 2, 3, 6 (more than the debt) or the whole debt, at every
tick. Bids expire after one tick, so a loan starts by 4 and its last possible liquidation is before 12,
where the clock stops: liveness is not an effect of the bound.

`market_terms` has one loan of two cycles without interest in a market that its owner creates during
the run and may turn, at any time, from open terms to strict ones (members only, monthly bullet loans,
half the principal as fee) and back, in a protocol whose fee is 0 or half. With both at a half the
borrower gets nothing. Ownership and fees may go to the borrower. Bids are submitted at time 1, since
a later start only shifts the loan. Timestamps end at 5, where the sums of due dates and defaults
overflow for a loan accepted at 2 and not for one accepted at 1, so that the exception
`RunningLoanRepayable` makes for terms beyond 32 bits is met and, without interest, is seen to be the
only one.

A second bid adds nothing to `repayment` and `market_terms`: loans of different ids share no state there but
balances and marks, whose interplay `loan_custody` and the theorems cover.

`membership` has one market, an owner that creates it and may give it to another account or to nobody,
one member, both roles, two attestations, and one signed message of either owner, good now or for the
next nonce. Two attestations are what it takes for one to replace, or to refer to, another, and a
signature used twice needs one. Attestations expire after the second of three ticks. Lists of two
uuids are sliced in pages of one and two.

`commitments` has one lender, one borrower, either of whom may borrow, one contract both may add as an
extension, two commitments, against a coin or against NFTs of a Merkle tree, for one or two units of
principal, and two loans of one unit. Two commitments are what it takes for one to be deleted before
another is made, and one with a maximum of one and two loans to pass a limit. Against a coin worth two
units a loan of one is the least whose collateral has to be rounded. The market's owner trusts the
forwarder at some moment and not again otherwise; everything expires after the first of two ticks. The
run that ends in a violation has commitments without collateral.

`extensions` has one borrower with a loan of 4 and two standing commitments, one of a lender without
interest against the borrower's only asset, one at 100% without collateral; two bids, so one rollover,
from either commitment to itself or the other, with or without a flash loan, of a principal of 8, of which
fees of a quarter and an eighth take 3 tokens. What is owed on the old loan goes from 4 to twice
that with time, so that the borrower is quoted amounts to send and amounts to receive. The
pool's premium of a quarter is rounded both ways. Borrowers send what they were quoted or a token more,
flash what they were told to or 4 tokens more, the debt of a loan accepted in the same
block, which cannot be rolled over by flash loan with less. The contracts hold a stray token each, which
must stay where it is. The loan has cycles of one tick and a
term longer than the run; with a fee of half a payment, two automatic payments in a row happen. Every
step may fail. The market's owner, who has the fees, may also pay by hand, the minimum or everything; other
ways of paying are left to `repayment` and `loan_custody`. The new loan may itself be claimed as an NFT,
paid automatically, or run into default.

`deployment` goes to one network of each kind: one with every script (mainnet), a local one, and one for
which no owners are named (mumbai). The operator runs everything or the tag `liquidity-rewards`, in any
order. At most two faults happen: runs that die at any moment, transactions of the send and fundedwallet
tasks, a new mnemonic. Two is what it takes for a crash to leave a transaction pending and a second fault to
interfere with it. Of the timelock's batches the first is carried out. Deadlock is checked: an
operator can always run the scripts again.

## Where the code does not do what it says

- `stale_marks`: `LendNest.sol:812` says that a loan paid in full with a mark has its reputation
  updated. The update changes nothing: a current delinquency is only removed when the loan is found
  in default, a current default never, and a repaid loan is found to be good.
- `zero_cycle`: a market may set its payment cycle to zero. A bullet loan is then accepted, and
  every repayment and liquidation of it divides by zero.
- `pages`: the members of a market can be asked for page by page, but each page after the first is
  written beyond the end of an array (`MarketRegistry.sol:1011`), and the call reverts.
- `first_commitment`: what was lent under commitment 0 is held against the maximum of every other
  commitment (`LenderCommitmentForwarder_G2.sol:480` reads the id of a bid before it is assigned).
- `deploy_by_tag`: the script of the liquidity rewards declares what it needs deployed before it
  (`deploy/market_liquidity_rewards.ts:26`), but one of its dependencies, `collateral:deploy`, is a tag of no
  script, and `deploy --tags liquidity-rewards` on a fresh network throws where it asks for the
  CollateralManager.

Met on the way, and not given runs of their own: a market's default duration has no upper limit, and a
loan whose moment of default is beyond 32 bits can be accepted and neither repaid nor liquidated
(`LendNest.sol:994`); an instalment rounded to whole tokens may be less than the interest of its cycle,
and since `calculateAmountOwed` takes one from the other (`V2Calculations.sol:126`) nothing can be paid on
such a loan until its last cycle (below, under Loans); `totalRepaid` counts a last payment whole although only
the debt is taken (`LendNest.sol:786`, 808); a loan closed by its lender stays among the borrower's active
loans, while active means `ACCEPTED` elsewhere (983); an approval of a forwarder "for a specific market"
(`LendNestContext.sol:87`) holds in every market that trusts that forwarder; the flash rollover
documents the id of the new loan as its result and never assigns it; the quotes of both rollovers take the
debt from `calculateAmountOwed`, which is zero for a loan accepted in the block of the quote
(`LendNest.sol:880`), while `repayLoanFull` takes all of it, so that a borrower who rolls over in that block
sends too little, and with the flash contract, which says "by default, we will flash exactly what we need"
(`FlashRolloverLoan_G3.sol:382`), flashes nothing, and is refused: `QuotesHold` states the cost as the quote
and what it leaves out (`Uncounted`), and `QuoteSuffices` that sending and flashing as much more is enough;
`escrow_beacon.ts:13` logs that the beacon goes to the safe, and hands it to the timelock; and the flash rollover's deployment script depends on
`lender-commitment-forwarder:deploy` but asks for `LenderCommitmentForwarderStaging`, so by its own tag
it throws as well. A crash between sending and recording one of three scripts
(`OneShot` in `DeploymentProperties`) leaves a deployment that no further run completes without
editing what is on disk, which `DeploymentCompletes` states as one of its exceptions.

## What is proved

For any accounts, assets, markets, number of bids, amounts, times and settings that satisfy the named
assumptions of the modules. Where a theorem and a property differ in name, the theorem states the
property, and the runs check the same formula on their instances.

| Module | Theorem | States |
|---|---|---|
| `LendNestV2_proofs` | `TypeCorrect` | `TypeOK`: no balance, credit or count ever falls below zero |
| | `WellFormedness` | `WellFormed` |
| | `PrincipalRepaid` | `RepaidWithinPrincipal`: the difference in `calculateAmountOwed` never underflows |
| | `Custody` | `CustodyMatchesState`: escrows hold what the state of their bid calls for |
| | `History` | `HistoryContainsPresent` |
| `LoanSteps_proofs` | `ActiveTracked` | `ActiveLoansTracked` |
| | `DefaultFixed` | `DefaultMovesOnlyByPayment` |
| | `LatenessRecorded` | `LatePaymentsRecorded` |
| | `DebtPaid` | `DebtPaidInFull` |
| | `LenderPays` | `LenderPaysPrincipal` |
| | `Solvency` | `VaultSolvent` |
| | `EscrowsCanRelease` | every withdrawal a loan's outcome calls for passes the checks of manager and escrow |
| | `DueDatesAdvance` | `DueDateAdvances`, as long as timestamps last |
| | `PaymentCures` | `PaymentCuresLateness`, as long as timestamps last |
| | `LoansCanEnd` | every check on the way to closing or repaying a running loan passes |
| | `Refinement` | `ImplementsCollateralizedLoan` |
| `Membership_proofs` | `TypeCorrect` | `TypeOK` |
| | `RegistryAttestationsLast` | `RegistryAttestationsStand` |
| | `VerificationAgrees` | `VerifiedAgrees` |
| | `SignaturesGoodOnce` | `SignatureGoodOnce` |
| | `LatestCounts` | `LatestAttestationCounts` |
| | `ListsMatch` | `ListsMatchAttestations` |
| | `SlicesTiled` | `SlicesTile` |
| | `MarketsImplemented` | `ImplementsMarketRegistry` |
| `Commitment_proofs` | `TypeCorrect` | `TypeOK` |
| | `NobodyBound` | `NobodyBoundUnasked` |
| | `LoansCovered` | `LoanCoveredByCollateral` |
| | `CreditLines` | `ImplementsCreditLine` |
| `Extension_proofs` | `CoreKept` | `TypeOK`, `WellFormed`, `RepaidWithinPrincipal` and `CustodyMatchesState` of the core, under `ExtensionsSpec` |
| | `ExtensionsTypeCorrect` | `ExtensionsTypeOK` |
| | `WithinSchedule` | `AutopayWithinSchedule` |
| | `QuotesSuffice` | `QuoteSuffices` |
| | `QuotesKept` | `QuotesHold` |
| | `SwapRefinement` | `ImplementsLoanSwap` |
| `Deployment_proofs` | `TypeCorrect` | `TypeOK` |
| | `ProposalsCounted` | `ProposedOncePerCrash` |
| | `NothingLeftBehind` | `CompleteMeansHandedOver` |
| `HandOver_proofs` | `HandOver_Refinement` | `ImplementsHandOver` |
| | `AbortsAccounted` | `AbortsExplained` |

### Assumptions

The assumptions on constants are checked by TLC on every run. Most only say that amounts and times are
naturals, that those who act are accounts, and that the contracts' own addresses are not accounts.
Nothing is assumed of fees, cycles or rates. Worth naming are these:

- there are finitely many accounts (`TypesAssumption`), so that what they are owed has a sum;
- a deployment's wallets are a non-empty sequence of names, none of which is that of a contract or of an
  account `hardhat.config.ts` names (`DeploymentAssumption`);
- every plan of scripts is a sequence of scripts in which those a script depends on come before it,
  unless they are put at the end (`PlansAssumption`). This is what the recursion that computes the plans is
  for; its result is out of the provers' reach and is computed by TLC, for all tags there are. Since
  the scripts are fixed, nothing is left open by that;
- a page has at least one entry (`PagesAssumption`).

`DueDatesAdvance` and `PaymentCures` have a hypothesis of their own, `TimestampsLast`: the months that follow the
last block still have timestamps of 32 bits, which lasts until 2106. Without it they are false, since the
due date of a monthly loan is cut down to 32 bits (`V2Calculations.sol:191`) and would start over from 0.
`MCRepayment` assumes it, so TLC finds it true of the instance on which the two properties are checked.

One assumption goes beyond what the code enforces, and only the last three theorems of
`Extension_proofs` use it. `ContractsApart` says that the pool is not one of the rollover contracts or
Autopay, and that nobody pays, owns, lends or is paid in the name of those. They have no function with
which to borrow in their own name, own a market or call each other, but nothing stops a borrower from
naming one of them as the receiver of a loan, an NFT owner from assigning the claim on a loan to it, or a
market owner from passing the market on to it. Tokens sent there are lost to whoever named it, and
`LoanSwap`, in which the contracts keep nothing, speaks of the protocol without such presents. Stray
tokens the contracts hold from the start are in the model.

### Loans

The inductive invariant is

    IInv == TypeOK /\ WellFormed /\ RepaidWithinPrincipal /\ CustodyMatchesState

and no conjunct is inductive alone. `TypeOK` needs `WellFormed`, since an account must exist to be
credited, and `RepaidWithinPrincipal`, since interest on a negative principal would be negative.
`RepaidWithinPrincipal` needs the guards of `_repayLoanAtleastMinimum`: a payment below the debt adds
less principal than is open. `CustodyMatchesState` needs `TypeOK`, to subtract, and that an escrow with a record
refuses a second deposit. There is one lemma per action, `StepInv` combines them, and `History` has an invariant of
its own on top of `IInv`.

The annuity formula is a recursive function whose values cannot be reasoned about by the provers. The
submission has therefore the guard that its result is a natural number, which is what checked
unsigned arithmetic guarantees in the code, and the proofs use nothing else of it.

`LoanSteps_proofs` reduces each of the many operations that take a payment to one call of `RepayLoan_` with
a principal and the interest of that moment (`PaymentForm`), from which the action properties follow.
`VaultSolvent` equates the vault's tokens with a sum over all accounts. That changing one entry of a
function changes its sum by as much is proved in `FiniteSums_proofs` from the definition of the
community modules' fold. The library's induction theorems cannot be used, so the induction is written out: a
counterexample would have a smallest one, by the well-foundedness of strict inclusion.

`EscrowsCanRelease` adds to `IInv` that what a loan began with is a positive amount of every asset
pledged (`PledgesPositive`), since the escrow refuses to withdraw nothing: a pledge of zero is accepted with
the bid, and only the deposit at acceptance refuses it.

The due dates of monthly loans go by a calendar of months of any lengths. `DaysBefore` is a recursive function, of
which the provers know only that it is chosen to satisfy its equation; that a function satisfies it is shown
with sums (`DaysAdd`), and that every day falls in a month, by the least month that begins
after it (`MonthHasDay`). From there, months follow each other without gaps (`MonthsFollow`), and adding
months to a date keeps their order and stays in the month (`AddMonthsIn`, `AddMonthsOrdered`). Cycles of seconds
need the same of a division rounded up (`CyclesCover`). Both end in `CycleBoundary`: the boundary after a
payment is not before the payment and not after the boundary of a later one. Of the state the
theorems need that a loan whose cycle is zero is never paid (`CyclesPaid`), which holds because
`calculateAmountOwed` divides by the cycle; a due date that stays where the loan began would otherwise
be before the last payment. `PaymentCures` needs besides that every payment but a liquidator's is at least
what is due (`PaysBack`), since in its last cycle a loan's due date is its end and only paying the debt
cures it (`LastCycleSettles`).

`LoansCanEnd` is about the guards of `LenderCloseLoan` and `RepayLoanFull`, which `CollateralNeverStuck` and
`RunningLoanRepayable` ask to be enabled. Looking for its proof showed that both were stated too
strongly. A loan whose default lies beyond 32 bits cannot be closed either (`FitsTimestamps` is now a
condition of both); and a loan of two tokens over 20 ticks, in cycles of 2, at an APR of 50% in a year of 8,
has an instalment that is rounded to no token at all, below the interest, whereupon the amount owed underflows
(`InstalmentCovers`). TLC finds both on instances with those numbers. Two more conditions of the
theorem, that the cycle is neither zero nor beyond the end of the loan (`CycleFits`), are met by every loan of
`market_terms`; `zero_cycle` shows what happens otherwise.

`Refinement` maps the state of a bid to a stage, what its escrow holds to the pot, and the lender, or the
NFT's owner, to the creditor. Each action is either one step of one loan or changes nothing the
abstract state reads. `IInv` gives what an abstract step asks for: the escrow holds the whole collateral
when a loan has ended and it was not taken out yet.

### Membership

The inductive invariant says of the registry that its lists of members have nobody twice, and that each id beside
them is of an attestation for that account in that market and role; of the service that what the
registry attested is not revoked (only a revocation by its attester, or signed by it, is accepted, and
the registry revokes nothing and signs nothing); and of signatures that an account never appears as the
attester of more equal attestations than it has signatures of that message whose nonces are spent
(`EachSpentOne`). `SignatureGoodOnce`, which counts signatures without asking whether they are spent, is
not inductive alone: whoever presents a signature again must be seen to fail on its nonce.

`LatestAttestationCounts` is inductive together with that. An attestation in a market's schema is only made
in a call of the registry, which stores its id (`ListsMove`): the resolver compares the schema with the one
being attested, which is none outside such a call. `ListsMatchAttestations` says of each list that it has the
uuids it is named for and that they increase; a new uuid is greater than all before it (`ListsAppend`).

The refinement maps the members' lists to sets, and an attestation to its expiration time. Removing
from an `EnumerableSet` puts the last member in the place of the removed one; that this removes one
element from the set of members, and nothing else, is a lemma about injective sequences.

`SlicesTiled` needs nothing of the state but that the lists are sequences. `FlattenSeq` is recursive in the
number of pages. That its value is the concatenation, entry by entry, is shown of the function it is chosen
as, by the least number of pages with which it would not be (`FlattenIs`); that the pages are as many as it
takes, and entry `j` of page `k` the list's entry at `(k - 1) * size + j`, is arithmetic (`StartsCount`,
`PagesJoin`).

### Commitments

The inductive invariant is

    IInv == TypeOK /\ CommitmentsNameMarkets /\ ApprovalsRemembered /\ ExtensionsAdded /\ NobodyBoundUnasked

The three in the middle are what `NobodyBoundUnasked` rests on: `_msgSenderForMarket` lets the forwarder
speak for a lender only if it is among the approvals stored, and those were given by the lender; an
extension speaks for a borrower only if it is in the borrower's set, and that was filled by the borrower.
`LoansCovered` is an argument about one step: rounding up in each of the two conversions leaves no
loan below the ratio asked for. The refinement of `CreditLine` reads what was drawn off the loans that
were made, while `_acceptCommitment` asks the counter `commitmentPrincipalAccepted`; the
invariant `CountedRight` says that the counter is the sum of the loans, which follows from what adding a loan
does to that sum (`LentAppend`).

### Rollovers and automatic payments

`ExtensionsSpec` contains the loan core, so its proofs start from the lemmas about the core's actions. The
inductive invariant `ExtInv` is the core's `IInv`, `IInv` once more for the state saved when the
transaction in progress began (the instance `Saved` of `LoanProperties`), since `Revert` brings that one
back, and what is known of the transaction: a rollover has the loan of a borrower who exists,
and until it has submitted the new bid the id it reckons with is still the next one; an automatic
payment has an amount that is the minimum of that moment. `CommitmentsAssumption` says that the forwarder's
commitments are numbered from 0 and that their terms are of the types the forwarder keeps.

`AutopayWithinSchedule` sums over all automatic payments of a loan, while a step only knows the one it
makes. The invariant `Scheduled` is what makes it hold: what was paid automatically had accrued *by
the last payment*. A minimum payment is the instalments since that payment, or everything in the last
cycle, which ends the loan (`AutopaymentBound`); any other payment only moves the last payment
forward. The same is kept for the saved state, which a failure brings back.

`QuoteSuffices`, `QuotesHold` and the refinement of `LoanSwap` need a second invariant, `ProgressInv`
(theorem `Progress`), which says of a transaction how far it has got and what moved so far:

- what it reckoned with is right (`AmountsOK`): the debt and what the quote leaves out of it, which is nothing
  or, in the block of its acceptance, everything; the quote, what was flashed and the premium, the
  principal that was received, net of fees, and the amount repaid, each as a function of the saved state;
- the loans are where the stage says (`LoansOK`): the old one runs, or is paid; the new one does not
  exist, is pending or runs, with the borrower of the old one and, once it runs, the commitment's lender;
- the debt is the one reckoned with until it is paid (`DebtKept`): accepting a bid does not touch another loan,
  and no time passes;
- the contract holds its stray tokens and what it was sent, lent and has received, less what it has paid
  (`BalancesOK`); the other contracts hold what they held, nobody but borrower and new lender has less
  than before, and the sum over all accounts is unchanged;
- the contracts are no party to anything between their transactions (`ApartInv`).

`QuotesKept` sums these up at the last step. It is about borrowers who are none of the others the
rollover pays: one who is also the lender of the old loan, or takes fees of the new one, gets part of
the cost back, an amount the quote does not contain (`OtherParties`). `QuoteSuffices`
states the conditions of the last payments (`CanFinish`) as such, rather than as what is enabled, and
covers the approval for the repayment as well.

The refinement shows the state before a transaction that is not finished. So calls in the middle of one,
and failures, are stutters (`CallsHidden`); the last call is one abstract step, a `Swap` for a rollover
(`FinishMaps`) and an `Ordinary` one for an automatic payment (`AutopayMaps`), for which `ProgressInv`
supplies the sums; and what the core does between such transactions is an `Ordinary` step of one loan, in
which at most one account pays, the lender when the loan begins (`OthersMap`). The creditor of the abstract
specification is the lender on record, which a claim of the loan's NFT replaces by `UsingLenderManager`. That no token is lost is a sum over all accounts again, of wallet
and vault together, and rests on `FiniteSums_proofs`.

### Deployments

The inductive invariant of `Deployment_proofs` follows a transaction from the script that sends it over
the mempool to the chain and from there to the records on disk. What was deployed or handed over (`Built`,
`Given`) only grows, and a script that is recorded, or a step of it that is past, and that waited for its
transaction, has left its trace there. What the send task replaced is
remembered, since it is the only way for a transfer that was not waited for to be lost.

The refinement needs the order as well (`OrderOK` in `HandOver_proofs`). Each transaction that is
sent can be carried out when it is mined: its arguments are contracts on the chain, and a transfer
of the LenderManager is only sent when LendNestV2 is the safe's. The scripts that must come first wait
for their transactions; that they come first follows from the dependencies of the scripts and
`PlansAssumption`. Likewise an upgrade is only proposed when LendNestV2 is open.

`AbortsExplained` says of each reason for which a script throws when it can happen, and is far from inductive.
The strengthening (`EInv` in `HandOver_proofs`), which TLC checked on the instance of `deployment` before it was
proved, has a part for each reason:

- a script finds the contracts it needs, but for two whose dependencies leave one out (`SupplyOK`): each
  script of the plan comes after those it depends on, or these have supplied what they deploy;
- an owner that has no name is only asked for on a network that names none (`NamesOK`);
- what was sent was sent by an account that has deployed, and what is not handed over belongs to one
  (`KeysOK`, `OwnersOK`), so that who does not own what it hands over has another mnemonic, or the
  contract has its final owner already;
- and of a deployment that never crashed and of which nothing was replaced (`CalmOK`), that what a run
  waits for is the only transaction in the mempool that can fail and will not, and that a one-shot script whose
  transaction took effect is recorded or has only to be. Nothing of this survives a crash, so it is a
  conjunct only under that condition.

### Only model-checked

- Liveness under fairness: `LoanEndsOrLiquidateable`, `DeploymentCompletes`.
- Properties of what is enabled: `RunningLoanRepayable`, `CollateralNeverStuck`. `EscrowsCanRelease` and
  `LoansCanEnd` prove that every check such a transaction makes passes; that a state after it exists,
  which is what `ENABLED` adds, is left to TLC.
- What the recursive operators compute, which the loan and deployment modules take as guards or
  assumptions: the annuity formula and the plans of scripts.

## What is not modelled, and the plan

Not modelled for good: the market liquidity rewards, of which only interface and tests are in the
repository; events and URIs; Ether sent along with attestations and the resolvers of other people's
schemas; meta transactions through `MetaForwarder`, which check a signature and a nonce and then call as
anybody would; the recipient of a loan and the choice of its token, which no commitment restricts;
`LenderCommitmentForwarder_G1`, an earlier form of `_G2` without recipients and proofs, and the
generations G1 and G2 of the flash rollover; quotes asked for another moment than the transaction's; a third
party that calls `LendNest.initialize` on the proxy between the scripts that deploy it without initializing it
(`teller_v2/deploy.ts`) and `initialize.ts`: the initializer is open to whoever comes first, and the
deployment models have nobody but the operator, the owners and the deploying accounts; the tenderly network, whose addresses come from the
environment, and hardhat tasks that only print.

What the bounds leave out is a collateral token that fails without reverting, after which an escrow's
record and its tokens part.

The loans, membership, commitments, rollovers, autopay and deployment are modelled and checked, and every
safety and action property that the passing runs check is proved, but for the two about what is enabled.
The plan has no more modules and no more theorems; what would come next is a collateral token that fails
silently.

## Running

    tlasany LoanProperties.tla
    tlc -workers 2 -config loan_custody.cfg MCLoanCustody.tla
    tlapm LendNestV2_proofs.tla

Each module of proofs is checked by itself, in a few minutes (`Extension_proofs` in less than ten). `tlapm` checks the
theorems of the module it is given and takes those of the modules it extends as known.
