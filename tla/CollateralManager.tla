-------------------------- MODULE CollateralManager --------------------------
(***************************************************************************)
(* CollateralManager.sol and the CollateralEscrowV1 contract it deploys    *)
(* for each bid.  An asset stands for a collateral contract with the token *)
(* id pledged: an ERC721 asset exists once, the others have amounts.       *)
(* LendNestV2 is the only caller of these operations, except for withdraw, *)
(* which anyone may call; what they read of LendNestV2 (the borrower, the  *)
(* lender, the state of the bid) is a parameter here.                      *)
(***************************************************************************)
EXTENDS LendNestTypes

CONSTANTS Assets,       \* collateral contracts
          NFTAssets     \* those of them that are ERC721

ASSUME CollateralAssumption == NFTAssets \subseteq Assets

VARIABLES
    collateralAddresses,  \* _bidCollaterals[b].collateralAddresses
    collateralAmount,     \* _bidCollaterals[b].collateralInfo[a]._amount
    escrows,              \* whether the escrow of b has been deployed
    collateralBalances,   \* the escrow's own record of what it holds
    escrowTokens,         \* the tokens the escrow contract really holds
    assetBalance          \* the tokens the accounts hold

cmVars == <<collateralAddresses, collateralAmount, escrows, collateralBalances,
            escrowTokens, assetBalance>>

NoCollateral == [a \in Assets |-> 0]

CMTypeOK ==
    /\ collateralAddresses \in [Bids -> SUBSET Assets]
    /\ collateralAmount \in [Bids -> [Assets -> Nat]]
    /\ escrows \in [Bids -> BOOLEAN]
    /\ collateralBalances \in [Bids -> [Assets -> Nat]]
    /\ escrowTokens \in [Bids -> [Assets -> Nat]]
    /\ assetBalance \in [Assets -> [Accounts -> Nat]]

CMInit(initialAssets) ==
    /\ collateralAddresses = [b \in Bids |-> {}]
    /\ collateralAmount = [b \in Bids |-> NoCollateral]
    /\ escrows = [b \in Bids |-> FALSE]
    /\ collateralBalances = [b \in Bids |-> NoCollateral]
    /\ escrowTokens = [b \in Bids |-> NoCollateral]
    /\ assetBalance = initialAssets

IsBidCollateralBacked(b) == collateralAddresses[b] # {}

\* What was committed to the bid, as the amounts an escrow would hold.
Pledge(b) == [a \in Assets |-> IF a \in collateralAddresses[b] THEN collateralAmount[b][a] ELSE 0]

\* _checkBalance: the borrower owns the pledged amount at this moment.
CheckBalance(borrower, a, amount) ==
    IF a \in NFTAssets THEN assetBalance[a][borrower] = 1
    ELSE amount <= assetBalance[a][borrower]

-----------------------------------------------------------------------------
\* commitCollateral with a list of distinct collateral contracts: infos maps
\* each of them to the amount pledged.  Nothing is transferred.  A list that
\* names a contract twice, or a failed balance check, reverts the submission.
CommitCollateral(b, borrower, infos) ==
    /\ \A a \in DOMAIN infos :
          /\ CheckBalance(borrower, a, infos[a])
          /\ a \notin collateralAddresses[b]
          /\ a \in NFTAssets => infos[a] = 1
    /\ collateralAddresses' = [collateralAddresses EXCEPT ![b] = @ \cup DOMAIN infos]
    /\ collateralAmount' = [collateralAmount EXCEPT ![b] =
          [a \in Assets |-> IF a \in DOMAIN infos THEN infos[a] ELSE @[a]]]
    /\ UNCHANGED <<escrows, collateralBalances, escrowTokens, assetBalance>>

\* Mutant of CanDeposit: the borrower's balance is not checked again.
DepositUnchecked(b, borrower) ==
    \A a \in collateralAddresses[b] : collateralAmount[b][a] > 0 /\ collateralBalances[b][a] = 0

\* _deposit of every committed asset succeeds: amounts are positive, the
\* borrower still has them, and the escrow has no record of the asset yet.
CanDeposit(b, borrower) ==
    \A a \in collateralAddresses[b] :
        /\ collateralAmount[b][a] > 0
        /\ collateralAmount[b][a] <= assetBalance[a][borrower]
        /\ collateralBalances[b][a] = 0

\* Mutant of RecordAfterDeposit: the escrow receives tokens it does not record.
DepositUnrecorded(b) == collateralBalances[b]

\* The escrow's record after depositAsset of every committed asset.
RecordAfterDeposit(b) ==
    [a \in Assets |-> IF a \in collateralAddresses[b] THEN collateralAmount[b][a]
                      ELSE collateralBalances[b][a]]

\* deployAndDeposit: the collateral moves from the borrower to the bid's own
\* escrow, in full or not at all.
DeployAndDeposit(b, borrower) ==
    IF IsBidCollateralBacked(b)
    THEN /\ CanDeposit(b, borrower)
         /\ escrows' = [escrows EXCEPT ![b] = TRUE]
         /\ collateralBalances' = [collateralBalances EXCEPT ![b] = RecordAfterDeposit(b)]
         /\ escrowTokens' = [escrowTokens EXCEPT ![b] = [a \in Assets |-> @[a] + Pledge(b)[a]]]
         /\ assetBalance' = [a \in Assets |->
               [assetBalance[a] EXCEPT ![borrower] = @ - Pledge(b)[a]]]
         /\ UNCHANGED <<collateralAddresses, collateralAmount>>
    ELSE UNCHANGED cmVars

\* CollateralEscrowV1.withdraw of every committed asset succeeds.
CanWithdraw(b) ==
    \A a \in collateralAddresses[b] :
        /\ collateralAmount[b][a] > 0
        /\ collateralAmount[b][a] <= collateralBalances[b][a]
        /\ collateralAmount[b][a] <= escrowTokens[b][a]

\* Mutant of RecordAfterWithdraw: the record is not reduced.
WithdrawUnrecorded(b) == collateralBalances[b]

\* The escrow's record after `collateral._amount -= _amount` for every asset.
RecordAfterWithdraw(b) ==
    [a \in Assets |-> collateralBalances[b][a] - Pledge(b)[a]]

\* _withdraw: everything committed to the bid leaves its escrow for receiver.
\* For a bid without collateral the loop is empty.
WithdrawCollateral(b, receiver) ==
    /\ CanWithdraw(b)
    /\ collateralBalances' = [collateralBalances EXCEPT ![b] = RecordAfterWithdraw(b)]
    /\ escrowTokens' = [escrowTokens EXCEPT ![b] = [a \in Assets |-> @[a] - Pledge(b)[a]]]
    /\ assetBalance' = [a \in Assets |->
          [assetBalance[a] EXCEPT ![receiver] = @ + Pledge(b)[a]]]
    /\ UNCHANGED <<collateralAddresses, collateralAmount, escrows>>

\* withdraw, called by anyone or by a final repayment: only a bid that is PAID
\* gives its collateral back to the borrower.
Withdraw(b, bidState, borrower) ==
    /\ bidState = "PAID"
    /\ WithdrawCollateral(b, borrower)

\* lenderClaimCollateral: a CLOSED bid gives its collateral to the lender.
LenderClaimCollateral(b, bidState, lender) ==
    IF IsBidCollateralBacked(b)
    THEN bidState = "CLOSED" /\ WithdrawCollateral(b, lender)
    ELSE UNCHANGED cmVars

\* liquidateCollateral: a LIQUIDATED bid gives its collateral to the liquidator.
LiquidateCollateral(b, bidState, liquidator) ==
    IF IsBidCollateralBacked(b)
    THEN bidState = "LIQUIDATED" /\ WithdrawCollateral(b, liquidator)
    ELSE UNCHANGED cmVars
=============================================================================
