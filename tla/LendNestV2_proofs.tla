-------------------------- MODULE LendNestV2_proofs --------------------------
(***************************************************************************)
(* Proofs that LendNestV2 keeps its types, never counts more principal     *)
(* repaid than was lent while a loan runs, and holds in the escrow of each *)
(* bid what its state calls for: for any accounts, assets, amounts, times  *)
(* and market settings.                                                    *)
(***************************************************************************)
EXTENDS LoanProperties, TLAPS

\* The invariant that every step preserves.
IInv == TypeOK /\ WellFormed /\ RepaidWithinPrincipal /\ CustodyMatchesState

-----------------------------------------------------------------------------
(* Arithmetic *)

\* A product of naturals is a natural.
LEMMA MulNat == \A x, y \in Nat : x * y \in Nat
  OBVIOUS

\* So is a quotient.
LEMMA DivNat == \A x \in Nat, y \in Nat \ {0} : x \div y \in Nat
  OBVIOUS

\* percent() of a number of tokens is a number of tokens.
LEMMA PercentType == \A x, pct \in Nat : Percent(x, pct) \in Nat
  BY MulNat, DivNat DEF Percent, PCT_100

\* A transfer that the sender can afford leaves balances.
LEMMA TransferType ==
    ASSUME NEW bal \in [Holders -> Nat], NEW from \in Holders, NEW to, NEW n \in Nat,
           CanTransfer(bal, from, n)
    PROVE  Transfer(bal, from, to, n) \in [Holders -> Nat]
  BY DEF CanTransfer, Transfer

-----------------------------------------------------------------------------
(* What a running loan owes *)

\* What calculateAmountOwed finds for a running loan are numbers of tokens.
LEMMA OwedType ==
    ASSUME IInv, NEW b \in Bids, state[b] = "ACCEPTED"
    PROVE  /\ Owed(b) \in Nat
           /\ InterestOwed(b) \in Nat
           /\ LastRepaid(b) \in Nat /\ LastRepaid(b) <= now
  <1>1. bid[b] \in BidType
    BY DEF IInv, TypeOK, LoanTypeOK
  <1>2. Owed(b) \in Nat
    BY <1>1 DEF IInv, TypeOK, LoanTypeOK, BidType, RepaidWithinPrincipal, Owed, OwedPrincipal
  <1>3. LastRepaid(b) \in Nat /\ LastRepaid(b) <= now
    BY DEF IInv, TypeOK, LoanTypeOK, WellFormed, LastRepaid, LastRepaidTimestamp
  <1>4. Percent(Owed(b), bid[b].apr) \in Nat
    BY <1>1, <1>2, PercentType DEF BidType
  <1>5. now - LastRepaid(b) \in Nat
    BY <1>3 DEF IInv, TypeOK, LoanTypeOK
  <1>6. DaysInYear(bid[b].cycleType) \in Nat \ {0}
    BY CalculationsAssumption DEF DaysInYear
  <1>7. Percent(Owed(b), bid[b].apr) * (now - LastRepaid(b)) \in Nat
    BY <1>4, <1>5, MulNat
  <1>8. InterestOwed(b) \in Nat
    BY <1>6, <1>7, DivNat DEF InterestOwed, Interest, Owed
  <1> QED
    BY <1>2, <1>3, <1>8

\* The least payment asked for is never more than the principal still open.
LEMMA DueType ==
    ASSUME IInv, NEW b \in Bids, state[b] = "ACCEPTED", ~OwedReverts(b)
    PROVE  Due(b) \in Nat /\ Due(b) <= Owed(b)
  <1> DEFINE share == OwedAmount(bid[b], accepted[b], repaidPrincipal[b], LastRepaid(b), now)
             last  == IsLastPaymentCycle(bid[b], accepted[b], repaidPrincipal[b],
                                         LastRepaid(b), now)
  <1>1. bid[b] \in BidType
    BY DEF IInv, TypeOK, LoanTypeOK
  <1>2. Owed(b) \in Nat /\ InterestOwed(b) \in Nat /\ now - LastRepaid(b) \in Nat
    BY OwedType DEF IInv, TypeOK, LoanTypeOK
  <1>3. bid[b].paymentCycle \in Nat \ {0}
    BY <1>1 DEF BidType, OwedReverts, AmountOwedReverts
  <1>4. share \in Nat
    <2>1. CASE last
      BY <1>2, <2>1 DEF OwedAmount, Owed, InterestOwed
    <2>2. CASE ~last
      <3>1. bid[b].cycleAmount * (now - LastRepaid(b)) \in Nat
        BY <1>1, <1>2, MulNat DEF BidType
      <3>2. share = (bid[b].cycleAmount * (now - LastRepaid(b))) \div bid[b].paymentCycle
        BY <2>2 DEF OwedAmount
      <3> QED
        BY <1>3, <3>1, <3>2, DivNat
    <2> QED
      BY <2>1, <2>2
  <1>5. CASE bid[b].paymentType = "Bullet"
    BY <1>2, <1>5 DEF Due, DuePrincipal, Owed
  <1>6. CASE bid[b].paymentType = "EMI"
    <2>1. share >= InterestOwed(b)
      BY <1>2, <1>4, <1>6 DEF OwedReverts, AmountOwedReverts, InterestOwed
    <2>2. Due(b) = IF share - InterestOwed(b) < Owed(b) THEN share - InterestOwed(b) ELSE Owed(b)
      BY <1>6 DEF Due, DuePrincipal, Owed, InterestOwed
    <2> QED
      BY <1>2, <1>4, <2>1, <2>2
  <1> QED
    BY <1>1, <1>5, <1>6 DEF BidType

-----------------------------------------------------------------------------
(* Every step preserves the invariant: one lemma per action *)

\* The contracts as deployed satisfy the invariant.
LEMMA InitInv == Init => IInv
  <1> SUFFICES ASSUME Init PROVE IInv
    OBVIOUS
  <1>1. LoanTypeOK
    <2>1. EmptyBid \in BidType
      BY DEF EmptyBid, BidType
    <2>2. bidId \in 0 .. MaxBids
      BY TypesAssumption DEF Init
    <2> QED
      BY <2>1, <2>2, LendNestAssumption DEF Init, LoanTypeOK, BidState
  <1>2. VaultTypeOK
    BY LendNestAssumption DEF Init, VaultTypeOK, Holders
  <1>3. CMTypeOK
    BY LendNestAssumption DEF Init, CMInit, CMTypeOK, NoCollateral
  <1>4. RMTypeOK
    BY DEF Init, RMInit, RMTypeOK, MarksType
  <1>5. MRTypeOK
    BY LendNestAssumption, MarketAssumption DEF Init, MRInit, MRTypeOK, Roles
  <1>6. WellFormed
    BY LendNestAssumption DEF Init, WellFormed, Bids
  <1>7. RepaidWithinPrincipal
    BY DEF Init, RepaidWithinPrincipal
  <1>8. CustodyMatchesState
    BY DEF Init, CMInit, CustodyMatchesState
  <1> QED
    BY <1>1, <1>2, <1>3, <1>4, <1>5, <1>6, <1>7, <1>8 DEF IInv, TypeOK

\* submitBid: a new bid with nothing in its escrow.
LEMMA SubmitBidInv ==
    ASSUME IInv, NEW sender \in Accounts, NEW receiver \in Accounts \cup {NoAccount},
           NEW m \in Markets, NEW principal \in Nat, NEW duration \in Nat, NEW apr \in Nat,
           NEW offered \in SUBSET Assets, NEW infos \in [offered -> Nat],
           SubmitBid(sender, receiver, m, principal, duration, apr, infos)
    PROVE  IInv'
  <1> DEFINE new == NewBid(sender, receiver, m, principal, duration, apr)
  <1>1. bidId \in Bids /\ state[bidId] = "NONEXISTENT"
    BY TypesAssumption DEF IInv, TypeOK, LoanTypeOK, WellFormed, SubmitBid, Bids
  <1>2. markets[m] \in SettingsType
    BY DEF IInv, TypeOK, MRTypeOK
  <1>3. new \in BidType /\ new.borrower \in Accounts /\ new.receiver \in Accounts
        /\ new.market \in Markets
    <2>1. CycleAmount(m, principal, duration, apr) \in Nat
      BY DEF SubmitBid, NewBidReverts
    <2>2. now \in Nat
      BY DEF IInv, TypeOK, LoanTypeOK
    <2> QED
      BY <1>2, <2>1, <2>2, LendNestAssumption DEF SettingsType, NewBid, BidType
  <1>4. bid' = [bid EXCEPT ![bidId] = new] /\ state' = [state EXCEPT ![bidId] = "PENDING"]
        /\ bidId' = bidId + 1
    BY DEF SubmitBid
  <1>5. LoanTypeOK'
    <2>1. bid' \in [Bids -> BidType] /\ state' \in [Bids -> BidState] /\ bidId' \in 0 .. MaxBids
      BY <1>1, <1>3, <1>4, TypesAssumption DEF IInv, TypeOK, LoanTypeOK, BidState, Bids
    <2> QED
      BY <2>1 DEF IInv, TypeOK, LoanTypeOK, SubmitBid, volumeVars, ownerVars
  <1>6. CMTypeOK'
    <2>1. infos \in [offered -> Nat]
      BY LendNestAssumption
    <2>2. [a \in Assets |-> IF a \in DOMAIN infos THEN infos[a] ELSE collateralAmount[bidId][a]]
              \in [Assets -> Nat]
      BY <1>1, <2>1 DEF IInv, TypeOK, CMTypeOK
    <2>3. collateralAmount' \in [Bids -> [Assets -> Nat]]
      BY <1>1, <2>2 DEF IInv, TypeOK, CMTypeOK, SubmitBid, CommitCollateral
    <2>4. collateralAddresses' \in [Bids -> SUBSET Assets]
      BY <1>1, <2>1 DEF IInv, TypeOK, CMTypeOK, SubmitBid, CommitCollateral
    <2> QED
      BY <2>3, <2>4 DEF IInv, TypeOK, CMTypeOK, SubmitBid, CommitCollateral
  <1>7. VaultTypeOK' /\ RMTypeOK' /\ MRTypeOK'
    BY DEF IInv, TypeOK, VaultTypeOK, RMTypeOK, MRTypeOK, SubmitBid, vaultVars, marketVars
  <1>8. WellFormed'
    BY <1>1, <1>3, <1>4 DEF IInv, TypeOK, LoanTypeOK, WellFormed, SubmitBid, LoanLender, Bids
  <1>9. RepaidWithinPrincipal'
    BY <1>1, <1>4 DEF IInv, TypeOK, LoanTypeOK, RepaidWithinPrincipal, SubmitBid
  <1>10. CustodyMatchesState'
    BY <1>1, <1>4 DEF IInv, TypeOK, LoanTypeOK, CMTypeOK, CustodyMatchesState, SubmitBid,
       CommitCollateral, Pledge, NoCollateral
  <1> QED
    BY <1>5, <1>6, <1>7, <1>8, <1>9, <1>10 DEF IInv, TypeOK

\* cancelBid and marketOwnerCancelBid.
LEMMA CancelInv ==
    ASSUME IInv, NEW b \in Bids, Cancel(b)
    PROVE  IInv'
  <1>1. LoanTypeOK'
    BY DEF IInv, TypeOK, LoanTypeOK, Cancel, volumeVars, ownerVars, BidState
  <1>2. CMTypeOK' /\ VaultTypeOK' /\ RMTypeOK' /\ MRTypeOK'
    BY DEF IInv, TypeOK, CMTypeOK, VaultTypeOK, RMTypeOK, MRTypeOK, Cancel, cmVars, vaultVars,
       marketVars
  <1>3. WellFormed'
    BY DEF IInv, TypeOK, LoanTypeOK, WellFormed, Cancel, LoanLender
  <1>4. RepaidWithinPrincipal'
    BY DEF IInv, TypeOK, LoanTypeOK, RepaidWithinPrincipal, Cancel
  <1>5. CustodyMatchesState'
    BY DEF IInv, TypeOK, LoanTypeOK, CustodyMatchesState, Cancel, cmVars, Pledge
  <1> QED
    BY <1>1, <1>2, <1>3, <1>4, <1>5 DEF IInv, TypeOK

\* The fees of a bid that waits are numbers of tokens.
LEMMA FeesType ==
    ASSUME IInv, NEW b \in Bids, state[b] = "PENDING"
    PROVE  AmountToProtocol(b) \in Nat /\ AmountToMarketplace(b) \in Nat
  <1>1. bid[b] \in BidType /\ bid[b].market \in Markets
    BY DEF IInv, TypeOK, LoanTypeOK, WellFormed
  <1>2. AmountToProtocol(b) \in Nat
    BY <1>1, PercentType DEF IInv, TypeOK, LoanTypeOK, BidType, AmountToProtocol
  <1>3. AmountToMarketplace(b) \in Nat
    BY <1>1, PercentType DEF IInv, TypeOK, MRTypeOK, SettingsType, BidType, AmountToMarketplace
  <1> QED
    BY <1>2, <1>3

\* The three payments of an acceptance leave balances.
LEMMA DisbursalType ==
    ASSUME IInv, NEW b \in Bids, state[b] = "PENDING", NEW sender \in Accounts,
           CanDisburse(sender, b)
    PROVE  BalanceAfterDisbursal(sender, b) \in [Holders -> Nat]
  <1>1. bid[b] \in BidType /\ bid[b].market \in Markets /\ sender \in Holders
    BY DEF IInv, TypeOK, LoanTypeOK, WellFormed, Holders
  <1>2. AmountToProtocol(b) \in Nat /\ AmountToMarketplace(b) \in Nat
    BY FeesType
  <1>3. AmountToBorrower(b) \in Nat
    BY <1>1, <1>2 DEF CanDisburse, AmountToBorrower, BidType
  <1>4. BalanceAfterProtocolFee(sender, b) \in [Holders -> Nat]
    BY <1>1, <1>2, TransferType DEF IInv, TypeOK, VaultTypeOK, CanDisburse, BalanceAfterProtocolFee
  <1>5. BalanceAfterMarketFee(sender, b) \in [Holders -> Nat]
    BY <1>1, <1>2, <1>4, TransferType DEF CanDisburse, BalanceAfterMarketFee
  <1> QED
    BY <1>1, <1>3, <1>5, TransferType DEF CanDisburse, BalanceAfterDisbursal

\* A deposit fills the escrow of a bid that had none with what was committed.
LEMMA DepositInv ==
    ASSUME IInv, NEW b \in Bids, state[b] = "PENDING", NEW borrower \in Accounts,
           DeployAndDeposit(b, borrower)
    PROVE  /\ CMTypeOK'
           /\ collateralAddresses' = collateralAddresses /\ collateralAmount' = collateralAmount
           /\ escrowTokens' = [escrowTokens EXCEPT ![b] = Pledge(b)]
           /\ collateralBalances' = [collateralBalances EXCEPT ![b] = Pledge(b)]
  <1>1. /\ CMTypeOK
        /\ escrowTokens[b] = NoCollateral /\ collateralBalances[b] = NoCollateral
    BY DEF IInv, TypeOK, CustodyMatchesState
  <1>2. Pledge(b) \in [Assets -> Nat]
    BY <1>1 DEF CMTypeOK, Pledge
  <1>3. CASE IsBidCollateralBacked(b)
    <2>1. RecordAfterDeposit(b) = Pledge(b)
      BY <1>1 DEF RecordAfterDeposit, Pledge, NoCollateral
    <2>2. [a \in Assets |-> escrowTokens[b][a] + Pledge(b)[a]] = Pledge(b)
      <3>1. \A a \in Assets : escrowTokens[b][a] + Pledge(b)[a] = Pledge(b)[a]
        BY <1>1, <1>2 DEF NoCollateral
      <3> QED
        BY <1>2, <3>1
    <2>3. escrowTokens' = [escrowTokens EXCEPT ![b] = Pledge(b)]
      BY <1>1, <1>3, <2>2 DEF CMTypeOK, DeployAndDeposit
    <2>4. collateralBalances' = [collateralBalances EXCEPT ![b] = Pledge(b)]
      BY <1>3, <2>1 DEF DeployAndDeposit
    <2>5. assetBalance' \in [Assets -> [Accounts -> Nat]]
      <3>1. \A a \in Assets : Pledge(b)[a] <= assetBalance[a][borrower]
        BY <1>1, <1>3 DEF DeployAndDeposit, CanDeposit, Pledge, CMTypeOK
      <3>2. \A a \in Assets :
               [assetBalance[a] EXCEPT ![borrower] = @ - Pledge(b)[a]] \in [Accounts -> Nat]
        BY <1>1, <1>2, <3>1 DEF CMTypeOK
      <3> QED
        BY <1>3, <3>2 DEF DeployAndDeposit
    <2>6. escrows' \in [Bids -> BOOLEAN]
      BY <1>1, <1>3 DEF DeployAndDeposit, CMTypeOK
    <2> QED
      BY <1>1, <1>2, <1>3, <2>3, <2>4, <2>5, <2>6 DEF DeployAndDeposit, CMTypeOK
  <1>4. CASE ~IsBidCollateralBacked(b)
    <2>1. UNCHANGED cmVars
      BY <1>4 DEF DeployAndDeposit
    <2>2. Pledge(b) = NoCollateral
      BY <1>4 DEF IsBidCollateralBacked, Pledge, NoCollateral
    <2> QED
      BY <1>1, <2>1, <2>2 DEF cmVars, CMTypeOK
  <1> QED
    BY <1>3, <1>4

\* lenderAcceptBid: the money goes out and the collateral comes in.
LEMMA LenderAcceptBidInv ==
    ASSUME IInv, NEW b \in Bids, NEW sender \in Accounts, LenderAcceptBid(sender, b)
    PROVE  IInv'
  <1>1. sender \in Accounts /\ state[b] = "PENDING" /\ bid[b] \in BidType
        /\ bid[b].borrower \in Accounts
    BY LendNestAssumption DEF IInv, TypeOK, LoanTypeOK, WellFormed, LenderAcceptBid
  <1>2. LoanTypeOK'
    <2>1. accepted' \in [Bids -> Nat] /\ lastRepaid' \in [Bids -> Nat]
      BY DEF IInv, TypeOK, LoanTypeOK, LenderAcceptBid
    <2>2. state' \in [Bids -> BidState]
      BY DEF IInv, TypeOK, LoanTypeOK, LenderAcceptBid, BidState
    <2>3. lender' \in [Bids -> Accounts \cup {NoAccount, UsingLenderManager}]
      BY <1>1 DEF IInv, TypeOK, LoanTypeOK, LenderAcceptBid
    <2>4. lenderVolume' \in [Accounts -> Nat] /\ totalVolume' \in Nat
      BY <1>1 DEF IInv, TypeOK, LoanTypeOK, LenderAcceptBid, BidType
    <2>5. active' \in [Accounts -> SUBSET Bids]
      BY <1>1 DEF IInv, TypeOK, LoanTypeOK, LenderAcceptBid
    <2> QED
      BY <2>1, <2>2, <2>3, <2>4, <2>5 DEF IInv, TypeOK, LoanTypeOK, LenderAcceptBid, ownerVars
  <1>3. DeployAndDeposit(b, bid[b].borrower) /\ CanDisburse(sender, b)
    BY DEF LenderAcceptBid
  <1>4. VaultTypeOK'
    BY <1>1, <1>3, DisbursalType DEF IInv, TypeOK, VaultTypeOK, LenderAcceptBid
  <1>5. /\ CMTypeOK'
        /\ collateralAddresses' = collateralAddresses /\ collateralAmount' = collateralAmount
        /\ escrowTokens' = [escrowTokens EXCEPT ![b] = Pledge(b)]
        /\ collateralBalances' = [collateralBalances EXCEPT ![b] = Pledge(b)]
    BY <1>1, <1>3, DepositInv
  <1>6. RMTypeOK' /\ MRTypeOK'
    BY DEF IInv, TypeOK, RMTypeOK, MRTypeOK, LenderAcceptBid, marketVars
  <1>7. WellFormed'
    BY <1>1, LendNestAssumption DEF IInv, TypeOK, LoanTypeOK, WellFormed, LenderAcceptBid,
       LoanLender
  <1>8. RepaidWithinPrincipal'
    BY <1>1 DEF IInv, TypeOK, LoanTypeOK, RepaidWithinPrincipal, LenderAcceptBid, BidType
  <1>9. CustodyMatchesState'
    BY <1>1, <1>5 DEF IInv, TypeOK, LoanTypeOK, CMTypeOK, CustodyMatchesState, LenderAcceptBid,
       Pledge
  <1> QED
    BY <1>2, <1>4, <1>5, <1>6, <1>7, <1>8, <1>9 DEF IInv, TypeOK

\* claimLoanNFT: the lender of the loan is now the owner of its NFT.
LEMMA ClaimLoanNFTInv ==
    ASSUME IInv, NEW b \in Bids, NEW sender \in Lenders, ClaimLoanNFT(sender, b)
    PROVE  IInv'
  <1>1. LoanTypeOK'
    BY LendNestAssumption DEF IInv, TypeOK, LoanTypeOK, ClaimLoanNFT, volumeVars, ownerVars
  <1>2. CMTypeOK' /\ VaultTypeOK' /\ RMTypeOK' /\ MRTypeOK'
    BY DEF IInv, TypeOK, CMTypeOK, VaultTypeOK, RMTypeOK, MRTypeOK, ClaimLoanNFT, cmVars,
       vaultVars, marketVars
  <1>3. WellFormed'
    BY LendNestAssumption DEF IInv, TypeOK, LoanTypeOK, WellFormed, ClaimLoanNFT, LoanLender
  <1>4. RepaidWithinPrincipal' /\ CustodyMatchesState'
    BY DEF IInv, RepaidWithinPrincipal, CustodyMatchesState, ClaimLoanNFT, cmVars, Pledge
  <1> QED
    BY <1>1, <1>2, <1>3, <1>4 DEF IInv, TypeOK

\* A transfer of the loan NFT.
LEMMA TransferLoanNFTInv ==
    ASSUME IInv, NEW b \in Bids, NEW to \in Assignees, TransferLoanNFT(to, b)
    PROVE  IInv'
  <1>1. LoanTypeOK'
    BY LendNestAssumption DEF IInv, TypeOK, LoanTypeOK, TransferLoanNFT, volumeVars, ownerVars
  <1>2. CMTypeOK' /\ VaultTypeOK' /\ RMTypeOK' /\ MRTypeOK'
    BY DEF IInv, TypeOK, CMTypeOK, VaultTypeOK, RMTypeOK, MRTypeOK, TransferLoanNFT, cmVars,
       vaultVars, marketVars
  <1>3. WellFormed'
    BY LendNestAssumption DEF IInv, TypeOK, LoanTypeOK, WellFormed, TransferLoanNFT, LoanLender
  <1>4. RepaidWithinPrincipal' /\ CustodyMatchesState'
    BY DEF IInv, RepaidWithinPrincipal, CustodyMatchesState, TransferLoanNFT, cmVars, Pledge
  <1> QED
    BY <1>1, <1>2, <1>3, <1>4 DEF IInv, TypeOK

\* A withdrawal empties the escrow of its bid and of no other.
LEMMA WithdrawInv ==
    ASSUME IInv, NEW b \in Bids, NEW receiver \in Accounts, WithdrawCollateral(b, receiver),
           escrowTokens[b] \in {NoCollateral, Pledge(b)}
    PROVE  /\ CMTypeOK'
           /\ collateralAddresses' = collateralAddresses /\ collateralAmount' = collateralAmount
           /\ escrowTokens' = [escrowTokens EXCEPT ![b] = NoCollateral]
           /\ collateralBalances' = [collateralBalances EXCEPT ![b] = NoCollateral]
  <1>1. CMTypeOK /\ collateralBalances[b] = escrowTokens[b] /\ CanWithdraw(b)
    BY DEF IInv, TypeOK, CustodyMatchesState, WithdrawCollateral
  <1>2. Pledge(b) \in [Assets -> Nat]
    BY <1>1 DEF CMTypeOK, Pledge
  <1>3. escrowTokens[b] = Pledge(b)
    <2>1. CASE escrowTokens[b] = NoCollateral
      <3>1. collateralAddresses[b] = {}
        BY <1>1, <2>1 DEF CanWithdraw, NoCollateral, CMTypeOK
      <3> QED
        BY <2>1, <3>1 DEF Pledge, NoCollateral
    <2> QED
      BY <2>1
  <1>4. \A a \in Assets : Pledge(b)[a] \in Nat
    BY <1>2
  <1>5. [a \in Assets |-> escrowTokens[b][a] - Pledge(b)[a]] = NoCollateral
    BY <1>3, <1>4 DEF NoCollateral
  <1>6. escrowTokens' = [escrowTokens EXCEPT ![b] = NoCollateral]
    BY <1>1, <1>5 DEF WithdrawCollateral, CMTypeOK
  <1>7. collateralBalances' = [collateralBalances EXCEPT ![b] = NoCollateral]
    BY <1>1, <1>5 DEF WithdrawCollateral, RecordAfterWithdraw
  <1>8. assetBalance' \in [Assets -> [Accounts -> Nat]]
    BY <1>1, <1>4 DEF WithdrawCollateral, CMTypeOK
  <1>9. NoCollateral \in [Assets -> Nat]
    BY DEF NoCollateral
  <1>10. UNCHANGED <<collateralAddresses, collateralAmount, escrows>>
    BY DEF WithdrawCollateral
  <1>11. escrowTokens' \in [Bids -> [Assets -> Nat]]
         /\ collateralBalances' \in [Bids -> [Assets -> Nat]]
    BY <1>1, <1>6, <1>7, <1>9 DEF CMTypeOK
  <1>12. CMTypeOK'
    BY <1>1, <1>8, <1>10, <1>11 DEF CMTypeOK
  <1> QED
    BY <1>6, <1>7, <1>10, <1>12

\* Marks stay sets of bids.
LEMMA ApplyReputationType ==
    ASSUME NEW mk \in MarksType, NEW acct \in Accounts,
           NEW defaulted \in SUBSET Bids, NEW late \in SUBSET Bids
    PROVE  ApplyReputation(mk, acct, defaulted, late) \in MarksType
  BY DEF MarksType, ApplyReputation

\* The same for a single bid.
LEMMA ApplyMarkType ==
    ASSUME NEW mk \in MarksType, NEW acct \in Accounts, NEW b \in Bids, NEW mark
    PROVE  ApplyMark(mk, acct, b, mark) \in MarksType
  BY ApplyReputationType DEF ApplyMark

\* A payment on a running loan, whatever becomes of its collateral.
LEMMA RepayInv ==
    ASSUME IInv, NEW b \in Bids, state[b] = "ACCEPTED", NEW payer \in Accounts,
           NEW st \in {"ACCEPTED", "LIQUIDATED"}, NEW principal \in Nat, NEW direct \in BOOLEAN,
           st = "LIQUIDATED" => principal = Owed(b),
           RepayLoan_(payer, b, st, principal, InterestOwed(b), direct)
    PROVE  /\ LoanTypeOK' /\ VaultTypeOK' /\ RMTypeOK' /\ MRTypeOK'
           /\ WellFormed' /\ RepaidWithinPrincipal'
           /\ state' = [state EXCEPT ![b] = StateAfterPayment(b, st, principal, InterestOwed(b))]
           /\ StateAfterPayment(b, st, principal, InterestOwed(b))
                 \in {"ACCEPTED", "PAID", "LIQUIDATED"}
  <1> DEFINE interest == InterestOwed(b)
             after    == StateAfterPayment(b, st, principal, interest)
  <1>1. /\ bid[b] \in BidType /\ payer \in Accounts
        /\ bid[b].borrower \in Accounts /\ LoanLender(b) \in Accounts
        /\ Owed(b) \in Nat /\ interest \in Nat
    BY OwedType, LendNestAssumption DEF IInv, TypeOK, LoanTypeOK, WellFormed
  <1>2. state' = [state EXCEPT ![b] = after]
    BY DEF RepayLoan_
  <1>3. after \in {"ACCEPTED", "PAID", "LIQUIDATED"}
    BY DEF StateAfterPayment
  <1>4. LoanTypeOK'
    <2>1. state' \in [Bids -> BidState]
      BY <1>2, <1>3 DEF IInv, TypeOK, LoanTypeOK, BidState
    <2>2. active' \in [Accounts -> SUBSET Bids]
      BY <1>1 DEF IInv, TypeOK, LoanTypeOK, RepayLoan_, ActiveAfterPayment
    <2>3. /\ repaidPrincipal' \in [Bids -> Nat] /\ repaidInterest' \in [Bids -> Nat]
          /\ lastRepaid' \in [Bids -> Nat]
      BY <1>1 DEF IInv, TypeOK, LoanTypeOK, RepayLoan_
    <2>4. UNCHANGED <<bidId, bid, lender, loanOwner, accepted, lenderVolume, totalVolume,
                      protocolFee, paused, now>>
      BY DEF RepayLoan_, volumeVars, ownerVars
    <2> QED
      BY <2>1, <2>2, <2>3, <2>4 DEF IInv, TypeOK, LoanTypeOK
  <1>5. VaultTypeOK'
    <2> DEFINE amount == AmountTaken(b, principal, interest)
               paid   == Transfer(tokenBalance, payer, Self, amount)
    <2>1. amount \in Nat
      BY <1>1 DEF AmountTaken
    <2>2. /\ tokenBalance \in [Holders -> Nat] /\ vaultBalances \in [Accounts -> Nat]
          /\ payer \in Holders /\ Self \in Holders
          /\ CanTransfer(tokenBalance, payer, amount)
      BY <1>1 DEF IInv, TypeOK, VaultTypeOK, Holders, RepayLoan_, SendOrEscrowFunds
    <2>3. CASE direct
      <3>1. Transfer(tokenBalance, payer, LoanLender(b), amount) \in [Holders -> Nat]
        BY <2>1, <2>2, TransferType
      <3> QED
        BY <2>2, <2>3, <3>1 DEF VaultTypeOK, RepayLoan_, SendOrEscrowFunds
    <2>4. CASE ~direct
      <3>1. VaultDeposit(paid, Self, LoanLender(b), amount)
        BY <2>4 DEF RepayLoan_, SendOrEscrowFunds
      <3>2. paid \in [Holders -> Nat]
        BY <2>1, <2>2, TransferType
      <3>3. tokenBalance' \in [Holders -> Nat]
        BY <2>1, <2>2, <3>1, <3>2, TransferType DEF VaultDeposit
      <3>4. vaultBalances' \in [Accounts -> Nat]
        BY <1>1, <2>1, <2>2, <3>1 DEF VaultDeposit, CreditAfterDeposit
      <3> QED
        BY <3>3, <3>4 DEF VaultTypeOK
    <2> QED
      BY <2>3, <2>4
  <1>6. RMTypeOK'
    <2>1. MarksAfterPayment(b, st, principal, interest) \in MarksType
      BY <1>1, ApplyMarkType DEF IInv, TypeOK, RMTypeOK, MarksAfterPayment
    <2> QED
      BY <2>1 DEF RMTypeOK, RepayLoan_
  <1>7. MRTypeOK'
    BY DEF IInv, TypeOK, MRTypeOK, RepayLoan_, marketVars
  <1>8. WellFormed'
    BY <1>1, <1>2, <1>3 DEF IInv, TypeOK, LoanTypeOK, WellFormed, RepayLoan_, LoanLender
  <1>9. RepaidWithinPrincipal'
    <2>1. /\ bid' = bid
          /\ repaidPrincipal' = [repaidPrincipal EXCEPT ![b] = @ + principal]
          /\ repaidPrincipal[b] \in Nat /\ bid[b].principal \in Nat
          /\ Owed(b) = bid[b].principal - repaidPrincipal[b]
      BY <1>1 DEF IInv, TypeOK, LoanTypeOK, RepayLoan_, BidType, Owed, OwedPrincipal
    <2>2. CASE IsSettled(b, principal, interest)
      <3>1. principal >= Owed(b)
        BY <1>1, <2>2 DEF IsSettled
      <3>2. after = "PAID" \/ (after = "LIQUIDATED" /\ principal = Owed(b))
        BY <2>2 DEF StateAfterPayment
      <3> QED
        BY <1>2, <2>1, <3>1, <3>2 DEF IInv, TypeOK, LoanTypeOK, RepaidWithinPrincipal
    <2>3. CASE ~IsSettled(b, principal, interest)
      <3>1. principal < Owed(b) /\ after = "ACCEPTED"
        BY <1>1, <2>3 DEF IsSettled, StateAfterPayment
      <3> QED
        BY <1>2, <2>1, <3>1 DEF IInv, TypeOK, LoanTypeOK, RepaidWithinPrincipal
    <2> QED
      BY <2>2, <2>3
  <1> QED
    BY <1>2, <1>3, <1>4, <1>5, <1>6, <1>7, <1>8, <1>9

\* The collateral of a bid whose escrow was emptied in the step that ended it.
LEMMA EmptiedCustody ==
    ASSUME IInv, NEW b \in Bids, NEW st \in {"PAID", "CLOSED", "LIQUIDATED"},
           state' = [state EXCEPT ![b] = st],
           collateralAddresses' = collateralAddresses, collateralAmount' = collateralAmount,
           escrowTokens' = [escrowTokens EXCEPT ![b] = NoCollateral],
           collateralBalances' = [collateralBalances EXCEPT ![b] = NoCollateral]
    PROVE  CustodyMatchesState'
  BY DEF IInv, TypeOK, LoanTypeOK, CMTypeOK, CustodyMatchesState, Pledge

\* A payment on an accepted loan, with the collateral given back or not.
LEMMA RepayAcceptedInv ==
    ASSUME IInv, NEW b \in Bids, state[b] = "ACCEPTED", NEW payer \in Accounts,
           NEW principal \in Nat, NEW withdraw \in BOOLEAN, NEW direct \in BOOLEAN,
           RepayAccepted(payer, b, principal, InterestOwed(b), withdraw, direct)
    PROVE  IInv'
  <1> DEFINE after == StateAfterPayment(b, "ACCEPTED", principal, InterestOwed(b))
  <1>1. RepayLoan_(payer, b, "ACCEPTED", principal, InterestOwed(b), direct)
    BY DEF RepayAccepted
  <1>2. /\ LoanTypeOK' /\ VaultTypeOK' /\ RMTypeOK' /\ MRTypeOK'
        /\ WellFormed' /\ RepaidWithinPrincipal'
        /\ state' = [state EXCEPT ![b] = after]
    BY <1>1, RepayInv
  <1>3. escrowTokens[b] = Pledge(b) /\ bid[b].borrower \in Accounts
    BY DEF IInv, CustodyMatchesState, WellFormed
  <1>4. CASE withdraw /\ IsSettled(b, principal, InterestOwed(b))
    <2>1. after = "PAID" /\ WithdrawCollateral(b, bid[b].borrower)
      BY <1>4 DEF RepayAccepted, Withdraw
    <2>2. CMTypeOK' /\ CustodyMatchesState'
      BY <1>2, <1>3, <2>1, WithdrawInv, EmptiedCustody
    <2> QED
      BY <1>2, <2>2 DEF IInv, TypeOK
  <1>5. CASE ~(withdraw /\ IsSettled(b, principal, InterestOwed(b)))
    <2>1. UNCHANGED cmVars /\ after \in {"ACCEPTED", "PAID"}
      BY <1>5 DEF RepayAccepted, StateAfterPayment
    <2>2. CMTypeOK'
      BY <2>1 DEF IInv, TypeOK, CMTypeOK, cmVars
    <2>3. CustodyMatchesState'
      BY <1>2, <1>3, <2>1 DEF IInv, TypeOK, LoanTypeOK, CustodyMatchesState, cmVars, Pledge
    <2> QED
      BY <1>2, <2>2, <2>3 DEF IInv, TypeOK
  <1> QED
    BY <1>4, <1>5

\* repayLoanMinimum.
LEMMA RepayMinimumInv ==
    ASSUME IInv, NEW b \in Bids, NEW payer \in Accounts, NEW direct \in BOOLEAN,
           RepayLoanMinimum(payer, b, direct)
    PROVE  IInv'
  <1>1. state[b] = "ACCEPTED" /\ ~OwedReverts(b)
    BY DEF RepayLoanMinimum
  <1>2. Due(b) \in Nat
    BY <1>1, DueType
  <1> QED
    BY <1>1, <1>2, RepayAcceptedInv DEF RepayLoanMinimum

\* repayLoanFull, with and without the collateral.
LEMMA RepayFullInv ==
    ASSUME IInv, NEW b \in Bids, NEW payer \in Accounts, NEW withdraw \in BOOLEAN,
           NEW direct \in BOOLEAN, RepayLoanFull(payer, b, withdraw, direct)
    PROVE  IInv'
  BY OwedType, RepayAcceptedInv DEF RepayLoanFull

\* repayLoan, with and without the collateral.
LEMMA RepayAmountInv ==
    ASSUME IInv, NEW b \in Bids, NEW payer \in Accounts, NEW amount \in Nat,
           NEW withdraw \in BOOLEAN, NEW direct \in BOOLEAN,
           RepayLoan(payer, b, amount, withdraw, direct)
    PROVE  IInv'
  <1>1. state[b] = "ACCEPTED" /\ ~OwedReverts(b) /\ amount >= Due(b) + InterestOwed(b)
    BY DEF RepayLoan
  <1>2. amount - InterestOwed(b) \in Nat
    BY <1>1, OwedType, DueType, LendNestAssumption
  <1> QED
    BY <1>1, <1>2, RepayAcceptedInv DEF RepayLoan

\* lenderCloseLoan.
LEMMA LenderCloseLoanInv ==
    ASSUME IInv, NEW b \in Bids, LenderCloseLoan(b)
    PROVE  IInv'
  <1>1. state[b] = "ACCEPTED" /\ state' = [state EXCEPT ![b] = "CLOSED"]
    BY DEF LenderCloseLoan
  <1>2. LoanLender(b) \in Accounts /\ escrowTokens[b] = Pledge(b)
    BY <1>1 DEF IInv, WellFormed, CustodyMatchesState
  <1>3. LoanTypeOK'
    BY <1>1 DEF IInv, TypeOK, LoanTypeOK, LenderCloseLoan, volumeVars, ownerVars, BidState
  <1>4. VaultTypeOK' /\ RMTypeOK' /\ MRTypeOK'
    BY DEF IInv, TypeOK, VaultTypeOK, RMTypeOK, MRTypeOK, LenderCloseLoan, vaultVars, marketVars
  <1>5. WellFormed'
    BY <1>1 DEF IInv, TypeOK, LoanTypeOK, WellFormed, LenderCloseLoan, LoanLender
  <1>6. RepaidWithinPrincipal'
    BY <1>1 DEF IInv, TypeOK, LoanTypeOK, RepaidWithinPrincipal, LenderCloseLoan
  <1>7. CMTypeOK' /\ CustodyMatchesState'
    <2>1. CASE IsBidCollateralBacked(b)
      <3>1. WithdrawCollateral(b, LoanLender(b))
        BY <2>1 DEF LenderCloseLoan, LenderClaimCollateral
      <3> QED
        BY <1>1, <1>2, <3>1, WithdrawInv, EmptiedCustody
    <2>2. CASE ~IsBidCollateralBacked(b)
      <3>1. UNCHANGED cmVars
        BY <2>2 DEF LenderCloseLoan, LenderClaimCollateral
      <3>2. Pledge(b) = NoCollateral
        BY <2>2 DEF IsBidCollateralBacked, Pledge, NoCollateral
      <3> QED
        BY <1>1, <1>2, <3>1, <3>2 DEF IInv, TypeOK, LoanTypeOK, CMTypeOK, CustodyMatchesState,
           cmVars, Pledge
    <2> QED
      BY <2>1, <2>2
  <1> QED
    BY <1>3, <1>4, <1>5, <1>6, <1>7 DEF IInv, TypeOK

\* liquidateLoanFull.
LEMMA LiquidateLoanFullInv ==
    ASSUME IInv, NEW b \in Bids, NEW liquidator \in Payers, NEW direct \in BOOLEAN,
           LiquidateLoanFull(liquidator, b, direct)
    PROVE  IInv'
  <1> DEFINE after == StateAfterPayment(b, "LIQUIDATED", Owed(b), InterestOwed(b))
  <1>1. /\ state[b] = "ACCEPTED" /\ liquidator \in Accounts
        /\ RepayLoan_(liquidator, b, "LIQUIDATED", Owed(b), InterestOwed(b), direct)
    BY LendNestAssumption DEF LiquidateLoanFull
  <1>2. /\ LoanTypeOK' /\ VaultTypeOK' /\ RMTypeOK' /\ MRTypeOK'
        /\ WellFormed' /\ RepaidWithinPrincipal'
        /\ state' = [state EXCEPT ![b] = after]
    BY <1>1, RepayInv, OwedType
  <1>3. after = "LIQUIDATED"
    BY DEF StateAfterPayment
  <1>4. escrowTokens[b] = Pledge(b)
    BY <1>1 DEF IInv, CustodyMatchesState
  <1>5. CMTypeOK' /\ CustodyMatchesState'
    <2>1. CASE IsBidCollateralBacked(b)
      <3>1. WithdrawCollateral(b, liquidator)
        BY <2>1 DEF LiquidateLoanFull, LiquidateCollateral
      <3> QED
        BY <1>1, <1>2, <1>3, <1>4, <3>1, WithdrawInv, EmptiedCustody
    <2>2. CASE ~IsBidCollateralBacked(b)
      <3>1. UNCHANGED cmVars
        BY <2>2 DEF LiquidateLoanFull, LiquidateCollateral
      <3>2. Pledge(b) = NoCollateral
        BY <2>2 DEF IsBidCollateralBacked, Pledge, NoCollateral
      <3> QED
        BY <1>2, <1>3, <1>4, <3>1, <3>2 DEF IInv, TypeOK, LoanTypeOK, CMTypeOK,
           CustodyMatchesState, cmVars, Pledge
    <2> QED
      BY <2>1, <2>2
  <1> QED
    BY <1>2, <1>5 DEF IInv, TypeOK

\* CollateralManager's withdraw, called by anyone.
LEMMA WithdrawPaidCollateralInv ==
    ASSUME IInv, NEW b \in Bids, WithdrawPaidCollateral(b)
    PROVE  IInv'
  <1>1. /\ state[b] = "PAID" /\ WithdrawCollateral(b, bid[b].borrower)
        /\ state' = [state EXCEPT ![b] = "PAID"]
    BY DEF WithdrawPaidCollateral, Withdraw, loanVars, IInv, TypeOK, LoanTypeOK
  <1>2. bid[b].borrower \in Accounts /\ escrowTokens[b] \in {NoCollateral, Pledge(b)}
    BY <1>1 DEF IInv, WellFormed, CustodyMatchesState
  <1>3. CMTypeOK' /\ CustodyMatchesState'
    BY <1>1, <1>2, WithdrawInv, EmptiedCustody
  <1>4. LoanTypeOK' /\ VaultTypeOK' /\ RMTypeOK' /\ MRTypeOK'
    BY DEF IInv, TypeOK, LoanTypeOK, VaultTypeOK, RMTypeOK, MRTypeOK, WithdrawPaidCollateral,
       loanVars, volumeVars, ownerVars, vaultVars, marketVars
  <1>5. WellFormed' /\ RepaidWithinPrincipal'
    BY DEF IInv, WellFormed, RepaidWithinPrincipal, WithdrawPaidCollateral, loanVars, LoanLender
  <1> QED
    BY <1>3, <1>4, <1>5 DEF IInv, TypeOK

\* A step that leaves the loans, their collateral and the time alone, or only lets
\* time pass, keeps what does not speak of balances, marks, markets or owners.
LEMMA LoansUntouched ==
    ASSUME IInv, UNCHANGED <<loanVars, cmVars>>, now' >= now, now' \in Nat
    PROVE  CMTypeOK' /\ WellFormed' /\ RepaidWithinPrincipal' /\ CustodyMatchesState'
  <1>1. CMTypeOK'
    BY DEF IInv, TypeOK, CMTypeOK, cmVars
  <1>2. WellFormed'
    BY DEF IInv, TypeOK, LoanTypeOK, WellFormed, loanVars, LoanLender
  <1>3. RepaidWithinPrincipal'
    BY DEF IInv, RepaidWithinPrincipal, loanVars
  <1>4. CustodyMatchesState'
    BY DEF IInv, CustodyMatchesState, loanVars, cmVars, Pledge
  <1> QED
    BY <1>1, <1>2, <1>3, <1>4

\* EscrowVault's withdraw.
LEMMA WithdrawFromVaultInv ==
    ASSUME IInv, NEW acct \in Accounts, NEW amount \in Payments, WithdrawFromVault(acct, amount)
    PROVE  IInv'
  <1>1. LoanTypeOK' /\ RMTypeOK' /\ MRTypeOK'
    BY DEF IInv, TypeOK, LoanTypeOK, RMTypeOK, MRTypeOK, WithdrawFromVault, loanVars, volumeVars,
       ownerVars, marketVars
  <1>2. VaultTypeOK'
    <2>1. amount \in Nat /\ Vault \in Holders
      BY LendNestAssumption DEF Holders
    <2>2. tokenBalance' \in [Holders -> Nat]
      BY <2>1, TransferType DEF IInv, TypeOK, VaultTypeOK, WithdrawFromVault, VaultWithdraw
    <2>3. vaultBalances' \in [Accounts -> Nat]
      BY <2>1 DEF IInv, TypeOK, VaultTypeOK, WithdrawFromVault, VaultWithdraw, CreditAfterWithdraw
    <2> QED
      BY <2>2, <2>3 DEF VaultTypeOK
  <1> QED
    BY <1>1, <1>2, LoansUntouched DEF IInv, TypeOK, LoanTypeOK, WithdrawFromVault

\* updateAccountReputation, in both forms.
LEMMA ReputationInv ==
    ASSUME IInv, NEW acct \in Rated,
           UpdateAccountReputation(acct) \/ (\E b \in Bids : UpdateBidReputation(acct, b))
    PROVE  IInv'
  <1>1. acct \in Accounts
    BY LendNestAssumption
  <1>2. RMTypeOK'
    <2>1. CASE UpdateAccountReputation(acct)
      <3> DEFINE marked(mark) == {b \in active[acct] : MarkOf(b, state[b], LastRepaid(b)) = mark}
      <3>1. marked("Default") \in SUBSET Bids /\ marked("Delinquent") \in SUBSET Bids
        BY <1>1 DEF IInv, TypeOK, LoanTypeOK
      <3>2. marks' = ApplyReputation(marks, acct, marked("Default"), marked("Delinquent"))
        BY <2>1 DEF UpdateAccountReputation
      <3> HIDE DEF marked
      <3> QED
        BY <1>1, <3>1, <3>2, ApplyReputationType DEF IInv, TypeOK, RMTypeOK
    <2>2. ASSUME NEW b \in Bids, UpdateBidReputation(acct, b) PROVE RMTypeOK'
      BY <1>1, <2>2, ApplyMarkType DEF IInv, TypeOK, RMTypeOK, UpdateBidReputation
    <2> QED
      BY <2>1, <2>2
  <1>3. UNCHANGED <<loanVars, ownerVars, now, cmVars, vaultVars, marketVars>>
    BY DEF UpdateAccountReputation, UpdateBidReputation
  <1>4. LoanTypeOK' /\ VaultTypeOK' /\ MRTypeOK'
    BY <1>3 DEF IInv, TypeOK, LoanTypeOK, VaultTypeOK, MRTypeOK, loanVars, volumeVars, ownerVars,
       vaultVars, marketVars
  <1> QED
    BY <1>2, <1>3, <1>4, LoansUntouched DEF IInv, TypeOK, LoanTypeOK

\* The protocol owner's steps.
LEMMA OwnerInv ==
    ASSUME IInv, OwnerStep
    PROVE  IInv'
  <1>1. UNCHANGED <<loanVars, now, cmVars, marks, vaultVars, marketVars>>
        /\ protocolFee' \in Nat /\ paused' \in BOOLEAN
    BY LendNestAssumption DEF IInv, TypeOK, LoanTypeOK, OwnerStep, PauseProtocol,
       UnpauseProtocol, SetProtocolFee
  <1>2. LoanTypeOK' /\ VaultTypeOK' /\ RMTypeOK' /\ MRTypeOK'
    BY <1>1 DEF IInv, TypeOK, LoanTypeOK, VaultTypeOK, RMTypeOK, MRTypeOK, loanVars, volumeVars,
       vaultVars, marketVars
  <1> QED
    BY <1>1, <1>2, LoansUntouched DEF IInv, TypeOK, LoanTypeOK

\* Time passes.
LEMMA TickInv ==
    ASSUME IInv, Tick
    PROVE  IInv'
  <1>1. LoanTypeOK' /\ VaultTypeOK' /\ RMTypeOK' /\ MRTypeOK'
    BY DEF IInv, TypeOK, LoanTypeOK, VaultTypeOK, RMTypeOK, MRTypeOK, Tick, loanVars, volumeVars,
       ownerVars, vaultVars, marketVars
  <1>2. now' >= now /\ now' \in Nat
    BY DEF IInv, TypeOK, LoanTypeOK, Tick
  <1> QED
    BY <1>1, <1>2, LoansUntouched DEF IInv, TypeOK, Tick

\* The market owners' steps.
LEMMA MarketInv ==
    ASSUME IInv, MarketStep
    PROVE  IInv'
  <1>1. UNCHANGED <<loanVars, ownerVars, now, cmVars, marks, vaultVars>>
    BY DEF MarketStep
  <1>2. MRTypeOK /\ ManagedMarkets \subseteq Markets
    BY MarketAssumption DEF IInv, TypeOK
  <1>3. ASSUME NEW sender \in Creators, NEW s \in MarketSettings, CreateMarket(sender, s)
        PROVE  MRTypeOK'
    <2>1. s \in SettingsType /\ sender \in Accounts
      BY MarketAssumption
    <2>2. Normalized(s) \in SettingsType
      BY <2>1, MarketAssumption DEF Normalized, SettingsType
    <2>3. marketCount' \in Nat
      BY <1>2, <1>3 DEF CreateMarket, MRTypeOK
    <2> QED
      BY <1>2, <1>3, <2>1, <2>2, <2>3 DEF CreateMarket, MRTypeOK
  <1>4. ASSUME NEW m \in ManagedMarkets, NEW s \in MarketSettings,
               UpdateMarketSettings(m, s)
        PROVE  MRTypeOK'
    <2>1. s \in SettingsType
      BY MarketAssumption
    <2>2. Normalized(s) \in SettingsType
      BY <2>1, MarketAssumption DEF Normalized, SettingsType
    <2> QED
      BY <1>2, <1>4, <2>2 DEF UpdateMarketSettings, MRTypeOK
  <1>5. ASSUME NEW m \in ManagedMarkets, CloseMarket(m) PROVE MRTypeOK'
    <2>1. marketIsClosed \in [Markets -> BOOLEAN]
          /\ marketIsClosed' = [marketIsClosed EXCEPT ![m] = TRUE]
      BY <1>2, <1>5 DEF CloseMarket, MRTypeOK
    <2>2. marketIsClosed' \in [Markets -> BOOLEAN]
      BY <2>1, Zenon
    <2> QED
      BY <1>2, <1>5, <2>2 DEF CloseMarket, MRTypeOK
  <1>6. ASSUME NEW m \in ManagedMarkets, NEW acct \in Successors,
               TransferMarketOwnership(m, acct)
        PROVE  MRTypeOK'
    BY <1>2, <1>6, MarketAssumption DEF TransferMarketOwnership, MRTypeOK
  <1>7. ASSUME NEW m \in ManagedMarkets, NEW acct \in Successors,
               SetMarketFeeRecipient(m, acct)
        PROVE  MRTypeOK'
    BY <1>2, <1>7, MarketAssumption DEF SetMarketFeeRecipient, MRTypeOK
  <1>8. ASSUME NEW m \in ManagedMarkets, NEW role \in Roles, NEW acct \in Stakeholders,
               NEW expiration \in Expirations, AttestStakeholder(m, role, acct, expiration, now)
        PROVE  MRTypeOK'
    BY <1>2, <1>8, MarketAssumption DEF AttestStakeholder, MRTypeOK
  <1>9. ASSUME NEW m \in ManagedMarkets, NEW role \in Roles, NEW acct \in Stakeholders,
               RemoveStakeholder(m, role, acct)
        PROVE  MRTypeOK'
    BY <1>2, <1>9, MarketAssumption DEF RemoveStakeholder, MRTypeOK
  <1>10. ASSUME NEW m \in ManagedMarkets, NEW role \in Roles, NEW acct \in Stakeholders,
                RevokeAttestation(m, role, acct)
         PROVE  MRTypeOK'
    BY <1>2, <1>10, MarketAssumption DEF RevokeAttestation, MRTypeOK
  <1>11. MRTypeOK'
    BY <1>3, <1>4, <1>5, <1>6, <1>7, <1>8, <1>9, <1>10 DEF MarketStep, MarketNext
  <1>12. LoanTypeOK' /\ VaultTypeOK' /\ RMTypeOK'
    BY <1>1 DEF IInv, TypeOK, LoanTypeOK, VaultTypeOK, RMTypeOK, loanVars, volumeVars, ownerVars,
       vaultVars
  <1> QED
    BY <1>1, <1>11, <1>12, LoansUntouched DEF IInv, TypeOK, LoanTypeOK

-----------------------------------------------------------------------------
(* The theorems *)

\* Every step of the system preserves the invariant.
LEMMA StepInv == IInv /\ [Next]_vars => IInv'
  <1> SUFFICES ASSUME IInv, [Next]_vars PROVE IInv'
    OBVIOUS
  <1>1. CASE BorrowerStep
    <2>1. ASSUME NEW sender \in Borrowers, NEW receiver \in Receivers, NEW m \in Markets,
                 NEW principal \in Principals, NEW duration \in Durations, NEW apr \in APRs,
                 NEW offered \in SUBSET Assets, NEW infos \in [offered -> CollateralAmounts],
                 SubmitBid(sender, receiver, m, principal, duration, apr, infos)
          PROVE  IInv'
      <3>1. /\ sender \in Accounts /\ receiver \in Accounts \cup {NoAccount}
            /\ principal \in Nat /\ duration \in Nat /\ apr \in Nat
            /\ infos \in [offered -> Nat]
        BY LendNestAssumption
      <3> QED
        BY <2>1, <3>1, SubmitBidInv
    <2> QED
      BY <1>1, <2>1, CancelInv DEF BorrowerStep, CancelBid, MarketOwnerCancelBid
  <1>2. CASE LenderStep
    BY <1>2, LenderAcceptBidInv, ClaimLoanNFTInv, TransferLoanNFTInv, LendNestAssumption
       DEF LenderStep
  <1>3. CASE PaymentStep
    <2>1. Payers \subseteq Accounts /\ Payments \subseteq Nat /\ TransferOutcomes \subseteq BOOLEAN
      BY LendNestAssumption
    <2> QED
      BY <1>3, <2>1, RepayMinimumInv, RepayFullInv, RepayAmountInv, LiquidateLoanFullInv
         DEF PaymentStep
  <1>4. CASE CustodyStep
    BY <1>4, LenderCloseLoanInv, WithdrawPaidCollateralInv, WithdrawFromVaultInv DEF CustodyStep
  <1>5. CASE ReputationStep
    BY <1>5, ReputationInv DEF ReputationStep
  <1>6. CASE OwnerStep
    BY <1>6, OwnerInv
  <1>7. CASE MarketStep
    BY <1>7, MarketInv
  <1>8. CASE Tick
    BY <1>8, TickInv
  <1>9. CASE UNCHANGED vars
    <2>1. UNCHANGED <<loanVars, ownerVars, now, cmVars, marks, vaultVars, marketVars>>
      BY <1>9 DEF vars
    <2>2. LoanTypeOK' /\ VaultTypeOK' /\ RMTypeOK' /\ MRTypeOK'
      BY <2>1 DEF IInv, TypeOK, LoanTypeOK, VaultTypeOK, RMTypeOK, MRTypeOK, loanVars, volumeVars,
         ownerVars, vaultVars, marketVars
    <2> QED
      BY <2>1, <2>2, LoansUntouched DEF IInv, TypeOK, LoanTypeOK
  <1> QED
    BY <1>1, <1>2, <1>3, <1>4, <1>5, <1>6, <1>7, <1>8, <1>9 DEF Next

\* The invariant holds in every reachable state, whatever the parameters.
THEOREM Invariance == Spec => []IInv
  BY InitInv, StepInv, PTL DEF Spec

\* No balance of tokens or collateral, no credit in the vault and no count of what
\* was repaid ever falls below zero; every mapping keeps its type.
THEOREM TypeCorrect == Spec => []TypeOK
  <1>1. IInv => TypeOK
    BY DEF IInv
  <1> QED
    BY <1>1, Invariance, PTL

\* A running or finished loan has a borrower, a market and somebody it is owed to,
\* through the loan NFT or not, and its last payment is not in the future.
THEOREM WellFormedness == Spec => []WellFormed
  <1>1. IInv => WellFormed
    BY DEF IInv
  <1> QED
    BY <1>1, Invariance, PTL

\* The principal repaid stays within what was lent while a loan runs, so that
\* calculateAmountOwed never underflows on it, and covers it once the loan is paid.
THEOREM PrincipalRepaid == Spec => []RepaidWithinPrincipal
  <1>1. IInv => RepaidWithinPrincipal
    BY DEF IInv
  <1> QED
    BY <1>1, Invariance, PTL

\* The escrow of each bid holds exactly what the state of the bid calls for.
THEOREM Custody == Spec => []CustodyMatchesState
  <1>1. IInv => CustodyMatchesState
    BY DEF IInv
  <1> QED
    BY <1>1, Invariance, PTL

-----------------------------------------------------------------------------
(* Reputation *)

\* HistoryContainsPresent of any four sets of marks.
PresentInHistory(mk) ==
    \A acct \in Accounts :
        /\ mk.currentDelinquencies[acct] \subseteq mk.delinquencies[acct]
        /\ mk.currentDefaults[acct] \subseteq mk.defaults[acct]

\* Applying marks adds to the present only what it adds to the history.
LEMMA ApplyReputationHistory ==
    ASSUME NEW mk \in MarksType, NEW acct \in Accounts,
           NEW defaulted \in SUBSET Bids, NEW late \in SUBSET Bids, PresentInHistory(mk)
    PROVE  PresentInHistory(ApplyReputation(mk, acct, defaulted, late))
  BY DEF MarksType, ApplyReputation, PresentInHistory

\* The same for a single bid.
LEMMA ApplyMarkHistory ==
    ASSUME NEW mk \in MarksType, NEW acct \in Accounts, NEW b \in Bids, NEW mark,
           PresentInHistory(mk)
    PROVE  PresentInHistory(ApplyMark(mk, acct, b, mark))
  BY ApplyReputationHistory DEF ApplyMark

\* A payment leaves the marks of a well-formed record in order.
LEMMA RepayHistory ==
    ASSUME IInv, NEW b \in Bids, state[b] = "ACCEPTED", NEW payer, NEW st, NEW principal,
           NEW interest, NEW direct, PresentInHistory(marks),
           RepayLoan_(payer, b, st, principal, interest, direct)
    PROVE  PresentInHistory(marks')
  <1>1. bid[b].borrower \in Accounts /\ marks \in MarksType
    BY DEF IInv, WellFormed, TypeOK, RMTypeOK
  <1>2. PresentInHistory(MarksAfterPayment(b, st, principal, interest))
    BY <1>1, ApplyMarkType, ApplyMarkHistory DEF MarksAfterPayment
  <1> QED
    BY <1>2 DEF RepayLoan_

\* Marks are changed by payments and by ReputationManager only.
LEMMA OtherStepsLeaveMarks ==
    ASSUME [Next]_vars
    PROVE  PaymentStep \/ ReputationStep \/ UNCHANGED marks
  BY DEF Next, vars, BorrowerStep, LenderStep, CustodyStep, OwnerStep, MarketStep, Tick,
     SubmitBid, CancelBid, MarketOwnerCancelBid, Cancel, LenderAcceptBid, ClaimLoanNFT,
     TransferLoanNFT, LenderCloseLoan, WithdrawPaidCollateral, WithdrawFromVault, PauseProtocol,
     UnpauseProtocol, SetProtocolFee

\* Every step keeps the present part of the history.
LEMMA StepHistory == IInv /\ PresentInHistory(marks) /\ [Next]_vars => PresentInHistory(marks')
  <1> SUFFICES ASSUME IInv, PresentInHistory(marks), [Next]_vars PROVE PresentInHistory(marks')
    OBVIOUS
  <1>1. CASE PaymentStep
    <2>1. PICK payer \in Payers, b \in Bids :
             /\ state[b] = "ACCEPTED"
             /\ \E st, principal, interest, direct :
                   RepayLoan_(payer, b, st, principal, interest, direct)
      BY <1>1 DEF PaymentStep, RepayLoanMinimum, RepayLoanFull, RepayLoan, RepayAccepted,
         LiquidateLoanFull
    <2> QED
      BY <2>1, RepayHistory
  <1>2. CASE ReputationStep
    <2>1. PICK acct \in Rated :
             UpdateAccountReputation(acct) \/ (\E b \in Bids : UpdateBidReputation(acct, b))
      BY <1>2 DEF ReputationStep
    <2>2. acct \in Accounts /\ marks \in MarksType /\ active \in [Accounts -> SUBSET Bids]
      BY LendNestAssumption DEF IInv, TypeOK, RMTypeOK, LoanTypeOK
    <2>3. CASE UpdateAccountReputation(acct)
      <3> DEFINE marked(mark) == {b \in active[acct] : MarkOf(b, state[b], LastRepaid(b)) = mark}
      <3>1. marked("Default") \in SUBSET Bids /\ marked("Delinquent") \in SUBSET Bids
        BY <2>2
      <3>2. marks' = ApplyReputation(marks, acct, marked("Default"), marked("Delinquent"))
        BY <2>3 DEF UpdateAccountReputation
      <3> HIDE DEF marked
      <3> QED
        BY <2>2, <3>1, <3>2, ApplyReputationHistory
    <2>4. ASSUME NEW b \in Bids, UpdateBidReputation(acct, b) PROVE PresentInHistory(marks')
      BY <2>2, <2>4, ApplyMarkHistory DEF UpdateBidReputation
    <2> QED
      BY <2>1, <2>3, <2>4
  <1>3. CASE UNCHANGED marks
    BY <1>3
  <1> QED
    BY <1>1, <1>2, <1>3, OtherStepsLeaveMarks

\* What an account's record says of now is part of what it says of ever.
THEOREM History == Spec => []HistoryContainsPresent
  <1>1. Init => PresentInHistory(marks)
    BY DEF Init, RMInit, PresentInHistory
  <1>2. PresentInHistory(marks) <=> HistoryContainsPresent
    BY DEF PresentInHistory, HistoryContainsPresent
  <1>3. IInv /\ PresentInHistory(marks) /\ [Next]_vars => PresentInHistory(marks)'
    BY StepHistory
  <1> QED
    BY <1>1, <1>2, <1>3, Invariance, PTL DEF Spec
=============================================================================
