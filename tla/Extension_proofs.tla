--------------------------- MODULE Extension_proofs ---------------------------
(***************************************************************************)
(* Proofs about the rollover contracts and Autopay.  Through every call of *)
(* their transactions, and through every failure that undoes one, the core *)
(* keeps its invariant and the extensions their types; automatic payments  *)
(* keep to the schedule; rollovers cost what was quoted; and what the      *)
(* chain shows is a loan replaced at one stroke, or nothing.               *)
(***************************************************************************)
EXTENDS ExtensionProperties, LoanSteps_proofs

\* The core as it was when the transaction in progress began.
Saved == INSTANCE LoanProperties WITH
    bidId <- tx.saved.bidId, bid <- tx.saved.bid, state <- tx.saved.state,
    lender <- tx.saved.lender, accepted <- tx.saved.accepted,
    lastRepaid <- tx.saved.lastRepaid, repaidPrincipal <- tx.saved.repaidPrincipal,
    repaidInterest <- tx.saved.repaidInterest, active <- tx.saved.active,
    lenderVolume <- tx.saved.lenderVolume, totalVolume <- tx.saved.totalVolume,
    marks <- tx.saved.marks, collateralAddresses <- tx.saved.collateralAddresses,
    collateralAmount <- tx.saved.collateralAmount, escrows <- tx.saved.escrows,
    collateralBalances <- tx.saved.collateralBalances, escrowTokens <- tx.saved.escrowTokens,
    assetBalance <- tx.saved.assetBalance, tokenBalance <- tx.saved.tokenBalance,
    vaultBalances <- tx.saved.vaultBalances

SavedIInv ==
    Saved!TypeOK /\ Saved!WellFormed /\ Saved!RepaidWithinPrincipal /\ Saved!CustodyMatchesState

Counts == [DOMAIN Commitments -> Nat]

\* What the extensions keep of their own; whoever enabled automatic payments is a
\* borrower.
CountersOK ==
    /\ commitmentPrincipalAccepted \in Counts
    /\ loanAutoPayEnabled \in [Bids -> BOOLEAN]
    /\ autopayFee \in AutopayFees
    /\ autopaid \in [Bids -> Nat]

BorrowersKnown(bids) == \A b \in Bids : loanAutoPayEnabled[b] => bids[b].borrower \in Accounts

RolloverFields ==
    {"kind", "stage", "by", "loan", "newLoan", "commitment", "principal", "offered", "flashed",
     "fee", "before", "repaid", "received", "quote", "saved"}

\* A rollover in progress: until it has submitted the new bid, the id it reckons
\* with is the one that bid will get.
RolloverOK ==
    /\ DOMAIN tx = RolloverFields
    /\ tx.kind \in {"rollover", "flash"} /\ tx.stage \in {"submit", "accept", "repay", "finish"}
    /\ tx.by \in Contracts /\ tx.loan \in Bids /\ tx.commitment \in DOMAIN Commitments
    /\ tx.principal \in Nat /\ tx.offered \in Nat /\ tx.flashed \in Nat /\ tx.fee \in Nat
    /\ tx.before \in Int /\ tx.repaid \in Int /\ tx.received \in Int
    /\ bid[tx.loan].borrower \in Accounts
    /\ tx.stage = "submit" \/ (tx.kind = "flash" /\ tx.stage = "repay") => tx.newLoan = bidId
    /\ tx.stage = "accept" => tx.newLoan \in Bids

\* An automatic payment in progress: nothing but tokens moved since its amount was
\* reckoned.
AutopayOK ==
    /\ tx.kind = "autopay" /\ tx.stage = "repay"
    /\ tx.loan \in Bids
    /\ tx.amount \in Nat /\ tx.amount = EstimatedMinimumPayment(tx.loan)

SavedOK == tx # NoTx => SavedIInv /\ tx.saved.drawn \in Counts /\ BorrowersKnown(tx.saved.bid)

\* The invariant that every step of a transaction preserves.
ExtInv ==
    /\ IInv /\ CountersOK /\ BorrowersKnown(bid) /\ SavedOK
    /\ tx = NoTx \/ RolloverOK \/ AutopayOK

-----------------------------------------------------------------------------
(* The saved state *)

\* What is the same then and now.
LEMMA SavedSame ==
    /\ Saved!Bids = Bids /\ Saved!BidState = BidState /\ Saved!BidType = BidType
    /\ Saved!Holders = Holders /\ Saved!MarksType = MarksType
    /\ Saved!NoCollateral = NoCollateral
    /\ Saved!Roles = Roles /\ Saved!SettingsType = SettingsType
  <1>1. Saved!Bids = Bids
    BY DEF Saved!Bids, Bids
  <1> QED
    BY <1>1 DEF Saved!BidState, BidState, Saved!BidType, BidType, Saved!Holders, Holders,
       Saved!MarksType, MarksType, Saved!NoCollateral, NoCollateral, Saved!Roles, Roles,
       Saved!SettingsType, SettingsType

\* What is saved when a transaction begins satisfies the invariant.
LEMMA SaveInv ==
    ASSUME IInv, tx'.saved = Committed,
           UNCHANGED <<loanOwner, ownerVars, now, marketVars>>
    PROVE  SavedIInv'
  <1> DEFINE s == tx'.saved
  <1>1. /\ s.bidId = bidId /\ s.bid = bid /\ s.state = state /\ s.lender = lender
        /\ s.accepted = accepted /\ s.lastRepaid = lastRepaid
        /\ s.repaidPrincipal = repaidPrincipal /\ s.repaidInterest = repaidInterest
        /\ s.active = active /\ s.lenderVolume = lenderVolume /\ s.totalVolume = totalVolume
        /\ s.marks = marks /\ s.collateralAddresses = collateralAddresses
        /\ s.collateralAmount = collateralAmount /\ s.escrows = escrows
        /\ s.collateralBalances = collateralBalances /\ s.escrowTokens = escrowTokens
        /\ s.assetBalance = assetBalance /\ s.tokenBalance = tokenBalance
        /\ s.vaultBalances = vaultBalances
    BY DEF Committed
  <1>2. Saved!TypeOK'
    BY <1>1, SavedSame DEF IInv, TypeOK, LoanTypeOK, VaultTypeOK, CMTypeOK, RMTypeOK, MRTypeOK,
       Saved!TypeOK, Saved!LoanTypeOK, Saved!VaultTypeOK, Saved!CMTypeOK, Saved!RMTypeOK,
       Saved!MRTypeOK, ownerVars, marketVars
  <1>3. Saved!WellFormed'
    BY <1>1, SavedSame DEF IInv, WellFormed, LoanLender, Saved!WellFormed, Saved!LoanLender
  <1>4. Saved!RepaidWithinPrincipal'
    BY <1>1, SavedSame DEF IInv, RepaidWithinPrincipal, Saved!RepaidWithinPrincipal
  <1>5. Saved!CustodyMatchesState'
    BY <1>1, SavedSame DEF IInv, CustodyMatchesState, Saved!CustodyMatchesState, Pledge,
       Saved!Pledge
  <1> QED
    BY <1>2, <1>3, <1>4, <1>5 DEF SavedIInv

\* A step of the transaction leaves it as it is.
LEMMA SavedKept ==
    ASSUME SavedIInv, tx'.saved = tx.saved,
           UNCHANGED <<loanOwner, ownerVars, now, marketVars>>
    PROVE  SavedIInv'
  <1>1. Saved!TypeOK'
    BY SavedSame DEF SavedIInv, Saved!TypeOK, Saved!LoanTypeOK, Saved!VaultTypeOK,
       Saved!CMTypeOK, Saved!RMTypeOK, Saved!MRTypeOK, ownerVars, marketVars
  <1>2. Saved!WellFormed' /\ Saved!RepaidWithinPrincipal'
    BY SavedSame DEF SavedIInv, Saved!WellFormed, Saved!LoanLender, Saved!RepaidWithinPrincipal
  <1>3. Saved!CustodyMatchesState'
    BY SavedSame DEF SavedIInv, Saved!CustodyMatchesState, Saved!Pledge
  <1> QED
    BY <1>1, <1>2, <1>3 DEF SavedIInv

\* A failed call brings it back.
LEMMA RevertInv ==
    ASSUME SavedIInv, Revert
    PROVE  IInv'
  <1> DEFINE s == tx.saved
  <1>1. /\ bidId' = s.bidId /\ bid' = s.bid /\ state' = s.state /\ lender' = s.lender
        /\ accepted' = s.accepted /\ lastRepaid' = s.lastRepaid
        /\ repaidPrincipal' = s.repaidPrincipal /\ repaidInterest' = s.repaidInterest
        /\ active' = s.active /\ lenderVolume' = s.lenderVolume /\ totalVolume' = s.totalVolume
        /\ marks' = s.marks /\ collateralAddresses' = s.collateralAddresses
        /\ collateralAmount' = s.collateralAmount /\ escrows' = s.escrows
        /\ collateralBalances' = s.collateralBalances /\ escrowTokens' = s.escrowTokens
        /\ assetBalance' = s.assetBalance /\ tokenBalance' = s.tokenBalance
        /\ vaultBalances' = s.vaultBalances
        /\ UNCHANGED <<loanOwner, ownerVars, now, marketVars>>
    BY DEF Revert
  <1>2. TypeOK'
    BY <1>1, SavedSame DEF SavedIInv, TypeOK, LoanTypeOK, VaultTypeOK, CMTypeOK, RMTypeOK,
       MRTypeOK, Saved!TypeOK, Saved!LoanTypeOK, Saved!VaultTypeOK, Saved!CMTypeOK,
       Saved!RMTypeOK, Saved!MRTypeOK, ownerVars, marketVars
  <1>3. WellFormed'
    BY <1>1, SavedSame DEF SavedIInv, WellFormed, LoanLender, Saved!WellFormed, Saved!LoanLender
  <1>4. RepaidWithinPrincipal'
    BY <1>1, SavedSame DEF SavedIInv, RepaidWithinPrincipal, Saved!RepaidWithinPrincipal
  <1>5. CustodyMatchesState'
    BY <1>1, SavedSame DEF SavedIInv, CustodyMatchesState, Saved!CustodyMatchesState, Pledge,
       Saved!Pledge
  <1> QED
    BY <1>2, <1>3, <1>4, <1>5 DEF IInv

-----------------------------------------------------------------------------
(* How a transaction begins *)

\* A step of which only the token's balances keep a trace in the core.
LEMMA TokensMoveInv ==
    ASSUME IInv, OnlyTokensMove, tokenBalance' \in [Holders -> Nat]
    PROVE  IInv'
  <1>1. UNCHANGED <<loanVars, ownerVars, now, cmVars, marks, vaultBalances, marketVars>>
    BY DEF OnlyTokensMove
  <1>2. LoanTypeOK' /\ VaultTypeOK' /\ RMTypeOK' /\ MRTypeOK'
    BY <1>1 DEF IInv, TypeOK, LoanTypeOK, VaultTypeOK, RMTypeOK, MRTypeOK, loanVars, volumeVars,
       ownerVars, marketVars
  <1> QED
    BY <1>1, <1>2, LoansUntouched DEF IInv, TypeOK, LoanTypeOK

\* What is computed to be repaid, received and sent are numbers of tokens.
LEMMA QuoteType ==
    ASSUME IInv, NEW b \in Bids, NEW c \in DOMAIN Commitments, NEW principal \in Nat
    PROVE  /\ RepayFullAmount(b) \in Nat
           /\ CommitmentPrincipalReceived(c, principal) \in Int
           /\ CalculateRolloverAmount(b, c, principal) \in Int
           /\ CalculateFlashRolloverAmount(b, c, principal) \in Int
  <1>1. RepayFullAmount(b) \in Nat
    BY OwedType DEF RepayFullAmount, Debt
  <1>2. markets[Commitments[c].market].feePercent \in Nat /\ protocolFee \in Nat
    BY CommitmentsAssumption DEF IInv, TypeOK, LoanTypeOK, MRTypeOK, SettingsType
  <1>3. CommitmentPrincipalReceived(c, principal) \in Int
    <2>1. Percent(principal, markets[Commitments[c].market].feePercent) \in Nat
          /\ Percent(principal, protocolFee) \in Nat
      BY <1>2, PercentType
    <2> QED
      BY <2>1 DEF CommitmentPrincipalReceived
  <1>4. Percent(RepayFullAmount(b), PremiumPct) \in Nat
    BY <1>1, PercentType, ExtensionAssumption
  <1> QED
    BY <1>1, <1>3, <1>4 DEF CalculateRolloverAmount, CalculateFlashRolloverAmount

\* So is what a borrower offers who was quoted an amount.
LEMMA OfferType ==
    ASSUME NEW quote \in Int, NEW offered \in Offers(quote)
    PROVE  offered \in Nat
  BY ExtensionAssumption DEF Offers

\* The pool's fee is a number of tokens.
LEMMA PoolFeesType ==
    ASSUME NEW amount \in Nat, NEW fee \in PoolFees(amount)
    PROVE  fee \in Nat
  <1>1. Percent(amount, PremiumPct) \in Nat /\ amount * PremiumPct \in Nat
    BY PercentType, MulNat, ExtensionAssumption
  <1>2. CeilDiv(amount * PremiumPct, PCT_100) \in Nat
    <2>1. amount * PremiumPct + 10000 - 1 \in Nat
      BY <1>1
    <2> QED
      BY <2>1, DivNat DEF CeilDiv, PCT_100
  <1> QED
    BY <1>1, <1>2 DEF PoolFees

\* A transaction begins: the state it may have to come back to is the present one.
LEMMA BeginInv ==
    ASSUME ExtInv, tx = NoTx, tx'.saved = Committed, OnlyTokensMove, UNCHANGED autopaid,
           tokenBalance' \in [Holders -> Nat],
           RolloverOK' \/ AutopayOK'
    PROVE  ExtInv'
  <1>1. IInv'
    BY TokensMoveInv DEF ExtInv
  <1>2. CountersOK' /\ BorrowersKnown(bid)'
    BY DEF ExtInv, CountersOK, BorrowersKnown, OnlyTokensMove, loanVars
  <1>3. SavedOK'
    <2>1. SavedIInv'
      BY SaveInv DEF ExtInv, OnlyTokensMove, loanVars
    <2>2. tx'.saved.drawn = commitmentPrincipalAccepted /\ tx'.saved.bid = bid
      BY DEF Committed
    <2>3. tx'.saved.drawn \in Counts
      BY <2>2 DEF ExtInv, CountersOK
    <2>4. BorrowersKnown(tx.saved.bid)'
      BY <2>2 DEF ExtInv, BorrowersKnown, OnlyTokensMove
    <2> QED
      BY <2>1, <2>3, <2>4 DEF SavedOK
  <1> QED
    BY <1>1, <1>2, <1>3 DEF ExtInv

\* rolloverLoan, up to its first call.
LEMMA RolloverLoanInv ==
    ASSUME ExtInv, NEW sender \in Borrowers, NEW b \in Bids, NEW c \in DOMAIN Commitments,
           NEW principal \in Nat, NEW offered \in Nat,
           RolloverLoan(sender, b, c, principal, offered)
    PROVE  ExtInv'
  <1>1. sender \in Accounts /\ CommitmentRollover \in Contracts
        /\ sender \in Holders /\ CommitmentRollover \in Holders
    BY LendNestAssumption, ExtensionAssumption DEF Contracts, Holders
  <1>2. tokenBalance \in [Holders -> Nat]
    BY DEF ExtInv, IInv, TypeOK, VaultTypeOK
  <1>3. tokenBalance' \in [Holders -> Nat]
    BY <1>1, <1>2, TransferType DEF RolloverLoan
  <1>4. OnlyTokensMove /\ tx = NoTx /\ UNCHANGED autopaid /\ bid' = bid /\ bidId' = bidId
        /\ bid[b].borrower = sender
    BY DEF RolloverLoan, OnlyTokensMove, loanVars
  <1>5. tx' = [kind |-> "rollover", stage |-> "submit", by |-> CommitmentRollover, loan |-> b,
               newLoan |-> bidId, commitment |-> c, principal |-> principal, offered |-> offered,
               flashed |-> 0, fee |-> 0, before |-> tokenBalance[CommitmentRollover],
               repaid |-> 0, received |-> 0,
               quote |-> CalculateRolloverAmount(b, c, principal), saved |-> Committed]
    BY DEF RolloverLoan
  <1>6. RolloverOK'
    BY <1>1, <1>2, <1>4, <1>5 DEF RolloverOK, RolloverFields
  <1>7. tx'.saved = Committed
    BY <1>5
  <1> QED
    BY <1>3, <1>4, <1>6, <1>7, BeginInv

\* rolloverLoanWithFlash, up to executeOperation.
LEMMA RolloverLoanWithFlashInv ==
    ASSUME ExtInv, NEW sender \in Borrowers, NEW b \in Bids, NEW c \in DOMAIN Commitments,
           NEW principal \in Nat, NEW flashed \in Nat, NEW offered \in Nat,
           RolloverLoanWithFlash(sender, b, c, principal, flashed, offered)
    PROVE  ExtInv'
  <1> DEFINE afterOffer == Transfer(tokenBalance, sender, FlashRollover, offered)
  <1>1. sender \in Accounts /\ FlashRollover \in Contracts
        /\ sender \in Holders /\ FlashRollover \in Holders /\ Pool \in Holders
        /\ Pool # sender /\ Pool \in Accounts
    BY LendNestAssumption, ExtensionAssumption DEF Contracts, Holders
  <1>2. tokenBalance \in [Holders -> Nat]
    BY DEF ExtInv, IInv, TypeOK, VaultTypeOK
  <1>3. tokenBalance' \in [Holders -> Nat]
    <2>1. afterOffer \in [Holders -> Nat]
      BY <1>1, <1>2, TransferType DEF RolloverLoanWithFlash
    <2>2. afterOffer[Pool] >= tokenBalance[Pool]
      BY <1>1, <1>2 DEF Transfer
    <2>3. CanTransfer(afterOffer, Pool, flashed)
      BY <1>1, <1>2, <2>1, <2>2 DEF RolloverLoanWithFlash, CanTransfer
    <2>4. tokenBalance' = Transfer(afterOffer, Pool, FlashRollover, flashed)
      BY DEF RolloverLoanWithFlash
    <2> QED
      BY <1>1, <2>1, <2>3, <2>4, TransferType
  <1>4. OnlyTokensMove /\ tx = NoTx /\ UNCHANGED autopaid /\ bid' = bid /\ bidId' = bidId
        /\ bid[b].borrower = sender
    BY DEF RolloverLoanWithFlash, OnlyTokensMove, loanVars
  <1>5. PICK fee \in PoolFees(flashed) :
           tx' = [kind |-> "flash", stage |-> "repay", by |-> FlashRollover, loan |-> b,
                 newLoan |-> bidId, commitment |-> c, principal |-> principal,
                 offered |-> offered, flashed |-> flashed, fee |-> fee, before |-> 0,
                 repaid |-> 0, received |-> 0,
                 quote |-> - CalculateFlashRolloverAmount(b, c, principal), saved |-> Committed]
    BY DEF RolloverLoanWithFlash
  <1>6. fee \in Nat
    BY PoolFeesType
  <1>7. RolloverOK'
    BY <1>1, <1>2, <1>4, <1>5, <1>6 DEF RolloverOK, RolloverFields
  <1>8. tx'.saved = Committed
    BY <1>5
  <1> QED
    BY <1>3, <1>4, <1>7, <1>8, BeginInv

\* What Autopay reckons the borrower has to pay is a number of tokens.
LEMMA MinimumPaymentType ==
    ASSUME IInv, NEW b \in Bids, state[b] = "ACCEPTED" /\ accepted[b] < now => ~OwedReverts(b)
    PROVE  EstimatedMinimumPayment(b) \in Nat
  BY OwedType, DueType DEF EstimatedMinimumPayment

\* autoPayLoanMinimum, up to its call of repayLoan.
LEMMA AutoPayLoanMinimumInv ==
    ASSUME ExtInv, NEW caller \in Callers, NEW b \in Bids, AutoPayLoanMinimum(caller, b)
    PROVE  ExtInv'
  <1> DEFINE amount == EstimatedMinimumPayment(b)
             fee    == Percent(amount, autopayFee)
             payer  == bid[b].borrower
             pulled == Transfer(tokenBalance, payer, Autopay, amount + fee)
  <1>1. amount \in Nat
    BY MinimumPaymentType DEF ExtInv, AutoPayLoanMinimum
  <1>2. fee \in Nat
    <2>1. autopayFee \in Nat
      BY ExtensionAssumption DEF ExtInv, CountersOK
    <2> QED
      BY <1>1, <2>1, PercentType
  <1>3. payer \in Holders /\ Autopay \in Holders /\ caller \in Holders
    BY ExtensionAssumption DEF ExtInv, BorrowersKnown, AutoPayLoanMinimum, Contracts, Holders
  <1>4. tokenBalance \in [Holders -> Nat]
    BY DEF ExtInv, IInv, TypeOK, VaultTypeOK
  <1>5. tokenBalance' \in [Holders -> Nat]
    <2>1. CanTransfer(tokenBalance, payer, amount + fee)
          /\ tokenBalance' = Transfer(pulled, Autopay, caller, fee)
      BY DEF AutoPayLoanMinimum
    <2> HIDE DEF amount, fee, payer
    <2>2. pulled \in [Holders -> Nat]
      BY <1>1, <1>2, <1>3, <1>4, <2>1, TransferType
    <2>3. fee <= pulled[Autopay]
      BY <1>1, <1>2, <1>3, <1>4, <2>1 DEF Transfer, CanTransfer
    <2> QED
      BY <1>2, <1>3, <2>1, <2>2, <2>3, TransferType DEF CanTransfer
  <1>6. OnlyTokensMove /\ tx = NoTx /\ UNCHANGED autopaid
        /\ tx' = [kind |-> "autopay", stage |-> "repay", by |-> Autopay, loan |-> b,
                  amount |-> amount, saved |-> Committed]
    BY DEF AutoPayLoanMinimum
  <1>7. EstimatedMinimumPayment(b)' = amount
    BY <1>6 DEF OnlyTokensMove, EstimatedMinimumPayment, Due, InterestOwed, LastRepaid, loanVars
  <1>8. AutopayOK'
    BY <1>1, <1>6, <1>7 DEF AutopayOK
  <1> QED
    BY <1>5, <1>6, <1>8, BeginInv

-----------------------------------------------------------------------------
(* The calls of a transaction *)

\* A call of a rollover that leaves the borrowers of the bids alone and goes on.
LEMMA CallInv ==
    ASSUME ExtInv, IInv', RolloverOK, RolloverOK', tx'.saved = tx.saved,
           commitmentPrincipalAccepted' \in Counts, BorrowersKnown(bid'),
           UNCHANGED <<loanOwner, ownerVars, now, marketVars, loanAutoPayEnabled, autopayFee,
                       autopaid>>
    PROVE  ExtInv'
  <1>1. tx # NoTx
    BY DEF RolloverOK, NoTx
  <1>2. SavedIInv' /\ tx.saved.drawn \in Counts /\ BorrowersKnown(tx.saved.bid)
    BY <1>1, SavedKept DEF ExtInv, SavedOK
  <1>3. SavedOK'
    BY <1>2 DEF SavedOK, BorrowersKnown
  <1>4. CountersOK' /\ BorrowersKnown(bid)'
    BY DEF ExtInv, CountersOK, BorrowersKnown
  <1> QED
    BY <1>3, <1>4 DEF ExtInv

\* The old loan is paid back.
LEMMA RepayStepInv ==
    ASSUME ExtInv, tx # NoTx, NEW direct \in TransferOutcomes, RepayStep(direct)
    PROVE  ExtInv'
  <1>1. RolloverOK
    BY DEF ExtInv, RepayStep, AutopayOK
  <1>2. tx.by \in Accounts /\ tx.by \in Holders /\ direct \in BOOLEAN /\ tx.loan \in Bids
        /\ TRUE \in BOOLEAN
    BY <1>1, ExtensionAssumption, LendNestAssumption DEF RolloverOK, Holders
  <1>3. RepayLoanFull(tx.by, tx.loan, TRUE, direct) /\ IInv
    BY DEF RepayStep, ExtInv
  <1>4. IInv'
    BY <1>2, <1>3, RepayFullInv
  <1>5. UNCHANGED <<bid, bidId, loanOwner, ownerVars, now, marketVars>>
    BY <1>3 DEF RepayLoanFull, RepayAccepted, RepayLoan_
  <1>6. tokenBalance[tx.by] - tokenBalance'[tx.by] \in Int
    BY <1>2, <1>3, <1>4 DEF IInv, TypeOK, VaultTypeOK
  <1>7. tx' = [tx EXCEPT !.stage = IF tx.kind = "flash" THEN "submit" ELSE "finish",
                         !.repaid = tokenBalance[tx.by] - tokenBalance'[tx.by]]
    BY DEF RepayStep
  <1>8. RolloverOK' /\ tx'.saved = tx.saved
    BY <1>1, <1>5, <1>6, <1>7 DEF RolloverOK, RolloverFields, RepayStep
  <1> QED
    BY <1>1, <1>4, <1>5, <1>8, CallInv DEF ExtInv, CountersOK, RepayStep

\* The new bid is submitted in the name of the borrower.
LEMMA SubmitStepInv ==
    ASSUME ExtInv, tx # NoTx, SubmitStep
    PROVE  ExtInv'
  <1> DEFINE c == Commitments[tx.commitment]
             sender == bid[tx.loan].borrower
  <1>1. RolloverOK
    BY DEF ExtInv, SubmitStep, AutopayOK
  <1>2. /\ sender \in Accounts /\ tx.by \in Accounts \cup {NoAccount}
        /\ tx.commitment \in DOMAIN Commitments /\ tx.principal \in Nat /\ tx.newLoan = bidId
    BY <1>1, ExtensionAssumption DEF RolloverOK, SubmitStep
  <1>3. /\ c.market \in Markets /\ c.duration \in Nat /\ c.rate \in Nat
        /\ DOMAIN c.collateral \in SUBSET Assets /\ c.collateral \in [DOMAIN c.collateral -> Nat]
    BY <1>2, CommitmentsAssumption
  <1>4. SubmitBid(sender, tx.by, c.market, tx.principal, c.duration, c.rate, c.collateral)
    BY DEF SubmitStep
  <1>5. IInv /\ IInv'
    <2>1. IInv
      BY DEF ExtInv
    <2> HIDE DEF c, sender
    <2> QED
      BY <1>2, <1>3, <1>4, <2>1, SubmitBidInv
  <1>6. /\ bidId \in Bids /\ bid' \in [Bids -> BidType]
        /\ bid'[bidId].borrower = sender
        /\ \A b \in Bids \ {bidId} : bid'[b] = bid[b]
    <2>1. bidId \in Bids
      BY <1>4, <1>5, FreshBid DEF SubmitBid
    <2>2. bid' = [bid EXCEPT ![bidId] =
                     NewBid(sender, tx.by, c.market, tx.principal, c.duration, c.rate)]
      BY <1>4 DEF SubmitBid
    <2>3. bid \in [Bids -> BidType] /\ bid' \in [Bids -> BidType]
      BY <1>5 DEF IInv, TypeOK, LoanTypeOK
    <2> QED
      BY <2>1, <2>2, <2>3 DEF NewBid
  <1>7. BorrowersKnown(bid') /\ bid'[tx.loan].borrower \in Accounts
    BY <1>1, <1>2, <1>6 DEF ExtInv, BorrowersKnown, RolloverOK
  <1>8. commitmentPrincipalAccepted' \in Counts
    BY <1>2 DEF ExtInv, CountersOK, Counts, SubmitStep
  <1>9. UNCHANGED <<loanOwner, ownerVars, now, marketVars, loanAutoPayEnabled, autopayFee, autopaid>>
    BY <1>4 DEF SubmitBid, SubmitStep
  <1>10. RolloverOK' /\ tx'.saved = tx.saved
    <2>1. tx' = [tx EXCEPT !.stage = "accept"]
      BY DEF SubmitStep
    <2> QED
      BY <1>1, <1>2, <1>6, <1>7, <2>1 DEF RolloverOK, RolloverFields
  <1> QED
    BY <1>1, <1>5, <1>7, <1>8, <1>9, <1>10, CallInv

\* It is accepted in the name of the lender who committed.
LEMMA AcceptStepInv ==
    ASSUME ExtInv, tx # NoTx, AcceptStep
    PROVE  ExtInv'
  <1>1. RolloverOK
    BY DEF ExtInv, AcceptStep, AutopayOK
  <1>2. /\ tx.newLoan \in Bids /\ tx.by \in Holders
        /\ Commitments[tx.commitment].lender \in Accounts
    BY <1>1, ExtensionAssumption, CommitmentsAssumption DEF RolloverOK, AcceptStep, Holders
  <1>3. LenderAcceptBid(Commitments[tx.commitment].lender, tx.newLoan) /\ IInv
    BY DEF AcceptStep, ExtInv
  <1>4. IInv'
    BY <1>2, <1>3, LenderAcceptBidInv
  <1>5. UNCHANGED <<bid, bidId, loanOwner, ownerVars, now, marketVars>>
    BY <1>3 DEF LenderAcceptBid
  <1>6. tokenBalance'[tx.by] - tokenBalance[tx.by] \in Int
    BY <1>2, <1>3, <1>4 DEF IInv, TypeOK, VaultTypeOK
  <1>7. tx' = [tx EXCEPT !.stage = IF tx.kind = "flash" THEN "finish" ELSE "repay",
                         !.received = tokenBalance'[tx.by] - tokenBalance[tx.by]]
    BY DEF AcceptStep
  <1>8. RolloverOK' /\ tx'.saved = tx.saved
    BY <1>1, <1>5, <1>6, <1>7 DEF RolloverOK, RolloverFields
  <1> QED
    BY <1>1, <1>4, <1>5, <1>8, CallInv DEF ExtInv, CountersOK, AcceptStep

\* A transaction ends: nothing saved is of use any more.
LEMMA EndInv ==
    ASSUME ExtInv, IInv', tx' = NoTx, bid' = bid,
           commitmentPrincipalAccepted' = commitmentPrincipalAccepted,
           autopaid' \in [Bids -> Nat],
           UNCHANGED <<loanAutoPayEnabled, autopayFee>>
    PROVE  ExtInv'
  <1>1. CountersOK' /\ BorrowersKnown(bid)'
    BY DEF ExtInv, CountersOK, BorrowersKnown
  <1> QED
    BY <1>1 DEF ExtInv, SavedOK

\* The rest goes to the borrower and the flash loan back to the pool.
LEMMA FinishStepInv ==
    ASSUME ExtInv, tx # NoTx, FinishStep
    PROVE  ExtInv'
  <1> DEFINE rest      == FundsRemaining
             due       == tx.flashed + tx.fee
             borrower  == bid[tx.loan].borrower
             afterRest == Transfer(tokenBalance, tx.by, borrower, rest)
  <1>1. RolloverOK
    BY DEF ExtInv, FinishStep, AutopayOK
  <1>2. tx.by \in Holders /\ due \in Nat /\ borrower \in Holders
    BY <1>1, ExtensionAssumption DEF RolloverOK, Holders
  <1>3. tokenBalance \in [Holders -> Nat]
    BY DEF ExtInv, IInv, TypeOK, VaultTypeOK
  <1>4. rest \in Nat
    BY <1>1, <1>2, <1>3 DEF FinishStep, CanFinish, FundsRemaining, RolloverOK
  <1>5. /\ CanTransfer(tokenBalance, tx.by, rest)
        /\ CanTransfer(afterRest, tx.by, due)
        /\ tokenBalance' = Transfer(afterRest, tx.by, Pool, due)
    BY DEF FinishStep, CanFinish, BalanceAfterRest
  <1>6. tokenBalance' \in [Holders -> Nat]
    <2> HIDE DEF rest, due, borrower
    <2>1. afterRest \in [Holders -> Nat]
      BY <1>2, <1>3, <1>4, <1>5, TransferType
    <2> QED
      BY <1>2, <1>5, <2>1, TransferType
  <1>7. OnlyTokensMove /\ tx' = NoTx /\ UNCHANGED autopaid
    BY DEF FinishStep
  <1>8. IInv'
    BY <1>6, <1>7, TokensMoveInv DEF ExtInv
  <1> QED
    BY <1>7, <1>8, EndInv DEF ExtInv, CountersOK, OnlyTokensMove, loanVars

\* Autopay repays what it reckoned.
LEMMA AutopayStepInv ==
    ASSUME ExtInv, tx # NoTx, NEW direct \in TransferOutcomes, AutopayStep(direct)
    PROVE  ExtInv'
  <1>1. AutopayOK
    BY DEF ExtInv, AutopayStep, RolloverOK
  <1>2. Autopay \in Accounts /\ tx.loan \in Bids /\ tx.amount \in Nat /\ direct \in BOOLEAN
        /\ TRUE \in BOOLEAN
    BY <1>1, ExtensionAssumption, LendNestAssumption DEF AutopayOK, Contracts
  <1>3. RepayLoan(Autopay, tx.loan, tx.amount, TRUE, direct) /\ IInv
    BY DEF AutopayStep, ExtInv
  <1>4. IInv'
    BY <1>2, <1>3, RepayAmountInv
  <1>5. autopaid' \in [Bids -> Nat]
    BY <1>2 DEF AutopayStep, ExtInv, CountersOK
  <1>6. bid' = bid
    BY <1>3 DEF RepayLoan, RepayAccepted, RepayLoan_
  <1> QED
    BY <1>4, <1>5, <1>6, EndInv DEF AutopayStep

\* A failed call, at whichever point, brings back a state that satisfies the invariant.
LEMMA RevertStepInv ==
    ASSUME ExtInv, Revert
    PROVE  ExtInv'
  <1>1. SavedIInv /\ tx.saved.drawn \in Counts /\ BorrowersKnown(tx.saved.bid)
    BY DEF ExtInv, SavedOK, Revert
  <1>2. IInv'
    BY <1>1, RevertInv
  <1>3. /\ tx' = NoTx /\ bid' = tx.saved.bid /\ commitmentPrincipalAccepted' = tx.saved.drawn
        /\ UNCHANGED <<loanAutoPayEnabled, autopayFee, autopaid>>
    BY DEF Revert
  <1>4. CountersOK' /\ BorrowersKnown(bid)' /\ SavedOK'
    BY <1>1, <1>3 DEF ExtInv, CountersOK, BorrowersKnown, SavedOK
  <1> QED
    BY <1>2, <1>3, <1>4 DEF ExtInv

-----------------------------------------------------------------------------
(* The invariant *)

\* No step of the core forgets a borrower.
LEMMA BorrowersStayKnown ==
    ASSUME IInv, [Next]_vars, BorrowersKnown(bid), UNCHANGED loanAutoPayEnabled
    PROVE  BorrowersKnown(bid)'
  <1>1. bid \in [Bids -> BidType]
    BY DEF IInv, TypeOK, LoanTypeOK
  <1>2. ASSUME NEW sender \in Borrowers, NEW receiver, NEW m, NEW principal, NEW duration,
               NEW apr, NEW infos, SubmitBid(sender, receiver, m, principal, duration, apr, infos)
        PROVE  BorrowersKnown(bid)'
    <2>1. bidId \in Bids /\ sender \in Accounts
      BY <1>2, FreshBid, LendNestAssumption DEF SubmitBid
    <2>2. bid' = [bid EXCEPT ![bidId] = NewBid(sender, receiver, m, principal, duration, apr)]
      BY <1>2 DEF SubmitBid
    <2>3. \A b \in Bids : bid'[b] = bid[b] \/ bid'[b].borrower = sender
      BY <1>1, <2>1, <2>2 DEF NewBid
    <2> QED
      BY <2>1, <2>3 DEF BorrowersKnown
  <1>3. ASSUME PaymentStep PROVE bid' = bid
    BY <1>3, PaymentForm, PaymentOutcome
  <1>4. CASE bid' = bid
    BY <1>4 DEF BorrowersKnown
  <1> QED
    BY <1>2, <1>3, <1>4, StepForm DEF Cancel, LenderAcceptBid, ClaimLoanNFT, TransferLoanNFT,
       LenderCloseLoan, loanVars

\* What others do between two transactions.
LEMMA OthersInv ==
    ASSUME ExtInv, tx = NoTx, UNCHANGED extensionVars, [Next]_vars
    PROVE  ExtInv'
  <1>1. IInv'
    BY StepInv DEF ExtInv
  <1>2. CountersOK' /\ SavedOK' /\ tx' = NoTx
    BY DEF ExtInv, CountersOK, SavedOK, extensionVars
  <1>3. BorrowersKnown(bid)'
    BY BorrowersStayKnown DEF ExtInv, extensionVars
  <1> QED
    BY <1>1, <1>2, <1>3 DEF ExtInv

\* What they can do are steps of the core.
LEMMA OthersAreNext ==
    ASSUME OthersStep \/ PaidByHand
    PROVE  tx = NoTx /\ UNCHANGED extensionVars /\ Next
  <1>1. CASE OthersStep
    BY <1>1 DEF OthersStep, Alone, Next
  <1>2. CASE PaidByHand
    BY <1>2 DEF PaidByHand, Alone, Next, PaymentStep
  <1> QED
    BY <1>1, <1>2

\* Turning automatic payments on or off, and setting their fee.
LEMMA AutopaySettingsInv ==
    ASSUME ExtInv,
           \/ \E sender \in Borrowers, b \in Bids, enabled \in BOOLEAN :
                 SetAutoPayEnabled(sender, b, enabled)
           \/ \E fee \in AutopayFees : SetAutopayFee(fee)
    PROVE  ExtInv'
  <1>1. tx = NoTx /\ tx' = NoTx /\ UNCHANGED vars
    BY DEF SetAutoPayEnabled, SetAutopayFee
  <1>2. IInv'
    BY <1>1, StepInv DEF ExtInv
  <1>3. SavedOK'
    BY <1>1 DEF SavedOK
  <1>4. UNCHANGED bid
    BY <1>1 DEF vars, loanVars
  <1>5. CountersOK'
    BY DEF ExtInv, CountersOK, SetAutoPayEnabled, SetAutopayFee
  <1>6. BorrowersKnown(bid)'
    <2>1. CASE \E sender \in Borrowers, b \in Bids, enabled \in BOOLEAN :
                  SetAutoPayEnabled(sender, b, enabled)
      <3>1. PICK sender \in Borrowers, b \in Bids, enabled \in BOOLEAN :
                  SetAutoPayEnabled(sender, b, enabled)
        BY <2>1
      <3>2. bid[b].borrower \in Accounts
        BY <3>1, LendNestAssumption DEF SetAutoPayEnabled
      <3> QED
        BY <1>4, <3>1, <3>2 DEF ExtInv, CountersOK, BorrowersKnown, SetAutoPayEnabled
    <2>2. CASE \E fee \in AutopayFees : SetAutopayFee(fee)
      BY <1>4, <2>2 DEF ExtInv, BorrowersKnown, SetAutopayFee
    <2> QED
      BY <2>1, <2>2
  <1> QED
    BY <1>1, <1>2, <1>3, <1>5, <1>6 DEF ExtInv

LEMMA ExtensionsInitInv == ExtensionsInit => ExtInv
  <1> SUFFICES ASSUME ExtensionsInit PROVE ExtInv
    OBVIOUS
  <1>1. IInv
    BY InitInv DEF ExtensionsInit
  <1>2. CountersOK /\ BorrowersKnown(bid) /\ SavedOK /\ tx = NoTx
    BY DEF ExtensionsInit, CountersOK, Counts, BorrowersKnown, SavedOK
  <1> QED
    BY <1>1, <1>2 DEF ExtInv

LEMMA ExtensionsStepInv == ExtInv /\ [ExtensionsNext]_allVars => ExtInv'
  <1> SUFFICES ASSUME ExtInv, [ExtensionsNext]_allVars PROVE ExtInv'
    OBVIOUS
  <1>1. CASE RolloverStart
    <2>1. PICK sender \in Borrowers, b \in Bids, c \in DOMAIN Commitments,
               principal \in NewPrincipals :
           \/ \E offered \in Offers(CalculateRolloverAmount(b, c, principal)) :
                 RolloverLoan(sender, b, c, principal, offered)
           \/ \E offered \in Offers(- CalculateFlashRolloverAmount(b, c, principal)),
                 more \in FlashMargins :
                 RolloverLoanWithFlash(sender, b, c, principal, RepayFullAmount(b) + more, offered)
      BY <1>1 DEF RolloverStart
    <2>2. principal \in Nat /\ IInv
      BY ExtensionAssumption DEF ExtInv
    <2>3. /\ RepayFullAmount(b) \in Nat /\ CalculateRolloverAmount(b, c, principal) \in Int
          /\ - CalculateFlashRolloverAmount(b, c, principal) \in Int
      BY <2>2, QuoteType
    <2>4. ASSUME NEW offered \in Offers(CalculateRolloverAmount(b, c, principal)),
                 RolloverLoan(sender, b, c, principal, offered)
          PROVE  ExtInv'
      <3>1. offered \in Nat
        BY <2>3, OfferType
      <3> QED
        BY <2>2, <2>4, <3>1, RolloverLoanInv
    <2>5. ASSUME NEW offered \in Offers(- CalculateFlashRolloverAmount(b, c, principal)),
                 NEW more \in FlashMargins,
                 RolloverLoanWithFlash(sender, b, c, principal, RepayFullAmount(b) + more, offered)
          PROVE  ExtInv'
      <3>1. offered \in Nat
        BY <2>3, OfferType
      <3>2. RepayFullAmount(b) + more \in Nat
        BY <2>3, ExtensionAssumption
      <3> QED
        BY <2>2, <2>5, <3>1, <3>2, RolloverLoanWithFlashInv
    <2> QED
      BY <2>1, <2>4, <2>5
  <1>2. CASE AutopayStart
    BY <1>2, AutopaySettingsInv, AutoPayLoanMinimumInv DEF AutopayStart
  <1>3. CASE TransactionStep /\ tx # NoTx
    BY <1>3, RepayStepInv, AutopayStepInv, SubmitStepInv, AcceptStepInv, FinishStepInv
       DEF TransactionStep
  <1>4. CASE TransactionStep /\ tx = NoTx
    BY <1>4 DEF TransactionStep, RepayStep, AutopayStep, SubmitStep, AcceptStep, FinishStep, NoTx
  <1>5. CASE Revert
    BY <1>5, RevertStepInv
  <1>6. CASE OthersStep \/ PaidByHand
    BY <1>6, OthersAreNext, OthersInv
  <1>7. CASE UNCHANGED allVars
    <2>1. UNCHANGED vars /\ UNCHANGED extensionVars
      BY <1>7 DEF allVars
    <2>2. IInv'
      BY <2>1, StepInv DEF ExtInv
    <2>3. UNCHANGED <<tx, commitmentPrincipalAccepted, loanAutoPayEnabled, autopayFee, autopaid>>
      BY <2>1 DEF extensionVars
    <2>4. UNCHANGED <<bidId, bid, state, accepted, lastRepaid, repaidPrincipal, loanOwner,
                      ownerVars, now, marketVars>>
      BY <2>1 DEF vars, loanVars
    <2>5. CountersOK' /\ BorrowersKnown(bid)'
      BY <2>3, <2>4 DEF ExtInv, CountersOK, BorrowersKnown
    <2>6. SavedOK'
      BY <2>3, <2>4, SavedKept DEF ExtInv, SavedOK, BorrowersKnown
    <2>7. RolloverOK => RolloverOK'
      BY <2>3, <2>4 DEF RolloverOK
    <2>8. AutopayOK => AutopayOK'
      BY <2>3, <2>4 DEF AutopayOK, EstimatedMinimumPayment, Due, InterestOwed, LastRepaid
    <2> QED
      BY <2>2, <2>3, <2>5, <2>6, <2>7, <2>8 DEF ExtInv
  <1> QED
    BY <1>1, <1>2, <1>3, <1>4, <1>5, <1>6, <1>7 DEF ExtensionsNext

\* The invariant holds in every state, within the transactions of the extensions too.
THEOREM ExtensionsInvariance == ExtensionsSpec => []ExtInv
  BY ExtensionsInitInv, ExtensionsStepInv, PTL DEF ExtensionsSpec

\* No balance, no count of what a commitment lent or of what was paid automatically,
\* falls below zero, through every call of a rollover and every failure that undoes
\* one.
THEOREM ExtensionsTypeCorrect == ExtensionsSpec => []ExtensionsTypeOK
  <1>1. ExtInv => ExtensionsTypeOK
    BY DEF ExtInv, IInv, TypeOK, VaultTypeOK, CountersOK, Counts, RolloverOK, AutopayOK, NoTx,
       ExtensionsTypeOK, Kinds, Stages
  <1> QED
    BY <1>1, ExtensionsInvariance, PTL

\* Rollovers and automatic payments leave the core sound: between any two of their
\* calls the escrows hold what the bids' states call for, and what was repaid stays
\* within what was lent.
THEOREM CoreKept ==
    ExtensionsSpec => [](TypeOK /\ WellFormed /\ RepaidWithinPrincipal /\ CustodyMatchesState)
  <1>1. ExtInv => TypeOK /\ WellFormed /\ RepaidWithinPrincipal /\ CustodyMatchesState
    BY DEF ExtInv, IInv
  <1> QED
    BY <1>1, ExtensionsInvariance, PTL

-----------------------------------------------------------------------------
(* Automatic payments keep to the schedule *)

\* What was paid automatically on a running loan of instalments had accrued when
\* the last payment was made; on a loan not yet begun nothing was.
Scheduled(paid, bids, st, acc, last) ==
    \A b \in Bids :
        /\ st[b] \in {"NONEXISTENT", "PENDING"} => paid[b] = 0
        /\ st[b] = "ACCEPTED" /\ bids[b].paymentType = "EMI" =>
              paid[b] * bids[b].paymentCycle <= bids[b].cycleAmount * (last[b] - acc[b])

SavedScheduled ==
    Scheduled(autopaid, tx.saved.bid, tx.saved.state, tx.saved.accepted, tx.saved.lastRepaid)

ScheduleInv ==
    /\ Scheduled(autopaid, bid, state, accepted, lastRepaid)
    /\ tx # NoTx => SavedScheduled

\* What a step does to one loan: it leaves it but for later payments, ends it, or
\* begins it.
LoanMoves(b) ==
    \/ /\ state'[b] = state[b] /\ bid'[b] = bid[b] /\ accepted'[b] = accepted[b]
       /\ lastRepaid'[b] >= lastRepaid[b]
    \/ state'[b] \notin {"NONEXISTENT", "PENDING", "ACCEPTED"}
    \/ state[b] = "NONEXISTENT" /\ state'[b] = "PENDING"
    \/ state[b] = "PENDING" /\ state'[b] = "ACCEPTED" /\ lastRepaid'[b] = accepted'[b]

\* A product grows with its factors.
LEMMA MulMono == \A c, x, y \in Nat : x <= y => c * x <= c * y
  <1> SUFFICES ASSUME NEW c \in Nat, NEW x \in Nat, NEW y \in Nat, x <= y PROVE c * x <= c * y
    OBVIOUS
  <1>1. y - x \in Nat /\ c * (y - x) \in Nat
    BY MulNat
  <1>2. c * y = c * x + c * (y - x)
    OBVIOUS
  <1>3. c * x \in Nat /\ c * y \in Nat
    BY MulNat
  <1> QED
    BY <1>1, <1>2, <1>3

\* A quotient rounded down, multiplied back, is no more than what was divided.
LEMMA FloorBack == \A n \in Nat, d \in Nat \ {0} : (n \div d) * d <= n
  OBVIOUS

\* A step that pays nothing automatically on a loan keeps it within its schedule.
LEMMA MovesScheduled ==
    ASSUME IInv, IInv', autopaid \in [Bids -> Nat], NEW b \in Bids, LoanMoves(b),
           autopaid'[b] = autopaid[b],
           state[b] \in {"NONEXISTENT", "PENDING"} => autopaid[b] = 0,
           state[b] = "ACCEPTED" /\ bid[b].paymentType = "EMI" =>
              autopaid[b] * bid[b].paymentCycle
                 <= bid[b].cycleAmount * (lastRepaid[b] - accepted[b])
    PROVE  /\ state'[b] \in {"NONEXISTENT", "PENDING"} => autopaid'[b] = 0
           /\ state'[b] = "ACCEPTED" /\ bid'[b].paymentType = "EMI" =>
                 autopaid'[b] * bid'[b].paymentCycle
                    <= bid'[b].cycleAmount * (lastRepaid'[b] - accepted'[b])
  <1>1. /\ accepted[b] \in Nat /\ lastRepaid[b] \in Nat /\ accepted[b] <= lastRepaid[b]
        /\ lastRepaid'[b] \in Nat
        /\ bid[b].paymentCycle \in Nat /\ bid[b].cycleAmount \in Nat
        /\ bid'[b].paymentCycle \in Nat /\ bid'[b].cycleAmount \in Nat
        /\ autopaid[b] \in Nat
    BY DEF IInv, TypeOK, LoanTypeOK, WellFormed, BidType
  <1>2. CASE /\ state'[b] = state[b] /\ bid'[b] = bid[b] /\ accepted'[b] = accepted[b]
             /\ lastRepaid'[b] >= lastRepaid[b]
    <2>1. lastRepaid[b] - accepted[b] \in Nat /\ lastRepaid'[b] - accepted[b] \in Nat
          /\ lastRepaid[b] - accepted[b] <= lastRepaid'[b] - accepted[b]
      BY <1>1, <1>2
    <2>2. bid[b].cycleAmount * (lastRepaid[b] - accepted[b])
             <= bid[b].cycleAmount * (lastRepaid'[b] - accepted[b])
      BY <1>1, <2>1, MulMono
    <2>3. /\ bid[b].cycleAmount * (lastRepaid[b] - accepted[b]) \in Nat
          /\ bid[b].cycleAmount * (lastRepaid'[b] - accepted[b]) \in Nat
          /\ autopaid[b] * bid[b].paymentCycle \in Nat
      BY <1>1, <2>1, MulNat
    <2> QED
      BY <1>2, <2>2, <2>3
  <1>3. CASE state'[b] \notin {"NONEXISTENT", "PENDING", "ACCEPTED"}
    BY <1>3
  <1>4. CASE state[b] = "NONEXISTENT" /\ state'[b] = "PENDING"
    BY <1>4
  <1>5. CASE state[b] = "PENDING" /\ state'[b] = "ACCEPTED" /\ lastRepaid'[b] = accepted'[b]
    <2>1. autopaid'[b] * bid'[b].paymentCycle = 0
      BY <1>1, <1>5
    <2>2. bid'[b].cycleAmount * (lastRepaid'[b] - accepted'[b]) = 0
      BY <1>1, <1>5
    <2> QED
      BY <1>5, <2>1, <2>2
  <1> QED
    BY <1>2, <1>3, <1>4, <1>5 DEF LoanMoves

\* submitBid, lenderAcceptBid and payments move loans in these ways.
LEMMA SubmitBidMoves ==
    ASSUME IInv, NEW sender, NEW receiver, NEW m, NEW principal, NEW duration, NEW apr, NEW infos,
           SubmitBid(sender, receiver, m, principal, duration, apr, infos), NEW b \in Bids
    PROVE  LoanMoves(b)
  <1>1. /\ bid \in [Bids -> BidType] /\ state \in [Bids -> BidState] /\ lastRepaid[b] \in Nat
        /\ bidId \in Bids /\ state[bidId] = "NONEXISTENT"
    BY FreshBid DEF IInv, TypeOK, LoanTypeOK, SubmitBid
  <1> QED
    BY <1>1 DEF SubmitBid, LoanMoves

LEMMA AcceptBidMoves ==
    ASSUME IInv, NEW sender, NEW a \in Bids, LenderAcceptBid(sender, a), NEW b \in Bids
    PROVE  LoanMoves(b)
  <1>1. /\ state \in [Bids -> BidState] /\ lastRepaid \in [Bids -> Nat]
        /\ accepted \in [Bids -> Nat] /\ state[a] = "PENDING"
    BY DEF IInv, TypeOK, LoanTypeOK, LenderAcceptBid
  <1>2. b # a => state'[b] = state[b] /\ bid'[b] = bid[b] /\ accepted'[b] = accepted[b]
                 /\ lastRepaid'[b] = lastRepaid[b]
    BY <1>1 DEF LenderAcceptBid
  <1>3. state'[a] = "ACCEPTED" /\ lastRepaid'[a] = now /\ accepted'[a] = now
    BY <1>1 DEF LenderAcceptBid
  <1> QED
    BY <1>1, <1>2, <1>3 DEF LoanMoves

LEMMA PaymentLoanMoves ==
    ASSUME IInv, NEW payer, NEW a \in Bids, NEW st \in {"ACCEPTED", "LIQUIDATED"},
           NEW principal \in Nat, NEW direct, PaysBack(payer, a, st, principal, direct),
           NEW b \in Bids
    PROVE  LoanMoves(b)
  <1>1. /\ lastRepaid \in [Bids -> Nat] /\ lastRepaid[a] <= now /\ state[a] = "ACCEPTED"
        /\ now \in Nat
    BY DEF IInv, TypeOK, LoanTypeOK, WellFormed, PaysBack
  <1>2. /\ state'[a] \in {"ACCEPTED", "LIQUIDATED", "PAID"}
        /\ \A c \in Bids \ {a} : state'[c] = state[c] /\ lastRepaid'[c] = lastRepaid[c]
        /\ bid' = bid /\ accepted' = accepted
    BY PaymentOutcome
  <1>3. lastRepaid'[a] = now
    BY <1>1 DEF PaysBack, RepayLoan_
  <1> QED
    BY <1>1, <1>2, <1>3 DEF LoanMoves

LEMMA NextMoves ==
    ASSUME IInv, [Next]_vars, NEW b \in Bids
    PROVE  LoanMoves(b)
  <1>1. /\ state \in [Bids -> BidState] /\ lastRepaid \in [Bids -> Nat]
    BY DEF IInv, TypeOK, LoanTypeOK
  <1>2. CASE PaymentStep
    BY <1>2, PaymentForm, PaymentLoanMoves
  <1>3. ASSUME NEW a \in Bids, Cancel(a) PROVE LoanMoves(b)
    BY <1>1, <1>3 DEF Cancel, LoanMoves
  <1>4. ASSUME NEW a \in Bids, NEW acct, ClaimLoanNFT(acct, a) \/ TransferLoanNFT(acct, a)
        PROVE  LoanMoves(b)
    BY <1>1, <1>4 DEF ClaimLoanNFT, TransferLoanNFT, LoanMoves
  <1>5. ASSUME NEW a \in Bids, LenderCloseLoan(a) PROVE LoanMoves(b)
    BY <1>1, <1>5 DEF LenderCloseLoan, LoanMoves
  <1>6. CASE UNCHANGED loanVars
    BY <1>1, <1>6 DEF loanVars, LoanMoves
  <1> QED
    BY <1>2, <1>3, <1>4, <1>5, <1>6, StepForm, SubmitBidMoves, AcceptBidMoves

\* An automatic payment outside the last payment cycle stays within what accrued
\* since the loan's last payment; one in the last cycle ends the loan.
LEMMA AutopaymentBound ==
    ASSUME ExtInv, AutopayOK, NEW direct \in TransferOutcomes, AutopayStep(direct),
           bid[tx.loan].paymentType = "EMI"
    PROVE  LET b == tx.loan
               last == IsLastPaymentCycle(bid[b], accepted[b], repaidPrincipal[b],
                                          LastRepaid(b), now)
           IN  /\ state[b] = "ACCEPTED"
               /\ tx.amount > 0 /\ ~last =>
                     tx.amount * bid[b].paymentCycle <= bid[b].cycleAmount * (now - lastRepaid[b])
               /\ tx.amount > 0 /\ last => state'[b] = "PAID"
  <1> DEFINE b     == tx.loan
             t     == bid[b]
             last  == IsLastPaymentCycle(t, accepted[b], repaidPrincipal[b], LastRepaid(b), now)
             share == OwedAmount(t, accepted[b], repaidPrincipal[b], LastRepaid(b), now)
             span  == now - lastRepaid[b]
  <1>1. /\ IInv /\ b \in Bids /\ tx.amount \in Nat /\ tx.amount = EstimatedMinimumPayment(b)
        /\ RepayLoan(Autopay, b, tx.amount, TRUE, direct)
    BY DEF ExtInv, AutopayOK, AutopayStep
  <1>2. /\ state[b] = "ACCEPTED" /\ ~OwedReverts(b)
        /\ RepayLoan_(Autopay, b, "ACCEPTED", tx.amount - InterestOwed(b), InterestOwed(b), direct)
    BY <1>1 DEF RepayLoan, RepayAccepted
  <1>3. /\ Owed(b) \in Nat /\ InterestOwed(b) \in Nat /\ Due(b) \in Nat
        /\ LastRepaid(b) = lastRepaid[b] /\ span \in Nat
        /\ t.paymentCycle \in Nat \ {0} /\ t.cycleAmount \in Nat
    <2>1. t \in BidType /\ lastRepaid[b] \in Nat /\ accepted[b] \in Nat
          /\ accepted[b] <= lastRepaid[b] /\ lastRepaid[b] <= now /\ now \in Nat
      BY <1>1 DEF IInv, TypeOK, LoanTypeOK, WellFormed
    <2>2. LastRepaid(b) = lastRepaid[b]
      BY <2>1 DEF LastRepaid, LastRepaidTimestamp
    <2>3. t.paymentCycle # 0
      BY <1>2 DEF OwedReverts, AmountOwedReverts
    <2> QED
      BY <1>1, <1>2, <2>1, <2>2, <2>3, OwedType, DueType DEF BidType
  <1>4. tx.amount > 0 => tx.amount = Due(b) + InterestOwed(b)
    BY <1>1, <1>2 DEF EstimatedMinimumPayment
  <1>5. Due(b) = IF share - InterestOwed(b) < Owed(b) THEN share - InterestOwed(b) ELSE Owed(b)
    BY DEF Due, DuePrincipal, Owed, InterestOwed
  <1>6. ASSUME tx.amount > 0, ~last
        PROVE  tx.amount * t.paymentCycle <= t.cycleAmount * span
    <2>1. share = (t.cycleAmount * span) \div t.paymentCycle
      BY <1>3, <1>6 DEF OwedAmount
    <2>2. t.cycleAmount * span \in Nat
      BY <1>3, MulNat
    <2>3. share \in Nat /\ share * t.paymentCycle <= t.cycleAmount * span
      BY <1>3, <2>1, <2>2, DivNat, FloorBack
    <2>4. tx.amount <= share
      <3> HIDE DEF share, b
      <3> QED
        BY <1>3, <1>4, <1>5, <1>6, <2>3
    <2>5. t.paymentCycle * tx.amount <= t.paymentCycle * share
      BY <1>1, <1>3, <2>3, <2>4, MulMono
    <2>6. t.paymentCycle * tx.amount = tx.amount * t.paymentCycle
          /\ t.paymentCycle * share = share * t.paymentCycle
          /\ tx.amount * t.paymentCycle \in Nat /\ share * t.paymentCycle \in Nat
      BY <1>1, <1>3, <2>3, MulNat
    <2> QED
      BY <2>2, <2>3, <2>5, <2>6
  <1>7. ASSUME tx.amount > 0, last
        PROVE  state'[b] = "PAID"
    <2>1. share = Owed(b) + InterestOwed(b)
      BY <1>7 DEF OwedAmount, Owed, InterestOwed
    <2>2. Due(b) = Owed(b)
      <3> HIDE DEF share, b
      <3> QED
        BY <1>3, <1>5, <2>1
    <2>3. IsSettled(b, tx.amount - InterestOwed(b), InterestOwed(b))
      <3> HIDE DEF b
      <3> QED
        BY <1>3, <1>4, <1>7, <2>2 DEF IsSettled
    <2>4. state' = [state EXCEPT ![b] = "PAID"]
      BY <1>2, <2>3 DEF RepayLoan_, StateAfterPayment
    <2> QED
      BY <1>1, <2>4 DEF IInv, TypeOK, LoanTypeOK
  <1> QED
    BY <1>2, <1>6, <1>7

\* So what was paid automatically stays within what accrued since acceptance.
LEMMA AutopaidBound ==
    ASSUME ExtInv, ScheduleInv, AutopayOK, NEW direct \in TransferOutcomes, AutopayStep(direct),
           LET b == tx.loan IN
              /\ bid[b].paymentType = "EMI"
              /\ ~IsLastPaymentCycle(bid[b], accepted[b], repaidPrincipal[b], LastRepaid(b), now)
                 \/ state'[b] # "PAID"
    PROVE  (autopaid[tx.loan] + tx.amount) * bid[tx.loan].paymentCycle
              <= bid[tx.loan].cycleAmount * (now - accepted[tx.loan])
  <1> DEFINE b == tx.loan
             t == bid[b]
  <1>1. /\ b \in Bids /\ state[b] = "ACCEPTED" /\ tx.amount \in Nat
        /\ tx.amount > 0 =>
              tx.amount * t.paymentCycle <= t.cycleAmount * (now - lastRepaid[b])
    BY AutopaymentBound DEF AutopayOK
  <1>2. /\ t.paymentCycle \in Nat /\ t.cycleAmount \in Nat /\ autopaid[b] \in Nat
        /\ now - lastRepaid[b] \in Nat /\ lastRepaid[b] - accepted[b] \in Nat
        /\ now \in Nat /\ lastRepaid[b] \in Nat /\ accepted[b] \in Nat
    BY <1>1 DEF ExtInv, CountersOK, IInv, TypeOK, LoanTypeOK, WellFormed, BidType
  <1>3. autopaid[b] * t.paymentCycle <= t.cycleAmount * (lastRepaid[b] - accepted[b])
    BY <1>1 DEF ScheduleInv, Scheduled
  <1> DEFINE p == t.paymentCycle
             c == t.cycleAmount
             x == now - lastRepaid[b]
             y == lastRepaid[b] - accepted[b]
  <1>4. tx.amount * p <= c * x
    <2>1. tx.amount = 0 => tx.amount * p = 0
      BY <1>2
    <2>2. c * x \in Nat
      BY <1>2, MulNat
    <2> QED
      BY <1>1, <2>1, <2>2
  <1>5. now - accepted[b] = x + y
    BY <1>2
  <1>6. p \in Nat /\ c \in Nat /\ x \in Nat /\ y \in Nat /\ autopaid[b] \in Nat /\ tx.amount \in Nat
        /\ autopaid[b] * p <= c * y
    BY <1>1, <1>2, <1>3
  <1> HIDE DEF p, c, x, y
  <1>7. (autopaid[b] + tx.amount) * p = autopaid[b] * p + tx.amount * p /\ c * (x + y) = c * x + c * y
    BY <1>6
  <1>8. (autopaid[b] + tx.amount) * p <= c * (x + y)
    <2>1. autopaid[b] * p \in Nat /\ tx.amount * p \in Nat /\ c * x \in Nat /\ c * y \in Nat
      BY <1>6, MulNat
    <2> QED
      BY <1>4, <1>6, <1>7, <2>1
  <1> QED
    BY <1>5, <1>8 DEF p, c

\* The calls of a transaction on the core, as payments and moves of loans.
LEMMA FullPaysBack ==
    ASSUME IInv, NEW payer, NEW b \in Bids, NEW withdraw, NEW direct,
           RepayLoanFull(payer, b, withdraw, direct)
    PROVE  Owed(b) \in Nat /\ PaysBack(payer, b, "ACCEPTED", Owed(b), direct)
  BY OwedType, DueType DEF RepayLoanFull, RepayAccepted, PaysBack

LEMMA AmountPaysBack ==
    ASSUME IInv, NEW payer, NEW b \in Bids, NEW amount \in Nat, NEW withdraw, NEW direct,
           RepayLoan(payer, b, amount, withdraw, direct)
    PROVE  /\ amount - InterestOwed(b) \in Nat
           /\ PaysBack(payer, b, "ACCEPTED", amount - InterestOwed(b), direct)
  <1>1. amount - InterestOwed(b) \in Nat /\ Due(b) <= amount - InterestOwed(b)
    BY OwedType, DueType DEF RepayLoan
  <1> QED
    BY <1>1 DEF RepayLoan, RepayAccepted, PaysBack

\* Every step that is not a failed call moves every loan in one of the ways above.
LEMMA ExtensionMoves ==
    ASSUME ExtInv, [ExtensionsNext]_allVars, ~Revert, NEW b \in Bids
    PROVE  LoanMoves(b)
  <1>1. IInv /\ lastRepaid[b] \in Nat
    BY DEF ExtInv, IInv, TypeOK, LoanTypeOK
  <1>2. ASSUME UNCHANGED loanVars PROVE LoanMoves(b)
    BY <1>1, <1>2 DEF loanVars, LoanMoves
  <1>3. CASE RolloverStart \/ AutopayStart
    <2>1. UNCHANGED loanVars
      BY <1>3 DEF RolloverStart, AutopayStart, RolloverLoan, RolloverLoanWithFlash,
         SetAutoPayEnabled, SetAutopayFee, AutoPayLoanMinimum, OnlyTokensMove, vars
    <2> QED
      BY <1>2, <2>1
  <1>4. ASSUME NEW direct \in TransferOutcomes, RepayStep(direct) PROVE LoanMoves(b)
    <2>1. RolloverOK
      BY <1>4 DEF ExtInv, RepayStep, AutopayOK, NoTx
    <2>2. tx.loan \in Bids /\ RepayLoanFull(tx.by, tx.loan, TRUE, direct)
      BY <1>4, <2>1 DEF RepayStep, RolloverOK
    <2> QED
      BY <1>1, <2>2, FullPaysBack, PaymentLoanMoves
  <1>5. ASSUME NEW direct \in TransferOutcomes, AutopayStep(direct) PROVE LoanMoves(b)
    <2>1. AutopayOK
      BY <1>5 DEF ExtInv, AutopayStep, RolloverOK, NoTx
    <2>2. tx.loan \in Bids /\ tx.amount \in Nat
          /\ RepayLoan(Autopay, tx.loan, tx.amount, TRUE, direct)
      BY <1>5, <2>1 DEF AutopayStep, AutopayOK
    <2> QED
      BY <1>1, <2>2, AmountPaysBack, PaymentLoanMoves
  <1>6. CASE SubmitStep
    BY <1>1, <1>6, SubmitBidMoves DEF SubmitStep
  <1>7. CASE AcceptStep
    <2>1. tx.newLoan \in Bids
      BY <1>7 DEF ExtInv, AcceptStep, RolloverOK, AutopayOK, NoTx
    <2> QED
      BY <1>1, <1>7, <2>1, AcceptBidMoves DEF AcceptStep
  <1>8. CASE FinishStep
    BY <1>2, <1>8 DEF FinishStep, OnlyTokensMove
  <1>9. CASE OthersStep \/ PaidByHand
    BY <1>1, <1>9, OthersAreNext, NextMoves
  <1>10. CASE UNCHANGED allVars
    BY <1>2, <1>10 DEF allVars, vars
  <1> QED
    BY <1>3, <1>4, <1>5, <1>6, <1>7, <1>8, <1>9, <1>10 DEF ExtensionsNext, TransactionStep

\* What is saved is the state a transaction began in, from its first call to its last.
LEMMA SavedForm ==
    ASSUME ExtInv, [ExtensionsNext]_allVars
    PROVE  \/ tx' = NoTx
           \/ tx = NoTx /\ tx'.saved = Committed /\ UNCHANGED autopaid
           \/ tx # NoTx /\ tx'.saved = tx.saved /\ UNCHANGED autopaid
  <1>1. CASE RolloverStart
    <2>1. ASSUME NEW sender, NEW b, NEW c, NEW principal, NEW offered,
                 RolloverLoan(sender, b, c, principal, offered)
          PROVE  tx = NoTx /\ tx'.saved = Committed /\ UNCHANGED autopaid
      BY <2>1 DEF RolloverLoan
    <2>2. ASSUME NEW sender, NEW b, NEW c, NEW principal, NEW flashed, NEW offered,
                 RolloverLoanWithFlash(sender, b, c, principal, flashed, offered)
          PROVE  tx = NoTx /\ tx'.saved = Committed /\ UNCHANGED autopaid
      BY <2>2 DEF RolloverLoanWithFlash
    <2> QED
      BY <1>1, <2>1, <2>2 DEF RolloverStart
  <1>2. CASE AutopayStart
    BY <1>2 DEF AutopayStart, SetAutoPayEnabled, SetAutopayFee, AutoPayLoanMinimum
  <1>3. ASSUME NEW direct, RepayStep(direct)
        PROVE  tx # NoTx /\ tx'.saved = tx.saved /\ UNCHANGED autopaid
    <2>1. RolloverOK
      BY <1>3 DEF ExtInv, RepayStep, AutopayOK, NoTx
    <2> QED
      BY <1>3, <2>1 DEF RepayStep, RolloverOK, RolloverFields, NoTx
  <1>4. ASSUME SubmitStep
        PROVE  tx # NoTx /\ tx'.saved = tx.saved /\ UNCHANGED autopaid
    <2>1. RolloverOK
      BY <1>4 DEF ExtInv, SubmitStep, AutopayOK, NoTx
    <2> QED
      BY <1>4, <2>1 DEF SubmitStep, RolloverOK, RolloverFields, NoTx
  <1>5. ASSUME AcceptStep
        PROVE  tx # NoTx /\ tx'.saved = tx.saved /\ UNCHANGED autopaid
    <2>1. RolloverOK
      BY <1>5 DEF ExtInv, AcceptStep, AutopayOK, NoTx
    <2> QED
      BY <1>5, <2>1 DEF AcceptStep, RolloverOK, RolloverFields, NoTx
  <1>6. CASE Revert
    BY <1>6 DEF Revert
  <1>7. CASE OthersStep \/ PaidByHand
    BY <1>7, OthersAreNext DEF extensionVars
  <1>8. CASE UNCHANGED allVars
    BY <1>8 DEF allVars, extensionVars
  <1>9. ASSUME NEW direct, AutopayStep(direct) PROVE tx' = NoTx
    BY <1>9 DEF AutopayStep
  <1>10. CASE FinishStep
    BY <1>10 DEF FinishStep
  <1> QED
    BY <1>1, <1>2, <1>3, <1>4, <1>5, <1>6, <1>7, <1>8, <1>9, <1>10
       DEF ExtensionsNext, TransactionStep

\* Only Autopay's call of repayLoan counts as paid automatically.
LEMMA AutopaidOnlyThere ==
    ASSUME [ExtensionsNext]_allVars
    PROVE  UNCHANGED autopaid \/ \E direct \in TransferOutcomes : AutopayStep(direct)
  <1>1. CASE RolloverStart \/ AutopayStart
    BY <1>1 DEF RolloverStart, RolloverLoan, RolloverLoanWithFlash, AutopayStart,
       SetAutoPayEnabled, SetAutopayFee, AutoPayLoanMinimum
  <1>2. CASE TransactionStep
    BY <1>2 DEF TransactionStep, RepayStep, SubmitStep, AcceptStep, FinishStep
  <1>3. CASE Revert
    BY <1>3 DEF Revert
  <1>4. CASE OthersStep \/ PaidByHand
    BY <1>4, OthersAreNext DEF extensionVars
  <1>5. CASE UNCHANGED allVars
    BY <1>5 DEF allVars, extensionVars
  <1> QED
    BY <1>1, <1>2, <1>3, <1>4, <1>5 DEF ExtensionsNext

\* An automatic payment leaves the loan it is made on within its schedule.
LEMMA AutopayStepScheduled ==
    ASSUME ExtInv, ExtInv', ScheduleInv, NEW direct \in TransferOutcomes, AutopayStep(direct),
           \A b \in Bids : LoanMoves(b)
    PROVE  Scheduled(autopaid', bid', state', accepted', lastRepaid')
  <1>1. AutopayOK
    BY DEF ExtInv, AutopayStep, RolloverOK, NoTx
  <1>2. tx.loan \in Bids /\ tx.amount \in Nat /\ IInv /\ IInv' /\ autopaid \in [Bids -> Nat]
        /\ RepayLoan(Autopay, tx.loan, tx.amount, TRUE, direct)
    BY <1>1 DEF AutopayOK, ExtInv, CountersOK, AutopayStep
  <1>3. /\ autopaid'[tx.loan] = autopaid[tx.loan] + tx.amount
        /\ \A b \in Bids \ {tx.loan} : autopaid'[b] = autopaid[b]
    BY <1>2 DEF AutopayStep
  <1>4. /\ PaysBack(Autopay, tx.loan, "ACCEPTED", tx.amount - InterestOwed(tx.loan), direct)
        /\ tx.amount - InterestOwed(tx.loan) \in Nat
    BY <1>2, AmountPaysBack
  <1>5. /\ state'[tx.loan] \in {"ACCEPTED", "PAID"}
        /\ bid' = bid /\ accepted' = accepted
    BY <1>2, <1>4, PaymentOutcome
  <1>6. lastRepaid'[tx.loan] = now
    BY <1>2, <1>4 DEF PaysBack, RepayLoan_, IInv, TypeOK, LoanTypeOK
  <1>7. ASSUME NEW b \in Bids, b # tx.loan
        PROVE  /\ state'[b] \in {"NONEXISTENT", "PENDING"} => autopaid'[b] = 0
               /\ state'[b] = "ACCEPTED" /\ bid'[b].paymentType = "EMI" =>
                     autopaid'[b] * bid'[b].paymentCycle
                        <= bid'[b].cycleAmount * (lastRepaid'[b] - accepted'[b])
    BY <1>2, <1>3, <1>7, MovesScheduled DEF ScheduleInv, Scheduled
  <1>8. state'[tx.loan] = "ACCEPTED" /\ bid'[tx.loan].paymentType = "EMI" =>
           autopaid'[tx.loan] * bid'[tx.loan].paymentCycle
              <= bid'[tx.loan].cycleAmount * (lastRepaid'[tx.loan] - accepted'[tx.loan])
    BY <1>1, <1>3, <1>5, <1>6, AutopaidBound
  <1> QED
    BY <1>5, <1>7, <1>8 DEF Scheduled

LEMMA ScheduleStep == ExtInv /\ ScheduleInv /\ [ExtensionsNext]_allVars => ScheduleInv'
  <1> SUFFICES ASSUME ExtInv, ScheduleInv, [ExtensionsNext]_allVars PROVE ScheduleInv'
    OBVIOUS
  <1>1. ExtInv' /\ IInv /\ IInv' /\ autopaid \in [Bids -> Nat]
    BY ExtensionsStepInv DEF ExtInv, CountersOK
  <1>2. tx' # NoTx => SavedScheduled'
    <2>1. CASE tx = NoTx /\ tx'.saved = Committed /\ UNCHANGED autopaid
      <3>1. /\ tx'.saved.bid = bid /\ tx'.saved.state = state
            /\ tx'.saved.accepted = accepted /\ tx'.saved.lastRepaid = lastRepaid
        BY <2>1 DEF Committed
      <3> QED
        BY <2>1, <3>1 DEF ScheduleInv, SavedScheduled
    <2>2. CASE tx # NoTx /\ tx'.saved = tx.saved /\ UNCHANGED autopaid
      BY <2>2 DEF ScheduleInv, SavedScheduled
    <2> QED
      BY <2>1, <2>2, SavedForm
  <1>3. Scheduled(autopaid', bid', state', accepted', lastRepaid')
    <2>1. CASE Revert
      <3>1. /\ bid' = tx.saved.bid /\ state' = tx.saved.state /\ accepted' = tx.saved.accepted
            /\ lastRepaid' = tx.saved.lastRepaid /\ autopaid' = autopaid /\ tx # NoTx
        BY <2>1 DEF Revert
      <3> QED
        BY <3>1 DEF ScheduleInv, SavedScheduled
    <2>2. CASE ~Revert
      <3>1. \A b \in Bids : LoanMoves(b)
        BY <2>2, ExtensionMoves
      <3>2. CASE UNCHANGED autopaid
        <4>1. ASSUME NEW b \in Bids
              PROVE  /\ state'[b] \in {"NONEXISTENT", "PENDING"} => autopaid'[b] = 0
                     /\ state'[b] = "ACCEPTED" /\ bid'[b].paymentType = "EMI" =>
                           autopaid'[b] * bid'[b].paymentCycle
                              <= bid'[b].cycleAmount * (lastRepaid'[b] - accepted'[b])
          BY <1>1, <3>1, <3>2, MovesScheduled DEF ScheduleInv, Scheduled
        <4> QED
          BY <4>1 DEF Scheduled
      <3>3. ASSUME NEW direct \in TransferOutcomes, AutopayStep(direct)
            PROVE  Scheduled(autopaid', bid', state', accepted', lastRepaid')
        BY <1>1, <3>1, <3>3, AutopayStepScheduled
      <3> QED
        BY <3>2, <3>3, AutopaidOnlyThere
    <2> QED
      BY <2>1, <2>2
  <1> QED
    BY <1>2, <1>3 DEF ScheduleInv

\* Whoever triggers automatic payments, and however often, what was paid on a loan
\* that way is no more than the instalments accrued since the loan began, unless it
\* is in its last payment cycle.
THEOREM WithinSchedule == ExtensionsSpec => AutopayWithinSchedule
  <1>1. ExtensionsInit => ScheduleInv
    BY DEF ExtensionsInit, Init, ScheduleInv, Scheduled
  <1>2. ASSUME ExtInv, ScheduleInv, [ExtensionsNext]_allVars, NEW b \in Bids,
               autopaid'[b] > autopaid[b], bid[b].paymentType = "EMI",
               ~IsLastPaymentCycle(bid[b], accepted[b], repaidPrincipal[b], LastRepaid(b), now)
        PROVE  autopaid'[b] * bid[b].paymentCycle <= bid[b].cycleAmount * (now - accepted[b])
    <2>1. autopaid \in [Bids -> Nat] /\ autopaid[b] \in Nat
      BY <1>2 DEF ExtInv, CountersOK
    <2>2. PICK direct \in TransferOutcomes : AutopayStep(direct)
      BY <1>2, <2>1, AutopaidOnlyThere
    <2>3. AutopayOK
      BY <1>2, <2>2 DEF ExtInv, AutopayStep, RolloverOK, NoTx
    <2>4. b = tx.loan
      BY <1>2, <2>1, <2>2 DEF AutopayStep
    <2>5. autopaid'[b] = autopaid[b] + tx.amount
      BY <2>1, <2>2, <2>4 DEF AutopayStep
    <2> QED
      BY <1>2, <2>2, <2>3, <2>4, <2>5, AutopaidBound
  <1>3. ExtInv /\ ScheduleInv /\ [ExtensionsNext]_allVars =>
           [\A b \in Bids :
              LET t == bid[b] IN
              /\ autopaid'[b] > autopaid[b] /\ t.paymentType = "EMI"
              /\ ~IsLastPaymentCycle(t, accepted[b], repaidPrincipal[b], LastRepaid(b), now)
              => autopaid'[b] * t.paymentCycle <= t.cycleAmount * (now - accepted[b])]_allVars
    BY <1>2
  <1> QED
    BY <1>1, <1>3, ScheduleStep, ExtensionsInvariance, PTL DEF ExtensionsSpec, AutopayWithinSchedule

-----------------------------------------------------------------------------
(* What everybody is worth *)

Worth(bal, vault) == [acct \in Accounts |-> bal[acct] + vault[acct]]

\* What n tokens that go from one to another make of f.
MovedBy(f, g, from, to, n) ==
    \A p \in Accounts : g[p] = f[p] - (IF p = from THEN n ELSE 0) + (IF p = to THEN n ELSE 0)

\* Tokens that move are not lost.
LEMMA MoveTotal ==
    ASSUME NEW f \in [Accounts -> Int], NEW g \in [Accounts -> Int], NEW from \in Accounts,
           NEW to \in Accounts, NEW n \in Int, MovedBy(f, g, from, to, n)
    PROVE  Total(g, Accounts) = Total(f, Accounts)
  <1> DEFINE h == [f EXCEPT ![from] = @ - n]
  <1>1. h \in [Accounts -> Int] /\ h[from] = f[from] - n
        /\ \A p \in Accounts \ {from} : h[p] = f[p]
    OBVIOUS
  <1>2. \A p \in Accounts \ {to} : g[p] = h[p]
    BY <1>1 DEF MovedBy
  <1>3. g[to] = h[to] + n
    BY <1>1 DEF MovedBy
  <1> HIDE DEF h
  <1>4. Total(h, Accounts) = Total(f, Accounts) - f[from] + h[from]
    BY <1>1, TotalUpdate, TypesAssumption
  <1>5. Total(g, Accounts) = Total(h, Accounts) - h[to] + g[to]
    BY <1>1, <1>2, TotalUpdate, TypesAssumption
  <1>6. Total(f, Accounts) \in Int /\ Total(h, Accounts) \in Int
    BY <1>1, TotalType, TypesAssumption
  <1>7. f[from] \in Int /\ h[from] \in Int /\ h[to] \in Int /\ g[to] \in Int
    BY <1>1
  <1> QED
    BY <1>1, <1>3, <1>4, <1>5, <1>6, <1>7

\* A transfer between accounts, or of nothing, keeps what all are worth together.
LEMMA TransferWorth ==
    ASSUME NEW bal \in [Holders -> Int], NEW vault \in [Accounts -> Int], NEW from \in Accounts,
           NEW to, NEW n \in Int, to \in Accounts \/ n = 0
    PROVE  Total(Worth(Transfer(bal, from, to, n), vault), Accounts) = Total(Worth(bal, vault), Accounts)
  <1> DEFINE f == Worth(bal, vault)
             g == Worth(Transfer(bal, from, to, n), vault)
  <1>1. Accounts \subseteq Holders /\ Transfer(bal, from, to, n) \in [Holders -> Int]
    BY TransferInt DEF Holders
  <1>2. f \in [Accounts -> Int] /\ g \in [Accounts -> Int]
    BY <1>1 DEF Worth
  <1>3. \A p \in Accounts : /\ f[p] = bal[p] + vault[p]
                            /\ g[p] = Transfer(bal, from, to, n)[p] + vault[p]
    BY DEF Worth
  <1>4. \A p \in Accounts : Transfer(bal, from, to, n)[p]
                               = bal[p] - (IF p = from THEN n ELSE 0) + (IF p = to THEN n ELSE 0)
    BY <1>1 DEF Transfer
  <1>5. MovedBy(f, g, from, to, n)
    BY <1>1, <1>3, <1>4 DEF MovedBy
  <1> HIDE DEF f, g
  <1>6. CASE to \in Accounts
    <2>1. Total(g, Accounts) = Total(f, Accounts)
      BY <1>2, <1>5, <1>6, MoveTotal
    <2> QED
      BY <2>1 DEF f, g
  <1>7. CASE n = 0
    <2>1. \A p \in Accounts : g[p] = f[p]
      BY <1>2, <1>5, <1>7 DEF MovedBy
    <2> QED
      BY <2>1, TotalSame, TypesAssumption DEF f, g
  <1> QED
    BY <1>6, <1>7 DEF f, g

\* Payments keep it as well, those that end in the vault included.
LEMMA PaymentWorth ==
    ASSUME IInv, IInv', NEW payer \in Accounts, NEW b \in Bids, state[b] = "ACCEPTED",
           NEW amount \in Nat, NEW direct \in BOOLEAN, SendOrEscrowFunds(payer, b, amount, direct)
    PROVE  /\ Total(Worth(tokenBalance', vaultBalances'), Accounts)
                 = Total(Worth(tokenBalance, vaultBalances), Accounts)
           /\ MovedBy(Worth(tokenBalance, vaultBalances), Worth(tokenBalance', vaultBalances'),
                      payer, LoanLender(b), amount)
  <1> DEFINE f == Worth(tokenBalance, vaultBalances)
             g == Worth(tokenBalance', vaultBalances')
  <1>1. /\ tokenBalance \in [Holders -> Nat] /\ vaultBalances \in [Accounts -> Nat]
        /\ tokenBalance' \in [Holders -> Nat] /\ vaultBalances' \in [Accounts -> Nat]
        /\ LoanLender(b) \in Accounts /\ Accounts \subseteq Holders
    BY DEF IInv, TypeOK, VaultTypeOK, WellFormed, Holders
  <1>2. f \in [Accounts -> Int] /\ g \in [Accounts -> Int]
    BY <1>1 DEF Worth
  <1>3. ASSUME NEW p \in Accounts
        PROVE  g[p] = f[p] - (IF p = payer THEN amount ELSE 0)
                           + (IF p = LoanLender(b) THEN amount ELSE 0)
    <2>1. Wealth(p)' = Wealth(p) - (IF p = payer THEN amount ELSE 0)
                                 + (IF p = LoanLender(b) THEN amount ELSE 0)
      BY PaymentMoves
    <2> QED
      BY <2>1 DEF Wealth, Worth
  <1>4. MovedBy(f, g, payer, LoanLender(b), amount)
    BY <1>3 DEF MovedBy
  <1> HIDE DEF f, g
  <1>5. Total(g, Accounts) = Total(f, Accounts)
    BY <1>1, <1>2, <1>4, MoveTotal
  <1> QED
    BY <1>4, <1>5 DEF f, g

\* What an acceptance does to balances: the lender parts with the principal, of
\* which the owners get their fees and the receiver the rest.
LEMMA AcceptMoves ==
    ASSUME IInv, NEW b \in Bids, NEW sender \in Accounts, LenderAcceptBid(sender, b)
    PROVE  /\ AmountToProtocol(b) \in Nat /\ AmountToMarketplace(b) \in Nat
           /\ AmountToBorrower(b) \in Nat /\ UNCHANGED vaultBalances
           /\ \A p \in Accounts :
                tokenBalance'[p] = tokenBalance[p]
                    - (IF p = sender THEN AmountToProtocol(b) + AmountToMarketplace(b)
                                          + AmountToBorrower(b) ELSE 0)
                    + (IF p = ProtocolOwner THEN AmountToProtocol(b) ELSE 0)
                    + (IF p = GetMarketFeeRecipient(bid[b].market)
                       THEN AmountToMarketplace(b) ELSE 0)
                    + (IF p = bid[b].receiver THEN AmountToBorrower(b) ELSE 0)
           /\ Total(Worth(tokenBalance', vaultBalances'), Accounts)
                 = Total(Worth(tokenBalance, vaultBalances), Accounts)
  <1> DEFINE first  == BalanceAfterProtocolFee(sender, b)
             second == BalanceAfterMarketFee(sender, b)
             third  == BalanceAfterDisbursal(sender, b)
             owner  == GetMarketFeeRecipient(bid[b].market)
             toP    == AmountToProtocol(b)
             toM    == AmountToMarketplace(b)
             toB    == AmountToBorrower(b)
  <1>1. /\ state[b] = "PENDING" /\ bid[b] \in BidType /\ CanDisburse(sender, b)
        /\ bid[b].market \in Markets /\ bid[b].receiver \in Accounts
        /\ tokenBalance' = third /\ vaultBalances' = vaultBalances
    BY DEF IInv, TypeOK, LoanTypeOK, WellFormed, LenderAcceptBid
  <1>2. toP \in Nat /\ toM \in Nat
    BY <1>1, FeesType
  <1>3. toB \in Nat
    BY <1>1, <1>2 DEF CanDisburse, AmountToBorrower, BidType
  <1>4. owner \in Accounts \/ toM = 0
    BY <1>1, <1>2 DEF CanDisburse, IInv, TypeOK, MRTypeOK, GetMarketFeeRecipient
  <1>5. /\ first  = Transfer(tokenBalance, sender, ProtocolOwner, toP)
        /\ second = Transfer(first, sender, owner, toM)
        /\ third  = Transfer(second, sender, bid[b].receiver, toB)
    BY DEF BalanceAfterProtocolFee, BalanceAfterMarketFee, BalanceAfterDisbursal
  <1>6. /\ tokenBalance \in [Holders -> Int] /\ vaultBalances \in [Accounts -> Int]
        /\ Accounts \subseteq Holders /\ ProtocolOwner \in Accounts
    BY LendNestAssumption DEF IInv, TypeOK, VaultTypeOK, Holders
  <1> HIDE DEF first, second, third, owner, toP, toM, toB
  <1>7. first \in [Holders -> Int]
    BY <1>2, <1>5, <1>6, TransferInt
  <1>8. second \in [Holders -> Int]
    BY <1>2, <1>5, <1>7, TransferInt
  <1>9. ASSUME NEW p \in Accounts
        PROVE  third[p] = tokenBalance[p] - (IF p = sender THEN toP + toM + toB ELSE 0)
                              + (IF p = ProtocolOwner THEN toP ELSE 0)
                              + (IF p = owner THEN toM ELSE 0)
                              + (IF p = bid[b].receiver THEN toB ELSE 0)
    <2>1. p \in Holders /\ tokenBalance[p] \in Int
      BY <1>6
    <2>2. first[p] = tokenBalance[p] - (IF p = sender THEN toP ELSE 0)
                         + (IF p = ProtocolOwner THEN toP ELSE 0)
      BY <1>5, <1>6, <2>1 DEF Transfer
    <2>3. second[p] = first[p] - (IF p = sender THEN toM ELSE 0) + (IF p = owner THEN toM ELSE 0)
      BY <1>5, <1>7, <2>1 DEF Transfer
    <2>4. third[p] = second[p] - (IF p = sender THEN toB ELSE 0)
                         + (IF p = bid[b].receiver THEN toB ELSE 0)
      BY <1>5, <1>8, <2>1 DEF Transfer
    <2> QED
      BY <1>2, <1>3, <2>1, <2>2, <2>3, <2>4
  <1>10. Total(Worth(third, vaultBalances), Accounts) = Total(Worth(tokenBalance, vaultBalances), Accounts)
    <2>1. Total(Worth(first, vaultBalances), Accounts)
             = Total(Worth(tokenBalance, vaultBalances), Accounts)
      BY <1>2, <1>5, <1>6, TransferWorth
    <2>2. Total(Worth(second, vaultBalances), Accounts) = Total(Worth(first, vaultBalances), Accounts)
      BY <1>2, <1>4, <1>5, <1>6, <1>7, TransferWorth
    <2>3. Total(Worth(third, vaultBalances), Accounts) = Total(Worth(second, vaultBalances), Accounts)
      BY <1>1, <1>3, <1>5, <1>6, <1>8, TransferWorth
    <2> QED
      BY <2>1, <2>2, <2>3
  <1> QED
    BY <1>1, <1>2, <1>3, <1>9, <1>10 DEF third, owner, toP, toM, toB

-----------------------------------------------------------------------------
(* Steps of the abstract specification *)

\* The library's sum over a function is the sum over all accounts.
LEMMA SumIsTotal ==
    ASSUME NEW f, DOMAIN f = Accounts
    PROVE  Promise!SumFunction(f) = Total(f, Accounts)
  <1>1. Promise!SumFunction(f) = (CHOOSE g : IsTotal(f, g, Accounts))[Accounts]
    BY DEF Promise!SumFunction, Promise!SumFunctionOnSet, Promise!FoldFunctionOnSet,
       Promise!MapThenFoldSet, IsTotal, First
  <1> QED
    BY <1>1, TotalDef

\* A step after which the chain shows as many tokens as before, and the contracts
\* are worth what they were.
Shown == Worth(CommittedTokens, CommittedVault)
Neutral ==
    /\ Total(Shown', Accounts) = Total(Shown, Accounts)
    /\ \A p \in Contracts : Shown'[p] = Shown[p]

LEMMA ShownWorth ==
    /\ Shown = [acct \in Accounts |-> CommittedTokens[acct] + CommittedVault[acct]]
    /\ Shown' = [acct \in Accounts |-> CommittedTokens[acct] + CommittedVault[acct]]'
  BY DEF Shown, Worth

LEMMA NeutralMaps == Neutral => Promise!NothingSticks
  <1>1. /\ Promise!SumFunction(Shown) = Total(Shown, Accounts)
        /\ Promise!SumFunction(Shown') = Total(Shown', Accounts)
    BY SumIsTotal DEF Shown, Worth
  <1> QED
    BY <1>1, ShownWorth DEF Promise!NothingSticks, Neutral

\* At most these accounts are worth less after the step.
OnlyTheseLose(payers) == \A p \in Accounts \ payers : Shown'[p] >= Shown[p]

LEMMA LosersMap ==
    ASSUME NEW payers, OnlyTheseLose(payers),
           CommittedTokens \in [Holders -> Nat], CommittedTokens' \in [Holders -> Nat],
           CommittedVault \in [Accounts -> Nat], CommittedVault' \in [Accounts -> Nat]
    PROVE  Promise!Losers \subseteq payers
  <1>1. \A p \in Accounts : Shown[p] \in Int /\ Shown'[p] \in Int
    BY ShownWorth DEF Holders
  <1> QED
    BY <1>1, ShownWorth DEF Promise!Losers, OnlyTheseLose

\* What a step may make of the state of a loan.
Moves(st, st2) ==
    \/ st2 = st
    \/ st = "NONEXISTENT" /\ st2 = "PENDING"
    \/ st = "PENDING" /\ st2 # "NONEXISTENT"
    \/ st = "ACCEPTED" /\ st2 \in {"PAID", "CLOSED", "LIQUIDATED"}

LEMMA MovesMap ==
    ASSUME NEW st \in BidState, NEW st2 \in BidState, Moves(st, st2)
    PROVE  <<StatusOf(st), StatusOf(st2)>> \in Promise!MayBecome
  BY DEF Moves, StatusOf, BidState, Promise!MayBecome, Promise!Statuses

ShownTypes ==
    /\ CommittedState \in [Bids -> BidState]
    /\ CommittedTokens \in [Holders -> Nat] /\ CommittedVault \in [Accounts -> Nat]

\* A step of one loan, which at most one account pays for.
LEMMA OrdinaryMaps ==
    ASSUME ShownTypes, ShownTypes', NEW l \in Bids, NEW payer \in Accounts,
           \A b \in Bids \ {l} : /\ CommittedState'[b] = CommittedState[b]
                                 /\ CommittedBid'[b] = CommittedBid[b]
                                 /\ CommittedLender'[b] = CommittedLender[b],
           Moves(CommittedState[l], CommittedState'[l]),
           \/ CommittedState[l] = "NONEXISTENT"
           \/ CommittedBid'[l].borrower = CommittedBid[l].borrower,
           \/ CommittedState'[l] = "ACCEPTED"
           \/ CommittedLender'[l] = CommittedLender[l],
           CommittedState[l] = "PENDING" /\ CommittedState'[l] = "ACCEPTED"
              => CommittedLender'[l] = payer,
           OnlyTheseLose({payer}), Neutral
    PROVE  Promise!Next
  <1> DEFINE status  == [b \in Bids |-> StatusOf(CommittedState[b])]
             debtor  == [b \in Bids |-> CommittedBid[b].borrower]
             status2 == [b \in Bids |-> StatusOf(CommittedState'[b])]
             debtor2 == [b \in Bids |-> CommittedBid'[b].borrower]
             creditor  == [b \in Bids |-> CommittedLender[b]]
             creditor2 == [b \in Bids |-> CommittedLender'[b]]
  <1>1. \A b \in Bids \ {l} : status2[b] = status[b] /\ debtor2[b] = debtor[b]
    OBVIOUS
  <1>2. status[l] # "none" => debtor2[l] = debtor[l]
    BY DEF StatusOf
  <1>3. status2 = [status EXCEPT ![l] = status2[l]]
    BY <1>1
  <1>4. debtor2 = [debtor EXCEPT ![l] = IF status[l] = "none" THEN debtor2[l] ELSE @]
    BY <1>1, <1>2
  <1>5. /\ creditor2 = [creditor EXCEPT ![l] = IF status2[l] = "running" THEN creditor2[l] ELSE @]
        /\ status[l] = "asked" /\ status2[l] = "running" => creditor2[l] = payer
    <2>1. creditor2[l] = IF status2[l] = "running" THEN creditor2[l] ELSE creditor[l]
      BY DEF StatusOf
    <2>2. status[l] = "asked" /\ status2[l] = "running" => creditor2[l] = payer
      BY MovesMap DEF StatusOf, ShownTypes, BidState
    <2> QED
      BY <2>1, <2>2
  <1>6. <<status[l], status2[l]>> \in Promise!MayBecome
    BY MovesMap DEF ShownTypes
  <1>7. Promise!Losers \subseteq {payer} /\ Promise!NothingSticks
    BY LosersMap, NeutralMaps DEF ShownTypes
  <1>8. Promise!Ordinary(l, payer)
    BY <1>3, <1>4, <1>6, <1>7, <1>5 DEF Promise!Ordinary
  <1> QED
    BY <1>8 DEF Promise!Next

\* One loan gives way to another.
LEMMA SwapMaps ==
    ASSUME ShownTypes, ShownTypes', NEW old \in Bids, NEW new \in Bids, NEW payer \in Accounts,
           old # new,
           \A b \in Bids \ {old, new} : CommittedState'[b] = CommittedState[b],
           \A b \in Bids \ {new} : /\ CommittedBid'[b] = CommittedBid[b]
                                   /\ CommittedLender'[b] = CommittedLender[b],
           CommittedState[old] = "ACCEPTED", CommittedState'[old] = "PAID",
           CommittedState[new] = "NONEXISTENT", CommittedState'[new] = "ACCEPTED",
           CommittedBid'[new].borrower = CommittedBid[old].borrower,
           CommittedLender'[new] = payer,
           OnlyTheseLose({CommittedBid[old].borrower, payer}), Neutral
    PROVE  Promise!Next
  <1> DEFINE status  == [b \in Bids |-> StatusOf(CommittedState[b])]
             debtor  == [b \in Bids |-> CommittedBid[b].borrower]
             status2 == [b \in Bids |-> StatusOf(CommittedState'[b])]
             debtor2 == [b \in Bids |-> CommittedBid'[b].borrower]
             creditor  == [b \in Bids |-> CommittedLender[b]]
             creditor2 == [b \in Bids |-> CommittedLender'[b]]
  <1>1. \A b \in Bids \ {old, new} : status2[b] = status[b]
    OBVIOUS
  <1>2. \A b \in Bids \ {new} : debtor2[b] = debtor[b]
    OBVIOUS
  <1>3. /\ status[old] = "running" /\ status[new] = "none"
        /\ status2[old] = "over" /\ status2[new] = "running"
    BY DEF StatusOf
  <1>4. status2 = [status EXCEPT ![old] = "over", ![new] = "running"]
    BY <1>1, <1>3
  <1>5. debtor2 = [debtor EXCEPT ![new] = debtor[old]]
    BY <1>2
  <1>6. creditor2 = [creditor EXCEPT ![new] = payer]
    OBVIOUS
  <1>7. Promise!Losers \subseteq {debtor[old], payer} /\ Promise!NothingSticks
    BY LosersMap, NeutralMaps DEF ShownTypes
  <1>8. Promise!Swap(old, new, payer)
    BY <1>3, <1>4, <1>5, <1>7, <1>6 DEF Promise!Swap
  <1> QED
    BY <1>8 DEF Promise!Next

\* A step that shows nothing.
LEMMA HiddenMaps ==
    ASSUME UNCHANGED <<CommittedState, CommittedBid, CommittedLender, CommittedTokens, CommittedVault>>
    PROVE  UNCHANGED Promise!swapVars
  BY DEF Promise!swapVars

-----------------------------------------------------------------------------
(* The contracts are no party to anything between their transactions *)

OwnersApart ==
    /\ \A b \in Bids : loanOwner[b] \notin Contracts
    /\ \A m \in Markets : marketOwner[m] \notin Contracts /\ feeRecipient[m] \notin Contracts

\* A bid has a borrower once its id was handed out.
PartiesApart(next, bids, lend) ==
    \A b \in Bids :
        /\ lend[b] \notin Contracts
        /\ bids[b].borrower \in Borrowers \cup {NoAccount}
        /\ b >= next => bids[b].borrower = NoAccount

\* A rollover has the new loan sent to its contract, but accepts it at once.
ReceiversApart(bids, st) == \A b \in Bids : st[b] = "PENDING" => bids[b].receiver \notin Contracts

ApartInv ==
    /\ OwnersApart
    /\ PartiesApart(bidId, bid, lender)
    /\ tx = NoTx => ReceiversApart(bid, state)
    /\ tx # NoTx => /\ PartiesApart(tx.saved.bidId, tx.saved.bid, tx.saved.lender)
                    /\ ReceiversApart(tx.saved.bid, tx.saved.state)

\* None of the others that act or are paid is one of the contracts.
LEMMA OthersApart ==
    /\ NoAccount \notin Contracts /\ UsingLenderManager \notin Contracts /\ Pool \notin Contracts
    /\ ProtocolOwner \notin Contracts
    /\ \A p \in Borrowers \cup Lenders \cup Payers \cup Receivers \cup Assignees \cup Callers
                \cup Creators \cup Successors : p \notin Contracts
    /\ \A m \in Markets : InitialOwner[m] \notin Contracts
    /\ \A c \in DOMAIN Commitments : Commitments[c].lender \notin Contracts
    /\ Contracts \subseteq Accounts /\ Contracts \subseteq Holders
  <1>1. NoAccount \notin Contracts /\ UsingLenderManager \notin Contracts
    BY LendNestAssumption, ExtensionAssumption, TypesAssumption
  <1> QED
    BY <1>1, ExtensionAssumption, ContractsApart DEF Holders

LEMMA ApartInit == ExtensionsInit => ApartInv
  <1> SUFFICES ASSUME ExtensionsInit PROVE ApartInv
    OBVIOUS
  <1>1. Init /\ tx = NoTx
    BY DEF ExtensionsInit
  <1>2. marketOwner = InitialOwner /\ feeRecipient = [m \in Markets |-> NoAccount]
    BY <1>1 DEF Init, MRInit
  <1>3. OwnersApart
    BY <1>1, <1>2, OthersApart DEF Init, OwnersApart
  <1>4. PartiesApart(bidId, bid, lender) /\ ReceiversApart(bid, state)
    BY <1>1, OthersApart DEF Init, PartiesApart, ReceiversApart, EmptyBid
  <1> QED
    BY <1>1, <1>3, <1>4 DEF ApartInv

\* What a market's owner does, or a new one.
LEMMA MarketsStayApart ==
    ASSUME IInv, OwnersApart, [Next]_vars
    PROVE  \A m \in Markets : marketOwner'[m] \notin Contracts /\ feeRecipient'[m] \notin Contracts
  <1>1. /\ marketOwner \in [Markets -> Accounts \cup {NoAccount}]
        /\ feeRecipient \in [Markets -> Accounts \cup {NoAccount}]
    BY DEF IInv, TypeOK, MRTypeOK
  <1>2. CASE UNCHANGED <<marketOwner, feeRecipient>>
    BY <1>2 DEF OwnersApart
  <1>3. CASE MarketStep
    <2>1. ASSUME NEW sender \in Creators, NEW s, CreateMarket(sender, s)
          PROVE  /\ marketOwner' = [marketOwner EXCEPT ![marketCount + 1] = sender]
                 /\ feeRecipient' = feeRecipient
      BY <2>1 DEF CreateMarket
    <2>2. ASSUME NEW m \in ManagedMarkets, NEW acct \in Successors,
                 TransferMarketOwnership(m, acct) \/ SetMarketFeeRecipient(m, acct)
          PROVE  /\ marketOwner' \in {marketOwner, [marketOwner EXCEPT ![m] = acct]}
                 /\ feeRecipient' \in {feeRecipient, [feeRecipient EXCEPT ![m] = acct]}
      BY <2>2 DEF TransferMarketOwnership, SetMarketFeeRecipient
    <2>3. \/ UNCHANGED <<marketOwner, feeRecipient>>
          \/ \E sender \in Creators, s \in MarketSettings : CreateMarket(sender, s)
          \/ \E m \in ManagedMarkets, acct \in Successors :
                TransferMarketOwnership(m, acct) \/ SetMarketFeeRecipient(m, acct)
      BY <1>3 DEF MarketStep, MarketNext, UpdateMarketSettings, CloseMarket, AttestStakeholder,
         RemoveStakeholder, RevokeAttestation
    <2>4. /\ \A acct \in Creators \cup Successors : acct \notin Contracts
          /\ \A m \in Markets : marketOwner[m] \notin Contracts /\ feeRecipient[m] \notin Contracts
      BY OthersApart DEF OwnersApart
    <2> QED
      BY <1>1, <1>2, <2>1, <2>2, <2>3, <2>4
  <1>4. CASE BorrowerStep \/ LenderStep \/ CustodyStep
    <2>1. UNCHANGED marketVars
      BY <1>4 DEF BorrowerStep, SubmitBid, CancelBid, MarketOwnerCancelBid, Cancel, LenderStep,
         LenderAcceptBid, ClaimLoanNFT, TransferLoanNFT, CustodyStep, LenderCloseLoan,
         WithdrawPaidCollateral, WithdrawFromVault
    <2> QED
      BY <1>2, <2>1 DEF marketVars
  <1>5. CASE PaymentStep
    <2>1. UNCHANGED marketVars
      BY <1>5, PaymentForm DEF PaysBack, RepayLoan_
    <2> QED
      BY <1>2, <2>1 DEF marketVars
  <1>6. CASE ReputationStep \/ OwnerStep \/ Tick \/ UNCHANGED vars
    <2>1. UNCHANGED marketVars
      BY <1>6 DEF ReputationStep, UpdateAccountReputation, UpdateBidReputation, OwnerStep,
         PauseProtocol, UnpauseProtocol, SetProtocolFee, Tick, vars
    <2> QED
      BY <1>2, <2>1 DEF marketVars
  <1> QED
    BY <1>3, <1>4, <1>5, <1>6 DEF Next

\* A bid that is submitted between transactions.
LEMMA SubmitBidApart ==
    ASSUME IInv, PartiesApart(bidId, bid, lender), NEW sender \in Borrowers, NEW receiver, NEW m,
           NEW principal, NEW duration, NEW apr, NEW infos,
           SubmitBid(sender, receiver, m, principal, duration, apr, infos)
    PROVE  /\ PartiesApart(bidId', bid', lender')
           /\ receiver \notin Contracts /\ ReceiversApart(bid, state) => ReceiversApart(bid', state')
  <1>1. bidId \in Bids /\ bidId' = bidId + 1 /\ lender' = lender
    BY FreshBid DEF SubmitBid
  <1>2. /\ bid' = [bid EXCEPT ![bidId] = NewBid(sender, receiver, m, principal, duration, apr)]
        /\ state' = [state EXCEPT ![bidId] = "PENDING"]
    BY DEF SubmitBid
  <1>3. /\ bid \in [Bids -> BidType] /\ state \in [Bids -> BidState] /\ bidId \in Nat
        /\ Bids \subseteq Int
    BY DEF IInv, TypeOK, LoanTypeOK, Bids
  <1>4. /\ \A b \in Bids \ {bidId} : bid'[b] = bid[b] /\ state'[b] = state[b]
        /\ bid'[bidId].borrower = sender
        /\ bid'[bidId].receiver = IF receiver = NoAccount THEN sender ELSE receiver
    BY <1>1, <1>2, <1>3 DEF NewBid
  <1>5. PartiesApart(bidId', bid', lender')
    <2> SUFFICES ASSUME NEW b \in Bids
                 PROVE  /\ lender'[b] \notin Contracts
                        /\ bid'[b].borrower \in Borrowers \cup {NoAccount}
                        /\ b >= bidId' => bid'[b].borrower = NoAccount
      BY DEF PartiesApart
    <2>1. b \in Int /\ bidId \in Int
      BY <1>3
    <2> QED
      BY <1>1, <1>4, <2>1 DEF PartiesApart
  <1>6. ASSUME receiver \notin Contracts, ReceiversApart(bid, state)
        PROVE  ReceiversApart(bid', state')
    BY <1>1, <1>4, <1>6, OthersApart DEF ReceiversApart
  <1> QED
    BY <1>5, <1>6

\* Nobody makes the contracts a party to a loan.
LEMMA LoansStayApart ==
    ASSUME IInv, [Next]_vars, OwnersApart, PartiesApart(bidId, bid, lender),
           ReceiversApart(bid, state)
    PROVE  /\ \A b \in Bids : loanOwner'[b] \notin Contracts
           /\ PartiesApart(bidId', bid', lender') /\ ReceiversApart(bid', state')
  <1>1. /\ state \in [Bids -> BidState] /\ \A b \in Bids : loanOwner[b] \notin Contracts
        /\ lender \in [Bids -> Accounts \cup {NoAccount, UsingLenderManager}]
        /\ loanOwner \in [Bids -> Accounts \cup {NoAccount}]
    BY DEF IInv, TypeOK, LoanTypeOK, OwnersApart
  <1>2. ASSUME NEW sender \in Borrowers, NEW receiver \in Receivers, NEW m, NEW principal,
               NEW duration, NEW apr, NEW infos,
               SubmitBid(sender, receiver, m, principal, duration, apr, infos)
        PROVE  /\ loanOwner' = loanOwner
               /\ PartiesApart(bidId', bid', lender') /\ ReceiversApart(bid', state')
    <2>1. receiver \notin Contracts
      BY OthersApart
    <2>2. loanOwner' = loanOwner
      BY <1>2 DEF SubmitBid
    <2> QED
      BY <1>2, <2>1, <2>2, SubmitBidApart
  <1>3. ASSUME UNCHANGED <<bidId, bid>>,
               \A b \in Bids : lender'[b] \notin Contracts,
               \A b \in Bids : loanOwner'[b] \notin Contracts,
               \A b \in Bids : state'[b] = "PENDING" => state[b] = "PENDING"
        PROVE  /\ \A b \in Bids : loanOwner'[b] \notin Contracts
               /\ PartiesApart(bidId', bid', lender') /\ ReceiversApart(bid', state')
    BY <1>3 DEF PartiesApart, ReceiversApart
  <1>4. \A b \in Bids : lender[b] \notin Contracts
    BY DEF PartiesApart
  <1>5. ASSUME NEW b \in Bids, Cancel(b) \/ LenderCloseLoan(b)
        PROVE  /\ UNCHANGED <<bidId, bid, lender, loanOwner>>
               /\ \A c \in Bids : state'[c] = "PENDING" => state[c] = "PENDING"
    BY <1>1, <1>5 DEF Cancel, LenderCloseLoan
  <1>6. ASSUME NEW sender \in Lenders, NEW b \in Bids, LenderAcceptBid(sender, b)
        PROVE  /\ UNCHANGED <<bidId, bid, loanOwner>>
               /\ \A c \in Bids : lender'[c] \notin Contracts
               /\ \A c \in Bids : state'[c] = "PENDING" => state[c] = "PENDING"
    BY <1>1, <1>4, <1>6, OthersApart DEF LenderAcceptBid
  <1>7. ASSUME NEW sender \in Lenders, NEW b \in Bids, ClaimLoanNFT(sender, b)
        PROVE  /\ UNCHANGED <<bidId, bid, state>>
               /\ \A c \in Bids : lender'[c] \notin Contracts
               /\ \A c \in Bids : loanOwner'[c] \notin Contracts
    BY <1>1, <1>4, <1>7, OthersApart DEF ClaimLoanNFT
  <1>8. ASSUME NEW to \in Assignees, NEW b \in Bids, TransferLoanNFT(to, b)
        PROVE  /\ UNCHANGED <<bidId, bid, state, lender>>
               /\ \A c \in Bids : loanOwner'[c] \notin Contracts
    BY <1>1, <1>8, OthersApart DEF TransferLoanNFT
  <1>9. ASSUME PaymentStep
        PROVE  /\ UNCHANGED <<bidId, bid, lender, loanOwner>>
               /\ \A c \in Bids : state'[c] = "PENDING" => state[c] = "PENDING"
    <2>1. PICK payer \in Payers, b \in Bids, st \in {"ACCEPTED", "LIQUIDATED"},
               principal \in Nat, direct \in BOOLEAN : PaysBack(payer, b, st, principal, direct)
      BY <1>9, PaymentForm
    <2> QED
      BY <2>1, PaymentOutcome
  <1>10. ASSUME UNCHANGED loanVars
         PROVE  UNCHANGED <<bidId, bid, state, lender, loanOwner>>
    BY <1>10 DEF loanVars
  <1> QED
    BY <1>1, <1>2, <1>3, <1>4, <1>5, <1>6, <1>7, <1>8, <1>9, <1>10, StepForm

-----------------------------------------------------------------------------
(* How far a rollover has got *)

Submitted(t) == t.stage \in {"accept", "finish"} \/ (t.kind = "rollover" /\ t.stage = "repay")
Lent(t) == t.stage = "finish" \/ (t.kind = "rollover" /\ t.stage = "repay")
PaidBack(t) == t.stage = "finish" \/ (t.kind = "flash" /\ t.stage \in {"submit", "accept"})

Debtor(t) == t.saved.bid[t.loan].borrower
Backer(t) == Commitments[t.commitment].lender

\* No loan but the old one and the new one is touched, and those as far as the
\* transaction has got.
LoansOK(t, next, bids, st, lend) ==
    LET s == t.saved
        old == t.loan
        new == t.newLoan
    IN  /\ new = s.bidId /\ old < new /\ Debtor(t) \in Borrowers
        /\ \A b \in Bids : b # new => bids[b] = s.bid[b] /\ lend[b] = s.lender[b]
        /\ \A b \in Bids : b # old /\ b # new => st[b] = s.state[b]
        /\ st[old] = IF PaidBack(t) THEN "PAID" ELSE s.state[old]
        /\ PaidBack(t) => s.state[old] = "ACCEPTED"
        /\ \A b \in Bids : b = new => s.state[b] = "NONEXISTENT"
        /\ ~Submitted(t) => /\ next = new
                            /\ \A b \in Bids : b = new => bids[b] = s.bid[b] /\ st[b] = s.state[b]
        /\ Submitted(t) => /\ new \in Bids /\ next = new + 1
                           /\ st[new] = IF Lent(t) THEN "ACCEPTED" ELSE "PENDING"
                           /\ bids[new].borrower = Debtor(t) /\ bids[new].receiver = t.by
                           /\ bids[new].market = Commitments[t.commitment].market
                           /\ bids[new].principal = t.principal
                           /\ Lent(t) => lend[new] = Backer(t)

\* The old loan owes what it did until it is paid back.
DebtKept(t, paid, acc, last) ==
    ~PaidBack(t) => /\ paid[t.loan] = t.saved.repaidPrincipal[t.loan]
                    /\ acc[t.loan] = t.saved.accepted[t.loan]
                    /\ last[t.loan] = t.saved.lastRepaid[t.loan]

\* What the new loan brings, after fees.
Proceeds == CommitmentPrincipalReceived(tx.commitment, tx.principal)

\* The amounts the contract reckons with are those of the new loan and of the debt, but
\* for what the quote leaves out of it.
AmountsOK(t, owed, left, proceeds) ==
    /\ owed \in Nat /\ left \in {0, owed}
    /\ t.repaid = IF PaidBack(t) THEN owed ELSE 0
    /\ t.received = IF Lent(t) THEN proceeds ELSE 0
    /\ t.kind = "rollover" => /\ t.flashed = 0 /\ t.fee = 0
                              /\ t.before = t.saved.tokenBalance[t.by]
                              /\ t.quote = owed - left - proceeds
    /\ t.kind = "flash" => /\ t.flashed >= owed - left
                           /\ t.quote = owed - left + Percent(owed - left, PremiumPct) - proceeds

\* The contract holds what it was sent and lent on top of what it had; no token is
\* lost; and but for the debtor and whoever backs the new loan nobody has less than
\* before, the pool apart until the flash loan is back.
BalancesOK(t, bal, vault) ==
    LET s == t.saved IN
    /\ bal[t.by] = s.tokenBalance[t.by] + t.offered + t.flashed + t.received - t.repaid
    /\ \A p \in Contracts : /\ vault[p] = s.vaultBalances[p]
                            /\ p # t.by => bal[p] = s.tokenBalance[p]
    /\ Total(Worth(bal, vault), Accounts)
          = Total(Worth(s.tokenBalance, s.vaultBalances), Accounts)
    /\ \A p \in Accounts \ (Contracts \cup {Debtor(t), Backer(t)}) :
          bal[p] + vault[p] + (IF p = Pool THEN t.flashed ELSE 0)
             >= s.tokenBalance[p] + s.vaultBalances[p]

\* The debtor has spent what it offered.
OfferSpent(t, others, bal) ==
    Debtor(t) \notin others => bal[Debtor(t)] = t.saved.tokenBalance[Debtor(t)] - t.offered

RolloverProgress ==
    /\ LoansOK(tx, bidId, bid, state, lender)
    /\ DebtKept(tx, repaidPrincipal, accepted, lastRepaid)
    /\ AmountsOK(tx, OwedBefore, Uncounted, Proceeds)
    /\ BalancesOK(tx, tokenBalance, vaultBalances)
    /\ OfferSpent(tx, OtherParties, tokenBalance)

\* A running loan owes what it did, as long as nothing is paid.
LEMMA StillOwed ==
    ASSUME RolloverOK, LoansOK(tx, bidId, bid, state, lender),
           DebtKept(tx, repaidPrincipal, accepted, lastRepaid), ~PaidBack(tx),
           state[tx.loan] = "ACCEPTED"
    PROVE  OwedBefore = Debt(tx.loan)
  <1>1. tx.loan \in Bids /\ tx.loan # tx.newLoan
    <2>1. tx.loan \in Bids /\ tx.loan < tx.newLoan /\ tx.loan \in Int
      BY DEF RolloverOK, LoansOK, Bids
    <2> QED
      BY <2>1
  <1>2. bid[tx.loan] = tx.saved.bid[tx.loan] /\ state[tx.loan] = tx.saved.state[tx.loan]
    BY <1>1 DEF LoansOK
  <1> QED
    BY <1>1, <1>2 DEF DebtKept, OwedBefore, Debt, Owed, InterestOwed, LastRepaid

\* What is reckoned with at the beginning stays as it is.
LEMMA Steady ==
    ASSUME tx'.saved = tx.saved, tx'.loan = tx.loan, tx'.commitment = tx.commitment,
           tx'.principal = tx.principal, tx.loan \in Bids, lender'[tx.loan] = lender[tx.loan],
           UNCHANGED <<now, protocolFee, marketVars, loanOwner>>
    PROVE  /\ OwedBefore' = OwedBefore /\ Uncounted' = Uncounted
           /\ Proceeds' = Proceeds /\ OtherParties' = OtherParties
  <1>1. OwedBefore' = OwedBefore
    BY DEF OwedBefore
  <1>2. Uncounted' = Uncounted
    BY <1>1 DEF Uncounted
  <1>3. Proceeds' = Proceeds
    BY DEF Proceeds, CommitmentPrincipalReceived, marketVars
  <1>4. OtherParties' = OtherParties
    BY DEF OtherParties, LoanLender, GetMarketFeeRecipient, marketVars
  <1> QED
    BY <1>1, <1>2, <1>3, <1>4

\* In the state a rollover begins in.
LEMMA BeginLoans ==
    ASSUME ExtInv, ApartInv, NEW b \in Bids, bid[b].borrower \in Borrowers,
           tx'.saved = Committed, tx'.loan = b, tx'.newLoan = bidId,
           ~Submitted(tx'), ~PaidBack(tx'), OnlyTokensMove
    PROVE  /\ LoansOK(tx', bidId', bid', state', lender')
           /\ DebtKept(tx', repaidPrincipal', accepted', lastRepaid')
           /\ OwedBefore' \in Nat /\ Uncounted' \in {0, OwedBefore'}
           /\ OwedBefore' - Uncounted' = RepayFullAmount(b)
  <1>1. UNCHANGED <<bidId, bid, state, lender, repaidPrincipal, accepted, lastRepaid, now>>
    BY DEF OnlyTokensMove, loanVars
  <1>2. /\ tx'.saved.bidId = bidId /\ tx'.saved.bid = bid /\ tx'.saved.state = state
        /\ tx'.saved.lender = lender /\ tx'.saved.repaidPrincipal = repaidPrincipal
        /\ tx'.saved.accepted = accepted /\ tx'.saved.lastRepaid = lastRepaid
    BY DEF Committed
  <1>3. b < bidId
    <2>1. bidId \in Int /\ b \in Int
      BY DEF ExtInv, IInv, TypeOK, LoanTypeOK, Bids
    <2>2. b >= bidId => bid[b].borrower = NoAccount
      BY DEF ApartInv, PartiesApart
    <2>3. NoAccount \notin Borrowers
      BY LendNestAssumption, TypesAssumption
    <2> QED
      BY <2>1, <2>2, <2>3
  <1>4. \A c \in Bids : c = bidId => state[c] = "NONEXISTENT"
    BY DEF ExtInv, IInv, WellFormed, TypeOK, LoanTypeOK, Bids
  <1>5. LoansOK(tx', bidId', bid', state', lender')
    BY <1>1, <1>2, <1>3, <1>4 DEF LoansOK, Debtor
  <1>6. DebtKept(tx', repaidPrincipal', accepted', lastRepaid')
    BY <1>1, <1>2 DEF DebtKept
  <1>7. OwedBefore' = IF state[b] = "ACCEPTED" THEN Debt(b) ELSE 0
    BY <1>1, <1>2 DEF OwedBefore, Debt, Owed, InterestOwed, LastRepaid
  <1>8. Uncounted' = IF accepted[b] < now THEN 0 ELSE OwedBefore'
    BY <1>1, <1>2 DEF Uncounted
  <1>9. OwedBefore' \in Nat
    BY <1>7, OwedType DEF Debt, ExtInv
  <1>10. OwedBefore' - Uncounted' = RepayFullAmount(b)
    BY <1>7, <1>8, <1>9 DEF RepayFullAmount
  <1> QED
    BY <1>5, <1>6, <1>8, <1>9, <1>10

\* The new loan's proceeds as they are at the beginning of a rollover.
LEMMA BeginProceeds ==
    ASSUME OnlyTokensMove, NEW c \in DOMAIN Commitments, NEW principal,
           tx'.commitment = c, tx'.principal = principal
    PROVE  Proceeds' = CommitmentPrincipalReceived(c, principal)
  BY DEF Proceeds, CommitmentPrincipalReceived, OnlyTokensMove, marketVars, ownerVars

\* rolloverLoan, up to its first call.
LEMMA RolloverLoanBegins ==
    ASSUME ExtInv, ApartInv, NEW sender \in Borrowers, NEW b \in Bids,
           NEW c \in DOMAIN Commitments, NEW principal \in Nat, NEW offered \in Nat,
           RolloverLoan(sender, b, c, principal, offered)
    PROVE  RolloverProgress'
  <1> DEFINE by == CommitmentRollover
  <1>1. /\ sender \in Accounts /\ sender \notin Contracts /\ by \in Contracts
        /\ sender \in Holders /\ by \in Holders /\ by \in Accounts /\ Accounts \subseteq Holders
    BY OthersApart, LendNestAssumption, ExtensionAssumption DEF Contracts, Holders
  <1>2. tokenBalance \in [Holders -> Nat] /\ vaultBalances \in [Accounts -> Nat]
    BY DEF ExtInv, IInv, TypeOK, VaultTypeOK
  <1>3. /\ OnlyTokensMove /\ bid[b].borrower = sender /\ vaultBalances' = vaultBalances
        /\ tokenBalance' = Transfer(tokenBalance, sender, by, offered)
    BY DEF RolloverLoan, OnlyTokensMove
  <1>4. tx' = [kind |-> "rollover", stage |-> "submit", by |-> by, loan |-> b,
               newLoan |-> bidId, commitment |-> c, principal |-> principal, offered |-> offered,
               flashed |-> 0, fee |-> 0, before |-> tokenBalance[by],
               repaid |-> 0, received |-> 0,
               quote |-> CalculateRolloverAmount(b, c, principal), saved |-> Committed]
    BY DEF RolloverLoan
  <1>5. /\ tx'.kind = "rollover" /\ tx'.stage = "submit" /\ tx'.by = by /\ tx'.loan = b
        /\ tx'.newLoan = bidId /\ tx'.commitment = c /\ tx'.principal = principal
        /\ tx'.offered = offered /\ tx'.flashed = 0 /\ tx'.fee = 0
        /\ tx'.before = tokenBalance[by] /\ tx'.repaid = 0 /\ tx'.received = 0
        /\ tx'.quote = CalculateRolloverAmount(b, c, principal) /\ tx'.saved = Committed
    BY <1>4
  <1>6. ~Submitted(tx') /\ ~PaidBack(tx') /\ ~Lent(tx')
    BY <1>5 DEF Submitted, PaidBack, Lent
  <1>7. /\ LoansOK(tx', bidId', bid', state', lender')
        /\ DebtKept(tx', repaidPrincipal', accepted', lastRepaid')
        /\ OwedBefore' \in Nat /\ Uncounted' \in {0, OwedBefore'}
        /\ OwedBefore' - Uncounted' = RepayFullAmount(b)
    BY <1>3, <1>5, <1>6, BeginLoans
  <1>8. Proceeds' = CommitmentPrincipalReceived(c, principal)
    BY <1>3, <1>5, BeginProceeds
  <1>9. /\ tx'.saved.tokenBalance = tokenBalance /\ tx'.saved.vaultBalances = vaultBalances
        /\ tx'.saved.bid = bid
    BY <1>5 DEF Committed
  <1>10. AmountsOK(tx', OwedBefore', Uncounted', Proceeds')
    <2>1. RepayFullAmount(b) \in Nat
      BY QuoteType DEF ExtInv
    <2> QED
      BY <1>5, <1>6, <1>7, <1>8, <1>9, <2>1 DEF AmountsOK, CalculateRolloverAmount
  <1>11. \A p \in Accounts : tokenBalance'[p] = tokenBalance[p]
                                - (IF p = sender THEN offered ELSE 0) + (IF p = by THEN offered ELSE 0)
    BY <1>1, <1>2, <1>3 DEF Transfer
  <1> HIDE DEF by
  <1>12. BalancesOK(tx', tokenBalance', vaultBalances')
    <2>1. Total(Worth(tokenBalance', vaultBalances'), Accounts)
             = Total(Worth(tokenBalance, vaultBalances), Accounts)
      BY <1>1, <1>2, <1>3, TransferWorth
    <2>2. \A p \in Accounts : tokenBalance[p] \in Nat /\ vaultBalances[p] \in Nat
      BY <1>1, <1>2
    <2>3. tokenBalance'[by] = tokenBalance[by] + offered
      BY <1>1, <1>11, <2>2
    <2>4. \A p \in Contracts : p # by => tokenBalance'[p] = tokenBalance[p]
      BY <1>1, <1>11, <2>2, OthersApart
    <2>5. \A p \in Accounts \ (Contracts \cup {sender}) : tokenBalance'[p] = tokenBalance[p]
      BY <1>1, <1>11, <2>2
    <2>6. tokenBalance'[by] = tokenBalance[by] + offered + 0 + 0 - 0
      BY <1>1, <2>2, <2>3
    <2>7. \A p \in Accounts \ (Contracts \cup {sender}) :
             tokenBalance'[p] + vaultBalances[p] + (IF p = Pool THEN 0 ELSE 0)
                >= tokenBalance[p] + vaultBalances[p]
      BY <2>2, <2>5
    <2> QED
      BY <1>3, <1>5, <1>9, <2>1, <2>4, <2>6, <2>7 DEF BalancesOK, Debtor
  <1>13. OfferSpent(tx', OtherParties', tokenBalance')
    BY <1>1, <1>2, <1>3, <1>5, <1>9, <1>11 DEF OfferSpent, Debtor
  <1> QED
    BY <1>7, <1>10, <1>12, <1>13 DEF RolloverProgress

\* rolloverLoanWithFlash, up to executeOperation.
LEMMA RolloverLoanWithFlashBegins ==
    ASSUME ExtInv, ApartInv, NEW sender \in Borrowers, NEW b \in Bids,
           NEW c \in DOMAIN Commitments, NEW principal \in Nat, NEW flashed \in Nat,
           NEW offered \in Nat, flashed >= RepayFullAmount(b),
           RolloverLoanWithFlash(sender, b, c, principal, flashed, offered)
    PROVE  RolloverProgress'
  <1> DEFINE by == FlashRollover
             afterOffer == Transfer(tokenBalance, sender, by, offered)
  <1>1. /\ sender \in Accounts /\ sender \notin Contracts /\ by \in Contracts /\ Pool \in Accounts
        /\ sender \in Holders /\ by \in Holders /\ by \in Accounts /\ Accounts \subseteq Holders
        /\ Pool # sender /\ Pool \notin Contracts
    BY OthersApart, LendNestAssumption, ExtensionAssumption DEF Contracts, Holders
  <1>2. tokenBalance \in [Holders -> Nat] /\ vaultBalances \in [Accounts -> Nat]
    BY DEF ExtInv, IInv, TypeOK, VaultTypeOK
  <1>3. /\ OnlyTokensMove /\ bid[b].borrower = sender /\ vaultBalances' = vaultBalances
        /\ tokenBalance' = Transfer(afterOffer, Pool, by, flashed)
    BY DEF RolloverLoanWithFlash, OnlyTokensMove
  <1>4. PICK fee \in PoolFees(flashed) :
           tx' = [kind |-> "flash", stage |-> "repay", by |-> by, loan |-> b,
                 newLoan |-> bidId, commitment |-> c, principal |-> principal,
                 offered |-> offered, flashed |-> flashed, fee |-> fee, before |-> 0,
                 repaid |-> 0, received |-> 0,
                 quote |-> - CalculateFlashRolloverAmount(b, c, principal), saved |-> Committed]
    BY DEF RolloverLoanWithFlash
  <1>5. /\ tx'.kind = "flash" /\ tx'.stage = "repay" /\ tx'.by = by /\ tx'.loan = b
        /\ tx'.newLoan = bidId /\ tx'.commitment = c /\ tx'.principal = principal
        /\ tx'.offered = offered /\ tx'.flashed = flashed /\ tx'.repaid = 0 /\ tx'.received = 0
        /\ tx'.quote = - CalculateFlashRolloverAmount(b, c, principal) /\ tx'.saved = Committed
    BY <1>4
  <1>6. ~Submitted(tx') /\ ~PaidBack(tx') /\ ~Lent(tx')
    BY <1>5 DEF Submitted, PaidBack, Lent
  <1>7. /\ LoansOK(tx', bidId', bid', state', lender')
        /\ DebtKept(tx', repaidPrincipal', accepted', lastRepaid')
        /\ OwedBefore' \in Nat /\ Uncounted' \in {0, OwedBefore'}
        /\ OwedBefore' - Uncounted' = RepayFullAmount(b)
    BY <1>3, <1>5, <1>6, BeginLoans
  <1>8. Proceeds' = CommitmentPrincipalReceived(c, principal)
    BY <1>3, <1>5, BeginProceeds
  <1>9. /\ tx'.saved.tokenBalance = tokenBalance /\ tx'.saved.vaultBalances = vaultBalances
        /\ tx'.saved.bid = bid
    BY <1>5 DEF Committed
  <1>10. AmountsOK(tx', OwedBefore', Uncounted', Proceeds')
    <2>1. /\ RepayFullAmount(b) \in Nat /\ CommitmentPrincipalReceived(c, principal) \in Int
          /\ Percent(RepayFullAmount(b), PremiumPct) \in Nat
      BY QuoteType, PercentType, ExtensionAssumption DEF ExtInv
    <2>2. tx'.quote = RepayFullAmount(b) + Percent(RepayFullAmount(b), PremiumPct)
                         - CommitmentPrincipalReceived(c, principal)
      BY <1>5, <2>1 DEF CalculateFlashRolloverAmount
    <2> QED
      BY <1>5, <1>6, <1>7, <1>8, <2>1, <2>2 DEF AmountsOK
  <1> HIDE DEF afterOffer, by
  <1>11. /\ afterOffer \in [Holders -> Int]
         /\ \A p \in Accounts : afterOffer[p] = tokenBalance[p]
                                - (IF p = sender THEN offered ELSE 0) + (IF p = by THEN offered ELSE 0)
    BY <1>1, <1>2 DEF Transfer, afterOffer
  <1>12. \A p \in Accounts : tokenBalance'[p] = afterOffer[p]
                                - (IF p = Pool THEN flashed ELSE 0) + (IF p = by THEN flashed ELSE 0)
    BY <1>1, <1>3, <1>11 DEF Transfer
  <1>13. \A p \in Accounts : tokenBalance[p] \in Nat /\ vaultBalances[p] \in Nat
    BY <1>1, <1>2
  <1>14. BalancesOK(tx', tokenBalance', vaultBalances')
    <2>1. Total(Worth(tokenBalance', vaultBalances'), Accounts)
             = Total(Worth(tokenBalance, vaultBalances), Accounts)
      <3>1. Total(Worth(afterOffer, vaultBalances), Accounts)
               = Total(Worth(tokenBalance, vaultBalances), Accounts)
        BY <1>1, <1>2, TransferWorth DEF afterOffer
      <3>2. Total(Worth(tokenBalance', vaultBalances), Accounts)
               = Total(Worth(afterOffer, vaultBalances), Accounts)
        BY <1>1, <1>2, <1>3, <1>11, TransferWorth
      <3> QED
        BY <1>3, <3>1, <3>2
    <2>3. tokenBalance'[by] = tokenBalance[by] + offered + flashed
      BY <1>1, <1>11, <1>12, <1>13
    <2>4. \A p \in Contracts : p # by => tokenBalance'[p] = tokenBalance[p]
      BY <1>1, <1>11, <1>12, <1>13, OthersApart
    <2>5. \A p \in Accounts \ (Contracts \cup {sender}) :
             tokenBalance'[p] = tokenBalance[p] - (IF p = Pool THEN flashed ELSE 0)
      BY <1>1, <1>11, <1>12, <1>13
    <2>6. tokenBalance'[by] = tokenBalance[by] + offered + flashed + 0 - 0
      BY <1>1, <1>13, <2>3
    <2>7. \A p \in Accounts \ (Contracts \cup {sender}) :
             tokenBalance'[p] + vaultBalances[p] + (IF p = Pool THEN flashed ELSE 0)
                >= tokenBalance[p] + vaultBalances[p]
      BY <1>13, <2>5
    <2> QED
      BY <1>3, <1>5, <1>9, <2>1, <2>4, <2>6, <2>7 DEF BalancesOK, Debtor
  <1>15. OfferSpent(tx', OtherParties', tokenBalance')
    BY <1>1, <1>3, <1>5, <1>9, <1>11, <1>12, <1>13 DEF OfferSpent, Debtor
  <1> QED
    BY <1>7, <1>10, <1>14, <1>15 DEF RolloverProgress

-----------------------------------------------------------------------------
(* The calls of a rollover *)

\* Every account but the lender's is left alone by a payment of somebody else's.
LEMMA PaymentElsewhere ==
    ASSUME IInv, NEW payer \in Accounts, NEW b \in Bids, NEW amount \in Nat,
           NEW direct \in BOOLEAN, SendOrEscrowFunds(payer, b, amount, direct),
           NEW p \in Accounts, p # LoanLender(b)
    PROVE  /\ tokenBalance'[p] = tokenBalance[p] - (IF p = payer THEN amount ELSE 0)
           /\ vaultBalances'[p] = vaultBalances[p]
  <1> DEFINE paid == Transfer(tokenBalance, payer, Self, amount)
  <1>1. /\ tokenBalance \in [Holders -> Nat] /\ vaultBalances \in [Accounts -> Nat]
        /\ p \in Holders /\ p # Self /\ p # Vault
    BY LendNestAssumption DEF IInv, TypeOK, VaultTypeOK, Holders
  <1>2. CASE direct
    <2>1. /\ tokenBalance' = Transfer(tokenBalance, payer, LoanLender(b), amount)
          /\ vaultBalances' = vaultBalances
      BY <1>2 DEF SendOrEscrowFunds
    <2> QED
      BY <1>1, <2>1 DEF Transfer
  <1>3. CASE ~direct
    <2>1. /\ tokenBalance' = Transfer(paid, Self, Vault, amount)
          /\ vaultBalances' = [vaultBalances EXCEPT ![LoanLender(b)] = @ + amount]
      BY <1>3 DEF SendOrEscrowFunds, VaultDeposit, CreditAfterDeposit
    <2> QED
      BY <1>1, <2>1 DEF Transfer
  <1> QED
    BY <1>2, <1>3

\* One of the contracts pays a loan: nobody else loses, and no token is lost.
LEMMA ContractPays ==
    ASSUME IInv, IInv', OwnersApart, PartiesApart(bidId, bid, lender), NEW by \in Contracts,
           NEW b \in Bids, state[b] = "ACCEPTED", NEW amount \in Nat, NEW direct \in BOOLEAN,
           SendOrEscrowFunds(by, b, amount, direct)
    PROVE  /\ tokenBalance'[by] = tokenBalance[by] - amount
           /\ \A p \in Contracts : /\ vaultBalances'[p] = vaultBalances[p]
                                   /\ p # by => tokenBalance'[p] = tokenBalance[p]
           /\ Total(Worth(tokenBalance', vaultBalances'), Accounts)
                 = Total(Worth(tokenBalance, vaultBalances), Accounts)
           /\ \A p \in Accounts \ Contracts :
                 tokenBalance'[p] + vaultBalances'[p] >= tokenBalance[p] + vaultBalances[p]
           /\ \A p \in Accounts \ {by, LoanLender(b)} : tokenBalance'[p] = tokenBalance[p]
  <1>1. by \in Accounts /\ LoanLender(b) \notin Contracts /\ Contracts \subseteq Accounts
    BY OthersApart DEF OwnersApart, PartiesApart, LoanLender
  <1>2. \A p \in Accounts : /\ tokenBalance[p] \in Nat /\ vaultBalances[p] \in Nat
                            /\ tokenBalance'[p] \in Nat /\ vaultBalances'[p] \in Nat
    BY DEF IInv, TypeOK, VaultTypeOK, Holders
  <1>3. \A p \in Accounts \ {LoanLender(b)} :
           /\ tokenBalance'[p] = tokenBalance[p] - (IF p = by THEN amount ELSE 0)
           /\ vaultBalances'[p] = vaultBalances[p]
    BY <1>1, PaymentElsewhere
  <1>4. /\ Total(Worth(tokenBalance', vaultBalances'), Accounts)
              = Total(Worth(tokenBalance, vaultBalances), Accounts)
        /\ MovedBy(Worth(tokenBalance, vaultBalances), Worth(tokenBalance', vaultBalances'),
                   by, LoanLender(b), amount)
    BY <1>1, PaymentWorth
  <1>5. \A p \in Accounts :
           tokenBalance'[p] + vaultBalances'[p]
              = tokenBalance[p] + vaultBalances[p] - (IF p = by THEN amount ELSE 0)
                   + (IF p = LoanLender(b) THEN amount ELSE 0)
    <2> DEFINE f == Worth(tokenBalance, vaultBalances)
               g == Worth(tokenBalance', vaultBalances')
    <2>1. \A p \in Accounts : /\ f[p] = tokenBalance[p] + vaultBalances[p]
                              /\ g[p] = tokenBalance'[p] + vaultBalances'[p]
      BY DEF Worth
    <2>2. MovedBy(f, g, by, LoanLender(b), amount)
      BY <1>4
    <2> HIDE DEF f, g
    <2>3. \A p \in Accounts : g[p] = f[p] - (IF p = by THEN amount ELSE 0)
                                          + (IF p = LoanLender(b) THEN amount ELSE 0)
      BY <2>2 DEF MovedBy
    <2> QED
      BY <1>2, <2>1, <2>3
  <1> QED
    BY <1>1, <1>2, <1>3, <1>4, <1>5

\* A transaction's terms stay what they were agreed to be.
SameTerms ==
    /\ tx'.kind = tx.kind /\ tx'.by = tx.by /\ tx'.loan = tx.loan /\ tx'.newLoan = tx.newLoan
    /\ tx'.commitment = tx.commitment /\ tx'.principal = tx.principal
    /\ tx'.offered = tx.offered /\ tx'.flashed = tx.flashed /\ tx'.fee = tx.fee
    /\ tx'.before = tx.before /\ tx'.quote = tx.quote /\ tx'.saved = tx.saved

\* Saved balances are numbers of tokens.
LEMMA SavedBalances ==
    ASSUME ExtInv, tx # NoTx, NEW p \in Accounts
    PROVE  tx.saved.tokenBalance[p] \in Nat /\ tx.saved.vaultBalances[p] \in Nat
  <1>1. Saved!VaultTypeOK
    BY DEF ExtInv, SavedOK, SavedIInv, Saved!TypeOK
  <1> QED
    BY <1>1, SavedSame DEF Saved!VaultTypeOK, Holders

\* A call that changes what the contract holds by what it books, and takes from none
\* but the contract and whoever backs the new loan.
LEMMA BalancesFollow ==
    ASSUME ExtInv, ExtInv', RolloverOK, RolloverOK', SameTerms,
           BalancesOK(tx, tokenBalance, vaultBalances),
           tokenBalance'[tx.by] = tokenBalance[tx.by] + (tx'.received - tx.received)
                                                      - (tx'.repaid - tx.repaid),
           \A p \in Contracts : /\ vaultBalances'[p] = vaultBalances[p]
                                /\ p # tx.by => tokenBalance'[p] = tokenBalance[p],
           Total(Worth(tokenBalance', vaultBalances'), Accounts)
              = Total(Worth(tokenBalance, vaultBalances), Accounts),
           \A p \in Accounts \ (Contracts \cup {Backer(tx)}) :
              tokenBalance'[p] + vaultBalances'[p] >= tokenBalance[p] + vaultBalances[p]
    PROVE  BalancesOK(tx', tokenBalance', vaultBalances')
  <1> DEFINE s == tx.saved
  <1>1. /\ tx # NoTx /\ tx.by \in Contracts /\ tx.offered \in Nat /\ tx.flashed \in Nat
        /\ tx.received \in Int /\ tx.repaid \in Int /\ tx'.received \in Int /\ tx'.repaid \in Int
    BY DEF RolloverOK, NoTx
  <1>2. \A p \in Accounts : /\ tokenBalance[p] \in Nat /\ vaultBalances[p] \in Nat
                            /\ tokenBalance'[p] \in Nat /\ vaultBalances'[p] \in Nat
                            /\ s.tokenBalance[p] \in Nat /\ s.vaultBalances[p] \in Nat
    BY <1>1, SavedBalances DEF ExtInv, IInv, TypeOK, VaultTypeOK, Holders
  <1>3. tx.by \in Accounts
    BY <1>1, OthersApart
  <1>4. /\ tokenBalance[tx.by] = s.tokenBalance[tx.by] + tx.offered + tx.flashed + tx.received
                                   - tx.repaid
        /\ \A p \in Contracts : /\ vaultBalances[p] = s.vaultBalances[p]
                                /\ p # tx.by => tokenBalance[p] = s.tokenBalance[p]
        /\ Total(Worth(tokenBalance, vaultBalances), Accounts)
              = Total(Worth(s.tokenBalance, s.vaultBalances), Accounts)
        /\ \A p \in Accounts \ (Contracts \cup {Debtor(tx), Backer(tx)}) :
              tokenBalance[p] + vaultBalances[p] + (IF p = Pool THEN tx.flashed ELSE 0)
                 >= s.tokenBalance[p] + s.vaultBalances[p]
    BY DEF BalancesOK
  <1>5. Debtor(tx') = Debtor(tx) /\ Backer(tx') = Backer(tx)
    BY DEF SameTerms, Debtor, Backer
  <1>6. tokenBalance'[tx.by] = s.tokenBalance[tx.by] + tx.offered + tx.flashed + tx'.received
                                  - tx'.repaid
    BY <1>1, <1>2, <1>3, <1>4
  <1>7. \A p \in Contracts : /\ vaultBalances'[p] = s.vaultBalances[p]
                             /\ p # tx.by => tokenBalance'[p] = s.tokenBalance[p]
    BY <1>4
  <1>8. Total(Worth(tokenBalance', vaultBalances'), Accounts)
           = Total(Worth(s.tokenBalance, s.vaultBalances), Accounts)
    BY <1>4
  <1>9. \A p \in Accounts \ (Contracts \cup {Debtor(tx), Backer(tx)}) :
           tokenBalance'[p] + vaultBalances'[p] + (IF p = Pool THEN tx.flashed ELSE 0)
              >= s.tokenBalance[p] + s.vaultBalances[p]
    BY <1>1, <1>2, <1>4
  <1>10. /\ tx'.saved = s /\ tx'.by = tx.by /\ tx'.offered = tx.offered /\ tx'.flashed = tx.flashed
    BY DEF SameTerms
  <1> HIDE DEF s
  <1> QED
    BY <1>5, <1>6, <1>7, <1>8, <1>9, <1>10 DEF BalancesOK

\* The old loan is paid back.
LEMMA RepayStepProgress ==
    ASSUME ExtInv, ExtInv', ApartInv, RolloverOK, RolloverProgress,
           NEW direct \in TransferOutcomes, RepayStep(direct)
    PROVE  RolloverProgress'
  <1> DEFINE by == tx.by
             b  == tx.loan
             amount == Debt(b)
  <1>1. /\ tx.kind \in {"rollover", "flash"} /\ tx.stage = "repay" /\ IInv /\ IInv'
        /\ by \in Contracts /\ b \in Bids /\ direct \in BOOLEAN
        /\ RepayLoanFull(by, b, TRUE, direct)
    BY LendNestAssumption DEF RepayStep, RolloverOK, ExtInv
  <1>2. /\ SameTerms /\ tx'.repaid = tokenBalance[by] - tokenBalance'[by]
        /\ tx'.received = tx.received
        /\ tx'.stage = IF tx.kind = "flash" THEN "submit" ELSE "finish"
    BY DEF RepayStep, RolloverOK, RolloverFields, SameTerms
  <1>3. ~PaidBack(tx) /\ PaidBack(tx')
    BY <1>1, <1>2 DEF PaidBack, SameTerms
  <1>4. IF tx.kind = "rollover" THEN Submitted(tx) /\ Submitted(tx') /\ Lent(tx) /\ Lent(tx')
        ELSE ~Submitted(tx) /\ ~Submitted(tx') /\ ~Lent(tx) /\ ~Lent(tx')
    BY <1>1, <1>2 DEF Submitted, Lent, SameTerms
  <1>5. /\ Owed(b) \in Nat /\ InterestOwed(b) \in Nat /\ amount = Owed(b) + InterestOwed(b)
        /\ state[b] = "ACCEPTED" /\ PaysBack(by, b, "ACCEPTED", Owed(b), direct)
    BY <1>1, FullPaysBack, OwedType DEF RepayLoanFull, Debt
  <1>6. IsSettled(b, Owed(b), InterestOwed(b))
    BY <1>5 DEF IsSettled
  <1>7. /\ SendOrEscrowFunds(by, b, amount, direct)
        /\ UNCHANGED <<protocolFee, marketVars>>
    BY <1>5, <1>6 DEF PaysBack, RepayLoan_, AmountTaken, ownerVars
  <1>8. /\ state'[b] = "PAID" /\ \A c \in Bids \ {b} : state'[c] = state[c]
        /\ UNCHANGED <<bidId, bid, lender, loanOwner, accepted, now>>
    BY <1>1, <1>5, <1>6, PaymentOutcome
  <1>9. /\ LoansOK(tx, bidId, bid, state, lender)
        /\ DebtKept(tx, repaidPrincipal, accepted, lastRepaid)
        /\ AmountsOK(tx, OwedBefore, Uncounted, Proceeds) /\ BalancesOK(tx, tokenBalance, vaultBalances)
        /\ OfferSpent(tx, OtherParties, tokenBalance)
        /\ OwnersApart /\ PartiesApart(bidId, bid, lender)
    BY DEF RolloverProgress, ApartInv
  <1>10. OwedBefore = amount
    BY <1>3, <1>5, <1>9, StillOwed
  <1>11. /\ OwedBefore' = OwedBefore /\ Uncounted' = Uncounted
         /\ Proceeds' = Proceeds /\ OtherParties' = OtherParties
    BY <1>1, <1>2, <1>7, <1>8, Steady DEF SameTerms
  <1>12. amount \in Nat
    BY <1>5
  <1> HIDE DEF amount, by, b
  <1>13. /\ tokenBalance'[by] = tokenBalance[by] - amount
         /\ \A p \in Contracts : /\ vaultBalances'[p] = vaultBalances[p]
                                 /\ p # by => tokenBalance'[p] = tokenBalance[p]
         /\ Total(Worth(tokenBalance', vaultBalances'), Accounts)
               = Total(Worth(tokenBalance, vaultBalances), Accounts)
         /\ \A p \in Accounts \ Contracts :
               tokenBalance'[p] + vaultBalances'[p] >= tokenBalance[p] + vaultBalances[p]
         /\ \A p \in Accounts \ {by, LoanLender(b)} : tokenBalance'[p] = tokenBalance[p]
    BY <1>1, <1>5, <1>7, <1>9, <1>12, ContractPays
  <1>14. \A p \in Accounts : /\ tokenBalance[p] \in Nat /\ vaultBalances[p] \in Nat
                            /\ tokenBalance'[p] \in Nat /\ vaultBalances'[p] \in Nat
    BY <1>1 DEF IInv, TypeOK, VaultTypeOK, Holders
  <1>15. LoansOK(tx', bidId', bid', state', lender')
    <2>1. b # tx.newLoan /\ tx.newLoan \in Int
      BY <1>1, <1>9 DEF LoansOK, b, Bids, IInv, TypeOK, LoanTypeOK
    <2> QED
      BY <1>1, <1>2, <1>3, <1>4, <1>5, <1>8, <1>9, <2>1 DEF LoansOK, SameTerms, Debtor, Backer, b
  <1>16. DebtKept(tx', repaidPrincipal', accepted', lastRepaid')
    BY <1>3 DEF DebtKept
  <1>17. tx'.repaid = amount
    BY <1>1, <1>2, <1>12, <1>13, <1>14, OthersApart
  <1>18. AmountsOK(tx', OwedBefore', Uncounted', Proceeds')
    BY <1>2, <1>3, <1>4, <1>9, <1>10, <1>11, <1>17, <1>1 DEF AmountsOK, SameTerms, by
  <1>19. BalancesOK(tx', tokenBalance', vaultBalances')
    <2>1. tx.repaid = 0 /\ tx'.received = tx.received /\ tx.received \in Int
      BY <1>2, <1>3, <1>9 DEF AmountsOK, RolloverOK
    <2>2. tokenBalance'[by] = tokenBalance[by] + (tx'.received - tx.received)
                                 - (tx'.repaid - tx.repaid)
      BY <1>1, <1>12, <1>13, <1>14, <1>17, <2>1, OthersApart
    <2>3. RolloverOK'
      BY <1>2 DEF ExtInv, RolloverOK, SameTerms, AutopayOK, NoTx
    <2> QED
      BY <1>2, <1>9, <1>13, <2>2, <2>3, BalancesFollow DEF by
  <1>20. OfferSpent(tx', OtherParties', tokenBalance')
    <2>1. /\ Debtor(tx') = Debtor(tx) /\ Debtor(tx) \in Borrowers /\ tx'.offered = tx.offered
          /\ tx'.saved = tx.saved
      BY <1>2, <1>9 DEF SameTerms, Debtor, LoansOK
    <2>2. Debtor(tx) \in Accounts /\ Debtor(tx) # by
      BY <1>1, <2>1, OthersApart, LendNestAssumption
    <2>3. LoanLender(b) \in OtherParties
      BY DEF OtherParties, b
    <2> QED
      BY <1>9, <1>11, <1>13, <2>1, <2>2, <2>3 DEF OfferSpent
  <1> QED
    BY <1>15, <1>16, <1>18, <1>19, <1>20 DEF RolloverProgress

\* The new bid is submitted in the name of the debtor, to be paid out to the contract.
LEMMA SubmitStepProgress ==
    ASSUME ExtInv, ExtInv', ApartInv, RolloverOK, RolloverProgress, SubmitStep
    PROVE  RolloverProgress'
  <1> DEFINE new == tx.newLoan
             c   == Commitments[tx.commitment]
  <1>1. /\ tx.kind \in {"rollover", "flash"} /\ tx.stage = "submit" /\ IInv /\ tx # NoTx
        /\ tx.by \in Contracts /\ tx.loan \in Bids /\ new = bidId
        /\ SubmitBid(bid[tx.loan].borrower, tx.by, c.market, tx.principal, c.duration, c.rate,
                     c.collateral)
    BY DEF SubmitStep, RolloverOK, ExtInv, NoTx
  <1>2. /\ SameTerms /\ tx'.repaid = tx.repaid /\ tx'.received = tx.received
        /\ tx'.stage = "accept"
    BY DEF SubmitStep, RolloverOK, RolloverFields, SameTerms
  <1>3. /\ ~Submitted(tx) /\ Submitted(tx') /\ ~Lent(tx) /\ ~Lent(tx')
        /\ IF tx.kind = "flash" THEN PaidBack(tx) /\ PaidBack(tx') ELSE ~PaidBack(tx) /\ ~PaidBack(tx')
    BY <1>1, <1>2 DEF Submitted, Lent, PaidBack, SameTerms
  <1>4. /\ LoansOK(tx, bidId, bid, state, lender)
        /\ DebtKept(tx, repaidPrincipal, accepted, lastRepaid)
        /\ AmountsOK(tx, OwedBefore, Uncounted, Proceeds) /\ BalancesOK(tx, tokenBalance, vaultBalances)
        /\ OfferSpent(tx, OtherParties, tokenBalance)
    BY DEF RolloverProgress
  <1>5. new \in Bids /\ new \in Int /\ tx.loan # new
    BY <1>1, <1>4, FreshBid DEF LoansOK, Bids, SubmitBid
  <1>6. /\ bid' = [bid EXCEPT ![new] = NewBid(bid[tx.loan].borrower, tx.by, c.market, tx.principal,
                                              c.duration, c.rate)]
        /\ state' = [state EXCEPT ![new] = "PENDING"]
        /\ bidId' = bidId + 1
        /\ UNCHANGED <<lender, loanOwner, accepted, lastRepaid, repaidPrincipal, tokenBalance,
                       vaultBalances, now, protocolFee, marketVars>>
    BY <1>1 DEF SubmitBid, vaultVars, ownerVars
  <1>7. /\ \A b \in Bids \ {new} : bid'[b] = bid[b] /\ state'[b] = state[b]
        /\ bid'[new].borrower = bid[tx.loan].borrower /\ bid'[new].receiver = tx.by
        /\ bid'[new].market = c.market /\ bid'[new].principal = tx.principal
        /\ state'[new] = "PENDING"
    <2>1. bid \in [Bids -> BidType] /\ state \in [Bids -> BidState] /\ tx.by # NoAccount
      BY <1>1, OthersApart DEF IInv, TypeOK, LoanTypeOK
    <2> QED
      BY <1>5, <1>6, <2>1 DEF NewBid
  <1>8. /\ OwedBefore' = OwedBefore /\ Uncounted' = Uncounted
         /\ Proceeds' = Proceeds /\ OtherParties' = OtherParties
    BY <1>1, <1>2, <1>6, Steady DEF SameTerms
  <1>9. LoansOK(tx', bidId', bid', state', lender')
    <2>1. bid[tx.loan].borrower = Debtor(tx)
      BY <1>1, <1>4, <1>5 DEF LoansOK, Debtor
    <2>2. /\ tx'.newLoan = new /\ tx'.loan = tx.loan /\ tx'.saved = tx.saved /\ tx'.by = tx.by
          /\ tx'.commitment = tx.commitment /\ tx'.principal = tx.principal
          /\ Debtor(tx') = Debtor(tx)
      BY <1>2 DEF SameTerms, Debtor
    <2>3. /\ new = tx.saved.bidId /\ tx.loan < new /\ Debtor(tx) \in Borrowers
          /\ \A b \in Bids : b = new => tx.saved.state[b] = "NONEXISTENT"
          /\ state[tx.loan] = (IF PaidBack(tx) THEN "PAID" ELSE tx.saved.state[tx.loan])
          /\ PaidBack(tx) => tx.saved.state[tx.loan] = "ACCEPTED"
      BY <1>4 DEF LoansOK
    <2>4. \A b \in Bids : b # new => /\ bid'[b] = tx.saved.bid[b] /\ lender'[b] = tx.saved.lender[b]
                                     /\ b # tx.loan => state'[b] = tx.saved.state[b]
      BY <1>4, <1>6, <1>7 DEF LoansOK
    <2>5. /\ state'[tx.loan] = (IF PaidBack(tx') THEN "PAID" ELSE tx.saved.state[tx.loan])
          /\ PaidBack(tx') => tx.saved.state[tx.loan] = "ACCEPTED"
      BY <1>1, <1>3, <1>5, <1>7, <2>3
    <2>6. /\ new \in Bids /\ bidId' = new + 1 /\ state'[new] = (IF Lent(tx') THEN "ACCEPTED" ELSE "PENDING")
          /\ bid'[new].borrower = Debtor(tx) /\ bid'[new].receiver = tx.by
          /\ bid'[new].market = Commitments[tx.commitment].market
          /\ bid'[new].principal = tx.principal
      BY <1>1, <1>3, <1>5, <1>6, <1>7, <2>1
    <2> HIDE DEF new
    <2> QED
      BY <1>3, <2>2, <2>3, <2>4, <2>5, <2>6 DEF LoansOK
  <1>10. DebtKept(tx', repaidPrincipal', accepted', lastRepaid')
    BY <1>1, <1>2, <1>3, <1>4, <1>6 DEF DebtKept, SameTerms
  <1>11. AmountsOK(tx', OwedBefore', Uncounted', Proceeds')
    BY <1>1, <1>2, <1>3, <1>4, <1>8 DEF AmountsOK, SameTerms
  <1>12. BalancesOK(tx', tokenBalance', vaultBalances')
    BY <1>2, <1>4, <1>6 DEF BalancesOK, SameTerms, Debtor, Backer
  <1>13. OfferSpent(tx', OtherParties', tokenBalance')
    BY <1>2, <1>4, <1>6, <1>8 DEF OfferSpent, SameTerms, Debtor
  <1> QED
    BY <1>9, <1>10, <1>11, <1>12, <1>13 DEF RolloverProgress

\* It is accepted in the name of the lender who committed.
LEMMA AcceptStepProgress ==
    ASSUME ExtInv, ExtInv', ApartInv, RolloverOK, RolloverOK', RolloverProgress, AcceptStep
    PROVE  RolloverProgress'
  <1> DEFINE new    == tx.newLoan
             by     == tx.by
             backer == Backer(tx)
             toP    == AmountToProtocol(new)
             toM    == AmountToMarketplace(new)
             toB    == AmountToBorrower(new)
             owner  == GetMarketFeeRecipient(bid[new].market)
  <1>1. /\ tx.kind \in {"rollover", "flash"} /\ tx.stage = "accept" /\ IInv /\ IInv' /\ tx # NoTx
        /\ by \in Contracts /\ tx.loan \in Bids /\ new \in Bids
        /\ tx.commitment \in DOMAIN Commitments /\ LenderAcceptBid(backer, new)
    BY DEF AcceptStep, RolloverOK, ExtInv, NoTx, Backer
  <1>2. /\ SameTerms /\ tx'.repaid = tx.repaid /\ tx'.received = tokenBalance'[by] - tokenBalance[by]
        /\ tx'.stage = IF tx.kind = "flash" THEN "finish" ELSE "repay"
    BY DEF AcceptStep, RolloverOK, RolloverFields, SameTerms
  <1>3. /\ Submitted(tx) /\ Submitted(tx') /\ ~Lent(tx) /\ Lent(tx')
        /\ IF tx.kind = "flash" THEN PaidBack(tx) /\ PaidBack(tx') ELSE ~PaidBack(tx) /\ ~PaidBack(tx')
    BY <1>1, <1>2 DEF Submitted, Lent, PaidBack, SameTerms
  <1>4. /\ LoansOK(tx, bidId, bid, state, lender)
        /\ DebtKept(tx, repaidPrincipal, accepted, lastRepaid)
        /\ AmountsOK(tx, OwedBefore, Uncounted, Proceeds) /\ BalancesOK(tx, tokenBalance, vaultBalances)
        /\ OfferSpent(tx, OtherParties, tokenBalance) /\ OwnersApart
    BY DEF RolloverProgress, ApartInv
  <1>5. tx.loan # new
    BY <1>1, <1>4 DEF LoansOK, Bids
  <1>6. /\ state' = [state EXCEPT ![new] = "ACCEPTED"]
        /\ lender' = [lender EXCEPT ![new] = backer]
        /\ accepted' = [accepted EXCEPT ![new] = now]
        /\ lastRepaid' = [lastRepaid EXCEPT ![new] = now]
        /\ UNCHANGED <<bidId, bid, loanOwner, repaidPrincipal, now, protocolFee, marketVars>>
    BY <1>1 DEF LenderAcceptBid, ownerVars
  <1>7. /\ \A b \in Bids \ {new} : /\ state'[b] = state[b] /\ lender'[b] = lender[b]
                                  /\ accepted'[b] = accepted[b] /\ lastRepaid'[b] = lastRepaid[b]
        /\ state'[new] = "ACCEPTED" /\ lender'[new] = Backer(tx)
    BY <1>1, <1>6 DEF IInv, TypeOK, LoanTypeOK
  <1>8. /\ OwedBefore' = OwedBefore /\ Uncounted' = Uncounted
         /\ Proceeds' = Proceeds /\ OtherParties' = OtherParties
    BY <1>1, <1>2, <1>5, <1>6, <1>7, Steady DEF SameTerms
  <1>9. /\ bid[new].receiver = by /\ bid[new].market = Commitments[tx.commitment].market
        /\ bid[new].principal = tx.principal
    BY <1>3, <1>4 DEF LoansOK
  <1>10. toB = Proceeds
    <2>1. toP \in Nat /\ toM \in Nat /\ tx.principal \in Nat
      BY <1>1, FeesType DEF LenderAcceptBid, RolloverOK
    <2>2. /\ toP = Percent(tx.principal, protocolFee)
          /\ toM = Percent(tx.principal, markets[Commitments[tx.commitment].market].feePercent)
          /\ toB = tx.principal - toP - toM
      BY <1>9 DEF AmountToBorrower, AmountToProtocol, AmountToMarketplace
    <2>3. Proceeds = tx.principal - toM - toP
      BY <2>2 DEF Proceeds, CommitmentPrincipalReceived
    <2> HIDE DEF toP, toM, toB
    <2> QED
      BY <2>1, <2>2, <2>3
  <1>11. /\ backer \in Accounts /\ backer \notin Contracts /\ ProtocolOwner \notin Contracts
         /\ owner \notin Contracts /\ by \in Accounts /\ Contracts \subseteq Accounts
    <2>1. Commitments[tx.commitment].market \in Markets
      BY <1>1, CommitmentsAssumption
    <2> QED
      BY <1>1, <1>4, <1>9, <2>1, OthersApart, CommitmentsAssumption DEF Backer, OwnersApart,
         GetMarketFeeRecipient
  <1>12. {backer, ProtocolOwner, owner} \subseteq OtherParties
    BY <1>9 DEF OtherParties, Backer
  <1> HIDE DEF backer, toP, toM, toB, owner
  <1>13. /\ toP \in Nat /\ toM \in Nat /\ toB \in Nat /\ UNCHANGED vaultBalances
         /\ \A p \in Accounts :
               tokenBalance'[p] = tokenBalance[p] - (IF p = backer THEN toP + toM + toB ELSE 0)
                    + (IF p = ProtocolOwner THEN toP ELSE 0)
                    + (IF p = owner THEN toM ELSE 0)
                    + (IF p = bid[new].receiver THEN toB ELSE 0)
         /\ Total(Worth(tokenBalance', vaultBalances'), Accounts)
               = Total(Worth(tokenBalance, vaultBalances), Accounts)
    <2>1. LenderAcceptBid(backer, new) /\ backer \in Accounts /\ new \in Bids /\ IInv
      BY <1>1, <1>11
    <2> HIDE DEF new
    <2> QED
      BY <2>1, AcceptMoves DEF toP, toM, toB, owner
  <1>14. \A p \in Accounts : /\ tokenBalance[p] \in Nat /\ vaultBalances[p] \in Nat
                             /\ tokenBalance'[p] \in Nat /\ vaultBalances'[p] \in Nat
    BY <1>1 DEF IInv, TypeOK, VaultTypeOK, Holders
  <1>15. tokenBalance'[by] = tokenBalance[by] + toB
    <2> HIDE DEF by
    <2> QED
      BY <1>1, <1>9, <1>11, <1>13, <1>14
  <1>16. \A p \in Accounts : p # backer /\ p # ProtocolOwner /\ p # owner /\ p # by =>
            tokenBalance'[p] = tokenBalance[p]
    <2> HIDE DEF by
    <2> QED
      BY <1>9, <1>13, <1>14
  <1>17. \A p \in Accounts : p # backer => tokenBalance'[p] >= tokenBalance[p]
    <2> HIDE DEF by
    <2> QED
      BY <1>9, <1>13, <1>14
  <1>18. tx.received = 0 /\ tx'.received = toB /\ tx.repaid \in Int
    <2>1. tokenBalance'[by] - tokenBalance[by] = toB
      BY <1>11, <1>13, <1>14, <1>15
    <2> QED
      BY <1>2, <1>3, <1>4, <2>1 DEF AmountsOK, RolloverOK
  <1>19. LoansOK(tx', bidId', bid', state', lender')
    BY <1>1, <1>2, <1>3, <1>4, <1>5, <1>6, <1>7 DEF LoansOK, SameTerms, Debtor, Backer
  <1>20. DebtKept(tx', repaidPrincipal', accepted', lastRepaid')
    BY <1>1, <1>2, <1>3, <1>4, <1>5, <1>6, <1>7 DEF DebtKept, SameTerms
  <1>21. AmountsOK(tx', OwedBefore', Uncounted', Proceeds')
    BY <1>1, <1>2, <1>3, <1>4, <1>8, <1>10, <1>18 DEF AmountsOK, SameTerms
  <1>22. BalancesOK(tx', tokenBalance', vaultBalances')
    <2>1. tokenBalance'[tx.by] = tokenBalance[tx.by] + (tx'.received - tx.received)
                                    - (tx'.repaid - tx.repaid)
      BY <1>2, <1>11, <1>13, <1>14, <1>15, <1>18
    <2>2. \A p \in Contracts : /\ vaultBalances'[p] = vaultBalances[p]
                               /\ p # tx.by => tokenBalance'[p] = tokenBalance[p]
      BY <1>11, <1>13, <1>16
    <2>3. \A p \in Accounts \ (Contracts \cup {Backer(tx)}) :
             tokenBalance'[p] + vaultBalances'[p] >= tokenBalance[p] + vaultBalances[p]
      BY <1>13, <1>14, <1>17 DEF backer
    <2> QED
      BY <1>2, <1>4, <1>13, <2>1, <2>2, <2>3, BalancesFollow
  <1>23. OfferSpent(tx', OtherParties', tokenBalance')
    <2>1. /\ Debtor(tx') = Debtor(tx) /\ Debtor(tx) \in Borrowers /\ tx'.offered = tx.offered
          /\ tx'.saved = tx.saved
      BY <1>2, <1>4 DEF SameTerms, Debtor, LoansOK
    <2>2. Debtor(tx) \in Accounts /\ Debtor(tx) # by
      BY <1>1, <2>1, OthersApart, LendNestAssumption
    <2> QED
      BY <1>4, <1>8, <1>12, <1>16, <2>1, <2>2 DEF OfferSpent
  <1> QED
    BY <1>19, <1>20, <1>21, <1>22, <1>23 DEF RolloverProgress

-----------------------------------------------------------------------------
(* How far an automatic payment has got *)

\* Autopay holds the payment and nothing else moved; but for the borrower nobody has
\* less than before.
AutopayProgress ==
    LET s     == tx.saved
        payer == bid[tx.loan].borrower
    IN  /\ bid = s.bid /\ state = s.state /\ lender = s.lender /\ vaultBalances = s.vaultBalances
        /\ payer \in Borrowers
        /\ tokenBalance[Autopay] = s.tokenBalance[Autopay] + tx.amount
        /\ \A p \in Contracts : p # Autopay => tokenBalance[p] = s.tokenBalance[p]
        /\ Total(Worth(tokenBalance, vaultBalances), Accounts)
              = Total(Worth(s.tokenBalance, s.vaultBalances), Accounts)
        /\ \A p \in Accounts \ (Contracts \cup {payer}) : tokenBalance[p] >= s.tokenBalance[p]

\* autoPayLoanMinimum, up to its call of repayLoan.
LEMMA AutopayBegins ==
    ASSUME ExtInv, ApartInv, NEW caller \in Callers, NEW b \in Bids, AutoPayLoanMinimum(caller, b)
    PROVE  AutopayProgress'
  <1> DEFINE amount == EstimatedMinimumPayment(b)
             fee    == Percent(amount, autopayFee)
             payer  == bid[b].borrower
             pulled == Transfer(tokenBalance, payer, Autopay, amount + fee)
  <1>1. amount \in Nat /\ fee \in Nat
    <2>1. amount \in Nat
      BY MinimumPaymentType DEF ExtInv, AutoPayLoanMinimum
    <2>2. autopayFee \in Nat
      BY ExtensionAssumption DEF ExtInv, CountersOK
    <2> QED
      BY <2>1, <2>2, PercentType
  <1>2. payer \in Borrowers /\ payer \in Accounts
    <2>1. payer \in Accounts
      BY DEF ExtInv, BorrowersKnown, AutoPayLoanMinimum
    <2>2. payer \in Borrowers \cup {NoAccount}
      BY DEF ApartInv, PartiesApart
    <2> QED
      BY <2>1, <2>2, TypesAssumption
  <1>3. /\ payer \notin Contracts /\ caller \notin Contracts /\ Autopay \in Contracts
        /\ Autopay \in Accounts /\ caller \in Accounts /\ Contracts \subseteq Accounts
    BY <1>2, OthersApart, ExtensionAssumption DEF Contracts
  <1>4. tokenBalance \in [Holders -> Nat] /\ vaultBalances \in [Accounts -> Nat]
        /\ Accounts \subseteq Holders
    BY DEF ExtInv, IInv, TypeOK, VaultTypeOK, Holders
  <1>5. /\ OnlyTokensMove /\ tokenBalance' = Transfer(pulled, Autopay, caller, fee)
        /\ tx' = [kind |-> "autopay", stage |-> "repay", by |-> Autopay, loan |-> b,
                  amount |-> amount, saved |-> Committed]
    BY DEF AutoPayLoanMinimum
  <1>6. UNCHANGED <<bid, state, lender, vaultBalances>>
    BY <1>5 DEF OnlyTokensMove, loanVars
  <1>7. /\ tx'.loan = b /\ tx'.amount = amount /\ tx'.saved.bid = bid /\ tx'.saved.state = state
        /\ tx'.saved.vaultBalances = vaultBalances /\ tx'.saved.tokenBalance = tokenBalance
        /\ tx'.saved.lender = lender
    BY <1>5 DEF Committed
  <1> HIDE DEF amount, fee, payer, pulled
  <1>8. pulled \in [Holders -> Int] /\ tokenBalance' \in [Holders -> Int]
        /\ Total(Worth(pulled, vaultBalances), Accounts)
              = Total(Worth(tokenBalance, vaultBalances), Accounts)
    BY <1>1, <1>2, <1>3, <1>4, <1>5, TransferWorth DEF Transfer, pulled
  <1>9. Total(Worth(tokenBalance', vaultBalances), Accounts)
           = Total(Worth(pulled, vaultBalances), Accounts)
    BY <1>1, <1>3, <1>4, <1>5, <1>8, TransferWorth
  <1>10. \A p \in Accounts :
            pulled[p] = tokenBalance[p] - (IF p = payer THEN amount + fee ELSE 0)
                            + (IF p = Autopay THEN amount + fee ELSE 0)
    BY <1>1, <1>4 DEF Transfer, pulled
  <1>11. \A p \in Accounts :
            tokenBalance'[p] = pulled[p] - (IF p = Autopay THEN fee ELSE 0)
                                  + (IF p = caller THEN fee ELSE 0)
    BY <1>4, <1>5, <1>8 DEF Transfer
  <1>12. \A p \in Accounts : tokenBalance[p] \in Nat
    BY <1>4
  <1>13. tokenBalance'[Autopay] = tokenBalance[Autopay] + amount
    BY <1>1, <1>2, <1>3, <1>10, <1>11, <1>12
  <1>14. \A p \in Contracts : p # Autopay => tokenBalance'[p] = tokenBalance[p]
    BY <1>1, <1>3, <1>10, <1>11, <1>12
  <1>15. \A p \in Accounts \ (Contracts \cup {payer}) : tokenBalance'[p] >= tokenBalance[p]
    BY <1>1, <1>3, <1>10, <1>11, <1>12
  <1>16. bid'[tx'.loan].borrower = payer
    BY <1>6, <1>7 DEF payer
  <1> QED
    BY <1>2, <1>6, <1>7, <1>8, <1>9, <1>13, <1>14, <1>15, <1>16 DEF AutopayProgress

-----------------------------------------------------------------------------
(* The invariant of the transactions' progress *)

ProgressInv ==
    /\ ApartInv
    /\ IsRollover => RolloverProgress
    /\ tx.kind = "autopay" => AutopayProgress

LEMMA ProgressInit == ExtensionsInit => ProgressInv
  BY ApartInit DEF ExtensionsInit, NoTx, ProgressInv, IsRollover

\* While a transaction runs, the loans it began with stay saved.
LEMMA ApartKept ==
    ASSUME ApartInv, tx # NoTx, tx' # NoTx, tx'.saved = tx.saved,
           UNCHANGED <<loanOwner, marketVars>>, PartiesApart(bidId', bid', lender')
    PROVE  ApartInv'
  BY DEF ApartInv, OwnersApart, marketVars

\* When it begins, those that are.
LEMMA ApartBegins ==
    ASSUME ApartInv, tx = NoTx, tx' # NoTx, tx'.saved = Committed, OnlyTokensMove
    PROVE  ApartInv'
  <1>1. UNCHANGED <<bidId, bid, state, lender, loanOwner, marketVars>>
    BY DEF OnlyTokensMove, loanVars
  <1>2. /\ tx'.saved.bidId = bidId /\ tx'.saved.bid = bid /\ tx'.saved.lender = lender
        /\ tx'.saved.state = state
    BY DEF Committed
  <1> QED
    BY <1>1, <1>2 DEF ApartInv, OwnersApart, marketVars

\* When it is over, the bids that wait for a lender are those that did before.
LEMMA ApartEnds ==
    ASSUME ApartInv, tx # NoTx, tx' = NoTx, UNCHANGED <<loanOwner, marketVars>>,
           PartiesApart(bidId', bid', lender'),
           \A b \in Bids : state'[b] = "PENDING" => /\ tx.saved.state[b] = "PENDING"
                                                    /\ bid'[b] = tx.saved.bid[b]
    PROVE  ApartInv'
  <1>1. OwnersApart'
    BY DEF ApartInv, OwnersApart, marketVars
  <1>2. ReceiversApart(bid', state')
    BY DEF ApartInv, ReceiversApart
  <1> QED
    BY <1>1, <1>2 DEF ApartInv

\* A transaction begins.
LEMMA StartProgress ==
    ASSUME ExtInv, ProgressInv, RolloverStart
    PROVE  ProgressInv'
  <1>1. PICK sender \in Borrowers, b \in Bids, c \in DOMAIN Commitments,
             principal \in NewPrincipals :
         \/ \E offered \in Offers(CalculateRolloverAmount(b, c, principal)) :
               RolloverLoan(sender, b, c, principal, offered)
         \/ \E offered \in Offers(- CalculateFlashRolloverAmount(b, c, principal)),
               more \in FlashMargins :
               RolloverLoanWithFlash(sender, b, c, principal, RepayFullAmount(b) + more, offered)
    BY DEF RolloverStart
  <1>2. principal \in Nat /\ IInv /\ ApartInv
    BY ExtensionAssumption DEF ExtInv, ProgressInv
  <1>3. /\ RepayFullAmount(b) \in Nat /\ CalculateRolloverAmount(b, c, principal) \in Int
        /\ - CalculateFlashRolloverAmount(b, c, principal) \in Int
    BY <1>2, QuoteType
  <1>4. ASSUME NEW offered \in Offers(CalculateRolloverAmount(b, c, principal)),
               RolloverLoan(sender, b, c, principal, offered)
        PROVE  ProgressInv'
    <2>1. offered \in Nat
      BY <1>3, OfferType
    <2>2. RolloverProgress'
      BY <1>2, <1>4, <2>1, RolloverLoanBegins
    <2>3. tx = NoTx /\ tx'.kind = "rollover" /\ tx'.saved = Committed /\ OnlyTokensMove
      BY <1>4 DEF RolloverLoan
    <2>4. ApartInv'
      BY <1>2, <2>3, ApartBegins DEF NoTx
    <2> QED
      BY <2>2, <2>3, <2>4 DEF ProgressInv
  <1>5. ASSUME NEW offered \in Offers(- CalculateFlashRolloverAmount(b, c, principal)),
               NEW more \in FlashMargins,
               RolloverLoanWithFlash(sender, b, c, principal, RepayFullAmount(b) + more, offered)
        PROVE  ProgressInv'
    <2>1. offered \in Nat
      BY <1>3, OfferType
    <2>2. RepayFullAmount(b) + more \in Nat /\ RepayFullAmount(b) + more >= RepayFullAmount(b)
      BY <1>3, ExtensionAssumption
    <2>3. RolloverProgress'
      BY <1>2, <1>5, <2>1, <2>2, RolloverLoanWithFlashBegins
    <2>4. tx = NoTx /\ tx'.kind = "flash" /\ tx'.saved = Committed /\ OnlyTokensMove
      BY <1>5 DEF RolloverLoanWithFlash
    <2>5. ApartInv'
      BY <1>2, <2>4, ApartBegins DEF NoTx
    <2> QED
      BY <2>3, <2>4, <2>5 DEF ProgressInv
  <1> QED
    BY <1>1, <1>4, <1>5

LEMMA AutopayStartProgress ==
    ASSUME ExtInv, ProgressInv, AutopayStart
    PROVE  ProgressInv'
  <1>1. ASSUME NEW caller \in Callers, NEW b \in Bids, AutoPayLoanMinimum(caller, b)
        PROVE  ProgressInv'
    <2>1. AutopayProgress'
      BY <1>1, AutopayBegins DEF ProgressInv
    <2>2. tx = NoTx /\ tx'.kind = "autopay" /\ tx'.saved = Committed /\ OnlyTokensMove
      BY <1>1 DEF AutoPayLoanMinimum
    <2>3. ApartInv'
      BY <2>2, ApartBegins DEF ProgressInv, NoTx
    <2> QED
      BY <2>1, <2>2, <2>3 DEF ProgressInv, IsRollover
  <1>2. ASSUME tx = NoTx, tx' = NoTx, UNCHANGED vars
        PROVE  ProgressInv'
    <2>1. UNCHANGED <<bidId, bid, state, lender, loanOwner, marketVars>>
      BY <1>2 DEF vars, loanVars
    <2>2. ApartInv'
      BY <1>2, <2>1 DEF ProgressInv, ApartInv, OwnersApart, marketVars
    <2> QED
      BY <1>2, <2>2 DEF ProgressInv, IsRollover, NoTx
  <1> QED
    BY <1>1, <1>2 DEF AutopayStart, SetAutoPayEnabled, SetAutopayFee

\* A call of a rollover.
LEMMA CallProgress ==
    ASSUME ExtInv, ExtInv', ProgressInv, tx # NoTx,
           (\E direct \in TransferOutcomes : RepayStep(direct)) \/ SubmitStep \/ AcceptStep
    PROVE  ProgressInv'
  <1>1. /\ RolloverOK /\ IsRollover /\ ApartInv /\ RolloverProgress /\ IInv
    BY DEF ExtInv, RepayStep, SubmitStep, AcceptStep, AutopayOK, IsRollover, ProgressInv, RolloverOK
  <1>2. /\ PartiesApart(bidId, bid, lender) /\ LoansOK(tx, bidId, bid, state, lender)
        /\ tx.loan \in Bids
    BY <1>1 DEF ApartInv, RolloverProgress, RolloverOK
  <1>3. ASSUME NEW direct \in TransferOutcomes, RepayStep(direct)
        PROVE  RolloverProgress' /\ IsRollover' /\ ApartInv'
    <2>1. /\ SameTerms
      BY <1>1, <1>3 DEF RepayStep, RolloverOK, RolloverFields, SameTerms
    <2>2. UNCHANGED <<bidId, bid, lender, loanOwner, marketVars>>
      BY <1>3 DEF RepayStep, RepayLoanFull, RepayAccepted, RepayLoan_
    <2>3. IsRollover' /\ tx' # NoTx /\ tx'.saved = tx.saved
      BY <1>1, <2>1 DEF IsRollover, SameTerms, NoTx
    <2>4. ApartInv'
      BY <1>1, <1>2, <2>2, <2>3, ApartKept
    <2> QED
      BY <1>1, <1>3, <2>3, <2>4, RepayStepProgress
  <1>4. ASSUME SubmitStep
        PROVE  RolloverProgress' /\ IsRollover' /\ ApartInv'
    <2>1. SameTerms
      BY <1>1, <1>4 DEF SubmitStep, RolloverOK, RolloverFields, SameTerms
    <2>2. bid[tx.loan].borrower \in Borrowers
      <3>1. tx.loan # tx.newLoan
        BY <1>2 DEF LoansOK, Bids
      <3> QED
        BY <1>2, <3>1 DEF LoansOK, Debtor
    <2>3. LET c == Commitments[tx.commitment] IN
             SubmitBid(bid[tx.loan].borrower, tx.by, c.market, tx.principal, c.duration, c.rate,
                       c.collateral)
      BY <1>4 DEF SubmitStep
    <2>4. PartiesApart(bidId', bid', lender')
      BY <1>1, <1>2, <2>2, <2>3, SubmitBidApart
    <2>5. UNCHANGED <<loanOwner, marketVars>>
      BY <2>3 DEF SubmitBid
    <2>6. IsRollover' /\ tx' # NoTx /\ tx'.saved = tx.saved
      BY <1>1, <2>1 DEF IsRollover, SameTerms, NoTx
    <2>7. ApartInv'
      BY <1>1, <2>4, <2>5, <2>6, ApartKept
    <2> QED
      BY <1>1, <1>4, <2>6, <2>7, SubmitStepProgress
  <1>5. ASSUME AcceptStep
        PROVE  RolloverProgress' /\ IsRollover' /\ ApartInv'
    <2>1. SameTerms
      BY <1>1, <1>5 DEF AcceptStep, RolloverOK, RolloverFields, SameTerms
    <2>2. LenderAcceptBid(Commitments[tx.commitment].lender, tx.newLoan)
      BY <1>5 DEF AcceptStep
    <2>3. /\ UNCHANGED <<bidId, bid, loanOwner, marketVars>>
          /\ lender' = [lender EXCEPT ![tx.newLoan] = Commitments[tx.commitment].lender]
      BY <2>2 DEF LenderAcceptBid
    <2>4. Commitments[tx.commitment].lender \notin Contracts
      BY <1>1, OthersApart DEF RolloverOK
    <2>5. PartiesApart(bidId', bid', lender')
      <3>1. lender \in [Bids -> Accounts \cup {NoAccount, UsingLenderManager}]
        BY <1>1 DEF IInv, TypeOK, LoanTypeOK
      <3> QED
        BY <1>2, <2>3, <2>4, <3>1 DEF PartiesApart
    <2>6. IsRollover' /\ tx' # NoTx /\ tx'.saved = tx.saved
      BY <1>1, <2>1 DEF IsRollover, SameTerms, NoTx
    <2>7. ApartInv'
      BY <1>1, <2>3, <2>5, <2>6, ApartKept
    <2>8. RolloverOK'
      BY <2>6 DEF ExtInv, IsRollover, AutopayOK
    <2> QED
      BY <1>1, <1>5, <2>6, <2>7, <2>8, AcceptStepProgress
  <1>6. RolloverProgress' /\ IsRollover' /\ ApartInv'
    BY <1>3, <1>4, <1>5
  <1> QED
    BY <1>6 DEF ProgressInv, IsRollover

\* A transaction ends.
LEMMA EndProgress ==
    ASSUME ApartInv', tx' = NoTx
    PROVE  ProgressInv'
  BY DEF ProgressInv, IsRollover, NoTx

\* What bids there are when a rollover has paid back the old loan and got the new one.
LEMMA FinishedLoans ==
    ASSUME ExtInv, RolloverOK, LoansOK(tx, bidId, bid, state, lender), tx.stage = "finish"
    PROVE  LET s == tx.saved
               old == tx.loan
               new == tx.newLoan
           IN  /\ old \in Bids /\ new \in Bids /\ old # new
               /\ s.state[old] = "ACCEPTED" /\ state[old] = "PAID"
               /\ s.state[new] = "NONEXISTENT" /\ state[new] = "ACCEPTED"
               /\ \A b \in Bids \ {old, new} : state[b] = s.state[b]
               /\ \A b \in Bids \ {new} : bid[b] = s.bid[b] /\ lender[b] = s.lender[b]
               /\ lender[new] = Backer(tx)
               /\ bid[new].borrower = Debtor(tx) /\ bid[old].borrower = Debtor(tx)
               /\ Debtor(tx) \in Borrowers
  <1>1. PaidBack(tx) /\ Lent(tx) /\ Submitted(tx)
    BY DEF PaidBack, Lent, Submitted
  <1>2. tx.loan # tx.newLoan /\ tx.loan \in Bids
    BY DEF LoansOK, Bids, RolloverOK
  <1> QED
    BY <1>1, <1>2 DEF LoansOK, Debtor

LEMMA FinishProgress ==
    ASSUME ExtInv, ExtInv', ProgressInv, tx # NoTx, FinishStep
    PROVE  ProgressInv'
  <1>1. /\ RolloverOK /\ ApartInv /\ RolloverProgress /\ tx.stage = "finish" /\ tx' = NoTx
    BY DEF ExtInv, FinishStep, AutopayOK, IsRollover, ProgressInv, RolloverOK
  <1>2. LoansOK(tx, bidId, bid, state, lender) /\ PartiesApart(bidId, bid, lender)
    BY <1>1 DEF RolloverProgress, ApartInv
  <1>3. UNCHANGED <<bidId, bid, state, lender, loanOwner, marketVars>>
    BY DEF FinishStep, OnlyTokensMove, loanVars
  <1>4. \A b \in Bids : state'[b] = "PENDING" => /\ tx.saved.state[b] = "PENDING"
                                                 /\ bid'[b] = tx.saved.bid[b]
    BY <1>1, <1>2, <1>3, FinishedLoans
  <1> QED
    BY <1>1, <1>2, <1>3, <1>4, ApartEnds, EndProgress

LEMMA AutopayStepProgress ==
    ASSUME ExtInv, ExtInv', ProgressInv, tx # NoTx, NEW direct \in TransferOutcomes,
           AutopayStep(direct)
    PROVE  ProgressInv'
  <1>1. /\ AutopayOK /\ ApartInv /\ AutopayProgress /\ IInv /\ tx' = NoTx
        /\ tx.loan \in Bids /\ tx.amount \in Nat
        /\ RepayLoan(Autopay, tx.loan, tx.amount, TRUE, direct)
    BY DEF ExtInv, AutopayStep, AutopayOK, ProgressInv, RolloverOK
  <1>2. /\ tx.amount - InterestOwed(tx.loan) \in Nat
        /\ PaysBack(Autopay, tx.loan, "ACCEPTED", tx.amount - InterestOwed(tx.loan), direct)
    BY <1>1, AmountPaysBack
  <1>3. /\ state'[tx.loan] \in {"ACCEPTED", "PAID"}
        /\ \A c \in Bids \ {tx.loan} : state'[c] = state[c]
        /\ UNCHANGED <<bidId, bid, lender, loanOwner>>
    BY <1>1, <1>2, PaymentOutcome
  <1>4. UNCHANGED marketVars
    BY <1>2 DEF PaysBack, RepayLoan_
  <1>5. \A b \in Bids : state'[b] = "PENDING" => /\ tx.saved.state[b] = "PENDING"
                                                 /\ bid'[b] = tx.saved.bid[b]
    BY <1>1, <1>3 DEF AutopayProgress
  <1>6. PartiesApart(bidId', bid', lender')
    BY <1>1, <1>3 DEF ApartInv
  <1> QED
    BY <1>1, <1>3, <1>4, <1>5, <1>6, ApartEnds, EndProgress

LEMMA RevertProgress ==
    ASSUME ExtInv, ProgressInv, Revert
    PROVE  ProgressInv'
  <1>1. /\ tx # NoTx /\ tx' = NoTx /\ ApartInv
        /\ bidId' = tx.saved.bidId /\ bid' = tx.saved.bid /\ state' = tx.saved.state
        /\ lender' = tx.saved.lender /\ UNCHANGED <<loanOwner, marketVars>>
    BY DEF Revert, ProgressInv
  <1> QED
    BY <1>1, EndProgress DEF ApartInv, OwnersApart, marketVars

LEMMA OthersProgress ==
    ASSUME ExtInv, ProgressInv, tx = NoTx, UNCHANGED extensionVars, [Next]_vars
    PROVE  ProgressInv'
  <1>1. /\ tx' = NoTx /\ IInv /\ OwnersApart /\ PartiesApart(bidId, bid, lender)
        /\ ReceiversApart(bid, state)
    BY DEF extensionVars, ExtInv, ProgressInv, ApartInv
  <1>2. /\ \A m \in Markets : marketOwner'[m] \notin Contracts /\ feeRecipient'[m] \notin Contracts
        /\ \A b \in Bids : loanOwner'[b] \notin Contracts
        /\ PartiesApart(bidId', bid', lender') /\ ReceiversApart(bid', state')
    BY <1>1, MarketsStayApart, LoansStayApart
  <1>3. ApartInv'
    BY <1>1, <1>2 DEF ApartInv, OwnersApart
  <1> QED
    BY <1>1, <1>3, EndProgress

LEMMA ProgressStep == ExtInv /\ ProgressInv /\ [ExtensionsNext]_allVars => ProgressInv'
  <1> SUFFICES ASSUME ExtInv, ProgressInv, [ExtensionsNext]_allVars PROVE ProgressInv'
    OBVIOUS
  <1>1. ExtInv'
    BY ExtensionsStepInv
  <1>2. CASE RolloverStart \/ AutopayStart
    BY <1>2, StartProgress, AutopayStartProgress
  <1>3. CASE TransactionStep /\ tx # NoTx
    BY <1>1, <1>3, CallProgress, FinishProgress, AutopayStepProgress DEF TransactionStep
  <1>4. CASE TransactionStep /\ tx = NoTx
    BY <1>4 DEF TransactionStep, RepayStep, AutopayStep, SubmitStep, AcceptStep, FinishStep, NoTx
  <1>5. CASE Revert
    BY <1>5, RevertProgress
  <1>6. CASE OthersStep \/ PaidByHand
    BY <1>6, OthersAreNext, OthersProgress
  <1>7. CASE UNCHANGED allVars
    <2>1. UNCHANGED <<tx, bidId, bid, state, lender, loanOwner, repaidPrincipal, accepted, lastRepaid,
                      tokenBalance, vaultBalances, now, protocolFee, marketVars>>
      BY <1>7 DEF allVars, vars, extensionVars, loanVars, vaultVars, ownerVars
    <2>2. ApartInv'
      BY <2>1 DEF ProgressInv, ApartInv, OwnersApart, marketVars
    <2>3. IsRollover' => RolloverProgress'
      <3>1. IsRollover' => IsRollover /\ tx.loan \in Bids
        BY <2>1 DEF IsRollover, ExtInv, RolloverOK, AutopayOK, NoTx
      <3>2. tx.loan \in Bids =>
               /\ OwedBefore' = OwedBefore /\ Uncounted' = Uncounted
               /\ Proceeds' = Proceeds /\ OtherParties' = OtherParties
        BY <2>1, Steady
      <3> QED
        BY <2>1, <3>1, <3>2 DEF ProgressInv, RolloverProgress
    <2>4. tx'.kind = "autopay" => AutopayProgress'
      BY <2>1 DEF ProgressInv, AutopayProgress
    <2> QED
      BY <2>2, <2>3, <2>4 DEF ProgressInv
  <1> QED
    BY <1>2, <1>3, <1>4, <1>5, <1>6, <1>7 DEF ExtensionsNext

\* However far a transaction has got, what it still has to pay is covered by what it
\* was sent and lent.
THEOREM Progress == ExtensionsSpec => [](ExtInv /\ ProgressInv)
  <1>1. ExtensionsInit => ExtInv /\ ProgressInv
    BY ExtensionsInitInv, ProgressInit
  <1>2. (ExtInv /\ ProgressInv) /\ [ExtensionsNext]_allVars => (ExtInv /\ ProgressInv)'
    BY ExtensionsStepInv, ProgressStep
  <1> QED
    BY <1>1, <1>2, PTL DEF ExtensionsSpec

-----------------------------------------------------------------------------
(* Quotes *)

\* What everybody reckons with in a rollover are numbers of tokens.
LEMMA AmountTypes ==
    ASSUME ExtInv, ProgressInv, IsRollover
    PROVE  /\ tx # NoTx /\ RolloverOK /\ RolloverProgress
           /\ OwedBefore \in Nat /\ Uncounted \in {0, OwedBefore} /\ Proceeds \in Int
           /\ Percent(OwedBefore - Uncounted, PremiumPct) \in Nat
           /\ tx.saved.tokenBalance[tx.by] \in Nat /\ tokenBalance[tx.by] \in Nat
  <1>1. RolloverOK /\ RolloverProgress /\ tx # NoTx
    BY DEF ExtInv, ProgressInv, IsRollover, AutopayOK, NoTx
  <1>2. OwedBefore \in Nat /\ Uncounted \in {0, OwedBefore}
    BY <1>1 DEF RolloverProgress, AmountsOK
  <1>3. Percent(OwedBefore - Uncounted, PremiumPct) \in Nat
    BY <1>2, PercentType, ExtensionAssumption
  <1>4. Proceeds \in Int
    BY <1>1, QuoteType DEF Proceeds, RolloverOK, ExtInv
  <1>5. tx.by \in Accounts
    BY <1>1, OthersApart DEF RolloverOK
  <1>6. tx.saved.tokenBalance[tx.by] \in Nat /\ tokenBalance[tx.by] \in Nat
    BY <1>1, <1>5, SavedBalances DEF ExtInv, IInv, TypeOK, VaultTypeOK, Holders
  <1> QED
    BY <1>1, <1>2, <1>3, <1>4, <1>6

\* What is left at the end is what the borrower offered beyond the cost, and the
\* contract holds that, what it owes the pool and what it held before.
LEMMA FinishFunds ==
    ASSUME ExtInv, ProgressInv, IsRollover, tx.stage = "finish"
    PROVE  /\ tx.quote + Uncounted + Rounding \in Int
           /\ FundsRemaining = tx.offered - (tx.quote + Uncounted + Rounding)
           /\ tokenBalance[tx.by]
                 = tx.saved.tokenBalance[tx.by] + FundsRemaining + tx.flashed + tx.fee
  <1> DEFINE P == Percent(OwedBefore - Uncounted, PremiumPct)
             O == OwedBefore
             U == Uncounted
             C == Proceeds
             B == tokenBalance[tx.by]
             S == tx.saved.tokenBalance[tx.by]
  <1>1. /\ RolloverOK /\ RolloverProgress /\ O \in Nat /\ U \in {0, O} /\ P \in Nat
        /\ C \in Int /\ S \in Nat /\ B \in Nat
    BY AmountTypes
  <1>2. tx.offered \in Nat /\ tx.flashed \in Nat /\ tx.fee \in Nat
    BY <1>1 DEF RolloverOK
  <1>3. PaidBack(tx) /\ Lent(tx)
    BY DEF PaidBack, Lent
  <1>4. /\ AmountsOK(tx, OwedBefore, Uncounted, Proceeds)
        /\ B = S + tx.offered + tx.flashed + tx.received - tx.repaid
    BY <1>1 DEF RolloverProgress, BalancesOK
  <1>5. tx.repaid = O /\ tx.received = C
    BY <1>3, <1>4 DEF AmountsOK
  <1>6. CASE tx.kind = "rollover"
    <2>1. tx.flashed = 0 /\ tx.fee = 0 /\ tx.before = S /\ tx.quote = O - U - C
      BY <1>4, <1>6 DEF AmountsOK
    <2>2. Rounding = 0 /\ FundsRemaining = B - S
      BY <1>6, <2>1 DEF Rounding, FundsRemaining
    <2> HIDE DEF P, O, U, C, B, S
    <2> QED
      BY <1>1, <1>2, <1>4, <1>5, <2>1, <2>2 DEF B, S, U
  <1>7. CASE tx.kind = "flash"
    <2>1. tx.quote = O - U + P - C
      BY <1>4, <1>7 DEF AmountsOK
    <2>2. Rounding = tx.fee - P /\ FundsRemaining = tx.received + tx.offered - tx.repaid - tx.fee
      BY <1>7 DEF Rounding, FundsRemaining
    <2> HIDE DEF P, O, U, C, B, S
    <2> QED
      BY <1>1, <1>2, <1>4, <1>5, <2>1, <2>2 DEF B, S, U
  <1> QED
    BY <1>6, <1>7 DEF IsRollover

\* What the last step of a rollover does to balances.
LEMMA FinishMoves ==
    ASSUME ExtInv, ProgressInv, IsRollover, FinishStep
    PROVE  /\ FundsRemaining \in Nat /\ Debtor(tx) \in Accounts /\ Debtor(tx) \notin Contracts
           /\ \A p \in Accounts :
                 tokenBalance'[p] = tokenBalance[p]
                    - (IF p = tx.by THEN FundsRemaining + tx.flashed + tx.fee ELSE 0)
                    + (IF p = Debtor(tx) THEN FundsRemaining ELSE 0)
                    + (IF p = Pool THEN tx.flashed + tx.fee ELSE 0)
           /\ Total(Worth(tokenBalance', vaultBalances'), Accounts)
                 = Total(Worth(tokenBalance, vaultBalances), Accounts)
           /\ vaultBalances' = vaultBalances /\ tx' = NoTx /\ UNCHANGED <<bid, state, lender>>
  <1> DEFINE rest  == FundsRemaining
             due   == tx.flashed + tx.fee
             after == BalanceAfterRest
             payee == bid[tx.loan].borrower
  <1>1. /\ RolloverOK /\ RolloverProgress /\ tx.stage = "finish" /\ CanFinish
        /\ tokenBalance' = Transfer(after, tx.by, Pool, due)
        /\ vaultBalances' = vaultBalances /\ tx' = NoTx /\ UNCHANGED <<bid, state, lender>>
    BY AmountTypes DEF FinishStep, OnlyTokensMove, loanVars
  <1>2. rest \in Nat
    <2>1. rest \in Int
      BY <1>1, FinishFunds DEF RolloverOK
    <2> QED
      BY <1>1, <2>1 DEF CanFinish
  <1>3. due \in Nat /\ tx.flashed \in Nat /\ tx.fee \in Nat
    BY <1>1 DEF RolloverOK
  <1>4. payee = Debtor(tx) /\ Debtor(tx) \in Borrowers
    BY <1>1, FinishedLoans DEF RolloverProgress
  <1>5. /\ payee \in Accounts /\ payee \notin Contracts /\ tx.by \in Accounts /\ Pool \in Accounts
    BY <1>1, <1>4, OthersApart, LendNestAssumption, ExtensionAssumption DEF RolloverOK
  <1>6. after = Transfer(tokenBalance, tx.by, payee, rest)
    BY DEF BalanceAfterRest
  <1>7. /\ tokenBalance \in [Holders -> Int] /\ vaultBalances \in [Accounts -> Int]
        /\ Accounts \subseteq Holders
    BY DEF ExtInv, IInv, TypeOK, VaultTypeOK, Holders
  <1> HIDE DEF rest, due, after, payee
  <1>8. after \in [Holders -> Int]
        /\ Total(Worth(after, vaultBalances), Accounts)
              = Total(Worth(tokenBalance, vaultBalances), Accounts)
    BY <1>2, <1>5, <1>6, <1>7, TransferWorth, TransferInt
  <1>9. Total(Worth(tokenBalance', vaultBalances), Accounts)
           = Total(Worth(after, vaultBalances), Accounts)
    BY <1>1, <1>3, <1>5, <1>7, <1>8, TransferWorth
  <1>10. \A p \in Accounts : after[p] = tokenBalance[p] - (IF p = tx.by THEN rest ELSE 0)
                                            + (IF p = payee THEN rest ELSE 0)
    BY <1>2, <1>6, <1>7 DEF Transfer
  <1>11. \A p \in Accounts : tokenBalance'[p] = after[p] - (IF p = tx.by THEN due ELSE 0)
                                            + (IF p = Pool THEN due ELSE 0)
    BY <1>1, <1>7, <1>8 DEF Transfer
  <1>12. ASSUME NEW p \in Accounts
         PROVE  tokenBalance'[p] = tokenBalance[p] - (IF p = tx.by THEN rest + due ELSE 0)
                    + (IF p = payee THEN rest ELSE 0) + (IF p = Pool THEN due ELSE 0)
    <2>1. tokenBalance[p] \in Int
      BY <1>7
    <2> QED
      BY <1>2, <1>3, <1>10, <1>11, <2>1
  <1>13. rest + due = rest + tx.flashed + tx.fee
    BY <1>2, <1>3 DEF due
  <1> QED
    BY <1>1, <1>2, <1>4, <1>5, <1>8, <1>9, <1>12, <1>13 DEF rest, due

\* A borrower who sends what it was quoted, with the token of rounding and with the
\* debt the quote leaves out when the loan was accepted in this very block, is not
\* refused for want of funds: what the contract was lent and sent pays the old loan
\* and the pool.
THEOREM QuotesSuffice == ExtensionsSpec => []QuoteSuffices
  <1>1. ASSUME ExtInv, ProgressInv, IsRollover,
               tx.offered >= tx.quote + Uncounted + Rounding,
               tx.kind = "flash" => tx.flashed >= Uncounted,
               tx.stage = "repay", state[tx.loan] = "ACCEPTED"
        PROVE  Debt(tx.loan) <= Approved
    <2> DEFINE O == OwedBefore
               U == Uncounted
               C == Proceeds
               S == tx.saved.tokenBalance[tx.by]
    <2>1. /\ RolloverOK /\ RolloverProgress /\ O \in Nat /\ U \in {0, O} /\ C \in Int /\ S \in Nat
      BY <1>1, AmountTypes
    <2>2. ~PaidBack(tx) /\ AmountsOK(tx, OwedBefore, Uncounted, Proceeds) /\ tx.offered \in Nat
          /\ tokenBalance[tx.by] = S + tx.offered + tx.flashed + tx.received - tx.repaid
      BY <1>1, <2>1 DEF PaidBack, RolloverProgress, RolloverOK, BalancesOK
    <2>3. Debt(tx.loan) = O
      BY <1>1, <2>1, <2>2, StillOwed DEF RolloverProgress
    <2>4. CASE tx.kind = "rollover"
      <3>1. /\ tx.flashed = 0 /\ tx.fee = 0 /\ tx.before = S /\ tx.quote = O - U - C
            /\ tx.repaid = 0 /\ tx.received = C
        BY <1>1, <2>2, <2>4 DEF AmountsOK, Lent
      <3>2. Rounding = 0 /\ Approved = tokenBalance[tx.by] - S
        BY <2>4, <3>1 DEF Rounding, Approved
      <3> HIDE DEF O, U, C, S
      <3> QED
        BY <1>1, <2>1, <2>2, <2>3, <3>1, <3>2 DEF U
    <2>5. CASE tx.kind = "flash"
      <3>1. tx.flashed >= O - U /\ tx.flashed >= U /\ Approved = tx.flashed
        BY <1>1, <2>2, <2>5 DEF AmountsOK, Approved
      <3> HIDE DEF O, U
      <3> QED
        BY <2>1, <2>3, <3>1
    <2> QED
      BY <1>1, <2>4, <2>5 DEF IsRollover
  <1>2. ASSUME ExtInv, ProgressInv, IsRollover,
               tx.offered >= tx.quote + Uncounted + Rounding, tx.stage = "finish"
        PROVE  CanFinish
    <2> DEFINE rest  == FundsRemaining
               payee == bid[tx.loan].borrower
               S     == tx.saved.tokenBalance[tx.by]
    <2>1. RolloverOK /\ RolloverProgress /\ S \in Nat
      BY <1>2, AmountTypes
    <2>2. /\ tx.by \in Contracts /\ tx.by \in Accounts /\ tx.by \in Holders /\ tx.flashed \in Nat
          /\ tx.fee \in Nat /\ tx.offered \in Nat
      BY <2>1, OthersApart DEF RolloverOK, Holders
    <2>3. /\ rest = tx.offered - (tx.quote + Uncounted + Rounding)
          /\ tx.quote + Uncounted + Rounding \in Int
          /\ tokenBalance[tx.by] = S + rest + tx.flashed + tx.fee
      BY <1>2, FinishFunds
    <2>4. payee # tx.by
      BY <1>2, <2>1, <2>2, FinishedLoans, OthersApart DEF RolloverProgress
    <2> HIDE DEF rest, S, payee
    <2>5. rest \in Nat
      BY <1>2, <2>2, <2>3
    <2>6. CanTransfer(tokenBalance, tx.by, rest)
      BY <2>1, <2>2, <2>3, <2>5 DEF CanTransfer
    <2>7. Transfer(tokenBalance, tx.by, payee, rest)[tx.by] = tokenBalance[tx.by] - rest
      <3>1. tokenBalance \in [Holders -> Nat] /\ tokenBalance[tx.by] \in Nat
        BY <1>2, <2>2 DEF ExtInv, IInv, TypeOK, VaultTypeOK
      <3> QED
        BY <2>2, <2>4, <2>5, <3>1 DEF Transfer
    <2>8. CanTransfer(Transfer(tokenBalance, tx.by, payee, rest), tx.by, tx.flashed + tx.fee)
      BY <2>1, <2>2, <2>3, <2>5, <2>7 DEF CanTransfer
    <2> QED
      BY <2>5, <2>6, <2>8 DEF CanFinish, BalanceAfterRest, rest, payee
  <1>3. ExtInv /\ ProgressInv => QuoteSuffices
    BY <1>1, <1>2 DEF QuoteSuffices
  <1> QED
    BY <1>3, Progress, PTL

\* calculateRolloverAmount tells a borrower, who is none of the others the rollover
\* pays, what it will cost: to the token, but for the pool's rounding, and for the debt
\* of a loan accepted in this very block, which it leaves out.
THEOREM QuotesKept == ExtensionsSpec => QuotesHold
  <1> DEFINE D == tx.saved.bid[tx.loan].borrower
  <1>1. ASSUME ExtInv, ProgressInv, [ExtensionsNext]_allVars, GoesThrough, D \notin OtherParties
        PROVE  tx.saved.tokenBalance[D] - tokenBalance'[D] = tx.quote + Uncounted + Rounding
    <2>1. /\ IsRollover /\ tx' = NoTx /\ state'[tx.loan] # tx.saved.state[tx.loan]
          /\ tx # NoTx /\ RolloverOK /\ RolloverProgress
      BY <1>1, AmountTypes DEF GoesThrough
    <2>2. FinishStep
      <3>1. ~Revert
        BY <2>1 DEF Revert
      <3>2. ~RolloverStart /\ ~AutopayStart /\ ~OthersStep /\ ~PaidByHand
        BY <2>1, OthersAreNext DEF RolloverStart, AutopayStart, RolloverLoan,
           RolloverLoanWithFlash, SetAutoPayEnabled, SetAutopayFee, AutoPayLoanMinimum
      <3>3. ~SubmitStep /\ ~AcceptStep /\ \A direct : ~RepayStep(direct) /\ ~AutopayStep(direct)
        <4>1. tx.kind # "autopay"
          BY <2>1 DEF IsRollover
        <4>2. tx'.kind = "none"
          BY <2>1 DEF NoTx
        <4> QED
          BY <2>1, <4>1, <4>2 DEF SubmitStep, AcceptStep, RepayStep, AutopayStep, RolloverOK,
             RolloverFields, IsRollover
      <3>4. ~UNCHANGED allVars
        BY <2>1 DEF allVars, extensionVars
      <3> QED
        BY <1>1, <3>1, <3>2, <3>3, <3>4 DEF ExtensionsNext, TransactionStep
    <2>3. /\ FundsRemaining = tx.offered - (tx.quote + Uncounted + Rounding)
          /\ tx.quote + Uncounted + Rounding \in Int
          /\ tx.offered \in Nat /\ tx.by \in Contracts
      BY <1>1, <2>1, <2>2, FinishFunds DEF FinishStep, RolloverOK
    <2>4. D = Debtor(tx) /\ D \in Borrowers
      BY <2>1 DEF Debtor, RolloverProgress, LoansOK
    <2>5. /\ D \in Accounts /\ D \notin Contracts /\ D # Pool /\ FundsRemaining \in Nat
          /\ tokenBalance'[D] = tokenBalance[D]
                    - (IF D = tx.by THEN FundsRemaining + tx.flashed + tx.fee ELSE 0)
                    + (IF D = Debtor(tx) THEN FundsRemaining ELSE 0)
                    + (IF D = Pool THEN tx.flashed + tx.fee ELSE 0)
      BY <1>1, <2>1, <2>2, <2>4, FinishMoves, ExtensionAssumption
    <2>6. tokenBalance[D] = tx.saved.tokenBalance[D] - tx.offered
      BY <1>1, <2>1, <2>4 DEF RolloverProgress, OfferSpent
    <2>7. tx.saved.tokenBalance[D] \in Nat
      BY <1>1, <2>1, <2>5, SavedBalances
    <2> HIDE DEF D
    <2> QED
      BY <2>3, <2>4, <2>5, <2>6, <2>7
  <1>2. ExtInv /\ ProgressInv /\ [ExtensionsNext]_allVars =>
           [GoesThrough =>
              LET debtor == tx.saved.bid[tx.loan].borrower
                  cost   == tx.saved.tokenBalance[debtor] - tokenBalance'[debtor]
              IN  debtor \notin OtherParties => cost = tx.quote + Uncounted + Rounding]_allVars
    BY <1>1
  <1> QED
    BY <1>2, Progress, PTL DEF ExtensionsSpec, QuotesHold

-----------------------------------------------------------------------------
(* Rollovers and automatic payments keep the promise *)

LEMMA ShownTyped == ExtInv => ShownTypes
  <1> SUFFICES ASSUME ExtInv PROVE ShownTypes
    OBVIOUS
  <1>1. CASE tx = NoTx
    BY <1>1 DEF ExtInv, IInv, TypeOK, LoanTypeOK, VaultTypeOK, ShownTypes, CommittedState,
       CommittedTokens, CommittedVault
  <1>2. CASE tx # NoTx
    <2>1. Saved!LoanTypeOK /\ Saved!VaultTypeOK
      BY <1>2 DEF ExtInv, SavedOK, SavedIInv, Saved!TypeOK
    <2> QED
      BY <1>2, <2>1, SavedSame DEF Saved!LoanTypeOK, Saved!VaultTypeOK, ShownTypes,
         CommittedState, CommittedTokens, CommittedVault
  <1> QED
    BY <1>1, <1>2

\* Between transactions the chain shows what there is.
LEMMA PlainShown ==
    ASSUME tx = NoTx, tx' = NoTx
    PROVE  /\ CommittedState = state /\ CommittedState' = state'
           /\ CommittedBid = bid /\ CommittedBid' = bid'
           /\ CommittedLender = lender /\ CommittedLender' = lender'
           /\ Shown = Worth(tokenBalance, vaultBalances)
           /\ Shown' = Worth(tokenBalance', vaultBalances')
  BY DEF CommittedState, CommittedBid, CommittedLender, CommittedTokens,
       CommittedVault, Shown

\* A step of one loan during which nobody's worth changes.
LEMMA UnpaidMaps ==
    ASSUME tx = NoTx, tx' = NoTx, ShownTypes, ShownTypes', NEW l \in Bids,
           UNCHANGED <<tokenBalance, vaultBalances>>,
           \A b \in Bids \ {l} : state'[b] = state[b] /\ bid'[b] = bid[b] /\ lender'[b] = lender[b],
           Moves(state[l], state'[l]), state'[l] = "ACCEPTED" => state[l] = "ACCEPTED",
           state[l] = "NONEXISTENT" \/ bid'[l].borrower = bid[l].borrower,
           state'[l] = "ACCEPTED" \/ lender'[l] = lender[l]
    PROVE  Promise!Next
  <1>1. Shown' = Shown
    BY PlainShown
  <1>2. Neutral
    BY <1>1 DEF Neutral
  <1>3. \A p \in Accounts : Shown[p] \in Int
    BY ShownWorth DEF ShownTypes, Holders
  <1>4. OnlyTheseLose({ProtocolOwner})
    BY <1>1, <1>3 DEF OnlyTheseLose
  <1>5. ProtocolOwner \in Accounts
    BY LendNestAssumption
  <1> QED
    BY <1>2, <1>4, <1>5, PlainShown, OrdinaryMaps

\* A step of nobody's loan or tokens.
LEMMA IdleMaps ==
    ASSUME tx = NoTx, tx' = NoTx, UNCHANGED <<bid, state, lender, tokenBalance, vaultBalances>>
    PROVE  UNCHANGED Promise!swapVars
  <1>1. UNCHANGED <<CommittedState, CommittedBid, CommittedLender, CommittedTokens, CommittedVault>>
    BY DEF CommittedState, CommittedBid, CommittedLender, CommittedTokens,
         CommittedVault
  <1> QED
    BY <1>1, HiddenMaps

\* An acceptance in the lender's own name is paid for by the lender.
LEMMA AcceptMaps ==
    ASSUME tx = NoTx, tx' = NoTx, IInv, IInv', ShownTypes, ShownTypes', ApartInv,
           NEW sender \in Lenders, NEW b \in Bids, LenderAcceptBid(sender, b)
    PROVE  Promise!Next
  <1> DEFINE toP   == AmountToProtocol(b)
             toM   == AmountToMarketplace(b)
             toB   == AmountToBorrower(b)
             owner == GetMarketFeeRecipient(bid[b].market)
             payee == bid[b].receiver
  <1>1. sender \in Accounts /\ sender \notin Contracts /\ ProtocolOwner \notin Contracts
        /\ Contracts \subseteq Accounts
    BY OthersApart, LendNestAssumption
  <1>2. state[b] = "PENDING" /\ bid[b].market \in Markets
    BY DEF LenderAcceptBid, IInv, WellFormed
  <1>3. owner \notin Contracts /\ payee \notin Contracts
    BY <1>2 DEF ApartInv, OwnersApart, ReceiversApart, GetMarketFeeRecipient
  <1> HIDE DEF toP, toM, toB, owner, payee
  <1>4. /\ toP \in Nat /\ toM \in Nat /\ toB \in Nat /\ UNCHANGED vaultBalances
        /\ \A p \in Accounts :
              tokenBalance'[p] = tokenBalance[p] - (IF p = sender THEN toP + toM + toB ELSE 0)
                   + (IF p = ProtocolOwner THEN toP ELSE 0)
                   + (IF p = owner THEN toM ELSE 0)
                   + (IF p = payee THEN toB ELSE 0)
        /\ Total(Worth(tokenBalance', vaultBalances'), Accounts)
              = Total(Worth(tokenBalance, vaultBalances), Accounts)
    BY <1>1, AcceptMoves DEF toP, toM, toB, owner, payee
  <1>5. \A p \in Accounts : tokenBalance[p] \in Nat /\ vaultBalances[p] \in Nat
    BY DEF IInv, TypeOK, VaultTypeOK, Holders
  <1>6. /\ \A p \in Contracts : tokenBalance'[p] = tokenBalance[p]
        /\ \A p \in Accounts \ {sender} : tokenBalance'[p] >= tokenBalance[p]
        /\ \A p \in Accounts : tokenBalance'[p] \in Int
    BY <1>1, <1>3, <1>4, <1>5
  <1>7. \A p \in Accounts : /\ Shown[p] = tokenBalance[p] + vaultBalances[p]
                            /\ Shown'[p] = tokenBalance'[p] + vaultBalances[p]
    BY <1>4, PlainShown DEF Worth
  <1>8. Neutral
    BY <1>1, <1>4, <1>6, <1>7, PlainShown DEF Neutral
  <1>9. OnlyTheseLose({sender})
    BY <1>5, <1>6, <1>7 DEF OnlyTheseLose
  <1>10. /\ state'[b] = "ACCEPTED" /\ bid' = bid /\ lender'[b] = sender
         /\ \A c \in Bids \ {b} : state'[c] = state[c] /\ lender'[c] = lender[c]
    BY DEF LenderAcceptBid, IInv, TypeOK, LoanTypeOK
  <1>11. Moves(state[b], state'[b])
    BY <1>2, <1>10 DEF Moves
  <1> QED
    BY <1>1, <1>2, <1>8, <1>9, <1>10, <1>11, PlainShown, OrdinaryMaps

\* A payment somebody makes is paid for by whoever makes it.
LEMMA PaymentMaps ==
    ASSUME tx = NoTx, tx' = NoTx, IInv, IInv', ShownTypes, ShownTypes', ApartInv, PaymentStep
    PROVE  Promise!Next
  <1>1. PICK payer \in Payers, b \in Bids, st \in {"ACCEPTED", "LIQUIDATED"},
             principal \in Nat, direct \in BOOLEAN : PaysBack(payer, b, st, principal, direct)
    BY PaymentForm
  <1> DEFINE amount == AmountTaken(b, principal, InterestOwed(b))
  <1>2. /\ state[b] = "ACCEPTED" /\ SendOrEscrowFunds(payer, b, amount, direct)
        /\ Owed(b) \in Nat /\ InterestOwed(b) \in Nat
    BY <1>1, OwedType DEF PaysBack, RepayLoan_
  <1>3. amount \in Nat
    BY <1>2 DEF AmountTaken
  <1>4. /\ payer \in Accounts /\ payer \notin Contracts /\ LoanLender(b) \notin Contracts
        /\ Contracts \subseteq Accounts
    BY OthersApart, LendNestAssumption DEF ApartInv, OwnersApart, PartiesApart, LoanLender
  <1> HIDE DEF amount
  <1> DEFINE f == Worth(tokenBalance, vaultBalances)
             g == Worth(tokenBalance', vaultBalances')
  <1>5. Total(g, Accounts) = Total(f, Accounts) /\ MovedBy(f, g, payer, LoanLender(b), amount)
    BY <1>2, <1>3, <1>4, PaymentWorth
  <1>6. Shown = f /\ Shown' = g
    BY PlainShown
  <1>7. \A p \in Accounts : f[p] \in Int /\ g[p] \in Int
    BY DEF IInv, TypeOK, VaultTypeOK, Holders, Worth
  <1> HIDE DEF f, g
  <1>8. Neutral
    BY <1>3, <1>4, <1>5, <1>6, <1>7 DEF Neutral, MovedBy
  <1>9. OnlyTheseLose({payer})
    BY <1>3, <1>5, <1>6, <1>7 DEF OnlyTheseLose, MovedBy
  <1>10. /\ state'[b] \in {"ACCEPTED", "PAID", "LIQUIDATED"} /\ bid' = bid /\ lender' = lender
         /\ \A c \in Bids \ {b} : state'[c] = state[c]
    BY <1>1, PaymentOutcome
  <1>11. Moves(state[b], state'[b])
    BY <1>2, <1>10 DEF Moves
  <1> QED
    BY <1>2, <1>4, <1>8, <1>9, <1>10, <1>11, PlainShown, OrdinaryMaps

\* What the vault pays out was its owner's before.
LEMMA WithdrawMaps ==
    ASSUME tx = NoTx, tx' = NoTx, IInv, NEW acct \in Accounts, NEW amount \in Payments,
           WithdrawFromVault(acct, amount)
    PROVE  UNCHANGED Promise!swapVars
  <1>1. /\ tokenBalance \in [Holders -> Nat] /\ vaultBalances \in [Accounts -> Nat]
        /\ amount \in Nat /\ acct \in Holders /\ Vault \notin Accounts /\ Accounts \subseteq Holders
    BY LendNestAssumption DEF IInv, TypeOK, VaultTypeOK, Holders
  <1>2. /\ tokenBalance' = Transfer(tokenBalance, Vault, acct, amount)
        /\ vaultBalances' = [vaultBalances EXCEPT ![acct] = @ - amount]
        /\ UNCHANGED <<bid, state, lender>>
    BY DEF WithdrawFromVault, VaultWithdraw, CreditAfterWithdraw, loanVars
  <1>3. \A p \in Accounts : tokenBalance'[p] + vaultBalances'[p] = tokenBalance[p] + vaultBalances[p]
    BY <1>1, <1>2 DEF Transfer
  <1>4. Shown' = Shown
    BY <1>3, PlainShown DEF Worth
  <1>5. /\ UNCHANGED [acct2 \in Accounts |-> CommittedTokens[acct2] + CommittedVault[acct2]]
        /\ UNCHANGED CommittedState /\ UNCHANGED CommittedBid /\ UNCHANGED CommittedLender
    BY <1>2, <1>4, ShownWorth, PlainShown
  <1> QED
    BY <1>5 DEF Promise!swapVars

\* What others do between transactions.
LEMMA OthersMap ==
    ASSUME tx = NoTx, tx' = NoTx, IInv, IInv', ShownTypes, ShownTypes', ApartInv, Next
    PROVE  [Promise!Next]_(Promise!swapVars)
  <1>1. state \in [Bids -> BidState] /\ bid \in [Bids -> BidType]
    BY DEF IInv, TypeOK, LoanTypeOK
  <1>2. ASSUME NEW sender \in Borrowers, NEW receiver, NEW m, NEW principal, NEW duration,
               NEW apr, NEW infos, SubmitBid(sender, receiver, m, principal, duration, apr, infos)
        PROVE  Promise!Next
    <2>1. bidId \in Bids /\ state[bidId] = "NONEXISTENT"
      BY <1>2, FreshBid DEF SubmitBid
    <2>2. /\ bid' = [bid EXCEPT ![bidId] = NewBid(sender, receiver, m, principal, duration, apr)]
          /\ state' = [state EXCEPT ![bidId] = "PENDING"]
          /\ UNCHANGED <<lender, tokenBalance, vaultBalances>>
      BY <1>2 DEF SubmitBid, vaultVars
    <2>3. /\ \A b \in Bids \ {bidId} : bid'[b] = bid[b] /\ state'[b] = state[b]
          /\ state'[bidId] = "PENDING" /\ Moves(state[bidId], state'[bidId])
      BY <1>1, <2>1, <2>2 DEF Moves
    <2> QED
      BY <2>1, <2>2, <2>3, UnpaidMaps
  <1>3. ASSUME NEW b \in Bids, Cancel(b) \/ LenderCloseLoan(b)
        PROVE  Promise!Next
    <2>1. /\ UNCHANGED <<bid, lender, tokenBalance, vaultBalances>>
          /\ \A c \in Bids \ {b} : state'[c] = state[c]
          /\ state'[b] # "ACCEPTED" /\ Moves(state[b], state'[b])
      BY <1>1, <1>3 DEF Cancel, LenderCloseLoan, vaultVars, Moves
    <2> QED
      BY <2>1, UnpaidMaps
  <1>4. CASE BorrowerStep
    BY <1>2, <1>3, <1>4 DEF BorrowerStep, CancelBid, MarketOwnerCancelBid
  <1>5. CASE LenderStep
    <2>1. PICK b \in Bids :
             \/ \E sender \in Lenders : LenderAcceptBid(sender, b) \/ ClaimLoanNFT(sender, b)
             \/ \E to \in Assignees : TransferLoanNFT(to, b)
      BY <1>5 DEF LenderStep
    <2>2. ASSUME NEW acct, TransferLoanNFT(acct, b)
          PROVE  UNCHANGED <<bid, state, lender, tokenBalance, vaultBalances>>
      BY <2>2 DEF TransferLoanNFT, vaultVars
    <2>3. ASSUME NEW acct, ClaimLoanNFT(acct, b)
          PROVE  Promise!Next
      <3>1. /\ UNCHANGED <<bid, state, tokenBalance, vaultBalances>> /\ state[b] = "ACCEPTED"
            /\ \A c \in Bids \ {b} : lender'[c] = lender[c]
        BY <2>3 DEF ClaimLoanNFT, vaultVars, IInv, TypeOK, LoanTypeOK
      <3>2. Moves(state[b], state'[b])
        BY <3>1 DEF Moves
      <3> QED
        BY <3>1, <3>2, UnpaidMaps
    <2> QED
      BY <2>1, <2>2, <2>3, AcceptMaps, IdleMaps
  <1>6. CASE PaymentStep
    BY <1>6, PaymentMaps
  <1>7. CASE CustodyStep
    <2>1. ASSUME NEW b \in Bids, WithdrawPaidCollateral(b)
          PROVE  UNCHANGED <<bid, state, lender, tokenBalance, vaultBalances>>
      BY <2>1 DEF WithdrawPaidCollateral, loanVars, vaultVars
    <2> QED
      BY <1>3, <1>7, <2>1, WithdrawMaps, IdleMaps DEF CustodyStep
  <1>8. CASE ReputationStep \/ OwnerStep \/ MarketStep \/ Tick
    <2>1. UNCHANGED <<loanVars, vaultVars>>
      BY <1>8 DEF ReputationStep, UpdateAccountReputation, UpdateBidReputation, OwnerStep,
         PauseProtocol, UnpauseProtocol, SetProtocolFee, MarketStep, Tick
    <2> QED
      BY <2>1, IdleMaps DEF loanVars, vaultVars
  <1> QED
    BY <1>4, <1>5, <1>6, <1>7, <1>8 DEF Next

\* The last step of a rollover shows all of it: the new loan for the old one, paid for
\* by the debtor and whoever backs the new loan.
LEMMA FinishMaps ==
    ASSUME ExtInv, ProgressInv, IsRollover, FinishStep, ShownTypes, ShownTypes'
    PROVE  Promise!Next
  <1> DEFINE s   == tx.saved
             old == tx.loan
             new == tx.newLoan
             by  == tx.by
  <1>1. /\ RolloverOK /\ RolloverProgress /\ tx # NoTx /\ tx.stage = "finish"
        /\ by \in Contracts /\ by \in Accounts /\ Contracts \subseteq Accounts
        /\ Pool \notin Contracts /\ tx.flashed \in Nat /\ tx.fee \in Nat
    BY AmountTypes, OthersApart DEF FinishStep, RolloverOK
  <1>2. /\ old \in Bids /\ new \in Bids /\ old # new
        /\ s.state[old] = "ACCEPTED" /\ state[old] = "PAID"
        /\ s.state[new] = "NONEXISTENT" /\ state[new] = "ACCEPTED"
        /\ \A b \in Bids \ {old, new} : state[b] = s.state[b]
        /\ \A b \in Bids \ {new} : bid[b] = s.bid[b] /\ lender[b] = s.lender[b]
        /\ bid[new].borrower = Debtor(tx) /\ lender[new] = Backer(tx)
    BY <1>1, FinishedLoans DEF RolloverProgress
  <1>3. /\ FundsRemaining \in Nat /\ Debtor(tx) \in Accounts /\ Debtor(tx) \notin Contracts
        /\ \A p \in Accounts :
              tokenBalance'[p] = tokenBalance[p]
                 - (IF p = by THEN FundsRemaining + tx.flashed + tx.fee ELSE 0)
                 + (IF p = Debtor(tx) THEN FundsRemaining ELSE 0)
                 + (IF p = Pool THEN tx.flashed + tx.fee ELSE 0)
        /\ Total(Worth(tokenBalance', vaultBalances'), Accounts)
              = Total(Worth(tokenBalance, vaultBalances), Accounts)
        /\ vaultBalances' = vaultBalances /\ tx' = NoTx
        /\ bid' = bid /\ state' = state /\ lender' = lender
    BY FinishMoves
  <1>4. tokenBalance[by] = s.tokenBalance[by] + FundsRemaining + tx.flashed + tx.fee
    BY <1>1, FinishFunds
  <1>5. /\ \A p \in Contracts : /\ vaultBalances[p] = s.vaultBalances[p]
                                /\ p # by => tokenBalance[p] = s.tokenBalance[p]
        /\ Total(Worth(tokenBalance, vaultBalances), Accounts)
              = Total(Worth(s.tokenBalance, s.vaultBalances), Accounts)
        /\ \A p \in Accounts \ (Contracts \cup {Debtor(tx), Backer(tx)}) :
              tokenBalance[p] + vaultBalances[p] + (IF p = Pool THEN tx.flashed ELSE 0)
                 >= s.tokenBalance[p] + s.vaultBalances[p]
    BY <1>1 DEF RolloverProgress, BalancesOK
  <1>6. \A p \in Accounts : /\ tokenBalance[p] \in Nat /\ vaultBalances[p] \in Nat
                            /\ s.tokenBalance[p] \in Nat /\ s.vaultBalances[p] \in Nat
    BY <1>1, SavedBalances DEF ExtInv, IInv, TypeOK, VaultTypeOK, Holders
  <1>7. /\ CommittedState = s.state /\ CommittedState' = state
        /\ CommittedBid = s.bid /\ CommittedBid' = bid
        /\ CommittedLender = s.lender /\ CommittedLender' = lender
        /\ Shown = Worth(s.tokenBalance, s.vaultBalances)
        /\ Shown' = Worth(tokenBalance', vaultBalances')
    BY <1>1, <1>3 DEF CommittedState, CommittedBid, CommittedLender, CommittedTokens,
       CommittedVault, Shown
  <1>8. \A p \in Accounts : /\ Shown[p] = s.tokenBalance[p] + s.vaultBalances[p]
                            /\ Shown'[p] = tokenBalance'[p] + vaultBalances[p]
    BY <1>3, <1>7 DEF Worth
  <1> HIDE DEF s, old, new, by
  <1>9. Neutral
    <2>1. ASSUME NEW p \in Contracts PROVE tokenBalance'[p] = s.tokenBalance[p]
      <3>1. p \in Accounts /\ p # Pool /\ p # Debtor(tx)
        BY <1>1, <1>3
      <3> QED
        BY <1>1, <1>3, <1>4, <1>5, <1>6, <3>1
    <2>2. \A p \in Contracts : Shown'[p] = Shown[p]
      BY <1>1, <1>5, <1>8, <2>1
    <2> QED
      BY <1>3, <1>5, <1>7, <2>2 DEF Neutral
  <1>10. OnlyTheseLose({Debtor(tx), Backer(tx)})
    <2> SUFFICES ASSUME NEW p \in Accounts, p # Debtor(tx), p # Backer(tx)
                 PROVE  Shown'[p] >= Shown[p]
      BY DEF OnlyTheseLose
    <2>1. CASE p \in Contracts
      <3>1. Shown'[p] = Shown[p] /\ Shown[p] \in Int
        BY <1>6, <1>8, <1>9, <2>1 DEF Neutral
      <3> QED
        BY <3>1
    <2>2. CASE p \notin Contracts
      <3>1. tokenBalance'[p] = tokenBalance[p] + (IF p = Pool THEN tx.flashed + tx.fee ELSE 0)
        BY <1>1, <1>3, <1>6, <2>2
      <3>2. tokenBalance[p] + vaultBalances[p] + (IF p = Pool THEN tx.flashed ELSE 0)
               >= s.tokenBalance[p] + s.vaultBalances[p]
        BY <1>5, <2>2
      <3> QED
        BY <1>1, <1>6, <1>8, <3>1, <3>2
    <2> QED
      BY <2>1, <2>2
  <1>11. Backer(tx) \in Accounts
    BY <1>1, CommitmentsAssumption DEF Backer, RolloverOK
  <1>12. CommittedBid[old].borrower = Debtor(tx)
    BY <1>7 DEF Debtor, s, old
  <1> QED
    BY <1>2, <1>7, <1>9, <1>10, <1>11, <1>12, SwapMaps

\* So does the last step of an automatic payment: the borrower has paid.
LEMMA AutopayMaps ==
    ASSUME ExtInv, ExtInv', ProgressInv, NEW direct \in TransferOutcomes, AutopayStep(direct),
           ShownTypes, ShownTypes'
    PROVE  Promise!Next
  <1> DEFINE s     == tx.saved
             b     == tx.loan
             payer == bid[b].borrower
             taken == AmountTaken(b, tx.amount - InterestOwed(b), InterestOwed(b))
  <1>1. /\ AutopayOK /\ AutopayProgress /\ IInv /\ IInv' /\ tx # NoTx /\ tx' = NoTx
        /\ b \in Bids /\ tx.amount \in Nat /\ tx.amount = EstimatedMinimumPayment(b)
        /\ RepayLoan(Autopay, b, tx.amount, TRUE, direct) /\ direct \in BOOLEAN
        /\ OwnersApart /\ PartiesApart(bidId, bid, lender)
    <2>1. AutopayOK /\ tx # NoTx
      BY DEF ExtInv, AutopayStep, RolloverOK, NoTx
    <2> QED
      BY <2>1, LendNestAssumption DEF ExtInv, AutopayStep, AutopayOK, ProgressInv, ApartInv
  <1>2. /\ tx.amount - InterestOwed(b) \in Nat
        /\ PaysBack(Autopay, b, "ACCEPTED", tx.amount - InterestOwed(b), direct)
    BY <1>1, AmountPaysBack
  <1>3. /\ state[b] = "ACCEPTED" /\ ~OwedReverts(b)
        /\ SendOrEscrowFunds(Autopay, b, taken, direct)
    BY <1>2 DEF PaysBack, RepayLoan_
  <1>4. /\ Owed(b) \in Nat /\ InterestOwed(b) \in Nat /\ Due(b) \in Nat /\ Due(b) <= Owed(b)
        /\ tx.amount >= Due(b) + InterestOwed(b)
    BY <1>1, <1>3, OwedType, DueType DEF RepayLoan
  <1>5. taken = tx.amount
    <2>1. tx.amount = Due(b) + InterestOwed(b) \/ tx.amount = 0
      BY <1>1 DEF EstimatedMinimumPayment
    <2>2. tx.amount <= Owed(b) + InterestOwed(b)
      BY <1>4, <2>1
    <2>3. (tx.amount - InterestOwed(b)) + InterestOwed(b) = tx.amount
      BY <1>1, <1>4
    <2> QED
      BY <1>1, <1>4, <2>2, <2>3 DEF AmountTaken, IsSettled
  <1>6. /\ Autopay \in Contracts /\ payer \in Accounts /\ payer \notin Contracts
        /\ Contracts \subseteq Accounts
    BY <1>1, OthersApart, LendNestAssumption DEF Contracts, AutopayProgress
  <1>7. /\ bid = s.bid /\ state = s.state /\ lender = s.lender /\ vaultBalances = s.vaultBalances
        /\ tokenBalance[Autopay] = s.tokenBalance[Autopay] + tx.amount
        /\ \A p \in Contracts : p # Autopay => tokenBalance[p] = s.tokenBalance[p]
        /\ Total(Worth(tokenBalance, vaultBalances), Accounts)
              = Total(Worth(s.tokenBalance, s.vaultBalances), Accounts)
        /\ \A p \in Accounts \ (Contracts \cup {payer}) : tokenBalance[p] >= s.tokenBalance[p]
    BY <1>1 DEF AutopayProgress
  <1>8. \A p \in Accounts : /\ tokenBalance[p] \in Nat /\ vaultBalances[p] \in Nat
                            /\ tokenBalance'[p] \in Nat /\ vaultBalances'[p] \in Nat
                            /\ s.tokenBalance[p] \in Nat /\ s.vaultBalances[p] \in Nat
    BY <1>1, SavedBalances DEF IInv, TypeOK, VaultTypeOK, Holders
  <1>9. /\ state'[b] \in {"ACCEPTED", "PAID"} /\ bid' = bid /\ lender' = lender
        /\ \A c \in Bids \ {b} : state'[c] = state[c]
    BY <1>1, <1>2, PaymentOutcome
  <1>10. /\ CommittedState = s.state /\ CommittedState' = state'
         /\ CommittedBid = s.bid /\ CommittedBid' = bid'
         /\ CommittedLender = s.lender /\ CommittedLender' = lender'
         /\ Shown = Worth(s.tokenBalance, s.vaultBalances)
         /\ Shown' = Worth(tokenBalance', vaultBalances')
    BY <1>1 DEF CommittedState, CommittedBid, CommittedLender, CommittedTokens,
       CommittedVault, Shown
  <1>11. \A p \in Accounts : /\ Shown[p] = s.tokenBalance[p] + s.vaultBalances[p]
                             /\ Shown'[p] = tokenBalance'[p] + vaultBalances'[p]
    BY <1>10 DEF Worth
  <1> HIDE DEF s, b, payer, taken
  <1>12. /\ tokenBalance'[Autopay] = tokenBalance[Autopay] - tx.amount
         /\ \A p \in Contracts : /\ vaultBalances'[p] = vaultBalances[p]
                                 /\ p # Autopay => tokenBalance'[p] = tokenBalance[p]
         /\ Total(Worth(tokenBalance', vaultBalances'), Accounts)
               = Total(Worth(tokenBalance, vaultBalances), Accounts)
         /\ \A p \in Accounts \ Contracts :
               tokenBalance'[p] + vaultBalances'[p] >= tokenBalance[p] + vaultBalances[p]
    BY <1>1, <1>3, <1>5, <1>6, ContractPays
  <1>13. Neutral
    <2>1. \A p \in Contracts : tokenBalance'[p] = s.tokenBalance[p]
      BY <1>1, <1>6, <1>7, <1>8, <1>12
    <2>2. \A p \in Contracts : Shown'[p] = Shown[p]
      BY <1>6, <1>7, <1>11, <1>12, <2>1
    <2> QED
      BY <1>7, <1>10, <1>12, <2>2 DEF Neutral
  <1>14. OnlyTheseLose({payer})
    <2> SUFFICES ASSUME NEW p \in Accounts, p # payer PROVE Shown'[p] >= Shown[p]
      BY DEF OnlyTheseLose
    <2>1. CASE p \in Contracts
      <3>1. Shown'[p] = Shown[p] /\ Shown[p] \in Int
        BY <1>8, <1>11, <1>13, <2>1 DEF Neutral
      <3> QED
        BY <3>1
    <2>2. CASE p \notin Contracts
      BY <1>7, <1>8, <1>11, <1>12, <2>2
    <2> QED
      BY <2>1, <2>2
  <1>15. Moves(CommittedState[b], CommittedState'[b])
    BY <1>3, <1>7, <1>9, <1>10 DEF Moves
  <1>16. CommittedState[b] = "ACCEPTED" /\ CommittedLender' = CommittedLender
    BY <1>3, <1>7, <1>9, <1>10
  <1> QED
    BY <1>1, <1>6, <1>7, <1>9, <1>10, <1>13, <1>14, <1>15, <1>16, OrdinaryMaps

\* Calls that come before the last one show nothing, and neither does a failure.
LEMMA CallsHidden ==
    ASSUME \/ tx = NoTx /\ tx' # NoTx /\ tx'.saved = Committed
           \/ tx # NoTx /\ tx' # NoTx /\ tx'.saved = tx.saved
           \/ Revert
    PROVE  UNCHANGED Promise!swapVars
  <1>1. UNCHANGED <<CommittedState, CommittedBid, CommittedLender, CommittedTokens, CommittedVault>>
    <2>1. CASE tx = NoTx /\ tx' # NoTx /\ tx'.saved = Committed
      BY <2>1 DEF CommittedState, CommittedBid, CommittedLender, CommittedTokens,
         CommittedVault, Committed
    <2>2. CASE tx # NoTx /\ tx' # NoTx /\ tx'.saved = tx.saved
      BY <2>2 DEF CommittedState, CommittedBid, CommittedLender, CommittedTokens,
         CommittedVault
    <2>3. CASE Revert
      BY <2>3 DEF CommittedState, CommittedBid, CommittedLender, CommittedTokens,
         CommittedVault, Revert
    <2> QED
      BY <2>1, <2>2, <2>3
  <1> QED
    BY <1>1, HiddenMaps

LEMMA SwapInit == ExtensionsInit => Promise!Init
  <1> SUFFICES ASSUME ExtensionsInit PROVE Promise!Init
    OBVIOUS
  <1>1. /\ tx = NoTx /\ Init /\ ExtInv
    BY ExtensionsInitInv DEF ExtensionsInit
  <1>2. /\ CommittedState = [b \in Bids |-> "NONEXISTENT"]
        /\ CommittedBid = [b \in Bids |-> EmptyBid]
        /\ CommittedLender = [b \in Bids |-> NoAccount]
    BY <1>1 DEF CommittedState, CommittedBid, CommittedLender, Init
  <1>3. ShownTypes
    BY <1>1, ShownTyped
  <1>4. [acct \in Accounts |-> CommittedTokens[acct] + CommittedVault[acct]] \in [Accounts -> Nat]
    BY <1>3 DEF ShownTypes, Holders
  <1> QED
    BY <1>2, <1>4 DEF Promise!Init, StatusOf, EmptyBid

LEMMA SwapStep ==
    ExtInv /\ ExtInv' /\ ProgressInv /\ ShownTypes /\ ShownTypes' /\ [ExtensionsNext]_allVars
       => [Promise!Next]_(Promise!swapVars)
  <1> SUFFICES ASSUME ExtInv, ExtInv', ProgressInv, ShownTypes, ShownTypes',
                      [ExtensionsNext]_allVars
               PROVE  [Promise!Next]_(Promise!swapVars)
    OBVIOUS
  <1>1. CASE tx' # NoTx
    BY <1>1, SavedForm, CallsHidden
  <1>2. CASE tx' = NoTx /\ Revert
    BY <1>2, CallsHidden
  <1>3. CASE RolloverStart /\ tx' = NoTx
    <2>1. ASSUME NEW sender, NEW b, NEW c, NEW principal, NEW offered,
                 RolloverLoan(sender, b, c, principal, offered)
          PROVE  tx'.kind = "rollover"
      BY <2>1 DEF RolloverLoan
    <2>2. ASSUME NEW sender, NEW b, NEW c, NEW principal, NEW flashed, NEW offered,
                 RolloverLoanWithFlash(sender, b, c, principal, flashed, offered)
          PROVE  tx'.kind = "flash"
      BY <2>2 DEF RolloverLoanWithFlash
    <2> QED
      BY <1>3, <2>1, <2>2 DEF RolloverStart, NoTx
  <1>4. CASE AutopayStart /\ tx' = NoTx
    <2>1. tx = NoTx /\ UNCHANGED vars
      BY <1>4 DEF AutopayStart, SetAutoPayEnabled, SetAutopayFee, AutoPayLoanMinimum, NoTx
    <2> QED
      BY <1>4, <2>1, IdleMaps DEF vars, loanVars, vaultVars
  <1>5. CASE TransactionStep /\ tx' = NoTx
    <2>1. ASSUME NEW direct \in TransferOutcomes, RepayStep(direct) PROVE FALSE
      BY <1>5, <2>1 DEF RepayStep, ExtInv, RolloverOK, RolloverFields, AutopayOK, NoTx
    <2>2. ASSUME SubmitStep \/ AcceptStep PROVE FALSE
      BY <1>5, <2>2 DEF SubmitStep, AcceptStep, ExtInv, RolloverOK, RolloverFields, AutopayOK, NoTx
    <2>3. FinishStep => IsRollover
      BY DEF FinishStep, IsRollover
    <2> QED
      BY <1>5, <2>1, <2>2, <2>3, FinishMaps, AutopayMaps DEF TransactionStep
  <1>6. CASE OthersStep \/ PaidByHand
    <2>1. tx = NoTx /\ tx' = NoTx /\ Next
      BY <1>6, OthersAreNext DEF extensionVars
    <2> QED
      BY <2>1, OthersMap DEF ExtInv, ProgressInv
  <1>7. CASE UNCHANGED allVars
    <2>1. UNCHANGED <<tx, state, bid, lender, tokenBalance, vaultBalances>>
      BY <1>7 DEF allVars, vars, extensionVars, loanVars, vaultVars
    <2>2. UNCHANGED <<CommittedState, CommittedBid, CommittedLender, CommittedTokens, CommittedVault>>
      BY <2>1 DEF CommittedState, CommittedBid, CommittedLender, CommittedTokens,
         CommittedVault
    <2> QED
      BY <2>2, HiddenMaps
  <1> QED
    BY <1>1, <1>2, <1>3, <1>4, <1>5, <1>6, <1>7 DEF ExtensionsNext

\* Whatever call of a rollover or an automatic payment fails, the chain shows a loan
\* replaced by another at one stroke, or paid, or nothing: no token is lost, none
\* sticks to the contracts, and nobody else pays.
THEOREM SwapRefinement == ExtensionsSpec => ImplementsLoanSwap
  <1>1. ExtInv' => ShownTypes'
    BY ShownTyped, PTL
  <1>2. ExtInv /\ ProgressInv /\ ExtInv' /\ [ExtensionsNext]_allVars
           => [Promise!Next]_(Promise!swapVars)
    BY <1>1, ShownTyped, SwapStep
  <1> QED
    BY <1>2, SwapInit, Progress, PTL DEF ExtensionsSpec, ImplementsLoanSwap, Promise!Spec
=============================================================================
