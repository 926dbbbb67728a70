--------------------------- MODULE LoanSteps_proofs ---------------------------
(***************************************************************************)
(* Proofs about what single steps of LendNestV2 do and may never do: the   *)
(* list of a borrower's active loans, the money that moves when a bid is   *)
(* accepted and when a loan is paid, the moment of default, and the marks  *)
(* late payments leave; the vault, which can pay every lender at once; the *)
(* due dates of payments, by the calendar and by the second; and the way   *)
(* out of a loan, which no check of the code closes.                       *)
(* At the end, that LendNestV2 with its collateral manager, its escrows    *)
(* and its loan NFTs implements CollateralizedLoan: every transaction is a *)
(* step of one loan of the abstract specification, or changes nothing it   *)
(* speaks of.  They rest on the invariant of LendNestV2_proofs.            *)
(***************************************************************************)
EXTENDS LendNestV2_proofs, FiniteSums_proofs

-----------------------------------------------------------------------------
(* What a step can be *)

\* The id the next bid gets is that of no bid so far.
LEMMA FreshBid ==
    ASSUME IInv, bidId < MaxBids
    PROVE  bidId \in Bids /\ state[bidId] = "NONEXISTENT"
  BY TypesAssumption DEF IInv, TypeOK, LoanTypeOK, WellFormed, Bids

\* Every payment is one call of _repayLoan on an accepted loan, by a payer, of a
\* principal and the interest owed at that moment: a liquidator's covers the debt, any
\* other is at least what is due.
PaysBack(payer, b, st, principal, direct) ==
    /\ state[b] = "ACCEPTED" /\ ~OwedReverts(b)
    /\ IF st = "LIQUIDATED" THEN principal = Owed(b) ELSE Due(b) <= principal
    /\ RepayLoan_(payer, b, st, principal, InterestOwed(b), direct)

LEMMA PaymentForm ==
    ASSUME IInv, PaymentStep
    PROVE  \E payer \in Payers, b \in Bids, st \in {"ACCEPTED", "LIQUIDATED"},
              principal \in Nat, direct \in BOOLEAN : PaysBack(payer, b, st, principal, direct)
  <1>1. PICK payer \in Payers, b \in Bids, direct \in TransferOutcomes :
           \/ RepayLoanMinimum(payer, b, direct)
           \/ \E withdraw \in BOOLEAN :
                 \/ RepayLoanFull(payer, b, withdraw, direct)
                 \/ \E amount \in Payments : RepayLoan(payer, b, amount, withdraw, direct)
           \/ LiquidateLoanFull(payer, b, direct)
    BY DEF PaymentStep
  <1>2. state[b] = "ACCEPTED" /\ ~OwedReverts(b) /\ direct \in BOOLEAN
    BY <1>1, LendNestAssumption DEF RepayLoanMinimum, RepayLoanFull, RepayLoan, LiquidateLoanFull
  <1>3. Owed(b) \in Nat /\ InterestOwed(b) \in Nat /\ Due(b) \in Nat /\ Due(b) <= Owed(b)
    BY <1>2, OwedType, DueType
  <1>4. CASE RepayLoanMinimum(payer, b, direct)
    <2>1. PaysBack(payer, b, "ACCEPTED", Due(b), direct)
      BY <1>2, <1>3, <1>4 DEF RepayLoanMinimum, RepayAccepted, PaysBack
    <2> QED
      BY <1>2, <1>3, <2>1
  <1>5. ASSUME NEW withdraw \in BOOLEAN, RepayLoanFull(payer, b, withdraw, direct)
        PROVE  PaysBack(payer, b, "ACCEPTED", Owed(b), direct)
    BY <1>2, <1>3, <1>5 DEF RepayLoanFull, RepayAccepted, PaysBack
  <1>6. ASSUME NEW withdraw \in BOOLEAN, NEW amount \in Payments,
               RepayLoan(payer, b, amount, withdraw, direct)
        PROVE  /\ amount - InterestOwed(b) \in Nat
               /\ PaysBack(payer, b, "ACCEPTED", amount - InterestOwed(b), direct)
    <2>1. amount - InterestOwed(b) \in Nat
      BY <1>3, <1>6, LendNestAssumption DEF RepayLoan
    <2>2. Due(b) <= amount - InterestOwed(b)
      BY <1>3, <1>6, LendNestAssumption DEF RepayLoan
    <2>3. PaysBack(payer, b, "ACCEPTED", amount - InterestOwed(b), direct)
      BY <1>2, <1>6, <2>2 DEF RepayLoan, RepayAccepted, PaysBack
    <2> QED
      BY <2>1, <2>3
  <1>7. CASE LiquidateLoanFull(payer, b, direct)
    <2>1. PaysBack(payer, b, "LIQUIDATED", Owed(b), direct)
      BY <1>2, <1>7 DEF LiquidateLoanFull, PaysBack
    <2> QED
      BY <1>2, <1>3, <2>1
  <1> QED
    BY <1>1, <1>2, <1>3, <1>4, <1>5, <1>6, <1>7

\* What a payment makes of the loan's state.
LEMMA PaymentOutcome ==
    ASSUME IInv, NEW payer, NEW b \in Bids, NEW st \in {"ACCEPTED", "LIQUIDATED"},
           NEW principal \in Nat, NEW direct, PaysBack(payer, b, st, principal, direct)
    PROVE  /\ state'[b] = IF ~IsSettled(b, principal, InterestOwed(b)) THEN "ACCEPTED"
                          ELSE IF st = "LIQUIDATED" THEN "LIQUIDATED" ELSE "PAID"
           /\ st = "LIQUIDATED" => IsSettled(b, principal, InterestOwed(b))
           /\ \A c \in Bids \ {b} : state'[c] = state[c] /\ lastRepaid'[c] = lastRepaid[c]
           /\ UNCHANGED <<bidId, bid, lender, loanOwner, accepted, now>>
  <1>1. state \in [Bids -> BidState] /\ state[b] = "ACCEPTED"
    BY DEF IInv, TypeOK, LoanTypeOK, PaysBack
  <1>2. Owed(b) \in Nat /\ InterestOwed(b) \in Nat
    BY <1>1, OwedType
  <1>3. st = "LIQUIDATED" => IsSettled(b, principal, InterestOwed(b))
    BY <1>2 DEF PaysBack, IsSettled
  <1>4. state' = [state EXCEPT ![b] = StateAfterPayment(b, st, principal, InterestOwed(b))]
    BY DEF PaysBack, RepayLoan_
  <1>5. state'[b] = StateAfterPayment(b, st, principal, InterestOwed(b))
    BY <1>1, <1>4
  <1>6. \A c \in Bids \ {b} : state'[c] = state[c] /\ lastRepaid'[c] = lastRepaid[c]
    BY <1>1, <1>4 DEF IInv, TypeOK, LoanTypeOK, PaysBack, RepayLoan_
  <1> QED
    BY <1>3, <1>5, <1>6 DEF PaysBack, RepayLoan_, StateAfterPayment

\* Every step that is neither a payment nor one of the named ones on a bid leaves
\* the loans alone.
LEMMA StepForm ==
    ASSUME [Next]_vars
    PROVE  \/ \E sender \in Borrowers, receiver \in Receivers, m \in Markets,
                 principal \in Principals, duration \in Durations, apr \in APRs,
                 offered \in SUBSET Assets :
                 \E infos \in [offered -> CollateralAmounts] :
                    SubmitBid(sender, receiver, m, principal, duration, apr, infos)
           \/ \E b \in Bids : Cancel(b)
           \/ \E sender \in Lenders, b \in Bids : LenderAcceptBid(sender, b)
           \/ \E sender \in Lenders, b \in Bids : ClaimLoanNFT(sender, b)
           \/ \E to \in Assignees, b \in Bids : TransferLoanNFT(to, b)
           \/ PaymentStep
           \/ \E b \in Bids : LenderCloseLoan(b)
           \/ UNCHANGED loanVars
  <1>1. CASE BorrowerStep
    BY <1>1 DEF BorrowerStep, CancelBid, MarketOwnerCancelBid
  <1>2. CASE LenderStep
    BY <1>2 DEF LenderStep
  <1>3. CASE CustodyStep
    BY <1>3 DEF CustodyStep, WithdrawPaidCollateral, WithdrawFromVault
  <1>4. CASE ReputationStep \/ OwnerStep \/ MarketStep \/ Tick
    BY <1>4 DEF ReputationStep, UpdateAccountReputation, UpdateBidReputation, OwnerStep,
       PauseProtocol, UnpauseProtocol, SetProtocolFee, MarketStep, Tick
  <1>5. CASE UNCHANGED vars
    BY <1>5 DEF vars
  <1> QED
    BY <1>1, <1>2, <1>3, <1>4, <1>5 DEF Next

-----------------------------------------------------------------------------
(* The borrower's active loans *)

\* A step keeps every running loan among its borrower's active bids and takes
\* loans that were paid off out.
LEMMA StepTracked ==
    ASSUME IInv, ActiveLoansTracked, [Next]_vars
    PROVE  ActiveLoansTracked'
  <1> USE DEF ActiveLoansTracked
  <1>1. /\ state \in [Bids -> BidState] /\ active \in [Accounts -> SUBSET Bids]
        /\ bid \in [Bids -> BidType]
    BY DEF IInv, TypeOK, LoanTypeOK
  <1>2. ASSUME NEW sender \in Borrowers, NEW receiver, NEW m, NEW principal, NEW duration,
               NEW apr, NEW infos, SubmitBid(sender, receiver, m, principal, duration, apr, infos)
        PROVE  ActiveLoansTracked'
    <2>1. bidId \in Bids /\ state[bidId] = "NONEXISTENT"
      BY <1>2, FreshBid DEF SubmitBid
    <2>2. /\ state' = [state EXCEPT ![bidId] = "PENDING"] /\ active' = active
          /\ \A b \in Bids \ {bidId} : bid'[b] = bid[b]
      BY <1>1, <1>2 DEF SubmitBid
    <2> QED
      BY <1>1, <2>1, <2>2
  <1>3. ASSUME NEW b \in Bids, Cancel(b) PROVE ActiveLoansTracked'
    BY <1>1, <1>3 DEF Cancel
  <1>4. ASSUME NEW b \in Bids, NEW sender, LenderAcceptBid(sender, b) PROVE ActiveLoansTracked'
    <2>1. state[b] = "PENDING" /\ bid[b].borrower \in Accounts
      BY <1>4 DEF LenderAcceptBid, IInv, WellFormed
    <2>2. /\ state' = [state EXCEPT ![b] = "ACCEPTED"] /\ bid' = bid
          /\ active' = [active EXCEPT ![bid[b].borrower] = @ \cup {b}]
      BY <1>4 DEF LenderAcceptBid
    <2> QED
      BY <1>1, <2>1, <2>2
  <1>5. ASSUME NEW b \in Bids, NEW acct, ClaimLoanNFT(acct, b) \/ TransferLoanNFT(acct, b)
        PROVE  ActiveLoansTracked'
    BY <1>5 DEF ClaimLoanNFT, TransferLoanNFT
  <1>6. CASE PaymentStep
    <2>1. PICK payer \in Payers, b \in Bids, st \in {"ACCEPTED", "LIQUIDATED"},
               principal \in Nat, direct \in BOOLEAN : PaysBack(payer, b, st, principal, direct)
      BY <1>6, PaymentForm
    <2>2. state[b] = "ACCEPTED" /\ bid[b].borrower \in Accounts /\ bid' = bid
      BY <2>1, PaymentOutcome DEF PaysBack, IInv, WellFormed
    <2>3. active' = ActiveAfterPayment(b, principal, InterestOwed(b))
      BY <2>1 DEF PaysBack, RepayLoan_
    <2>4. \A c \in Bids \ {b} : state'[c] = state[c]
      BY <2>1, PaymentOutcome
    <2>5. CASE IsSettled(b, principal, InterestOwed(b))
      <3>1. active' = [active EXCEPT ![bid[b].borrower] = @ \ {b}]
        BY <2>3, <2>5 DEF ActiveAfterPayment
      <3>2. state'[b] \in {"PAID", "LIQUIDATED"}
        BY <2>1, <2>5, PaymentOutcome
      <3> QED
        BY <1>1, <2>2, <2>4, <3>1, <3>2
    <2>6. CASE ~IsSettled(b, principal, InterestOwed(b))
      <3>1. active' = active
        BY <2>3, <2>6 DEF ActiveAfterPayment
      <3>2. state'[b] = "ACCEPTED"
        BY <2>1, <2>6, PaymentOutcome
      <3> QED
        BY <1>1, <2>2, <2>4, <3>1, <3>2
    <2> QED
      BY <2>5, <2>6
  <1>7. ASSUME NEW b \in Bids, LenderCloseLoan(b) PROVE ActiveLoansTracked'
    BY <1>1, <1>7 DEF LenderCloseLoan
  <1>8. CASE UNCHANGED loanVars
    BY <1>8 DEF loanVars
  <1> QED
    BY <1>2, <1>3, <1>4, <1>5, <1>6, <1>7, <1>8, StepForm

\* Every running loan is among its borrower's active bids (_borrowerBidsActive), and
\* only loans that run or whose collateral was seized are.
THEOREM ActiveTracked == Spec => []ActiveLoansTracked
  <1>1. Init => ActiveLoansTracked
    BY DEF Init, ActiveLoansTracked
  <1>2. IInv /\ ActiveLoansTracked /\ [Next]_vars => ActiveLoansTracked'
    BY StepTracked
  <1> QED
    BY <1>1, <1>2, Invariance, PTL DEF Spec

-----------------------------------------------------------------------------
(* The moment of default *)

\* What a running loan was accepted on, and when, never changes.
LEMMA TermsFixed ==
    ASSUME IInv, [Next]_vars, NEW b \in Bids, state[b] = "ACCEPTED"
    PROVE  bid'[b] = bid[b] /\ accepted'[b] = accepted[b]
  <1>1. bid \in [Bids -> BidType] /\ accepted \in [Bids -> Nat]
    BY DEF IInv, TypeOK, LoanTypeOK
  <1>2. ASSUME NEW sender, NEW receiver, NEW m, NEW principal, NEW duration, NEW apr, NEW infos,
               SubmitBid(sender, receiver, m, principal, duration, apr, infos)
        PROVE  bid'[b] = bid[b] /\ accepted' = accepted
    <2>1. bidId \in Bids /\ bidId # b
      BY <1>2, FreshBid DEF SubmitBid
    <2> QED
      BY <1>1, <1>2, <2>1 DEF SubmitBid
  <1>3. ASSUME NEW c \in Bids, NEW sender, LenderAcceptBid(sender, c)
        PROVE  bid' = bid /\ accepted'[b] = accepted[b]
    BY <1>1, <1>3 DEF LenderAcceptBid
  <1>4. ASSUME PaymentStep PROVE UNCHANGED <<bid, accepted>>
    BY <1>4, PaymentForm, PaymentOutcome
  <1> QED
    BY <1>2, <1>3, <1>4, StepForm DEF Cancel, ClaimLoanNFT, TransferLoanNFT, LenderCloseLoan,
       loanVars

\* Until a payment is made on it a running loan falls in default at the moment its
\* terms set, whatever the market's owner does to the market's settings meanwhile.
THEOREM DefaultFixed == Spec => DefaultMovesOnlyByPayment
  <1>1. ASSUME IInv, [Next]_vars, NEW b \in Bids, state[b] = "ACCEPTED",
               lastRepaid'[b] = lastRepaid[b]
        PROVE  DefaultTime(b, LastRepaid(b), 0)' = DefaultTime(b, LastRepaid(b), 0)
    <2>1. bid'[b] = bid[b] /\ accepted'[b] = accepted[b]
      BY <1>1, TermsFixed
    <2>2. LastRepaid(b)' = LastRepaid(b)
      BY <1>1, <2>1 DEF LastRepaid, LastRepaidTimestamp
    <2> QED
      BY <2>1, <2>2 DEF DefaultTime, DueDate
  <1>2. IInv /\ [Next]_vars =>
           [\A b \in Bids :
               state[b] = "ACCEPTED" /\ state'[b] = "ACCEPTED" /\ lastRepaid'[b] = lastRepaid[b]
               => DefaultTime(b, LastRepaid(b), 0)' = DefaultTime(b, LastRepaid(b), 0)]_vars
    BY <1>1
  <1> QED
    BY <1>2, Invariance, PTL DEF Spec, DefaultMovesOnlyByPayment

-----------------------------------------------------------------------------
(* The record of late payments *)

\* Nothing is taken off what happened.
HistoryKept(mk, next) ==
    \A acct \in Accounts :
        /\ mk.delinquencies[acct] \subseteq next.delinquencies[acct]
        /\ mk.defaults[acct] \subseteq next.defaults[acct]

\* Applying marks only adds to what happened.
LEMMA ApplyReputationKeeps ==
    ASSUME NEW mk \in MarksType, NEW acct \in Accounts, NEW defaulted, NEW late
    PROVE  HistoryKept(mk, ApplyReputation(mk, acct, defaulted, late))
  BY DEF MarksType, ApplyReputation, HistoryKept

\* A mark other than Good leaves the bid on the account's record.
LEMMA ApplyMarkRecords ==
    ASSUME NEW mk \in MarksType, NEW acct \in Accounts, NEW b,
           NEW mark \in {"Delinquent", "Default"}
    PROVE  b \in ApplyMark(mk, acct, b, mark).delinquencies[acct]
                    \cup ApplyMark(mk, acct, b, mark).defaults[acct]
  BY DEF MarksType, ApplyMark, ApplyReputation

\* A payment marks a loan that was late before it.
LEMMA PaymentMarks ==
    ASSUME IInv, NEW payer, NEW b \in Bids, NEW st \in {"ACCEPTED", "LIQUIDATED"},
           NEW principal \in Nat, NEW direct, PaysBack(payer, b, st, principal, direct)
    PROVE  /\ HistoryKept(marks, marks')
           /\ st = "ACCEPTED" /\ IsLate(b, "ACCEPTED", LastRepaid(b))
              => b \in marks'.delinquencies[bid[b].borrower] \cup marks'.defaults[bid[b].borrower]
  <1> DEFINE mark   == MarkOf(b, st, LastRepaid(b))
             before == ApplyMark(marks, bid[b].borrower, b, mark)
             after  == MarkOf(b, StateAfterPayment(b, st, principal, InterestOwed(b)), now)
             twice  == ApplyMark(before, bid[b].borrower, b, after)
  <1>1. bid[b].borrower \in Accounts /\ marks \in MarksType
    BY DEF IInv, TypeOK, RMTypeOK, WellFormed, PaysBack
  <1>2. marks' = IF mark = "Good" THEN before ELSE twice
    BY DEF PaysBack, RepayLoan_, MarksAfterPayment
  <1>3. before \in MarksType
    BY <1>1, ApplyMarkType
  <1>4. HistoryKept(marks, before) /\ HistoryKept(before, twice)
    BY <1>1, <1>3, ApplyReputationKeeps DEF ApplyMark
  <1>5. HistoryKept(marks, marks')
    BY <1>2, <1>4 DEF HistoryKept
  <1>6. ASSUME st = "ACCEPTED", IsLate(b, "ACCEPTED", LastRepaid(b))
        PROVE  b \in marks'.delinquencies[bid[b].borrower] \cup marks'.defaults[bid[b].borrower]
    <2>1. mark \in {"Delinquent", "Default"}
      BY <1>6 DEF MarkOf
    <2>2. b \in before.delinquencies[bid[b].borrower] \cup before.defaults[bid[b].borrower]
      BY <1>1, <2>1, ApplyMarkRecords
    <2>3. marks' = twice
      BY <1>2, <2>1
    <2> QED
      BY <1>1, <1>4, <2>2, <2>3 DEF HistoryKept
  <1> QED
    BY <1>5, <1>6

\* No step takes a mark off the history.
LEMMA StepHistoryKept ==
    ASSUME IInv, [Next]_vars
    PROVE  HistoryKept(marks, marks')
  <1>1. CASE PaymentStep
    BY <1>1, PaymentForm, PaymentMarks
  <1>2. CASE ReputationStep
    <2>1. PICK acct \in Accounts : \E defaulted, late :
             marks' = ApplyReputation(marks, acct, defaulted, late)
      BY <1>2, LendNestAssumption DEF ReputationStep, UpdateAccountReputation,
         UpdateBidReputation, ApplyMark
    <2> QED
      BY <2>1, ApplyReputationKeeps DEF IInv, TypeOK, RMTypeOK
  <1>3. CASE UNCHANGED marks
    BY <1>3 DEF HistoryKept
  <1> QED
    BY <1>1, <1>2, <1>3, OtherStepsLeaveMarks

\* A payment made while a loan is late leaves a mark on its borrower's record, and
\* what happened is never forgotten (ReputationManager has no operation for it).
THEOREM LatenessRecorded == Spec => LatePaymentsRecorded
  <1> DEFINE Recorded ==
             /\ \A b \in Bids :
                   /\ IsLate(b, state[b], LastRepaid(b))
                   /\ lastRepaid'[b] # lastRepaid[b] /\ state'[b] # "LIQUIDATED"
                   => b \in marks'.delinquencies[bid[b].borrower]
                               \cup marks'.defaults[bid[b].borrower]
             /\ \A acct \in Accounts :
                   /\ marks.delinquencies[acct] \subseteq marks'.delinquencies[acct]
                   /\ marks.defaults[acct] \subseteq marks'.defaults[acct]
  <1>1. ASSUME IInv, [Next]_vars, NEW b \in Bids, IsLate(b, state[b], LastRepaid(b)),
               lastRepaid'[b] # lastRepaid[b], state'[b] # "LIQUIDATED"
        PROVE  b \in marks'.delinquencies[bid[b].borrower] \cup marks'.defaults[bid[b].borrower]
    <2>1. state[b] = "ACCEPTED" /\ lastRepaid \in [Bids -> Nat]
      BY <1>1 DEF IsLate, IInv, TypeOK, LoanTypeOK
    <2>2. PaymentStep
      BY <1>1, <2>1, StepForm DEF SubmitBid, Cancel, LenderAcceptBid, ClaimLoanNFT,
         TransferLoanNFT, LenderCloseLoan, loanVars
    <2>3. PICK payer \in Payers, c \in Bids, st \in {"ACCEPTED", "LIQUIDATED"},
               principal \in Nat, direct \in BOOLEAN : PaysBack(payer, c, st, principal, direct)
      BY <1>1, <2>2, PaymentForm
    <2>4. c = b
      BY <1>1, <2>3, PaymentOutcome
    <2>5. st = "ACCEPTED"
      BY <1>1, <2>3, <2>4, PaymentOutcome
    <2> QED
      BY <1>1, <2>1, <2>3, <2>4, <2>5, PaymentMarks
  <1>2. IInv /\ [Next]_vars => [Recorded]_vars
    BY <1>1, StepHistoryKept DEF HistoryKept
  <1> QED
    BY <1>2, Invariance, PTL DEF Spec, LatePaymentsRecorded

-----------------------------------------------------------------------------
(* Money *)

\* What a payment does to everybody's wealth: the payer parts with the amount
\* taken, the lender of the moment gains it, in its wallet or in the vault.
LEMMA PaymentMoves ==
    ASSUME IInv, NEW payer \in Accounts, NEW b \in Bids, state[b] = "ACCEPTED",
           NEW amount \in Nat, NEW direct \in BOOLEAN, NEW acct \in Accounts,
           SendOrEscrowFunds(payer, b, amount, direct)
    PROVE  Wealth(acct)' = Wealth(acct) - (IF acct = payer THEN amount ELSE 0)
                                        + (IF acct = LoanLender(b) THEN amount ELSE 0)
  <1> DEFINE paid == Transfer(tokenBalance, payer, Self, amount)
  <1>1. /\ tokenBalance \in [Holders -> Nat] /\ vaultBalances \in [Accounts -> Nat]
        /\ LoanLender(b) \in Accounts
        /\ acct \in Holders /\ payer \in Holders
        /\ acct # Self /\ acct # Vault
    BY LendNestAssumption DEF IInv, TypeOK, VaultTypeOK, WellFormed, Holders
  <1>2. CASE direct
    <2>1. /\ tokenBalance' = Transfer(tokenBalance, payer, LoanLender(b), amount)
          /\ vaultBalances' = vaultBalances
      BY <1>2 DEF SendOrEscrowFunds
    <2>2. tokenBalance'[acct] = tokenBalance[acct] - (IF acct = payer THEN amount ELSE 0)
                                    + (IF acct = LoanLender(b) THEN amount ELSE 0)
      BY <1>1, <2>1 DEF Transfer
    <2> QED
      BY <1>1, <2>1, <2>2 DEF Wealth
  <1>3. CASE ~direct
    <2>1. /\ tokenBalance' = Transfer(paid, Self, Vault, amount)
          /\ vaultBalances' = [vaultBalances EXCEPT ![LoanLender(b)] = @ + amount]
      BY <1>3 DEF SendOrEscrowFunds, VaultDeposit, CreditAfterDeposit
    <2>2. tokenBalance'[acct] = tokenBalance[acct] - (IF acct = payer THEN amount ELSE 0)
      BY <1>1, <2>1 DEF Transfer
    <2>3. vaultBalances'[acct] = vaultBalances[acct] + (IF acct = LoanLender(b) THEN amount ELSE 0)
      BY <1>1, <2>1
    <2> QED
      BY <1>1, <2>2, <2>3 DEF Wealth
  <1> QED
    BY <1>2, <1>3

\* A loan ends by payment only through a payment on it that covers the debt.
LEMMA EndedByPayment ==
    ASSUME IInv, [Next]_vars, NEW b \in Bids, state[b] = "ACCEPTED",
           state'[b] \in {"PAID", "LIQUIDATED"}
    PROVE  \E payer \in Accounts, direct \in BOOLEAN :
              SendOrEscrowFunds(payer, b, Owed(b) + InterestOwed(b), direct)
  <1>1. state \in [Bids -> BidState]
    BY DEF IInv, TypeOK, LoanTypeOK
  <1>2. PaymentStep
    BY <1>1, StepForm DEF SubmitBid, Cancel, LenderAcceptBid, ClaimLoanNFT, TransferLoanNFT,
       LenderCloseLoan, loanVars
  <1>3. PICK payer \in Payers, c \in Bids, st \in {"ACCEPTED", "LIQUIDATED"},
             principal \in Nat, direct \in BOOLEAN : PaysBack(payer, c, st, principal, direct)
    BY <1>2, PaymentForm
  <1>4. c = b
    BY <1>3, PaymentOutcome
  <1>5. IsSettled(b, principal, InterestOwed(b))
    BY <1>3, <1>4, PaymentOutcome
  <1>6. SendOrEscrowFunds(payer, b, AmountTaken(b, principal, InterestOwed(b)), direct)
    BY <1>3, <1>4 DEF PaysBack, RepayLoan_
  <1> QED
    BY <1>5, <1>6, LendNestAssumption DEF AmountTaken

\* Whoever ends a loan by paying parts with the debt of that moment, principal and
\* interest, and the lender of that moment has it, even if the direct transfer
\* fails (_sendOrEscrowFunds); an overpayment stays with the payer.
THEOREM DebtPaid == Spec => DebtPaidInFull
  <1> DEFINE Paid(b, payer) ==
             \A acct \in Accounts :
                Wealth(acct)' = Wealth(acct)
                    - (IF acct = payer THEN Owed(b) + InterestOwed(b) ELSE 0)
                    + (IF acct = LoanLender(b) THEN Owed(b) + InterestOwed(b) ELSE 0)
  <1>1. ASSUME IInv, [Next]_vars, NEW b \in Bids, state[b] = "ACCEPTED",
               state'[b] \in {"PAID", "LIQUIDATED"}
        PROVE  \E payer \in Accounts : Paid(b, payer)
    <2>1. PICK payer \in Accounts, direct \in BOOLEAN :
             SendOrEscrowFunds(payer, b, Owed(b) + InterestOwed(b), direct)
      BY <1>1, EndedByPayment
    <2>2. Owed(b) + InterestOwed(b) \in Nat
      BY <1>1, OwedType
    <2>3. Paid(b, payer)
      BY <1>1, <2>1, <2>2, PaymentMoves
    <2> QED
      BY <2>3
  <1> HIDE DEF Paid
  <1>2. IInv /\ [Next]_vars =>
           [\A b \in Bids :
               state[b] = "ACCEPTED" /\ state'[b] \in {"PAID", "LIQUIDATED"} =>
                  \E payer \in Accounts : Paid(b, payer)]_vars
    BY <1>1
  <1> QED
    BY <1>2, Invariance, PTL DEF Spec, DebtPaidInFull, Paid

\* A lender who accepts a bid and is none of those paid by it parts with exactly
\* the principal: the fees come out of what the borrower receives.
THEOREM LenderPays == Spec => LenderPaysPrincipal
  <1>1. ASSUME IInv, NEW b \in Bids, NEW s \in Lenders, LenderAcceptBid(s, b),
               s \notin {ProtocolOwner, bid[b].receiver, GetMarketFeeRecipient(bid[b].market)}
        PROVE  tokenBalance'[s] + vaultBalances'[s] = Wealth(s) - bid[b].principal
    <2>1. /\ s \in Accounts /\ s \in Holders /\ bid[b] \in BidType /\ bid[b].market \in Markets
          /\ tokenBalance \in [Holders -> Nat] /\ vaultBalances \in [Accounts -> Nat]
      BY <1>1, LendNestAssumption DEF IInv, TypeOK, LoanTypeOK, VaultTypeOK, WellFormed, Holders,
         LenderAcceptBid
    <2>2. AmountToProtocol(b) \in Nat /\ AmountToMarketplace(b) \in Nat
      BY <1>1, <2>1, FeesType DEF LenderAcceptBid
    <2>3. AmountToBorrower(b) + AmountToProtocol(b) + AmountToMarketplace(b) = bid[b].principal
      BY <2>1, <2>2 DEF AmountToBorrower, BidType
    <2>4. /\ tokenBalance' = BalanceAfterDisbursal(s, b) /\ vaultBalances' = vaultBalances
      BY <1>1 DEF LenderAcceptBid
    <2>5. tokenBalance'[s] = tokenBalance[s] - AmountToProtocol(b) - AmountToMarketplace(b)
                                 - AmountToBorrower(b)
      BY <1>1, <2>1, <2>2, <2>3, <2>4 DEF BalanceAfterDisbursal, BalanceAfterMarketFee,
         BalanceAfterProtocolFee, Transfer, AmountToBorrower, BidType
    <2> QED
      BY <2>1, <2>2, <2>3, <2>4, <2>5 DEF Wealth, BidType, AmountToBorrower
  <1>2. ASSUME IInv, [Next]_vars, NEW b \in Bids, state[b] = "PENDING", state'[b] = "ACCEPTED"
        PROVE  \E s \in Lenders : LenderAcceptBid(s, b) /\ lender'[b] = s
    <2>1. /\ state \in [Bids -> BidState]
          /\ lender \in [Bids -> Accounts \cup {NoAccount, UsingLenderManager}]
      BY <1>2 DEF IInv, TypeOK, LoanTypeOK
    <2>2. ~PaymentStep
      <3> SUFFICES ASSUME PaymentStep PROVE FALSE
        OBVIOUS
      <3>1. PICK payer \in Payers, c \in Bids, st \in {"ACCEPTED", "LIQUIDATED"},
                 principal \in Nat, direct \in BOOLEAN : PaysBack(payer, c, st, principal, direct)
        BY <1>2, PaymentForm
      <3>2. state[c] = "ACCEPTED" /\ \A d \in Bids \ {c} : state'[d] = state[d]
        BY <1>2, <3>1, PaymentOutcome DEF PaysBack
      <3> QED
        BY <1>2, <3>2
    <2>3. \E s \in Lenders, c \in Bids : LenderAcceptBid(s, c)
      BY <1>2, <2>1, <2>2, StepForm DEF SubmitBid, Cancel, ClaimLoanNFT, TransferLoanNFT,
         LenderCloseLoan, loanVars
    <2> QED
      BY <1>2, <2>1, <2>3 DEF LenderAcceptBid
  <1>3. IInv /\ [Next]_vars =>
           [\A b \in Bids :
               LET s == lender'[b]
               IN  state[b] = "PENDING" /\ state'[b] = "ACCEPTED"
                   /\ s \notin {ProtocolOwner, bid[b].receiver,
                                GetMarketFeeRecipient(bid[b].market)}
                     => tokenBalance'[s] + vaultBalances'[s] = Wealth(s) - bid[b].principal]_vars
    BY <1>1, <1>2
  <1> QED
    BY <1>3, Invariance, PTL DEF Spec, LenderPaysPrincipal

-----------------------------------------------------------------------------
(* The vault holds what it owes *)

\* What the vault owes to all lenders together.
VaultDebt == Total(vaultBalances, Accounts)

\* VaultSolvent in terms of it, which is what the steps are shown to preserve.
Solvent ==
    /\ tokenBalance[Vault] = VaultDebt
    /\ tokenBalance[Self] = 0

LEMMA SolventForm == Solvent <=> VaultSolvent
  BY DEF VaultSolvent, Solvent, VaultDebt, Total

\* A transfer between others leaves the vault and the loan contract alone.
LEMMA TransferAside ==
    ASSUME NEW bal \in [Holders -> Int], NEW from \in Accounts, NEW to \in Accounts \cup {NoAccount},
           NEW n \in Int
    PROVE  /\ Transfer(bal, from, to, n)[Vault] = bal[Vault]
           /\ Transfer(bal, from, to, n)[Self] = bal[Self]
  BY LendNestAssumption DEF Transfer, Holders

\* Every transfer leaves numbers.
LEMMA TransferInt ==
    ASSUME NEW bal \in [Holders -> Int], NEW from, NEW to, NEW n \in Int
    PROVE  Transfer(bal, from, to, n) \in [Holders -> Int]
  BY DEF Transfer

\* A credit that changes, changes what the vault owes by as much.
LEMMA DebtChanges ==
    ASSUME IInv, NEW acct \in Accounts, NEW n \in Int, vaultBalances' \in [Accounts -> Int],
           vaultBalances'[acct] = vaultBalances[acct] + n,
           \A other \in Accounts \ {acct} : vaultBalances'[other] = vaultBalances[other]
    PROVE  VaultDebt' = VaultDebt + n
  <1>1. vaultBalances \in [Accounts -> Int] /\ IsFiniteSet(Accounts)
    BY TypesAssumption DEF IInv, TypeOK, VaultTypeOK
  <1>2. Total(vaultBalances', Accounts)
            = Total(vaultBalances, Accounts) - vaultBalances[acct] + vaultBalances'[acct]
    BY <1>1, TotalUpdate
  <1>3. Total(vaultBalances, Accounts) \in Int /\ vaultBalances[acct] \in Int
    BY <1>1, TotalType
  <1> QED
    BY <1>2, <1>3 DEF VaultDebt

-----------------------------------------------------------------------------
(* Every operation on the token keeps the vault solvent *)

\* lenderAcceptBid pays the owners' fees and the borrower, out of the lender's wallet.
LEMMA AcceptSolvent ==
    ASSUME IInv, Solvent, NEW b \in Bids, NEW sender \in Lenders, LenderAcceptBid(sender, b)
    PROVE  Solvent'
  <1> DEFINE first  == BalanceAfterProtocolFee(sender, b)
             second == BalanceAfterMarketFee(sender, b)
             third  == BalanceAfterDisbursal(sender, b)
  <1>1. /\ state[b] = "PENDING" /\ bid[b] \in BidType
        /\ bid[b].market \in Markets /\ bid[b].receiver \in Accounts
        /\ sender \in Accounts /\ ProtocolOwner \in Accounts
        /\ tokenBalance \in [Holders -> Nat]
    BY LendNestAssumption DEF IInv, TypeOK, LoanTypeOK, VaultTypeOK, WellFormed, LenderAcceptBid
  <1>2. GetMarketFeeRecipient(bid[b].market) \in Accounts \cup {NoAccount}
    BY <1>1 DEF GetMarketFeeRecipient, IInv, TypeOK, MRTypeOK
  <1>3. AmountToProtocol(b) \in Nat /\ AmountToMarketplace(b) \in Nat
    BY <1>1, FeesType
  <1>4. AmountToBorrower(b) \in Int
    BY <1>1, <1>3 DEF AmountToBorrower, BidType
  <1>5. /\ first \in [Holders -> Int]
        /\ first[Vault] = tokenBalance[Vault] /\ first[Self] = tokenBalance[Self]
    BY <1>1, <1>3, TransferAside, TransferInt DEF BalanceAfterProtocolFee
  <1>6. /\ second \in [Holders -> Int]
        /\ second[Vault] = tokenBalance[Vault] /\ second[Self] = tokenBalance[Self]
    <2>1. AmountToMarketplace(b) \in Int
      BY <1>3
    <2> QED
      BY <1>1, <1>2, <1>5, <2>1, TransferAside, TransferInt DEF BalanceAfterMarketFee
  <1>7. third[Vault] = tokenBalance[Vault] /\ third[Self] = tokenBalance[Self]
    BY <1>1, <1>4, <1>6, TransferAside DEF BalanceAfterDisbursal
  <1>8. tokenBalance' = third /\ vaultBalances' = vaultBalances
    BY DEF LenderAcceptBid
  <1>9. VaultDebt' = VaultDebt
    BY <1>8 DEF VaultDebt
  <1> QED
    BY <1>7, <1>8, <1>9 DEF Solvent

\* A payment goes to the lender, or through the loan contract into the vault.
LEMMA PaymentSolvent ==
    ASSUME IInv, Solvent, PaymentStep
    PROVE  Solvent'
  <1>1. PICK payer \in Payers, b \in Bids, st \in {"ACCEPTED", "LIQUIDATED"},
             principal \in Nat, direct \in BOOLEAN : PaysBack(payer, b, st, principal, direct)
    BY PaymentForm
  <1> DEFINE amount == AmountTaken(b, principal, InterestOwed(b))
             paid   == Transfer(tokenBalance, payer, Self, amount)
  <1>2. /\ payer \in Accounts /\ LoanLender(b) \in Accounts
        /\ tokenBalance \in [Holders -> Nat] /\ vaultBalances \in [Accounts -> Nat]
    BY <1>1, LendNestAssumption DEF PaysBack, IInv, TypeOK, VaultTypeOK, WellFormed
  <1>3. amount \in Nat
    BY <1>1, OwedType DEF PaysBack, AmountTaken
  <1>4. SendOrEscrowFunds(payer, b, amount, direct)
    BY <1>1 DEF PaysBack, RepayLoan_
  <1> HIDE DEF amount
  <1>5. CASE direct
    <2>1. /\ tokenBalance' = Transfer(tokenBalance, payer, LoanLender(b), amount)
          /\ vaultBalances' = vaultBalances
      BY <1>4, <1>5 DEF SendOrEscrowFunds
    <2>2. tokenBalance'[Vault] = tokenBalance[Vault] /\ tokenBalance'[Self] = tokenBalance[Self]
      BY <1>2, <1>3, <2>1, TransferAside
    <2>3. VaultDebt' = VaultDebt
      BY <2>1 DEF VaultDebt
    <2> QED
      BY <2>2, <2>3 DEF Solvent
  <1>6. CASE ~direct
    <2>1. /\ tokenBalance' = Transfer(paid, Self, Vault, amount)
          /\ vaultBalances' = [vaultBalances EXCEPT ![LoanLender(b)] = @ + amount]
      BY <1>4, <1>6 DEF SendOrEscrowFunds, VaultDeposit, CreditAfterDeposit
    <2>2. tokenBalance'[Vault] = tokenBalance[Vault] + amount
          /\ tokenBalance'[Self] = tokenBalance[Self]
      BY <1>2, <1>3, <2>1, LendNestAssumption DEF Transfer, Holders
    <2>3. VaultDebt' = VaultDebt + amount
      <3>1. /\ vaultBalances' \in [Accounts -> Int]
            /\ vaultBalances'[LoanLender(b)] = vaultBalances[LoanLender(b)] + amount
            /\ \A other \in Accounts \ {LoanLender(b)} : vaultBalances'[other] = vaultBalances[other]
        BY <1>2, <1>3, <2>1
      <3> QED
        BY <1>2, <1>3, <3>1, DebtChanges
    <2> QED
      BY <2>2, <2>3 DEF Solvent
  <1> QED
    BY <1>5, <1>6

\* EscrowVault's withdraw pays out what it takes off the account's credit.
LEMMA WithdrawSolvent ==
    ASSUME IInv, Solvent, NEW acct \in Accounts, NEW amount \in Payments,
           WithdrawFromVault(acct, amount)
    PROVE  Solvent'
  <1>1. /\ amount \in Nat
        /\ tokenBalance \in [Holders -> Nat] /\ vaultBalances \in [Accounts -> Nat]
    BY LendNestAssumption DEF IInv, TypeOK, VaultTypeOK
  <1>2. /\ tokenBalance' = Transfer(tokenBalance, Vault, acct, amount)
        /\ vaultBalances' = [vaultBalances EXCEPT ![acct] = @ - amount]
    BY <1>1 DEF WithdrawFromVault, VaultWithdraw, CreditAfterWithdraw
  <1>3. tokenBalance'[Vault] = tokenBalance[Vault] - amount
        /\ tokenBalance'[Self] = tokenBalance[Self]
    BY <1>1, <1>2, LendNestAssumption DEF Transfer, Holders
  <1>4. VaultDebt' = VaultDebt + (-amount)
    <2>1. /\ vaultBalances' \in [Accounts -> Int] /\ -amount \in Int
          /\ vaultBalances'[acct] = vaultBalances[acct] + (-amount)
          /\ \A other \in Accounts \ {acct} : vaultBalances'[other] = vaultBalances[other]
      BY <1>1, <1>2
    <2> QED
      BY <2>1, DebtChanges
  <1>5. VaultDebt \in Int
    BY <1>1, TypesAssumption, TotalType DEF VaultDebt
  <1> QED
    BY <1>1, <1>3, <1>4, <1>5 DEF Solvent

\* All other steps leave the token and the credits alone.
LEMMA StepSolvent ==
    ASSUME IInv, Solvent, [Next]_vars
    PROVE  Solvent'
  <1>1. CASE UNCHANGED vaultVars
    BY <1>1 DEF Solvent, vaultVars, VaultDebt
  <1>2. CASE LenderStep
    <2>1. UNCHANGED vaultVars \/ \E sender \in Lenders, b \in Bids : LenderAcceptBid(sender, b)
      BY <1>2 DEF LenderStep, ClaimLoanNFT, TransferLoanNFT
    <2> QED
      BY <1>1, <2>1, AcceptSolvent
  <1>3. CASE CustodyStep
    <2>1. \/ UNCHANGED vaultVars
          \/ \E acct \in Accounts, amount \in Payments : WithdrawFromVault(acct, amount)
      BY <1>3 DEF CustodyStep, LenderCloseLoan, WithdrawPaidCollateral
    <2> QED
      BY <1>1, <2>1, WithdrawSolvent
  <1>4. CASE BorrowerStep \/ ReputationStep \/ OwnerStep \/ MarketStep \/ Tick \/ UNCHANGED vars
    <2>1. CASE BorrowerStep
      <3>1. UNCHANGED vaultVars
        BY <2>1 DEF BorrowerStep, SubmitBid, CancelBid, MarketOwnerCancelBid, Cancel
      <3> QED
        BY <1>1, <3>1
    <2>2. CASE ReputationStep \/ OwnerStep \/ MarketStep \/ Tick \/ UNCHANGED vars
      <3>1. UNCHANGED vaultVars
        BY <2>2 DEF ReputationStep, UpdateAccountReputation, UpdateBidReputation, OwnerStep,
           PauseProtocol, UnpauseProtocol, SetProtocolFee, MarketStep, Tick, vars
      <3> QED
        BY <1>1, <3>1
    <2> QED
      BY <1>4, <2>1, <2>2
  <1> QED
    BY <1>2, <1>3, <1>4, PaymentSolvent DEF Next

\* What the vault holds is the sum of what it owes the lenders, whoever's payment
\* could not be sent and in whatever order the lenders withdraw, and LendNestV2 is
\* left with nothing of the payments it passed on (_sendOrEscrowFunds).
THEOREM Solvency == Spec => []VaultSolvent
  <1>1. Init => Solvent
    <2> SUFFICES ASSUME Init PROVE Solvent
      OBVIOUS
    <2>1. tokenBalance[Vault] = 0 /\ tokenBalance[Self] = 0
      BY LendNestAssumption DEF Init, Holders
    <2>2. VaultDebt = 0
      BY TotalZero, TypesAssumption DEF Init, VaultDebt
    <2> QED
      BY <2>1, <2>2 DEF Solvent
  <1>2. IInv /\ Solvent /\ [Next]_vars => Solvent'
    BY StepSolvent
  <1> QED
    BY <1>1, <1>2, Invariance, SolventForm, PTL DEF Spec

-----------------------------------------------------------------------------
(* Escrows can be emptied *)

Begun(st) == st \in {"ACCEPTED", "PAID", "CLOSED", "LIQUIDATED"}

\* What was deposited for a loan is more than nothing of every asset pledged.
PledgesPositive ==
    \A b \in Bids : Begun(state[b]) => \A a \in collateralAddresses[b] : collateralAmount[b][a] > 0

\* After submission a pledge is not changed.
LEMMA PledgesFixed ==
    ASSUME [Next]_vars
    PROVE  \/ \E sender \in Borrowers, receiver \in Receivers, m \in Markets,
                 principal \in Principals, duration \in Durations, apr \in APRs,
                 offered \in SUBSET Assets :
                 \E infos \in [offered -> CollateralAmounts] :
                    SubmitBid(sender, receiver, m, principal, duration, apr, infos)
           \/ UNCHANGED <<collateralAddresses, collateralAmount>>
  <1> DEFINE Fixed == UNCHANGED <<collateralAddresses, collateralAmount>>
  <1>1. ASSUME NEW b, NEW to, WithdrawCollateral(b, to) PROVE Fixed
    BY <1>1 DEF WithdrawCollateral
  <1>2. ASSUME NEW payer, NEW b, NEW principal, NEW interest, NEW withdraw, NEW direct,
               RepayAccepted(payer, b, principal, interest, withdraw, direct)
        PROVE  Fixed
    BY <1>1, <1>2 DEF RepayAccepted, Withdraw, cmVars
  <1>3. CASE PaymentStep
    <2>1. ASSUME NEW payer, NEW b, NEW direct, LiquidateLoanFull(payer, b, direct) PROVE Fixed
      BY <1>1, <2>1 DEF LiquidateLoanFull, LiquidateCollateral, cmVars
    <2> QED
      BY <1>2, <1>3, <2>1 DEF PaymentStep, RepayLoanMinimum, RepayLoanFull, RepayLoan
  <1>4. CASE CustodyStep
    <2>1. ASSUME NEW b, LenderCloseLoan(b) PROVE Fixed
      BY <1>1, <2>1 DEF LenderCloseLoan, LenderClaimCollateral, cmVars
    <2>2. ASSUME NEW b, WithdrawPaidCollateral(b) PROVE Fixed
      BY <1>1, <2>2 DEF WithdrawPaidCollateral, Withdraw
    <2>3. ASSUME NEW acct, NEW amount, WithdrawFromVault(acct, amount) PROVE Fixed
      BY <2>3 DEF WithdrawFromVault, cmVars
    <2> QED
      BY <1>4, <2>1, <2>2, <2>3 DEF CustodyStep
  <1>5. CASE LenderStep
    <2>1. ASSUME NEW b, NEW sender, LenderAcceptBid(sender, b) PROVE Fixed
      BY <2>1 DEF LenderAcceptBid, DeployAndDeposit, cmVars
    <2>2. ASSUME NEW b, NEW acct, ClaimLoanNFT(acct, b) \/ TransferLoanNFT(acct, b) PROVE Fixed
      BY <2>2 DEF ClaimLoanNFT, TransferLoanNFT, cmVars
    <2> QED
      BY <1>5, <2>1, <2>2 DEF LenderStep
  <1>6. CASE \E b \in Bids : Cancel(b)
    BY <1>6 DEF Cancel, cmVars
  <1>7. CASE ReputationStep \/ OwnerStep \/ MarketStep \/ Tick
    BY <1>7 DEF ReputationStep, UpdateAccountReputation, UpdateBidReputation, OwnerStep,
       PauseProtocol, UnpauseProtocol, SetProtocolFee, MarketStep, Tick, cmVars
  <1>8. CASE UNCHANGED vars
    BY <1>8 DEF vars, cmVars
  <1> QED
    BY <1>3, <1>4, <1>5, <1>6, <1>7, <1>8 DEF Next, BorrowerStep, CancelBid, MarketOwnerCancelBid

\* A loan begins with the deposit of what was pledged.
LEMMA BegunByDeposit ==
    ASSUME IInv, [Next]_vars, NEW b \in Bids, Begun(state'[b])
    PROVE  Begun(state[b]) \/ DeployAndDeposit(b, bid[b].borrower)
  <1>1. state \in [Bids -> BidState]
    BY DEF IInv, TypeOK, LoanTypeOK
  <1>2. ASSUME NEW sender, NEW receiver, NEW m, NEW principal, NEW duration, NEW apr, NEW infos,
               SubmitBid(sender, receiver, m, principal, duration, apr, infos)
        PROVE  Begun(state[b])
    BY <1>1, <1>2 DEF SubmitBid, Begun
  <1>3. ASSUME NEW c \in Bids, Cancel(c) PROVE Begun(state[b])
    BY <1>1, <1>3 DEF Cancel, Begun
  <1>4. ASSUME NEW c \in Bids, NEW sender, LenderAcceptBid(sender, c)
        PROVE  Begun(state[b]) \/ DeployAndDeposit(b, bid[b].borrower)
    BY <1>1, <1>4 DEF LenderAcceptBid, Begun
  <1>5. ASSUME NEW c \in Bids, NEW acct, ClaimLoanNFT(acct, c) \/ TransferLoanNFT(acct, c)
        PROVE  Begun(state[b])
    BY <1>5 DEF ClaimLoanNFT, TransferLoanNFT, Begun
  <1>6. CASE PaymentStep
    <2>1. PICK payer \in Payers, c \in Bids, st \in {"ACCEPTED", "LIQUIDATED"},
               principal \in Nat, direct \in BOOLEAN : PaysBack(payer, c, st, principal, direct)
      BY <1>6, PaymentForm
    <2>2. state[c] = "ACCEPTED" /\ \A d \in Bids \ {c} : state'[d] = state[d]
      BY <2>1, PaymentOutcome DEF PaysBack
    <2> QED
      BY <2>2 DEF Begun
  <1>7. ASSUME NEW c \in Bids, LenderCloseLoan(c) PROVE Begun(state[b])
    BY <1>1, <1>7 DEF LenderCloseLoan, Begun
  <1>8. CASE UNCHANGED loanVars
    BY <1>8 DEF loanVars
  <1> QED
    BY <1>2, <1>3, <1>4, <1>5, <1>6, <1>7, <1>8, StepForm

LEMMA StepPledges ==
    ASSUME IInv, PledgesPositive, [Next]_vars
    PROVE  PledgesPositive'
  <1> SUFFICES ASSUME NEW b \in Bids, Begun(state'[b]), NEW a \in collateralAddresses'[b]
               PROVE  collateralAmount'[b][a] > 0
    BY DEF PledgesPositive
  <1>1. CASE UNCHANGED <<collateralAddresses, collateralAmount>>
    <2>1. CASE Begun(state[b])
      BY <1>1, <2>1 DEF PledgesPositive
    <2>2. CASE DeployAndDeposit(b, bid[b].borrower)
      BY <1>1, <2>2 DEF DeployAndDeposit, CanDeposit, IsBidCollateralBacked
    <2> QED
      BY <2>1, <2>2, BegunByDeposit
  <1>2. ASSUME NEW sender, NEW receiver, NEW m, NEW principal, NEW duration, NEW apr, NEW infos,
               SubmitBid(sender, receiver, m, principal, duration, apr, infos)
        PROVE  collateralAmount'[b][a] > 0
    <2>1. bidId \in Bids /\ state' = [state EXCEPT ![bidId] = "PENDING"]
          /\ state \in [Bids -> BidState]
      BY <1>2, FreshBid DEF SubmitBid, IInv, TypeOK, LoanTypeOK
    <2>2. b # bidId /\ Begun(state[b])
      BY <2>1 DEF Begun
    <2>3. CommitCollateral(bidId, sender, infos)
      BY <1>2 DEF SubmitBid
    <2>4. collateralAddresses'[b] = collateralAddresses[b] /\ collateralAmount'[b] = collateralAmount[b]
      BY <2>1, <2>2, <2>3 DEF CommitCollateral, IInv, TypeOK, CMTypeOK
    <2> QED
      BY <2>2, <2>4 DEF PledgesPositive
  <1> QED
    BY <1>1, <1>2, PledgesFixed

\* As long as an escrow has what a loan's outcome will have it give up, every asset of
\* it can be withdrawn.
EscrowsRelease ==
    \A b \in Bids :
        state[b] = "ACCEPTED" \/ (state[b] = "PAID" /\ escrowTokens[b] # NoCollateral)
            => CanWithdraw(b)

\* Collateral is never stuck for a reason that lies with the manager or an escrow: no
\* check of CollateralEscrowV1.withdraw fails while a loan runs, for whoever will get
\* the collateral, nor once it is repaid and nobody has taken the collateral back.
THEOREM EscrowsCanRelease == Spec => []EscrowsRelease
  <1>1. Init => PledgesPositive
    BY DEF Init, PledgesPositive, Begun
  <1>2. IInv /\ PledgesPositive /\ [Next]_vars => PledgesPositive'
    BY StepPledges
  <1>3. IInv /\ PledgesPositive => EscrowsRelease
    <2> SUFFICES ASSUME IInv, PledgesPositive, NEW b \in Bids,
                        \/ state[b] = "ACCEPTED"
                        \/ state[b] = "PAID" /\ escrowTokens[b] # NoCollateral,
                        NEW a \in collateralAddresses[b]
                 PROVE  /\ collateralAmount[b][a] > 0
                        /\ collateralAmount[b][a] <= collateralBalances[b][a]
                        /\ collateralAmount[b][a] <= escrowTokens[b][a]
      BY DEF EscrowsRelease, CanWithdraw
    <2>1. collateralAmount[b][a] > 0
      BY DEF PledgesPositive, Begun
    <2>2. a \in Assets /\ collateralAmount[b][a] \in Nat
      BY DEF IInv, TypeOK, CMTypeOK
    <2>3. escrowTokens[b] = Pledge(b) /\ collateralBalances[b] = escrowTokens[b]
      BY DEF IInv, CustodyMatchesState
    <2>4. Pledge(b)[a] = collateralAmount[b][a]
      BY <2>2 DEF Pledge
    <2> QED
      BY <2>1, <2>2, <2>3, <2>4
  <1> QED
    BY <1>1, <1>2, <1>3, Invariance, PTL DEF Spec

-----------------------------------------------------------------------------
(* The calendar *)

\* Division is decided by the multiples around a number.
LEMMA DivIs ==
    ASSUME NEW i \in Nat, NEW q \in Nat, NEW n \in Nat \ {0}, q * n <= i, i < q * n + n
    PROVE  i \div n = q /\ i % n = i - q * n
  <1> DEFINE p == i \div n
  <1>1. p \in Nat /\ p * n <= i /\ i < (p + 1) * n /\ i = p * n + (i % n)
    <2>1. i = (i \div n) * n + (i % n)
      OBVIOUS
    <2> QED
      BY <2>1, RoundsDown
  <1> HIDE DEF p
  <1>2. q * n \in Nat /\ p * n \in Nat /\ (q + 1) * n = q * n + n /\ (p + 1) * n = p * n + n
    BY <1>1, Multiples
  <1>3. ~ (q + 1 <= p)
    <2>1. q + 1 <= p <=> (q + 1) * n <= p * n
      BY <1>1, Multiples
    <2> QED
      BY <2>1, <1>1, <1>2
  <1>4. ~ (p + 1 <= q)
    <2>1. p + 1 <= q <=> (p + 1) * n <= q * n
      BY <1>1, Multiples
    <2> QED
      BY <2>1, <1>1, <1>2
  <1>5. p = q
    BY <1>1, <1>3, <1>4
  <1>6. i % n \in Int
    OBVIOUS
  <1> QED
    BY <1>1, <1>2, <1>5, <1>6 DEF p

\* The days before a month of the list are those before the month before it and in it.
LEMMA DaysAdd ==
    /\ DaysBefore[0] = 0
    /\ \A i \in 0 .. Len(MonthLengths) : DaysBefore[i] \in Nat
    /\ \A i \in 0 .. Len(MonthLengths) - 1 :
          /\ MonthLengths[i + 1] \in Nat \ {0}
          /\ DaysBefore[i + 1] = DaysBefore[i] + MonthLengths[i + 1]
  <1> DEFINE n == Len(MonthLengths)
             IsDays(f) == f = [i \in 0 .. n |-> IF i = 0 THEN 0 ELSE f[i - 1] + MonthLengths[i]]
             g == [i \in 0 .. n |-> Total(MonthLengths, 1 .. i)]
  <1>1. n \in Nat \ {0} /\ \A i \in 1 .. n : MonthLengths[i] \in Nat \ {0}
    BY CalendarAssumption
  <1>2. DaysBefore = CHOOSE f : IsDays(f)
    BY DEF DaysBefore
  <1> HIDE DEF n
  <1>3. IsDays(g)
    <2>1. ASSUME NEW i \in 0 .. n
          PROVE  Total(MonthLengths, 1 .. i)
                    = IF i = 0 THEN 0 ELSE g[i - 1] + MonthLengths[i]
      <3>1. IsFiniteSet(1 .. i) /\ \A j \in 1 .. i : MonthLengths[j] \in Int
        BY <1>1, IntervalFinite
      <3>2. CASE i = 0
        <4>1. 1 .. i = {}
          BY <3>2
        <4> QED
          BY <3>1, <3>2, <4>1, TotalZero
      <3>3. CASE i # 0
        <4>1. i \in 1 .. i /\ (1 .. i) \ {i} = 1 .. i - 1 /\ i - 1 \in 0 .. n
          BY <3>3, <1>1
        <4>2. Total(MonthLengths, 1 .. i) = MonthLengths[i] + Total(MonthLengths, 1 .. i - 1)
          BY <3>1, <4>1, TotalTakeOut
        <4>3. Total(MonthLengths, 1 .. i - 1) \in Int
          BY <3>1, <4>1, TotalType
        <4>4. g[i - 1] = Total(MonthLengths, 1 .. i - 1)
          BY <4>1
        <4> QED
          BY <3>1, <3>3, <4>1, <4>2, <4>3, <4>4
      <3> QED
        BY <3>2, <3>3
    <2> QED
      BY <2>1
  <1> HIDE DEF g
  <1>4. IsDays(DaysBefore)
    <2> HIDE DEF IsDays
    <2> QED
      BY <1>2, <1>3
  <1>5. \A i \in 0 .. n : DaysBefore[i] = IF i = 0 THEN 0 ELSE DaysBefore[i - 1] + MonthLengths[i]
    BY <1>4
  <1>6. \A i \in 0 .. n : DaysBefore[i] \in Nat
    <2> DEFINE B == {i \in 0 .. n : DaysBefore[i] \notin Nat}
    <2> SUFFICES ASSUME B # {} PROVE FALSE
      OBVIOUS
    <2>1. PICK i \in B : \A j \in B : i <= j
      <3>1. B \subseteq Nat
        BY <1>1
      <3> HIDE DEF B
      <3> QED
        BY <3>1, LeastNat
    <2>2. i # 0 /\ i \in 1 .. n /\ i - 1 \in 0 .. n
      BY <1>1, <1>5
    <2>3. DaysBefore[i - 1] \in Nat
      BY <2>1, <2>2
    <2> QED
      BY <1>1, <1>5, <2>2, <2>3
  <1>7. ASSUME NEW i \in 0 .. n - 1
        PROVE  /\ MonthLengths[i + 1] \in Nat \ {0}
               /\ DaysBefore[i + 1] = DaysBefore[i] + MonthLengths[i + 1]
    <2>1. i + 1 \in 1 .. n /\ i + 1 \in 0 .. n /\ i + 1 # 0 /\ (i + 1) - 1 = i
      BY <1>1
    <2> QED
      BY <1>1, <1>5, <2>1
  <1>8. DaysBefore[0] = 0
    BY <1>1, <1>5
  <1> QED
    BY <1>6, <1>7, <1>8 DEF n

\* A month starts when the one before it is over, through the list and again from its
\* beginning.
LEMMA MonthNext ==
    /\ MonthStart(0) = 0
    /\ \A i \in Nat :
          /\ MonthStart(i) \in Nat /\ MonthLength(i) \in Nat \ {0}
          /\ MonthStart(i + 1) = MonthStart(i) + MonthLength(i)
  <1> DEFINE n == Len(MonthLengths)
             D == DaysBefore[n]
  <1>1. n \in Nat \ {0}
    BY CalendarAssumption
  <1>2. /\ DaysBefore[0] = 0 /\ D \in Nat
        /\ \A r \in 0 .. n - 1 :
              /\ DaysBefore[r] \in Nat /\ MonthLengths[r + 1] \in Nat \ {0}
              /\ DaysBefore[r + 1] = DaysBefore[r] + MonthLengths[r + 1]
    <2>1. \A r \in 0 .. n - 1 : r \in 0 .. n
      BY <1>1
    <2>2. n \in 0 .. n
      BY <1>1
    <2> QED
      BY <2>1, <2>2, DaysAdd
  <1>3. /\ \A i : MonthStart(i) = (i \div n) * D + DaysBefore[i % n]
        /\ \A i : MonthLength(i) = MonthLengths[(i % n) + 1]
    BY DEF MonthStart, MonthLength
  <1> HIDE DEF n, D
  <1>4. MonthStart(0) = 0
    <2>1. 0 * n = 0
      BY <1>1
    <2>2. 0 \div n = 0 /\ 0 % n = 0
      BY <1>1, <2>1, DivIs
    <2> QED
      BY <1>2, <1>3, <2>2
  <1>5. ASSUME NEW i \in Nat
        PROVE  /\ MonthStart(i) \in Nat /\ MonthLength(i) \in Nat \ {0}
               /\ MonthStart(i + 1) = MonthStart(i) + MonthLength(i)
    <2> DEFINE q == i \div n
               r == i % n
    <2>1. q \in Nat /\ q * n \in Nat /\ i = q * n + r /\ r \in 0 .. n - 1
      <3>1. q \in Nat /\ q * n <= i /\ i < (q + 1) * n
        BY <1>1, RoundsDown
      <3>2. i = q * n + r
        BY <1>1
      <3>3. q * n \in Nat /\ (q + 1) * n = q * n + n
        BY <1>1, <3>1, Multiples
      <3>4. r \in Int
        BY <1>1
      <3> HIDE DEF q, r
      <3> QED
        BY <1>1, <3>1, <3>2, <3>3, <3>4
    <2>2. MonthStart(i) = q * D + DaysBefore[r] /\ MonthLength(i) = MonthLengths[r + 1]
      BY <1>3
    <2> HIDE DEF q, r
    <2>3. q * D \in Nat /\ (q + 1) * D = q * D + D
      BY <1>2, <2>1, MulNat
    <2>4. CASE r + 1 < n
      <3>1. (i + 1) \div n = q /\ (i + 1) % n = r + 1
        <4>1. i + 1 \in Nat /\ q * n <= i + 1 /\ i + 1 < q * n + n /\ (i + 1) - q * n = r + 1
          BY <1>1, <2>1, <2>4
        <4> QED
          BY <1>1, <2>1, <4>1, DivIs
      <3>2. MonthStart(i + 1) = q * D + DaysBefore[r + 1]
        BY <1>3, <3>1
      <3> QED
        BY <1>2, <2>1, <2>2, <2>3, <3>2
    <2>5. CASE ~(r + 1 < n)
      <3>1. r + 1 = n
        BY <1>1, <2>1, <2>5
      <3>2. (i + 1) \div n = q + 1 /\ (i + 1) % n = 0
        <4>1. (q + 1) * n = q * n + n
          BY <1>1, <2>1, Multiples
        <4>2. i + 1 \in Nat /\ q + 1 \in Nat /\ (q + 1) * n <= i + 1
              /\ i + 1 < (q + 1) * n + n /\ (i + 1) - (q + 1) * n = 0
          BY <1>1, <2>1, <3>1, <4>1
        <4> QED
          BY <1>1, <4>2, DivIs
      <3>3. MonthStart(i + 1) = (q + 1) * D + DaysBefore[0]
        BY <1>3, <3>2
      <3>4. DaysBefore[r + 1] = D
        BY <3>1 DEF D
      <3> QED
        BY <1>2, <2>1, <2>2, <2>3, <3>3, <3>4
    <2> QED
      BY <2>4, <2>5
  <1> QED
    BY <1>4, <1>5

\* Months come one after the other.
LEMMA MonthsFollow ==
    ASSUME NEW i \in Nat, NEW j \in Nat, i <= j
    PROVE  MonthStart(i) <= MonthStart(j)
  <1> DEFINE B == {k \in Nat : i <= k /\ ~ (MonthStart(i) <= MonthStart(k))}
  <1> SUFFICES ASSUME B # {} PROVE FALSE
    OBVIOUS
  <1>1. PICK k \in B : \A l \in B : k <= l
    <2>1. B \subseteq Nat
      OBVIOUS
    <2> HIDE DEF B
    <2> QED
      BY <2>1, LeastNat
  <1>2. MonthStart(i) \in Nat /\ MonthStart(k) \in Nat
    BY MonthNext
  <1>3. k # i /\ k - 1 \in Nat /\ i <= k - 1 /\ (k - 1) + 1 = k
    BY <1>1, <1>2
  <1>4. MonthStart(i) <= MonthStart(k - 1)
    <2>1. k - 1 \notin B
      BY <1>1, <1>3
    <2> QED
      BY <1>3, <2>1
  <1>5. MonthStart(k - 1) \in Nat /\ MonthLength(k - 1) \in Nat /\ MonthStart(k) = MonthStart(k - 1) + MonthLength(k - 1)
    BY <1>3, MonthNext
  <1> QED
    BY <1>1, <1>2, <1>4, <1>5

\* Every day is in one month, which has as many days at most before it as the day.
LEMMA DayInMonth ==
    ASSUME NEW day \in Nat
    PROVE  \E i \in 0 .. day : MonthStart(i) <= day /\ day < MonthStart(i + 1)
  <1> DEFINE B == {i \in Nat : day < MonthStart(i + 1)}
  <1>1. \A i \in Nat : i <= MonthStart(i)
    <2> DEFINE C == {i \in Nat : ~ (i <= MonthStart(i))}
    <2> SUFFICES ASSUME C # {} PROVE FALSE
      OBVIOUS
    <2>1. PICK i \in C : \A j \in C : i <= j
      <3>1. C \subseteq Nat
        OBVIOUS
      <3> HIDE DEF C
      <3> QED
        BY <3>1, LeastNat
    <2>2. i # 0 /\ i - 1 \in Nat /\ (i - 1) + 1 = i
      BY <2>1, MonthNext
    <2>3. i - 1 <= MonthStart(i - 1)
      BY <2>1, <2>2
    <2>4. MonthStart(i - 1) \in Nat /\ MonthLength(i - 1) \in Nat \ {0} /\ MonthStart(i) = MonthStart(i - 1) + MonthLength(i - 1)
      BY <2>2, MonthNext
    <2> QED
      BY <2>1, <2>2, <2>3, <2>4
  <1>2. day \in B
    <2>1. day + 1 <= MonthStart(day + 1) /\ MonthStart(day + 1) \in Nat
      BY <1>1, MonthNext
    <2> QED
      BY <2>1
  <1>3. PICK i \in B : \A j \in B : i <= j
    <2>1. B \subseteq Nat
      OBVIOUS
    <2> HIDE DEF B
    <2> QED
      BY <1>2, <2>1, LeastNat
  <1>4. i \in 0 .. day
    BY <1>2, <1>3
  <1>5. MonthStart(i) <= day
    <2>1. CASE i = 0
      BY <2>1, MonthNext
    <2>2. CASE i # 0
      <3>1. i - 1 \in Nat /\ i - 1 \notin B /\ (i - 1) + 1 = i
        BY <1>3, <2>2
      <3>2. MonthStart(i) \in Nat
        BY MonthNext
      <3> QED
        BY <3>1, <3>2
    <2> QED
      BY <2>1, <2>2
  <1> QED
    BY <1>3, <1>4, <1>5

\* The day a timestamp falls on is one of its month.
LEMMA MonthHasDay ==
    ASSUME NEW t \in Nat
    PROVE  /\ t \div SecondsPerDay \in Nat /\ MonthOf(t) \in Nat
           /\ MonthStart(MonthOf(t)) <= t \div SecondsPerDay
           /\ t \div SecondsPerDay < MonthStart(MonthOf(t) + 1)
           /\ GetDay(t) \in Nat \ {0}
           /\ GetDay(t) = t \div SecondsPerDay - MonthStart(MonthOf(t)) + 1
  <1> DEFINE day == t \div SecondsPerDay
             OfDay(i) == MonthStart(i) <= day /\ day < MonthStart(i + 1)
  <1>1. day \in Nat
    BY CalendarAssumption, RoundsDown
  <1>2. MonthOf(t) = CHOOSE i \in 0 .. day : OfDay(i)
    BY DEF MonthOf
  <1> HIDE DEF day
  <1>3. \E i \in 0 .. day : OfDay(i)
    BY <1>1, DayInMonth
  <1>4. MonthOf(t) \in 0 .. day /\ OfDay(MonthOf(t))
    <2> HIDE DEF OfDay
    <2> QED
      BY <1>2, <1>3
  <1>5. MonthOf(t) \in Nat /\ MonthStart(MonthOf(t)) \in Nat
    BY <1>1, <1>4, MonthNext
  <1>6. GetDay(t) = day - MonthStart(MonthOf(t)) + 1
    BY DEF GetDay, day
  <1> QED
    BY <1>1, <1>4, <1>5, <1>6 DEF day

\* Later timestamps are in later months, or later in the month.
LEMMA MonthsOrdered ==
    ASSUME NEW t \in Nat, NEW u \in Nat, t <= u
    PROVE  MonthOf(t) <= MonthOf(u) /\ (MonthOf(t) = MonthOf(u) => GetDay(t) <= GetDay(u))
  <1> DEFINE p == t \div SecondsPerDay
             q == u \div SecondsPerDay
             z == SecondsPerDay
  <1>1. z \in Nat \ {0}
    BY CalendarAssumption
  <1>2. p <= q
    <2>1. p \in Nat /\ q \in Nat /\ p * z <= t /\ u < (q + 1) * z
      BY <1>1, RoundsDown
    <2> HIDE DEF p, q, z
    <2>2. p * z \in Nat /\ (q + 1) * z \in Nat /\ (q + 1 <= p <=> (q + 1) * z <= p * z)
      BY <1>1, <2>1, Multiples
    <2> QED
      BY <2>1, <2>2
  <1>3. /\ p \in Nat /\ MonthOf(t) \in Nat /\ MonthStart(MonthOf(t)) <= p /\ p < MonthStart(MonthOf(t) + 1)
        /\ q \in Nat /\ MonthOf(u) \in Nat /\ MonthStart(MonthOf(u)) <= q /\ q < MonthStart(MonthOf(u) + 1)
        /\ GetDay(t) = p - MonthStart(MonthOf(t)) + 1
        /\ GetDay(u) = q - MonthStart(MonthOf(u)) + 1
    BY MonthHasDay
  <1> HIDE DEF p, q
  <1>4. /\ MonthStart(MonthOf(t)) \in Nat /\ MonthStart(MonthOf(u)) \in Nat
        /\ MonthStart(MonthOf(t) + 1) \in Nat /\ MonthStart(MonthOf(u) + 1) \in Nat
    BY <1>3, MonthNext
  <1>5. ~ (MonthOf(u) + 1 <= MonthOf(t))
    <2>1. MonthOf(u) + 1 <= MonthOf(t) => MonthStart(MonthOf(u) + 1) <= MonthStart(MonthOf(t))
      BY <1>3, MonthsFollow
    <2> QED
      BY <1>2, <1>3, <1>4, <2>1
  <1> QED
    BY <1>2, <1>3, <1>4, <1>5

\* Adding months leads to that month.
LEMMA AddMonthsIn ==
    ASSUME NEW t \in Nat, NEW n \in Nat
    PROVE  /\ AddMonths(t, n) \in Nat
           /\ MonthStart(MonthOf(t) + n) * SecondsPerDay <= AddMonths(t, n)
           /\ AddMonths(t, n) < MonthStart(MonthOf(t) + n + 1) * SecondsPerDay
  <1> DEFINE z == SecondsPerDay
             m == MonthOf(t) + n
             day == IF GetDay(t) > MonthLength(m) THEN MonthLength(m) ELSE GetDay(t)
             s == MonthStart(m) + day - 1
             r == t % z
  <1>1. z \in Nat \ {0}
    BY CalendarAssumption
  <1>2. m \in Nat /\ GetDay(t) \in Nat \ {0}
    BY MonthHasDay
  <1>3. r \in Nat /\ r < z
    BY <1>1
  <1>4. AddMonths(t, n) = s * z + r
    BY DEF AddMonths
  <1> HIDE DEF z, m, r
  <1>5. /\ MonthStart(m) \in Nat /\ MonthLength(m) \in Nat \ {0}
        /\ MonthStart(m + 1) = MonthStart(m) + MonthLength(m)
    BY <1>2, MonthNext
  <1>6. s \in Nat /\ MonthStart(m) <= s /\ s + 1 <= MonthStart(m + 1)
    BY <1>2, <1>5
  <1> HIDE DEF s
  <1>7. /\ MonthStart(m) * z \in Nat /\ s * z \in Nat /\ (s + 1) * z = s * z + z
        /\ MonthStart(m + 1) * z \in Nat
        /\ MonthStart(m) * z <= s * z /\ (s + 1) * z <= MonthStart(m + 1) * z
    <2>1. MonthStart(m + 1) \in Nat /\ s + 1 \in Nat
      BY <1>5, <1>6
    <2> QED
      BY <1>1, <1>5, <1>6, <2>1, Multiples
  <1>8. s * z + r \in Nat /\ MonthStart(m) * z <= s * z + r /\ s * z + r < MonthStart(m + 1) * z
    BY <1>1, <1>3, <1>7
  <1> QED
    BY <1>4, <1>8 DEF m, z

\* Adding more months leads to a later time.
LEMMA AddMonthsOrdered ==
    ASSUME NEW t \in Nat, NEW n \in Nat, NEW k \in Nat, n <= k
    PROVE  AddMonths(t, n) <= AddMonths(t, k)
  <1>1. CASE n = k
    BY <1>1, AddMonthsIn
  <1>2. CASE n # k
    <2> DEFINE z == SecondsPerDay
               i == MonthOf(t) + n + 1
               j == MonthOf(t) + k
    <2>1. AddMonths(t, n) \in Nat /\ AddMonths(t, n) < MonthStart(i) * z
          /\ AddMonths(t, k) \in Nat /\ MonthStart(j) * z <= AddMonths(t, k)
      BY AddMonthsIn
    <2>2. i \in Nat /\ j \in Nat /\ i <= j
      BY <1>2, MonthHasDay
    <2>3. z \in Nat \ {0}
      BY CalendarAssumption
    <2> HIDE DEF i, j, z
    <2>4. MonthStart(i) \in Nat /\ MonthStart(j) \in Nat /\ MonthStart(i) <= MonthStart(j)
      BY <2>2, MonthsFollow, MonthNext
    <2>5. MonthStart(i) * z \in Nat /\ MonthStart(j) * z \in Nat /\ MonthStart(i) * z <= MonthStart(j) * z
      BY <2>3, <2>4, Multiples
    <2> QED
      BY <2>1, <2>5
  <1> QED
    BY <1>1, <1>2

-----------------------------------------------------------------------------
(* Due dates *)

LEMMA DivOrdered ==
    ASSUME NEW i \in Nat, NEW j \in Nat, i <= j, NEW z \in Nat \ {0}
    PROVE  i \div z <= j \div z
  <1> DEFINE p == i \div z
             q == j \div z
  <1>1. p \in Nat /\ q \in Nat /\ p * z <= i /\ j < (q + 1) * z
    BY RoundsDown
  <1> HIDE DEF p, q
  <1>2. p * z \in Nat /\ (q + 1) * z \in Nat /\ (q + 1 <= p <=> (q + 1) * z <= p * z)
    BY <1>1, Multiples
  <1>3. p <= q
    BY <1>1, <1>2
  <1> QED
    BY <1>3 DEF p, q

\* Rounded up, the cycles since a loan began cover the time since, and are no fewer
\* later on.
LEMMA CyclesCover ==
    ASSUME NEW a \in Nat, NEW b \in Nat, a <= b, NEW z \in Nat \ {0}
    PROVE  /\ CeilDiv(a, z) \in Nat /\ CeilDiv(a, z) * z \in Nat /\ CeilDiv(b, z) * z \in Nat
           /\ a <= CeilDiv(a, z) * z
           /\ CeilDiv(a, z) * z <= a + z
           /\ CeilDiv(a, z) * z <= CeilDiv(b, z) * z
  <1> DEFINE p == (a + z - 1) \div z
             q == (b + z - 1) \div z
  <1>1. a + z - 1 \in Nat /\ b + z - 1 \in Nat /\ a + z - 1 <= b + z - 1
    OBVIOUS
  <1>2. p \in Nat /\ q \in Nat /\ p * z <= a + z - 1 /\ a + z - 1 < (p + 1) * z /\ p <= q
    BY <1>1, RoundsDown, DivOrdered
  <1> HIDE DEF p, q
  <1>3. p * z \in Nat /\ q * z \in Nat /\ (p + 1) * z = p * z + z /\ p * z <= q * z
    BY <1>2, Multiples
  <1>4. a <= p * z /\ p * z <= a + z
    BY <1>2, <1>3
  <1> QED
    BY <1>2, <1>3, <1>4 DEF CeilDiv, p, q

\* The month of the cycle boundary that follows a payment, counted from the acceptance.
NextBoundary(acc, last) == DiffMonths(acc, last) + (IF GetDay(last) > GetDay(acc) THEN 2 ELSE 1)

LEMMA BoundaryOrdered ==
    ASSUME NEW acc \in Nat, NEW last \in Nat, NEW next \in Nat, acc <= last, last <= next
    PROVE  /\ NextBoundary(acc, last) \in Nat /\ NextBoundary(acc, next) \in Nat
           /\ NextBoundary(acc, last) <= NextBoundary(acc, next)
           /\ MonthOf(last) + 1 <= MonthOf(acc) + NextBoundary(acc, last)
           /\ MonthOf(acc) + NextBoundary(acc, last) <= MonthOf(last) + 2
  <1>1. /\ MonthOf(acc) \in Nat /\ MonthOf(last) \in Nat /\ MonthOf(next) \in Nat
        /\ GetDay(acc) \in Nat /\ GetDay(last) \in Nat /\ GetDay(next) \in Nat
    BY MonthHasDay
  <1>2. /\ MonthOf(acc) <= MonthOf(last) /\ MonthOf(last) <= MonthOf(next)
        /\ MonthOf(last) = MonthOf(next) => GetDay(last) <= GetDay(next)
    BY MonthsOrdered
  <1> QED
    BY <1>1, <1>2 DEF NextBoundary, DiffMonths

\* A boundary of a monthly loan is after the payment, and no earlier for a later payment;
\* as long as timestamps last, it is not cut down.
LEMMA MonthlyBoundary ==
    ASSUME TimestampsLast, NEW acc \in Nat, NEW last \in Nat, NEW next \in Nat,
           acc <= last, last <= next, next <= MaxTime
    PROVE  LET due(time) == AddMonths(acc, NextBoundary(acc, time)) % (MaxUint32 + 1)
           IN  due(last) \in Nat /\ due(next) \in Nat /\ last <= due(last) /\ due(last) <= due(next)
  <1> DEFINE z == SecondsPerDay
             end == MonthStart(MonthOf(MaxTime) + 3) * z
  <1>1. z \in Nat \ {0} /\ MaxTime \in Nat /\ MaxUint32 \in Nat
    BY CalendarAssumption, LendNestAssumption, CalculationsAssumption
  <1>2. end \in Nat /\ end <= MaxUint32 + 1
    <2>1. MonthStart(MonthOf(MaxTime) + 3) \in Nat
      <3>1. MonthOf(MaxTime) + 3 \in Nat
        BY <1>1, MonthHasDay
      <3> QED
        BY <3>1, MonthNext
    <2> QED
      BY <1>1, <2>1, Multiples DEF TimestampsLast
  <1>3. ASSUME NEW time \in Nat, acc <= time, time <= MaxTime
        PROVE  /\ AddMonths(acc, NextBoundary(acc, time)) \in Nat
               /\ time <= AddMonths(acc, NextBoundary(acc, time))
               /\ AddMonths(acc, NextBoundary(acc, time)) < MaxUint32 + 1
    <2> DEFINE k == NextBoundary(acc, time)
               m == MonthOf(acc) + k
    <2>1. k \in Nat /\ MonthOf(time) + 1 <= m /\ m <= MonthOf(time) + 2
      BY <1>3, BoundaryOrdered
    <2>2. MonthOf(acc) \in Nat /\ MonthOf(time) \in Nat /\ MonthOf(MaxTime) \in Nat
      BY <1>1, MonthHasDay
    <2>3. /\ AddMonths(acc, k) \in Nat /\ MonthStart(m) * z <= AddMonths(acc, k)
          /\ AddMonths(acc, k) < MonthStart(m + 1) * z
      BY <2>1, AddMonthsIn
    <2> HIDE DEF k
    <2>4. m \in Nat /\ m + 1 <= MonthOf(MaxTime) + 3
      <3>1. MonthOf(time) <= MonthOf(MaxTime)
        BY <1>1, <1>3, MonthsOrdered
      <3> QED
        BY <2>1, <2>2, <3>1
    <2>5. MonthStart(m + 1) * z <= end /\ MonthStart(m + 1) * z \in Nat
      <3>1. MonthStart(m + 1) <= MonthStart(MonthOf(MaxTime) + 3)
        BY <2>2, <2>4, MonthsFollow
      <3>2. MonthStart(m + 1) \in Nat /\ MonthStart(MonthOf(MaxTime) + 3) \in Nat
        BY <2>2, <2>4, MonthNext
      <3> HIDE DEF m
      <3> QED
        BY <1>1, <3>1, <3>2, Multiples
    <2>6. time < MonthStart(m) * z /\ MonthStart(m) * z \in Nat
      <3> DEFINE d == time \div z
      <3>1. d \in Nat /\ d < MonthStart(MonthOf(time) + 1)
        BY MonthHasDay
      <3>2. time < (d + 1) * z
        BY <1>1, RoundsDown
      <3> HIDE DEF d
      <3>3. MonthStart(MonthOf(time) + 1) <= MonthStart(m)
        BY <2>1, <2>2, <2>4, MonthsFollow
      <3>4. MonthStart(MonthOf(time) + 1) \in Nat /\ MonthStart(m) \in Nat
        BY <2>2, <2>4, MonthNext
      <3>5. d + 1 \in Nat /\ d + 1 <= MonthStart(m)
        BY <3>1, <3>3, <3>4
      <3> HIDE DEF m
      <3>6. (d + 1) * z \in Nat /\ MonthStart(m) * z \in Nat /\ (d + 1) * z <= MonthStart(m) * z
        BY <1>1, <3>4, <3>5, Multiples
      <3> QED
        BY <3>2, <3>6
    <2> HIDE DEF m, z, end
    <2> QED
      BY <1>1, <1>2, <1>3, <2>3, <2>5, <2>6 DEF k
  <1>4. \A x \in Nat : x < MaxUint32 + 1 => x % (MaxUint32 + 1) = x
    BY <1>1
  <1>5. AddMonths(acc, NextBoundary(acc, last)) <= AddMonths(acc, NextBoundary(acc, next))
    BY BoundaryOrdered, AddMonthsOrdered
  <1>6. acc <= next /\ last <= MaxTime
    BY <1>1
  <1> QED
    BY <1>3, <1>4, <1>5, <1>6

\* The same of every loan.
LEMMA CycleBoundary ==
    ASSUME TimestampsLast, NEW t \in BidType, NEW acc \in Nat, NEW last \in Nat, NEW next \in Nat,
           acc <= last, last <= next, next <= MaxTime,
           t.paymentCycle = 0 => next = acc
    PROVE  /\ CycleDueDate(t, acc, last) \in Nat /\ CycleDueDate(t, acc, next) \in Nat
           /\ last <= CycleDueDate(t, acc, last)
           /\ CycleDueDate(t, acc, last) <= CycleDueDate(t, acc, next)
  <1>1. CASE t.cycleType = "Monthly"
    BY <1>1, MonthlyBoundary DEF CycleDueDate, NextBoundary
  <1>2. CASE t.cycleType = "Seconds"
    <2> DEFINE z == t.paymentCycle
               since(time) == IF time > acc THEN CeilDiv(time - acc, z) * z ELSE 0
    <2>1. z \in Nat
      BY DEF BidType
    <2>2. \A time \in Nat : CycleDueDate(t, acc, time) = acc + z + since(time)
      BY <1>2 DEF CycleDueDate
    <2> HIDE DEF z
    <2>3. since(last) \in Nat /\ since(next) \in Nat /\ last - acc <= since(last) /\ since(last) <= since(next)
      <3>1. CASE z = 0
        BY <3>1 DEF z
      <3>2. CASE z # 0
        <4>1. last - acc \in Nat /\ next - acc \in Nat /\ last - acc <= next - acc
          OBVIOUS
        <4>2. /\ CeilDiv(last - acc, z) * z \in Nat /\ CeilDiv(next - acc, z) * z \in Nat
              /\ last - acc <= CeilDiv(last - acc, z) * z
              /\ CeilDiv(last - acc, z) * z <= CeilDiv(next - acc, z) * z
          BY <2>1, <3>2, <4>1, CyclesCover
        <4> QED
          BY <4>1, <4>2
      <3> QED
        BY <3>1, <3>2
    <2> HIDE DEF since
    <2> QED
      BY <2>1, <2>2, <2>3
  <1> QED
    BY <1>1, <1>2 DEF BidType

\* A loan whose payment cycle was left at zero is never paid, since calculateAmountOwed
\* divides by it.
CyclesPaid ==
    \A b \in Bids : state[b] = "ACCEPTED" /\ bid[b].paymentCycle = 0 => lastRepaid[b] = accepted[b]

\* What a step can do to a loan that runs before and after it: a payment, of what is
\* due at least and less than the debt, or nothing its due dates depend on.
LEMMA RunningStep ==
    ASSUME IInv, [Next]_vars, NEW b \in Bids, state[b] = "ACCEPTED", state'[b] = "ACCEPTED"
    PROVE  \/ UNCHANGED <<repaidPrincipal[b], repaidInterest[b], lastRepaid[b]>>
           \/ /\ ~OwedReverts(b) /\ lastRepaid'[b] = now /\ now' = now
              /\ \E principal \in Nat : /\ Due(b) <= principal
                                        /\ ~IsSettled(b, principal, InterestOwed(b))
  <1>1. /\ state \in [Bids -> BidState] /\ lastRepaid \in [Bids -> Nat]
        /\ repaidPrincipal \in [Bids -> Nat] /\ repaidInterest \in [Bids -> Nat]
    BY DEF IInv, TypeOK, LoanTypeOK
  <1>2. CASE PaymentStep
    <2>1. PICK payer \in Payers, c \in Bids, st \in {"ACCEPTED", "LIQUIDATED"},
               principal \in Nat, direct \in BOOLEAN : PaysBack(payer, c, st, principal, direct)
      BY <1>2, PaymentForm
    <2>2. /\ repaidPrincipal' = [repaidPrincipal EXCEPT ![c] = @ + principal]
          /\ repaidInterest' = [repaidInterest EXCEPT ![c] = @ + InterestOwed(c)]
          /\ lastRepaid' = [lastRepaid EXCEPT ![c] = now] /\ now' = now
      BY <2>1 DEF PaysBack, RepayLoan_
    <2>3. CASE c # b
      BY <1>1, <2>2, <2>3
    <2>4. CASE c = b
      <3>1. ~IsSettled(b, principal, InterestOwed(b))
        BY <2>1, <2>4, PaymentOutcome
      <3>2. st = "ACCEPTED"
        BY <2>1, <2>4, <3>1, PaymentOutcome
      <3> QED
        BY <1>1, <2>1, <2>2, <2>4, <3>1, <3>2 DEF PaysBack
    <2> QED
      BY <2>3, <2>4
  <1>3. ASSUME NEW sender, NEW c \in Bids, LenderAcceptBid(sender, c)
        PROVE  UNCHANGED <<repaidPrincipal[b], repaidInterest[b], lastRepaid[b]>>
    BY <1>1, <1>3 DEF LenderAcceptBid
  <1> QED
    BY <1>2, <1>3, StepForm DEF SubmitBid, Cancel, ClaimLoanNFT, TransferLoanNFT, LenderCloseLoan,
       loanVars

\* Time is advanced by nobody but the producers of blocks.
LEMMA TimePasses ==
    ASSUME IInv, [Next]_vars
    PROVE  now' = now \/ (now < MaxTime /\ now' = now + 1)
  <1>1. CASE PaymentStep
    BY <1>1, PaymentForm, PaymentOutcome
  <1>2. CASE BorrowerStep
    BY <1>2 DEF BorrowerStep, SubmitBid, CancelBid, MarketOwnerCancelBid, Cancel
  <1>3. CASE LenderStep
    BY <1>3 DEF LenderStep, LenderAcceptBid, ClaimLoanNFT, TransferLoanNFT
  <1>4. CASE CustodyStep
    BY <1>4 DEF CustodyStep, LenderCloseLoan, WithdrawPaidCollateral, WithdrawFromVault
  <1>5. CASE ReputationStep \/ OwnerStep \/ MarketStep \/ Tick
    BY <1>5 DEF ReputationStep, UpdateAccountReputation, UpdateBidReputation, OwnerStep,
       PauseProtocol, UnpauseProtocol, SetProtocolFee, MarketStep, Tick
  <1>6. CASE UNCHANGED vars
    BY <1>6 DEF vars
  <1> QED
    BY <1>1, <1>2, <1>3, <1>4, <1>5, <1>6 DEF Next

LEMMA StepCycles == IInv /\ CyclesPaid /\ [Next]_vars => CyclesPaid'
  <1> SUFFICES ASSUME IInv, CyclesPaid, [Next]_vars, NEW b \in Bids,
                      state'[b] = "ACCEPTED", bid'[b].paymentCycle = 0
               PROVE  lastRepaid'[b] = accepted'[b]
    BY DEF CyclesPaid
  <1>1. CASE state[b] = "ACCEPTED"
    <2>1. bid'[b] = bid[b] /\ accepted'[b] = accepted[b]
      BY <1>1, TermsFixed
    <2>2. OwedReverts(b)
      BY <2>1 DEF OwedReverts, AmountOwedReverts
    <2>3. lastRepaid'[b] = lastRepaid[b]
      BY <1>1, <2>2, RunningStep
    <2> QED
      BY <1>1, <2>1, <2>3 DEF CyclesPaid
  <1>2. CASE state[b] # "ACCEPTED"
    <2>1. state \in [Bids -> BidState] /\ lastRepaid \in [Bids -> Nat] /\ accepted \in [Bids -> Nat]
      BY DEF IInv, TypeOK, LoanTypeOK
    <2>2. ~PaymentStep
      <3> SUFFICES ASSUME PaymentStep PROVE FALSE
        OBVIOUS
      <3>1. PICK payer \in Payers, c \in Bids, st \in {"ACCEPTED", "LIQUIDATED"},
                 principal \in Nat, direct \in BOOLEAN : PaysBack(payer, c, st, principal, direct)
        BY PaymentForm
      <3>2. b # c
        BY <1>2, <3>1 DEF PaysBack
      <3> QED
        BY <1>2, <3>1, <3>2, PaymentOutcome
    <2>3. PICK sender \in Lenders, c \in Bids : LenderAcceptBid(sender, c)
      BY <1>2, <2>1, <2>2, StepForm DEF SubmitBid, Cancel, ClaimLoanNFT,
         TransferLoanNFT, LenderCloseLoan, loanVars
    <2>4. b = c
      BY <1>2, <2>1, <2>3 DEF LenderAcceptBid
    <2> QED
      BY <2>1, <2>3, <2>4 DEF LenderAcceptBid
  <1> QED
    BY <1>1, <1>2

LEMMA CyclesInvariance == Spec => [](IInv /\ CyclesPaid)
  <1>1. Init => CyclesPaid
    BY DEF Init, CyclesPaid
  <1> QED
    BY <1>1, StepCycles, Invariance, PTL DEF Spec

\* Blocks keep to the bound on time.
InTime == now <= MaxTime

LEMMA TimeBounded == ASSUME TimestampsLast PROVE Spec => []InTime
  <1>1. Init => InTime
    BY DEF Init, TimestampsLast, InTime
  <1>2. IInv /\ InTime /\ [Next]_vars => InTime'
    BY TimePasses, LendNestAssumption DEF IInv, TypeOK, LoanTypeOK, InTime
  <1> QED
    BY <1>1, <1>2, Invariance, PTL DEF Spec

\* What the theorems on due dates suppose of a state.
DueInv == CyclesPaid /\ InTime

\* Whenever payments are made, in markets of either kind of cycle and with months of
\* any lengths, the next due date of a running loan never moves back and never passes
\* the end of the loan.
THEOREM DueDatesAdvance == ASSUME TimestampsLast PROVE Spec => DueDateAdvances
  <1>1. ASSUME IInv, DueInv, IInv', DueInv', [Next]_vars, NEW b \in Bids,
               state[b] = "ACCEPTED", state'[b] = "ACCEPTED"
        PROVE  /\ DueDate(b, LastRepaid(b)) <= DueDate(b, LastRepaid(b))'
               /\ DueDate(b, LastRepaid(b))' <= EndOfLoan(bid[b], accepted[b])
    <2> DEFINE t == bid[b]
               acc == accepted[b]
               last == lastRepaid[b]
               next == lastRepaid'[b]
               end == EndOfLoan(t, acc)
    <2>1. bid'[b] = t /\ accepted'[b] = acc
      BY <1>1, TermsFixed
    <2>2. LastRepaid(b) = last /\ LastRepaid(b)' = next
      BY <1>1 DEF IInv, TypeOK, LoanTypeOK, WellFormed, LastRepaid, LastRepaidTimestamp
    <2>3. t \in BidType /\ acc \in Nat /\ last \in Nat /\ next \in Nat /\ acc <= last /\ next <= MaxTime
      BY <1>1, LendNestAssumption DEF IInv, TypeOK, LoanTypeOK, WellFormed, DueInv, InTime, CyclesPaid
    <2>4. last <= next /\ (t.paymentCycle = 0 => next = acc)
      <3>1. next = last \/ (~OwedReverts(b) /\ next = now)
        BY <1>1, RunningStep
      <3>2. ~OwedReverts(b) => t.paymentCycle # 0
        BY DEF OwedReverts, AmountOwedReverts
      <3> QED
        BY <1>1, <2>3, <3>1, <3>2 DEF IInv, WellFormed, DueInv, CyclesPaid
    <2>5. DueDate(b, LastRepaid(b)) = CalculateNextDueDate(t, acc, last)
          /\ DueDate(b, LastRepaid(b))' = CalculateNextDueDate(t, acc, next)
      BY <2>1, <2>2 DEF DueDate
    <2>6. /\ CycleDueDate(t, acc, last) \in Nat /\ CycleDueDate(t, acc, next) \in Nat
          /\ CycleDueDate(t, acc, last) <= CycleDueDate(t, acc, next)
      <3> HIDE DEF t, acc, last, next
      <3> QED
        BY <2>3, <2>4, CycleBoundary
    <2>7. end \in Nat
      BY <2>3 DEF EndOfLoan, BidType
    <2> HIDE DEF t, acc, last, next
    <2> QED
      BY <2>5, <2>6, <2>7 DEF CalculateNextDueDate, t, acc
  <1>2. IInv /\ DueInv /\ (IInv /\ DueInv)' /\ [Next]_vars =>
           [\A b \in Bids :
               state[b] = "ACCEPTED" /\ state'[b] = "ACCEPTED" =>
                  /\ DueDate(b, LastRepaid(b)) <= DueDate(b, LastRepaid(b))'
                  /\ DueDate(b, LastRepaid(b))' <= EndOfLoan(bid[b], accepted[b])]_vars
    BY <1>1
  <1> QED
    BY <1>2, CyclesInvariance, TimeBounded, PTL DEF Spec, DueInv, DueDateAdvances

\* In the last cycle everything that is still owed is due.
LEMMA LastCycleSettles ==
    ASSUME IInv, NEW b \in Bids, state[b] = "ACCEPTED", ~OwedReverts(b),
           IsLastPaymentCycle(bid[b], accepted[b], repaidPrincipal[b], LastRepaid(b), now)
    PROVE  Due(b) = Owed(b)
  <1>1. Owed(b) \in Nat /\ InterestOwed(b) \in Nat
    BY OwedType
  <1>2. OwedAmount(bid[b], accepted[b], repaidPrincipal[b], LastRepaid(b), now)
           = Owed(b) + InterestOwed(b)
    BY DEF OwedAmount, Owed, InterestOwed
  <1>3. (Owed(b) + InterestOwed(b)) - InterestOwed(b) = Owed(b)
    BY <1>1
  <1> QED
    BY <1>1, <1>2, <1>3 DEF Due, DuePrincipal, Owed, InterestOwed

\* A payment that leaves part of the debt is made before the last cycle, so that the
\* loan is not late right after it, however late it was before.
THEOREM PaymentCures == ASSUME TimestampsLast PROVE Spec => PaymentCuresLateness
  <1>1. ASSUME IInv, DueInv, IInv', DueInv', [Next]_vars, NEW b \in Bids,
               state[b] = "ACCEPTED", state'[b] = "ACCEPTED",
               <<repaidPrincipal[b], repaidInterest[b], lastRepaid[b]>>'
                  # <<repaidPrincipal[b], repaidInterest[b], lastRepaid[b]>>
        PROVE  ~IsLate(b, "ACCEPTED", LastRepaid(b))'
    <2> DEFINE t == bid[b]
               acc == accepted[b]
               end == EndOfLoan(t, acc)
    <2>1. PICK principal \in Nat : /\ ~OwedReverts(b) /\ lastRepaid'[b] = now /\ now' = now
                                   /\ Due(b) <= principal
                                   /\ ~IsSettled(b, principal, InterestOwed(b))
      BY <1>1, RunningStep
    <2>2. bid'[b] = t /\ accepted'[b] = acc /\ LastRepaid(b)' = now
      <3>1. bid'[b] = t /\ accepted'[b] = acc
        BY <1>1, TermsFixed
      <3>2. LastRepaid(b)' = lastRepaid'[b]
        BY <1>1 DEF IInv, TypeOK, LoanTypeOK, WellFormed, LastRepaid, LastRepaidTimestamp
      <3> QED
        BY <2>1, <3>1, <3>2
    <2>3. t \in BidType /\ acc \in Nat /\ now \in Nat /\ acc <= now /\ now <= MaxTime
      BY <1>1, LendNestAssumption DEF IInv, TypeOK, LoanTypeOK, WellFormed, DueInv, InTime, CyclesPaid
    <2>4. t.paymentCycle \in Nat \ {0}
      BY <2>1, <2>3 DEF OwedReverts, AmountOwedReverts, BidType
    <2>5. ~IsLastPaymentCycle(t, acc, repaidPrincipal[b], LastRepaid(b), now)
      <3> SUFFICES ASSUME IsLastPaymentCycle(t, acc, repaidPrincipal[b], LastRepaid(b), now)
                   PROVE  FALSE
        OBVIOUS
      <3>1. Due(b) = Owed(b)
        BY <1>1, <2>1, LastCycleSettles
      <3>2. Owed(b) \in Nat /\ InterestOwed(b) \in Nat
        BY <1>1, OwedType
      <3> QED
        BY <2>1, <3>1, <3>2 DEF IsSettled
    <2>6. now <= end /\ end \in Nat
      <3>1. t.duration \in Nat /\ t.duration % t.paymentCycle \in Nat
        BY <2>3, <2>4 DEF BidType
      <3>2. end \in Nat /\ LastCycleStart(t, acc) \in Int /\ LastCycleStart(t, acc) <= end
        BY <2>3, <2>4, <3>1 DEF LastCycleStart, EndOfLoan
      <3>3. ~ (now > LastCycleStart(t, acc))
        BY <2>5 DEF IsLastPaymentCycle
      <3> QED
        BY <2>3, <3>2, <3>3
    <2>7. CycleDueDate(t, acc, now) \in Nat /\ now <= CycleDueDate(t, acc, now)
      <3> HIDE DEF t, acc
      <3> QED
        BY <2>3, <2>4, CycleBoundary
    <2>8. DueDate(b, LastRepaid(b))' = CalculateNextDueDate(t, acc, now)
      BY <2>2 DEF DueDate
    <2>9. now <= CalculateNextDueDate(t, acc, now) /\ CalculateNextDueDate(t, acc, now) \in Nat
      BY <2>6, <2>7 DEF CalculateNextDueDate
    <2> HIDE DEF t, acc
    <2>10. IsLate(b, "ACCEPTED", LastRepaid(b))' => now' > DueDate(b, LastRepaid(b))'
      BY DEF IsLate
    <2> QED
      BY <2>1, <2>3, <2>8, <2>9, <2>10
  <1>2. IInv /\ DueInv /\ (IInv /\ DueInv)' /\ [Next]_vars =>
           [\A b \in Bids :
               /\ state[b] = "ACCEPTED" /\ state'[b] = "ACCEPTED"
               /\ <<repaidPrincipal[b], repaidInterest[b], lastRepaid[b]>>'
                     # <<repaidPrincipal[b], repaidInterest[b], lastRepaid[b]>>
               => ~IsLate(b, "ACCEPTED", LastRepaid(b))']_vars
    BY <1>1
  <1> QED
    BY <1>2, CyclesInvariance, TimeBounded, PTL DEF Spec, DueInv, PaymentCuresLateness

-----------------------------------------------------------------------------
(* Loans can be ended *)

\* The next due date of a running loan is a time, and for terms that fit in 32 bits
\* neither it nor the moment of default overflows.
LEMMA DueDateFits ==
    ASSUME IInv, CyclesPaid, NEW b \in Bids, state[b] = "ACCEPTED", FitsTimestamps(b)
    PROVE  /\ ~NextDueDateReverts(bid[b], accepted[b], LastRepaid(b))
           /\ ~DefaultCheckReverts(b, "ACCEPTED", LastRepaid(b), 0)
  <1> DEFINE t == bid[b]
             acc == accepted[b]
             last == lastRepaid[b]
             z == t.paymentCycle
             due == CycleDueDate(t, acc, last)
             end == EndOfLoan(t, acc)
  <1>1. /\ t \in BidType /\ acc \in Nat /\ last \in Nat /\ acc <= last
        /\ z = 0 => last = acc
    BY DEF IInv, TypeOK, LoanTypeOK, WellFormed, CyclesPaid
  <1>2. LastRepaid(b) = last
    BY <1>1 DEF LastRepaid, LastRepaidTimestamp
  <1>3. /\ z \in Nat /\ end \in Nat /\ t.defaultDuration \in Nat
        /\ t.cycleType \in {"Seconds", "Monthly"} /\ acc <= end
    BY <1>1 DEF BidType, EndOfLoan
  <1>4. end + t.defaultDuration <= MaxUint32 /\ last + 2 * z <= MaxUint32 /\ MaxUint32 \in Nat
    BY <1>2, CalculationsAssumption DEF FitsTimestamps
  <1> HIDE DEF t, acc, last
  <1>5. due \in Nat /\ (t.cycleType = "Seconds" => due <= last + 2 * z)
    <2>1. CASE t.cycleType = "Monthly"
      <3>1. NextBoundary(acc, last) \in Nat
        BY <1>1, BoundaryOrdered
      <3>2. AddMonths(acc, NextBoundary(acc, last)) \in Nat
        BY <1>1, <3>1, AddMonthsIn
      <3>3. due = AddMonths(acc, NextBoundary(acc, last)) % (MaxUint32 + 1)
        BY <2>1 DEF CycleDueDate, NextBoundary
      <3> HIDE DEF due
      <3> QED
        BY <1>4, <2>1, <3>2, <3>3
    <2>2. CASE t.cycleType = "Seconds" /\ z # 0
      <3> DEFINE ceil == CeilDiv(last - acc, z) * z
      <3>1. last - acc \in Nat
        BY <1>1
      <3>2. ceil \in Nat /\ ceil <= (last - acc) + z
        <4> DEFINE since == last - acc
        <4>1. since \in Nat /\ since <= since /\ z \in Nat \ {0}
          BY <1>3, <2>2, <3>1
        <4> HIDE DEF since, z
        <4>2. CeilDiv(since, z) * z \in Nat /\ CeilDiv(since, z) * z <= since + z
          BY <4>1, CyclesCover
        <4> QED
          BY <4>2 DEF since
      <3>3. due = acc + z + (IF last > acc THEN ceil ELSE 0)
        BY <2>2 DEF CycleDueDate
      <3> HIDE DEF ceil, due, z
      <3> QED
        BY <1>1, <1>3, <3>2, <3>3
    <2>3. CASE t.cycleType = "Seconds" /\ z = 0
      <3>1. due = acc
        BY <1>1, <2>3 DEF CycleDueDate
      <3> QED
        BY <1>1, <1>3, <2>3, <3>1
    <2> QED
      BY <1>3, <2>1, <2>2, <2>3
  <1> HIDE DEF due, end, z
  <1>6. ~NextDueDateReverts(t, acc, last)
    BY <1>1, <1>3, <1>4, <1>5 DEF NextDueDateReverts, due, end, z
  <1>7. CalculateNextDueDate(t, acc, last) \in Nat /\ CalculateNextDueDate(t, acc, last) <= end
    BY <1>3, <1>5 DEF CalculateNextDueDate, due, end
  <1>8. DefaultTime(b, last, 0) = CalculateNextDueDate(t, acc, last) + t.defaultDuration + 0
    BY DEF DefaultTime, DueDate, t, acc
  <1>9. ~ (DefaultTime(b, last, 0) > MaxUint32)
    BY <1>3, <1>4, <1>7, <1>8
  <1> QED
    BY <1>2, <1>6, <1>9 DEF DefaultCheckReverts, t, acc

\* What lenderCloseLoan checks besides that the loan is in default.
ClosingPasses(b) ==
    ~DefaultCheckReverts(b, state[b], LastRepaid(b), 0) /\ CanWithdraw(b)

\* What repayLoanFull checks.
RepaymentPasses(payer, b) ==
    LET principal == Owed(b)
        interest  == InterestOwed(b)
    IN  /\ ~OwedReverts(b)
        /\ ~MarksAfterPaymentReverts(b, "ACCEPTED", principal, interest)
        /\ CanTransfer(tokenBalance, payer, AmountTaken(b, principal, interest))
        /\ StateAfterPayment(b, "ACCEPTED", principal, interest) = "PAID"
        /\ CanWithdraw(b)

\* The payment cycle of a loan, by which calculateAmountOwed divides and which it takes
\* off the end of the loan.
CycleFits(b) == bid[b].paymentCycle \in 1 .. EndOfLoan(bid[b], accepted[b])

\* Every check on the way out of a running loan.
WaysOut ==
    \A b \in Bids :
        state[b] = "ACCEPTED" /\ FitsTimestamps(b) =>
            /\ ClosingPasses(b)
            /\ \A payer \in Payers :
                  /\ CycleFits(b) /\ InstalmentCovers(b)
                  /\ tokenBalance[payer] >= Owed(b) + InterestOwed(b)
                  => RepaymentPasses(payer, b)

\* The checks RunningLoanRepayable and CollateralNeverStuck ask for: a loan whose terms
\* fit can be closed when it is in default, and before that be repaid in full by whoever
\* has the money, with the collateral going back, whatever owners did and whoever the
\* lender is.
THEOREM LoansCanEnd == Spec => []WaysOut
  <1>1. ASSUME IInv, CyclesPaid, EscrowsRelease PROVE WaysOut
    <2> SUFFICES ASSUME NEW b \in Bids, state[b] = "ACCEPTED", FitsTimestamps(b)
                 PROVE  /\ ClosingPasses(b)
                        /\ \A payer \in Payers :
                              /\ CycleFits(b) /\ InstalmentCovers(b)
                              /\ tokenBalance[payer] >= Owed(b) + InterestOwed(b)
                              => RepaymentPasses(payer, b)
      BY DEF WaysOut
    <2>1. CanWithdraw(b)
      BY <1>1 DEF EscrowsRelease
    <2>2. ClosingPasses(b)
      BY <1>1, <2>1, DueDateFits DEF ClosingPasses
    <2>3. ASSUME NEW payer \in Payers, CycleFits(b), InstalmentCovers(b),
                 tokenBalance[payer] >= Owed(b) + InterestOwed(b)
          PROVE  RepaymentPasses(payer, b)
      <3>1. Owed(b) \in Nat /\ InterestOwed(b) \in Nat
        BY <1>1, OwedType
      <3>2. IsSettled(b, Owed(b), InterestOwed(b))
        BY <3>1 DEF IsSettled
      <3>3. StateAfterPayment(b, "ACCEPTED", Owed(b), InterestOwed(b)) = "PAID"
        BY <3>2 DEF StateAfterPayment
      <3>4. ~MarksAfterPaymentReverts(b, "ACCEPTED", Owed(b), InterestOwed(b))
        BY <1>1, <3>3, DueDateFits DEF MarksAfterPaymentReverts, MarkReverts, LateCheckReverts,
           DefaultCheckReverts
      <3>5. CanTransfer(tokenBalance, payer, AmountTaken(b, Owed(b), InterestOwed(b)))
        BY <2>3, <3>1, <3>2 DEF AmountTaken, CanTransfer
      <3>6. ~OwedReverts(b)
        <4> DEFINE t == bid[b]
                   acc == accepted[b]
                   z == t.paymentCycle
        <4>1. t \in BidType /\ acc \in Nat /\ t.duration \in Nat /\ z \in Nat \ {0}
              /\ z <= acc + t.duration
          BY <1>1, <2>3 DEF IInv, TypeOK, LoanTypeOK, BidType, CycleFits, EndOfLoan
        <4>2. ~ (LastCycleStart(t, acc) < 0)
          <5> DEFINE rest == t.duration % z
          <5>1. rest \in Nat /\ rest < z
            BY <4>1
          <5>2. LastCycleStart(t, acc) = acc + t.duration - (IF rest = 0 THEN z ELSE rest)
            BY DEF LastCycleStart
          <5> HIDE DEF rest, t, acc, z
          <5> QED
            BY <4>1, <5>1, <5>2
        <4>3. ~ (repaidPrincipal[b] > t.principal)
          BY <1>1, <4>1 DEF IInv, RepaidWithinPrincipal, TypeOK, LoanTypeOK, BidType
        <4>4. t.paymentType = "EMI" =>
                 ~ (OwedAmount(t, acc, repaidPrincipal[b], LastRepaid(b), now)
                       < Interest(t, repaidPrincipal[b], LastRepaid(b), now))
          <5> DEFINE share == OwedAmount(t, acc, repaidPrincipal[b], LastRepaid(b), now)
          <5>1. t.paymentType = "EMI" => share >= InterestOwed(b)
            BY <2>3, <4>1 DEF InstalmentCovers
          <5>2. share \in Int
            <6>1. IsLastPaymentCycle(t, acc, repaidPrincipal[b], LastRepaid(b), now)
                     => share = Owed(b) + InterestOwed(b)
              BY DEF OwedAmount, Owed, InterestOwed
            <6>2. t.cycleAmount * (now - LastRepaid(b)) \in Nat
              <7>1. t.cycleAmount \in Nat /\ now - LastRepaid(b) \in Nat
                BY <1>1, <4>1, OwedType DEF BidType, IInv, TypeOK, LoanTypeOK
              <7> QED
                BY <7>1, MulNat
            <6>3. ~IsLastPaymentCycle(t, acc, repaidPrincipal[b], LastRepaid(b), now)
                     => share = (t.cycleAmount * (now - LastRepaid(b))) \div z
              BY DEF OwedAmount
            <6>4. (t.cycleAmount * (now - LastRepaid(b))) \div z \in Nat
              BY <4>1, <6>2, DivNat
            <6> HIDE DEF share
            <6> QED
              BY <3>1, <6>1, <6>3, <6>4
          <5> HIDE DEF share
          <5>3. t.paymentType = "EMI" => ~ (share < InterestOwed(b))
            BY <3>1, <5>1, <5>2
          <5> QED
            BY <5>3 DEF share, InterestOwed
        <4> QED
          BY <4>1, <4>2, <4>3, <4>4 DEF OwedReverts, AmountOwedReverts
      <3> QED
        BY <2>1, <3>3, <3>4, <3>5, <3>6 DEF RepaymentPasses
    <2> QED
      BY <2>2, <2>3
  <1> QED
    BY <1>1, CyclesInvariance, EscrowsCanRelease, PTL

-----------------------------------------------------------------------------
(* The parts of an abstract step *)

\* A bid that changes its state moves the loan's stage.
LEMMA StageMoves ==
    ASSUME IInv, NEW b \in Bids, NEW st, state' = [state EXCEPT ![b] = st]
    PROVE  Abstract!Advance(b, StageOf(state[b]), StageOf(st))
  <1>1. state \in [Bids -> BidState]
    BY DEF IInv, TypeOK, LoanTypeOK
  <1> QED
    BY <1>1 DEF Abstract!Advance

\* What the abstract state reads of the loans stays as it is with their variables.
LEMMA DebtorKept == ASSUME bid' = bid PROVE UNCHANGED [b \in Bids |-> bid[b].borrower]
  OBVIOUS

LEMMA CreditorKept ==
    ASSUME UNCHANGED <<lender, loanOwner>> PROVE UNCHANGED [b \in Bids |-> LoanLender(b)]
  BY DEF LoanLender

LEMMA OfferKept ==
    ASSUME UNCHANGED <<collateralAddresses, collateralAmount>>
    PROVE  UNCHANGED [b \in Bids |-> Pledge(b)]
  BY DEF Pledge

LEMMA StageKept == ASSUME state' = state PROVE UNCHANGED [b \in Bids |-> StageOf(state[b])]
  OBVIOUS

\* A step that touches neither loans nor collateral is none for the abstract
\* specification.
LEMMA Stutters ==
    ASSUME UNCHANGED <<state, bid, lender, loanOwner, cmVars>>
    PROVE  UNCHANGED Abstract!vars
  BY StageKept, DebtorKept, CreditorKept, OfferKept DEF Abstract!vars, cmVars

-----------------------------------------------------------------------------
(* The pot *)

\* What leaves an escrow is all it holds, and its receiver gets it.
LEMMA PotEmptied ==
    ASSUME IInv, NEW b \in Bids, NEW receiver \in Accounts, WithdrawCollateral(b, receiver),
           escrowTokens[b] \in {NoCollateral, Pledge(b)}
    PROVE  Abstract!EmptyPot(b, receiver)
           /\ UNCHANGED <<collateralAddresses, collateralAmount>>
  <1>1. /\ escrowTokens' = [escrowTokens EXCEPT ![b] = NoCollateral]
        /\ UNCHANGED <<collateralAddresses, collateralAmount>>
    BY WithdrawInv
  <1>2. \A a \in Assets : escrowTokens[b][a] = Pledge(b)[a]
    BY DEF IInv, CustodyMatchesState, TypeOK, CMTypeOK, WithdrawCollateral, CanWithdraw,
       NoCollateral, Pledge
  <1>3. assetBalance' = [a \in Assets |->
                           [assetBalance[a] EXCEPT ![receiver] = @ + escrowTokens[b][a]]]
    BY <1>2 DEF WithdrawCollateral
  <1> QED
    BY <1>1, <1>3 DEF Abstract!EmptyPot, Abstract!Nothing, NoCollateral

\* Nothing has to leave the escrow of a bid without collateral.
LEMMA EmptyPotEmptied ==
    ASSUME IInv, NEW b \in Bids, NEW receiver \in Accounts, ~IsBidCollateralBacked(b),
           escrowTokens[b] = Pledge(b), UNCHANGED cmVars
    PROVE  Abstract!EmptyPot(b, receiver)
  <1>1. /\ escrowTokens[b] = NoCollateral
        /\ escrowTokens \in [Bids -> [Assets -> Nat]]
        /\ assetBalance \in [Assets -> [Accounts -> Nat]]
    BY DEF IsBidCollateralBacked, Pledge, NoCollateral, IInv, TypeOK, CMTypeOK
  <1>2. escrowTokens' = [escrowTokens EXCEPT ![b] = NoCollateral]
    BY <1>1 DEF cmVars
  <1>3. \A a \in Assets : [assetBalance[a] EXCEPT ![receiver] = @ + escrowTokens[b][a]]
                              = assetBalance[a]
    BY <1>1 DEF NoCollateral
  <1>4. assetBalance' = [a \in Assets |->
                           [assetBalance[a] EXCEPT ![receiver] = @ + escrowTokens[b][a]]]
    BY <1>1, <1>3 DEF cmVars
  <1> QED
    BY <1>2, <1>4 DEF Abstract!EmptyPot, Abstract!Nothing, NoCollateral

-----------------------------------------------------------------------------
(* Each operation is an abstract step or none *)

\* submitBid opens an offer.
LEMMA SubmitBidMaps ==
    ASSUME IInv, IInv', NEW sender \in Borrowers, NEW receiver, NEW m, NEW principal,
           NEW duration, NEW apr, NEW infos, NEW b, b = bidId,
           SubmitBid(sender, receiver, m, principal, duration, apr, infos)
    PROVE  b \in Bids /\ Abstract!Open(b)
  <1> DEFINE new == NewBid(sender, receiver, m, principal, duration, apr)
  <1>1. b \in Bids /\ state[b] = "NONEXISTENT" /\ sender \in Accounts
    BY TypesAssumption, LendNestAssumption DEF IInv, TypeOK, LoanTypeOK, WellFormed, SubmitBid, Bids
  <1>2. Abstract!Advance(b, "none", "offered")
    <2>1. Abstract!Advance(b, StageOf(state[b]), StageOf("PENDING"))
      BY <1>1, StageMoves DEF SubmitBid
    <2> QED
      BY <1>1, <2>1 DEF StageOf
  <1>3. [c \in Bids |-> bid[c].borrower]' = [[c \in Bids |-> bid[c].borrower] EXCEPT ![b] = sender]
    <2>1. bid' = [bid EXCEPT ![b] = new] /\ new.borrower = sender
      BY DEF SubmitBid, NewBid
    <2> QED
      BY <1>1, <2>1 DEF IInv, TypeOK, LoanTypeOK
  <1>4. \A c \in Bids \ {b} : Pledge(c)' = Pledge(c)
    BY <1>1 DEF IInv, TypeOK, CMTypeOK, SubmitBid, CommitCollateral, Pledge
  <1>5. Pledge(b)' \in [Assets -> Nat]
    BY <1>1 DEF IInv, TypeOK, CMTypeOK, Pledge
  <1>6. UNCHANGED [c \in Bids |-> LoanLender(c)]
    BY CreditorKept DEF SubmitBid
  <1>7. UNCHANGED <<escrowTokens, assetBalance>>
    BY DEF SubmitBid, CommitCollateral
  <1>8. [c \in Bids |-> Pledge(c)]' = [[c \in Bids |-> Pledge(c)] EXCEPT ![b] = Pledge(b)']
    BY <1>1, <1>4
  <1>9. [c \in Bids |-> Pledge(c)]'[b] = Pledge(b)'
    BY <1>1
  <1> QED
    BY <1>1, <1>2, <1>3, <1>5, <1>6, <1>7, <1>8, <1>9 DEF Abstract!Open

\* cancelBid and marketOwnerCancelBid withdraw it.
LEMMA CancelMaps ==
    ASSUME IInv, NEW b \in Bids, Cancel(b)
    PROVE  Abstract!WithdrawOffer(b)
  <1>1. Abstract!Advance(b, StageOf("PENDING"), StageOf("CANCELLED"))
    BY StageMoves DEF Cancel
  <1> QED
    BY <1>1, DebtorKept, CreditorKept, OfferKept DEF Cancel, cmVars, StageOf,
       Abstract!WithdrawOffer

\* lenderAcceptBid funds the loan: the collateral offered goes into its pot.
LEMMA LenderAcceptBidMaps ==
    ASSUME IInv, NEW b \in Bids, NEW sender \in Lenders, LenderAcceptBid(sender, b)
    PROVE  Abstract!Fund(b, sender)
  <1> DEFINE borrower == bid[b].borrower
  <1>1. /\ state[b] = "PENDING" /\ borrower \in Accounts /\ sender \in Accounts
        /\ DeployAndDeposit(b, borrower)
        /\ lender \in [Bids -> Accounts \cup {NoAccount, UsingLenderManager}]
    BY LendNestAssumption DEF IInv, TypeOK, LoanTypeOK, WellFormed, LenderAcceptBid
  <1>2. Abstract!Advance(b, "offered", "active")
    <2>1. Abstract!Advance(b, StageOf("PENDING"), StageOf("ACCEPTED"))
      BY StageMoves DEF LenderAcceptBid
    <2> QED
      BY <2>1 DEF StageOf
  <1>3. [c \in Bids |-> LoanLender(c)]' = [[c \in Bids |-> LoanLender(c)] EXCEPT ![b] = sender]
    <2>1. lender' = [lender EXCEPT ![b] = sender] /\ loanOwner' = loanOwner
          /\ sender # UsingLenderManager
      BY <1>1, LendNestAssumption DEF LenderAcceptBid
    <2> QED
      BY <1>1, <2>1 DEF LoanLender
  <1>4. /\ escrowTokens' = [escrowTokens EXCEPT ![b] = Pledge(b)]
        /\ UNCHANGED <<collateralAddresses, collateralAmount>>
    BY <1>1, DepositInv
  <1>5. /\ \A a \in Assets : Pledge(b)[a] <= assetBalance[a][borrower]
        /\ assetBalance' = [a \in Assets |->
                              [assetBalance[a] EXCEPT ![borrower] = @ - Pledge(b)[a]]]
    <2>1. CMTypeOK
      BY DEF IInv, TypeOK
    <2>2. CASE IsBidCollateralBacked(b)
      BY <1>1, <2>1, <2>2 DEF DeployAndDeposit, CanDeposit, Pledge, CMTypeOK
    <2>3. CASE ~IsBidCollateralBacked(b)
      <3>1. UNCHANGED cmVars /\ \A a \in Assets : Pledge(b)[a] = 0
        BY <1>1, <2>3 DEF DeployAndDeposit, IsBidCollateralBacked, Pledge
      <3>2. \A a \in Assets : [assetBalance[a] EXCEPT ![borrower] = @ - Pledge(b)[a]]
                                  = assetBalance[a]
        BY <1>1, <2>1, <3>1 DEF CMTypeOK
      <3> QED
        BY <1>1, <2>1, <3>1, <3>2 DEF CMTypeOK, cmVars
    <2> QED
      BY <2>2, <2>3
  <1> QED
    BY <1>2, <1>3, <1>4, <1>5, DebtorKept, OfferKept DEF LenderAcceptBid, Abstract!Fund

\* claimLoanNFT changes the form of the lender's claim, not whose it is.
LEMMA ClaimLoanNFTMaps ==
    ASSUME IInv, NEW b \in Bids, NEW sender \in Lenders, ClaimLoanNFT(sender, b)
    PROVE  UNCHANGED Abstract!vars
  <1>1. UNCHANGED [c \in Bids |-> LoanLender(c)]
    BY LendNestAssumption DEF IInv, TypeOK, LoanTypeOK, ClaimLoanNFT, LoanLender
  <1> QED
    BY <1>1, StageKept, DebtorKept, OfferKept DEF ClaimLoanNFT, cmVars, Abstract!vars

\* A transfer of the loan NFT assigns the claim.
LEMMA TransferLoanNFTMaps ==
    ASSUME IInv, NEW b \in Bids, NEW to \in Assignees, TransferLoanNFT(to, b)
    PROVE  (to \in Accounts /\ Abstract!Assign(b, to)) \/ UNCHANGED Abstract!vars
  <1>1. UNCHANGED <<state, bid, lender, cmVars>> /\ loanOwner' = [loanOwner EXCEPT ![b] = to]
    BY DEF TransferLoanNFT
  <1>2. CASE lender[b] = UsingLenderManager
    <2>1. [c \in Bids |-> LoanLender(c)]' = [[c \in Bids |-> LoanLender(c)] EXCEPT ![b] = to]
      BY <1>1, <1>2 DEF IInv, TypeOK, LoanTypeOK, LoanLender
    <2>2. [c \in Bids |-> LoanLender(c)][b] # NoAccount
      BY <1>2 DEF TransferLoanNFT, LoanLender
    <2> QED
      BY <1>1, <2>1, <2>2, LendNestAssumption, StageKept, DebtorKept, OfferKept
      DEF Abstract!Assign, cmVars
  <1>3. CASE lender[b] # UsingLenderManager
    <2>1. UNCHANGED [c \in Bids |-> LoanLender(c)]
      BY <1>1, <1>3 DEF IInv, TypeOK, LoanTypeOK, LoanLender
    <2> QED
      BY <1>1, <2>1, StageKept, DebtorKept, OfferKept DEF Abstract!vars, cmVars
  <1> QED
    BY <1>2, <1>3

\* A payment that covers the debt repays the loan, with the collateral given back
\* or left for later; one that does not is no abstract step.
LEMMA RepayAcceptedMaps ==
    ASSUME IInv, NEW b \in Bids, state[b] = "ACCEPTED", NEW payer, NEW principal, NEW interest,
           NEW withdraw \in BOOLEAN, NEW direct,
           RepayAccepted(payer, b, principal, interest, withdraw, direct)
    PROVE  Abstract!Repay(b) \/ UNCHANGED Abstract!vars
  <1> DEFINE after == StateAfterPayment(b, "ACCEPTED", principal, interest)
  <1>1. /\ UNCHANGED <<bid, lender, loanOwner>>
        /\ state' = [state EXCEPT ![b] = after]
        /\ state \in [Bids -> BidState]
        /\ escrowTokens[b] = Pledge(b) /\ bid[b].borrower \in Accounts
    BY DEF RepayAccepted, RepayLoan_, IInv, TypeOK, LoanTypeOK, CustodyMatchesState, WellFormed
  <1>2. CASE ~IsSettled(b, principal, interest)
    <2>1. state' = state /\ UNCHANGED cmVars
      BY <1>1, <1>2 DEF RepayAccepted, StateAfterPayment
    <2> QED
      BY <1>1, <2>1, Stutters
  <1>3. CASE IsSettled(b, principal, interest)
    <2>1. Abstract!Advance(b, "active", "repaid")
      <3>1. Abstract!Advance(b, StageOf("ACCEPTED"), StageOf("PAID"))
        BY <1>1, <1>3, StageMoves DEF StateAfterPayment
      <3> QED
        BY <3>1 DEF StageOf
    <2>2. CASE withdraw
      <3>1. WithdrawCollateral(b, bid[b].borrower)
        BY <1>3, <2>2 DEF RepayAccepted, Withdraw
      <3>2. Abstract!EmptyPot(b, bid[b].borrower)
            /\ UNCHANGED <<collateralAddresses, collateralAmount>>
        BY <1>1, <3>1, PotEmptied
      <3> QED
        BY <1>1, <2>1, <3>2, DebtorKept, CreditorKept, OfferKept DEF Abstract!Repay
    <2>3. CASE ~withdraw
      <3>1. UNCHANGED cmVars
        BY <2>3 DEF RepayAccepted
      <3> QED
        BY <1>1, <2>1, <3>1, DebtorKept, CreditorKept, OfferKept DEF Abstract!Repay, cmVars
    <2> QED
      BY <2>2, <2>3
  <1> QED
    BY <1>2, <1>3

\* lenderCloseLoan seizes the collateral for the creditor of the moment.
LEMMA LenderCloseLoanMaps ==
    ASSUME IInv, NEW b \in Bids, LenderCloseLoan(b)
    PROVE  Abstract!Seize(b)
  <1>1. /\ state[b] = "ACCEPTED" /\ state' = [state EXCEPT ![b] = "CLOSED"]
        /\ UNCHANGED <<bid, lender, loanOwner>>
        /\ LenderClaimCollateral(b, "CLOSED", LoanLender(b))
    BY DEF LenderCloseLoan
  <1>2. LoanLender(b) \in Accounts /\ escrowTokens[b] = Pledge(b)
    BY <1>1 DEF IInv, WellFormed, CustodyMatchesState
  <1>3. Abstract!Advance(b, "active", "seized")
    <2>1. Abstract!Advance(b, StageOf("ACCEPTED"), StageOf("CLOSED"))
      BY <1>1, StageMoves
    <2> QED
      BY <2>1 DEF StageOf
  <1>4. Abstract!EmptyPot(b, LoanLender(b)) /\ UNCHANGED <<collateralAddresses, collateralAmount>>
    <2>1. CASE IsBidCollateralBacked(b)
      BY <1>1, <1>2, <2>1, PotEmptied DEF LenderClaimCollateral
    <2>2. CASE ~IsBidCollateralBacked(b)
      BY <1>1, <1>2, <2>2, EmptyPotEmptied DEF LenderClaimCollateral, cmVars
    <2> QED
      BY <2>1, <2>2
  <1> QED
    BY <1>1, <1>3, <1>4, DebtorKept, CreditorKept, OfferKept DEF Abstract!Seize

\* liquidateLoanFull gives the collateral to whoever paid the debt.
LEMMA LiquidateLoanFullMaps ==
    ASSUME IInv, NEW b \in Bids, NEW liquidator \in Payers, NEW direct,
           LiquidateLoanFull(liquidator, b, direct)
    PROVE  liquidator \in Accounts /\ Abstract!Liquidate(b, liquidator)
  <1>1. /\ state[b] = "ACCEPTED" /\ state' = [state EXCEPT ![b] = "LIQUIDATED"]
        /\ UNCHANGED <<bid, lender, loanOwner>>
        /\ LiquidateCollateral(b, "LIQUIDATED", liquidator)
    BY DEF LiquidateLoanFull, RepayLoan_, StateAfterPayment
  <1>2. liquidator \in Accounts /\ escrowTokens[b] = Pledge(b)
    BY <1>1, LendNestAssumption DEF IInv, CustodyMatchesState
  <1>3. Abstract!Advance(b, "active", "liquidated")
    <2>1. Abstract!Advance(b, StageOf("ACCEPTED"), StageOf("LIQUIDATED"))
      BY <1>1, StageMoves
    <2> QED
      BY <2>1 DEF StageOf
  <1>4. Abstract!EmptyPot(b, liquidator) /\ UNCHANGED <<collateralAddresses, collateralAmount>>
    <2>1. CASE IsBidCollateralBacked(b)
      BY <1>1, <1>2, <2>1, PotEmptied DEF LiquidateCollateral
    <2>2. CASE ~IsBidCollateralBacked(b)
      BY <1>1, <1>2, <2>2, EmptyPotEmptied DEF LiquidateCollateral, cmVars
    <2> QED
      BY <2>1, <2>2
  <1> QED
    BY <1>1, <1>2, <1>3, <1>4, DebtorKept, CreditorKept, OfferKept DEF Abstract!Liquidate

\* CollateralManager's withdraw gives the collateral of a repaid loan back.
LEMMA WithdrawPaidCollateralMaps ==
    ASSUME IInv, NEW b \in Bids, WithdrawPaidCollateral(b)
    PROVE  Abstract!GiveBack(b)
  <1>1. /\ state[b] = "PAID" /\ WithdrawCollateral(b, bid[b].borrower)
        /\ UNCHANGED <<state, bid, lender, loanOwner>>
    BY DEF WithdrawPaidCollateral, Withdraw, loanVars
  <1>2. bid[b].borrower \in Accounts /\ escrowTokens[b] \in {NoCollateral, Pledge(b)}
    BY <1>1 DEF IInv, WellFormed, CustodyMatchesState
  <1>3. Abstract!EmptyPot(b, bid[b].borrower)
        /\ UNCHANGED <<collateralAddresses, collateralAmount>>
    BY <1>1, <1>2, PotEmptied
  <1>4. StageOf(state[b]) = "repaid"
    BY <1>1 DEF StageOf
  <1> QED
    BY <1>1, <1>3, <1>4, StageKept, DebtorKept, CreditorKept, OfferKept DEF Abstract!GiveBack

-----------------------------------------------------------------------------
(* The refinement *)

\* The contracts as deployed are an initial state of the abstract specification.
LEMMA InitMaps == Init => Abstract!Init
  <1> SUFFICES ASSUME Init PROVE Abstract!Init
    OBVIOUS
  <1>1. [b \in Bids |-> StageOf(state[b])] = [b \in Bids |-> "none"]
    BY DEF Init, StageOf
  <1>2. [b \in Bids |-> bid[b].borrower] = [b \in Bids |-> NoAccount]
    BY DEF Init, EmptyBid
  <1>3. [b \in Bids |-> LoanLender(b)] = [b \in Bids |-> NoAccount]
    BY DEF Init, LoanLender
  <1>4. [b \in Bids |-> Pledge(b)] = [b \in Bids |-> NoCollateral]
    BY DEF Init, CMInit, Pledge, NoCollateral
  <1>5. escrowTokens = [b \in Bids |-> NoCollateral] /\ assetBalance \in [Assets -> [Accounts -> Nat]]
    BY LendNestAssumption DEF Init, CMInit
  <1> QED
    BY <1>1, <1>2, <1>3, <1>4, <1>5 DEF Abstract!Init, Abstract!Nothing, NoCollateral

\* Every step of the contracts is a step of the abstract specification or none.
LEMMA StepMaps == IInv /\ IInv' /\ [Next]_vars => [Abstract!Next]_(Abstract!vars)
  <1> SUFFICES ASSUME IInv, IInv', [Next]_vars PROVE Abstract!Next \/ UNCHANGED Abstract!vars
    OBVIOUS
  <1> USE DEF Abstract!Next
  <1>1. CASE BorrowerStep
    BY <1>1, SubmitBidMaps, CancelMaps DEF BorrowerStep, CancelBid, MarketOwnerCancelBid
  <1>2. CASE LenderStep
    BY <1>2, LendNestAssumption, LenderAcceptBidMaps, ClaimLoanNFTMaps, TransferLoanNFTMaps
    DEF LenderStep
  <1>3. CASE PaymentStep
    <2>1. ASSUME NEW payer \in Payers, NEW b \in Bids, NEW direct \in TransferOutcomes,
                 LiquidateLoanFull(payer, b, direct)
          PROVE  Abstract!Next
      BY <2>1, LiquidateLoanFullMaps
    <2>2. ASSUME NEW payer \in Payers, NEW b \in Bids, NEW direct \in TransferOutcomes,
                 RepayLoanMinimum(payer, b, direct)
                 \/ \E withdraw \in BOOLEAN :
                       \/ RepayLoanFull(payer, b, withdraw, direct)
                       \/ \E amount \in Payments : RepayLoan(payer, b, amount, withdraw, direct)
          PROVE  Abstract!Next \/ UNCHANGED Abstract!vars
      <3>1. state[b] = "ACCEPTED" /\ \E withdraw \in BOOLEAN : \E principal, interest :
               RepayAccepted(payer, b, principal, interest, withdraw, direct)
        BY <2>2 DEF RepayLoanMinimum, RepayLoanFull, RepayLoan
      <3> QED
        BY <3>1, RepayAcceptedMaps
    <2> QED
      BY <1>3, <2>1, <2>2 DEF PaymentStep
  <1>4. CASE CustodyStep
    <2>1. ASSUME NEW acct, NEW amount, WithdrawFromVault(acct, amount)
          PROVE  UNCHANGED Abstract!vars
      BY <2>1, Stutters DEF WithdrawFromVault, loanVars
    <2> QED
      BY <1>4, <2>1, LenderCloseLoanMaps, WithdrawPaidCollateralMaps DEF CustodyStep
  <1>5. CASE ReputationStep \/ OwnerStep \/ MarketStep \/ Tick \/ UNCHANGED vars
    <2>1. UNCHANGED <<state, bid, lender, loanOwner, cmVars>>
      BY <1>5 DEF ReputationStep, UpdateAccountReputation, UpdateBidReputation, OwnerStep,
         PauseProtocol, UnpauseProtocol, SetProtocolFee, MarketStep, Tick, vars, loanVars
    <2> QED
      BY <2>1, Stutters
  <1> QED
    BY <1>1, <1>2, <1>3, <1>4, <1>5 DEF Next

\* Collateral leaves the escrow of a loan once, whole, and to the borrower of a
\* repaid loan, the lender of the moment of a seized one and the liquidator of a
\* liquidated one, however the transactions of the accounts interleave.
THEOREM Refinement == Spec => ImplementsCollateralizedLoan
  BY InitMaps, StepMaps, Invariance, PTL
  DEF Spec, ImplementsCollateralizedLoan, Abstract!Spec
=============================================================================
