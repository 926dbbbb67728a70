--------------------------- MODULE LoanProperties ---------------------------
(***************************************************************************)
(* What should be true of LendNestV2 and the contracts around it.          *)
(***************************************************************************)
EXTENDS LendNestV2, FiniteSetsExt

\* Types of the state.
LoanTypeOK ==
    /\ bidId \in 0 .. MaxBids
    /\ bid \in [Bids -> BidType]
    /\ state \in [Bids -> BidState]
    /\ lender \in [Bids -> Accounts \cup {NoAccount, UsingLenderManager}]
    /\ loanOwner \in [Bids -> Accounts \cup {NoAccount}]
    /\ accepted \in [Bids -> Nat]
    /\ lastRepaid \in [Bids -> Nat]
    /\ repaidPrincipal \in [Bids -> Nat]
    /\ repaidInterest \in [Bids -> Nat]
    /\ active \in [Accounts -> SUBSET Bids]
    /\ lenderVolume \in [Accounts -> Nat]
    /\ totalVolume \in Nat
    /\ protocolFee \in Nat /\ paused \in BOOLEAN /\ now \in Nat

VaultTypeOK ==
    /\ tokenBalance \in [Holders -> Nat]
    /\ vaultBalances \in [Accounts -> Nat]

\* Balances of tokens and of collateral, what is counted as repaid and what the
\* vault owes never fall below zero, and every set and record keeps its type.
TypeOK == LoanTypeOK /\ VaultTypeOK /\ CMTypeOK /\ RMTypeOK /\ MRTypeOK

\* A bid exists once its id was handed out; it then has a borrower, somebody to
\* receive the loan and a market, and from its acceptance on a lender, through
\* the loan NFT or not.  A loan's last payment is after its acceptance and not
\* in the future.
WellFormed ==
    \A b \in Bids :
        /\ b >= bidId => state[b] = "NONEXISTENT"
        /\ state[b] # "NONEXISTENT" =>
              bid[b].borrower \in Accounts /\ bid[b].receiver \in Accounts
              /\ bid[b].market \in Markets
        /\ state[b] \in {"ACCEPTED", "PAID", "CLOSED", "LIQUIDATED"} => LoanLender(b) \in Accounts
        /\ accepted[b] <= lastRepaid[b] /\ lastRepaid[b] <= now

-----------------------------------------------------------------------------
(* Collateral *)

\* The escrow of a bid holds exactly what was committed while the loan runs,
\* nothing before it was accepted and nothing after it was seized or
\* liquidated; a repaid loan's escrow is either untouched or empty.  The
\* escrow's record always agrees with the tokens it holds.
CustodyMatchesState ==
    \A b \in Bids :
        /\ collateralBalances[b] = escrowTokens[b]
        /\ state[b] \in {"NONEXISTENT", "PENDING", "CANCELLED", "CLOSED", "LIQUIDATED"}
              => escrowTokens[b] = NoCollateral
        /\ state[b] = "ACCEPTED" => escrowTokens[b] = Pledge(b)
        /\ state[b] = "PAID" => escrowTokens[b] \in {NoCollateral, Pledge(b)}

\* The loan's terms, counted from its acceptance and from its last payment, stay
\* within the 32 bits of a timestamp.
FitsTimestamps(b) ==
    /\ EndOfLoan(bid[b], accepted[b]) + bid[b].defaultDuration <= MaxUint32
    /\ LastRepaid(b) + 2 * bid[b].paymentCycle <= MaxUint32

\* Collateral is never stuck in an escrow: anyone can have that of a repaid loan
\* given back and that of a loan in default given to its lender, unless the terms
\* accepted are beyond 32 bits.
CollateralNeverStuck ==
    \A b \in Bids :
        /\ state[b] = "PAID" /\ escrowTokens[b] # NoCollateral => ENABLED WithdrawPaidCollateral(b)
        /\ state[b] = "ACCEPTED" /\ FitsTimestamps(b) /\ IsLoanDefaulted(b)
              => ENABLED LenderCloseLoan(b)

\* The stage of a loan in the abstract specification.
StageOf(st) ==
    CASE st = "NONEXISTENT" -> "none"
      [] st = "PENDING" -> "offered"
      [] st = "CANCELLED" -> "withdrawn"
      [] st = "ACCEPTED" -> "active"
      [] st = "PAID" -> "repaid"
      [] st = "CLOSED" -> "seized"
      [] st = "LIQUIDATED" -> "liquidated"

Abstract == INSTANCE CollateralizedLoan WITH
    Loans <- Bids, Goods <- Assets, Parties <- Accounts, Nobody <- NoAccount,
    stage <- [b \in Bids |-> StageOf(state[b])],
    debtor <- [b \in Bids |-> bid[b].borrower],
    creditor <- [b \in Bids |-> LoanLender(b)],
    offer <- [b \in Bids |-> Pledge(b)],
    pot <- escrowTokens,
    wallet <- assetBalance

\* Collateral is released once, whole, and to the party the outcome of the loan
\* entitles to it, however the transactions of several bids interleave.
ImplementsCollateralizedLoan == Abstract!Spec

-----------------------------------------------------------------------------
(* Money *)

\* The principal counted as repaid stays within the loan while it runs, so that
\* what is owed can always be computed, and covers it once it is over.
RepaidWithinPrincipal ==
    \A b \in Bids :
        /\ state[b] \in {"NONEXISTENT", "PENDING", "CANCELLED"} => repaidPrincipal[b] = 0
        /\ state[b] \in {"ACCEPTED", "CLOSED"} => repaidPrincipal[b] <= bid[b].principal
        /\ state[b] = "PAID" => repaidPrincipal[b] >= bid[b].principal
        /\ state[b] = "LIQUIDATED" => repaidPrincipal[b] = bid[b].principal

\* The vault can pay every lender at once, and LendNestV2, through which escrowed
\* payments pass, keeps nothing of them.
VaultSolvent ==
    /\ tokenBalance[Vault] = MapThenSumSet(LAMBDA acct : vaultBalances[acct], Accounts)
    /\ tokenBalance[Self] = 0

\* What an account has in its wallet and in the vault.
Wealth(acct) == tokenBalance[acct] + vaultBalances[acct]

\* Whoever ends a loan by paying, the borrower or a liquidator, parts with the
\* whole debt of that moment and the lender of that moment gets it, in its wallet
\* or in the vault; nobody else gains or loses.
DebtPaidInFull ==
    [][\A b \in Bids :
          state[b] = "ACCEPTED" /\ state'[b] \in {"PAID", "LIQUIDATED"} =>
             \E payer \in Accounts : \A acct \in Accounts :
                Wealth(acct)' = Wealth(acct)
                    - (IF acct = payer THEN Owed(b) + InterestOwed(b) ELSE 0)
                    + (IF acct = LoanLender(b) THEN Owed(b) + InterestOwed(b) ELSE 0)]_vars

\* A lender who accepts a bid, and receives none of its fees, parts with exactly
\* the principal, whatever fees the protocol and the market take.
LenderPaysPrincipal ==
    [][\A b \in Bids :
          LET s == lender'[b]
          IN  state[b] = "PENDING" /\ state'[b] = "ACCEPTED"
              /\ s \notin {ProtocolOwner, bid[b].receiver, GetMarketFeeRecipient(bid[b].market)}
                => tokenBalance'[s] + vaultBalances'[s] = Wealth(s) - bid[b].principal]_vars

\* The instalments that have fallen due since the last payment are no less than the
\* interest of that time.  Rounded to whole tokens they may be, in a long loan of few
\* tokens; calculateAmountOwed then underflows until the last cycle.
InstalmentCovers(b) ==
    bid[b].paymentType = "EMI" /\ bid[b].paymentCycle # 0 =>
        OwedAmount(bid[b], accepted[b], repaidPrincipal[b], LastRepaid(b), now) >= InterestOwed(b)

\* Nothing an owner does, pausing the protocol, closing the market, changing its
\* settings or removing its members, keeps whoever has the money from repaying a
\* running loan in full and getting its collateral back to the borrower; nor does
\* the arithmetic of due dates and defaults, which every payment goes through,
\* unless the terms accepted are beyond 32 bits or the instalment does not cover the
\* interest.
RunningLoanRepayable ==
    \A b \in Bids, payer \in Payers :
        /\ state[b] = "ACCEPTED" /\ FitsTimestamps(b) /\ InstalmentCovers(b)
        /\ tokenBalance[payer] >= Owed(b) + InterestOwed(b)
        => ENABLED RepayLoanFull(payer, b, TRUE, TRUE)

-----------------------------------------------------------------------------
(* Time *)

\* The months that follow the last block still have timestamps of 32 bits (which last
\* until 2106), so that no due date of a monthly loan is cut down.
TimestampsLast ==
    /\ StartTime <= MaxTime
    /\ MonthStart(MonthOf(MaxTime) + 3) * SecondsPerDay <= MaxUint32 + 1

\* While a loan runs, its next due date never moves back and never passes the
\* end of the loan, whenever payments are made.
DueDateAdvances ==
    [][\A b \in Bids :
          state[b] = "ACCEPTED" /\ state'[b] = "ACCEPTED" =>
             /\ DueDate(b, LastRepaid(b)) <= DueDate(b, LastRepaid(b))'
             /\ DueDate(b, LastRepaid(b))' <= EndOfLoan(bid[b], accepted[b])]_vars

\* A payment that does not end a loan brings it up to date: the loan is not late
\* right after it.
PaymentCuresLateness ==
    [][\A b \in Bids :
          /\ state[b] = "ACCEPTED" /\ state'[b] = "ACCEPTED"
          /\ <<repaidPrincipal[b], repaidInterest[b], lastRepaid[b]>>'
                 # <<repaidPrincipal[b], repaidInterest[b], lastRepaid[b]>>
          => ~IsLate(b, "ACCEPTED", LastRepaid(b))']_vars

\* The moment a running loan falls in default moves only when a payment is made:
\* a market's new settings do not reach the loans it already has.
DefaultMovesOnlyByPayment ==
    [][\A b \in Bids :
          state[b] = "ACCEPTED" /\ state'[b] = "ACCEPTED" /\ lastRepaid'[b] = lastRepaid[b]
          => DefaultTime(b, LastRepaid(b), 0)' = DefaultTime(b, LastRepaid(b), 0)]_vars

\* A loan with a default duration cannot run for ever: in the end it is over, or
\* anyone may liquidate it, however often small payments are made.
LoanEndsOrLiquidateable ==
    \A b \in Bids :
        (state[b] = "ACCEPTED" /\ bid[b].defaultDuration # 0)
            ~> (state[b] # "ACCEPTED" \/ IsLoanLiquidateable(b))

-----------------------------------------------------------------------------
(* Bookkeeping of borrowers *)

\* Every running loan is among its borrower's active bids, and only loans that
\* run or whose collateral was seized are.
ActiveLoansTracked ==
    \A b \in Bids :
        /\ state[b] = "ACCEPTED" => b \in active[bid[b].borrower]
        /\ \A acct \in Accounts :
              b \in active[acct] => acct = bid[b].borrower /\ state[b] \in {"ACCEPTED", "CLOSED"}

\* What an account's record says of now is part of what it says of ever.
HistoryContainsPresent ==
    \A acct \in Accounts :
        /\ marks.currentDelinquencies[acct] \subseteq marks.delinquencies[acct]
        /\ marks.currentDefaults[acct] \subseteq marks.defaults[acct]

\* A payment made while a loan is late leaves a mark on its borrower's record, and
\* no mark is ever taken off what happened; a liquidation alone goes unrecorded.
LatePaymentsRecorded ==
    [][/\ \A b \in Bids :
             /\ IsLate(b, state[b], LastRepaid(b))
             /\ lastRepaid'[b] # lastRepaid[b] /\ state'[b] # "LIQUIDATED"
             => b \in marks'.delinquencies[bid[b].borrower] \cup marks'.defaults[bid[b].borrower]
       /\ \A acct \in Accounts :
             /\ marks.delinquencies[acct] \subseteq marks'.delinquencies[acct]
             /\ marks.defaults[acct] \subseteq marks'.defaults[acct]]_vars

-----------------------------------------------------------------------------
(* What the comments of the contracts say, and the code does not do *)

\* LendNest.sol:812: a loan that is paid in full and has a mark has its borrower's
\* current reputation updated, so it counts no longer as late or in default.
PaidLoanHasNoCurrentMark ==
    \A b \in Bids :
        state[b] = "PAID" =>
            b \notin marks.currentDelinquencies[bid[b].borrower]
                        \cup marks.currentDefaults[bid[b].borrower]
=============================================================================
