----------------------------- MODULE LendNestV2 -----------------------------
(***************************************************************************)
(* LendNest.sol (contract LendNestV2) with the contracts it calls: the     *)
(* life of a loan bid from its submission to repayment, liquidation or     *)
(* seizure of the collateral.                                              *)
(*                                                                         *)
(* A transaction runs alone and a failed check undoes all of it, so each   *)
(* external function is one action and its failed checks are the           *)
(* action's guards.  The accounts interleave their transactions, and time  *)
(* passes between them.                                                    *)
(***************************************************************************)
EXTENDS V2Calculations, CollateralManager, ReputationManager, EscrowVault, MarketRegistry

CONSTANTS
    Self,                 \* LendNestV2's own address among the token's holders
    UsingLenderManager,   \* the lender address that defers to the loan NFT
    ProtocolOwner,        \* owner() of LendNestV2, who receives the protocol fee
    LiquidationDelay,     \* LIQUIDATION_DELAY
    \* What the accounts may choose, and what they start with
    Principals, Durations, APRs, Payments, CollateralAmounts, ProtocolFees,
    Borrowers, Receivers, Lenders, Assignees, Payers,
    Rated,                \* the accounts whose reputation is asked for
    InitialTokens, InitialAssets, InitialSettings, InitialOwner,
    ProtocolOwnerActs,    \* whether the protocol's owner uses its powers
    TransferOutcomes,     \* subset of BOOLEAN: may a direct payment to a lender fail?
    StartTime, MaxTime,   \* the bounds of block.timestamp
    LastSubmission        \* bound on the time at which bids are submitted

ASSUME LendNestAssumption ==
    /\ Principals \subseteq Nat /\ Durations \subseteq Nat /\ APRs \subseteq Nat
    /\ Payments \subseteq Nat /\ CollateralAmounts \subseteq Nat /\ ProtocolFees \subseteq Nat
    /\ Borrowers \subseteq Accounts /\ Receivers \subseteq Accounts \cup {NoAccount}
    /\ Lenders \subseteq Accounts /\ Assignees \subseteq Accounts
    /\ Payers \subseteq Accounts /\ Rated \subseteq Accounts
    /\ LiquidationDelay \in Nat
    /\ ProtocolOwner \in Accounts
    /\ {Self, Vault, UsingLenderManager} \cap (Accounts \cup {NoAccount}) = {}
    /\ Self # Vault
    /\ InitialTokens \in [Accounts -> Nat]
    /\ InitialAssets \in [Assets -> [Accounts -> Nat]]
    /\ InitialSettings \subseteq [Markets -> SettingsType]
    /\ InitialOwner \in [Markets -> Accounts \cup {NoAccount}]
    /\ \A m \in Markets : InitialOwner[m] # NoAccount => m <= InitialMarkets
    /\ ProtocolOwnerActs \in BOOLEAN /\ TransferOutcomes \subseteq BOOLEAN
    /\ StartTime \in Nat \ {0} /\ MaxTime \in Nat /\ LastSubmission \in Nat

VARIABLES
    bidId,            \* the id the next bid gets
    bid,              \* what submitBid fixes of a bid
    state,            \* bids[b].state
    lender,           \* bids[b].lender
    loanOwner,        \* owner of the LenderManager NFT of b
    accepted,         \* acceptedTimestamp
    lastRepaid,       \* lastRepaidTimestamp
    repaidPrincipal, repaidInterest,  \* totalRepaid
    active,           \* _borrowerBidsActive
    lenderVolume, totalVolume,        \* lenderVolumeFilled, totalVolumeFilled
    protocolFee, paused, now

volumeVars == <<lenderVolume, totalVolume>>
ownerVars == <<protocolFee, paused>>
loanVars == <<bidId, bid, state, lender, loanOwner, accepted, lastRepaid, repaidPrincipal,
              repaidInterest, active, volumeVars>>
vars == <<loanVars, ownerVars, now, cmVars, marks, vaultVars, marketVars>>

Holders == Accounts \cup {Vault, Self}

BidType ==
    [borrower : Accounts \cup {NoAccount}, receiver : Accounts \cup {NoAccount},
     market : Markets \cup {0}, principal : Nat, duration : Nat, apr : Nat, timestamp : Nat,
     paymentCycle : Nat, cycleType : {"Seconds", "Monthly"}, paymentType : {"EMI", "Bullet"},
     cycleAmount : Nat, defaultDuration : Nat, expirationTime : Nat]

EmptyBid ==
    [borrower |-> NoAccount, receiver |-> NoAccount, market |-> 0, principal |-> 0,
     duration |-> 0, apr |-> 0, timestamp |-> 0, paymentCycle |-> 0, cycleType |-> "Seconds",
     paymentType |-> "EMI", cycleAmount |-> 0, defaultDuration |-> 0, expirationTime |-> 0]

Init ==
    /\ bidId = 0
    /\ bid = [b \in Bids |-> EmptyBid]
    /\ state = [b \in Bids |-> "NONEXISTENT"]
    /\ lender = [b \in Bids |-> NoAccount]
    /\ loanOwner = [b \in Bids |-> NoAccount]
    /\ accepted = [b \in Bids |-> 0]
    /\ lastRepaid = [b \in Bids |-> 0]
    /\ repaidPrincipal = [b \in Bids |-> 0]
    /\ repaidInterest = [b \in Bids |-> 0]
    /\ active = [acct \in Accounts |-> {}]
    /\ lenderVolume = [acct \in Accounts |-> 0]
    /\ totalVolume = 0
    /\ protocolFee \in ProtocolFees
    /\ paused = FALSE
    /\ now = StartTime
    /\ CMInit(InitialAssets)
    /\ RMInit
    /\ \E settings \in InitialSettings : MRInit(InitialOwner, settings)
    /\ tokenBalance = [h \in Holders |-> IF h \in Accounts THEN InitialTokens[h] ELSE 0]
    /\ vaultBalances = [acct \in Accounts |-> 0]

-----------------------------------------------------------------------------
\* Views over a bid

\* Mutant of LoanLender: the loan NFT is ignored.
LenderOnRecord(b) == lender[b]

\* getLoanLender
LoanLender(b) == IF lender[b] = UsingLenderManager THEN loanOwner[b] ELSE lender[b]

LastRepaid(b) == LastRepaidTimestamp(accepted[b], lastRepaid[b])

DueDate(b, last) == CalculateNextDueDate(bid[b], accepted[b], last)

\* Mutant of DefaultTime: the market's present default duration is used.
DefaultTimeOfMarket(b, last, delay) ==
    DueDate(b, last) + markets[bid[b].market].defaultDuration + delay

\* The instant after which a loan is in default, delay included.
DefaultTime(b, last, delay) == DueDate(b, last) + bid[b].defaultDuration + delay

\* Mutant of IsDefaulted: a loan on which a payment was made never defaults.
DefaultsUnpaidOnly(b, st, last, delay) ==
    /\ st = "ACCEPTED"
    /\ bid[b].defaultDuration # 0
    /\ last = accepted[b] /\ now > DefaultTime(b, last, delay)

\* _isLoanDefaulted, for a bid in state st whose last payment was at last.
IsDefaulted(b, st, last, delay) ==
    /\ st = "ACCEPTED"
    /\ bid[b].defaultDuration # 0
    /\ now > DefaultTime(b, last, delay)

DefaultCheckReverts(b, st, last, delay) ==
    /\ st = "ACCEPTED"
    /\ bid[b].defaultDuration # 0
    /\ \/ NextDueDateReverts(bid[b], accepted[b], last)
       \/ DefaultTime(b, last, delay) > MaxUint32

\* isPaymentLate
IsLate(b, st, last) == st = "ACCEPTED" /\ now > DueDate(b, last)

LateCheckReverts(b, st, last) ==
    st = "ACCEPTED" /\ NextDueDateReverts(bid[b], accepted[b], last)

IsLoanDefaulted(b) == IsDefaulted(b, state[b], LastRepaid(b), 0)
IsLoanLiquidateable(b) == IsDefaulted(b, state[b], LastRepaid(b), LiquidationDelay)

\* isLoanExpired, and the uint32 sum in it that may overflow
IsLoanExpired(b) ==
    bid[b].expirationTime # 0 /\ now > bid[b].timestamp + bid[b].expirationTime

ExpiryCheckReverts(b) ==
    bid[b].expirationTime # 0 /\ bid[b].timestamp + bid[b].expirationTime > MaxUint32

\* The mark ReputationManager._applyReputation finds.
MarkOf(b, st, last) ==
    IF IsDefaulted(b, st, last, 0) THEN "Default"
    ELSE IF IsLate(b, st, last) THEN "Delinquent" ELSE "Good"

MarkReverts(b, st, last) ==
    DefaultCheckReverts(b, st, last, 0) \/ LateCheckReverts(b, st, last)

\* calculateAmountOwed at this moment
Owed(b) == OwedPrincipal(bid[b], repaidPrincipal[b])
InterestOwed(b) == Interest(bid[b], repaidPrincipal[b], LastRepaid(b), now)
Due(b) == DuePrincipal(bid[b], accepted[b], repaidPrincipal[b], LastRepaid(b), now)
OwedReverts(b) ==
    AmountOwedReverts(bid[b], accepted[b], repaidPrincipal[b], LastRepaid(b), now)

-----------------------------------------------------------------------------
\* Submitting and cancelling bids

\* The terms of a loan as the market sets them at this moment.
LoanTerms(m, principal, duration, apr) ==
    [principal |-> principal, duration |-> duration, apr |-> apr,
     paymentCycle |-> markets[m].paymentCycle, cycleType |-> markets[m].cycleType,
     paymentType |-> markets[m].paymentType]

CycleAmount(m, principal, duration, apr) ==
    CalculatePaymentCycleAmount(LoanTerms(m, principal, duration, apr))

\* The bid as _submitBid stores it: the market's terms are copied into it.
NewBid(sender, receiver, m, principal, duration, apr) ==
    [borrower |-> sender, receiver |-> IF receiver = NoAccount THEN sender ELSE receiver,
     market |-> m, principal |-> principal, duration |-> duration, apr |-> apr,
     timestamp |-> now, paymentCycle |-> markets[m].paymentCycle,
     cycleType |-> markets[m].cycleType, paymentType |-> markets[m].paymentType,
     cycleAmount |-> CycleAmount(m, principal, duration, apr),
     defaultDuration |-> markets[m].defaultDuration,
     expirationTime |-> markets[m].expirationTime]

\* The instalment cannot be computed, or is not a number of tokens.
NewBidReverts(m, principal, duration, apr) ==
    \/ CycleAmountReverts(LoanTerms(m, principal, duration, apr))
    \/ CycleAmount(m, principal, duration, apr) \notin Nat

\* submitBid; infos maps the collateral offered to amounts, empty for the
\* variant without collateral.
SubmitBid(sender, receiver, m, principal, duration, apr, infos) ==
    /\ ~paused
    /\ bidId < MaxBids /\ now <= LastSubmission
    /\ IsVerifiedBorrower(m, sender, now)
    /\ IsMarketOpen(m)
    /\ ~NewBidReverts(m, principal, duration, apr)
    /\ bid' = [bid EXCEPT ![bidId] = NewBid(sender, receiver, m, principal, duration, apr)]
    /\ state' = [state EXCEPT ![bidId] = "PENDING"]
    /\ bidId' = bidId + 1
    /\ CommitCollateral(bidId, sender, infos)
    /\ UNCHANGED <<lender, loanOwner, accepted, lastRepaid, repaidPrincipal, repaidInterest,
                   active, volumeVars, ownerVars, now, marks, vaultVars, marketVars>>

\* _cancelBid
Cancel(b) ==
    /\ state[b] = "PENDING"
    /\ state' = [state EXCEPT ![b] = "CANCELLED"]
    /\ UNCHANGED <<bidId, bid, lender, loanOwner, accepted, lastRepaid, repaidPrincipal,
                   repaidInterest, active, volumeVars, ownerVars, now, cmVars, marks,
                   vaultVars, marketVars>>

CancelBid(sender, b) == sender = bid[b].borrower /\ Cancel(b)

MarketOwnerCancelBid(sender, b) ==
    bid[b].market \in Markets /\ sender = marketOwner[bid[b].market] /\ Cancel(b)

-----------------------------------------------------------------------------
\* Accepting a bid

AmountToProtocol(b) == Percent(bid[b].principal, protocolFee)
AmountToMarketplace(b) == Percent(bid[b].principal, markets[bid[b].market].feePercent)
\* Mutant of AmountToBorrower: the market's fee is charged on top of the principal.
AmountBeforeMarketFee(b) == bid[b].principal - AmountToProtocol(b)

AmountToBorrower(b) == bid[b].principal - AmountToProtocol(b) - AmountToMarketplace(b)

\* The three transfers of lenderAcceptBid one after the other; a transfer of
\* zero is skipped, which changes nothing.
BalanceAfterProtocolFee(sender, b) ==
    Transfer(tokenBalance, sender, ProtocolOwner, AmountToProtocol(b))
BalanceAfterMarketFee(sender, b) ==
    Transfer(BalanceAfterProtocolFee(sender, b), sender, GetMarketFeeRecipient(bid[b].market),
             AmountToMarketplace(b))
BalanceAfterDisbursal(sender, b) ==
    Transfer(BalanceAfterMarketFee(sender, b), sender, bid[b].receiver, AmountToBorrower(b))

CanDisburse(sender, b) ==
    /\ AmountToBorrower(b) >= 0   \* fees above 100% underflow
    /\ AmountToMarketplace(b) > 0 => GetMarketFeeRecipient(bid[b].market) # NoAccount
    /\ CanTransfer(tokenBalance, sender, AmountToProtocol(b))
    /\ CanTransfer(BalanceAfterProtocolFee(sender, b), sender, AmountToMarketplace(b))
    /\ CanTransfer(BalanceAfterMarketFee(sender, b), sender, AmountToBorrower(b))

LenderAcceptBid(sender, b) ==
    /\ state[b] = "PENDING"
    /\ ~paused
    /\ IsVerifiedLender(bid[b].market, sender, now)
    /\ ~marketIsClosed[bid[b].market]
    /\ ~ExpiryCheckReverts(b) /\ ~IsLoanExpired(b)
    /\ CanDisburse(sender, b)
    /\ accepted' = [accepted EXCEPT ![b] = now]
    /\ lastRepaid' = [lastRepaid EXCEPT ![b] = now]
    /\ state' = [state EXCEPT ![b] = "ACCEPTED"]
    /\ lender' = [lender EXCEPT ![b] = sender]
    /\ DeployAndDeposit(b, bid[b].borrower)
    /\ tokenBalance' = BalanceAfterDisbursal(sender, b)
    /\ lenderVolume' = [lenderVolume EXCEPT ![sender] = @ + bid[b].principal]
    /\ totalVolume' = totalVolume + bid[b].principal
    /\ active' = [active EXCEPT ![bid[b].borrower] = @ \cup {b}]
    /\ UNCHANGED <<bidId, bid, loanOwner, repaidPrincipal, repaidInterest, ownerVars,
                   now, marks, vaultBalances, marketVars>>

\* claimLoanNFT: the lender exchanges its claim for an NFT, minted only to an
\* account the market still verifies as a lender.
ClaimLoanNFT(sender, b) ==
    /\ state[b] = "ACCEPTED"
    /\ ~paused
    /\ sender = lender[b]
    /\ IsVerifiedLender(bid[b].market, sender, now)
    /\ lender' = [lender EXCEPT ![b] = UsingLenderManager]
    /\ loanOwner' = [loanOwner EXCEPT ![b] = sender]
    /\ UNCHANGED <<bidId, bid, state, accepted, lastRepaid, repaidPrincipal, repaidInterest,
                   active, volumeVars, ownerVars, now, cmVars, marks, vaultVars,
                   marketVars>>

\* LenderManager: the owner of a loan NFT transfers it to a verified lender.
TransferLoanNFT(to, b) ==
    /\ loanOwner[b] # NoAccount
    /\ IsVerifiedLender(bid[b].market, to, now)
    /\ loanOwner' = [loanOwner EXCEPT ![b] = to]
    /\ UNCHANGED <<bidId, bid, state, lender, accepted, lastRepaid, repaidPrincipal,
                   repaidInterest, active, volumeVars, ownerVars, now, cmVars, marks,
                   vaultVars, marketVars>>

-----------------------------------------------------------------------------
\* Paying a loan back

\* _sendOrEscrowFunds: straight to the lender, or into the vault under the
\* lender's name when the direct transfer fails.
SendOrEscrowFunds(payer, b, amount, direct) ==
    /\ CanTransfer(tokenBalance, payer, amount)
    /\ IF direct
       THEN /\ tokenBalance' = Transfer(tokenBalance, payer, LoanLender(b), amount)
            /\ vaultBalances' = vaultBalances
       ELSE VaultDeposit(Transfer(tokenBalance, payer, Self, amount), Self, LoanLender(b), amount)

\* Mutant of IsSettled: the interest owed is forgotten.
CoversPrincipal(b, principal, interest) == principal + interest >= Owed(b)

IsSettled(b, principal, interest) == principal + interest >= Owed(b) + InterestOwed(b)

\* Mutant of AmountTaken: an overpayment is not cut down to the debt.
AmountOffered(b, principal, interest) == principal + interest

\* A payment that covers the debt takes no more than the debt.
AmountTaken(b, principal, interest) ==
    IF IsSettled(b, principal, interest) THEN Owed(b) + InterestOwed(b) ELSE principal + interest

\* Mutant of StateAfterPayment: a liquidated loan becomes PAID as well.
PaidWhenSettled(b, st, principal, interest) ==
    IF IsSettled(b, principal, interest) THEN "PAID" ELSE st

StateAfterPayment(b, st, principal, interest) ==
    IF IsSettled(b, principal, interest) /\ st # "LIQUIDATED" THEN "PAID" ELSE st

\* Mutant of MarksAfterPayment: the reputation is only updated once it is too late.
MarksOnlyAfterwards(b, st, principal, interest) ==
    ApplyMark(marks, bid[b].borrower, b,
              MarkOf(b, StateAfterPayment(b, st, principal, interest), now))

\* The borrower's reputation is updated before the payment, and once more
\* after it if the loan was marked.
MarksAfterPayment(b, st, principal, interest) ==
    LET mark   == MarkOf(b, st, LastRepaid(b))
        before == ApplyMark(marks, bid[b].borrower, b, mark)
    IN  IF mark = "Good" THEN before
        ELSE ApplyMark(before, bid[b].borrower, b,
                       MarkOf(b, StateAfterPayment(b, st, principal, interest), now))

MarksAfterPaymentReverts(b, st, principal, interest) ==
    \/ MarkReverts(b, st, LastRepaid(b))
    \/ /\ MarkOf(b, st, LastRepaid(b)) # "Good"
       /\ MarkReverts(b, StateAfterPayment(b, st, principal, interest), now)

\* Mutant of ActiveAfterPayment: the bid is not removed.
ActiveKept(b, principal, interest) == active

\* Borrower's active bids once the debt is covered.
ActiveAfterPayment(b, principal, interest) ==
    IF IsSettled(b, principal, interest)
    THEN [active EXCEPT ![bid[b].borrower] = @ \ {b}] ELSE active

\* _repayLoan, for a bid in state st; the collateral is left to its callers.
RepayLoan_(payer, b, st, principal, interest, direct) ==
    /\ ~MarksAfterPaymentReverts(b, st, principal, interest)
    /\ marks' = MarksAfterPayment(b, st, principal, interest)
    /\ state' = [state EXCEPT ![b] = StateAfterPayment(b, st, principal, interest)]
    /\ active' = ActiveAfterPayment(b, principal, interest)
    /\ SendOrEscrowFunds(payer, b, AmountTaken(b, principal, interest), direct)
    /\ repaidPrincipal' = [repaidPrincipal EXCEPT ![b] = @ + principal]
    /\ repaidInterest' = [repaidInterest EXCEPT ![b] = @ + interest]
    /\ lastRepaid' = [lastRepaid EXCEPT ![b] = now]
    /\ UNCHANGED <<bidId, bid, lender, loanOwner, accepted, volumeVars, ownerVars,
                   now, marketVars>>

\* A payment on an accepted loan; one that covers the debt gives the collateral
\* back at once when withdraw is set.
RepayAccepted(payer, b, principal, interest, withdraw, direct) ==
    /\ RepayLoan_(payer, b, "ACCEPTED", principal, interest, direct)
    /\ IF withdraw /\ IsSettled(b, principal, interest)
       THEN Withdraw(b, StateAfterPayment(b, "ACCEPTED", principal, interest), bid[b].borrower)
       ELSE UNCHANGED cmVars

RepayLoanMinimum(payer, b, direct) ==
    /\ state[b] = "ACCEPTED"
    /\ ~OwedReverts(b)
    /\ RepayAccepted(payer, b, Due(b), InterestOwed(b), TRUE, direct)

\* Mutant of RepayLoanFull: repayment stops with the protocol.
RepayUnlessPaused(payer, b, withdraw, direct) ==
    /\ state[b] = "ACCEPTED" /\ ~paused
    /\ ~OwedReverts(b)
    /\ RepayAccepted(payer, b, Owed(b), InterestOwed(b), withdraw, direct)

\* repayLoanFull, repayLoanFullWithoutCollateralWithdraw
RepayLoanFull(payer, b, withdraw, direct) ==
    /\ state[b] = "ACCEPTED"
    /\ ~OwedReverts(b)
    /\ RepayAccepted(payer, b, Owed(b), InterestOwed(b), withdraw, direct)

\* repayLoan, repayLoanWithoutCollateralWithdraw
RepayLoan(payer, b, amount, withdraw, direct) ==
    /\ state[b] = "ACCEPTED"
    /\ ~OwedReverts(b)
    /\ amount >= Due(b) + InterestOwed(b)
    /\ RepayAccepted(payer, b, amount - InterestOwed(b), InterestOwed(b), withdraw, direct)

-----------------------------------------------------------------------------
\* Loans in default

\* lenderCloseLoan: anyone may send a defaulted loan's collateral to its lender.
LenderCloseLoan(b) ==
    /\ state[b] = "ACCEPTED"
    /\ ~DefaultCheckReverts(b, state[b], LastRepaid(b), 0)
    /\ IsLoanDefaulted(b)
    /\ state' = [state EXCEPT ![b] = "CLOSED"]
    /\ LenderClaimCollateral(b, "CLOSED", LoanLender(b))
    /\ UNCHANGED <<bidId, bid, lender, loanOwner, accepted, lastRepaid, repaidPrincipal,
                   repaidInterest, active, volumeVars, ownerVars, now, marks,
                   vaultVars, marketVars>>

\* liquidateLoanFull: the liquidator pays the whole debt and gets the collateral.
LiquidateLoanFull(liquidator, b, direct) ==
    /\ state[b] = "ACCEPTED"
    /\ ~DefaultCheckReverts(b, state[b], LastRepaid(b), LiquidationDelay)
    /\ IsLoanLiquidateable(b)
    /\ ~OwedReverts(b)
    /\ RepayLoan_(liquidator, b, "LIQUIDATED", Owed(b), InterestOwed(b), direct)
    /\ LiquidateCollateral(b, "LIQUIDATED", liquidator)

-----------------------------------------------------------------------------
\* What anyone, the owners and time may do besides

\* CollateralManager.withdraw called from outside
WithdrawPaidCollateral(b) ==
    /\ Withdraw(b, state[b], bid[b].borrower)
    /\ UNCHANGED <<loanVars, ownerVars, now, marks, vaultVars, marketVars>>

WithdrawFromVault(acct, amount) ==
    /\ VaultWithdraw(acct, amount)
    /\ UNCHANGED <<loanVars, ownerVars, now, cmVars, marks, marketVars>>

\* ReputationManager.updateAccountReputation of all the account's active bids
UpdateAccountReputation(acct) ==
    /\ \A b \in active[acct] : ~MarkReverts(b, state[b], LastRepaid(b))
    /\ LET marked(mark) == {b \in active[acct] : MarkOf(b, state[b], LastRepaid(b)) = mark}
       IN  marks' = ApplyReputation(marks, acct, marked("Default"), marked("Delinquent"))
    /\ UNCHANGED <<loanVars, ownerVars, now, cmVars, vaultVars, marketVars>>

\* ... and of one bid, which the caller names together with an account
UpdateBidReputation(acct, b) ==
    /\ ~MarkReverts(b, state[b], LastRepaid(b))
    /\ marks' = ApplyMark(marks, acct, b, MarkOf(b, state[b], LastRepaid(b)))
    /\ UNCHANGED <<loanVars, ownerVars, now, cmVars, vaultVars, marketVars>>

PauseProtocol ==
    /\ ~paused
    /\ paused' = TRUE
    /\ UNCHANGED <<loanVars, protocolFee, now, cmVars, marks, vaultVars, marketVars>>

UnpauseProtocol ==
    /\ paused
    /\ paused' = FALSE
    /\ UNCHANGED <<loanVars, protocolFee, now, cmVars, marks, vaultVars, marketVars>>

SetProtocolFee(fee) ==
    /\ protocolFee' = fee
    /\ UNCHANGED <<loanVars, paused, now, cmVars, marks, vaultVars, marketVars>>

MarketStep ==
    /\ MarketNext(now)
    /\ UNCHANGED <<loanVars, ownerVars, now, cmVars, marks, vaultVars>>

\* block.timestamp advances, up to the bound MaxTime
Tick ==
    /\ now < MaxTime
    /\ now' = now + 1
    /\ UNCHANGED <<loanVars, ownerVars, cmVars, marks, vaultVars, marketVars>>

-----------------------------------------------------------------------------
BorrowerStep ==
    \/ \E sender \in Borrowers, receiver \in Receivers, m \in Markets, principal \in Principals,
          duration \in Durations, apr \in APRs, offered \in SUBSET Assets :
          \E infos \in [offered -> CollateralAmounts] :
             SubmitBid(sender, receiver, m, principal, duration, apr, infos)
    \/ \E sender \in Accounts, b \in Bids : CancelBid(sender, b)
    \/ \E sender \in Accounts, b \in Bids : MarketOwnerCancelBid(sender, b)

LenderStep ==
    \E b \in Bids :
        \/ \E sender \in Lenders : LenderAcceptBid(sender, b) \/ ClaimLoanNFT(sender, b)
        \/ \E to \in Assignees : TransferLoanNFT(to, b)

PaymentStep ==
    \E payer \in Payers, b \in Bids, direct \in TransferOutcomes :
        \/ RepayLoanMinimum(payer, b, direct)
        \/ \E withdraw \in BOOLEAN :
              \/ RepayLoanFull(payer, b, withdraw, direct)
              \/ \E amount \in Payments : RepayLoan(payer, b, amount, withdraw, direct)
        \/ LiquidateLoanFull(payer, b, direct)

CustodyStep ==
    \/ \E b \in Bids : LenderCloseLoan(b)
    \/ \E b \in Bids : WithdrawPaidCollateral(b)
    \/ \E acct \in Accounts, amount \in Payments : WithdrawFromVault(acct, amount)

ReputationStep ==
    \E acct \in Rated :
        \/ UpdateAccountReputation(acct)
        \/ \E b \in Bids : UpdateBidReputation(acct, b)

OwnerStep ==
    /\ ProtocolOwnerActs
    /\ \/ PauseProtocol
       \/ UnpauseProtocol
       \/ \E fee \in ProtocolFees : SetProtocolFee(fee)

Next == BorrowerStep \/ LenderStep \/ PaymentStep \/ CustodyStep \/ ReputationStep \/ OwnerStep
        \/ MarketStep \/ Tick

\* Blocks keep being produced, so time passes; nobody is obliged to do anything
\* else.
Spec == Init /\ [][Next]_vars /\ WF_vars(Tick)
=============================================================================
