--------------------------- MODULE LoanExtensions ---------------------------
(***************************************************************************)
(* The contracts that act for a borrower on top of LendNestV2:             *)
(* CommitmentRolloverLoan.sol and FlashRolloverLoan_G3.sol, which replace  *)
(* a loan by one under a lender's commitment, and LendNestAutopay.sol,     *)
(* which lets anybody make the payment that is due.                        *)
(*                                                                         *)
(* Their transactions call the core several times, so here a transaction   *)
(* is a sequence of steps, one per call, during which nobody else acts; if *)
(* a call fails, or the gas runs out, the state it started from comes      *)
(* back.  The flash loan pool is external, and so is the rounding of its   *)
(* fee.  All loans are in one token.                                       *)
(***************************************************************************)
EXTENDS LendNestV2

CONSTANTS
    FlashRollover, CommitmentRollover, Autopay, Pool,   \* addresses of the contracts
    Commitments,    \* the standing commitments the forwarder accepts: id to terms
    PremiumPct,     \* what the pool charges, in hundredths of a percent
    AutopayFees,    \* fees the owner of Autopay may set
    Callers,        \* accounts that trigger automatic payments
    NewPrincipals,  \* what borrowers ask for when they replace a loan
    Margins,        \* what they offer beyond what they were quoted
    FlashMargins    \* what they flash beyond what they were told to

Contracts == {FlashRollover, CommitmentRollover, Autopay}

ASSUME ExtensionAssumption ==
    /\ Contracts \cup {Pool} \subseteq Accounts /\ Callers \subseteq Accounts
    /\ (Contracts \cup {Pool}) \cap (Borrowers \cup Lenders) = {}
    /\ PremiumPct \in Nat /\ AutopayFees \subseteq Nat
    /\ NewPrincipals \subseteq Nat /\ Margins \subseteq Int /\ FlashMargins \subseteq Nat

\* Commitments are numbered from 0, and their terms are a forwarder's.
ASSUME CommitmentsAssumption ==
    /\ 0 \in DOMAIN Commitments
    /\ \A id \in DOMAIN Commitments : LET c == Commitments[id] IN
          /\ c.lender \in Accounts /\ c.market \in Markets
          /\ c.maxPrincipal \in Nat /\ c.rate \in Nat /\ c.duration \in Nat
          /\ DOMAIN c.collateral \subseteq Assets
          /\ c.collateral \in [DOMAIN c.collateral -> Nat]

\* Nobody pays, owns, lends or is paid in the name of these contracts.  They have no
\* function to do so by themselves; that nobody names one of them as the receiver of
\* a loan, the owner of its NFT or the owner of a market is not enforced by the code:
\* tokens sent to one of them this way stay there.
ASSUME ContractsApart ==
    /\ Pool \notin Contracts
    /\ Contracts \cap (Payers \cup Receivers \cup Assignees \cup Callers \cup Creators
                       \cup Successors \cup {ProtocolOwner} \cup {InitialOwner[m] : m \in Markets}
                       \cup {Commitments[c].lender : c \in DOMAIN Commitments}) = {}

VARIABLES
    tx,                            \* the transaction in progress, or NoTx
    commitmentPrincipalAccepted,   \* of the forwarder
    loanAutoPayEnabled, autopayFee,
    autopaid                       \* what was paid automatically on each loan, fees apart

extensionVars == <<tx, commitmentPrincipalAccepted, loanAutoPayEnabled, autopayFee, autopaid>>
allVars == <<vars, extensionVars>>

NoTx == [kind |-> "none", stage |-> "done"]

ExtensionsInit ==
    /\ Init
    /\ tx = NoTx
    /\ commitmentPrincipalAccepted = [c \in DOMAIN Commitments |-> 0]
    /\ loanAutoPayEnabled = [b \in Bids |-> FALSE]
    /\ autopayFee \in AutopayFees
    /\ autopaid = [b \in Bids |-> 0]

\* What a transaction of these contracts can change.
Committed ==
    [bidId |-> bidId, bid |-> bid, state |-> state, lender |-> lender, accepted |-> accepted,
     lastRepaid |-> lastRepaid, repaidPrincipal |-> repaidPrincipal,
     repaidInterest |-> repaidInterest, active |-> active, lenderVolume |-> lenderVolume,
     totalVolume |-> totalVolume, marks |-> marks, collateralAddresses |-> collateralAddresses,
     collateralAmount |-> collateralAmount, escrows |-> escrows,
     collateralBalances |-> collateralBalances, escrowTokens |-> escrowTokens,
     assetBalance |-> assetBalance, tokenBalance |-> tokenBalance, vaultBalances |-> vaultBalances,
     drawn |-> commitmentPrincipalAccepted]

\* A call fails, and with it the transaction.
Revert ==
    LET s == tx.saved IN
    /\ tx # NoTx /\ tx' = NoTx
    /\ bidId' = s.bidId /\ bid' = s.bid /\ state' = s.state /\ lender' = s.lender
    /\ accepted' = s.accepted /\ lastRepaid' = s.lastRepaid
    /\ repaidPrincipal' = s.repaidPrincipal /\ repaidInterest' = s.repaidInterest
    /\ active' = s.active /\ lenderVolume' = s.lenderVolume /\ totalVolume' = s.totalVolume
    /\ marks' = s.marks /\ collateralAddresses' = s.collateralAddresses
    /\ collateralAmount' = s.collateralAmount /\ escrows' = s.escrows
    /\ collateralBalances' = s.collateralBalances /\ escrowTokens' = s.escrowTokens
    /\ assetBalance' = s.assetBalance /\ tokenBalance' = s.tokenBalance
    /\ vaultBalances' = s.vaultBalances /\ commitmentPrincipalAccepted' = s.drawn
    /\ UNCHANGED <<loanOwner, ownerVars, now, marketVars, loanAutoPayEnabled, autopayFee, autopaid>>

\* Only tokens move before the first call.
OnlyTokensMove ==
    UNCHANGED <<loanVars, ownerVars, now, cmVars, marks, vaultBalances, marketVars,
                commitmentPrincipalAccepted, loanAutoPayEnabled, autopayFee>>

-----------------------------------------------------------------------------
(* Quotes *)

\* What is left of a new loan for the borrower, after fees.
CommitmentPrincipalReceived(c, principal) ==
    principal - Percent(principal, markets[Commitments[c].market].feePercent)
              - Percent(principal, protocolFee)

\* What repayLoanFull takes.
Debt(b) == Owed(b) + InterestOwed(b)

\* LendNestV2.calculateAmountOwed, which is nothing for a loan that is not running and
\* nothing, too, for one accepted in this very block, which repayLoanFull does not spare.
RepayFullAmount(b) == IF state[b] = "ACCEPTED" /\ accepted[b] < now THEN Debt(b) ELSE 0

\* Mutant of CalculateRolloverAmount: the protocol's fee is forgotten.
RolloverAmountBeforeFee(b, c, principal) ==
    RepayFullAmount(b) - CommitmentPrincipalReceived(c, principal) - Percent(principal, protocolFee)

\* CommitmentRolloverLoan.calculateRolloverAmount: what the borrower has to send.
CalculateRolloverAmount(b, c, principal) ==
    RepayFullAmount(b) - CommitmentPrincipalReceived(c, principal)

\* Mutant of CalculateFlashRolloverAmount: no premium is reckoned with.
FlashRolloverAmountBeforePremium(b, c, principal) ==
    CommitmentPrincipalReceived(c, principal) - RepayFullAmount(b)

\* FlashRolloverLoan_G3.calculateRolloverAmount, flashing what is said to be owed: what the
\* borrower receives.
CalculateFlashRolloverAmount(b, c, principal) ==
    CommitmentPrincipalReceived(c, principal) - RepayFullAmount(b)
        - Percent(RepayFullAmount(b), PremiumPct)

\* The pool takes its premium, to a token.
PoolFees(amount) ==
    {Percent(amount, PremiumPct), CeilDiv(amount * PremiumPct, PCT_100)}

-----------------------------------------------------------------------------
(* Rollovers *)

\* A borrower who was quoted an amount to send offers that, or more or less.
Offers(quote) == {n \in {(IF quote > 0 THEN quote ELSE 0) + margin : margin \in Margins} : n >= 0}

\* rolloverLoan, until it accepts the commitment.
RolloverLoan(sender, b, c, principal, offered) ==
    /\ tx = NoTx
    /\ bid[b].borrower = sender
    /\ CanTransfer(tokenBalance, sender, offered)
    /\ tokenBalance' = Transfer(tokenBalance, sender, CommitmentRollover, offered)
    /\ tx' = [kind |-> "rollover", stage |-> "submit", by |-> CommitmentRollover, loan |-> b,
              newLoan |-> bidId, commitment |-> c, principal |-> principal, offered |-> offered,
              flashed |-> 0, fee |-> 0, before |-> tokenBalance[CommitmentRollover],
              repaid |-> 0, received |-> 0,
              quote |-> CalculateRolloverAmount(b, c, principal), saved |-> Committed]
    /\ OnlyTokensMove /\ UNCHANGED autopaid

\* rolloverLoanWithFlash, until the pool has called executeOperation.
RolloverLoanWithFlash(sender, b, c, principal, flashed, offered) ==
    /\ tx = NoTx
    /\ bid[b].borrower = sender
    /\ CanTransfer(tokenBalance, sender, offered)
    /\ CanTransfer(tokenBalance, Pool, flashed)
    /\ tokenBalance' = Transfer(Transfer(tokenBalance, sender, FlashRollover, offered),
                                Pool, FlashRollover, flashed)
    /\ \E fee \in PoolFees(flashed) :
          tx' = [kind |-> "flash", stage |-> "repay", by |-> FlashRollover, loan |-> b,
                 newLoan |-> bidId, commitment |-> c, principal |-> principal,
                 offered |-> offered, flashed |-> flashed, fee |-> fee, before |-> 0,
                 repaid |-> 0, received |-> 0,
                 quote |-> - CalculateFlashRolloverAmount(b, c, principal), saved |-> Committed]
    /\ OnlyTokensMove /\ UNCHANGED autopaid

\* What the rollover has approved for LendNestV2 to take.
Approved == IF tx.kind = "flash" THEN tx.flashed ELSE tokenBalance[tx.by] - tx.before

\* The old loan is paid back in full.
RepayStep(direct) ==
    /\ tx.kind \in {"rollover", "flash"} /\ tx.stage = "repay"
    /\ Debt(tx.loan) <= Approved
    /\ RepayLoanFull(tx.by, tx.loan, TRUE, direct)
    /\ tx' = [tx EXCEPT !.stage = IF tx.kind = "flash" THEN "submit" ELSE "finish",
                        !.repaid = tokenBalance[tx.by] - tokenBalance'[tx.by]]
    /\ UNCHANGED <<commitmentPrincipalAccepted, loanAutoPayEnabled, autopayFee, autopaid>>

\* acceptCommitmentWithRecipient: the forwarder counts the principal and submits a
\* bid of the borrower, the contract receiving the funds...
SubmitStep ==
    LET c == Commitments[tx.commitment] IN
    /\ tx.kind \in {"rollover", "flash"} /\ tx.stage = "submit"
    /\ tx.principal <= c.maxPrincipal
    /\ commitmentPrincipalAccepted[0] <= c.maxPrincipal
    /\ commitmentPrincipalAccepted' =
          [commitmentPrincipalAccepted EXCEPT ![tx.commitment] = @ + tx.principal]
    /\ commitmentPrincipalAccepted'[tx.commitment] <= c.maxPrincipal
    /\ SubmitBid(bid[tx.loan].borrower, tx.by, c.market, tx.principal, c.duration, c.rate,
                 c.collateral)
    /\ tx' = [tx EXCEPT !.stage = "accept"]
    /\ UNCHANGED <<loanAutoPayEnabled, autopayFee, autopaid>>

\* ... and accepts it in the name of the lender.
AcceptStep ==
    /\ tx.kind \in {"rollover", "flash"} /\ tx.stage = "accept"
    /\ LenderAcceptBid(Commitments[tx.commitment].lender, tx.newLoan)
    /\ tx' = [tx EXCEPT !.stage = IF tx.kind = "flash" THEN "finish" ELSE "repay",
                        !.received = tokenBalance'[tx.by] - tokenBalance[tx.by]]
    /\ UNCHANGED <<commitmentPrincipalAccepted, loanAutoPayEnabled, autopayFee, autopaid>>

\* Mutant of FundsRemaining: whatever the contract holds.
FundsHeld == tokenBalance[tx.by] - tx.flashed - tx.fee

FundsRemaining ==
    IF tx.kind = "flash" THEN tx.received + tx.offered - tx.repaid - tx.fee
    ELSE tokenBalance[tx.by] - tx.before

BalanceAfterRest == Transfer(tokenBalance, tx.by, bid[tx.loan].borrower, FundsRemaining)

\* The contract has what it still has to pay.
CanFinish ==
    /\ FundsRemaining >= 0   \* underflows
    /\ CanTransfer(tokenBalance, tx.by, FundsRemaining)
    /\ CanTransfer(BalanceAfterRest, tx.by, tx.flashed + tx.fee)

\* The rest goes to the borrower, the flash loan back to the pool.
FinishStep ==
    /\ tx.kind \in {"rollover", "flash"} /\ tx.stage = "finish"
    /\ CanFinish
    /\ tokenBalance' = Transfer(BalanceAfterRest, tx.by, Pool, tx.flashed + tx.fee)
    /\ tx' = NoTx
    /\ OnlyTokensMove /\ UNCHANGED autopaid

-----------------------------------------------------------------------------
(* Automatic payments *)

SetAutoPayEnabled(sender, b, enabled) ==
    /\ tx = NoTx
    /\ bid[b].borrower = sender
    /\ loanAutoPayEnabled' = [loanAutoPayEnabled EXCEPT ![b] = enabled]
    /\ UNCHANGED <<vars, tx, commitmentPrincipalAccepted, autopayFee, autopaid>>

SetAutopayFee(fee) ==
    /\ tx = NoTx
    /\ autopayFee' = fee
    /\ UNCHANGED <<vars, tx, commitmentPrincipalAccepted, loanAutoPayEnabled, autopaid>>

\* Mutant of EstimatedMinimumPayment: the whole debt.
EstimatedFullPayment(b) == RepayFullAmount(b)

\* calculateAmountDue gives nothing for a loan that is not running or began in
\* this block.
EstimatedMinimumPayment(b) ==
    IF state[b] = "ACCEPTED" /\ accepted[b] < now THEN Due(b) + InterestOwed(b) ELSE 0

\* Mutant of AutoPayLoanMinimum: that the pull failed goes unnoticed.
AutoPayPullIgnored(caller, b) ==
    /\ tx = NoTx
    /\ loanAutoPayEnabled[b]
    /\ tokenBalance' = Transfer(tokenBalance, Autopay, caller,
                                Percent(EstimatedMinimumPayment(b), autopayFee))
    /\ tx' = [kind |-> "autopay", stage |-> "repay", by |-> Autopay, loan |-> b,
              amount |-> EstimatedMinimumPayment(b), saved |-> Committed]
    /\ OnlyTokensMove /\ UNCHANGED autopaid

\* autoPayLoanMinimum, until it repays: the borrower's tokens are pulled, the
\* fee goes to whoever called.
AutoPayLoanMinimum(caller, b) ==
    LET amount == EstimatedMinimumPayment(b)
        fee    == Percent(amount, autopayFee)
    IN  /\ tx = NoTx
        /\ loanAutoPayEnabled[b]
        /\ state[b] = "ACCEPTED" /\ accepted[b] < now => ~OwedReverts(b)
        /\ CanTransfer(tokenBalance, bid[b].borrower, amount + fee)
        /\ tokenBalance' = Transfer(Transfer(tokenBalance, bid[b].borrower, Autopay, amount + fee),
                                    Autopay, caller, fee)
        /\ tx' = [kind |-> "autopay", stage |-> "repay", by |-> Autopay, loan |-> b,
                  amount |-> amount, saved |-> Committed]
        /\ OnlyTokensMove /\ UNCHANGED autopaid

AutopayStep(direct) ==
    /\ tx.kind = "autopay"
    /\ RepayLoan(Autopay, tx.loan, tx.amount, TRUE, direct)
    /\ autopaid' = [autopaid EXCEPT ![tx.loan] = @ + tx.amount]
    /\ tx' = NoTx
    /\ UNCHANGED <<commitmentPrincipalAccepted, loanAutoPayEnabled, autopayFee>>

-----------------------------------------------------------------------------
RolloverStart ==
    \E sender \in Borrowers, b \in Bids, c \in DOMAIN Commitments,
       principal \in NewPrincipals :
        \/ \E offered \in Offers(CalculateRolloverAmount(b, c, principal)) :
              RolloverLoan(sender, b, c, principal, offered)
        \/ \E offered \in Offers(- CalculateFlashRolloverAmount(b, c, principal)),
              more \in FlashMargins :
              RolloverLoanWithFlash(sender, b, c, principal, RepayFullAmount(b) + more, offered)

TransactionStep ==
    \/ \E direct \in TransferOutcomes : RepayStep(direct) \/ AutopayStep(direct)
    \/ SubmitStep
    \/ AcceptStep
    \/ FinishStep

AutopayStart ==
    \/ \E sender \in Borrowers, b \in Bids, enabled \in BOOLEAN :
          SetAutoPayEnabled(sender, b, enabled)
    \/ \E fee \in AutopayFees : SetAutopayFee(fee)
    \/ \E caller \in Callers, b \in Bids : AutoPayLoanMinimum(caller, b)

\* Between two transactions of these contracts everybody else may act.  Of the
\* payments people can make themselves the two that Autopay and rollovers make for
\* them are enough; LendNestV2 has them all.
Alone == tx = NoTx /\ UNCHANGED extensionVars
OthersStep ==
    /\ Alone
    /\ \/ BorrowerStep \/ LenderStep \/ CustodyStep \/ ReputationStep
       \/ OwnerStep \/ MarketStep \/ Tick
PaidByHand ==
    \E payer \in Payers, b \in Bids, direct \in TransferOutcomes :
        \/ Alone /\ RepayLoanMinimum(payer, b, direct)
        \/ Alone /\ RepayLoanFull(payer, b, TRUE, direct)

ExtensionsNext == RolloverStart \/ AutopayStart \/ TransactionStep \/ Revert \/ OthersStep \/ PaidByHand

ExtensionsSpec == ExtensionsInit /\ [][ExtensionsNext]_allVars
=============================================================================
