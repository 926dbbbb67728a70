------------------------ MODULE ExtensionProperties ------------------------
(***************************************************************************)
(* What must hold of rollovers and automatic payments.                     *)
(***************************************************************************)
EXTENDS LoanExtensions

Kinds == {"none", "rollover", "flash", "autopay"}
Stages == {"submit", "accept", "repay", "finish", "done"}

\* Type invariant of the extensions' state, with the balances they move.
ExtensionsTypeOK ==
    /\ tx.kind \in Kinds /\ tx.stage \in Stages
    /\ commitmentPrincipalAccepted \in [DOMAIN Commitments -> Nat]
    /\ loanAutoPayEnabled \in [Bids -> BOOLEAN]
    /\ autopayFee \in AutopayFees
    /\ autopaid \in [Bids -> Nat]
    /\ tokenBalance \in [Holders -> Nat]

-----------------------------------------------------------------------------
\* What the chain shows: the state before a transaction that is not finished.
CommittedState == IF tx = NoTx THEN state ELSE tx.saved.state
CommittedBid == IF tx = NoTx THEN bid ELSE tx.saved.bid
CommittedLender == IF tx = NoTx THEN lender ELSE tx.saved.lender
CommittedTokens == IF tx = NoTx THEN tokenBalance ELSE tx.saved.tokenBalance
CommittedVault == IF tx = NoTx THEN vaultBalances ELSE tx.saved.vaultBalances

StatusOf(st) ==
    CASE st = "NONEXISTENT" -> "none"
      [] st = "PENDING" -> "asked"
      [] st = "ACCEPTED" -> "running"
      [] OTHER -> "over"

Promise == INSTANCE LoanSwap WITH
    Loans <- Bids,
    People <- Accounts,
    Nobody <- NoAccount,
    Agents <- Contracts,
    status <- [b \in Bids |-> StatusOf(CommittedState[b])],
    debtor <- [b \in Bids |-> CommittedBid[b].borrower],
    creditor <- [b \in Bids |-> CommittedLender[b]],
    worth <- [acct \in Accounts |-> CommittedTokens[acct] + CommittedVault[acct]]

\* Seen from between two transactions, a rollover replaces a loan at one stroke
\* or does nothing, whichever of its calls fails; no token sticks to the
\* contracts that carry it out, nor is any they happen to hold spent; and only
\* the borrower and whoever is recorded as the new loan's lender pay.
ImplementsLoanSwap == Promise!Spec

-----------------------------------------------------------------------------
IsRollover == tx.kind \in {"rollover", "flash"}

\* The rollover in progress goes through with this step.
GoesThrough == IsRollover /\ tx' = NoTx /\ state'[tx.loan] # tx.saved.state[tx.loan]

\* What was owed on the old loan; within a transaction no time passes.
OwedBefore ==
    IF tx.saved.state[tx.loan] = "ACCEPTED"
    THEN OwedPrincipal(tx.saved.bid[tx.loan], tx.saved.repaidPrincipal[tx.loan])
         + Interest(tx.saved.bid[tx.loan], tx.saved.repaidPrincipal[tx.loan],
                    LastRepaidTimestamp(tx.saved.accepted[tx.loan], tx.saved.lastRepaid[tx.loan]), now)
    ELSE 0

\* What the quote leaves out of it: everything, when the loan was accepted in this very
\* block (LendNest.sol:880), and otherwise nothing.
Uncounted == IF tx.saved.accepted[tx.loan] < now THEN 0 ELSE OwedBefore

\* What the pool's premium exceeds the premium quoted by: a token of rounding, and the
\* premium on what the borrower flashes beyond what the quote counts.
Rounding ==
    IF tx.kind = "flash" THEN tx.fee - Percent(OwedBefore - Uncounted, PremiumPct) ELSE 0

\* Who else a rollover pays: the lender of the old loan and those who take fees of
\* the new one, which its own lender pays for.
OtherParties ==
    {Commitments[tx.commitment].lender, LoanLender(tx.loan), ProtocolOwner,
     GetMarketFeeRecipient(Commitments[tx.commitment].market)}

\* calculateRolloverAmount is what the rollover costs a borrower who is none of the
\* others it pays (a negative amount is what it brings), whatever the borrower
\* offered: to the token, but for the rounding of the pool's premium and for a loan
\* accepted in the same block, whose whole debt comes on top of the quote.
QuotesHold ==
    [][GoesThrough =>
        LET debtor == tx.saved.bid[tx.loan].borrower
            cost   == tx.saved.tokenBalance[debtor] - tokenBalance'[debtor]
        IN  debtor \notin OtherParties => cost = tx.quote + Uncounted + Rounding]_allVars

\* A borrower who sends what calculateRolloverAmount asks for, and the token of
\* rounding when there is one, is not refused for want of funds: the contract can
\* pay the old loan and the pool, without a token of its own.  For a loan accepted in
\* the same block the quote is not enough: who rolls it over has to send, and with the
\* flash contract to flash, the debt that the quote leaves out.
QuoteSuffices ==
    /\ IsRollover
    /\ tx.offered >= tx.quote + Uncounted + Rounding
    /\ tx.kind = "flash" => tx.flashed >= Uncounted
    =>  /\ tx.stage = "repay" /\ state[tx.loan] = "ACCEPTED" => Debt(tx.loan) <= Approved
        /\ tx.stage = "finish" => CanFinish

\* However often, and by whomever, automatic payments are triggered, a borrower
\* has never paid more that way than the instalments accrued since the loan began,
\* unless it is paying in the last payment cycle, when everything is due.
AutopayWithinSchedule ==
    [][\A b \in Bids :
        LET t == bid[b] IN
        /\ autopaid'[b] > autopaid[b] /\ t.paymentType = "EMI"
        /\ ~IsLastPaymentCycle(t, accepted[b], repaidPrincipal[b], LastRepaid(b), now)
        => autopaid'[b] * t.paymentCycle <= t.cycleAmount * (now - accepted[b])]_allVars
=============================================================================
