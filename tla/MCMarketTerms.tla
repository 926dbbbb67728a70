---------------------------- MODULE MCMarketTerms ----------------------------
(***************************************************************************)
(* One loan in a market whose owner keeps changing it: the settings, the   *)
(* fee and who receives it, who may lend and borrow, whether it is closed; *)
(* in a protocol whose owner pauses it and changes its fee.                *)
(***************************************************************************)
EXTENDS LoanProperties, TLC

CONSTANTS borrower, lender1, owner, dao

\* A market that has not been created.
NoSettings ==
    [paymentCycle |-> 0, cycleType |-> "Seconds", paymentType |-> "EMI", defaultDuration |-> 0,
     expirationTime |-> 0, feePercent |-> 0, lenderAttestationRequired |-> FALSE,
     borrowerAttestationRequired |-> FALSE]

\* Open to anyone.  The moment of default of a loan accepted at once is within
\* MaxUint32, that of one accepted later is not.
OpenSettings ==
    [paymentCycle |-> 1, cycleType |-> "Seconds", paymentType |-> "EMI", defaultDuration |-> 2,
     expirationTime |-> 1, feePercent |-> 2500, lenderAttestationRequired |-> FALSE,
     borrowerAttestationRequired |-> FALSE]

\* Attested members only, a higher fee, more time until default.
StrictSettings ==
    [paymentCycle |-> 0, cycleType |-> "Monthly", paymentType |-> "Bullet", defaultDuration |-> 4,
     expirationTime |-> 0, feePercent |-> 5000, lenderAttestationRequired |-> TRUE,
     borrowerAttestationRequired |-> TRUE]

MCMarketSettings == {OpenSettings, StrictSettings}
MCAccounts == {borrower, lender1, owner, dao}
MCInitialSettings == {[m \in Markets |-> NoSettings]}
MCInitialOwner == [m \in Markets |-> NoAccount]
MCInitialTokens == (borrower :> 4 @@ lender1 :> 6 @@ owner :> 0 @@ dao :> 0)
MCInitialAssets == << >>   \* no collateral
MCMonthLengths == <<2>>
=============================================================================
