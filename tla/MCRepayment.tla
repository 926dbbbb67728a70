---------------------------- MODULE MCRepayment ----------------------------
(***************************************************************************)
(* One loan with interest, in a market of any of four kinds: instalments   *)
(* or bullet, cycles of equal length or calendar months.  A year has 8     *)
(* ticks and an APR of 100%, so that interest is visible in whole tokens;  *)
(* the months have 2, 3, 2 and 1 days, so that a day of the month may not  *)
(* exist in the next month.                                                *)
(***************************************************************************)
EXTENDS LoanProperties, TLC

CONSTANTS borrower, lender1, keeper

Terms(cycleType, paymentType, cycle) ==
    [paymentCycle |-> cycle, cycleType |-> cycleType, paymentType |-> paymentType,
     defaultDuration |-> 1, expirationTime |-> 1, feePercent |-> 0,
     lenderAttestationRequired |-> FALSE, borrowerAttestationRequired |-> FALSE]

MCAccounts == {borrower, lender1, keeper}
MCInitialSettings ==
    {[m \in Markets |-> Terms("Seconds", p, 2)] : p \in {"EMI", "Bullet"}}
    \cup {[m \in Markets |-> Terms("Monthly", p, ThirtyDays)] : p \in {"EMI", "Bullet"}}
\* A market whose payment cycle was left at zero.
MCZeroCycleSettings == {[m \in Markets |-> Terms("Seconds", "Bullet", 0)]}
MCInitialOwner == [m \in Markets |-> keeper]
MCInitialTokens == (borrower :> 4 @@ lender1 :> 4 @@ keeper :> 0)
MCInitialAssets == << >>   \* no collateral
MCMonthLengths == <<2, 3, 2, 1>>

\* What the theorems on due dates suppose is so here.
ASSUME MCTimestampsLast == TimestampsLast
=============================================================================
