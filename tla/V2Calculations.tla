--------------------------- MODULE V2Calculations ---------------------------
(***************************************************************************)
(* libraries/V2Calculations.sol: what is owed on a loan, what of it is due *)
(* now, and when the next payment is due.                                  *)
(*                                                                         *)
(* A loan's fixed terms are a record t with the fields                     *)
(*   principal, duration, apr, paymentCycle, cycleType ("Seconds" or       *)
(*   "Monthly"), paymentType ("EMI" or "Bullet"), cycleAmount.             *)
(* Checked arithmetic that fails reverts the whole transaction, so every   *)
(* function that can fail comes with a predicate that says when.           *)
(***************************************************************************)
EXTENDS Integers, NumbersLib, DateTimeLib

CONSTANTS SecondsYear,  \* 365 days, the year of interest of a Seconds loan
          MonthlyYear,  \* 360 days, that of a Monthly loan
          MaxUint32     \* the largest timestamp or duration

ASSUME CalculationsAssumption ==
    /\ SecondsYear \in Nat \ {0}
    /\ MonthlyYear \in Nat \ {0}
    /\ MaxUint32 \in Nat

DaysInYear(cycleType) == IF cycleType = "Monthly" THEN MonthlyYear ELSE SecondsYear

\* Storage holds 0 until the first payment.
LastRepaidTimestamp(accepted, lastRepaid) == IF lastRepaid = 0 THEN accepted ELSE lastRepaid

-----------------------------------------------------------------------------
\* The instalment fixed when the bid is submitted.

CycleAmountReverts(t) ==
    t.paymentType = "EMI" /\ PmtReverts(t.duration, t.paymentCycle, t.apr, DaysInYear(t.cycleType))

CalculatePaymentCycleAmount(t) ==
    IF t.paymentType = "Bullet"
    THEN (Percent(t.principal, t.apr) * RatioOf(t.paymentCycle, DaysInYear(t.cycleType)))
             \div RatioUnit
    ELSE Pmt(t.principal, t.duration, t.paymentCycle, t.apr, DaysInYear(t.cycleType))

-----------------------------------------------------------------------------
\* What is owed at a time, for a loan accepted at acc whose principal has been
\* repaid up to paid and whose last payment was at last.

OwedPrincipal(t, paid) == t.principal - paid

\* Interest accrues on the open principal since the last payment.
Interest(t, paid, last, time) ==
    (Percent(OwedPrincipal(t, paid), t.apr) * (time - last)) \div DaysInYear(t.cycleType)

\* The last cycle is what is left of the duration after the whole cycles.
LastCycleStart(t, acc) ==
    LET rest == t.duration % t.paymentCycle
    IN  acc + t.duration - (IF rest = 0 THEN t.paymentCycle ELSE rest)

\* Mutant of IsLastPaymentCycle: only the amount decides.
IsLastByAmount(t, acc, paid, last, time) ==
    OwedPrincipal(t, paid) + Interest(t, paid, last, time) <= t.cycleAmount

IsLastPaymentCycle(t, acc, paid, last, time) ==
    \/ time > LastCycleStart(t, acc)
    \/ OwedPrincipal(t, paid) + Interest(t, paid, last, time) <= t.cycleAmount

\* The most an EMI loan asks for at that time, interest included.
OwedAmount(t, acc, paid, last, time) ==
    IF IsLastPaymentCycle(t, acc, paid, last, time)
    THEN OwedPrincipal(t, paid) + Interest(t, paid, last, time)
    ELSE (t.cycleAmount * (time - last)) \div t.paymentCycle

DuePrincipal(t, acc, paid, last, time) ==
    LET owed      == OwedPrincipal(t, paid)
        emiShare  == OwedAmount(t, acc, paid, last, time) - Interest(t, paid, last, time)
    IN  IF t.paymentType = "Bullet"
        THEN IF IsLastPaymentCycle(t, acc, paid, last, time) THEN owed ELSE 0
        ELSE IF emiShare < owed THEN emiShare ELSE owed

\* calculateAmountOwed fails: more principal repaid than lent, a payment cycle
\* of zero (modulo by zero) or longer than the whole time until the end of the loan,
\* or an instalment below the interest of an EMI loan.
AmountOwedReverts(t, acc, paid, last, time) ==
    \/ paid > t.principal
    \/ t.paymentCycle = 0
    \/ LastCycleStart(t, acc) < 0
    \/ /\ t.paymentType = "EMI"
       /\ OwedAmount(t, acc, paid, last, time) < Interest(t, paid, last, time)

-----------------------------------------------------------------------------
\* When the next payment is due.

\* The cycle boundary after the one the last payment belongs to; that of a monthly
\* loan is cut down to 32 bits.
CycleDueDate(t, acc, last) ==
    IF t.cycleType = "Monthly"
    THEN AddMonths(acc, DiffMonths(acc, last) + (IF GetDay(last) > GetDay(acc) THEN 2 ELSE 1))
             % (MaxUint32 + 1)
    ELSE acc + t.paymentCycle
             + (IF last > acc THEN CeilDiv(last - acc, t.paymentCycle) * t.paymentCycle ELSE 0)

EndOfLoan(t, acc) == acc + t.duration

\* uint32 sums that overflow, or a division by a payment cycle of zero.
NextDueDateReverts(t, acc, last) ==
    \/ EndOfLoan(t, acc) > MaxUint32
    \/ /\ t.cycleType = "Seconds"
       /\ \/ t.paymentCycle = 0 /\ last > acc
          \/ CycleDueDate(t, acc, last) > MaxUint32

\* Mutant of CalculateNextDueDate: due dates go on past the end of the loan.
DueDateUncapped(t, acc, last) == CycleDueDate(t, acc, last)

CalculateNextDueDate(t, acc, last) ==
    IF CycleDueDate(t, acc, last) > EndOfLoan(t, acc) THEN EndOfLoan(t, acc)
    ELSE CycleDueDate(t, acc, last)
=============================================================================
