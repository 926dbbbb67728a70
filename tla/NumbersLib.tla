----------------------------- MODULE NumbersLib -----------------------------
(***************************************************************************)
(* The integer arithmetic of libraries/NumbersLib.sol and WadRayMath.sol:  *)
(* percentages in basis points, and the fixed-point annuity formula that   *)
(* fixes the instalment of an EMI loan.                                    *)
(* Wad is the fixed-point unit (10^18 in the code) and RatioUnit the unit  *)
(* of a ten-decimal percentage (10^12 in the code); both are parameters so *)
(* that small instances stay within TLC's integers.                        *)
(***************************************************************************)
EXTENDS Naturals

CONSTANTS Wad, RatioUnit

ASSUME NumbersAssumption == Wad \in Nat \ {0} /\ RatioUnit \in Nat \ {0}

PCT_100 == 10000

\* x * pct, pct in basis points, rounded down.
Percent(x, pct) == (x * pct) \div PCT_100

\* num1 / num2 as a ten-decimal percentage, 0 when num2 is.
RatioOf(num1, num2) == IF num2 = 0 THEN 0 ELSE (num1 * RatioUnit) \div num2

CeilDiv(a, b) == (a + b - 1) \div b

WadMul(a, b) == (a * b + Wad \div 2) \div Wad
WadDiv(a, b) == (a * Wad + b \div 2) \div b
PctToWad(pct) == (pct * Wad) \div PCT_100

\* The squaring loop of _pow: s is <<z, x, n>>, the accumulator, the base
\* squared so far, and what is left of the exponent.
PowLoop[s \in Nat \X Nat \X Nat] ==
    LET z == s[1]
        n == s[3] \div 2
        x == WadMul(s[2], s[2])
    IN  IF n = 0 THEN z
        ELSE PowLoop[<<IF n % 2 # 0 THEN WadMul(z, x) ELSE z, x, n>>]

WadPow(x, n) == PowLoop[<<IF n % 2 # 0 THEN x ELSE Wad, x, n>>]

\* Interest rate of one payment cycle, as a Wad.
CycleRate(cycle, apr, daysInYear) == WadDiv(WadMul(PctToWad(apr), cycle), daysInYear)

\* pmt rejects its arguments: a loan shorter than its cycle, or a division by
\* zero (no duration, no cycle, or a rate that rounds to nothing).
PmtReverts(duration, cycle, apr, daysInYear) ==
    \/ duration < cycle
    \/ duration = 0
    \/ apr # 0 /\ (cycle = 0 \/ CycleRate(cycle, apr, daysInYear) = 0)

\* The annuity P * R * (1+R)^N / ((1+R)^N - 1), every product rounded to the
\* nearest unit; without interest, the cycle's share of the principal, up.
Pmt(principal, duration, cycle, apr, daysInYear) ==
    IF apr = 0 THEN CeilDiv(principal * cycle, duration)
    ELSE LET r     == CycleRate(cycle, apr, daysInYear)
             power == WadPow(Wad + r, CeilDiv(duration, cycle))
         IN  WadDiv(WadMul(WadMul(principal, r), power), power - Wad)
=============================================================================
