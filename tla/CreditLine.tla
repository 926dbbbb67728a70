------------------------------ MODULE CreditLine ------------------------------
(***************************************************************************)
(* What a lender's commitment promises it: it is drawn on only while it    *)
(* stands, what has been drawn on it in all never passes the limit of the  *)
(* moment by a further loan, and once withdrawn it stays so.               *)
(***************************************************************************)
EXTENDS Naturals

CONSTANTS Lines

VARIABLES
    standing,   \* of each line: "unused", "open" or "withdrawn"
    limit,      \* how much may be drawn on it in all
    drawn       \* how much was

vars == <<standing, limit, drawn>>

TypeOK ==
    /\ standing \in [Lines -> {"unused", "open", "withdrawn"}]
    /\ limit \in [Lines -> Nat]
    /\ drawn \in [Lines -> Nat]

Init ==
    /\ standing = [l \in Lines |-> "unused"]
    /\ limit = [l \in Lines |-> 0]
    /\ drawn = [l \in Lines |-> 0]

\* The lender sets the limit, of a new line or of one that is open, even to
\* less than what was drawn already.
Commit(l) ==
    /\ standing[l] # "withdrawn"
    /\ standing' = [standing EXCEPT ![l] = "open"]
    /\ limit' = [limit EXCEPT ![l] = limit'[l]]
    /\ limit'[l] \in Nat \ {0}
    /\ UNCHANGED drawn

Withdraw(l) ==
    /\ standing[l] = "open"
    /\ standing' = [standing EXCEPT ![l] = "withdrawn"]
    /\ limit' = [limit EXCEPT ![l] = 0]
    /\ UNCHANGED drawn

Draw(l) ==
    /\ standing[l] = "open"
    /\ drawn' = [drawn EXCEPT ![l] = drawn'[l]]
    /\ drawn'[l] \in drawn[l] .. limit[l]
    /\ UNCHANGED <<standing, limit>>

Next == \E l \in Lines : Commit(l) \/ Withdraw(l) \/ Draw(l)

Spec == Init /\ [][Next]_vars
=============================================================================
