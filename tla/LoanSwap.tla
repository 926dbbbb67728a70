------------------------------ MODULE LoanSwap ------------------------------
(***************************************************************************)
(* What borrowers and lenders are promised of the contracts that act for   *)
(* borrowers: a loan is replaced by another at one stroke or not at all,   *)
(* no token is lost, the contracts keep nothing and spend nothing of their *)
(* own, and nobody pays but the borrower and who is to be the creditor.    *)
(***************************************************************************)
EXTENDS Integers, Functions

CONSTANTS
    Loans, People, Nobody,
    Agents         \* the contracts, which are People too

VARIABLES
    status,   \* of each loan
    debtor,   \* who asked for it
    creditor, \* who is recorded to have lent it, or that others hold the claim by now
    worth     \* the tokens each of the People has, or can fetch

swapVars == <<status, debtor, creditor, worth>>

Statuses == {"none", "asked", "running", "over"}

Init ==
    /\ status = [l \in Loans |-> "none"]
    /\ debtor = [l \in Loans |-> Nobody]
    /\ creditor = [l \in Loans |-> Nobody]
    /\ worth \in [People -> Nat]

Losers == {p \in People : worth'[p] < worth[p]}

NothingSticks ==
    /\ SumFunction(worth') = SumFunction(worth)
    /\ \A p \in Agents : worth'[p] = worth[p]

\* A loan is asked for, runs, and is over.
MayBecome == {<<"none", "asked">>, <<"asked", "running">>, <<"asked", "over">>,
              <<"running", "over">>} \cup {<<s, s>> : s \in Statuses}

\* One loan gets on, and one of the people may pay: its creditor when it begins to
\* run.  Then, and as long as it runs, the record of the creditor may change.
Ordinary(l, payer) ==
    /\ status' = [status EXCEPT ![l] = status'[l]]
    /\ <<status[l], status'[l]>> \in MayBecome
    /\ debtor' = [debtor EXCEPT ![l] = IF status[l] = "none" THEN debtor'[l] ELSE @]
    /\ creditor' = [creditor EXCEPT ![l] = IF status'[l] = "running" THEN creditor'[l] ELSE @]
    /\ status[l] = "asked" /\ status'[l] = "running" => creditor'[l] = payer
    /\ Losers \subseteq {payer}
    /\ NothingSticks

\* A running loan gives way to a new one of the same debtor, which its
\* creditor pays for.
Swap(old, new, lender) ==
    /\ status[old] = "running" /\ status[new] = "none"
    /\ status' = [status EXCEPT ![old] = "over", ![new] = "running"]
    /\ debtor' = [debtor EXCEPT ![new] = debtor[old]]
    /\ creditor' = [creditor EXCEPT ![new] = lender]
    /\ Losers \subseteq {debtor[old], lender}
    /\ NothingSticks

Next ==
    \/ \E l \in Loans, payer \in People : Ordinary(l, payer)
    \/ \E old, new \in Loans, lender \in People : Swap(old, new, lender)

Spec == Init /\ [][Next]_swapVars
=============================================================================
