------------------------- MODULE CollateralizedLoan -------------------------
(***************************************************************************)
(* What the protocol promises about collateral, whatever the terms of the  *)
(* loans: goods offered with a loan stay with the debtor until the loan is *)
(* made, are then held in a pot of that loan alone, and leave the pot once *)
(* and whole, to the debtor if the loan was repaid, to the creditor of the *)
(* moment if it was seized, to whoever liquidated it otherwise.            *)
(***************************************************************************)
EXTENDS Naturals

CONSTANTS Loans, Goods, Parties, Nobody

VARIABLES
    stage,      \* of each loan
    debtor, creditor,
    offer,      \* the goods a loan would be backed by
    pot,        \* the goods held for a loan
    wallet      \* the goods the parties hold

vars == <<stage, debtor, creditor, offer, pot, wallet>>

Stages == {"none", "offered", "withdrawn", "active", "repaid", "seized", "liquidated"}

Nothing == [g \in Goods |-> 0]

TypeOK ==
    /\ stage \in [Loans -> Stages]
    /\ debtor \in [Loans -> Parties \cup {Nobody}]
    /\ creditor \in [Loans -> Parties \cup {Nobody}]
    /\ offer \in [Loans -> [Goods -> Nat]]
    /\ pot \in [Loans -> [Goods -> Nat]]
    /\ wallet \in [Goods -> [Parties -> Nat]]

Init ==
    /\ stage = [l \in Loans |-> "none"]
    /\ debtor = [l \in Loans |-> Nobody]
    /\ creditor = [l \in Loans |-> Nobody]
    /\ offer = [l \in Loans |-> Nothing]
    /\ pot = [l \in Loans |-> Nothing]
    /\ wallet \in [Goods -> [Parties -> Nat]]

Advance(l, from, to) ==
    /\ stage[l] = from
    /\ stage' = [stage EXCEPT ![l] = to]

\* The whole pot of l goes to p.
EmptyPot(l, p) ==
    /\ pot' = [pot EXCEPT ![l] = Nothing]
    /\ wallet' = [g \in Goods |-> [wallet[g] EXCEPT ![p] = @ + pot[l][g]]]

Open(l) ==
    /\ Advance(l, "none", "offered")
    /\ \E p \in Parties : debtor' = [debtor EXCEPT ![l] = p]
    /\ offer' = [offer EXCEPT ![l] = offer'[l]]
    /\ offer'[l] \in [Goods -> Nat]
    /\ UNCHANGED <<creditor, pot, wallet>>

WithdrawOffer(l) ==
    /\ Advance(l, "offered", "withdrawn")
    /\ UNCHANGED <<debtor, creditor, offer, pot, wallet>>

Fund(l, p) ==
    /\ Advance(l, "offered", "active")
    /\ creditor' = [creditor EXCEPT ![l] = p]
    /\ \A g \in Goods : offer[l][g] <= wallet[g][debtor[l]]
    /\ pot' = [pot EXCEPT ![l] = offer[l]]
    /\ wallet' = [g \in Goods |-> [wallet[g] EXCEPT ![debtor[l]] = @ - offer[l][g]]]
    /\ UNCHANGED <<debtor, offer>>

\* The claim on a loan changes hands.
Assign(l, p) ==
    /\ creditor[l] # Nobody
    /\ creditor' = [creditor EXCEPT ![l] = p]
    /\ UNCHANGED <<stage, debtor, offer, pot, wallet>>

Repay(l) ==
    /\ Advance(l, "active", "repaid")
    /\ EmptyPot(l, debtor[l]) \/ UNCHANGED <<pot, wallet>>
    /\ UNCHANGED <<debtor, creditor, offer>>

GiveBack(l) ==
    /\ stage[l] = "repaid"
    /\ EmptyPot(l, debtor[l])
    /\ UNCHANGED <<stage, debtor, creditor, offer>>

Seize(l) ==
    /\ Advance(l, "active", "seized")
    /\ EmptyPot(l, creditor[l])
    /\ UNCHANGED <<debtor, creditor, offer>>

Liquidate(l, p) ==
    /\ Advance(l, "active", "liquidated")
    /\ EmptyPot(l, p)
    /\ UNCHANGED <<debtor, creditor, offer>>

Next ==
    \E l \in Loans :
        \/ Open(l) \/ WithdrawOffer(l) \/ Repay(l) \/ GiveBack(l) \/ Seize(l)
        \/ \E p \in Parties : Fund(l, p) \/ Assign(l, p) \/ Liquidate(l, p)

Spec == Init /\ [][Next]_vars
=============================================================================
