--------------------------- MODULE LendNestTypes ---------------------------
(***************************************************************************)
(* The parameters the contracts share: who takes part, which bids and      *)
(* markets there may be, and the states of a bid.                          *)
(***************************************************************************)
EXTENDS Integers, FiniteSets

CONSTANTS
    Accounts,       \* external accounts: borrowers, lenders, owners, liquidators
    NoAccount,      \* address(0)
    MaxBids,        \* bound on the bids submitted in a behaviour
    Markets         \* market ids

\* There are finitely many addresses.
ASSUME TypesAssumption ==
    /\ IsFiniteSet(Accounts) /\ NoAccount \notin Accounts
    /\ MaxBids \in Nat

\* Bid ids are handed out from 0 upwards.
Bids == 0 .. MaxBids - 1

\* LendNestV0Storage.BidState
BidState == {"NONEXISTENT", "PENDING", "CANCELLED", "ACCEPTED", "PAID", "LIQUIDATED", "CLOSED"}
=============================================================================
