---------------------------- MODULE TokenLedger ----------------------------
(***************************************************************************)
(* The balances of one standard ERC-20 token, as the contracts use it: a   *)
(* function from holders to amounts.  The token itself is not part of the  *)
(* repository.  Allowances are not modelled: a missing allowance, like a   *)
(* missing balance, only makes the calling transaction revert.             *)
(***************************************************************************)
EXTENDS Integers

CanTransfer(bal, from, n) == n <= bal[from]

\* A transfer to oneself changes nothing.
Transfer(bal, from, to, n) ==
    [h \in DOMAIN bal |->
        bal[h] - (IF h = from THEN n ELSE 0) + (IF h = to THEN n ELSE 0)]
=============================================================================
