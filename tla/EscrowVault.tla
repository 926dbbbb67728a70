----------------------------- MODULE EscrowVault -----------------------------
(***************************************************************************)
(* EscrowVault.sol: repayments a lender could not receive directly wait    *)
(* here under the lender's name until the lender withdraws them.           *)
(***************************************************************************)
EXTENDS LendNestTypes, TokenLedger

CONSTANTS Vault        \* the vault's own address among the token's holders

VARIABLES tokenBalance,   \* balances of the lending token
          vaultBalances   \* balances[account] of the vault

vaultVars == <<tokenBalance, vaultBalances>>

\* The credit a deposit adds: what the vault received, not what was asked for.
CreditAfterDeposit(account, amount) ==
    [vaultBalances EXCEPT ![account] = @ + amount]

\* Mutant of CreditAfterWithdraw: the credit is not reduced.
CreditKept(account, amount) == vaultBalances

CreditAfterWithdraw(account, amount) ==
    [vaultBalances EXCEPT ![account] = @ - amount]

\* deposit, paid by the contract `from`, given the balances bal before it.
VaultDeposit(bal, from, account, amount) ==
    /\ CanTransfer(bal, from, amount)
    /\ tokenBalance' = Transfer(bal, from, Vault, amount)
    /\ vaultBalances' = CreditAfterDeposit(account, amount)

\* withdraw by the account itself; a larger amount than its credit reverts.
VaultWithdraw(account, amount) ==
    /\ amount <= vaultBalances[account]
    /\ CanTransfer(tokenBalance, Vault, amount)
    /\ vaultBalances' = CreditAfterWithdraw(account, amount)
    /\ tokenBalance' = Transfer(tokenBalance, Vault, account, amount)
=============================================================================
