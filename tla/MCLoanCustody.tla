--------------------------- MODULE MCLoanCustody ---------------------------
(***************************************************************************)
(* Two bids of one borrower in one market, backed by an NFT or a fungible  *)
(* asset, a lender who may pass its claim on, and a third account that may *)
(* liquidate.  Loans last one payment cycle and bear no interest, so that  *)
(* the instance is about who holds the collateral and when.                *)
(***************************************************************************)
EXTENDS LoanProperties, TLC

CONSTANTS borrower, lender1, keeper, coin, nft

MCMarketSettings ==
    [paymentCycle |-> 1, cycleType |-> "Seconds", paymentType |-> "EMI", defaultDuration |-> 1,
     expirationTime |-> 1, feePercent |-> 0, lenderAttestationRequired |-> FALSE,
     borrowerAttestationRequired |-> FALSE]

MCAccounts == {borrower, lender1, keeper}
MCInitialSettings == {[m \in Markets |-> MCMarketSettings]}
MCInitialOwner == [m \in Markets |-> keeper]
MCInitialTokens == (borrower :> 0 @@ lender1 :> 4 @@ keeper :> 2)
MCInitialAssets ==
    [a \in {coin, nft} |->
        [acct \in MCAccounts |-> IF acct = borrower THEN 1 ELSE 0]]
MCMonthLengths == <<30>>
=============================================================================
