---------------------------- MODULE MCExtensions ----------------------------
(***************************************************************************)
(* A borrower with one asset to pledge, and two lenders' commitments: one  *)
(* against collateral, one without but in a market that takes a fee.  The  *)
(* rollover contracts hold a stray token each, which is not theirs to      *)
(* spend.                                                                  *)
(***************************************************************************)
EXTENDS ExtensionProperties, TLC

CONSTANTS borrower, lender1, lender2, keeper, dao, pool, flash, roll, autopay, coin

MCAccounts == {borrower, lender1, lender2, keeper, dao, pool, flash, roll, autopay}
MCMarketSettings ==
    [paymentCycle |-> 1, cycleType |-> "Seconds", paymentType |-> "EMI", defaultDuration |-> 0,
     expirationTime |-> 0, feePercent |-> 2500, lenderAttestationRequired |-> FALSE,
     borrowerAttestationRequired |-> FALSE]
MCInitialSettings == {[m \in Markets |-> MCMarketSettings]}
MCInitialOwner == [m \in Markets |-> dao]
MCInitialTokens ==
    [acct \in MCAccounts |->
        CASE acct = borrower -> 4
          [] acct \in {lender1, lender2, pool} -> 12
          [] acct \in {flash, roll} -> 1
          [] OTHER -> 0]
MCInitialAssets ==
    [a \in {coin} |-> [acct \in MCAccounts |-> IF acct = borrower THEN 1 ELSE 0]]
MCNone == <<>>
MCCommitments ==
    (0 :> [lender |-> lender1, market |-> 1, maxPrincipal |-> 8, rate |-> 0, duration |-> 4,
           collateral |-> (coin :> 1)])
    @@
    (1 :> [lender |-> lender2, market |-> 1, maxPrincipal |-> 12, rate |-> 10000, duration |-> 4,
           collateral |-> MCNone])
MCMargins == {0, 1}
MCMonthLengths == <<30>>
=============================================================================
