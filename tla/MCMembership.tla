---------------------------- MODULE MCMembership ----------------------------
(***************************************************************************)
(* A market that an owner creates and may give away, two accounts that     *)
(* join it as lenders or borrowers, and signatures that anybody may use.   *)
(***************************************************************************)
EXTENDS MembershipProperties

CONSTANTS owner, successor, member1, member2, open

UnusedSettings ==
    [paymentCycle |-> 0, cycleType |-> "Seconds", paymentType |-> "EMI", defaultDuration |-> 0,
     expirationTime |-> 0, feePercent |-> 0, lenderAttestationRequired |-> FALSE,
     borrowerAttestationRequired |-> FALSE]

MembersOnly == [UnusedSettings EXCEPT !.lenderAttestationRequired = TRUE,
                                      !.borrowerAttestationRequired = TRUE]

MCAccounts == {owner, successor, member1, member2}
MCMarketSettings == {MembersOnly}
MCInitialSettings == [m \in Markets |-> UnusedSettings]
MCInitialOwner == [m \in Markets |-> NoAccount]
MCData == [market : Markets, account : MCAccounts]
MCMarketSchemas == {"lender", "borrower"}
=============================================================================
