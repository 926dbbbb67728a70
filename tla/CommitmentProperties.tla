------------------------ MODULE CommitmentProperties ------------------------
(***************************************************************************)
(* What lenders who make commitments, and borrowers who accept them, rely  *)
(* on.                                                                     *)
(***************************************************************************)
EXTENDS LenderCommitmentForwarder, SequencesExt

LoanType ==
    [commitment : CommitmentIds, borrower : Accounts, lender : Accounts, caller : Callers,
     marketId : Markets, principal : Nat, rate : Nat, duration : Nat,
     collateral : [asset : Nat, tokenId : Nat, amount : Nat]]

\* The types of the state; ids not handed out yet have nothing in storage.
TypeOK ==
    /\ ContextTypeOK
    /\ commitments \in [CommitmentIds -> Commitment]
    /\ commitmentCount \in 0 .. MaxCommitments
    /\ \A id \in CommitmentIds : id >= commitmentCount =>
          commitments[id] = NoCommitment /\ commitmentBorrowersList[id] = {}
    /\ commitmentBorrowersList \in [CommitmentIds -> SUBSET Accounts]
    /\ commitmentPrincipalAccepted \in [CommitmentIds -> Nat]
    /\ userExtensions \in [Callers -> SUBSET Extensions]
    /\ loans \in Seq(LoanType)

LentUnder(id) ==
    FoldLeft(LAMBDA sum, loan : sum + IF loan.commitment = id THEN loan.principal ELSE 0, 0, loans)

Line == INSTANCE CreditLine WITH
    Lines <- CommitmentIds,
    standing <- [id \in CommitmentIds |->
                    IF id >= commitmentCount THEN "unused"
                    ELSE IF commitments[id] = NoCommitment THEN "withdrawn" ELSE "open"],
    limit <- [id \in CommitmentIds |-> commitments[id].maxPrincipal],
    drawn <- [id \in CommitmentIds |-> LentUnder(id)]

\* Over every sequence of creating, updating, deleting and accepting, what has
\* been lent under a commitment, as the core knows it and not as the forwarder
\* counts it, never passes the limit by a further loan, and nothing is lent
\* under a deleted commitment, which never comes back.
ImplementsCreditLine == Line!Spec

NewLoan == loans'[Len(loans')]

\* Each unit of principal lent is covered by collateral at the lender's rate,
\* however small the loans a borrower splits it into, in the asset the lender
\* asked for: what _acceptCommitment demands in forwarder units is enough in the
\* units of the tokens.
LoanCoveredByCollateral ==
    [][loans' # loans =>
        LET c == commitments[NewLoan.commitment]
            units == IF c.type = "ERC20" THEN CollateralUnit ELSE 1
        IN  c.type # "NONE" =>
              /\ NewLoan.collateral.asset = c.asset
              /\ c.type = "ERC721_MERKLE_PROOF" =>
                    NewLoan.collateral.tokenId \in Leaves[c.tokenId]
              /\ NewLoan.collateral.amount * c.maxPrincipalPerCollateralAmount >=
                    NewLoan.principal * TokenUnit * units]_vars

\* Nobody is bound by a loan without having agreed: lender and borrower have both
\* approved the forwarder with a call of their own, and a borrower for whom
\* somebody else accepted has once added an extension itself.
NobodyBoundUnasked ==
    \A i \in DOMAIN loans :
        LET loan == loans[i] IN
        /\ \A acct \in {loan.lender, loan.borrower} : \E m \in Markets : <<acct, m>> \in approvals
        /\ loan.caller # loan.borrower => loan.borrower \in delegators

\* A commitment can be lent out up to its maxPrincipal, "Amount of tokens being
\* committed by the lender. Max amount that can be loaned.": what is left of it
\* is not refused for the amount.
LendableUpToMaximum ==
    \A id \in CommitmentIds, p \in Principals :
        /\ commitments[id].lender # NoAccount
        /\ LentUnder(id) + p <= commitments[id].maxPrincipal
        => ENABLED CountAccepted(id, p)
=============================================================================
