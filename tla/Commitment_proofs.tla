-------------------------- MODULE Commitment_proofs --------------------------
(***************************************************************************)
(* Proofs about the commitment forwarder: what its storage holds, that     *)
(* nobody is bound by a loan without having agreed, that each loan is      *)
(* covered at the lender's rate, and that commitments are credit lines.    *)
(***************************************************************************)
EXTENDS CommitmentProperties, FiniteSums_proofs

\* What the types leave open: a commitment that was made names a market.
CommitmentsNameMarkets ==
    \A id \in CommitmentIds :
        commitments[id] = NoCommitment \/ commitments[id].marketId \in Markets

\* The forwarder speaks only for accounts that approved it once.
ApprovalsRemembered ==
    \A acct \in approvedForwarderSenders[Self] : \E m \in Markets : <<acct, m>> \in approvals

\* Only accounts that added an extension themselves have any.
ExtensionsAdded ==
    \A acct \in Callers : userExtensions[acct] # {} => acct \in delegators

IInv ==
    /\ TypeOK
    /\ CommitmentsNameMarkets
    /\ ApprovalsRemembered
    /\ ExtensionsAdded
    /\ NobodyBoundUnasked

-----------------------------------------------------------------------------
(* Facts about single definitions *)

LEMMA InitInv == Init => IInv
  <1> SUFFICES ASSUME Init PROVE IInv
    OBVIOUS
  <1>1. ContextTypeOK
    BY DEF Init, ContextInit, ContextTypeOK
  <1>2. NoCommitment \in Commitment
    BY ForwarderAssumption DEF NoCommitment, Commitment, CommitmentCollateralType
  <1>3. TypeOK
    BY <1>1, <1>2, ForwarderAssumption DEF Init, TypeOK, CommitmentIds
  <1>4. ApprovalsRemembered
    BY ForwarderAssumption DEF Init, ContextInit, ApprovalsRemembered
  <1> QED
    BY <1>3, <1>4 DEF Init, IInv, CommitmentsNameMarkets, ExtensionsAdded, NobodyBoundUnasked

\* The lender of a standing commitment is not one of the callers that are nobody.
LEMMA NobodyCalls == NoAccount \notin Callers
  BY TypesAssumption, ForwarderAssumption DEF Callers

\* _msgSender is the caller, or an account the caller is an extension of.
LEMMA SenderForm ==
    ASSUME NEW caller \in Callers, NEW sender \in {MsgSender(caller, named) : named \in Callers}
    PROVE  sender \in Callers /\ (sender = caller \/ HasExtension(sender, caller))
  BY DEF MsgSender

\* Whoever speaks through the forwarder has approved it.
LEMMA Approved ==
    ASSUME IInv, NEW m \in Markets, NEW acct, IsTrustedMarketForwarder(m, Self),
           SpeaksForMarket(m, Self, acct, acct)
    PROVE  /\ acct \in Accounts
           /\ \E market \in Markets : <<acct, market>> \in approvals
  <1>1. acct \in approvedForwarderSenders[Self]
    BY DEF SpeaksForMarket
  <1>2. approvedForwarderSenders[Self] \subseteq Accounts
    BY ForwarderAssumption DEF IInv, TypeOK, ContextTypeOK
  <1> QED
    BY <1>1, <1>2 DEF IInv, ApprovalsRemembered

\* Only a commitment that was made can be accepted.
LEMMA AcceptedStands ==
    ASSUME IInv, NEW id \in CommitmentIds, ValidateCommitment(commitments[id])
    PROVE  /\ commitments[id] # NoCommitment
           /\ commitments[id] \in Commitment
           /\ commitments[id].marketId \in Markets
           /\ id < commitmentCount
  <1>1. commitments[id] # NoCommitment
    BY DEF ValidateCommitment, NoCommitment
  <1> QED
    BY <1>1 DEF IInv, TypeOK, CommitmentsNameMarkets, CommitmentIds

-----------------------------------------------------------------------------
(* The operations by what they are about *)

Extending(caller, sender) ==
    \E extension \in Extensions :
        AddExtension(caller, sender, extension) \/ RevokeExtension(sender, extension)

Offering(sender) ==
    \/ \E c \in Offers, guests \in Guests : CreateCommitment(sender, c, guests)
    \/ \E id \in CommitmentIds :
          \/ \E c \in Offers : UpdateCommitment(sender, id, c)
          \/ \E borrowers \in SUBSET Accounts : SetBorrowers(sender, id, borrowers)
          \/ DeleteCommitment(sender, id)

Accepting(caller, sender) ==
    \E id \in CommitmentIds, p \in Principals, collateral \in Collaterals, rate \in Rates,
       duration \in Durations :
        AcceptCommitment(caller, sender, id, p, collateral, rate, duration)

\* Every call of the forwarder is one of these, in the name of the caller or of
\* an account that the caller is an extension of.
LEMMA ForwarderForm ==
    ASSUME IInv, ForwarderStep
    PROVE  \E caller \in Callers, sender \in Callers :
              /\ sender = caller \/ HasExtension(sender, caller)
              /\ Extending(caller, sender) \/ Offering(sender) \/ Accepting(caller, sender)
  <1>1. PICK caller \in Callers : \E sender \in {MsgSender(caller, named) : named \in Callers} :
          \/ \E extension \in Extensions :
                AddExtension(caller, sender, extension) \/ RevokeExtension(sender, extension)
          \/ \E c \in Offers, guests \in Guests : CreateCommitment(sender, c, guests)
          \/ \E id \in CommitmentIds :
                \/ \E c \in Offers : UpdateCommitment(sender, id, c)
                \/ \E guests \in Guests \ {{}} : \/ AddCommitmentBorrowers(sender, id, guests)
                                                 \/ RemoveCommitmentBorrowers(sender, id, guests)
                \/ DeleteCommitment(sender, id)
                \/ \E p \in Principals, collateral \in Collaterals, rate \in Rates,
                      duration \in Durations :
                      AcceptCommitment(caller, sender, id, p, collateral, rate, duration)
    BY Zenon DEF ForwarderStep
  <1>2. PICK sender \in {MsgSender(caller, named) : named \in Callers} :
          \/ Extending(caller, sender)
          \/ \E c \in Offers, guests \in Guests : CreateCommitment(sender, c, guests)
          \/ \E id \in CommitmentIds :
                \/ \E c \in Offers : UpdateCommitment(sender, id, c)
                \/ \E guests \in Guests \ {{}} : \/ AddCommitmentBorrowers(sender, id, guests)
                                                 \/ RemoveCommitmentBorrowers(sender, id, guests)
                \/ DeleteCommitment(sender, id)
          \/ Accepting(caller, sender)
    BY <1>1, Zenon DEF Extending, Accepting
  <1>3. sender \in Callers /\ (sender = caller \/ HasExtension(sender, caller))
    BY SenderForm
  <1>4. ASSUME NEW id \in CommitmentIds, NEW guests \in Guests,
               \/ AddCommitmentBorrowers(sender, id, guests)
               \/ RemoveCommitmentBorrowers(sender, id, guests)
        PROVE  Offering(sender)
    <2>1. guests \in SUBSET Accounts /\ commitmentBorrowersList[id] \in SUBSET Accounts
      BY ForwarderAssumption DEF IInv, TypeOK
    <2> QED
      BY <1>4, <2>1 DEF AddCommitmentBorrowers, RemoveCommitmentBorrowers, Offering
  <1>5. Extending(caller, sender) \/ Offering(sender) \/ Accepting(caller, sender)
    BY <1>2, <1>4 DEF Offering
  <1> QED
    BY <1>3, <1>5

-----------------------------------------------------------------------------
(* Every step keeps the types *)

LEMMA ApprovalType ==
    ASSUME IInv, ApprovalStep
    PROVE  TypeOK'
  <1>1. PICK acct \in Accounts, m \in Markets :
           \/ \E f \in Candidates : SetTrustedMarketForwarder(acct, m, f)
           \/ ApproveMarketForwarder(acct, m, Self)
           \/ RenounceMarketForwarder(acct, m, Self)
    BY DEF ApprovalStep
  <1>2. ContextTypeOK /\ Self \in Forwarders /\ Candidates \subseteq Forwarders \cup {NoAccount}
    BY ForwarderAssumption DEF IInv, TypeOK
  <1>3. ContextTypeOK'
    <2>1. ASSUME NEW f \in Candidates, SetTrustedMarketForwarder(acct, m, f) PROVE ContextTypeOK'
      BY <1>2, <2>1 DEF SetTrustedMarketForwarder, ContextTypeOK
    <2>2. CASE ApproveMarketForwarder(acct, m, Self)
      BY <1>2, <2>2 DEF ApproveMarketForwarder, ContextTypeOK
    <2>3. CASE RenounceMarketForwarder(acct, m, Self)
      BY <1>2, <2>3 DEF RenounceMarketForwarder, ContextTypeOK
    <2> QED
      BY <1>1, <2>1, <2>2, <2>3
  <1> QED
    BY <1>3 DEF ApprovalStep, commitmentVars, IInv, TypeOK

LEMMA ExtensionType ==
    ASSUME IInv, NEW caller \in Callers, NEW sender \in Callers, Extending(caller, sender)
    PROVE  TypeOK'
  BY DEF Extending, AddExtension, RevokeExtension, contextVars, commitmentVars, IInv, TypeOK,
     ContextTypeOK

LEMMA OfferType ==
    ASSUME IInv, NEW sender \in Callers, Offering(sender)
    PROVE  TypeOK'
  <1>1. NoCommitment \in Commitment /\ Offers \subseteq Commitment
    BY ForwarderAssumption DEF NoCommitment, Commitment, CommitmentCollateralType
  <1>2. \A id \in CommitmentIds : commitments[id].lender = sender => id < commitmentCount
    BY NobodyCalls DEF IInv, TypeOK, CommitmentIds, NoCommitment
  <1>3. ContextTypeOK'
    BY DEF Offering, CreateCommitment, UpdateCommitment, SetBorrowers, DeleteCommitment, contextVars,
       IInv, TypeOK, ContextTypeOK
  <1>4. ASSUME NEW c \in Offers, NEW guests \in Guests, CreateCommitment(sender, c, guests)
        PROVE  TypeOK'
    BY <1>1, <1>3, <1>4, ForwarderAssumption DEF CreateCommitment, IInv, TypeOK, CommitmentIds
  <1>5. ASSUME NEW id \in CommitmentIds, NEW c \in Offers, UpdateCommitment(sender, id, c)
        PROVE  TypeOK'
    BY <1>1, <1>2, <1>3, <1>5 DEF UpdateCommitment, IInv, TypeOK, CommitmentIds
  <1>6. ASSUME NEW id \in CommitmentIds, NEW borrowers \in SUBSET Accounts,
               SetBorrowers(sender, id, borrowers)
        PROVE  TypeOK'
    BY <1>2, <1>3, <1>6 DEF SetBorrowers, IInv, TypeOK, CommitmentIds
  <1>7. ASSUME NEW id \in CommitmentIds, DeleteCommitment(sender, id)
        PROVE  TypeOK'
    BY <1>1, <1>2, <1>3, <1>7 DEF DeleteCommitment, IInv, TypeOK, CommitmentIds
  <1> QED
    BY <1>4, <1>5, <1>6, <1>7 DEF Offering

\* What acceptCommitment makes of the loans: one more, with terms of these types,
\* between accounts that approved the forwarder.
LEMMA LoanMade ==
    ASSUME IInv, NEW caller \in Callers, NEW borrower \in Callers, NEW id \in CommitmentIds,
           NEW p \in Principals, NEW collateral \in Collaterals, NEW rate \in Rates,
           NEW duration \in Durations,
           AcceptCommitment(caller, borrower, id, p, collateral, rate, duration)
    PROVE  \E loan \in LoanType :
              /\ loans' = Append(loans, loan)
              /\ loan.commitment = id /\ loan.principal = p
              /\ loan.borrower = borrower /\ loan.caller = caller
              /\ loan.collateral = IF commitments[id].type = "NONE"
                                   THEN [collateral EXCEPT !.amount = 0] ELSE collateral
              /\ \E m \in Markets : <<loan.borrower, m>> \in approvals
              /\ \E m \in Markets : <<loan.lender, m>> \in approvals
  <1> DEFINE c == commitments[id]
             pledge == IF c.type = "NONE" THEN [collateral EXCEPT !.amount = 0] ELSE collateral
             loan == [commitment |-> id, borrower |-> borrower, lender |-> c.lender,
                      caller |-> caller, marketId |-> c.marketId, principal |-> p, rate |-> rate,
                      duration |-> duration, collateral |-> pledge]
  <1>1. /\ loans' = Append(loans, loan)
        /\ IsTrustedMarketForwarder(c.marketId, Self)
        /\ SpeaksForMarket(c.marketId, Self, borrower, borrower)
        /\ SpeaksForMarket(c.marketId, Self, c.lender, c.lender)
        /\ ValidateCommitment(c)
    BY DEF AcceptCommitment, Lend, TermsAccepted
  <1>2. c.marketId \in Markets
    BY <1>1, AcceptedStands
  <1>3. borrower \in Accounts /\ \E m \in Markets : <<borrower, m>> \in approvals
    BY <1>1, <1>2, Approved
  <1>4. c.lender \in Accounts /\ \E m \in Markets : <<c.lender, m>> \in approvals
    BY <1>1, <1>2, Approved
  <1>5. /\ p \in Nat /\ rate \in Nat /\ duration \in Nat
        /\ collateral \in [asset : Nat, tokenId : Nat, amount : Nat]
    BY ForwarderAssumption
  <1>6. pledge \in [asset : Nat, tokenId : Nat, amount : Nat]
    BY <1>5
  <1>7. loan \in LoanType
    BY <1>2, <1>3, <1>4, <1>5, <1>6 DEF LoanType
  <1> QED
    BY <1>1, <1>3, <1>4, <1>7

LEMMA AcceptType ==
    ASSUME IInv, NEW caller \in Callers, NEW borrower \in Callers, Accepting(caller, borrower)
    PROVE  TypeOK'
  <1>1. PICK id \in CommitmentIds, p \in Principals, collateral \in Collaterals, rate \in Rates,
             duration \in Durations :
             AcceptCommitment(caller, borrower, id, p, collateral, rate, duration)
    BY DEF Accepting
  <1>2. loans' \in Seq(LoanType)
    <2>1. PICK loan \in LoanType : loans' = Append(loans, loan)
      BY <1>1, LoanMade
    <2> QED
      BY <2>1 DEF IInv, TypeOK
  <1>3. commitmentPrincipalAccepted' \in [CommitmentIds -> Nat]
    BY <1>1, ForwarderAssumption DEF AcceptCommitment, CountAccepted, IInv, TypeOK
  <1> QED
    BY <1>1, <1>2, <1>3 DEF AcceptCommitment, contextVars, IInv, TypeOK, ContextTypeOK

\* Whatever is called and whoever calls it.
LEMMA StepType ==
    ASSUME IInv, [Next]_vars
    PROVE  TypeOK'
  <1>1. CASE ForwarderStep
    BY <1>1, ForwarderForm, ExtensionType, OfferType, AcceptType
  <1>2. CASE Tick \/ UNCHANGED vars
    BY <1>2 DEF Tick, vars, contextVars, commitmentVars, IInv, TypeOK, ContextTypeOK
  <1> QED
    BY <1>1, <1>2, ApprovalType DEF Next

-----------------------------------------------------------------------------
(* Nobody is bound unasked *)

\* A commitment that appears in storage is one of the offers.
LEMMA StepNamesMarkets ==
    ASSUME IInv, [Next]_vars
    PROVE  CommitmentsNameMarkets'
  <1>1. ASSUME NEW id \in CommitmentIds
        PROVE  commitments'[id] \in {commitments[id], NoCommitment} \cup Offers
    <2>1. CASE ForwarderStep
      <3>1. ASSUME NEW sender, Offering(sender)
            PROVE  commitments'[id] \in {commitments[id], NoCommitment} \cup Offers
        BY <3>1 DEF Offering, CreateCommitment, UpdateCommitment, SetBorrowers, DeleteCommitment,
           IInv, TypeOK
      <3>2. ASSUME NEW caller, NEW sender, Extending(caller, sender) \/ Accepting(caller, sender)
            PROVE  commitments' = commitments
        BY <3>2 DEF Extending, AddExtension, RevokeExtension, commitmentVars, Accepting,
           AcceptCommitment
      <3> QED
        BY <2>1, <3>1, <3>2, ForwarderForm
    <2>2. CASE ApprovalStep \/ Tick \/ UNCHANGED vars
      BY <2>2 DEF ApprovalStep, Tick, vars, commitmentVars
    <2> QED
      BY <2>1, <2>2 DEF Next
  <1> QED
    BY <1>1, ForwarderAssumption DEF CommitmentsNameMarkets, IInv

\* The history is only added to.
LEMMA HistoryGrows ==
    ASSUME [Next]_vars
    PROVE  approvals \subseteq approvals' /\ delegators \subseteq delegators'
  <1>1. CASE ForwarderStep
    BY <1>1 DEF ForwarderStep, AddExtension, RevokeExtension, CreateCommitment, UpdateCommitment,
       AddCommitmentBorrowers, RemoveCommitmentBorrowers, SetBorrowers, DeleteCommitment,
       AcceptCommitment, historyVars
  <1> QED
    BY <1>1 DEF Next, ApprovalStep, Tick, vars, historyVars

LEMMA StepApprovals ==
    ASSUME IInv, [Next]_vars
    PROVE  ApprovalsRemembered'
  <1>1. CASE ApprovalStep
    <2>1. PICK acct \in Accounts, m \in Markets :
             \/ \E f \in Candidates : SetTrustedMarketForwarder(acct, m, f) /\ UNCHANGED approvals
             \/ /\ ApproveMarketForwarder(acct, m, Self)
                /\ approvals' = approvals \cup {<<acct, m>>}
             \/ RenounceMarketForwarder(acct, m, Self) /\ UNCHANGED approvals
      BY <1>1 DEF ApprovalStep
    <2>2. approvedForwarderSenders \in [Forwarders -> SUBSET Accounts] /\ Self \in Forwarders
      BY ForwarderAssumption DEF IInv, TypeOK, ContextTypeOK
    <2>3. ASSUME NEW other \in approvedForwarderSenders'[Self]
          PROVE  \/ other \in approvedForwarderSenders[Self] /\ approvals \subseteq approvals'
                 \/ <<other, m>> \in approvals'
      BY <2>1, <2>2 DEF SetTrustedMarketForwarder, ApproveMarketForwarder, RenounceMarketForwarder
    <2> QED
      BY <2>3 DEF ApprovalsRemembered, IInv
  <1>2. CASE ForwarderStep \/ Tick \/ UNCHANGED vars
    <2>1. approvedForwarderSenders' = approvedForwarderSenders
      BY <1>2 DEF ForwarderStep, AddExtension, RevokeExtension, CreateCommitment, UpdateCommitment,
         AddCommitmentBorrowers, RemoveCommitmentBorrowers, SetBorrowers, DeleteCommitment,
         AcceptCommitment, contextVars, Tick, vars
    <2> QED
      BY <2>1, HistoryGrows DEF ApprovalsRemembered, IInv
  <1> QED
    BY <1>1, <1>2 DEF Next

LEMMA StepExtensions ==
    ASSUME IInv, [Next]_vars
    PROVE  ExtensionsAdded'
  <1>1. CASE ForwarderStep
    <2>1. PICK caller \in Callers, sender \in Callers :
              /\ sender = caller \/ HasExtension(sender, caller)
              /\ Extending(caller, sender) \/ Offering(sender) \/ Accepting(caller, sender)
      BY <1>1, ForwarderForm
    <2>2. CASE Extending(caller, sender)
      <3>1. userExtensions \in [Callers -> SUBSET Extensions]
        BY DEF IInv, TypeOK
      <3>2. HasExtension(sender, caller) => sender \in delegators
        BY DEF HasExtension, IInv, ExtensionsAdded
      <3>3. ASSUME NEW acct \in Callers, userExtensions'[acct] # {}
            PROVE  acct \in delegators'
        BY <2>1, <2>2, <3>1, <3>2, <3>3 DEF Extending, AddExtension, RevokeExtension, historyVars,
           IInv, ExtensionsAdded
      <3> QED
        BY <3>3 DEF ExtensionsAdded
    <2>3. CASE Offering(sender) \/ Accepting(caller, sender)
      BY <2>3 DEF Offering, CreateCommitment, UpdateCommitment, SetBorrowers, DeleteCommitment,
         Accepting, AcceptCommitment, historyVars, IInv, ExtensionsAdded
    <2> QED
      BY <2>1, <2>2, <2>3
  <1>2. CASE ApprovalStep \/ Tick \/ UNCHANGED vars
    BY <1>2 DEF ApprovalStep, Tick, vars, historyVars, IInv, ExtensionsAdded
  <1> QED
    BY <1>1, <1>2 DEF Next

LEMMA StepBound ==
    ASSUME IInv, [Next]_vars
    PROVE  NobodyBoundUnasked'
  <1> DEFINE Asked(loan) ==
          /\ \A acct \in {loan.lender, loan.borrower} : \E m \in Markets : <<acct, m>> \in approvals
          /\ loan.caller # loan.borrower => loan.borrower \in delegators
  <1>1. \A i \in DOMAIN loans' :
           \/ i \in DOMAIN loans /\ loans'[i] = loans[i]
           \/ Asked(loans'[i])
    <2>1. CASE ForwarderStep
      <3>1. PICK caller \in Callers, sender \in Callers :
                /\ sender = caller \/ HasExtension(sender, caller)
                /\ Extending(caller, sender) \/ Offering(sender) \/ Accepting(caller, sender)
        BY <2>1, ForwarderForm
      <3>2. CASE Accepting(caller, sender)
        <4>1. PICK id \in CommitmentIds, p \in Principals, collateral \in Collaterals,
                   rate \in Rates, duration \in Durations :
                   AcceptCommitment(caller, sender, id, p, collateral, rate, duration)
          BY <3>2 DEF Accepting
        <4>2. PICK loan \in LoanType :
                 /\ loans' = Append(loans, loan)
                 /\ loan.commitment = id /\ loan.principal = p
                 /\ loan.borrower = sender /\ loan.caller = caller
                 /\ loan.collateral = IF commitments[id].type = "NONE"
                                      THEN [collateral EXCEPT !.amount = 0] ELSE collateral
                 /\ \E m \in Markets : <<loan.borrower, m>> \in approvals
                 /\ \E m \in Markets : <<loan.lender, m>> \in approvals
          BY <4>1, LoanMade
        <4>3. HasExtension(sender, caller) => sender \in delegators
          BY DEF HasExtension, IInv, ExtensionsAdded
        <4>4. Asked(loan)
          BY <3>1, <4>2, <4>3
        <4>5. loans \in Seq(LoanType)
          BY DEF IInv, TypeOK
        <4> HIDE DEF Asked
        <4> QED
          BY <4>2, <4>4, <4>5
      <3>3. CASE Extending(caller, sender) \/ Offering(sender)
        BY <3>3 DEF Extending, AddExtension, RevokeExtension, Offering, CreateCommitment,
           UpdateCommitment, SetBorrowers, DeleteCommitment
      <3> QED
        BY <3>1, <3>2, <3>3
    <2>2. CASE ApprovalStep \/ Tick \/ UNCHANGED vars
      BY <2>2 DEF ApprovalStep, Tick, vars
    <2> QED
      BY <2>1, <2>2 DEF Next
  <1>2. \A i \in DOMAIN loans' : Asked(loans'[i])
    BY <1>1 DEF IInv, NobodyBoundUnasked
  <1> QED
    BY <1>2, HistoryGrows DEF NobodyBoundUnasked

LEMMA Invariance == Spec => []IInv
  <1>1. IInv /\ [Next]_vars => IInv'
    BY StepType, StepNamesMarkets, StepApprovals, StepExtensions, StepBound DEF IInv
  <1> QED
    BY <1>1, InitInv, PTL DEF Spec

\* The forwarder's storage keeps to its types: an id that was not handed out yet
\* has nothing in storage, and the loans made in somebody's name are between
\* accounts that exist, in markets that exist.
THEOREM TypeCorrect == Spec => []TypeOK
  BY Invariance, PTL DEF IInv

\* Nobody is bound by a loan without having agreed to the forwarder, whichever
\* contracts were added as extensions and whoever called them (_msgSender,
\* _msgSenderForMarket).
THEOREM NobodyBound == Spec => []NobodyBoundUnasked
  BY Invariance, PTL DEF IInv

-----------------------------------------------------------------------------
(* Each loan is covered *)

LEMMA Quotient ==
    ASSUME NEW n \in Nat, NEW d \in Nat \ {0}
    PROVE  /\ (n + d - 1) \div d \in Int
           /\ ((n + d - 1) \div d) * d >= n
  <1>1. n + d - 1 \in Int
    OBVIOUS
  <1>2. \A m \in Int : m \div d \in Int /\ (m \div d) * d > m - d
    OBVIOUS
  <1> QED
    BY <1>1, <1>2

LEMMA TimesMonotone == \A a \in Int, b \in Int, d \in Nat : a >= b => a * d >= b * d
  OBVIOUS

\* As much as mulDiv rounded up is enough.
LEMMA MulDivUpEnough ==
    ASSUME NEW x \in Nat, NEW y \in Nat, NEW d \in Nat \ {0}, NEW a \in Nat,
           a >= MulDivUp(x, y, d)
    PROVE  a * d >= x * y
  <1> DEFINE n == x * y
             q == (n + d - 1) \div d
  <1>1. n \in Nat
    OBVIOUS
  <1>2. q = MulDivUp(x, y, d)
    BY DEF MulDivUp
  <1> HIDE DEF n
  <1>3. q \in Int /\ q * d >= n
    BY <1>1, Quotient
  <1>4. a >= q
    BY <1>2
  <1> HIDE DEF q
  <1>5. a * d >= q * d
    BY <1>3, <1>4, TimesMonotone
  <1>6. a * d >= n
    BY <1>1, <1>3, <1>5
  <1> QED
    BY <1>6 DEF n

LEMMA StepCovered ==
    ASSUME IInv, [Next]_vars, loans' # loans,
           NEW c, c = commitments[NewLoan.commitment],
           NEW units, units = (IF c.type = "ERC20" THEN CollateralUnit ELSE 1),
           c.type # "NONE"
    PROVE  /\ NewLoan.collateral.asset = c.asset
           /\ c.type = "ERC721_MERKLE_PROOF" => NewLoan.collateral.tokenId \in Leaves[c.tokenId]
           /\ NewLoan.collateral.amount * c.maxPrincipalPerCollateralAmount >=
                 NewLoan.principal * TokenUnit * units
  <1>1. \E caller \in Callers, sender \in Callers : Accepting(caller, sender)
    <2>1. ForwarderStep
      BY DEF Next, ApprovalStep, Tick, vars
    <2> QED
      BY <2>1, ForwarderForm DEF Extending, AddExtension, RevokeExtension, Offering,
         CreateCommitment, UpdateCommitment, SetBorrowers, DeleteCommitment
  <1>2. PICK caller \in Callers, sender \in Callers, id \in CommitmentIds, p \in Principals,
             collateral \in Collaterals, rate \in Rates, duration \in Durations :
             AcceptCommitment(caller, sender, id, p, collateral, rate, duration)
    BY <1>1 DEF Accepting
  <1>3. PICK loan \in LoanType :
           /\ loans' = Append(loans, loan)
           /\ loan.commitment = id /\ loan.principal = p
           /\ loan.borrower = sender /\ loan.caller = caller
           /\ loan.collateral = IF commitments[id].type = "NONE"
                                THEN [collateral EXCEPT !.amount = 0] ELSE collateral
    BY <1>2, LoanMade
  <1>4. NewLoan = loan
    BY <1>3 DEF NewLoan, IInv, TypeOK
  <1>5. c = commitments[id] /\ NewLoan.collateral = collateral /\ NewLoan.principal = p
    BY <1>3, <1>4
  <1>6. TermsAccepted(c, p, collateral, rate, duration)
    BY <1>2, <1>5 DEF AcceptCommitment
  <1>7. collateral.asset = c.asset
    BY <1>6 DEF TermsAccepted
  <1>8. c.type = "ERC721_MERKLE_PROOF" => collateral.tokenId \in Leaves[c.tokenId]
    BY <1>6 DEF TermsAccepted, TokenIdAllowed, MerkleTypes
  <1>9. collateral.amount * c.maxPrincipalPerCollateralAmount >= p * TokenUnit * units
    <2>1. /\ p \in Nat /\ TokenUnit \in Nat /\ units \in Nat /\ collateral.amount \in Nat
      BY ForwarderAssumption
    <2>2. c.maxPrincipalPerCollateralAmount \in Nat \ {0}
      <3>1. c \in Commitment
        BY <1>5 DEF IInv, TypeOK
      <3>2. c.maxPrincipalPerCollateralAmount > 0
        BY <1>6 DEF TermsAccepted, ValidateCommitment
      <3> QED
        BY <3>1, <3>2 DEF Commitment
    <2>3. collateral.amount >= MulDivUp(p, TokenUnit * units, c.maxPrincipalPerCollateralAmount)
      BY <1>6 DEF TermsAccepted, GetRequiredCollateral
    <2>4. TokenUnit * units \in Nat
      BY <2>1
    <2>5. collateral.amount * c.maxPrincipalPerCollateralAmount >= p * (TokenUnit * units)
      BY <2>1, <2>2, <2>3, <2>4, MulDivUpEnough
    <2>6. p * (TokenUnit * units) = p * TokenUnit * units
      BY <2>1
    <2> QED
      BY <2>5, <2>6
  <1> QED
    BY <1>5, <1>7, <1>8, <1>9

\* What _acceptCommitment demands is worth the principal at the lender's rate, in
\* the units of both tokens, for every amount and any number of decimals: rounding
\* up leaves no loan below it.
THEOREM LoansCovered == Spec => LoanCoveredByCollateral
  <1> DEFINE Covered ==
        loans' # loans =>
            LET c == commitments[NewLoan.commitment]
                units == IF c.type = "ERC20" THEN CollateralUnit ELSE 1
            IN  c.type # "NONE" =>
                  /\ NewLoan.collateral.asset = c.asset
                  /\ c.type = "ERC721_MERKLE_PROOF" =>
                        NewLoan.collateral.tokenId \in Leaves[c.tokenId]
                  /\ NewLoan.collateral.amount * c.maxPrincipalPerCollateralAmount >=
                        NewLoan.principal * TokenUnit * units
  <1>1. IInv /\ [Next]_vars => Covered
    <2> SUFFICES ASSUME IInv, [Next]_vars PROVE Covered
      OBVIOUS
    <2> QED
      BY StepCovered
  <1> QED
    BY <1>1, Invariance, PTL DEF Spec, LoanCoveredByCollateral

-----------------------------------------------------------------------------
(* What was lent under a commitment *)

\* The principal of each loan, if it was made under the commitment.
Shares(id, ls) == [i \in DOMAIN ls |-> IF ls[i].commitment = id THEN ls[i].principal ELSE 0]

LentOf(id, ls) == Total(Shares(id, ls), DOMAIN ls)

\* g is the function that FoldLeft chooses to add up the loans.
IsLent(g, id, ls) ==
    g = [s \in SUBSET DOMAIN ls |->
            IF s = {} THEN 0
            ELSE g[s \ {Max(s)}] + IF ls[Max(s)].commitment = id THEN ls[Max(s)].principal ELSE 0]

LEMMA LentDef == \A id : LentUnder(id) = (CHOOSE g : IsLent(g, id, loans))[DOMAIN loans]
  BY DEF LentUnder, FoldLeft, MapThenFoldSet, IsLent

LEMMA SharesType ==
    ASSUME NEW ls \in Seq(LoanType), NEW id
    PROVE  /\ IsFiniteSet(DOMAIN ls) /\ \A i \in DOMAIN ls : i \in Nat
           /\ \A i \in DOMAIN ls : Shares(id, ls)[i] \in Nat
           /\ Shares(id, ls) \in [DOMAIN ls -> Int]
  <1>1. DOMAIN ls = 1 .. Len(ls) /\ Len(ls) \in Nat
    OBVIOUS
  <1>2. \A i \in DOMAIN ls : ls[i] \in LoanType
    OBVIOUS
  <1>3. IsFiniteSet(DOMAIN ls)
    BY <1>1, IntervalFinite
  <1> QED
    BY <1>1, <1>2, <1>3 DEF Shares, LoanType

LEMMA LentUnderForm ==
    ASSUME loans \in Seq(LoanType), NEW id
    PROVE  LentUnder(id) = LentOf(id, loans)
  <1> DEFINE S == DOMAIN loans
             f == Shares(id, loans)
             g == CHOOSE g : IsLent(g, id, loans)
  <1>1. /\ IsFiniteSet(S) /\ \A i \in S : i \in Nat
        /\ \A i \in S : f[i] \in Int
    BY SharesType
  <1>2. ASSUME NEW h PROVE IsLent(h, id, loans) <=> IsFold(f, h, S)
    <2>1. \A s \in SUBSET S : s # {} =>
             f[Max(s)] = IF loans[Max(s)].commitment = id THEN loans[Max(s)].principal ELSE 0
      <3>1. \A s \in SUBSET S : s # {} => Max(s) \in S
        BY <1>1, FS_Subset, MaxIn
      <3> QED
        BY <3>1 DEF Shares
    <2> QED
      BY <2>1 DEF IsLent, IsFold
  <1>3. \E h : IsFold(f, h, S)
    BY <1>1, FoldExists
  <1>4. IsLent(g, id, loans)
    BY <1>2, <1>3
  <1>5. IsFold(f, g, S)
    BY <1>2, <1>4
  <1>6. LentUnder(id) = g[S]
    BY LentDef
  <1> HIDE DEF g, f, S
  <1>7. g[S] = Total(f, S)
    BY <1>1, <1>5, FoldIsTotal
  <1> QED
    BY <1>6, <1>7 DEF LentOf, f, S

\* One more loan adds its principal to what was lent under its commitment.
LEMMA LentAppend ==
    ASSUME NEW ls \in Seq(LoanType), NEW loan \in LoanType, NEW id
    PROVE  LentOf(id, Append(ls, loan)) =
              LentOf(id, ls) + IF loan.commitment = id THEN loan.principal ELSE 0
  <1> DEFINE n == Len(ls)
             more == Append(ls, loan)
             f == Shares(id, ls)
             g == Shares(id, more)
  <1>1. /\ n \in Nat /\ DOMAIN ls = 1 .. n /\ DOMAIN more = 1 .. n + 1
        /\ more \in Seq(LoanType)
    OBVIOUS
  <1>2. /\ \A i \in 1 .. n : g[i] = f[i]
        /\ g[n + 1] = IF loan.commitment = id THEN loan.principal ELSE 0
    BY <1>1 DEF Shares
  <1>3. /\ IsFiniteSet(1 .. n) /\ IsFiniteSet(1 .. n + 1)
        /\ \A i \in 1 .. n + 1 : g[i] \in Int
        /\ \A i \in 1 .. n : f[i] \in Int
    BY <1>1, SharesType
  <1> DEFINE old == 1 .. n
             all == 1 .. n + 1
  <1>4. all \ {n + 1} = old /\ n + 1 \in all
    BY <1>1
  <1>5. LentOf(id, ls) = Total(f, old) /\ LentOf(id, more) = Total(g, all)
    BY <1>1 DEF LentOf
  <1>6. /\ IsFiniteSet(old) /\ IsFiniteSet(all)
        /\ \A i \in all : g[i] \in Int
        /\ \A i \in old : f[i] \in Int /\ g[i] = f[i]
    BY <1>2, <1>3
  <1> HIDE DEF f, g, more, old, all
  <1>7. Total(g, all) = g[n + 1] + Total(g, old)
    BY <1>4, <1>6, TotalTakeOut
  <1>8. Total(g, old) = Total(f, old)
    BY <1>6, TotalSame
  <1>9. Total(f, old) \in Int /\ g[n + 1] \in Int
    BY <1>4, <1>6, TotalType
  <1>10. Total(g, all) = Total(f, old) + g[n + 1]
    BY <1>7, <1>8, <1>9
  <1> QED
    BY <1>2, <1>5, <1>10 DEF more

\* The forwarder's own count is what was lent.
CountedRight ==
    \A id \in CommitmentIds : commitmentPrincipalAccepted[id] = LentOf(id, loans)

LEMMA InitCounted == Init => CountedRight
  <1> SUFFICES ASSUME Init, NEW id \in CommitmentIds PROVE LentOf(id, loans) = 0
    BY DEF Init, CountedRight
  <1>1. IsFiniteSet(DOMAIN loans) /\ \A i \in DOMAIN loans : Shares(id, loans)[i] = 0
    <2>1. loans = << >> /\ DOMAIN loans = {}
      BY DEF Init
    <2>2. IsFiniteSet(DOMAIN loans)
      BY <2>1, FS_EmptySet
    <2> QED
      BY <2>1, <2>2
  <1> QED
    BY <1>1, TotalZero DEF LentOf

LEMMA StepCounted ==
    ASSUME IInv, CountedRight, [Next]_vars
    PROVE  CountedRight'
  <1>1. CASE \E caller \in Callers, sender \in Callers : Accepting(caller, sender)
    <2>1. PICK caller \in Callers, sender \in Callers, id \in CommitmentIds, p \in Principals,
               collateral \in Collaterals, rate \in Rates, duration \in Durations :
               AcceptCommitment(caller, sender, id, p, collateral, rate, duration)
      BY <1>1 DEF Accepting
    <2>2. PICK loan \in LoanType :
             /\ loans' = Append(loans, loan)
             /\ loan.commitment = id /\ loan.principal = p
             /\ loan.borrower = sender /\ loan.caller = caller
             /\ loan.collateral = IF commitments[id].type = "NONE"
                                  THEN [collateral EXCEPT !.amount = 0] ELSE collateral
      BY <2>1, LoanMade
    <2>3. loans \in Seq(LoanType) /\ commitmentPrincipalAccepted \in [CommitmentIds -> Nat]
      BY DEF IInv, TypeOK
    <2>4. commitmentPrincipalAccepted' = [commitmentPrincipalAccepted EXCEPT ![id] = @ + p]
      BY <2>1 DEF AcceptCommitment, CountAccepted
    <2>5. ASSUME NEW other \in CommitmentIds
          PROVE  commitmentPrincipalAccepted'[other] = LentOf(other, loans')
      <3>1. LentOf(other, Append(loans, loan)) =
               LentOf(other, loans) + IF loan.commitment = other THEN loan.principal ELSE 0
        BY <2>3, LentAppend
      <3>2. commitmentPrincipalAccepted[other] = LentOf(other, loans)
        BY DEF CountedRight
      <3>3. commitmentPrincipalAccepted'[other] =
               commitmentPrincipalAccepted[other] + IF id = other THEN p ELSE 0
        BY <2>3, <2>4
      <3> QED
        BY <2>2, <3>1, <3>2, <3>3
    <2> QED
      BY <2>5 DEF CountedRight
  <1>2. CASE ~\E caller \in Callers, sender \in Callers : Accepting(caller, sender)
    <2>1. UNCHANGED <<loans, commitmentPrincipalAccepted>>
      <3>1. CASE ForwarderStep
        BY <1>2, <3>1, ForwarderForm DEF Extending, AddExtension, RevokeExtension, Offering,
           CreateCommitment, UpdateCommitment, SetBorrowers, DeleteCommitment, commitmentVars
      <3> QED
        BY <3>1 DEF Next, ApprovalStep, Tick, vars, commitmentVars
    <2> QED
      BY <2>1 DEF CountedRight
  <1> QED
    BY <1>1, <1>2

-----------------------------------------------------------------------------
(* Commitments are credit lines *)

\* What the abstract specification sees of a commitment, by the names it has there.
Standing(id) ==
    IF id >= commitmentCount THEN "unused"
    ELSE IF commitments[id] = NoCommitment THEN "withdrawn" ELSE "open"
DrawnOnCounted == \A id \in CommitmentIds : LentUnder(id) = commitmentPrincipalAccepted[id]

LEMMA Agreed == IInv /\ CountedRight => DrawnOnCounted
  <1> SUFFICES ASSUME IInv, CountedRight, NEW id \in CommitmentIds
               PROVE  LentUnder(id) = commitmentPrincipalAccepted[id]
    BY DEF DrawnOnCounted
  <1>1. LentUnder(id) = LentOf(id, loans)
    BY LentUnderForm DEF IInv, TypeOK
  <1> QED
    BY <1>1 DEF CountedRight

LEMMA StandingMoves ==
    ASSUME NEW id \in CommitmentIds, NEW st, Standing(id)' = st,
           \A other \in CommitmentIds \ {id} : Standing(other)' = Standing(other)
    PROVE  [other \in CommitmentIds |-> Standing(other)]'
              = [[other \in CommitmentIds |-> Standing(other)] EXCEPT ![id] = st]
  OBVIOUS

\* An offer replaced, or withdrawn, changes the limit of one line.
LEMMA LimitMoves ==
    ASSUME IInv, NEW id \in CommitmentIds, NEW c,
           commitments' = [commitments EXCEPT ![id] = c]
    PROVE  /\ commitments'[id] = c
           /\ [other \in CommitmentIds |-> commitments[other].maxPrincipal]'
                = [[other \in CommitmentIds |-> commitments[other].maxPrincipal]
                      EXCEPT ![id] = c.maxPrincipal]
  BY DEF IInv, TypeOK

LEMMA DrawnKept ==
    ASSUME DrawnOnCounted, DrawnOnCounted',
           commitmentPrincipalAccepted' = commitmentPrincipalAccepted
    PROVE  UNCHANGED [id \in CommitmentIds |-> LentUnder(id)]
  BY DEF DrawnOnCounted

\* A new offer, or another in its place, opens the line or sets its limit.
LEMMA CommitMaps ==
    ASSUME IInv, DrawnOnCounted, DrawnOnCounted', NEW id \in CommitmentIds, NEW c \in Commitment,
           ValidateCommitment(c), commitments' = [commitments EXCEPT ![id] = c],
           Standing(id) # "withdrawn", Standing(id)' = "open",
           \A other \in CommitmentIds \ {id} : Standing(other)' = Standing(other),
           commitmentPrincipalAccepted' = commitmentPrincipalAccepted
    PROVE  Line!Commit(id)
  <1>1. c.maxPrincipal \in Nat \ {0}
    BY DEF ValidateCommitment, Commitment
  <1>2. commitments'[id].maxPrincipal = c.maxPrincipal
    BY LimitMoves
  <1>3. /\ [other \in CommitmentIds |-> Standing(other)]'
              = [[other \in CommitmentIds |-> Standing(other)] EXCEPT ![id] = "open"]
        /\ [other \in CommitmentIds |-> commitments[other].maxPrincipal]'
              = [[other \in CommitmentIds |-> commitments[other].maxPrincipal]
                      EXCEPT ![id] = c.maxPrincipal]
        /\ UNCHANGED [other \in CommitmentIds |-> LentUnder(other)]
    BY StandingMoves, LimitMoves, DrawnKept
  <1> QED
    BY <1>1, <1>2, <1>3 DEF Line!Commit, Standing

\* deleteCommitment withdraws the line.
LEMMA DeleteMaps ==
    ASSUME IInv, DrawnOnCounted, DrawnOnCounted', NEW id \in CommitmentIds, NEW sender \in Callers,
           DeleteCommitment(sender, id)
    PROVE  Line!Withdraw(id)
  <1>1. commitments' = [commitments EXCEPT ![id] = NoCommitment]
        /\ UNCHANGED <<commitmentCount, commitmentPrincipalAccepted>>
    BY DEF DeleteCommitment
  <1>2. commitments[id] # NoCommitment /\ id < commitmentCount
    BY NobodyCalls DEF DeleteCommitment, IInv, TypeOK, CommitmentIds, NoCommitment
  <1>3. Standing(id) = "open" /\ Standing(id)' = "withdrawn"
    BY <1>1, <1>2, LimitMoves DEF Standing, IInv, TypeOK, CommitmentIds
  <1>4. \A other \in CommitmentIds \ {id} : Standing(other)' = Standing(other)
    BY <1>1 DEF Standing, IInv, TypeOK
  <1>5. NoCommitment.maxPrincipal = 0
    BY DEF NoCommitment
  <1>6. /\ [other \in CommitmentIds |-> Standing(other)]'
              = [[other \in CommitmentIds |-> Standing(other)] EXCEPT ![id] = "withdrawn"]
        /\ [other \in CommitmentIds |-> commitments[other].maxPrincipal]'
              = [[other \in CommitmentIds |-> commitments[other].maxPrincipal] EXCEPT ![id] = 0]
        /\ UNCHANGED [other \in CommitmentIds |-> LentUnder(other)]
    BY <1>1, <1>3, <1>4, <1>5, StandingMoves, LimitMoves, DrawnKept
  <1> QED
    BY <1>3, <1>6 DEF Line!Withdraw, Standing

\* createCommitment and updateCommitment commit the lender to the offer.
LEMMA CreateMaps ==
    ASSUME IInv, DrawnOnCounted, DrawnOnCounted', NEW sender \in Callers, NEW c \in Offers,
           NEW guests \in Guests, CreateCommitment(sender, c, guests), NEW id, id = commitmentCount
    PROVE  id \in CommitmentIds /\ Line!Commit(id)
  <1>1. /\ id \in CommitmentIds /\ c \in Commitment /\ ValidateCommitment(c) /\ c # NoCommitment
        /\ commitments' = [commitments EXCEPT ![id] = c] /\ commitmentCount' = id + 1
        /\ commitmentPrincipalAccepted' = commitmentPrincipalAccepted
    BY ForwarderAssumption DEF CreateCommitment, ValidateCommitment, NoCommitment
  <1>2. id \in Nat /\ CommitmentIds \subseteq Nat
    BY <1>1 DEF CommitmentIds
  <1>3. Standing(id) = "unused" /\ Standing(id)' = "open"
    <2>1. commitments'[id] = c
      BY <1>1, LimitMoves
    <2>2. ~(id >= commitmentCount')
      BY <1>1, <1>2
    <2> QED
      BY <1>1, <1>2, <2>1, <2>2 DEF Standing
  <1>4. \A other \in CommitmentIds \ {id} : Standing(other)' = Standing(other)
    BY <1>1, <1>2 DEF Standing, IInv, TypeOK
  <1> QED
    BY <1>1, <1>3, <1>4, CommitMaps

LEMMA UpdateMaps ==
    ASSUME IInv, DrawnOnCounted, DrawnOnCounted', NEW sender \in Callers, NEW c \in Offers,
           NEW id \in CommitmentIds, UpdateCommitment(sender, id, c)
    PROVE  Line!Commit(id)
  <1>1. /\ c \in Commitment /\ ValidateCommitment(c) /\ c # NoCommitment
        /\ commitments' = [commitments EXCEPT ![id] = c]
        /\ UNCHANGED <<commitmentCount, commitmentPrincipalAccepted>>
    BY ForwarderAssumption DEF UpdateCommitment, ValidateCommitment, NoCommitment
  <1>2. commitments[id] # NoCommitment /\ id < commitmentCount
    BY NobodyCalls DEF UpdateCommitment, IInv, TypeOK, CommitmentIds, NoCommitment
  <1>3. Standing(id) = "open" /\ Standing(id)' = "open"
    BY <1>1, <1>2, LimitMoves DEF Standing, IInv, TypeOK, CommitmentIds
  <1>4. \A other \in CommitmentIds \ {id} : Standing(other)' = Standing(other)
    BY <1>1 DEF Standing, IInv, TypeOK
  <1> QED
    BY <1>1, <1>3, <1>4, CommitMaps

\* acceptCommitment draws on the line, within its limit.
LEMMA AcceptMaps ==
    ASSUME IInv, DrawnOnCounted, DrawnOnCounted', NEW caller \in Callers, NEW sender \in Callers,
           NEW id \in CommitmentIds, NEW p \in Principals, NEW collateral \in Collaterals,
           NEW rate \in Rates, NEW duration \in Durations,
           AcceptCommitment(caller, sender, id, p, collateral, rate, duration)
    PROVE  Line!Draw(id)
  <1>1. /\ UNCHANGED <<commitments, commitmentCount>>
        /\ commitmentPrincipalAccepted' = [commitmentPrincipalAccepted EXCEPT ![id] = @ + p]
        /\ commitmentPrincipalAccepted'[id] <= commitments[id].maxPrincipal
        /\ ValidateCommitment(commitments[id])
    BY DEF AcceptCommitment, CountAccepted, TermsAccepted
  <1>2. /\ commitments[id] # NoCommitment /\ id < commitmentCount
        /\ commitments[id] \in Commitment /\ p \in Nat
    BY <1>1, AcceptedStands, ForwarderAssumption
  <1>3. Standing(id) = "open"
    BY <1>2 DEF Standing, IInv, TypeOK, CommitmentIds
  <1>4. /\ UNCHANGED [other \in CommitmentIds |-> Standing(other)]
        /\ UNCHANGED [other \in CommitmentIds |-> commitments[other].maxPrincipal]
    BY <1>1 DEF Standing
  <1>5. commitmentPrincipalAccepted \in [CommitmentIds -> Nat]
    BY DEF IInv, TypeOK
  <1>6. /\ LentUnder(id)' = commitmentPrincipalAccepted'[id]
        /\ [other \in CommitmentIds |-> LentUnder(other)]'
              = [[other \in CommitmentIds |-> LentUnder(other)]
                    EXCEPT ![id] = commitmentPrincipalAccepted'[id]]
    BY <1>1, <1>5 DEF DrawnOnCounted
  <1>7. commitmentPrincipalAccepted'[id] \in LentUnder(id) .. commitments[id].maxPrincipal
    BY <1>1, <1>2, <1>5 DEF DrawnOnCounted, Commitment
  <1> QED
    BY <1>3, <1>4, <1>6, <1>7 DEF Line!Draw, Standing

\* All else leaves the lines as they are.
LEMMA LinesKept ==
    ASSUME DrawnOnCounted, DrawnOnCounted',
           UNCHANGED <<commitments, commitmentCount, commitmentPrincipalAccepted>>
    PROVE  UNCHANGED Line!vars
  BY DrawnKept DEF Line!vars

LEMMA StepMaps ==
    ASSUME IInv, DrawnOnCounted, DrawnOnCounted', [Next]_vars
    PROVE  Line!Next \/ UNCHANGED Line!vars
  <1>1. CASE ForwarderStep
    <2>1. PICK caller \in Callers, sender \in Callers :
              /\ sender = caller \/ HasExtension(sender, caller)
              /\ Extending(caller, sender) \/ Offering(sender) \/ Accepting(caller, sender)
      BY <1>1, ForwarderForm
    <2>2. CASE Extending(caller, sender)
      BY <2>2, LinesKept DEF Extending, AddExtension, RevokeExtension, commitmentVars
    <2>3. CASE Offering(sender)
      <3>1. ASSUME NEW c \in Offers, NEW guests \in Guests, CreateCommitment(sender, c, guests)
            PROVE  Line!Next
        BY <3>1, CreateMaps DEF Line!Next
      <3>2. ASSUME NEW id \in CommitmentIds, NEW c \in Offers, UpdateCommitment(sender, id, c)
            PROVE  Line!Next
        BY <3>2, UpdateMaps DEF Line!Next
      <3>3. ASSUME NEW id \in CommitmentIds, DeleteCommitment(sender, id)
            PROVE  Line!Next
        BY <3>3, DeleteMaps DEF Line!Next
      <3>4. ASSUME NEW id \in CommitmentIds, NEW borrowers, SetBorrowers(sender, id, borrowers)
            PROVE  UNCHANGED Line!vars
        BY <3>4, LinesKept DEF SetBorrowers
      <3> QED
        BY <2>3, <3>1, <3>2, <3>3, <3>4 DEF Offering
    <2>4. CASE Accepting(caller, sender)
      BY <2>4, AcceptMaps DEF Accepting, Line!Next
    <2> QED
      BY <2>1, <2>2, <2>3, <2>4
  <1>2. CASE ApprovalStep \/ Tick \/ UNCHANGED vars
    BY <1>2, LinesKept DEF ApprovalStep, Tick, vars, commitmentVars
  <1> QED
    BY <1>1, <1>2 DEF Next

LEMMA InitMaps == Init /\ DrawnOnCounted => Line!Init
  BY DEF Init, DrawnOnCounted, Line!Init, CommitmentIds, NoCommitment

\* A commitment is a credit line, over every sequence of creating, updating,
\* deleting and accepting, by anybody and through any extension: nothing is lent
\* above its limit of the moment (_acceptCommitment), nor once it was deleted.
THEOREM CreditLines == Spec => ImplementsCreditLine
  <1>1. Spec => []CountedRight
    <2>1. IInv /\ CountedRight /\ [Next]_vars => CountedRight'
      BY StepCounted
    <2> QED
      BY <2>1, InitCounted, Invariance, PTL DEF Spec
  <1>2. Spec => []DrawnOnCounted
    BY <1>1, Agreed, Invariance, PTL
  <1>3. IInv /\ DrawnOnCounted /\ DrawnOnCounted' /\ [Next]_vars => [Line!Next]_(Line!vars)
    BY StepMaps
  <1> QED
    BY <1>2, <1>3, InitMaps, Invariance, PTL DEF Spec, ImplementsCreditLine, Line!Spec
=============================================================================
