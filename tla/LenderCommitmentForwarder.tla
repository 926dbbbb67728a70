---------------------- MODULE LenderCommitmentForwarder ----------------------
(***************************************************************************)
(* LenderCommitmentForwarder_G2.sol and _G3.sol with                       *)
(* extensions/ExtensionsContextUpgradeable.sol: standing offers of lenders *)
(* that borrowers, or contracts they or the lenders added as extensions,   *)
(* turn into loans, in the name of both, in one transaction.               *)
(*                                                                         *)
(* The core, to which the forwarder submits and accepts the bid, is seen   *)
(* here through LendNestContext and the loans it makes.  Whatever else     *)
(* makes it refuse (funds, collateral, settings of the market) is modelled *)
(* in LendNestV2 and only takes behaviours away.  In a market that does    *)
(* not trust the forwarder the core takes the forwarder itself for the     *)
(* borrower and the lender, and it has no funds to lend.                   *)
(***************************************************************************)
EXTENDS LendNestContext, Sequences

CONSTANTS
    Self,              \* the forwarder's own address
    Extensions,        \* contracts that may be added as extensions
    Candidates,        \* what market owners set as trusted forwarder
    Offers,            \* commitments that lenders choose from
    Guests,            \* lists of borrowers they choose from
    Collaterals,       \* the collateral acceptors name: [asset, tokenId, amount]
    Principals, Rates, Durations,   \* what else acceptors choose
    Leaves,            \* the token ids in the tree whose root a token id is
    TokenUnit,         \* 10 to the decimals of the principal token
    CollateralUnit,    \* 10 to the decimals of an ERC20 collateral token
    NoAsset,           \* collateralTokenAddress where it is address(0)
    MaxCommitments, MaxTime   \* bounds

ERC721Types == {"ERC721", "ERC721_ANY_ID", "ERC721_MERKLE_PROOF"}
ERC1155Types == {"ERC1155", "ERC1155_ANY_ID", "ERC1155_MERKLE_PROOF"}
MerkleTypes == {"ERC721_MERKLE_PROOF", "ERC1155_MERKLE_PROOF"}
CommitmentCollateralType == {"NONE", "ERC20"} \cup ERC721Types \cup ERC1155Types

\* A commitment without the principal token, of which there is one.
Commitment ==
    [maxPrincipal : Nat, expiration : Nat, maxDuration : Nat, minInterestRate : Nat, asset : Nat,
     tokenId : Nat, maxPrincipalPerCollateralAmount : Nat, type : CommitmentCollateralType,
     lender : Accounts \cup {NoAccount}, marketId : Nat]

\* What storage holds where there is no commitment.
NoCommitment ==
    [maxPrincipal |-> 0, expiration |-> 0, maxDuration |-> 0, minInterestRate |-> 0,
     asset |-> NoAsset, tokenId |-> 0, maxPrincipalPerCollateralAmount |-> 0, type |-> "NONE",
     lender |-> NoAccount, marketId |-> 0]

CommitmentIds == 0 .. MaxCommitments - 1

ASSUME ForwarderAssumption ==
    /\ Self \in Forwarders /\ Self \notin Extensions
    /\ Extensions \cap (Accounts \cup {NoAccount}) = {}
    /\ Candidates \subseteq Forwarders \cup {NoAccount}
    /\ Offers \subseteq Commitment /\ NoAsset \in Nat
    /\ \A c \in Offers : c.marketId \in Markets
    /\ Guests \subseteq SUBSET Accounts
    /\ Collaterals \subseteq [asset : Nat, tokenId : Nat, amount : Nat]
    /\ Principals \subseteq Nat /\ Rates \subseteq Nat /\ Durations \subseteq Nat
    /\ TokenUnit \in Nat \ {0} /\ CollateralUnit \in Nat \ {0}
    /\ MaxCommitments \in Nat /\ MaxTime \in Nat

VARIABLES
    commitments, commitmentCount,
    commitmentBorrowersList,
    commitmentPrincipalAccepted,
    userExtensions,    \* the extensions of each account
    loans,             \* the bids the core has submitted and accepted for the forwarder
    now,
    \* Not in the contracts: what accounts ever did themselves.
    approvals,         \* <<account, market>> of every approval of this forwarder
    delegators         \* who added an extension

commitmentVars ==
    <<commitments, commitmentCount, commitmentBorrowersList, commitmentPrincipalAccepted>>
historyVars == <<approvals, delegators>>
vars == <<contextVars, commitmentVars, userExtensions, loans, now, historyVars>>

Callers == Accounts \cup Extensions

Init ==
    /\ ContextInit
    /\ commitments = [id \in CommitmentIds |-> NoCommitment]
    /\ commitmentCount = 0
    /\ commitmentBorrowersList = [id \in CommitmentIds |-> {}]
    /\ commitmentPrincipalAccepted = [id \in CommitmentIds |-> 0]
    /\ userExtensions = [acct \in Callers |-> {}]
    /\ loans = << >>
    /\ now = 1
    /\ approvals = {} /\ delegators = {}

-----------------------------------------------------------------------------
(* Who is speaking *)

HasExtension(acct, extension) == extension \in userExtensions[acct]

\* Mutant of MsgSender: whoever is named is believed.
NamedSender(caller, named) == named

\* _msgSender: the account named at the end of the call, if the caller is one of
\* its extensions.
MsgSender(caller, named) == IF HasExtension(named, caller) THEN named ELSE caller

AddExtension(caller, sender, extension) ==
    /\ sender # extension
    /\ userExtensions' = [userExtensions EXCEPT ![sender] = @ \cup {extension}]
    /\ delegators' = IF caller = sender THEN delegators \cup {sender} ELSE delegators
    /\ UNCHANGED <<contextVars, commitmentVars, loans, now, approvals>>

RevokeExtension(sender, extension) ==
    /\ userExtensions' = [userExtensions EXCEPT ![sender] = @ \ {extension}]
    /\ UNCHANGED <<contextVars, commitmentVars, loans, now, historyVars>>

-----------------------------------------------------------------------------
(* Offers *)

ValidateCommitment(c) ==
    /\ c.expiration > now
    /\ c.maxPrincipal > 0
    /\ c.type # "NONE" => c.maxPrincipalPerCollateralAmount > 0
    /\ c.type = "ERC20" => c.tokenId = 0

\* Mutant of CreateCommitment: the id is taken and the counter left alone.
CreateUncounted(sender, c, borrowers) ==
    LET id == commitmentCount IN
    /\ id \in CommitmentIds
    /\ c.lender = sender
    /\ ValidateCommitment(c)
    /\ commitments' = [commitments EXCEPT ![id] = c]
    /\ commitmentBorrowersList' = [commitmentBorrowersList EXCEPT ![id] = @ \cup borrowers]
    /\ UNCHANGED <<contextVars, commitmentCount, commitmentPrincipalAccepted, userExtensions,
                   loans, now, historyVars>>

CreateCommitment(sender, c, borrowers) ==
    LET id == commitmentCount IN
    /\ id \in CommitmentIds   \* bound
    /\ c.lender = sender
    /\ ValidateCommitment(c)
    /\ commitmentCount' = commitmentCount + 1
    /\ commitments' = [commitments EXCEPT ![id] = c]
    /\ commitmentBorrowersList' = [commitmentBorrowersList EXCEPT ![id] = @ \cup borrowers]
    /\ UNCHANGED <<contextVars, commitmentPrincipalAccepted, userExtensions, loans, now, historyVars>>

UpdateCommitment(sender, id, c) ==
    /\ commitments[id].lender = sender
    /\ c.lender = sender
    /\ c.marketId = commitments[id].marketId
    /\ ValidateCommitment(c)
    /\ commitments' = [commitments EXCEPT ![id] = c]
    /\ UNCHANGED <<contextVars, commitmentCount, commitmentBorrowersList,
                   commitmentPrincipalAccepted, userExtensions, loans, now, historyVars>>

SetBorrowers(sender, id, borrowers) ==
    /\ commitments[id].lender = sender
    /\ commitmentBorrowersList' = [commitmentBorrowersList EXCEPT ![id] = borrowers]
    /\ UNCHANGED <<contextVars, commitments, commitmentCount, commitmentPrincipalAccepted,
                   userExtensions, loans, now, historyVars>>

AddCommitmentBorrowers(sender, id, borrowers) ==
    SetBorrowers(sender, id, commitmentBorrowersList[id] \cup borrowers)

RemoveCommitmentBorrowers(sender, id, borrowers) ==
    SetBorrowers(sender, id, commitmentBorrowersList[id] \ borrowers)

\* Mutant of DeleteCommitment: only the amount is cleared.
ZeroCommitment(sender, id) ==
    /\ commitments[id].lender = sender
    /\ commitments' = [commitments EXCEPT ![id].maxPrincipal = 0]
    /\ commitmentBorrowersList' = [commitmentBorrowersList EXCEPT ![id] = {}]
    /\ UNCHANGED <<contextVars, commitmentCount, commitmentPrincipalAccepted, userExtensions,
                   loans, now, historyVars>>

\* What was accepted under the commitment stays.
DeleteCommitment(sender, id) ==
    /\ commitments[id].lender = sender
    /\ commitments' = [commitments EXCEPT ![id] = NoCommitment]
    /\ commitmentBorrowersList' = [commitmentBorrowersList EXCEPT ![id] = {}]
    /\ UNCHANGED <<contextVars, commitmentCount, commitmentPrincipalAccepted, userExtensions,
                   loans, now, historyVars>>

-----------------------------------------------------------------------------
(* Acceptance *)

\* Mutant of MulDivUp: MathUpgradeable.Rounding.Down.
MulDivDown(x, y, d) == (x * y) \div d

\* MathUpgradeable.mulDiv with Rounding.Up.
MulDivUp(x, y, d) == (x * y + d - 1) \div d

GetRequiredCollateral(principal, c) ==
    IF c.type = "NONE" THEN 0
    ELSE MulDivUp(principal, TokenUnit * IF c.type = "ERC20" THEN CollateralUnit ELSE 1,
                  c.maxPrincipalPerCollateralAmount)

\* Which token of the asset the borrower must pledge.  Types with a tree are
\* accepted through the entry points that ask for a proof, the others not.
TokenIdAllowed(c, tokenId) ==
    /\ c.type \in {"ERC721", "ERC1155"} => tokenId = c.tokenId
    /\ c.type \in MerkleTypes => tokenId \in Leaves[c.tokenId]

\* What _acceptCommitment and its entry points require of the terms.
TermsAccepted(c, principal, collateral, rate, duration) ==
    /\ ValidateCommitment(c)
    /\ collateral.asset = c.asset
    /\ rate >= c.minInterestRate
    /\ duration <= c.maxDuration
    /\ principal <= c.maxPrincipal
    /\ collateral.amount >= GetRequiredCollateral(principal, c)
    /\ c.type \in ERC721Types => collateral.amount = 1
    /\ TokenIdAllowed(c, collateral.tokenId)

BorrowerAllowed(id, borrower) ==
    commitmentBorrowersList[id] = {} \/ borrower \in commitmentBorrowersList[id]

\* Mutant of CountAccepted: tested before the loan is counted.
CountAfterTest(id, principal) ==
    /\ commitmentPrincipalAccepted[id] <= commitments[id].maxPrincipal
    /\ commitmentPrincipalAccepted' = [commitmentPrincipalAccepted EXCEPT ![id] = @ + principal]

\* The limit of the commitment.  The first test reads bidId before it is
\* assigned, when it is 0.
CountAccepted(id, principal) ==
    /\ commitmentPrincipalAccepted[0] <= commitments[id].maxPrincipal
    /\ commitmentPrincipalAccepted' = [commitmentPrincipalAccepted EXCEPT ![id] = @ + principal]
    /\ commitmentPrincipalAccepted'[id] <= commitments[id].maxPrincipal

\* submitBid and lenderAcceptBid in the core, each with the account at the end of
\* the call the forwarder makes.  Collateral is pledged unless the type is NONE.
Lend(id, c, caller, borrower, principal, collateral, rate, duration) ==
    /\ Len(loans) < MaxBids   \* bound
    /\ IsTrustedMarketForwarder(c.marketId, Self)
    /\ SpeaksForMarket(c.marketId, Self, borrower, borrower)
    /\ SpeaksForMarket(c.marketId, Self, c.lender, c.lender)
    /\ loans' = Append(loans,
          [commitment |-> id, borrower |-> borrower, lender |-> c.lender, caller |-> caller,
           marketId |-> c.marketId, principal |-> principal, rate |-> rate, duration |-> duration,
           collateral |-> IF c.type = "NONE" THEN [collateral EXCEPT !.amount = 0] ELSE collateral])

AcceptCommitment(caller, borrower, id, principal, collateral, rate, duration) ==
    LET c == commitments[id] IN
    /\ TermsAccepted(c, principal, collateral, rate, duration)
    /\ BorrowerAllowed(id, borrower)
    /\ CountAccepted(id, principal)
    /\ Lend(id, c, caller, borrower, principal, collateral, rate, duration)
    /\ UNCHANGED <<contextVars, commitments, commitmentCount, commitmentBorrowersList,
                   userExtensions, now, historyVars>>

-----------------------------------------------------------------------------
(* Accounts deal with the core directly *)

ApprovalStep ==
    /\ UNCHANGED <<commitmentVars, userExtensions, loans, now, delegators>>
    /\ \E acct \in Accounts, m \in Markets :
          \/ \E f \in Candidates :
                SetTrustedMarketForwarder(acct, m, f) /\ UNCHANGED approvals
          \/ /\ ApproveMarketForwarder(acct, m, Self)
             /\ approvals' = approvals \cup {<<acct, m>>}
          \/ RenounceMarketForwarder(acct, m, Self) /\ UNCHANGED approvals

ForwarderStep ==
    \E caller \in Callers : \E sender \in {MsgSender(caller, named) : named \in Callers} :
        \/ \E extension \in Extensions :
              AddExtension(caller, sender, extension) \/ RevokeExtension(sender, extension)
        \/ \E c \in Offers, guests \in Guests : CreateCommitment(sender, c, guests)
        \/ \E id \in CommitmentIds :
              \/ \E c \in Offers : UpdateCommitment(sender, id, c)
              \/ \E guests \in Guests \ {{}} : \/ AddCommitmentBorrowers(sender, id, guests)
                                               \/ RemoveCommitmentBorrowers(sender, id, guests)
              \/ DeleteCommitment(sender, id)
              \/ \E p \in Principals, collateral \in Collaterals, rate \in Rates,
                    duration \in Durations :
                    AcceptCommitment(caller, sender, id, p, collateral, rate, duration)

Tick ==
    /\ now < MaxTime
    /\ now' = now + 1
    /\ UNCHANGED <<contextVars, commitmentVars, userExtensions, loans, historyVars>>

Next == ApprovalStep \/ ForwarderStep \/ Tick

Spec == Init /\ [][Next]_vars
=============================================================================
