--------------------------- MODULE LendNestContext ---------------------------
(***************************************************************************)
(* LendNestContext.sol: contracts that may call the loan core in the name  *)
(* of an account.  A market's owner trusts one forwarder; the commitment   *)
(* forwarder is trusted by every market; and an account must have approved *)
(* the forwarder that speaks for it.                                       *)
(***************************************************************************)
EXTENDS LendNestTypes

CONSTANTS
    Forwarders,                  \* contracts that forward calls
    lenderCommitmentForwarder,   \* the one set when the core is initialized
    MarketOwner                  \* owner of each market

ASSUME ContextAssumption ==
    /\ Forwarders \cap (Accounts \cup {NoAccount}) = {}
    /\ MarketOwner \in [Markets -> Accounts]

VARIABLES
    trustedMarketForwarders,     \* _trustedMarketForwarders
    approvedForwarderSenders     \* _approvedForwarderSenders

contextVars == <<trustedMarketForwarders, approvedForwarderSenders>>

ContextTypeOK ==
    /\ trustedMarketForwarders \in [Markets -> Forwarders \cup {NoAccount}]
    /\ approvedForwarderSenders \in [Forwarders -> SUBSET Accounts]

ContextInit ==
    /\ trustedMarketForwarders = [m \in Markets |-> NoAccount]
    /\ approvedForwarderSenders = [f \in Forwarders |-> {}]

IsTrustedMarketForwarder(m, f) ==
    trustedMarketForwarders[m] = f \/ lenderCommitmentForwarder = f

SetTrustedMarketForwarder(sender, m, f) ==
    /\ MarketOwner[m] = sender
    /\ trustedMarketForwarders' = [trustedMarketForwarders EXCEPT ![m] = f]
    /\ UNCHANGED approvedForwarderSenders

ApproveMarketForwarder(sender, m, f) ==
    /\ IsTrustedMarketForwarder(m, f)
    /\ approvedForwarderSenders' = [approvedForwarderSenders EXCEPT ![f] = @ \cup {sender}]
    /\ UNCHANGED trustedMarketForwarders

\* The market is named and not looked at.
RenounceMarketForwarder(sender, m, f) ==
    /\ approvedForwarderSenders' = [approvedForwarderSenders EXCEPT ![f] = @ \ {sender}]
    /\ UNCHANGED trustedMarketForwarders

\* Mutant of SpeaksForMarket: the approval is not asked for.
SpeaksWithoutApproval(m, caller, named, sender) ==
    IF IsTrustedMarketForwarder(m, caller) THEN sender = named ELSE sender = caller

\* _msgSenderForMarket: a call by caller that names an account at its end is a
\* call by sender; it reverts for a trusted forwarder the account did not approve.
SpeaksForMarket(m, caller, named, sender) ==
    IF IsTrustedMarketForwarder(m, caller)
    THEN named \in approvedForwarderSenders[caller] /\ sender = named
    ELSE sender = caller
=============================================================================
