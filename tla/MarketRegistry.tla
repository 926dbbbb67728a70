--------------------------- MODULE MarketRegistry ---------------------------
(***************************************************************************)
(* MarketRegistry.sol: the terms a market offers, who owns it, whether it  *)
(* is closed, and which lenders and borrowers its owner has attested.      *)
(* An attestation in the LendNestAS registry is represented here by its    *)
(* expiration time; AttestedMarkets shows that the contract, with the      *)
(* attestations it keeps there, behaves like this.                         *)
(***************************************************************************)
EXTENDS LendNestTypes

CONSTANTS
    MarketSettings,  \* the settings an owner may choose, records as in SettingsType
    Expirations,     \* expiration times of attestations
    ThirtyDays,      \* the payment cycle a Monthly market is given
    ManagedMarkets,  \* the markets whose owners use their powers
    Stakeholders,    \* the accounts they attest and remove
    Successors,      \* the accounts they make owner or fee recipient
    Creators,        \* the accounts that create markets
    InitialMarkets   \* how many markets exist at first

VARIABLES
    marketCount,     \* the id of the market created last
    markets,         \* the settings of each market
    marketOwner, feeRecipient, marketIsClosed,
    stakeholders,    \* verifiedLendersForMarket and verifiedBorrowersForMarket
    attestation      \* expiration time of the latest attestation, 0 for none or a revoked one

marketVars ==
    <<marketCount, markets, marketOwner, feeRecipient, marketIsClosed, stakeholders, attestation>>

Roles == {"lender", "borrower"}

SettingsType ==
    [paymentCycle : Nat, cycleType : {"Seconds", "Monthly"}, paymentType : {"EMI", "Bullet"},
     defaultDuration : Nat, expirationTime : Nat, feePercent : Nat,
     lenderAttestationRequired : BOOLEAN, borrowerAttestationRequired : BOOLEAN]

ASSUME MarketAssumption ==
    /\ MarketSettings \subseteq SettingsType
    /\ Expirations \subseteq Nat
    /\ ThirtyDays \in Nat
    /\ ManagedMarkets \subseteq Markets
    /\ Stakeholders \subseteq Accounts
    /\ Successors \subseteq Accounts \cup {NoAccount}
    /\ Creators \subseteq Accounts
    /\ Markets \subseteq Nat /\ InitialMarkets \in Nat

MRTypeOK ==
    /\ marketCount \in Nat
    /\ markets \in [Markets -> SettingsType]
    /\ marketOwner \in [Markets -> Accounts \cup {NoAccount}]
    /\ feeRecipient \in [Markets -> Accounts \cup {NoAccount}]
    /\ marketIsClosed \in [Markets -> BOOLEAN]
    /\ stakeholders \in [Markets -> [Roles -> SUBSET Accounts]]
    /\ attestation \in [Markets -> [Roles -> [Accounts -> Nat]]]

IsMarketOpen(m) == marketOwner[m] # NoAccount /\ ~marketIsClosed[m]

GetMarketFeeRecipient(m) == IF feeRecipient[m] = NoAccount THEN marketOwner[m] ELSE feeRecipient[m]

AttestationRequired(m, role) ==
    IF role = "lender" THEN markets[m].lenderAttestationRequired
    ELSE markets[m].borrowerAttestationRequired

\* _isVerified at a time: in the market's set, under an attestation that has
\* not run out.
IsVerified(m, role, acct, time) ==
    AttestationRequired(m, role) =>
        /\ acct \in stakeholders[m][role]
        /\ attestation[m][role][acct] # 0
        /\ attestation[m][role][acct] >= time

IsVerifiedLender(m, acct, time) == IsVerified(m, "lender", acct, time)
IsVerifiedBorrower(m, acct, time) == IsVerified(m, "borrower", acct, time)

-----------------------------------------------------------------------------
\* setPaymentCycle gives a Monthly market a cycle of thirty days.
Normalized(s) == [s EXCEPT !.paymentCycle = IF s.cycleType = "Monthly" THEN ThirtyDays ELSE @]

\* _setMarketSettings rejects a fee above 100% and a Monthly cycle that is set.
ValidSettings(s) ==
    /\ s.feePercent <= 10000
    /\ s.cycleType = "Monthly" => s.paymentCycle = 0

\* The markets up to InitialMarkets exist; the others have no owner and the
\* settings of an unused storage slot.
MRInit(initialOwner, initialSettings) ==
    /\ marketCount = InitialMarkets
    /\ markets = initialSettings
    /\ marketOwner = initialOwner
    /\ feeRecipient = [m \in Markets |-> NoAccount]
    /\ marketIsClosed = [m \in Markets |-> FALSE]
    /\ stakeholders = [m \in Markets |-> [r \in Roles |-> {}]]
    /\ attestation = [m \in Markets |-> [r \in Roles |-> [acct \in Accounts |-> 0]]]

\* createMarket: the setters it calls demand the market's owner as the caller, so
\* that an account creates markets for itself only.
CreateMarket(sender, s) ==
    LET m == marketCount + 1 IN
    /\ m \in Markets   \* bound
    /\ ValidSettings(s)
    /\ marketCount' = m
    /\ marketOwner' = [marketOwner EXCEPT ![m] = sender]
    /\ markets' = [markets EXCEPT ![m] = Normalized(s)]
    /\ UNCHANGED <<feeRecipient, marketIsClosed, stakeholders, attestation>>

\* updateMarketSettings, and each setter on its own: an s that differs from the
\* settings in one field.
UpdateMarketSettings(m, s) ==
    /\ marketOwner[m] # NoAccount
    /\ ValidSettings(s)
    /\ markets' = [markets EXCEPT ![m] = Normalized(s)]
    /\ UNCHANGED <<marketCount, marketOwner, feeRecipient, marketIsClosed, stakeholders, attestation>>

CloseMarket(m) ==
    /\ marketOwner[m] # NoAccount
    /\ marketIsClosed' = [marketIsClosed EXCEPT ![m] = TRUE]
    /\ UNCHANGED <<marketCount, markets, marketOwner, feeRecipient, stakeholders, attestation>>

TransferMarketOwnership(m, newOwner) ==
    /\ marketOwner[m] # NoAccount
    /\ marketOwner' = [marketOwner EXCEPT ![m] = newOwner]
    /\ UNCHANGED <<marketCount, markets, feeRecipient, marketIsClosed, stakeholders, attestation>>

SetMarketFeeRecipient(m, recipient) ==
    /\ marketOwner[m] # NoAccount
    /\ feeRecipient' = [feeRecipient EXCEPT ![m] = recipient]
    /\ UNCHANGED <<marketCount, markets, marketOwner, marketIsClosed, stakeholders, attestation>>

\* attestLender and attestBorrower by the owner, or with the owner's signature.
AttestStakeholder(m, role, acct, expiration, time) ==
    /\ marketOwner[m] # NoAccount
    /\ expiration > time
    /\ stakeholders' = [stakeholders EXCEPT ![m][role] = @ \cup {acct}]
    /\ attestation' = [attestation EXCEPT ![m][role][acct] = expiration]
    /\ UNCHANGED <<marketCount, markets, marketOwner, feeRecipient, marketIsClosed>>

\* revokeLender, revokeBorrower and the accounts' own exit: the account leaves
\* the set and its attestation stays as it is.
RemoveStakeholder(m, role, acct) ==
    /\ stakeholders' = [stakeholders EXCEPT ![m][role] = @ \ {acct}]
    /\ UNCHANGED <<marketCount, markets, marketOwner, feeRecipient, marketIsClosed, attestation>>

\* revoke in the attestation service, by the owner that had signed the attestation.
RevokeAttestation(m, role, acct) ==
    /\ attestation' = [attestation EXCEPT ![m][role][acct] = 0]
    /\ UNCHANGED <<marketCount, markets, marketOwner, feeRecipient, marketIsClosed, stakeholders>>

MarketNext(time) ==
    \/ \E sender \in Creators, s \in MarketSettings : CreateMarket(sender, s)
    \/ \E m \in ManagedMarkets :
          \/ \E s \in MarketSettings : UpdateMarketSettings(m, s)
          \/ CloseMarket(m)
          \/ \E acct \in Successors : TransferMarketOwnership(m, acct)
          \/ \E acct \in Successors : SetMarketFeeRecipient(m, acct)
          \/ \E role \in Roles, acct \in Stakeholders :
                \/ \E expiration \in Expirations :
                      AttestStakeholder(m, role, acct, expiration, time)
                \/ RemoveStakeholder(m, role, acct)
                \/ RevokeAttestation(m, role, acct)
=============================================================================
