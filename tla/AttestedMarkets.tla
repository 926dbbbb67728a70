--------------------------- MODULE AttestedMarkets ---------------------------
(***************************************************************************)
(* MarketRegistry.sol with the attestation service it keeps its lenders    *)
(* and borrowers in: the registry attests through LendNestAS, LendNestAS   *)
(* asks the registry, its resolver, whether to accept, and whether an      *)
(* account is verified depends on what both of them store.                 *)
(*                                                                         *)
(* MR is MarketRegistry as the loan model sees it, over the sets and the   *)
(* expiration times that follow from this module's state.                  *)
(***************************************************************************)
EXTENDS LendNestAS

CONSTANTS
    MarketSettings, Expirations, ThirtyDays, ManagedMarkets, Stakeholders, Successors, Creators,
    InitialMarkets,
    InitialSettings, InitialOwner,
    Signers,          \* the accounts that sign messages or use LendNestAS themselves
    References,       \* the refUUIDs they choose
    MaxTime           \* bound of block.timestamp

VARIABLES
    marketCount, markets, marketOwner, feeRecipient, marketIsClosed,
    members,          \* verifiedLendersForMarket and verifiedBorrowersForMarket, in their order
    attestationIds,   \* lenderAttestationIds and borrowerAttestationIds
    now

memberVars == <<members, attestationIds>>
registryVars == <<marketCount, markets, marketOwner, feeRecipient, marketIsClosed>>
vars == <<asVars, registryVars, memberVars, now>>

\* What the loan model keeps of an attestation: until when it is good.
GoodUntil(uuid) ==
    IF IsAttestationValid(uuid) /\ db[uuid].revocationTime = 0 THEN db[uuid].expirationTime ELSE 0

MR == INSTANCE MarketRegistry WITH
        stakeholders <- [m \in Markets |-> [role \in MarketSchemas |-> ToSet(members[m][role])]],
        attestation <- [m \in Markets |-> [role \in MarketSchemas |-> [acct \in Accounts |->
                           GoodUntil(attestationIds[m][role][acct])]]]

\* A role's schema id is the role, and the registry's attestations carry the
\* market and the account.
ASSUME AttestedAssumption ==
    /\ MarketSchemas = MR!Roles
    /\ Data = [market : Markets, account : Accounts]
    /\ Signers \subseteq Accounts /\ Stakeholders \subseteq Accounts /\ Creators \subseteq Accounts
    /\ Successors \subseteq Accounts \cup {NoAccount}
    /\ Markets \subseteq Nat /\ ManagedMarkets \subseteq Markets /\ InitialMarkets \in Nat
    /\ MarketSettings \subseteq MR!SettingsType
    /\ InitialSettings \in [Markets -> MR!SettingsType]
    /\ InitialOwner \in [Markets -> Accounts \cup {NoAccount}]
    /\ Expirations \subseteq Nat /\ References \subseteq Nat
    /\ ThirtyDays \in Nat /\ MaxTime \in Nat \ {0}   \* the first block is at time 1

MarketData(m, acct) == [market |-> m, account |-> acct]

Init ==
    /\ ASInit
    /\ members = [m \in Markets |-> [role \in MarketSchemas |-> << >>]]
    /\ attestationIds = [m \in Markets |-> [role \in MarketSchemas |-> [acct \in Accounts |-> 0]]]
    /\ now = 1
    /\ marketCount = InitialMarkets
    /\ markets = InitialSettings
    /\ marketOwner = InitialOwner
    /\ feeRecipient = [m \in Markets |-> NoAccount]
    /\ marketIsClosed = [m \in Markets |-> FALSE]

-----------------------------------------------------------------------------
(* The resolver *)

\* Mutant of Resolve: the owner may attest at any time.
ResolveAnyTime(attestingSchema, recipient, schema, data, attester) ==
    \/ recipient = data.account /\ attester = marketOwner[data.market]
    \/ attester = Registry

\* resolve: during one of the registry's own calls for the schema, the market's
\* owner may attest; the registry itself always may.
Resolve(attestingSchema, recipient, schema, data, attester) ==
    \/ /\ attestingSchema = schema
       /\ recipient = data.account
       /\ attester = marketOwner[data.market]
    \/ attester = Registry
\* _isVerified
IsVerified(m, role, acct) ==
    MR!AttestationRequired(m, role) =>
        Contains(members[m][role], acct) /\ IsAttestationActive(attestationIds[m][role][acct], now)

\* _getStakeholdersForMarket: member i of the set is written to place i of the
\* page's array, which has as many places as the page has members, and a write
\* outside it reverts.  Places count from 0.
PageReverts(s, page, perPage) ==
    LET start == page * perPage
        end == IF start + perPage > Len(s) THEN Len(s) ELSE start + perPage
    IN  start <= Len(s) /\ \E i \in start .. end - 1 : i >= end - start

-----------------------------------------------------------------------------
(* The registry's operations *)

\* EnumerableSet: add appends, remove moves the last element into the gap.
SetAdd(s, acct) == IF Contains(s, acct) THEN s ELSE Append(s, acct)
SetRemove(s, acct) ==
    IF Contains(s, acct)
    THEN Front([s EXCEPT ![CHOOSE i \in DOMAIN s : s[i] = acct] = Last(s)])
    ELSE s

\* Mutant of Admit: the members are kept in an array.
AdmitAgain(m, role, acct, uuid) ==
    /\ attestationIds' = [attestationIds EXCEPT ![m][role][acct] = uuid]
    /\ members' = [members EXCEPT ![m][role] = Append(@, acct)]

\* _attestStakeholderVerification
Admit(m, role, acct, uuid) ==
    /\ attestationIds' = [attestationIds EXCEPT ![m][role][acct] = uuid]
    /\ members' = [members EXCEPT ![m][role] = SetAdd(@, acct)]

\* attestLender, attestBorrower: the owner asks and the registry attests.
AttestStakeholder(sender, m, role, acct, expiration) ==
    /\ sender = marketOwner[m]
    /\ MakeAttestation(acct, role, expiration, 0, MarketData(m, acct), Registry,
                       Resolve(role, acct, role, MarketData(m, acct), Registry), now)
    /\ Admit(m, role, acct, Len(db) + 1)
    /\ UNCHANGED <<registryVars, nonces, now>>

\* Anybody presents a signature, and the owner of the moment attests.
AttestStakeholderViaDelegation(m, role, acct, expiration, sig) ==
    LET attester == marketOwner[m]
        data == MarketData(m, acct)
    IN  /\ Verify(attester, AttestMessage(acct, role, expiration, 0, data), sig)
        /\ MakeAttestation(acct, role, expiration, 0, data, attester,
                           Resolve(role, acct, role, data, attester), now)
        /\ Admit(m, role, acct, Len(db) + 1)
        /\ UNCHANGED <<registryVars, now>>

RemoveMember(m, role, acct) ==
    /\ members' = [members EXCEPT ![m][role] = SetRemove(@, acct)]
    /\ UNCHANGED <<asVars, registryVars, attestationIds, now>>

\* revokeLender, revokeBorrower: the attestation itself is left as it is.
RevokeStakeholder(sender, m, role, acct) == sender = marketOwner[m] /\ RemoveMember(m, role, acct)

\* With a signature, which the code no longer looks at.
RevokeStakeholderViaDelegation(m, role, acct) == RemoveMember(m, role, acct)

\* lenderExitMarket, borrowerExitMarket
ExitMarket(sender, m, role) == RemoveMember(m, role, sender)

\* The operations that do not touch the attestations are the loan model's.
MarketSetting ==
    /\ UNCHANGED <<asVars, memberVars, now>>
    /\ \/ \E sender \in Creators, s \in MarketSettings : MR!CreateMarket(sender, s)
       \/ \E m \in ManagedMarkets :
             \/ \E s \in MarketSettings : MR!UpdateMarketSettings(m, s)
             \/ MR!CloseMarket(m)
             \/ \E acct \in Successors : MR!TransferMarketOwnership(m, acct)
             \/ \E acct \in Successors : MR!SetMarketFeeRecipient(m, acct)

-----------------------------------------------------------------------------
(* LendNestAS's own entry points, where no market schema is being attested *)

NoSchema == "none"

Attest(sender, recipient, schema, expiration, ref, data) ==
    /\ MakeAttestation(recipient, schema, expiration, ref, data, sender,
                       Resolve(NoSchema, recipient, schema, data, sender), now)
    /\ UNCHANGED <<registryVars, memberVars, nonces, now>>

AttestByDelegation(attester, recipient, schema, expiration, ref, data, sig) ==
    /\ Verify(attester, AttestMessage(recipient, schema, expiration, ref, data), sig)
    /\ MakeAttestation(recipient, schema, expiration, ref, data, attester,
                       Resolve(NoSchema, recipient, schema, data, attester), now)
    /\ UNCHANGED <<registryVars, memberVars, now>>

\* The messages an account signs.
Messages ==
    {AttestMessage(acct, schema, expiration, 0, MarketData(m, acct)) :
        acct \in Stakeholders, schema \in Schemas, expiration \in Expirations, m \in ManagedMarkets}
    \cup {RevokeMessage(uuid) : uuid \in DOMAIN db}

ServiceStep ==
    \/ /\ UNCHANGED <<registryVars, memberVars, now>>
       /\ \/ \E schema \in OpenSchemas : Register(schema)
          \/ \E signer \in Signers, message \in Messages, ahead \in {0, 1} :
                Sign(signer, nonces[signer] + ahead, message)
          \/ \E sender \in Signers, uuid \in DOMAIN db : Revoke(sender, uuid, now)
          \/ \E sig \in signatures, uuid \in DOMAIN db :
                RevokeByDelegation(sig.signer, uuid, sig, now)
          \/ \E sig \in signatures : SpendSignature(sig.signer, sig)
    \/ \E acct \in Stakeholders, schema \in Schemas, expiration \in Expirations, m \in ManagedMarkets :
          \/ \E sender \in Signers, ref \in References :
                Attest(sender, acct, schema, expiration, ref, MarketData(m, acct))
          \/ \E sig \in signatures :
                AttestByDelegation(sig.signer, acct, schema, expiration, 0, MarketData(m, acct), sig)

RegistryStep ==
    \/ MarketSetting
    \/ \E m \in ManagedMarkets, role \in MarketSchemas, acct \in Stakeholders :
          \/ \E expiration \in Expirations :
                \/ \E sender \in Accounts : AttestStakeholder(sender, m, role, acct, expiration)
                \/ \E sig \in signatures :
                      AttestStakeholderViaDelegation(m, role, acct, expiration, sig)
          \/ \E sender \in Accounts : RevokeStakeholder(sender, m, role, acct)
          \/ RevokeStakeholderViaDelegation(m, role, acct)
          \/ ExitMarket(acct, m, role)

Tick ==
    /\ now < MaxTime
    /\ now' = now + 1
    /\ UNCHANGED <<asVars, registryVars, memberVars>>

Next == ServiceStep \/ RegistryStep \/ Tick

Spec == Init /\ [][Next]_vars
=============================================================================
