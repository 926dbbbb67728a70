----------------------------- MODULE LendNestAS -----------------------------
(***************************************************************************)
(* EAS/LendNest.sol with its schema registry and its EIP-712 verifier:     *)
(* attestations made and revoked by an account itself or, by anybody, with *)
(* a message the account has signed.  A schema may have a resolver that is *)
(* asked whether an attestation is acceptable; the market schemas have     *)
(* MarketRegistry, the open ones have none.                                *)
(*                                                                         *)
(* The uuid of an attestation, a hash that includes the number of those    *)
(* before it, is its place in db; 0 is EMPTY_UUID.                         *)
(***************************************************************************)
EXTENDS LendNestTypes, Sequences, SequencesExt

CONSTANTS
    Registry,          \* MarketRegistry's own address among the attesters
    MarketSchemas,     \* the two schemas MarketRegistry registers when initialized
    OpenSchemas,       \* schemas others register, without a resolver
    Data,              \* what attestations carry
    MaxAttestations, MaxSignatures   \* bounds

ASSUME ASAssumption ==
    /\ Registry \notin Accounts \cup {NoAccount}
    /\ MarketSchemas \cap OpenSchemas = {}
    /\ MaxAttestations \in Nat /\ MaxSignatures \in Nat

VARIABLES
    schemas,             \* the schemas in LendNestASRegistry
    db,                  \* _db
    received, sent, schemaAttestations, related,   \* the lists of uuids kept beside it
    nonces,              \* the verifier's _nonces
    signatures           \* what accounts have signed so far, off the chain

asVars == <<schemas, db, received, sent, schemaAttestations, related, nonces, signatures>>

Schemas == MarketSchemas \cup OpenSchemas
Attesters == Accounts \cup {Registry}
Uuids == 1 .. MaxAttestations

AttestationType ==
    [schema : Schemas, recipient : Accounts, attester : Attesters, data : Data, ref : Nat,
     expirationTime : Nat, revocationTime : Nat]

\* The contents of ATTEST_TYPEHASH and of REVOKE_TYPEHASH.
AttestMessage(recipient, schema, expiration, ref, data) ==
    [kind |-> "attest", recipient |-> recipient, schema |-> schema, expiration |-> expiration,
     ref |-> ref, data |-> data]
RevokeMessage(uuid) == [kind |-> "revoke", uuid |-> uuid]

ASTypeOK ==
    /\ schemas \subseteq Schemas
    /\ db \in Seq(AttestationType) /\ Len(db) <= MaxAttestations
    /\ received \in [Accounts \X Schemas -> Seq(Uuids)]
    /\ sent \in [Attesters \X Schemas -> Seq(Uuids)]
    /\ schemaAttestations \in [Schemas -> Seq(Uuids)]
    /\ related \in [Uuids -> Seq(Uuids)]
    /\ nonces \in [Accounts \cup {NoAccount} -> Nat]
    /\ \A sig \in signatures : sig.signer \in Accounts /\ sig.nonce \in Nat

IsAttestationValid(uuid) == uuid \in DOMAIN db

\* Mutant of IsAttestationActive: a revoked attestation stays active.
IsAttestationUnexpired(uuid, time) ==
    IsAttestationValid(uuid) /\ db[uuid].expirationTime >= time

IsAttestationActive(uuid, time) ==
    /\ IsAttestationValid(uuid)
    /\ db[uuid].expirationTime >= time
    /\ db[uuid].revocationTime = 0

-----------------------------------------------------------------------------
ASInit ==
    /\ schemas = MarketSchemas
    /\ db = << >>
    /\ received = [key \in Accounts \X Schemas |-> << >>]
    /\ sent = [key \in Attesters \X Schemas |-> << >>]
    /\ schemaAttestations = [schema \in Schemas |-> << >>]
    /\ related = [uuid \in Uuids |-> << >>]
    /\ nonces = [a \in Accounts \cup {NoAccount} |-> 0]
    /\ signatures = {}

\* register, which rejects a schema that is there already.
Register(schema) ==
    /\ schema \notin schemas
    /\ schemas' = schemas \cup {schema}
    /\ UNCHANGED <<db, received, sent, schemaAttestations, related, nonces, signatures>>

\* An account signs a message that is good for one value of its nonce.
Sign(signer, nonce, message) ==
    /\ Cardinality(signatures) < MaxSignatures   \* bound
    /\ signatures' = signatures \cup {[signer |-> signer, nonce |-> nonce, message |-> message]}
    /\ UNCHANGED <<schemas, db, received, sent, schemaAttestations, related, nonces>>

\* ecrecover: a signature of anything but this message at this nonce recovers
\* no account of the system.
Recovered(sig, nonce, message) ==
    IF sig.message = message /\ sig.nonce = nonce THEN sig.signer ELSE NoAccount

\* Mutants of Verify: the nonce is kept; address(0) passes as a signer.
VerifyKeepingNonce(attester, message, sig) ==
    /\ Recovered(sig, nonces[attester], message) # NoAccount
    /\ Recovered(sig, nonces[attester], message) = attester
    /\ UNCHANGED nonces
VerifyAnySigner(attester, message, sig) ==
    /\ Recovered(sig, nonces[attester], message) = attester
    /\ nonces' = [nonces EXCEPT ![attester] = @ + 1]

\* The verifier's check, which also spends the nonce.
Verify(attester, message, sig) ==
    /\ Recovered(sig, nonces[attester], message) # NoAccount
    /\ Recovered(sig, nonces[attester], message) = attester
    /\ nonces' = [nonces EXCEPT ![attester] = @ + 1]

\* Mutant of Enlist: the recipient is listed as the one who sent.
EnlistUnderRecipient(uuid, recipient, schema, ref, attester) ==
    /\ received' = [received EXCEPT ![<<recipient, schema>>] = Append(@, uuid)]
    /\ sent' = [sent EXCEPT ![<<recipient, schema>>] = Append(@, uuid)]
    /\ schemaAttestations' = [schemaAttestations EXCEPT ![schema] = Append(@, uuid)]
    /\ related' = IF ref = 0 THEN related ELSE [related EXCEPT ![ref] = Append(@, uuid)]

\* The lists a new attestation is put on.
Enlist(uuid, recipient, schema, ref, attester) ==
    /\ received' = [received EXCEPT ![<<recipient, schema>>] = Append(@, uuid)]
    /\ sent' = [sent EXCEPT ![<<attester, schema>>] = Append(@, uuid)]
    /\ schemaAttestations' = [schemaAttestations EXCEPT ![schema] = Append(@, uuid)]
    /\ related' = IF ref = 0 THEN related ELSE [related EXCEPT ![ref] = Append(@, uuid)]

\* _attest, once the schema's resolver has given its verdict.  The reference is
\* looked up after the attestation is stored, and may be the attestation itself.
MakeAttestation(recipient, schema, expiration, ref, data, attester, accepted, time) ==
    LET uuid == Len(db) + 1 IN
    /\ uuid \in Uuids   \* bound
    /\ expiration > time
    /\ schema \in schemas
    /\ schema \in MarketSchemas => accepted
    /\ db' = Append(db, [schema |-> schema, recipient |-> recipient, attester |-> attester,
                         data |-> data, ref |-> ref, expirationTime |-> expiration,
                         revocationTime |-> 0])
    /\ ref # 0 => IsAttestationValid(ref)'
    /\ Enlist(uuid, recipient, schema, ref, attester)
    /\ UNCHANGED <<schemas, signatures>>

\* Mutant of MarkRevoked: anybody may revoke.
MarkRevokedByAnybody(uuid, attester, time) ==
    /\ IsAttestationValid(uuid)
    /\ db[uuid].revocationTime = 0
    /\ db' = [db EXCEPT ![uuid].revocationTime = time]
    /\ UNCHANGED <<schemas, received, sent, schemaAttestations, related, signatures>>

\* _revoke: by the attester only, and once only.
MarkRevoked(uuid, attester, time) ==
    /\ IsAttestationValid(uuid)
    /\ db[uuid].attester = attester
    /\ db[uuid].revocationTime = 0
    /\ db' = [db EXCEPT ![uuid].revocationTime = time]
    /\ UNCHANGED <<schemas, received, sent, schemaAttestations, related, signatures>>

Revoke(attester, uuid, time) ==
    MarkRevoked(uuid, attester, time) /\ UNCHANGED nonces

RevokeByDelegation(attester, uuid, sig, time) ==
    Verify(attester, RevokeMessage(uuid), sig) /\ MarkRevoked(uuid, attester, time)

\* The verifier's attest and revoke are open to anybody: a valid signature shown
\* to the verifier itself spends the nonce, and nothing is attested or revoked.
SpendSignature(attester, sig) ==
    /\ Verify(attester, sig.message, sig)
    /\ UNCHANGED <<schemas, db, received, sent, schemaAttestations, related, signatures>>

-----------------------------------------------------------------------------
\* _sliceUUIDs, defined where it does not revert with InvalidOffset.
SliceReverts(uuids, start) == uuids # << >> /\ start >= Len(uuids)

\* Mutant of SliceUUIDs: the slice is turned around instead of the list.
SliceThenReverse(uuids, start, length, reverseOrder) ==
    LET len == IF Len(uuids) < start + length THEN Len(uuids) - start ELSE length IN
    IF uuids = << >> THEN << >>
    ELSE [i \in 1 .. len |-> uuids[IF reverseOrder THEN start + len + 1 - i ELSE start + i]]

SliceUUIDs(uuids, start, length, reverseOrder) ==
    LET len == IF Len(uuids) < start + length THEN Len(uuids) - start ELSE length IN
    IF uuids = << >> THEN << >>
    ELSE [i \in 1 .. len |-> uuids[IF reverseOrder THEN Len(uuids) - (start + i - 1)
                                                  ELSE start + i]]
=============================================================================
