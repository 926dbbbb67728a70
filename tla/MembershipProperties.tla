------------------------ MODULE MembershipProperties ------------------------
(***************************************************************************)
(* What market membership and the attestations behind it promise each      *)
(* other.                                                                  *)
(***************************************************************************)
EXTENDS AttestedMarkets

CONSTANTS PageSizes   \* sizes of the pages that are asked for

ASSUME PagesAssumption == PageSizes \subseteq Nat \ {0}

\* The types of the registry's and of the service's state; a market's list of
\* members has nobody twice, and an attestation id is 0 or one that was made.
TypeOK ==
    /\ ASTypeOK
    /\ MR!MRTypeOK
    /\ members \in [Markets -> [MarketSchemas -> Seq(Accounts)]]
    /\ \A m \in Markets, role \in MarketSchemas :
          /\ IsInjective(members[m][role])
          /\ \A acct \in Accounts : attestationIds[m][role][acct] \in {0} \cup DOMAIN db
    /\ now \in 1 .. MaxTime

\* The registry and the attestation service together are the MarketRegistry of
\* the loan model: whatever is signed, attested or revoked directly in the
\* service changes a market's membership only as an operation of that module.
ImplementsMarketRegistry ==
    MR!MRInit(InitialOwner, InitialSettings) /\ [][MR!MarketNext(now)]_(MR!marketVars)

\* isVerifiedLender and isVerifiedBorrower, asked of the list and of the service,
\* give what the loan model reads off an expiration time.
VerifiedAgrees ==
    \A m \in Markets, role \in MarketSchemas, acct \in Accounts :
        IsVerified(m, role, acct) <=> MR!IsVerified(m, role, acct, now)

\* The attestations made for an account in a market and a role.
Admissions(m, role, acct) ==
    {u \in DOMAIN db : db[u].schema = role /\ db[u].data = MarketData(m, acct)}

\* The attestation a market goes by is always the latest one made for the account
\* in that market and role: nobody can make one in a market schema behind the
\* registry's back, by calling LendNestAS or by replaying what the owner signed.
LatestAttestationCounts ==
    \A m \in Markets, role \in MarketSchemas, acct \in Accounts :
        LET made == Admissions(m, role, acct)
            id   == attestationIds[m][role][acct]
        IN  /\ id \in made \cup {0}
            /\ \A u \in made : u <= id

\* A signature is good once: an owner never appears as the attester of more equal
\* attestations in a market schema than it signed messages that say so.
SignatureGoodOnce ==
    \A owner \in Accounts, role \in MarketSchemas, m \in Markets, acct \in Accounts,
       expiration \in Expirations :
        LET message == AttestMessage(acct, role, expiration, 0, MarketData(m, acct))
            made == {u \in DOMAIN db : /\ db[u].attester = owner
                                       /\ AttestMessage(db[u].recipient, db[u].schema,
                                             db[u].expirationTime, db[u].ref, db[u].data) = message}
        IN  Cardinality(made) <=
                Cardinality({sig \in signatures : sig.signer = owner /\ sig.message = message})

\* What the registry attested itself is never revoked in the service: the calls
\* that did so are commented out, and revoke is for the attester only.
RegistryAttestationsStand ==
    \A u \in DOMAIN db : db[u].attester = Registry => db[u].revocationTime = 0

\* A list has these uuids, each once and the oldest first.
Lists(list, uuids) ==
    /\ ToSet(list) = uuids
    /\ \A i, j \in DOMAIN list : i < j => list[i] < list[j]

\* The four lists of uuids that LendNestAS keeps beside _db hold exactly the
\* attestations they are named for, in the order they were made.
ListsMatchAttestations ==
    /\ \A acct \in Accounts, schema \in Schemas :
          Lists(received[<<acct, schema>>],
                {u \in DOMAIN db : db[u].recipient = acct /\ db[u].schema = schema})
    /\ \A attester \in Attesters, schema \in Schemas :
          Lists(sent[<<attester, schema>>],
                {u \in DOMAIN db : db[u].attester = attester /\ db[u].schema = schema})
    /\ \A schema \in Schemas :
          Lists(schemaAttestations[schema], {u \in DOMAIN db : db[u].schema = schema})
    /\ \A uuid \in Uuids : Lists(related[uuid], {u \in DOMAIN db : db[u].ref = uuid})

\* Slices of a list put end to end give the list, in either direction, and only
\* an offset beyond the end is refused: a reader of LendNestAS that pages through
\* the attestations sees each of them once.
SlicesTile ==
    \A uuids \in {schemaAttestations[schema] : schema \in Schemas}, size \in PageSizes,
       reverseOrder \in BOOLEAN :
        LET starts == {i \in 0 .. Len(uuids) : i % size = 0 /\ ~SliceReverts(uuids, i)}
            page == [k \in 1 .. Cardinality(starts) |->
                        SliceUUIDs(uuids, (k - 1) * size, size, reverseOrder)]
        IN  FlattenSeq(page) = IF reverseOrder THEN Reverse(uuids) ELSE uuids

\* getAllVerifiedLendersForMarket and getAllVerifiedBorrowersForMarket return the
\* addresses on any page that a market's list reaches.
EveryPageReadable ==
    \A m \in Markets, role \in MarketSchemas, page \in 0 .. 2, perPage \in PageSizes :
        ~PageReverts(members[m][role], page, perPage)
=============================================================================
