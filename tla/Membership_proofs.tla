-------------------------- MODULE Membership_proofs --------------------------
(***************************************************************************)
(* Proofs about market membership: the registry and the attestation        *)
(* service store what they should, agree on who is verified, never let a   *)
(* signature count twice, and together are the MarketRegistry of the loan  *)
(* model.                                                                  *)
(***************************************************************************)
EXTENDS MembershipProperties, FiniteSetTheorems, SequenceTheorems, FiniteSums_proofs

\* The markets' terms and owners, in the registry's own storage.
RegistryOK ==
    /\ marketCount \in Nat
    /\ markets \in [Markets -> MR!SettingsType]
    /\ marketOwner \in [Markets -> Accounts \cup {NoAccount}]
    /\ feeRecipient \in [Markets -> Accounts \cup {NoAccount}]
    /\ marketIsClosed \in [Markets -> BOOLEAN]

\* The sets of members have nobody twice.
MembersOK ==
    /\ members \in [Markets -> [MarketSchemas -> Seq(Accounts)]]
    /\ \A m \in Markets, role \in MarketSchemas : IsInjective(members[m][role])

\* The ids the registry keeps are those of attestations of the account's place
\* in the market, 0 where there is none.
IdsFit ==
    /\ attestationIds \in [Markets -> [MarketSchemas -> [Accounts -> Nat]]]
    /\ \A m \in Markets, role \in MarketSchemas, acct \in Accounts :
          LET uuid == attestationIds[m][role][acct] IN
          uuid # 0 =>
            /\ uuid \in DOMAIN db
            /\ m \in ManagedMarkets /\ acct \in Stakeholders
            /\ db[uuid].schema = role /\ db[uuid].data = MarketData(m, acct)

\* What the attester of an attestation had to sign to have it made for it.
MessageOf(a) == AttestMessage(a.recipient, a.schema, a.expirationTime, a.ref, a.data)

\* The attestations in d an account appears to have made, as a message says, and
\* the account's signatures of that message whose nonces are spent.
Made(d, signer, message) ==
    {u \in DOMAIN d : d[u].attester = signer /\ MessageOf(d[u]) = message}
Spent(signed, counts, signer, message) ==
    {sig \in signed : /\ sig.signer = signer /\ sig.message = message
                      /\ sig.nonce < counts[signer]}

\* The messages of attestations in the market schemas.
AdmissionMessages ==
    {AttestMessage(acct, role, expiration, 0, MarketData(m, acct)) :
        acct \in Accounts, role \in MarketSchemas, expiration \in Expirations, m \in Markets}

\* Each of these attestations has cost a signature.
EachSpentOne ==
    /\ IsFiniteSet(signatures)
    /\ \A signer \in Accounts, message \in AdmissionMessages :
          Cardinality(Made(db, signer, message))
              <= Cardinality(Spent(signatures, nonces, signer, message))

IInv ==
    /\ ASTypeOK
    /\ RegistryOK
    /\ MembersOK
    /\ IdsFit
    /\ now \in 1 .. MaxTime
    /\ RegistryAttestationsStand
    /\ EachSpentOne

-----------------------------------------------------------------------------
(* The enumerable sets of members *)

LEMMA LastIn ==
    ASSUME NEW S, NEW s \in Seq(S), s # << >>
    PROVE  Last(s) = s[Len(s)] /\ Len(s) \in DOMAIN s /\ Last(s) \in S
  BY DEF Last

LEMMA FrontForm ==
    ASSUME NEW S, NEW s \in Seq(S), s # << >>
    PROVE  /\ Front(s) \in Seq(S) /\ Len(Front(s)) = Len(s) - 1
           /\ \A i \in 1 .. Len(s) - 1 : Front(s)[i] = s[i]
  <1> DEFINE n == Len(s) - 1
  <1>1. n \in Nat /\ 1 \in Int /\ \A i \in 1 .. n : s[i] \in S
    <2>1. DOMAIN s = 1 .. Len(s) /\ Len(s) \in Nat /\ Len(s) # 0
      OBVIOUS
    <2> QED
      BY <2>1
  <1>2. Front(s) = SubSeq(s, 1, n)
    BY DEF Front
  <1> HIDE DEF n
  <1>3. /\ SubSeq(s, 1, n) \in Seq(S)
        /\ Len(SubSeq(s, 1, n)) = IF 1 <= n THEN n - 1 + 1 ELSE 0
        /\ \A i \in 1 .. n - 1 + 1 : SubSeq(s, 1, n)[i] = s[1 + i - 1]
    BY <1>1, SubSeqProperties
  <1>4. /\ Len(SubSeq(s, 1, n)) = n
        /\ \A i \in 1 .. n : SubSeq(s, 1, n)[i] = s[i]
    BY <1>1, <1>3
  <1> QED
    BY <1>2, <1>3, <1>4 DEF n

\* EnumerableSet.add
LEMMA SetAddForm ==
    ASSUME NEW S, NEW s \in Seq(S), IsInjective(s), NEW e \in S
    PROVE  /\ SetAdd(s, e) \in Seq(S) /\ IsInjective(SetAdd(s, e))
           /\ ToSet(SetAdd(s, e)) = ToSet(s) \cup {e}
  <1>1. CASE Contains(s, e)
    BY <1>1 DEF SetAdd, Contains, ToSet
  <1>2. CASE ~Contains(s, e)
    <2> DEFINE t == Append(s, e)
    <2>1. /\ t \in Seq(S) /\ DOMAIN t = 1 .. Len(s) + 1 /\ DOMAIN s = 1 .. Len(s)
          /\ \A i \in 1 .. Len(s) : t[i] = s[i] /\ s[i] # e
          /\ t[Len(s) + 1] = e /\ Len(s) \in Nat
      BY <1>2 DEF Contains
    <2> HIDE DEF t
    <2>2. IsInjective(t)
      BY <2>1 DEF IsInjective
    <2>3. ToSet(t) = ToSet(s) \cup {e}
      BY <2>1 DEF ToSet
    <2> QED
      BY <1>2, <2>1, <2>2, <2>3 DEF SetAdd, t
  <1> QED
    BY <1>1, <1>2

\* EnumerableSet.remove
LEMMA SetRemoveForm ==
    ASSUME NEW S, NEW s \in Seq(S), IsInjective(s), NEW e \in S
    PROVE  /\ SetRemove(s, e) \in Seq(S) /\ IsInjective(SetRemove(s, e))
           /\ ToSet(SetRemove(s, e)) = ToSet(s) \ {e}
  <1>1. CASE Contains(s, e)
    <2> DEFINE n == Len(s)
               i == CHOOSE j \in DOMAIN s : s[j] = e
               t == [s EXCEPT ![i] = Last(s)]
               r == Front(t)
    <2>1. DOMAIN s = 1 .. n /\ n \in Nat
      OBVIOUS
    <2>2. i \in 1 .. n /\ s[i] = e
      BY <1>1, <2>1 DEF Contains
    <2>3. Last(s) = s[n] /\ s[n] \in S /\ n \in 1 .. n
      BY <2>1, <2>2, LastIn
    <2>4. /\ t \in Seq(S) /\ t # << >> /\ Len(t) = n
          /\ \A j \in 1 .. n : t[j] = IF j = i THEN s[n] ELSE s[j]
      BY <2>1, <2>2, <2>3
    <2> HIDE DEF i, t
    <2>5. /\ r \in Seq(S) /\ DOMAIN r = 1 .. n - 1
          /\ \A j \in 1 .. n - 1 : r[j] = IF j = i THEN s[n] ELSE s[j]
      BY <2>1, <2>4, FrontForm
    <2> HIDE DEF r, n
    <2>6. IsInjective(r)
      BY <2>1, <2>2, <2>3, <2>5 DEF IsInjective
    <2>7. ToSet(r) = ToSet(s) \ {e}
      <3>1. ASSUME NEW j \in 1 .. n - 1 PROVE r[j] \in ToSet(s) \ {e}
        BY <2>1, <2>2, <2>3, <2>5 DEF ToSet, IsInjective
      <3>2. ASSUME NEW j \in 1 .. n, s[j] # e PROVE s[j] \in ToSet(r)
        <4>1. CASE j = n
          BY <2>1, <2>2, <2>5, <3>2, <4>1 DEF ToSet
        <4>2. CASE j # n
          BY <2>1, <2>2, <2>5, <3>2, <4>2 DEF ToSet
        <4> QED
          BY <4>1, <4>2
      <3> QED
        BY <2>1, <2>5, <3>1, <3>2 DEF ToSet
    <2> QED
      BY <1>1, <2>5, <2>6, <2>7 DEF SetRemove, r, t, i
  <1>2. CASE ~Contains(s, e)
    BY <1>2 DEF SetRemove, Contains, ToSet
  <1> QED
    BY <1>1, <1>2

-----------------------------------------------------------------------------
(* What the two contracts store gives the types of the loan model's registry *)

LEMMA GoodUntilType ==
    ASSUME IInv, NEW uuid PROVE GoodUntil(uuid) \in Nat
  <1>1. ASSUME uuid \in DOMAIN db PROVE db[uuid] \in AttestationType
    BY <1>1 DEF IInv, ASTypeOK
  <1> QED
    BY <1>1 DEF GoodUntil, IsAttestationValid, AttestationType

LEMMA InvType == IInv => TypeOK
  <1> SUFFICES ASSUME IInv PROVE TypeOK
    OBVIOUS
  <1>1. [m \in Markets |-> [role \in MarketSchemas |-> ToSet(members[m][role])]]
            \in [Markets -> [MR!Roles -> SUBSET Accounts]]
    <2>1. ASSUME NEW m \in Markets, NEW role \in MarketSchemas
          PROVE  ToSet(members[m][role]) \in SUBSET Accounts
      <3>1. members[m][role] \in Seq(Accounts)
        BY DEF IInv, MembersOK
      <3> QED
        BY <3>1 DEF ToSet
    <2> QED
      BY <2>1, AttestedAssumption
  <1>2. [m \in Markets |-> [role \in MarketSchemas |-> [acct \in Accounts |->
             GoodUntil(attestationIds[m][role][acct])]]]
            \in [Markets -> [MR!Roles -> [Accounts -> Nat]]]
    BY GoodUntilType, AttestedAssumption
  <1>3. MR!MRTypeOK
    BY <1>1, <1>2 DEF MR!MRTypeOK, IInv, RegistryOK
  <1> QED
    BY <1>3 DEF TypeOK, IInv, MembersOK, IdsFit

-----------------------------------------------------------------------------
(* The operations by what they do to the two contracts *)

\* The verifier's nonces only go up, and by one signature at a time.
NoncesMove ==
    \/ UNCHANGED nonces
    \/ \E signer \in Accounts : nonces' = [nonces EXCEPT ![signer] = @ + 1]

NewAttestation(recipient, schema, expiration, ref, data, attester) ==
    /\ Len(db) + 1 \in Uuids
    /\ expiration > now
    /\ db' = Append(db, [schema |-> schema, recipient |-> recipient, attester |-> attester,
                         data |-> data, ref |-> ref, expirationTime |-> expiration,
                         revocationTime |-> 0])
    /\ ref # 0 => ref \in DOMAIN db'
    /\ Enlist(Len(db) + 1, recipient, schema, ref, attester)
    /\ UNCHANGED <<schemas, signatures>>

\* An attestation in a market schema, which the registry admits the account with:
\* its own, or the owner's, who has signed it.
Admitting(m, role, acct, expiration, attester) ==
    /\ NewAttestation(acct, role, expiration, 0, MarketData(m, acct), attester)
    /\ Admit(m, role, acct, Len(db) + 1)
    /\ marketOwner[m] # NoAccount
    /\ \/ attester = Registry /\ UNCHANGED nonces
       \/ /\ attester \in Accounts
          /\ \E sig \in signatures :
                Verify(attester, AttestMessage(acct, role, expiration, 0, MarketData(m, acct)), sig)
    /\ UNCHANGED <<registryVars, now>>

AdmitStep ==
    \E m \in ManagedMarkets, role \in MarketSchemas, acct \in Stakeholders,
       expiration \in Expirations, attester \in Attesters :
        Admitting(m, role, acct, expiration, attester)

\* An attestation in another schema.
OpenStep ==
    /\ \E m \in ManagedMarkets, schema \in OpenSchemas, acct \in Stakeholders,
          expiration \in Expirations, ref \in Nat, attester \in Accounts :
          NewAttestation(acct, schema, expiration, ref, MarketData(m, acct), attester)
    /\ NoncesMove
    /\ UNCHANGED <<registryVars, memberVars, now>>

\* A revocation, by an account.
RevokeStep ==
    /\ \E uuid \in DOMAIN db, attester \in Accounts : MarkRevoked(uuid, attester, now)
    /\ NoncesMove
    /\ UNCHANGED <<registryVars, memberVars, now>>

\* A member leaves, or is removed.
RemoveStep ==
    \E m \in ManagedMarkets, role \in MarketSchemas, acct \in Stakeholders :
        RemoveMember(m, role, acct)

\* Everything else leaves the attestations and the members alone.
OtherStep ==
    /\ schemas \subseteq schemas' /\ schemas' \subseteq Schemas
    /\ \/ UNCHANGED signatures
       \/ \E signer \in Signers, nonce \in Nat : \E message :
             signatures' = signatures \cup {[signer |-> signer, nonce |-> nonce, message |-> message]}
    /\ NoncesMove
    /\ UNCHANGED <<db, received, sent, schemaAttestations, related, memberVars>>
    /\ now' \in {now} \cup {now + 1} /\ now' <= MaxTime
    /\ MarketSetting \/ UNCHANGED registryVars

\* Who verifies is an account, and its nonce goes up.
LEMMA Verified ==
    ASSUME TypeOK, NEW attester \in Accounts \cup {NoAccount}, NEW message, NEW sig \in signatures,
           Verify(attester, message, sig)
    PROVE  /\ attester \in Accounts
           /\ sig.signer = attester /\ sig.message = message /\ sig.nonce = nonces[attester]
           /\ nonces' = [nonces EXCEPT ![attester] = @ + 1]
           /\ NoncesMove
  <1>1. sig.signer = attester /\ sig.message = message /\ sig.nonce = nonces[attester]
        /\ nonces' = [nonces EXCEPT ![attester] = @ + 1]
    BY DEF Verify, Recovered
  <1>2. attester \in Accounts
    BY <1>1 DEF TypeOK, ASTypeOK
  <1> QED
    BY <1>1, <1>2 DEF NoncesMove

\* Attestations that the registry did not ask for are in open schemas only.
LEMMA AttestForm ==
    ASSUME NEW acct \in Stakeholders, NEW schema \in Schemas, NEW expiration \in Expirations,
           NEW ref \in Nat, NEW m \in ManagedMarkets, NEW attester \in Accounts,
           MakeAttestation(acct, schema, expiration, ref, MarketData(m, acct), attester,
                           Resolve(NoSchema, acct, schema, MarketData(m, acct), attester), now)
    PROVE  /\ schema \in OpenSchemas
           /\ NewAttestation(acct, schema, expiration, ref, MarketData(m, acct), attester)
  <1>1. schema \notin MarketSchemas
    <2>1. "none" \notin MarketSchemas
      BY AttestedAssumption DEF MR!Roles
    <2>2. attester # Registry
      BY ASAssumption
    <2>3. schema \in MarketSchemas => Resolve(NoSchema, acct, schema, MarketData(m, acct), attester)
      BY DEF MakeAttestation
    <2> QED
      BY <2>1, <2>2, <2>3 DEF Resolve, NoSchema
  <1>2. NewAttestation(acct, schema, expiration, ref, MarketData(m, acct), attester)
    BY DEF MakeAttestation, NewAttestation, IsAttestationValid
  <1> QED
    BY <1>1, <1>2 DEF Schemas

\* The service's own entry points.
LEMMA ServiceForm ==
    ASSUME TypeOK, ServiceStep
    PROVE  OpenStep \/ RevokeStep \/ OtherStep
  <1>1. \A sig \in signatures : sig.signer \in Accounts
    BY DEF TypeOK, ASTypeOK
  <1>2. now' = now => now' \in {now} \cup {now + 1} /\ now' <= MaxTime
    BY AttestedAssumption DEF TypeOK
  <1>3. ASSUME NEW acct \in Stakeholders, NEW schema \in Schemas, NEW expiration \in Expirations,
               NEW m \in ManagedMarkets, NEW sender \in Signers, NEW ref \in References,
               Attest(sender, acct, schema, expiration, ref, MarketData(m, acct))
        PROVE  OpenStep
    <2>1. sender \in Accounts /\ ref \in Nat
      BY AttestedAssumption
    <2>2. /\ schema \in OpenSchemas
          /\ NewAttestation(acct, schema, expiration, ref, MarketData(m, acct), sender)
      BY <1>3, <2>1, AttestForm DEF Attest
    <2> QED
      BY <1>3, <2>1, <2>2 DEF Attest, OpenStep, NoncesMove
  <1>4. ASSUME NEW acct \in Stakeholders, NEW schema \in Schemas, NEW expiration \in Expirations,
               NEW m \in ManagedMarkets, NEW sig \in signatures,
               AttestByDelegation(sig.signer, acct, schema, expiration, 0, MarketData(m, acct), sig)
        PROVE  OpenStep
    <2>1. sig.signer \in Accounts /\ 0 \in Nat
      BY <1>1
    <2>2. /\ schema \in OpenSchemas
          /\ NewAttestation(acct, schema, expiration, 0, MarketData(m, acct), sig.signer)
      BY <1>4, <2>1, AttestForm DEF AttestByDelegation
    <2>3. NoncesMove
      BY <1>4, <2>1, Verified DEF AttestByDelegation
    <2> QED
      BY <1>4, <2>1, <2>2, <2>3 DEF AttestByDelegation, OpenStep
  <1>5. ASSUME UNCHANGED <<registryVars, memberVars, now>>,
               \/ \E sender \in Signers, uuid \in DOMAIN db : Revoke(sender, uuid, now)
               \/ \E sig \in signatures, uuid \in DOMAIN db :
                     RevokeByDelegation(sig.signer, uuid, sig, now)
        PROVE  RevokeStep
    <2>1. ASSUME NEW sender \in Signers, NEW uuid \in DOMAIN db, Revoke(sender, uuid, now)
          PROVE  RevokeStep
      BY <1>5, <2>1, AttestedAssumption DEF Revoke, RevokeStep, NoncesMove
    <2>2. ASSUME NEW sig \in signatures, NEW uuid \in DOMAIN db,
                 RevokeByDelegation(sig.signer, uuid, sig, now)
          PROVE  RevokeStep
      <3>1. sig.signer \in Accounts
        BY <1>1
      <3>2. NoncesMove
        BY <2>2, <3>1, Verified DEF RevokeByDelegation
      <3> QED
        BY <1>5, <2>2, <3>1, <3>2 DEF RevokeByDelegation, RevokeStep
    <2> QED
      BY <1>5, <2>1, <2>2
  <1>6. ASSUME UNCHANGED <<registryVars, memberVars, now>>,
               \/ \E schema \in OpenSchemas : Register(schema)
               \/ \E signer \in Signers, message \in Messages, ahead \in {0, 1} :
                     Sign(signer, nonces[signer] + ahead, message)
               \/ \E sig \in signatures : SpendSignature(sig.signer, sig)
        PROVE  OtherStep
    <2>1. memberVars' = memberVars /\ registryVars' = registryVars
          /\ now' \in {now} \cup {now + 1} /\ now' <= MaxTime /\ schemas \subseteq Schemas
      BY <1>2, <1>6 DEF TypeOK, ASTypeOK
    <2>2. ASSUME NEW schema \in OpenSchemas, Register(schema) PROVE OtherStep
      BY <2>1, <2>2 DEF Register, OtherStep, NoncesMove, Schemas
    <2>3. ASSUME NEW signer \in Signers, NEW message \in Messages, NEW ahead \in {0, 1},
                 Sign(signer, nonces[signer] + ahead, message)
          PROVE  OtherStep
      <3>1. nonces[signer] + ahead \in Nat
        BY AttestedAssumption DEF TypeOK, ASTypeOK
      <3> QED
        BY <2>1, <2>3, <3>1 DEF Sign, OtherStep, NoncesMove
    <2>4. ASSUME NEW sig \in signatures, SpendSignature(sig.signer, sig) PROVE OtherStep
      <3>1. NoncesMove
        BY <1>1, <2>4, Verified DEF SpendSignature
      <3> QED
        BY <2>1, <2>4, <3>1 DEF SpendSignature, OtherStep
    <2> QED
      BY <1>6, <2>2, <2>3, <2>4
  <1> QED
    BY <1>3, <1>4, <1>5, <1>6 DEF ServiceStep

\* The registry's operations.
LEMMA RegistryForm ==
    ASSUME TypeOK, RegistryStep
    PROVE  AdmitStep \/ RemoveStep \/ OtherStep
  <1>1. CASE MarketSetting
    <2>1. UNCHANGED <<asVars, memberVars, now>> /\ now <= MaxTime /\ schemas \subseteq Schemas
      BY <1>1, AttestedAssumption DEF MarketSetting, TypeOK, ASTypeOK
    <2> QED
      BY <1>1, <2>1 DEF OtherStep, asVars, NoncesMove
  <1>2. ASSUME NEW m \in ManagedMarkets, NEW role \in MarketSchemas, NEW acct \in Stakeholders,
               NEW expiration \in Expirations, NEW sender \in Accounts,
               AttestStakeholder(sender, m, role, acct, expiration)
        PROVE  AdmitStep
    <2>1. NewAttestation(acct, role, expiration, 0, MarketData(m, acct), Registry)
      BY <1>2 DEF AttestStakeholder, MakeAttestation, NewAttestation, IsAttestationValid
    <2>2. marketOwner[m] # NoAccount /\ Registry \in Attesters
      BY <1>2, TypesAssumption DEF AttestStakeholder, Attesters
    <2> QED
      BY <1>2, <2>1, <2>2 DEF AttestStakeholder, AdmitStep, Admitting
  <1>3. ASSUME NEW m \in ManagedMarkets, NEW role \in MarketSchemas, NEW acct \in Stakeholders,
               NEW expiration \in Expirations, NEW sig \in signatures,
               AttestStakeholderViaDelegation(m, role, acct, expiration, sig)
        PROVE  AdmitStep
    <2>1. NewAttestation(acct, role, expiration, 0, MarketData(m, acct), marketOwner[m])
      BY <1>3 DEF AttestStakeholderViaDelegation, MakeAttestation, NewAttestation,
         IsAttestationValid
    <2>2. Verify(marketOwner[m],
                 AttestMessage(acct, role, expiration, 0, MarketData(m, acct)), sig)
      BY <1>3 DEF AttestStakeholderViaDelegation
    <2>3. marketOwner[m] \in Accounts \cup {NoAccount}
      BY AttestedAssumption DEF TypeOK, MR!MRTypeOK
    <2>4. marketOwner[m] \in Accounts
      BY <2>2, <2>3, Verified
    <2> QED
      BY <1>3, <2>1, <2>2, <2>4, TypesAssumption
      DEF AttestStakeholderViaDelegation, AdmitStep, Admitting, Attesters
  <1>4. ASSUME NEW m \in ManagedMarkets, NEW role \in MarketSchemas, NEW acct \in Stakeholders,
               \/ \E sender \in Accounts : RevokeStakeholder(sender, m, role, acct)
               \/ RevokeStakeholderViaDelegation(m, role, acct)
               \/ ExitMarket(acct, m, role)
        PROVE  RemoveStep
    BY <1>4 DEF RevokeStakeholder, RevokeStakeholderViaDelegation, ExitMarket, RemoveStep
  <1> QED
    BY <1>1, <1>2, <1>3, <1>4 DEF RegistryStep

LEMMA StepForm ==
    ASSUME TypeOK, [Next]_vars
    PROVE  AdmitStep \/ OpenStep \/ RevokeStep \/ RemoveStep \/ OtherStep
  <1>1. CASE Tick \/ UNCHANGED vars
    <2>1. now' \in {now} \cup {now + 1} /\ now' <= MaxTime /\ schemas \subseteq Schemas
      BY <1>1, AttestedAssumption DEF Tick, vars, TypeOK, ASTypeOK
    <2> QED
      BY <1>1, <2>1 DEF Tick, vars, asVars, OtherStep, NoncesMove
  <1> QED
    BY <1>1, ServiceForm, RegistryForm DEF Next

-----------------------------------------------------------------------------
(* The types of the attestation service *)

\* A new attestation goes to the end of db, and the others stay.
LEMMA AttestedDb ==
    ASSUME ASTypeOK, NEW acct \in Accounts, NEW schema \in Schemas, NEW expiration \in Nat,
           NEW ref \in Nat, NEW data \in Data, NEW attester \in Attesters,
           NewAttestation(acct, schema, expiration, ref, data, attester)
    PROVE  /\ db' \in Seq(AttestationType) /\ Len(db') = Len(db) + 1 /\ Len(db') <= MaxAttestations
           /\ DOMAIN db = 1 .. Len(db) /\ DOMAIN db' = DOMAIN db \cup {Len(db) + 1}
           /\ Len(db) + 1 \notin DOMAIN db
           /\ \A u \in DOMAIN db : db'[u] = db[u]
           /\ db'[Len(db) + 1] =
                 [schema |-> schema, recipient |-> acct, attester |-> attester, data |-> data,
                  ref |-> ref, expirationTime |-> expiration, revocationTime |-> 0]
  <1> DEFINE new == [schema |-> schema, recipient |-> acct, attester |-> attester, data |-> data,
                     ref |-> ref, expirationTime |-> expiration, revocationTime |-> 0]
  <1>1. new \in AttestationType
    BY DEF AttestationType
  <1>2. db \in Seq(AttestationType) /\ db' = Append(db, new) /\ Len(db) + 1 \in Uuids
    BY DEF ASTypeOK, NewAttestation
  <1> HIDE DEF new
  <1>3. /\ db' \in Seq(AttestationType) /\ Len(db') = Len(db) + 1
        /\ DOMAIN db = 1 .. Len(db) /\ DOMAIN db' = 1 .. Len(db) + 1 /\ Len(db) \in Nat
        /\ \A u \in 1 .. Len(db) : db'[u] = db[u]
        /\ db'[Len(db) + 1] = new
    BY <1>1, <1>2
  <1>4. DOMAIN db' = DOMAIN db \cup {Len(db) + 1} /\ Len(db) + 1 \notin DOMAIN db
    BY <1>3
  <1>5. Len(db') <= MaxAttestations
    BY <1>2, <1>3 DEF Uuids
  <1> QED
    BY <1>3, <1>4, <1>5 DEF new

\* A revocation changes one revocation time.
LEMMA RevokedDb ==
    ASSUME ASTypeOK, now \in Nat, NEW uuid \in DOMAIN db, NEW attester \in Accounts,
           MarkRevoked(uuid, attester, now)
    PROVE  /\ db' \in Seq(AttestationType) /\ Len(db') = Len(db)
           /\ DOMAIN db = 1 .. Len(db) /\ DOMAIN db' = DOMAIN db
           /\ \A u \in DOMAIN db : u # uuid => db'[u] = db[u]
           /\ db'[uuid] = [db[uuid] EXCEPT !.revocationTime = now]
           /\ db[uuid].attester = attester
  <1>1. db \in Seq(AttestationType) /\ db' = [db EXCEPT ![uuid].revocationTime = now]
        /\ db[uuid].attester = attester
    BY DEF ASTypeOK, MarkRevoked
  <1>2. [db[uuid] EXCEPT !.revocationTime = now] \in AttestationType
    <2>1. db[uuid] \in AttestationType
      BY <1>1
    <2> QED
      BY <2>1 DEF AttestationType
  <1>3. /\ db' = [db EXCEPT ![uuid] = [db[uuid] EXCEPT !.revocationTime = now]]
        /\ DOMAIN db = 1 .. Len(db)
    BY <1>1
  <1> QED
    BY <1>1, <1>2, <1>3

LEMMA NoncesType ==
    ASSUME ASTypeOK, NoncesMove
    PROVE  nonces' \in [Accounts \cup {NoAccount} -> Nat]
  <1>1. nonces \in [Accounts \cup {NoAccount} -> Nat]
    BY DEF ASTypeOK
  <1>2. ASSUME NEW signer \in Accounts, nonces' = [nonces EXCEPT ![signer] = @ + 1]
        PROVE  nonces' \in [Accounts \cup {NoAccount} -> Nat]
    <2>1. nonces[signer] + 1 \in Nat
      BY <1>1
    <2> QED
      BY <1>1, <1>2, <2>1
  <1> QED
    BY <1>1, <1>2 DEF NoncesMove

LEMMA ListGrows ==
    ASSUME NEW D, NEW S, NEW f \in [D -> Seq(S)], NEW k \in D, NEW e \in S
    PROVE  [f EXCEPT ![k] = Append(@, e)] \in [D -> Seq(S)]
  OBVIOUS

LEMMA AttestedType ==
    ASSUME ASTypeOK, NoncesMove, NEW acct \in Accounts, NEW schema \in Schemas,
           NEW expiration \in Nat, NEW ref \in Nat, NEW data \in Data, NEW attester \in Attesters,
           NewAttestation(acct, schema, expiration, ref, data, attester)
    PROVE  ASTypeOK'
  <1>1. db' \in Seq(AttestationType) /\ Len(db') <= MaxAttestations
    BY AttestedDb
  <1> DEFINE uuid == Len(db) + 1
  <1>2. uuid \in Uuids /\ Enlist(uuid, acct, schema, ref, attester)
    BY DEF NewAttestation
  <1> HIDE DEF uuid
  <1>3. received' \in [Accounts \X Schemas -> Seq(Uuids)]
    <2>1. <<acct, schema>> \in Accounts \X Schemas
      OBVIOUS
    <2> QED
      BY <1>2, <2>1, ListGrows DEF Enlist, ASTypeOK
  <1>4. sent' \in [Attesters \X Schemas -> Seq(Uuids)]
    <2>1. <<attester, schema>> \in Attesters \X Schemas
      OBVIOUS
    <2> QED
      BY <1>2, <2>1, ListGrows DEF Enlist, ASTypeOK
  <1>5. schemaAttestations' \in [Schemas -> Seq(Uuids)]
    BY <1>2, ListGrows DEF Enlist, ASTypeOK
  <1>6. related' \in [Uuids -> Seq(Uuids)]
    <2>1. ref # 0 => ref \in Uuids
      <3>1. DOMAIN db' = 1 .. Len(db') /\ Len(db') \in Nat
        BY <1>1
      <3> QED
        BY <1>1, <3>1, ASAssumption DEF NewAttestation, Uuids
    <2>2. related' = IF ref = 0 THEN related ELSE [related EXCEPT ![ref] = Append(@, uuid)]
      BY <1>2 DEF Enlist
    <2> QED
      BY <1>2, <2>1, <2>2, ListGrows DEF ASTypeOK
  <1>7. UNCHANGED <<schemas, signatures>>
    BY DEF NewAttestation
  <1> QED
    BY <1>1, <1>3, <1>4, <1>5, <1>6, <1>7, NoncesType DEF ASTypeOK

LEMMA StepServiceType ==
    ASSUME IInv, [Next]_vars
    PROVE  ASTypeOK'
  <1>1. TypeOK /\ ASTypeOK /\ now \in Nat
    BY InvType, AttestedAssumption DEF IInv
  <1>2. \A acct \in Stakeholders, m \in ManagedMarkets : acct \in Accounts /\ MarketData(m, acct) \in Data
    BY AttestedAssumption DEF MarketData
  <1>3. CASE AdmitStep
    <2>1. PICK m \in ManagedMarkets, role \in MarketSchemas, acct \in Stakeholders,
               expiration \in Expirations, attester \in Attesters :
               Admitting(m, role, acct, expiration, attester)
      BY <1>3 DEF AdmitStep
    <2>2. NoncesMove
      BY <1>1, <2>1, Verified DEF Admitting, NoncesMove
    <2>3. NewAttestation(acct, role, expiration, 0, MarketData(m, acct), attester)
      BY <2>1 DEF Admitting
    <2>4. role \in Schemas /\ expiration \in Nat /\ 0 \in Nat
      BY AttestedAssumption DEF Schemas
    <2> QED
      BY <1>1, <1>2, <2>2, <2>3, <2>4, AttestedType
  <1>4. CASE OpenStep
    <2>1. PICK m \in ManagedMarkets, schema \in OpenSchemas, acct \in Stakeholders,
               expiration \in Expirations, ref \in Nat, attester \in Accounts :
               NewAttestation(acct, schema, expiration, ref, MarketData(m, acct), attester)
      BY <1>4 DEF OpenStep
    <2>2. schema \in Schemas /\ expiration \in Nat /\ attester \in Attesters /\ NoncesMove
      BY <1>4, AttestedAssumption DEF Schemas, Attesters, OpenStep
    <2> QED
      BY <1>1, <1>2, <2>1, <2>2, AttestedType
  <1>5. CASE RevokeStep
    <2>1. PICK uuid \in DOMAIN db, attester \in Accounts : MarkRevoked(uuid, attester, now)
      BY <1>5 DEF RevokeStep
    <2>2. db' \in Seq(AttestationType) /\ Len(db') = Len(db)
      BY <1>1, <2>1, RevokedDb
    <2>3. NoncesMove
      BY <1>5 DEF RevokeStep
    <2> QED
      BY <1>1, <2>1, <2>2, <2>3, NoncesType DEF MarkRevoked, ASTypeOK
  <1>6. CASE RemoveStep
    BY <1>1, <1>6 DEF RemoveStep, RemoveMember, asVars, ASTypeOK
  <1>7. CASE OtherStep
    <2>1. NoncesMove
      BY <1>7 DEF OtherStep
    <2>2. \A sig \in signatures' : sig.signer \in Accounts /\ sig.nonce \in Nat
      BY <1>1, <1>7, AttestedAssumption DEF OtherStep, ASTypeOK
    <2> QED
      BY <1>1, <1>7, <2>1, <2>2, NoncesType DEF OtherStep, ASTypeOK
  <1> QED
    BY <1>1, <1>3, <1>4, <1>5, <1>6, <1>7, StepForm

-----------------------------------------------------------------------------
(* What the registry stores *)

LEMMA InitInv == Init => IInv
  <1> SUFFICES ASSUME Init PROVE IInv
    OBVIOUS
  <1>1. ASTypeOK
    BY ASAssumption DEF Init, ASInit, ASTypeOK, Schemas, Uuids
  <1>2. RegistryOK
    BY AttestedAssumption DEF Init, RegistryOK
  <1>3. MembersOK
    BY DEF Init, MembersOK, IsInjective
  <1>4. IdsFit /\ now \in 1 .. MaxTime /\ RegistryAttestationsStand
    BY AttestedAssumption DEF Init, ASInit, IdsFit, RegistryAttestationsStand
  <1>5. EachSpentOne
    <2>1. db = << >> /\ signatures = {} /\ IsFiniteSet({}) /\ Cardinality({}) = 0
      BY FS_EmptySet DEF Init, ASInit
    <2>2. \A signer, message : /\ Made(db, signer, message) = {}
                               /\ Spent(signatures, nonces, signer, message) = {}
      BY <2>1 DEF Made, Spent
    <2> QED
      BY <2>1, <2>2 DEF EachSpentOne
  <1> QED
    BY <1>1, <1>2, <1>3, <1>4, <1>5 DEF IInv

LEMMA StepRegistry ==
    ASSUME IInv, [Next]_vars
    PROVE  RegistryOK'
  <1>1. CASE MarketSetting
    <2>1. ASSUME NEW s \in MarketSettings PROVE MR!Normalized(s) \in MR!SettingsType
      BY AttestedAssumption DEF MR!Normalized, MR!SettingsType
    <2>2. ASSUME NEW sender \in Creators, NEW s \in MarketSettings, MR!CreateMarket(sender, s)
          PROVE  RegistryOK'
      <3>1. sender \in Accounts /\ marketCount + 1 \in Nat
        BY AttestedAssumption DEF IInv, RegistryOK
      <3> QED
        BY <2>1, <2>2, <3>1 DEF MR!CreateMarket, IInv, RegistryOK
    <2>3. ASSUME NEW m \in ManagedMarkets, NEW s \in MarketSettings, MR!UpdateMarketSettings(m, s)
          PROVE  RegistryOK'
      BY <2>1, <2>3 DEF MR!UpdateMarketSettings, IInv, RegistryOK
    <2>4. ASSUME NEW m \in ManagedMarkets, NEW acct \in Successors,
                 \/ MR!CloseMarket(m)
                 \/ MR!TransferMarketOwnership(m, acct)
                 \/ MR!SetMarketFeeRecipient(m, acct)
          PROVE  RegistryOK'
      BY <2>4, AttestedAssumption DEF MR!CloseMarket, MR!TransferMarketOwnership,
         MR!SetMarketFeeRecipient, IInv, RegistryOK
    <2>5. ASSUME NEW m \in ManagedMarkets, MR!CloseMarket(m) PROVE RegistryOK'
      BY <2>5 DEF MR!CloseMarket, IInv, RegistryOK
    <2> QED
      BY <1>1, <2>2, <2>3, <2>4, <2>5 DEF MarketSetting
  <1>2. CASE UNCHANGED registryVars
    BY <1>2 DEF registryVars, IInv, RegistryOK
  <1> QED
    BY <1>1, <1>2, StepForm, InvType DEF AdmitStep, Admitting, OpenStep, RevokeStep, RemoveStep,
       RemoveMember, OtherStep

LEMMA StepMembers ==
    ASSUME IInv, [Next]_vars
    PROVE  MembersOK'
  <1>1. ASSUME NEW m \in Markets, NEW role \in MarketSchemas, NEW acct \in Accounts,
               \/ members' = [members EXCEPT ![m][role] = SetAdd(@, acct)]
               \/ members' = [members EXCEPT ![m][role] = SetRemove(@, acct)]
        PROVE  MembersOK'
    <2>1. members \in [Markets -> [MarketSchemas -> Seq(Accounts)]]
          /\ members[m][role] \in Seq(Accounts) /\ IsInjective(members[m][role])
      BY DEF IInv, MembersOK
    <2>2. PICK s \in Seq(Accounts) :
             IsInjective(s) /\ members' = [members EXCEPT ![m][role] = s]
      BY <1>1, <2>1, SetAddForm, SetRemoveForm
    <2>3. members' \in [Markets -> [MarketSchemas -> Seq(Accounts)]]
      BY <2>1, <2>2
    <2>4. \A other \in Markets, r \in MarketSchemas :
             members'[other][r] = IF other = m /\ r = role THEN s ELSE members[other][r]
      BY <2>1, <2>2
    <2> QED
      BY <2>2, <2>3, <2>4 DEF MembersOK, IInv
  <1>2. CASE AdmitStep \/ RemoveStep
    BY <1>1, <1>2, AttestedAssumption DEF AdmitStep, Admitting, Admit, RemoveStep, RemoveMember
  <1>3. CASE OpenStep \/ RevokeStep \/ OtherStep
    BY <1>3 DEF OpenStep, RevokeStep, OtherStep, memberVars, IInv, MembersOK
  <1> QED
    BY <1>2, <1>3, StepForm, InvType

\* An attestation keeps all but its revocation time for ever.
LEMMA StepDb ==
    ASSUME IInv, [Next]_vars
    PROVE  /\ DOMAIN db \subseteq DOMAIN db'
           /\ \A u \in DOMAIN db : /\ db'[u].schema = db[u].schema
                                   /\ db'[u].recipient = db[u].recipient
                                   /\ db'[u].attester = db[u].attester
                                   /\ db'[u].data = db[u].data /\ db'[u].ref = db[u].ref
                                   /\ db'[u].expirationTime = db[u].expirationTime
                                   /\ db[u].attester = Registry =>
                                         db'[u].revocationTime = db[u].revocationTime
           /\ \A u \in DOMAIN db' \ DOMAIN db : db'[u].revocationTime = 0
  <1>1. TypeOK /\ ASTypeOK /\ now \in Nat /\ db \in Seq(AttestationType)
    BY InvType, AttestedAssumption DEF IInv, ASTypeOK
  <1>2. CASE AdmitStep \/ OpenStep
    <2>1. PICK acct \in Accounts, schema \in Schemas, expiration \in Nat, ref \in Nat, data \in Data,
               attester \in Attesters :
               NewAttestation(acct, schema, expiration, ref, data, attester)
      <3>1. \A acct \in Stakeholders, m \in ManagedMarkets :
               acct \in Accounts /\ MarketData(m, acct) \in Data
        BY AttestedAssumption DEF MarketData
      <3>2. CASE AdmitStep
        BY <3>1, <3>2, AttestedAssumption DEF AdmitStep, Admitting, Schemas
      <3>3. CASE OpenStep
        BY <3>1, <3>3, AttestedAssumption DEF OpenStep, Schemas, Attesters
      <3> QED
        BY <1>2, <3>2, <3>3
    <2> DEFINE new == [schema |-> schema, recipient |-> acct, attester |-> attester, data |-> data,
                       ref |-> ref, expirationTime |-> expiration, revocationTime |-> 0]
    <2>2. /\ DOMAIN db' = DOMAIN db \cup {Len(db) + 1}
          /\ \A u \in DOMAIN db : db'[u] = db[u]
          /\ db'[Len(db) + 1] = new
      BY <1>1, <2>1, AttestedDb
    <2>3. new.revocationTime = 0
      OBVIOUS
    <2> HIDE DEF new
    <2> QED
      BY <2>2, <2>3
  <1>3. CASE RevokeStep
    <2>1. PICK uuid \in DOMAIN db, attester \in Accounts : MarkRevoked(uuid, attester, now)
      BY <1>3 DEF RevokeStep
    <2>2. /\ DOMAIN db' = DOMAIN db
          /\ \A u \in DOMAIN db : u # uuid => db'[u] = db[u]
          /\ db'[uuid] = [db[uuid] EXCEPT !.revocationTime = now]
          /\ db[uuid].attester # Registry
      BY <1>1, <2>1, RevokedDb, ASAssumption
    <2>3. db[uuid] \in AttestationType
      BY <1>1
    <2> QED
      BY <2>2, <2>3 DEF AttestationType
  <1>4. CASE RemoveStep \/ OtherStep
    BY <1>4 DEF RemoveStep, RemoveMember, asVars, OtherStep
  <1> QED
    BY <1>1, <1>2, <1>3, <1>4, StepForm

LEMMA StepStand ==
    ASSUME IInv, [Next]_vars
    PROVE  RegistryAttestationsStand'
  BY StepDb DEF IInv, RegistryAttestationsStand

LEMMA StepIds ==
    ASSUME IInv, [Next]_vars
    PROVE  IdsFit'
  <1> DEFINE Fits(m, role, acct, uuid, d) ==
               uuid # 0 =>
                 /\ uuid \in DOMAIN d /\ m \in ManagedMarkets /\ acct \in Stakeholders
                 /\ d[uuid].schema = role /\ d[uuid].data = MarketData(m, acct)
  <1>1. ASSUME NEW m \in Markets, NEW role \in MarketSchemas, NEW acct \in Accounts
        PROVE  Fits(m, role, acct, attestationIds[m][role][acct], db')
    BY StepDb DEF IInv, IdsFit
  <1>2. CASE AdmitStep
    <2>1. PICK m \in ManagedMarkets, role \in MarketSchemas, acct \in Stakeholders,
               expiration \in Expirations, attester \in Attesters :
               Admitting(m, role, acct, expiration, attester)
      BY <1>2 DEF AdmitStep
    <2>2. /\ acct \in Accounts /\ MarketData(m, acct) \in Data /\ role \in Schemas
          /\ expiration \in Nat /\ m \in Markets
      BY AttestedAssumption DEF MarketData, Schemas
    <2>3. NewAttestation(acct, role, expiration, 0, MarketData(m, acct), attester)
      BY <2>1 DEF Admitting
    <2>4. /\ Len(db) + 1 \in DOMAIN db' /\ Len(db) \in Nat
          /\ db'[Len(db) + 1].schema = role /\ db'[Len(db) + 1].data = MarketData(m, acct)
      <3> DEFINE new == [schema |-> role, recipient |-> acct, attester |-> attester,
                         data |-> MarketData(m, acct), ref |-> 0, expirationTime |-> expiration,
                         revocationTime |-> 0]
      <3>1. ASTypeOK /\ 0 \in Nat /\ Len(db) \in Nat
        BY DEF IInv, ASTypeOK
      <3>2. DOMAIN db' = DOMAIN db \cup {Len(db) + 1} /\ db'[Len(db) + 1] = new
        BY <2>2, <2>3, <3>1, AttestedDb
      <3>3. new.schema = role /\ new.data = MarketData(m, acct)
        OBVIOUS
      <3> HIDE DEF new
      <3> QED
        BY <3>1, <3>2, <3>3
    <2>5. attestationIds' = [attestationIds EXCEPT ![m][role][acct] = Len(db) + 1]
      BY <2>1 DEF Admitting, Admit
    <2>6. attestationIds \in [Markets -> [MarketSchemas -> [Accounts -> Nat]]]
      BY DEF IInv, IdsFit
    <2>7. attestationIds' \in [Markets -> [MarketSchemas -> [Accounts -> Nat]]]
      BY <2>2, <2>4, <2>5, <2>6
    <2>8. ASSUME NEW other \in Markets, NEW r \in MarketSchemas, NEW a \in Accounts
          PROVE  attestationIds'[other][r][a] = IF other = m /\ r = role /\ a = acct THEN Len(db) + 1
                                                ELSE attestationIds[other][r][a]
      BY <2>2, <2>5, <2>6
    <2>9. ASSUME NEW other \in Markets, NEW r \in MarketSchemas, NEW a \in Accounts
          PROVE  Fits(other, r, a, attestationIds'[other][r][a], db')
      BY <1>1, <2>4, <2>8
    <2> QED
      BY <2>7, <2>9 DEF IdsFit
  <1>3. CASE OpenStep \/ RevokeStep \/ RemoveStep \/ OtherStep
    <2>1. attestationIds' = attestationIds
      BY <1>3 DEF OpenStep, RevokeStep, RemoveStep, RemoveMember, OtherStep, memberVars
    <2> QED
      BY <1>1, <2>1 DEF IdsFit, IInv
  <1> QED
    BY <1>2, <1>3, StepForm, InvType

-----------------------------------------------------------------------------
(* The attestations an owner has signed for *)

\* An owner that makes no attestation keeps within its signatures.
LEMMA CountStays ==
    ASSUME NEW A, NEW B, NEW S, NEW T, IsFiniteSet(A), IsFiniteSet(T),
           B \subseteq A, S \subseteq T, Cardinality(A) <= Cardinality(S)
    PROVE  Cardinality(B) <= Cardinality(T)
  <1>1. IsFiniteSet(B) /\ IsFiniteSet(S)
    BY FS_Subset
  <1>2. Cardinality(B) <= Cardinality(A) /\ Cardinality(S) <= Cardinality(T)
    BY FS_Subset
  <1>3. /\ Cardinality(A) \in Nat /\ Cardinality(B) \in Nat
        /\ Cardinality(S) \in Nat /\ Cardinality(T) \in Nat
    BY <1>1, FS_CardinalityType
  <1> QED
    BY <1>2, <1>3

\* One that makes an attestation spends a signature.
LEMMA CountMoves ==
    ASSUME NEW A, NEW B, NEW S, NEW T, IsFiniteSet(A), IsFiniteSet(T),
           NEW u, B \subseteq A \cup {u}, NEW sig, sig \notin S, S \cup {sig} \subseteq T,
           Cardinality(A) <= Cardinality(S)
    PROVE  Cardinality(B) <= Cardinality(T)
  <1>1. IsFiniteSet(S)
    BY FS_Subset
  <1>2. /\ IsFiniteSet(A \cup {u})
        /\ Cardinality(A \cup {u}) = IF u \in A THEN Cardinality(A) ELSE Cardinality(A) + 1
    BY FS_AddElement
  <1>3. /\ IsFiniteSet(S \cup {sig})
        /\ Cardinality(S \cup {sig}) = Cardinality(S) + 1
    BY <1>1, FS_AddElement
  <1>4. Cardinality(A) \in Nat /\ Cardinality(S) \in Nat
    BY <1>1, FS_CardinalityType
  <1>5. Cardinality(A \cup {u}) <= Cardinality(S \cup {sig})
    BY <1>2, <1>3, <1>4
  <1> QED
    BY <1>2, <1>5, CountStays

\* Signatures and nonces are never taken back.
LEMMA StepSignatures ==
    ASSUME IInv, [Next]_vars
    PROVE  /\ IsFiniteSet(signatures') /\ signatures \subseteq signatures'
           /\ \A signer \in Accounts : nonces[signer] \in Nat /\ nonces'[signer] \in Nat
                                       /\ nonces[signer] <= nonces'[signer]
  <1>1. TypeOK /\ ASTypeOK /\ IsFiniteSet(signatures)
    BY InvType DEF IInv, EachSpentOne
  <1>2. nonces \in [Accounts \cup {NoAccount} -> Nat]
    BY <1>1 DEF ASTypeOK
  <1>3. NoncesMove \/ UNCHANGED nonces
    <2>1. CASE AdmitStep
      BY <1>1, <2>1, Verified DEF AdmitStep, Admitting
    <2> QED
      BY <1>1, <2>1, StepForm DEF OpenStep, RevokeStep, RemoveStep, RemoveMember, asVars, OtherStep
  <1>4. ASSUME NEW signer \in Accounts
        PROVE  nonces[signer] \in Nat /\ nonces'[signer] \in Nat /\ nonces[signer] <= nonces'[signer]
    BY <1>2, <1>3 DEF NoncesMove
  <1>5. ASSUME UNCHANGED signatures
        PROVE  IsFiniteSet(signatures') /\ signatures \subseteq signatures'
    BY <1>1, <1>5
  <1>6. ASSUME NEW sig, signatures' = signatures \cup {sig}
        PROVE  IsFiniteSet(signatures') /\ signatures \subseteq signatures'
    BY <1>1, <1>6, FS_AddElement
  <1>7. CASE OtherStep
    <2>1. UNCHANGED signatures \/ \E sig : signatures' = signatures \cup {sig}
      BY <1>7 DEF OtherStep
    <2> QED
      BY <1>4, <1>5, <1>6, <2>1
  <1>8. CASE AdmitStep \/ OpenStep \/ RevokeStep \/ RemoveStep
    <2>1. UNCHANGED signatures
      BY <1>8 DEF AdmitStep, Admitting, OpenStep, NewAttestation, RevokeStep, MarkRevoked,
         RemoveStep, RemoveMember, asVars
    <2> QED
      BY <1>4, <1>5, <2>1
  <1> QED
    BY <1>1, <1>4, <1>7, <1>8, StepForm

\* The attestations somebody made and the spent signatures, after a step: nothing
\* is added to the former but the attestation of the step.
LEMMA StepMade ==
    ASSUME IInv, [Next]_vars, NEW signer \in Accounts, NEW message
    PROVE  /\ IsFiniteSet(Made(db, signer, message))
           /\ Spent(signatures, nonces, signer, message)
                  \subseteq Spent(signatures', nonces', signer, message)
           /\ IsFiniteSet(Spent(signatures', nonces', signer, message))
           /\ \A u \in Made(db', signer, message) : u \in DOMAIN db => u \in Made(db, signer, message)
  <1>1. IsFiniteSet(Made(db, signer, message))
    <2>1. DOMAIN db = 1 .. Len(db) /\ 1 \in Int /\ Len(db) \in Int
      BY DEF IInv, ASTypeOK
    <2>2. IsFiniteSet(DOMAIN db)
      BY <2>1, FS_Interval
    <2>3. Made(db, signer, message) \subseteq DOMAIN db
      BY DEF Made
    <2> QED
      BY <2>2, <2>3, FS_Subset
  <1>2. \A sig \in signatures : sig.nonce \in Nat
    BY DEF IInv, ASTypeOK
  <1>3. Spent(signatures, nonces, signer, message)
            \subseteq Spent(signatures', nonces', signer, message)
    BY <1>2, StepSignatures DEF Spent
  <1>4. Spent(signatures', nonces', signer, message) \subseteq signatures'
    BY DEF Spent
  <1>5. IsFiniteSet(Spent(signatures', nonces', signer, message))
    BY <1>4, StepSignatures, FS_Subset
  <1>6. ASSUME NEW u \in DOMAIN db, u \in Made(db', signer, message)
        PROVE  u \in Made(db, signer, message)
    BY <1>6, StepDb DEF Made, MessageOf
  <1> QED
    BY <1>1, <1>3, <1>5, <1>6

LEMMA StepSpent ==
    ASSUME IInv, [Next]_vars
    PROVE  EachSpentOne'
  <1> SUFFICES ASSUME NEW signer \in Accounts, NEW message \in AdmissionMessages
               PROVE  Cardinality(Made(db', signer, message))
                          <= Cardinality(Spent(signatures', nonces', signer, message))
    BY StepSignatures DEF EachSpentOne, AdmissionMessages
  <1> DEFINE A == Made(db, signer, message)
             B == Made(db', signer, message)
             S == Spent(signatures, nonces, signer, message)
             T == Spent(signatures', nonces', signer, message)
  <1>1. Cardinality(A) <= Cardinality(S)
    BY DEF IInv, EachSpentOne
  <1>2. /\ IsFiniteSet(A) /\ S \subseteq T /\ IsFiniteSet(T)
        /\ \A u \in B : u \in DOMAIN db => u \in A
    BY StepMade
  <1>3. \A u \in B : u \in DOMAIN db' /\ db'[u].attester = signer /\ MessageOf(db'[u]) = message
    BY DEF Made
  <1>4. message.schema \in MarketSchemas
    BY DEF AdmissionMessages, AttestMessage
  <1> HIDE DEF A, B, S, T
  <1>5. CASE B \subseteq A
    BY <1>1, <1>2, <1>5, CountStays DEF B, T
  <1>6. CASE AdmitStep /\ ~(B \subseteq A)
    <2>1. PICK m \in ManagedMarkets, role \in MarketSchemas, acct \in Stakeholders,
               expiration \in Expirations, attester \in Attesters :
               Admitting(m, role, acct, expiration, attester)
      BY <1>6 DEF AdmitStep
    <2> DEFINE new == [schema |-> role, recipient |-> acct, attester |-> attester,
                       data |-> MarketData(m, acct), ref |-> 0, expirationTime |-> expiration,
                       revocationTime |-> 0]
    <2>2. DOMAIN db' = DOMAIN db \cup {Len(db) + 1} /\ db'[Len(db) + 1] = new
      <3>1. /\ acct \in Accounts /\ MarketData(m, acct) \in Data /\ role \in Schemas
            /\ expiration \in Nat /\ 0 \in Nat /\ ASTypeOK
        BY AttestedAssumption DEF MarketData, Schemas, IInv
      <3>2. NewAttestation(acct, role, expiration, 0, MarketData(m, acct), attester)
        BY <2>1 DEF Admitting
      <3> QED
        BY <3>1, <3>2, AttestedDb
    <2>3. /\ new.attester = attester
          /\ MessageOf(new) = AttestMessage(acct, role, expiration, 0, MarketData(m, acct))
      BY DEF MessageOf
    <2> HIDE DEF new
    <2>4. attester = signer /\ message = AttestMessage(acct, role, expiration, 0, MarketData(m, acct))
      BY <1>2, <1>3, <1>6, <2>2, <2>3
    <2>5. PICK sig \in signatures : Verify(signer, message, sig)
      BY <2>1, <2>4, ASAssumption DEF Admitting
    <2>6. /\ sig.signer = signer /\ sig.message = message /\ sig.nonce = nonces[signer]
          /\ nonces' = [nonces EXCEPT ![signer] = @ + 1]
      BY <2>5, InvType, Verified
    <2>7. nonces \in [Accounts \cup {NoAccount} -> Nat]
      BY DEF IInv, ASTypeOK
    <2>8. sig \notin S /\ sig \in T
      BY <2>6, <2>7, StepSignatures DEF S, T, Spent
    <2>9. B \subseteq A \cup {Len(db) + 1} /\ S \cup {sig} \subseteq T
      BY <1>2, <1>3, <2>2, <2>8
    <2> QED
      BY <1>1, <1>2, <2>8, <2>9, CountMoves DEF B, T
  <1>7. CASE OpenStep /\ ~(B \subseteq A)
    <2>1. PICK acct \in Accounts, schema \in OpenSchemas, expiration \in Nat, ref \in Nat,
               data \in Data, attester \in Accounts :
               NewAttestation(acct, schema, expiration, ref, data, attester)
      <3>1. \A acct \in Stakeholders, m \in ManagedMarkets :
               acct \in Accounts /\ MarketData(m, acct) \in Data
        BY AttestedAssumption DEF MarketData
      <3> QED
        BY <1>7, <3>1, AttestedAssumption DEF OpenStep
    <2> DEFINE new == [schema |-> schema, recipient |-> acct, attester |-> attester, data |-> data,
                       ref |-> ref, expirationTime |-> expiration, revocationTime |-> 0]
    <2>2. DOMAIN db' = DOMAIN db \cup {Len(db) + 1} /\ db'[Len(db) + 1] = new
      <3>1. schema \in Schemas /\ attester \in Attesters /\ ASTypeOK
        BY DEF IInv, Schemas, Attesters
      <3> QED
        BY <2>1, <3>1, AttestedDb
    <2>3. MessageOf(new).schema = schema
      BY DEF MessageOf, AttestMessage
    <2> HIDE DEF new
    <2> QED
      BY <1>2, <1>3, <1>4, <1>7, <2>2, <2>3, ASAssumption
  <1>8. CASE RevokeStep \/ RemoveStep \/ OtherStep
    <2>1. DOMAIN db' = DOMAIN db
      BY <1>8 DEF RevokeStep, MarkRevoked, RemoveStep, RemoveMember, asVars, OtherStep
    <2> QED
      BY <1>2, <1>3, <1>5, <2>1
  <1> QED
    BY <1>5, <1>6, <1>7, <1>8, StepForm, InvType DEF B, T

LEMMA StepNow ==
    ASSUME IInv, [Next]_vars
    PROVE  now' \in 1 .. MaxTime
  BY StepForm, InvType DEF IInv, AdmitStep, Admitting, OpenStep, RevokeStep, RemoveStep, RemoveMember,
     OtherStep

LEMMA Invariance == Spec => []IInv
  <1>1. IInv /\ [Next]_vars => IInv'
    BY StepServiceType, StepRegistry, StepMembers, StepIds, StepNow, StepStand, StepSpent DEF IInv
  <1> QED
    BY <1>1, InitInv, PTL DEF Spec

\* The registry and the service store what they should: a market's list of members
\* has nobody twice, whatever EnumerableSet moved where, and the ids of attestations
\* it keeps are of attestations that were made.
THEOREM TypeCorrect == Spec => []TypeOK
  BY Invariance, InvType, PTL

\* What the registry attested itself is never revoked in the service, by anybody
\* and with any signature, so that removing the member is the only way out.
THEOREM RegistryAttestationsLast == Spec => []RegistryAttestationsStand
  BY Invariance, PTL DEF IInv

\* isVerifiedLender and isVerifiedBorrower, which ask the list and the service, say
\* what the loan model reads off the expiration time of the latest attestation.
THEOREM VerificationAgrees == Spec => []VerifiedAgrees
  <1>1. IInv => VerifiedAgrees
    <2> SUFFICES ASSUME IInv, NEW m \in Markets, NEW role \in MarketSchemas, NEW acct \in Accounts
                 PROVE  IsVerified(m, role, acct) <=> MR!IsVerified(m, role, acct, now)
      BY DEF VerifiedAgrees
    <2>1. Contains(members[m][role], acct) <=> acct \in ToSet(members[m][role])
      <3>1. members[m][role] \in Seq(Accounts)
        BY DEF IInv, MembersOK
      <3> QED
        BY <3>1 DEF Contains, ToSet
    <2> DEFINE uuid == attestationIds[m][role][acct]
    <2>2. IsAttestationActive(uuid, now) <=> GoodUntil(uuid) # 0 /\ GoodUntil(uuid) >= now
      <3>1. uuid \in DOMAIN db => db[uuid].expirationTime \in Nat
        <4>1. uuid \in DOMAIN db => db[uuid] \in AttestationType
          BY DEF IInv, ASTypeOK
        <4> QED
          BY <4>1 DEF AttestationType
      <3>2. now \in Nat /\ now >= 1
        BY AttestedAssumption DEF IInv
      <3> QED
        BY <3>1, <3>2 DEF IsAttestationActive, GoodUntil, IsAttestationValid
    <2> QED
      BY <2>1, <2>2 DEF IsVerified, MR!IsVerified
  <1> QED
    BY <1>1, Invariance, PTL

\* A signature is good once: each attestation an owner appears to have made has
\* cost it a nonce of its own, so that it never appears as the attester of more
\* equal attestations in a market schema than it signed messages that say so,
\* whoever presents its signatures, where and how often.
THEOREM SignaturesGoodOnce == Spec => []SignatureGoodOnce
  <1>1. IInv => SignatureGoodOnce
    <2> SUFFICES ASSUME IInv, NEW owner \in Accounts, NEW role \in MarketSchemas, NEW m \in Markets,
                        NEW acct \in Accounts, NEW expiration \in Expirations
                 PROVE  LET message == AttestMessage(acct, role, expiration, 0, MarketData(m, acct))
                            signed == {sig \in signatures : /\ sig.signer = owner
                                                            /\ sig.message = message}
                        IN  Cardinality(Made(db, owner, message)) <= Cardinality(signed)
      BY DEF SignatureGoodOnce, Made, MessageOf
    <2> DEFINE message == AttestMessage(acct, role, expiration, 0, MarketData(m, acct))
               signed == {sig \in signatures : sig.signer = owner /\ sig.message = message}
               spent == Spent(signatures, nonces, owner, message)
               made == Made(db, owner, message)
    <2>1. message \in AdmissionMessages
      BY DEF AdmissionMessages
    <2> HIDE DEF message
    <2>2. Cardinality(made) <= Cardinality(spent) /\ IsFiniteSet(signatures)
      BY <2>1 DEF IInv, EachSpentOne
    <2>3. spent \subseteq signed /\ signed \subseteq signatures
      BY DEF Spent
    <2>4. IsFiniteSet(made)
      <3>1. DOMAIN db = 1 .. Len(db) /\ 1 \in Int /\ Len(db) \in Int
        BY DEF IInv, ASTypeOK
      <3>2. IsFiniteSet(DOMAIN db)
        BY <3>1, FS_Interval
      <3>3. made \subseteq DOMAIN db
        BY DEF Made
      <3> QED
        BY <3>2, <3>3, FS_Subset
    <2>5. IsFiniteSet(signed)
      BY <2>2, <2>3, FS_Subset
    <2> HIDE DEF signed, spent, made
    <2>6. Cardinality(made) <= Cardinality(signed)
      BY <2>2, <2>3, <2>4, <2>5, CountStays
    <2> QED
      BY <2>6 DEF made, signed, message
  <1> QED
    BY <1>1, Invariance, PTL

-----------------------------------------------------------------------------
(* Attestations and what is listed of them *)

\* What an attestation was made with; a revocation leaves it alone.
SameMade(u) ==
    /\ db'[u].schema = db[u].schema /\ db'[u].recipient = db[u].recipient
    /\ db'[u].attester = db[u].attester /\ db'[u].data = db[u].data /\ db'[u].ref = db[u].ref

\* An attestation was made, or none was and the lists are as they were.
Attesting(acct, schema, ref, data, attester) ==
    /\ Len(db) + 1 \in Uuids /\ Len(db) \in Nat /\ DOMAIN db = 1 .. Len(db)
    /\ DOMAIN db' = DOMAIN db \cup {Len(db) + 1}
    /\ db'[Len(db) + 1].schema = schema /\ db'[Len(db) + 1].recipient = acct
    /\ db'[Len(db) + 1].attester = attester /\ db'[Len(db) + 1].data = data
    /\ db'[Len(db) + 1].ref = ref
    /\ ref # 0 => ref \in Uuids
    /\ Enlist(Len(db) + 1, acct, schema, ref, attester)

LEMMA AttestingForm ==
    ASSUME IInv, ASTypeOK', NEW acct \in Accounts, NEW schema \in Schemas, NEW expiration \in Nat,
           NEW ref \in Nat, NEW data \in Data, NEW attester \in Attesters,
           NewAttestation(acct, schema, expiration, ref, data, attester)
    PROVE  Attesting(acct, schema, ref, data, attester)
  <1> DEFINE new == [schema |-> schema, recipient |-> acct, attester |-> attester, data |-> data,
                     ref |-> ref, expirationTime |-> expiration, revocationTime |-> 0]
  <1>1. ASTypeOK /\ Len(db) \in Nat
    BY DEF IInv, ASTypeOK
  <1>2. /\ DOMAIN db = 1 .. Len(db) /\ DOMAIN db' = DOMAIN db \cup {Len(db) + 1}
        /\ Len(db') = Len(db) + 1 /\ Len(db') <= MaxAttestations
        /\ db'[Len(db) + 1] = new
    BY <1>1, AttestedDb
  <1>3. /\ new.schema = schema /\ new.recipient = acct /\ new.attester = attester
        /\ new.data = data /\ new.ref = ref
    OBVIOUS
  <1> HIDE DEF new
  <1>4. ref # 0 => ref \in DOMAIN db'
    BY DEF NewAttestation
  <1>5. ref # 0 => ref \in Uuids
    BY <1>1, <1>2, <1>4, ASAssumption DEF Uuids
  <1>6. Len(db) + 1 \in Uuids /\ Enlist(Len(db) + 1, acct, schema, ref, attester)
    BY DEF NewAttestation
  <1> QED
    BY <1>1, <1>2, <1>3, <1>5, <1>6 DEF Attesting

\* Only the registry's own calls make attestations in a market's schemas.
LEMMA ListsMove ==
    ASSUME IInv, [Next]_vars
    PROVE  /\ \A u \in DOMAIN db : SameMade(u)
           /\ \/ \E m \in Markets, role \in MarketSchemas, acct \in Accounts, attester \in Attesters :
                    /\ Attesting(acct, role, 0, MarketData(m, acct), attester)
                    /\ attestationIds' = [attestationIds EXCEPT ![m][role][acct] = Len(db) + 1]
              \/ /\ \E schema \in OpenSchemas, acct \in Accounts, ref \in Nat, data \in Data,
                       attester \in Attesters : Attesting(acct, schema, ref, data, attester)
                 /\ UNCHANGED attestationIds
              \/ /\ DOMAIN db' = DOMAIN db
                 /\ UNCHANGED <<attestationIds, received, sent, schemaAttestations, related>>
  <1>1. TypeOK /\ ASTypeOK /\ ASTypeOK' /\ now \in Nat
    BY InvType, StepServiceType, AttestedAssumption DEF IInv
  <1>2. \A acct \in Stakeholders, m \in ManagedMarkets :
           acct \in Accounts /\ m \in Markets /\ MarketData(m, acct) \in Data
    BY AttestedAssumption DEF MarketData
  <1>3. \A u \in DOMAIN db : SameMade(u)
    BY StepDb DEF SameMade
  <1>4. CASE AdmitStep
    <2>1. PICK m \in ManagedMarkets, role \in MarketSchemas, acct \in Stakeholders,
               expiration \in Expirations, attester \in Attesters :
               Admitting(m, role, acct, expiration, attester)
      BY <1>4 DEF AdmitStep
    <2>2. role \in Schemas /\ expiration \in Nat /\ 0 \in Nat
      BY AttestedAssumption DEF Schemas
    <2>3. Attesting(acct, role, 0, MarketData(m, acct), attester)
      BY <1>1, <1>2, <2>1, <2>2, AttestingForm DEF Admitting
    <2>4. attestationIds' = [attestationIds EXCEPT ![m][role][acct] = Len(db) + 1]
      BY <2>1 DEF Admitting, Admit
    <2> QED
      BY <1>2, <1>3, <2>3, <2>4
  <1>5. CASE OpenStep
    <2>1. PICK m \in ManagedMarkets, schema \in OpenSchemas, acct \in Stakeholders,
               expiration \in Expirations, ref \in Nat, attester \in Accounts :
               NewAttestation(acct, schema, expiration, ref, MarketData(m, acct), attester)
      BY <1>5 DEF OpenStep
    <2>2. schema \in Schemas /\ expiration \in Nat /\ attester \in Attesters
      BY AttestedAssumption DEF Schemas, Attesters
    <2>3. Attesting(acct, schema, ref, MarketData(m, acct), attester)
      BY <1>1, <1>2, <2>1, <2>2, AttestingForm
    <2>4. UNCHANGED attestationIds
      BY <1>5 DEF OpenStep, memberVars
    <2> QED
      BY <1>2, <1>3, <2>2, <2>3, <2>4
  <1>6. CASE RevokeStep
    <2>1. PICK uuid \in DOMAIN db, attester \in Accounts : MarkRevoked(uuid, attester, now)
      BY <1>6 DEF RevokeStep
    <2>2. DOMAIN db' = DOMAIN db
      BY <1>1, <2>1, RevokedDb
    <2> QED
      BY <1>3, <1>6, <2>1, <2>2 DEF RevokeStep, MarkRevoked, memberVars
  <1>7. CASE RemoveStep \/ OtherStep
    BY <1>3, <1>7 DEF RemoveStep, RemoveMember, OtherStep, asVars, memberVars
  <1> QED
    BY <1>1, <1>4, <1>5, <1>6, <1>7, StepForm

\* A market goes by the latest attestation made for the account, whoever calls the
\* service itself and whatever signatures are replayed there.
LEMMA StepLatest ==
    ASSUME IInv, LatestAttestationCounts, [Next]_vars
    PROVE  LatestAttestationCounts'
  <1> SUFFICES ASSUME NEW m \in Markets, NEW role \in MarketSchemas, NEW acct \in Accounts
               PROVE  /\ attestationIds'[m][role][acct] \in Admissions(m, role, acct)' \cup {0}
                      /\ \A u \in Admissions(m, role, acct)' : u <= attestationIds'[m][role][acct]
    BY DEF LatestAttestationCounts
  <1> DEFINE id   == attestationIds[m][role][acct]
             made == Admissions(m, role, acct)
  <1>1. id \in made \cup {0} /\ \A u \in made : u <= id
    BY DEF LatestAttestationCounts
  <1>2. attestationIds \in [Markets -> [MarketSchemas -> [Accounts -> Nat]]]
    BY DEF IInv, IdsFit
  <1>3. \A u \in DOMAIN db : SameMade(u)
    BY ListsMove
  <1>4. \A u \in DOMAIN db : u \in made <=> db'[u].schema = role /\ db'[u].data = MarketData(m, acct)
    BY <1>3 DEF SameMade, Admissions
  <1>5. Admissions(m, role, acct)' =
           {u \in DOMAIN db' : db'[u].schema = role /\ db'[u].data = MarketData(m, acct)}
    BY DEF Admissions
  <1>6. made \subseteq DOMAIN db
    BY DEF Admissions
  <1> HIDE DEF made
  <1>7. ASSUME NEW market \in Markets, NEW r \in MarketSchemas, NEW a \in Accounts,
               NEW attester \in Attesters,
               Attesting(a, r, 0, MarketData(market, a), attester),
               attestationIds' = [attestationIds EXCEPT ![market][r][a] = Len(db) + 1]
        PROVE  /\ attestationIds'[m][role][acct] \in Admissions(m, role, acct)' \cup {0}
               /\ \A u \in Admissions(m, role, acct)' : u <= attestationIds'[m][role][acct]
    <2>1. MarketData(market, a) = MarketData(m, acct) <=> market = m /\ a = acct
      <3>1. MarketData(market, a).market = market /\ MarketData(market, a).account = a
            /\ MarketData(m, acct).market = m /\ MarketData(m, acct).account = acct
        BY DEF MarketData
      <3> QED
        BY <3>1
    <2>2. attestationIds'[m][role][acct] =
             IF market = m /\ r = role /\ a = acct THEN Len(db) + 1 ELSE id
      BY <1>2, <1>7
    <2>3. /\ Len(db) \in Nat /\ DOMAIN db = 1 .. Len(db) /\ DOMAIN db' = DOMAIN db \cup {Len(db) + 1}
          /\ db'[Len(db) + 1].schema = r /\ db'[Len(db) + 1].data = MarketData(market, a)
      BY <1>7 DEF Attesting
    <2>4. CASE market = m /\ r = role /\ a = acct
      <3>1. Len(db) + 1 \in Admissions(m, role, acct)'
        BY <1>5, <2>3, <2>4
      <3>2. \A u \in DOMAIN db' : u <= Len(db) + 1
        BY <2>3
      <3> QED
        BY <1>5, <2>2, <2>4, <3>1, <3>2
    <2>5. CASE ~(market = m /\ r = role /\ a = acct)
      <3>1. Admissions(m, role, acct)' = made
        BY <1>4, <1>5, <1>6, <2>1, <2>3, <2>5
      <3> QED
        BY <1>1, <2>2, <2>5, <3>1
    <2> QED
      BY <2>4, <2>5
  <1>8. ASSUME NEW schema \in OpenSchemas, NEW a \in Accounts, NEW ref \in Nat, NEW data \in Data,
               NEW attester \in Attesters, Attesting(a, schema, ref, data, attester)
        PROVE  Admissions(m, role, acct)' = made
    <2>1. DOMAIN db' = DOMAIN db \cup {Len(db) + 1} /\ db'[Len(db) + 1].schema = schema
      BY <1>8 DEF Attesting
    <2>2. schema # role
      BY ASAssumption
    <2> QED
      BY <1>4, <1>5, <1>6, <2>1, <2>2
  <1>9. DOMAIN db' = DOMAIN db => Admissions(m, role, acct)' = made
    BY <1>4, <1>5, <1>6
  <1> QED
    BY <1>1, <1>7, <1>8, <1>9, ListsMove

\* The attestation a market goes by is the latest one made for the account in that
\* market and role, and so the last word of its owner.
THEOREM LatestCounts == Spec => []LatestAttestationCounts
  <1>1. Init => LatestAttestationCounts
    BY DEF Init, ASInit, LatestAttestationCounts, Admissions
  <1>2. IInv /\ LatestAttestationCounts /\ [Next]_vars => LatestAttestationCounts'
    BY StepLatest
  <1> QED
    BY <1>1, <1>2, Invariance, PTL DEF Spec

\* A list stays in order when the newest uuid is put at its end.
LEMMA ListsAppend ==
    ASSUME NEW list \in Seq(Nat), NEW uuids, NEW n \in Nat, uuids \subseteq 1 .. n, Lists(list, uuids)
    PROVE  Lists(Append(list, n + 1), uuids \cup {n + 1})
  <1> DEFINE long == Append(list, n + 1)
  <1>1. /\ DOMAIN list = 1 .. Len(list) /\ Len(list) \in Nat
        /\ DOMAIN long = 1 .. Len(list) + 1
        /\ \A i \in 1 .. Len(list) : long[i] = list[i]
        /\ long[Len(list) + 1] = n + 1
    OBVIOUS
  <1> HIDE DEF long
  <1>2. ToSet(list) = uuids /\ \A i, j \in DOMAIN list : i < j => list[i] < list[j]
    BY DEF Lists
  <1>3. \A i \in DOMAIN list : list[i] \in uuids
    BY <1>2 DEF ToSet
  <1>4. ToSet(long) = uuids \cup {n + 1}
    <2>1. ToSet(list) \subseteq ToSet(long) /\ n + 1 \in ToSet(long)
      BY <1>1 DEF ToSet
    <2>2. \A i \in DOMAIN long : long[i] \in uuids \cup {n + 1}
      BY <1>1, <1>3
    <2> QED
      BY <1>2, <2>1, <2>2 DEF ToSet
  <1>5. ASSUME NEW i \in DOMAIN long, NEW j \in DOMAIN long, i < j
        PROVE  long[i] < long[j]
    <2>1. i \in 1 .. Len(list)
      BY <1>1, <1>5
    <2>2. CASE j \in 1 .. Len(list)
      BY <1>1, <1>2, <1>5, <2>1, <2>2
    <2>3. CASE j = Len(list) + 1
      <3>1. long[i] \in 1 .. n
        BY <1>1, <1>3, <2>1
      <3> QED
        BY <1>1, <2>3, <3>1
    <2> QED
      BY <1>1, <2>2, <2>3
  <1> QED
    BY <1>4, <1>5 DEF Lists, long

\* The four lists after an attestation.
LEMMA AttestingLists ==
    ASSUME IInv, ListsMatchAttestations, \A u \in DOMAIN db : SameMade(u),
           NEW acct \in Accounts, NEW schema \in Schemas, NEW ref \in Nat, NEW data,
           NEW attester \in Attesters, Attesting(acct, schema, ref, data, attester)
    PROVE  ListsMatchAttestations'
  <1> DEFINE n == Len(db)
  <1>1. /\ n \in Nat /\ n + 1 \in Uuids /\ DOMAIN db = 1 .. n /\ DOMAIN db' = 1 .. n \cup {n + 1}
        /\ n + 1 \notin 1 .. n
    BY DEF Attesting
  <1>2. /\ db'[n + 1].schema = schema /\ db'[n + 1].recipient = acct
        /\ db'[n + 1].attester = attester /\ db'[n + 1].ref = ref
        /\ ref # 0 => ref \in Uuids
        /\ Enlist(n + 1, acct, schema, ref, attester)
    BY DEF Attesting
  <1>3. \A u \in 1 .. n : /\ db'[u].schema = db[u].schema /\ db'[u].recipient = db[u].recipient
                          /\ db'[u].attester = db[u].attester /\ db'[u].ref = db[u].ref
    BY <1>1 DEF SameMade
  <1>4. /\ received \in [Accounts \X Schemas -> Seq(Uuids)]
        /\ sent \in [Attesters \X Schemas -> Seq(Uuids)]
        /\ schemaAttestations \in [Schemas -> Seq(Uuids)]
        /\ related \in [Uuids -> Seq(Uuids)]
    BY DEF IInv, ASTypeOK
  <1>5. Seq(Uuids) \subseteq Seq(Nat)
    <2>1. Uuids \subseteq Nat
      BY ASAssumption DEF Uuids
    <2> QED
      BY <2>1, SeqMonotonic
  <1> HIDE DEF n
  <1>6. ASSUME NEW a \in Accounts, NEW s \in Schemas
        PROVE  Lists(received'[<<a, s>>], {u \in DOMAIN db' : db'[u].recipient = a /\ db'[u].schema = s})
    <2> DEFINE old == {u \in 1 .. n : db[u].recipient = a /\ db[u].schema = s}
               new == {u \in DOMAIN db' : db'[u].recipient = a /\ db'[u].schema = s}
    <2>1. Lists(received[<<a, s>>], old) /\ received[<<a, s>>] \in Seq(Nat) /\ old \subseteq 1 .. n
      <3>1. received[<<a, s>>] \in Seq(Uuids) /\ received[<<a, s>>] \in Seq(Nat)
        BY <1>4, <1>5
      <3>2. Lists(received[<<a, s>>], old)
        BY <1>1 DEF ListsMatchAttestations
      <3> QED
        BY <3>1, <3>2
    <2>2. received'[<<a, s>>] = IF a = acct /\ s = schema THEN Append(received[<<a, s>>], n + 1)
                            ELSE received[<<a, s>>]
      BY <1>2, <1>4 DEF Enlist
    <2>3. new = IF a = acct /\ s = schema THEN old \cup {n + 1} ELSE old
      BY <1>1, <1>2, <1>3
    <2> HIDE DEF old, new
    <2>4. Lists(received'[<<a, s>>], new)
      <3>1. CASE a = acct /\ s = schema
        <4>1. Lists(Append(received[<<a, s>>], n + 1), old \cup {n + 1})
          BY <1>1, <2>1, ListsAppend
        <4> QED
          BY <2>2, <2>3, <3>1, <4>1
      <3>2. CASE ~(a = acct /\ s = schema)
        BY <2>1, <2>2, <2>3, <3>2
      <3> QED
        BY <3>1, <3>2
    <2> QED
      BY <2>4 DEF new
  <1>7. ASSUME NEW a \in Attesters, NEW s \in Schemas
        PROVE  Lists(sent'[<<a, s>>], {u \in DOMAIN db' : db'[u].attester = a /\ db'[u].schema = s})
    <2> DEFINE old == {u \in 1 .. n : db[u].attester = a /\ db[u].schema = s}
               new == {u \in DOMAIN db' : db'[u].attester = a /\ db'[u].schema = s}
    <2>1. Lists(sent[<<a, s>>], old) /\ sent[<<a, s>>] \in Seq(Nat) /\ old \subseteq 1 .. n
      <3>1. sent[<<a, s>>] \in Seq(Uuids) /\ sent[<<a, s>>] \in Seq(Nat)
        BY <1>4, <1>5
      <3>2. Lists(sent[<<a, s>>], old)
        BY <1>1 DEF ListsMatchAttestations
      <3> QED
        BY <3>1, <3>2
    <2>2. sent'[<<a, s>>] = IF a = attester /\ s = schema THEN Append(sent[<<a, s>>], n + 1) ELSE sent[<<a, s>>]
      BY <1>2, <1>4 DEF Enlist
    <2>3. new = IF a = attester /\ s = schema THEN old \cup {n + 1} ELSE old
      BY <1>1, <1>2, <1>3
    <2> HIDE DEF old, new
    <2>4. Lists(sent'[<<a, s>>], new)
      <3>1. CASE a = attester /\ s = schema
        <4>1. Lists(Append(sent[<<a, s>>], n + 1), old \cup {n + 1})
          BY <1>1, <2>1, ListsAppend
        <4> QED
          BY <2>2, <2>3, <3>1, <4>1
      <3>2. CASE ~(a = attester /\ s = schema)
        BY <2>1, <2>2, <2>3, <3>2
      <3> QED
        BY <3>1, <3>2
    <2> QED
      BY <2>4 DEF new
  <1>8. ASSUME NEW s \in Schemas
        PROVE  Lists(schemaAttestations'[s], {u \in DOMAIN db' : db'[u].schema = s})
    <2> DEFINE old == {u \in 1 .. n : db[u].schema = s}
               new == {u \in DOMAIN db' : db'[u].schema = s}
    <2>1. Lists(schemaAttestations[s], old) /\ schemaAttestations[s] \in Seq(Nat) /\ old \subseteq 1 .. n
      <3>1. schemaAttestations[s] \in Seq(Uuids) /\ schemaAttestations[s] \in Seq(Nat)
        BY <1>4, <1>5
      <3>2. Lists(schemaAttestations[s], old)
        BY <1>1 DEF ListsMatchAttestations
      <3> QED
        BY <3>1, <3>2
    <2>2. schemaAttestations'[s] = IF s = schema THEN Append(schemaAttestations[s], n + 1)
                                   ELSE schemaAttestations[s]
      BY <1>2, <1>4 DEF Enlist
    <2>3. new = IF s = schema THEN old \cup {n + 1} ELSE old
      BY <1>1, <1>2, <1>3
    <2> HIDE DEF old, new
    <2>4. Lists(schemaAttestations'[s], new)
      <3>1. CASE s = schema
        <4>1. Lists(Append(schemaAttestations[s], n + 1), old \cup {n + 1})
          BY <1>1, <2>1, ListsAppend
        <4> QED
          BY <2>2, <2>3, <3>1, <4>1
      <3>2. CASE ~(s = schema)
        BY <2>1, <2>2, <2>3, <3>2
      <3> QED
        BY <3>1, <3>2
    <2> QED
      BY <2>4 DEF new
  <1>9. ASSUME NEW uuid \in Uuids
        PROVE  Lists(related'[uuid], {u \in DOMAIN db' : db'[u].ref = uuid})
    <2> DEFINE old == {u \in 1 .. n : db[u].ref = uuid}
               new == {u \in DOMAIN db' : db'[u].ref = uuid}
    <2>1. Lists(related[uuid], old) /\ related[uuid] \in Seq(Nat) /\ old \subseteq 1 .. n
      <3>1. related[uuid] \in Seq(Uuids) /\ related[uuid] \in Seq(Nat)
        BY <1>4, <1>5
      <3>2. Lists(related[uuid], old)
        BY <1>1 DEF ListsMatchAttestations
      <3> QED
        BY <3>1, <3>2
    <2>2. related'[uuid] = IF uuid = ref THEN Append(related[uuid], n + 1) ELSE related[uuid]
      <3>1. uuid # 0
        BY DEF Uuids
      <3> QED
        BY <1>2, <1>4, <3>1 DEF Enlist
    <2>3. new = IF uuid = ref THEN old \cup {n + 1} ELSE old
      BY <1>1, <1>2, <1>3
    <2> HIDE DEF old, new
    <2>4. Lists(related'[uuid], new)
      <3>1. CASE uuid = ref
        <4>1. Lists(Append(related[uuid], n + 1), old \cup {n + 1})
          BY <1>1, <2>1, ListsAppend
        <4> QED
          BY <2>2, <2>3, <3>1, <4>1
      <3>2. CASE ~(uuid = ref)
        BY <2>1, <2>2, <2>3, <3>2
      <3> QED
        BY <3>1, <3>2
    <2> QED
      BY <2>4 DEF new
  <1> QED
    BY <1>6, <1>7, <1>8, <1>9 DEF ListsMatchAttestations, Lists

LEMMA StepLists ==
    ASSUME IInv, ListsMatchAttestations, [Next]_vars
    PROVE  ListsMatchAttestations'
  <1>1. \A u \in DOMAIN db : SameMade(u)
    BY ListsMove
  <1>2. ASSUME NEW schema \in Schemas, NEW acct \in Accounts, NEW ref \in Nat, NEW data,
               NEW attester \in Attesters, Attesting(acct, schema, ref, data, attester)
        PROVE  ListsMatchAttestations'
    BY <1>1, <1>2, AttestingLists
  <1>3. ASSUME DOMAIN db' = DOMAIN db, UNCHANGED <<received, sent, schemaAttestations, related>>
        PROVE  ListsMatchAttestations'
    <2>1. \A a \in Accounts, s \in Schemas :
             {u \in DOMAIN db' : db'[u].recipient = a /\ db'[u].schema = s}
                = {u \in DOMAIN db : db[u].recipient = a /\ db[u].schema = s}
      BY <1>1, <1>3 DEF SameMade
    <2>2. \A a \in Attesters, s \in Schemas :
             {u \in DOMAIN db' : db'[u].attester = a /\ db'[u].schema = s}
                = {u \in DOMAIN db : db[u].attester = a /\ db[u].schema = s}
      BY <1>1, <1>3 DEF SameMade
    <2>3. \A s \in Schemas :
             {u \in DOMAIN db' : db'[u].schema = s} = {u \in DOMAIN db : db[u].schema = s}
      BY <1>1, <1>3 DEF SameMade
    <2>4. \A uuid \in Uuids :
             {u \in DOMAIN db' : db'[u].ref = uuid} = {u \in DOMAIN db : db[u].ref = uuid}
      BY <1>1, <1>3 DEF SameMade
    <2> QED
      BY <1>3, <2>1, <2>2, <2>3, <2>4 DEF ListsMatchAttestations, Lists
  <1>4. MarketSchemas \subseteq Schemas /\ OpenSchemas \subseteq Schemas /\ 0 \in Nat
    BY DEF Schemas
  <1> QED
    BY <1>2, <1>3, <1>4, ListsMove

\* Whoever attests, for whom and with what reference, LendNestAS finds each attestation
\* again under its recipient, its attester, its schema and what it refers to, once and
\* in the order they were made.
THEOREM ListsMatch == Spec => []ListsMatchAttestations
  <1>1. Init => ListsMatchAttestations
    <2> SUFFICES ASSUME Init PROVE ListsMatchAttestations
      OBVIOUS
    <2>1. DOMAIN db = {}
      BY DEF Init, ASInit
    <2>2. ASSUME NEW uuids, uuids = {} PROVE Lists(<< >>, uuids)
      BY <2>2 DEF Lists, ToSet
    <2>3. /\ \A key \in Accounts \X Schemas : received[key] = << >>
          /\ \A key \in Attesters \X Schemas : sent[key] = << >>
          /\ \A s \in Schemas : schemaAttestations[s] = << >>
          /\ \A uuid \in Uuids : related[uuid] = << >>
      BY DEF Init, ASInit
    <2> QED
      BY <2>1, <2>2, <2>3 DEF ListsMatchAttestations
  <1>2. IInv /\ ListsMatchAttestations /\ [Next]_vars => ListsMatchAttestations'
    BY StepLists
  <1> QED
    BY <1>1, <1>2, Invariance, PTL DEF Spec

-----------------------------------------------------------------------------
(* The two contracts together are the MarketRegistry of the loan model *)

\* What stands for stakeholders and attestation there.
RoleSets == [m \in Markets |-> [role \in MarketSchemas |-> ToSet(members[m][role])]]
GoodTimes == [m \in Markets |-> [role \in MarketSchemas |-> [acct \in Accounts |->
                 GoodUntil(attestationIds[m][role][acct])]]]

GoodIn(d, uuid) ==
    IF uuid \in DOMAIN d /\ d[uuid].revocationTime = 0 THEN d[uuid].expirationTime ELSE 0

LEMMA GoodTimesForm ==
    \A m \in Markets, role \in MarketSchemas, acct \in Accounts :
       /\ GoodTimes[m][role][acct] = GoodIn(db, attestationIds[m][role][acct])
       /\ GoodTimes'[m][role][acct] = GoodIn(db', attestationIds'[m][role][acct])
  BY DEF GoodTimes, GoodUntil, IsAttestationValid, GoodIn

\* One account's time changes.
LEMMA TimeMoves ==
    ASSUME NEW m \in Markets, NEW role \in MarketSchemas, NEW acct \in Accounts, NEW time,
           GoodIn(db', attestationIds'[m][role][acct]) = time,
           \A n \in Markets, r \in MarketSchemas, a \in Accounts :
              ~(n = m /\ r = role /\ a = acct) =>
                 GoodIn(db', attestationIds'[n][r][a]) = GoodIn(db, attestationIds[n][r][a])
    PROVE  GoodTimes' = [GoodTimes EXCEPT ![m][role][acct] = time]
  <1> DEFINE moved == [GoodTimes EXCEPT ![m][role][acct] = time]
  <1>1. /\ GoodTimes = [n \in Markets |-> [r \in MarketSchemas |-> [a \in Accounts |->
                           GoodTimes[n][r][a]]]]
        /\ GoodTimes' = [n \in Markets |-> [r \in MarketSchemas |-> [a \in Accounts |->
                            GoodTimes'[n][r][a]]]]
    BY DEF GoodTimes
  <1> DEFINE Ctor(f) ==
               [n \in Markets |-> [r \in MarketSchemas |-> [a \in Accounts |-> f[n][r][a]]]]
  <1>2. moved = [n \in Markets |-> [r \in MarketSchemas |-> [a \in Accounts |->
                    IF n = m /\ r = role /\ a = acct THEN time ELSE GoodTimes[n][r][a]]]]
    <2>1. ASSUME NEW f, f = Ctor(f)
          PROVE  [f EXCEPT ![m][role][acct] = time] =
                    [n \in Markets |-> [r \in MarketSchemas |-> [a \in Accounts |->
                       IF n = m /\ r = role /\ a = acct THEN time ELSE f[n][r][a]]]]
      <3> DEFINE row == [f[m][role] EXCEPT ![acct] = time]
                 page == [f[m] EXCEPT ![role] = row]
                 g == [f EXCEPT ![m] = page]
                 h(n) == [r \in MarketSchemas |-> [a \in Accounts |->
                             IF n = m /\ r = role /\ a = acct THEN time ELSE f[n][r][a]]]
      <3>1. row = [a \in Accounts |-> IF a = acct THEN time ELSE f[m][role][a]]
        <4>1. f[m][role] = [a \in Accounts |-> f[m][role][a]]
          BY <2>1
        <4> QED
          BY <4>1
      <3> HIDE DEF row
      <3>2. page = [r \in MarketSchemas |->
                       IF r = role THEN row ELSE [a \in Accounts |-> f[m][r][a]]]
        <4>1. f[m] = [r \in MarketSchemas |-> [a \in Accounts |-> f[m][r][a]]]
          BY <2>1
        <4> QED
          BY <4>1
      <3> HIDE DEF page
      <3>3. g = [n \in Markets |->
                    IF n = m THEN page
                    ELSE [r \in MarketSchemas |-> [a \in Accounts |-> f[n][r][a]]]]
        BY <2>1
      <3>4. ASSUME NEW n \in Markets
            PROVE  g[n] = h(n)
        <4>1. CASE n = m
          <5>1. ASSUME NEW r \in MarketSchemas
                PROVE  page[r] = [a \in Accounts |->
                                    IF n = m /\ r = role /\ a = acct THEN time ELSE f[n][r][a]]
            <6>1. CASE r = role
              BY <3>1, <3>2, <4>1, <6>1
            <6>2. CASE r # role
              BY <3>2, <4>1, <6>2
            <6> QED
              BY <6>1, <6>2
          <5> QED
            BY <3>2, <3>3, <4>1, <5>1
        <4>2. CASE n # m
          BY <3>3, <4>2
        <4> QED
          BY <4>1, <4>2
      <3>5. DOMAIN g = Markets /\ g = [n \in Markets |-> g[n]]
        BY <3>3
      <3> HIDE DEF g, h
      <3>6. g = [n \in Markets |-> h(n)]
        BY <3>4, <3>5
      <3> QED
        BY <3>6 DEF g, h, page, row
    <2>2. GoodTimes = Ctor(GoodTimes)
      BY <1>1
    <2> HIDE DEF Ctor
    <2> QED
      BY <2>1, <2>2
  <1>3. \A n \in Markets, r \in MarketSchemas, a \in Accounts :
           GoodTimes'[n][r][a] = IF n = m /\ r = role /\ a = acct THEN time ELSE GoodTimes[n][r][a]
    BY GoodTimesForm
  <1> HIDE DEF moved
  <1>4. GoodTimes' = moved
    BY <1>1, <1>2, <1>3
  <1> QED
    BY <1>4 DEF moved

LEMMA TimesStay ==
    ASSUME \A n \in Markets, r \in MarketSchemas, a \in Accounts :
              GoodIn(db', attestationIds'[n][r][a]) = GoodIn(db, attestationIds[n][r][a])
    PROVE  GoodTimes' = GoodTimes
  <1>1. /\ GoodTimes = [n \in Markets |-> [r \in MarketSchemas |-> [a \in Accounts |->
                           GoodTimes[n][r][a]]]]
        /\ GoodTimes' = [n \in Markets |-> [r \in MarketSchemas |-> [a \in Accounts |->
                            GoodTimes'[n][r][a]]]]
    BY DEF GoodTimes
  <1> QED
    BY <1>1, GoodTimesForm

\* One set of members changes.
LEMMA SetMoves ==
    ASSUME NEW m \in Markets, NEW role \in MarketSchemas, NEW s,
           members \in [Markets -> [MarketSchemas -> Seq(Accounts)]],
           members' = [members EXCEPT ![m][role] = s]
    PROVE  RoleSets' = [RoleSets EXCEPT ![m][role] = ToSet(s)]
  <1>1. RoleSets' = [n \in Markets |-> [r \in MarketSchemas |-> ToSet(members'[n][r])]]
    BY DEF RoleSets
  <1>2. \A n \in Markets, r \in MarketSchemas :
           ToSet(members'[n][r]) = IF n = m /\ r = role THEN ToSet(s) ELSE ToSet(members[n][r])
    OBVIOUS
  <1>3. RoleSets = [n \in Markets |-> [r \in MarketSchemas |-> ToSet(members[n][r])]]
    BY DEF RoleSets
  <1>4. [RoleSets EXCEPT ![m][role] = ToSet(s)] =
           [n \in Markets |-> [r \in MarketSchemas |->
               IF n = m /\ r = role THEN ToSet(s) ELSE ToSet(members[n][r])]]
    BY <1>3
  <1> QED
    BY <1>1, <1>2, <1>4

LEMMA AdmitMaps ==
    ASSUME IInv, NEW m \in ManagedMarkets, NEW role \in MarketSchemas, NEW acct \in Stakeholders,
           NEW expiration \in Expirations, NEW attester \in Attesters,
           Admitting(m, role, acct, expiration, attester)
    PROVE  /\ RoleSets' = [RoleSets EXCEPT ![m][role] = RoleSets[m][role] \cup {acct}]
           /\ GoodTimes' = [GoodTimes EXCEPT ![m][role][acct] = expiration]
           /\ marketOwner[m] # NoAccount /\ expiration > now
           /\ UNCHANGED registryVars
  <1>1. /\ m \in Markets /\ acct \in Accounts /\ MarketData(m, acct) \in Data /\ role \in Schemas
        /\ expiration \in Nat /\ 0 \in Nat /\ ASTypeOK
    BY AttestedAssumption DEF MarketData, Schemas, IInv
  <1>2. /\ NewAttestation(acct, role, expiration, 0, MarketData(m, acct), attester)
        /\ attestationIds' = [attestationIds EXCEPT ![m][role][acct] = Len(db) + 1]
        /\ members' = [members EXCEPT ![m][role] = SetAdd(members[m][role], acct)]
        /\ marketOwner[m] # NoAccount /\ UNCHANGED registryVars
    BY DEF Admitting, Admit
  <1>3. /\ members \in [Markets -> [MarketSchemas -> Seq(Accounts)]]
        /\ members[m][role] \in Seq(Accounts) /\ IsInjective(members[m][role])
    BY <1>1 DEF IInv, MembersOK
  <1>4. RoleSets' = [RoleSets EXCEPT ![m][role] = RoleSets[m][role] \cup {acct}]
    <2>1. ToSet(SetAdd(members[m][role], acct)) = RoleSets[m][role] \cup {acct}
      BY <1>1, <1>3, SetAddForm DEF RoleSets
    <2> DEFINE s == SetAdd(members[m][role], acct)
    <2>2. members' = [members EXCEPT ![m][role] = s]
      BY <1>2
    <2> HIDE DEF s
    <2>3. RoleSets' = [RoleSets EXCEPT ![m][role] = ToSet(s)]
      BY <1>1, <1>3, <2>2, SetMoves
    <2> QED
      BY <2>1, <2>3 DEF s
  <1> DEFINE uuid == Len(db) + 1
             new == [schema |-> role, recipient |-> acct, attester |-> attester,
                     data |-> MarketData(m, acct), ref |-> 0, expirationTime |-> expiration,
                     revocationTime |-> 0]
  <1>5. /\ DOMAIN db = 1 .. Len(db) /\ DOMAIN db' = DOMAIN db \cup {uuid}
        /\ \A u \in DOMAIN db : db'[u] = db[u]
        /\ db'[uuid] = new
    BY <1>1, <1>2, AttestedDb
  <1>6. new.revocationTime = 0 /\ new.expirationTime = expiration
    OBVIOUS
  <1>7. 0 \notin DOMAIN db /\ 0 \notin DOMAIN db'
    <2>1. Len(db) \in Nat
      BY <1>1 DEF ASTypeOK
    <2> QED
      BY <1>5, <2>1
  <1> HIDE DEF new, uuid
  <1>8. \A n \in Markets, r \in MarketSchemas, a \in Accounts :
           attestationIds'[n][r][a] = IF n = m /\ r = role /\ a = acct THEN uuid
                                      ELSE attestationIds[n][r][a]
    BY <1>1, <1>2 DEF uuid, IInv, IdsFit
  <1>9. GoodIn(db', attestationIds'[m][role][acct]) = expiration
    BY <1>1, <1>5, <1>6, <1>8 DEF GoodIn
  <1>10. ASSUME NEW n \in Markets, NEW r \in MarketSchemas, NEW a \in Accounts,
                ~(n = m /\ r = role /\ a = acct)
         PROVE  GoodIn(db', attestationIds'[n][r][a]) = GoodIn(db, attestationIds[n][r][a])
    <2>1. attestationIds'[n][r][a] = attestationIds[n][r][a]
      BY <1>8, <1>10
    <2>2. attestationIds[n][r][a] = 0 \/ attestationIds[n][r][a] \in DOMAIN db
      BY DEF IInv, IdsFit
    <2> QED
      BY <1>5, <1>7, <2>1, <2>2 DEF GoodIn
  <1>11. GoodTimes' = [GoodTimes EXCEPT ![m][role][acct] = expiration]
    BY <1>1, <1>9, <1>10, TimeMoves
  <1> QED
    BY <1>2, <1>4, <1>11 DEF NewAttestation

\* A revocation takes the time from one member, or from nobody.
LEMMA RevokeMaps ==
    ASSUME IInv, RevokeStep
    PROVE  /\ RoleSets' = RoleSets /\ UNCHANGED registryVars
           /\ \/ GoodTimes' = GoodTimes
              \/ \E m \in ManagedMarkets, role \in MarketSchemas, acct \in Stakeholders :
                    GoodTimes' = [GoodTimes EXCEPT ![m][role][acct] = 0]
  <1>1. PICK uuid \in DOMAIN db, attester \in Accounts : MarkRevoked(uuid, attester, now)
    BY DEF RevokeStep
  <1>2. ASTypeOK /\ now \in Nat /\ now # 0
    BY AttestedAssumption DEF IInv
  <1>3. /\ DOMAIN db = 1 .. Len(db) /\ DOMAIN db' = DOMAIN db
        /\ \A u \in DOMAIN db : u # uuid => db'[u] = db[u]
        /\ db'[uuid] = [db[uuid] EXCEPT !.revocationTime = now]
    BY <1>1, <1>2, RevokedDb
  <1>4. db'[uuid].revocationTime = now
    <2>1. db[uuid] \in AttestationType
      BY <1>2 DEF ASTypeOK
    <2> QED
      BY <1>3, <2>1 DEF AttestationType
  <1>5. UNCHANGED <<registryVars, members, attestationIds>>
    BY DEF RevokeStep, memberVars
  <1>6. ASSUME NEW u, u # uuid PROVE GoodIn(db', u) = GoodIn(db, u)
    BY <1>3, <1>6 DEF GoodIn
  <1>7. GoodIn(db', uuid) = 0
    BY <1>2, <1>4 DEF GoodIn
  <1>8. CASE \E m \in Markets, role \in MarketSchemas, acct \in Accounts :
                attestationIds[m][role][acct] = uuid
    <2>1. PICK m \in Markets, role \in MarketSchemas, acct \in Accounts :
                attestationIds[m][role][acct] = uuid
      BY <1>8
    <2>2. uuid # 0
      <3>1. Len(db) \in Nat
        BY <1>2 DEF ASTypeOK
      <3> QED
        BY <1>3, <3>1
    <2>3. m \in ManagedMarkets /\ acct \in Stakeholders
      BY <2>1, <2>2 DEF IInv, IdsFit
    <2>4. ASSUME NEW n \in Markets, NEW r \in MarketSchemas, NEW a \in Accounts,
                 attestationIds[n][r][a] = uuid
          PROVE  n = m /\ r = role /\ a = acct
      <3>1. /\ db[uuid].schema = role /\ db[uuid].schema = r
            /\ db[uuid].data = MarketData(m, acct) /\ db[uuid].data = MarketData(n, a)
        BY <2>1, <2>2, <2>4 DEF IInv, IdsFit
      <3>2. MarketData(m, acct).market = m /\ MarketData(m, acct).account = acct
            /\ MarketData(n, a).market = n /\ MarketData(n, a).account = a
        BY DEF MarketData
      <3> QED
        BY <3>1, <3>2
    <2>5. GoodTimes' = [GoodTimes EXCEPT ![m][role][acct] = 0]
      <3>1. GoodIn(db', attestationIds'[m][role][acct]) = 0
        BY <1>5, <1>7, <2>1
      <3>2. ASSUME NEW n \in Markets, NEW r \in MarketSchemas, NEW a \in Accounts,
                   ~(n = m /\ r = role /\ a = acct)
            PROVE  GoodIn(db', attestationIds'[n][r][a]) = GoodIn(db, attestationIds[n][r][a])
        BY <1>5, <1>6, <2>4, <3>2
      <3> DEFINE none == 0
      <3> HIDE DEF none
      <3>3. GoodTimes' = [GoodTimes EXCEPT ![m][role][acct] = none]
        BY <3>1, <3>2, TimeMoves DEF none
      <3> QED
        BY <3>3 DEF none
    <2> QED
      BY <1>5, <2>3, <2>5 DEF RoleSets
  <1>9. CASE ~\E m \in Markets, role \in MarketSchemas, acct \in Accounts :
                attestationIds[m][role][acct] = uuid
    <2>1. GoodTimes' = GoodTimes
      BY <1>5, <1>6, <1>9, TimesStay
    <2> QED
      BY <1>5, <2>1 DEF RoleSets
  <1> QED
    BY <1>8, <1>9

LEMMA RemoveMaps ==
    ASSUME IInv, NEW m \in ManagedMarkets, NEW role \in MarketSchemas, NEW acct \in Stakeholders,
           RemoveMember(m, role, acct)
    PROVE  /\ RoleSets' = [RoleSets EXCEPT ![m][role] = RoleSets[m][role] \ {acct}]
           /\ GoodTimes' = GoodTimes /\ UNCHANGED registryVars
  <1>1. m \in Markets /\ acct \in Accounts
    BY AttestedAssumption
  <1>2. /\ members \in [Markets -> [MarketSchemas -> Seq(Accounts)]]
        /\ members[m][role] \in Seq(Accounts) /\ IsInjective(members[m][role])
    BY <1>1 DEF IInv, MembersOK
  <1>3. ToSet(SetRemove(members[m][role], acct)) = RoleSets[m][role] \ {acct}
    BY <1>1, <1>2, SetRemoveForm DEF RoleSets
  <1>4. /\ members' = [members EXCEPT ![m][role] = SetRemove(members[m][role], acct)]
        /\ UNCHANGED <<db, attestationIds, registryVars>>
    BY DEF RemoveMember, asVars
  <1>5. RoleSets' = [RoleSets EXCEPT ![m][role] = RoleSets[m][role] \ {acct}]
    <2> DEFINE s == SetRemove(members[m][role], acct)
    <2>1. members' = [members EXCEPT ![m][role] = s]
      BY <1>4
    <2> HIDE DEF s
    <2>2. RoleSets' = [RoleSets EXCEPT ![m][role] = ToSet(s)]
      BY <1>1, <1>2, <2>1, SetMoves
    <2> QED
      BY <1>3, <2>2 DEF s
  <1>6. GoodTimes' = GoodTimes
    BY <1>4, TimesStay
  <1> QED
    BY <1>4, <1>5, <1>6

LEMMA OtherMaps ==
    ASSUME OpenStep \/ OtherStep, IInv
    PROVE  RoleSets' = RoleSets /\ GoodTimes' = GoodTimes
  <1>1. UNCHANGED <<members, attestationIds>>
    BY DEF OpenStep, OtherStep, memberVars
  <1>2. ASSUME OpenStep, NEW n \in Markets, NEW r \in MarketSchemas, NEW a \in Accounts
        PROVE  GoodIn(db', attestationIds[n][r][a]) = GoodIn(db, attestationIds[n][r][a])
    <2>1. PICK acct \in Accounts, schema \in Schemas, expiration \in Nat, ref \in Nat,
               data \in Data, attester \in Attesters :
               NewAttestation(acct, schema, expiration, ref, data, attester)
      <3>1. \A acct \in Stakeholders, m \in ManagedMarkets :
               acct \in Accounts /\ MarketData(m, acct) \in Data
        BY AttestedAssumption DEF MarketData
      <3> QED
        BY <1>2, <3>1, AttestedAssumption DEF OpenStep, Schemas, Attesters
    <2>2. ASTypeOK /\ Len(db) \in Nat
      BY DEF IInv, ASTypeOK
    <2>3. /\ DOMAIN db = 1 .. Len(db) /\ DOMAIN db' = DOMAIN db \cup {Len(db) + 1}
          /\ \A u \in DOMAIN db : db'[u] = db[u]
      BY <2>1, <2>2, AttestedDb
    <2>4. attestationIds[n][r][a] = 0 \/ attestationIds[n][r][a] \in DOMAIN db
      BY DEF IInv, IdsFit
    <2> QED
      BY <2>2, <2>3, <2>4 DEF GoodIn
  <1>3. ASSUME OtherStep, NEW n \in Markets, NEW r \in MarketSchemas, NEW a \in Accounts
        PROVE  GoodIn(db', attestationIds[n][r][a]) = GoodIn(db, attestationIds[n][r][a])
    <2>1. db' = db
      BY <1>3 DEF OtherStep
    <2> QED
      BY <2>1
  <1>4. \A n \in Markets, r \in MarketSchemas, a \in Accounts :
           GoodIn(db', attestationIds'[n][r][a]) = GoodIn(db, attestationIds[n][r][a])
    BY <1>1, <1>2, <1>3
  <1>5. GoodTimes' = GoodTimes
    BY <1>4, TimesStay
  <1> QED
    BY <1>1, <1>5 DEF RoleSets

LEMMA InitMaps == Init => MR!MRInit(InitialOwner, InitialSettings)
  <1> SUFFICES ASSUME Init PROVE MR!MRInit(InitialOwner, InitialSettings)
    OBVIOUS
  <1>1. RoleSets = [m \in Markets |-> [role \in MarketSchemas |-> {}]]
    <2>1. ASSUME NEW m \in Markets, NEW role \in MarketSchemas PROVE ToSet(members[m][role]) = {}
      <3>1. members[m][role] = << >>
        BY DEF Init
      <3> QED
        BY <3>1 DEF ToSet
    <2> QED
      BY <2>1 DEF RoleSets
  <1>2. GoodTimes = [m \in Markets |-> [role \in MarketSchemas |-> [acct \in Accounts |-> 0]]]
    <2>1. ASSUME NEW uuid PROVE GoodUntil(uuid) = 0
      <3>1. DOMAIN db = {}
        BY DEF Init, ASInit
      <3> QED
        BY <3>1 DEF GoodUntil, IsAttestationValid
    <2> QED
      BY <2>1 DEF GoodTimes
  <1> QED
    BY <1>1, <1>2, AttestedAssumption DEF Init, MR!MRInit, RoleSets, GoodTimes

LEMMA StepMaps ==
    ASSUME IInv, [Next]_vars
    PROVE  MR!MarketNext(now) \/ UNCHANGED MR!marketVars
  <1>1. CASE AdmitStep
    <2>1. PICK m \in ManagedMarkets, role \in MarketSchemas, acct \in Stakeholders,
               expiration \in Expirations, attester \in Attesters :
               Admitting(m, role, acct, expiration, attester)
      BY <1>1 DEF AdmitStep
    <2>2. MR!AttestStakeholder(m, role, acct, expiration, now)
      <3>1. /\ RoleSets' = [RoleSets EXCEPT ![m][role] = RoleSets[m][role] \cup {acct}]
            /\ GoodTimes' = [GoodTimes EXCEPT ![m][role][acct] = expiration]
            /\ marketOwner[m] # NoAccount /\ expiration > now
            /\ UNCHANGED registryVars
        BY <2>1, AdmitMaps
      <3> QED
        BY <3>1 DEF MR!AttestStakeholder, RoleSets, GoodTimes, registryVars
    <2> QED
      BY <2>2, AttestedAssumption DEF MR!MarketNext
  <1>2. CASE RemoveStep
    <2>1. PICK m \in ManagedMarkets, role \in MarketSchemas, acct \in Stakeholders :
               RemoveMember(m, role, acct)
      BY <1>2 DEF RemoveStep
    <2>2. MR!RemoveStakeholder(m, role, acct)
      <3>1. /\ RoleSets' = [RoleSets EXCEPT ![m][role] = RoleSets[m][role] \ {acct}]
            /\ GoodTimes' = GoodTimes /\ UNCHANGED registryVars
        BY <2>1, RemoveMaps
      <3> QED
        BY <3>1 DEF MR!RemoveStakeholder, RoleSets, GoodTimes, registryVars
    <2> QED
      BY <2>2, AttestedAssumption DEF MR!MarketNext
  <1>3. CASE RevokeStep
    <2>1. CASE GoodTimes' = GoodTimes
      BY <1>3, <2>1, RevokeMaps DEF MR!marketVars, RoleSets, GoodTimes, registryVars
    <2>2. ASSUME NEW m \in ManagedMarkets, NEW role \in MarketSchemas, NEW acct \in Stakeholders,
                 GoodTimes' = [GoodTimes EXCEPT ![m][role][acct] = 0]
          PROVE  MR!MarketNext(now)
      <3>1. MR!RevokeAttestation(m, role, acct)
        BY <1>3, <2>2, RevokeMaps DEF MR!RevokeAttestation, RoleSets, GoodTimes, registryVars
      <3> QED
        BY <3>1, AttestedAssumption DEF MR!MarketNext
    <2> QED
      BY <1>3, <2>1, <2>2, RevokeMaps
  <1>4. CASE MarketSetting
    BY <1>4 DEF MarketSetting, MR!MarketNext
  <1>5. CASE (OpenStep \/ OtherStep) /\ UNCHANGED registryVars
    BY <1>5, OtherMaps DEF MR!marketVars, RoleSets, GoodTimes, registryVars
  <1>6. CASE OtherStep
    BY <1>4, <1>5, <1>6 DEF OtherStep
  <1>7. CASE OpenStep
    BY <1>5, <1>7 DEF OpenStep
  <1> QED
    BY <1>1, <1>2, <1>3, <1>6, <1>7, StepForm, InvType

\* The registry and the attestation service together behave as the loan model's
\* MarketRegistry: what is signed, attested or revoked in the service changes who
\* is a member, and until when, only as an operation of that module would.
THEOREM MarketsImplemented == Spec => ImplementsMarketRegistry
  <1>1. IInv /\ [Next]_vars => [MR!MarketNext(now)]_(MR!marketVars)
    BY StepMaps
  <1> QED
    BY <1>1, InitMaps, Invariance, PTL DEF Spec, ImplementsMarketRegistry

-----------------------------------------------------------------------------
(* Paging through the attestations *)

\* What FlattenSeq puts together: f[i] is the first i parts of s end to end.
IsFlat(s, f) == f = [i \in 1 .. Len(s) |-> IF i = 1 THEN s[i] ELSE f[i - 1] \o s[i]]

\* FlattenSeq by its definition, which picks a function of that kind;
LEMMA FlattenDef == \A s : Len(s) # 0 => FlattenSeq(s) = (CHOOSE f : IsFlat(s, f))[Len(s)]
  BY DEF FlattenSeq, IsFlat

\* any other of that kind gives the same, since the two first differ nowhere.
LEMMA FlattenIs ==
    ASSUME NEW s, Len(s) \in Nat \ {0}, NEW g, IsFlat(s, g)
    PROVE  FlattenSeq(s) = g[Len(s)]
  <1> DEFINE f == CHOOSE h : IsFlat(s, h)
             n == Len(s)
             B == {i \in 1 .. n : f[i] # g[i]}
  <1>1. IsFlat(s, f)
    OBVIOUS
  <1>2. FlattenSeq(s) = f[n]
    BY FlattenDef
  <1> HIDE DEF f
  <1>3. /\ \A i \in 1 .. n : f[i] = IF i = 1 THEN s[i] ELSE f[i - 1] \o s[i]
        /\ \A i \in 1 .. n : g[i] = IF i = 1 THEN s[i] ELSE g[i - 1] \o s[i]
    BY <1>1 DEF IsFlat
  <1>4. B = {}
    <2> SUFFICES ASSUME B # {} PROVE FALSE
      OBVIOUS
    <2>1. PICK i \in B : \A j \in B : i <= j
      <3>1. B \subseteq Nat
        OBVIOUS
      <3> HIDE DEF B
      <3> QED
        BY <3>1, LeastNat
    <2>2. i \in 1 .. n /\ f[i] # g[i]
      OBVIOUS
    <2>3. i # 1 /\ i - 1 \in 1 .. n
      BY <1>3, <2>2
    <2>4. i - 1 \notin B
      BY <2>1, <2>2
    <2>5. f[i - 1] = g[i - 1]
      BY <2>3, <2>4
    <2> QED
      BY <1>3, <2>2, <2>3, <2>5
  <1> QED
    BY <1>2, <1>4

\* Where the pages of a list of n uuids start, z uuids to a page.
Starts(n, z) == {i \in 0 .. n - 1 : i % z = 0}

\* The pages that start within a list: as many as it takes to cover it, the last one
\* starting before its end.
LEMMA StartsCount ==
    ASSUME NEW n \in Nat \ {0}, NEW z \in Nat \ {0}, NEW M, M = (n - 1) \div z + 1
    PROVE  /\ M \in Nat \ {0} /\ Cardinality(Starts(n, z)) = M
           /\ (M - 1) * z < n /\ n <= M * z
  <1> DEFINE q == (n - 1) \div z
  <1>1. q \in Nat /\ q * z <= n - 1 /\ n - 1 < (q + 1) * z /\ M = q + 1
    BY RoundsDown
  <1> HIDE DEF q
  <1>2. M \in Nat \ {0} /\ M - 1 = q /\ (M - 1) * z < n /\ n <= M * z
    <2>1. M \in Nat \ {0} /\ M - 1 = q
      BY <1>1
    <2>2. (M - 1) * z = q * z /\ M * z = (q + 1) * z
      BY <1>1, <2>1
    <2>3. q * z \in Nat /\ (q + 1) * z \in Nat
      BY <1>1, Multiples
    <2> HIDE DEF q
    <2> QED
      BY <1>1, <2>1, <2>2, <2>3
  <1>3. ExistsBijection(1 .. M, Starts(n, z))
    <2> DEFINE F == [k \in 1 .. M |-> (k - 1) * z]
    <2>1. ASSUME NEW k \in 1 .. M
          PROVE  F[k] \in Starts(n, z)
      <3>1. k - 1 \in Nat /\ k - 1 <= q
        BY <1>1
      <3>2. (k - 1) * z \in Nat /\ q * z \in Nat /\ (k - 1) * z <= q * z /\ ((k - 1) * z) % z = 0
        BY <1>1, <3>1, Multiples
      <3>3. F[k] = (k - 1) * z
        OBVIOUS
      <3> HIDE DEF F
      <3> QED
        BY <1>1, <3>2, <3>3 DEF Starts
    <2>2. ASSUME NEW j \in 1 .. M, NEW k \in 1 .. M, F[j] = F[k]
          PROVE  j = k
      <3>1. j - 1 \in Nat /\ k - 1 \in Nat
        BY <1>1
      <3>2. (j - 1) * z = (k - 1) * z
        BY <2>2
      <3>3. (j - 1) * z <= (k - 1) * z /\ (k - 1) * z <= (j - 1) * z
        BY <3>1, <3>2, Multiples
      <3>4. j - 1 <= k - 1 /\ k - 1 <= j - 1
        BY <3>1, <3>3, Multiples
      <3> QED
        BY <3>1, <3>4, <1>1
    <2>3. ASSUME NEW i \in Starts(n, z)
          PROVE  \E k \in 1 .. M : F[k] = i
      <3> DEFINE j == i \div z
      <3>1. i \in Nat /\ i <= n - 1 /\ i % z = 0
        BY DEF Starts
      <3>2. j \in Nat /\ i = j * z
        BY <3>1, RoundsDown, Exact
      <3> HIDE DEF j
      <3>3. j <= q
        <4>1. (q + 1) * z \in Nat /\ j * z < (q + 1) * z
          BY <1>1, <3>1, <3>2, Multiples
        <4>2. ~ (q + 1 <= j)
          <5>1. (q + 1 <= j) <=> (q + 1) * z <= j * z
            BY <1>1, <3>2, Multiples
          <5>2. j * z \in Nat
            BY <3>1, <3>2
          <5> QED
            BY <5>1, <5>2, <4>1
        <4> QED
          BY <4>2, <1>1, <3>2
      <3>4. j + 1 \in 1 .. M /\ (j + 1) - 1 = j
        BY <1>1, <3>2, <3>3
      <3>5. F[j + 1] = j * z
        BY <3>4
      <3> QED
        BY <3>2, <3>4, <3>5
    <2>4. F \in [1 .. M -> Starts(n, z)]
      BY <2>1
    <2> HIDE DEF F
    <2>5. F \in Injection(1 .. M, Starts(n, z))
      BY <2>2, <2>4 DEF Injection, IsInjective
    <2>6. F \in Surjection(1 .. M, Starts(n, z))
      BY <2>3, <2>4 DEF Surjection
    <2> QED
      BY <2>5, <2>6 DEF Bijection, ExistsBijection
  <1>4. IsFiniteSet(1 .. M) /\ Cardinality(1 .. M) = M
    BY <1>2, FS_Interval
  <1> QED
    BY <1>2, <1>3, <1>4, FS_Bijection

\* Two sequences end to end.
LEMMA ConcatForm ==
    ASSUME NEW S, NEW s \in Seq(S), NEW t \in Seq(S)
    PROVE  s \o t = [i \in 1 .. Len(s) + Len(t) |-> IF i <= Len(s) THEN s[i] ELSE t[i - Len(s)]]
  <1>1. s \o t \in Seq(S) /\ Len(s \o t) = Len(s) + Len(t)
    BY ConcatProperties
  <1>2. s \o t = [i \in 1 .. Len(s) + Len(t) |-> (s \o t)[i]]
    <2>1. \A u \in Seq(S) : u = [i \in 1 .. Len(u) |-> u[i]]
      BY LenProperties
    <2> QED
      BY <1>1, <2>1
  <1>3. \A i \in 1 .. Len(s) + Len(t) :
           (s \o t)[i] = IF i <= Len(s) THEN s[i] ELSE t[i - Len(s)]
    BY ConcatProperties
  <1> QED
    BY <1>2, <1>3

\* The first n elements of a sequence.
Upto(L, n) == [j \in 1 .. n |-> L[j]]

\* Pages of a list, each with the elements from its start on, give the list.
LEMMA PagesJoin ==
    ASSUME NEW S, NEW L \in Seq(S), Len(L) # 0, NEW z \in Nat \ {0},
           NEW M \in Nat \ {0}, (M - 1) * z < Len(L), Len(L) <= M * z,
           NEW page, page = [k \in 1 .. M |->
              [i \in 1 .. IF Len(L) < (k - 1) * z + z THEN Len(L) - (k - 1) * z ELSE z
                 |-> L[(k - 1) * z + i]]]
    PROVE  FlattenSeq(page) = L
  <1> DEFINE n == Len(L)
             upto(k) == IF k * z <= n THEN k * z ELSE n
             g == [k \in 1 .. M |-> Upto(L, upto(k))]
  <1>1. n \in Nat \ {0} /\ L = Upto(L, n)
    BY DEF Upto
  <1> HIDE DEF n
  <1>9. (M - 1) * z < n
    BY DEF n
  <1>2. Len(page) = M /\ page \in Seq(Seq(S))
    <2>1. \A k \in 1 .. M : page[k] \in Seq(S)
      <3> SUFFICES ASSUME NEW k \in 1 .. M PROVE page[k] \in Seq(S)
        OBVIOUS
      <3>1. k - 1 \in Nat /\ M - 1 \in Nat /\ k - 1 <= M - 1
        OBVIOUS
      <3>2. (k - 1) * z \in Nat /\ (M - 1) * z \in Nat /\ (k - 1) * z <= (M - 1) * z
        BY <3>1, Multiples
      <3> DEFINE p == (k - 1) * z
                 len == IF n < p + z THEN n - p ELSE z
      <3>3. p \in Nat /\ p < n
        BY <3>2, <1>1, <1>9, LessAfter
      <3>5. page[k] = [i \in 1 .. len |-> L[p + i]]
        BY DEF n
      <3>6. \A i \in 1 .. n : L[i] \in S
        BY DEF n
      <3> HIDE DEF p
      <3>4. len \in Nat /\ \A i \in 1 .. len : p + i \in 1 .. n
        BY <1>1, <3>3
      <3> HIDE DEF len
      <3> QED
        <4>1. \A i \in 1 .. len : L[p + i] \in S
          BY <3>4, <3>6
        <4>2. [i \in 1 .. len |-> L[p + i]] \in Seq(S)
          BY ONLY <3>4, <4>1
        <4> QED
          BY <4>2, <3>5
    <2> QED
      BY <2>1
  <1>3. \A k \in 1 .. M : upto(k) \in 0 .. n
    BY <1>1, Multiples
  <1>4. ASSUME NEW k \in 1 .. M
        PROVE  g[k] = IF k = 1 THEN page[k] ELSE g[k - 1] \o page[k]
    <2> DEFINE p == (k - 1) * z
               len == IF n < p + z THEN n - p ELSE z
    <2>1. k - 1 \in Nat /\ M - 1 \in Nat /\ k - 1 <= M - 1 /\ (k - 1) + 1 = k
      OBVIOUS
    <2>2. p \in Nat /\ (M - 1) * z \in Nat /\ p <= (M - 1) * z /\ k * z = p + z
      BY <2>1, Multiples
    <2>3. p < n
      BY <2>2, <1>1, <1>9, LessAfter
    <2>4. page[k] = [i \in 1 .. len |-> L[p + i]]
      BY DEF n
    <2>5. g[k] = Upto(L, upto(k))
      OBVIOUS
    <2>6. upto(k) = p + len /\ len \in Nat
      BY <2>2, <2>3, <1>1
    <2>7. CASE k = 1
      <3>1. p = 0
        BY <2>7, <2>1
      <3>2. \A i \in 1 .. len : L[p + i] = L[i]
        BY <3>1, <2>6
      <3>3. page[k] = [i \in 1 .. len |-> L[i]]
        BY <3>2, <2>4
      <3>4. upto(k) = len
        BY <3>1, <2>6
      <3> HIDE DEF p, len, upto, g
      <3> QED
        BY <2>5, <2>7, <3>3, <3>4 DEF Upto
    <2>8. CASE k # 1
      <3>1. k - 1 \in 1 .. M
        BY <2>8
      <3>2. g[k - 1] = Upto(L, upto(k - 1))
        BY <3>1
      <3>3. upto(k - 1) = p
        <4>1. (k - 1) * z <= n
          BY <2>2, <2>3, <1>1
        <4> QED
          BY <4>1
      <3>5. p + len <= n
        BY <2>2, <2>3, <1>1
      <3> HIDE DEF p, len, upto, g
      <3>4. Upto(L, p + len) = Upto(L, p) \o [i \in 1 .. len |-> L[p + i]]
        <4>1. Upto(L, p) \in Seq(S) /\ Len(Upto(L, p)) = p
          <5>1. \A i \in 1 .. p : L[i] \in S
            BY <2>2, <2>3, <1>1 DEF n
          <5> QED
            BY <2>2, <5>1 DEF Upto
        <4>2. DOMAIN [i \in 1 .. len |-> L[p + i]] = 1 .. len /\ Len([i \in 1 .. len |-> L[p + i]]) = len
          BY <2>6
        <4>5. [i \in 1 .. len |-> L[p + i]] \in Seq(S)
          <5>1. \A i \in 1 .. len : p + i \in 1 .. n
            BY <2>2, <2>3, <2>6, <3>5, <1>1
          <5>2. \A i \in 1 .. n : L[i] \in S
            BY DEF n
          <5> QED
            BY <5>1, <5>2, <2>6
        <4>3. Upto(L, p) \o [i \in 1 .. len |-> L[p + i]]
                = [i \in 1 .. p + len |-> IF i <= p THEN Upto(L, p)[i]
                                          ELSE [j \in 1 .. len |-> L[p + j]][i - p]]
          <5> DEFINE s == Upto(L, p)
                     t == [i \in 1 .. len |-> L[p + i]]
          <5>1. s \in Seq(S) /\ t \in Seq(S) /\ Len(s) = p /\ Len(t) = len
            BY <4>1, <4>2, <4>5
          <5> HIDE DEF s, t
          <5>2. s \o t = [i \in 1 .. p + len |-> IF i <= p THEN s[i] ELSE t[i - p]]
            <6>1. s \o t = [i \in 1 .. Len(s) + Len(t) |-> IF i <= Len(s) THEN s[i] ELSE t[i - Len(s)]]
              BY <5>1, ConcatForm
            <6> QED
              BY ONLY <5>1, <6>1
          <5> QED
            BY <5>2 DEF s, t
        <4>4. \A i \in 1 .. p + len :
                 L[i] = IF i <= p THEN Upto(L, p)[i] ELSE [j \in 1 .. len |-> L[p + j]][i - p]
          BY <2>2, <2>6 DEF Upto
        <4> QED
          BY <4>3, <4>4 DEF Upto
      <3> QED
        BY <2>4, <2>5, <2>6, <2>8, <3>2, <3>3, <3>4
    <2> QED
      BY <2>7, <2>8
  <1>5. IsFlat(page, g)
    <2>1. g = [k \in 1 .. M |-> g[k]]
      OBVIOUS
    <2>2. [k \in 1 .. M |-> g[k]] = [k \in 1 .. M |-> IF k = 1 THEN page[k] ELSE g[k - 1] \o page[k]]
      <3> HIDE DEF g
      <3> QED
        BY <1>4
    <2>3. Len(page) = M
      BY <1>2
    <2> HIDE DEF g
    <2> QED
      BY ONLY <2>1, <2>2, <2>3 DEF IsFlat
  <1>6. FlattenSeq(page) = g[M]
    <2> HIDE DEF g
    <2> QED
      BY <1>2, <1>5, FlattenIs
  <1>7. upto(M) = n
    <2>1. M * z \in Nat
      BY Multiples
    <2> QED
      BY <2>1, <1>1 DEF n
  <1>8. g[M] = Upto(L, n)
    BY <1>7
  <1> QED
    BY <1>1, <1>6, <1>8

\* The slices of one list, in either direction, put end to end.
LEMMA SlicesJoin ==
    ASSUME NEW S, NEW uuids \in Seq(S), NEW z \in Nat \ {0}, NEW reverseOrder \in BOOLEAN,
           NEW starts, starts = {i \in 0 .. Len(uuids) : i % z = 0 /\ ~SliceReverts(uuids, i)},
           NEW page, page = [k \in 1 .. Cardinality(starts) |->
                                SliceUUIDs(uuids, (k - 1) * z, z, reverseOrder)]
    PROVE  FlattenSeq(page) = IF reverseOrder THEN Reverse(uuids) ELSE uuids
  <1>1. CASE uuids = << >>
    <2>1. starts = {0}
      <3>1. 0 % z = 0 /\ 0 .. Len(uuids) = {0} /\ ~SliceReverts(uuids, 0)
        BY <1>1 DEF SliceReverts
      <3> QED
        BY <3>1
    <2>2. Cardinality(starts) = 1
      BY <2>1, FS_Singleton
    <2>3. \A k \in 1 .. 1 : SliceUUIDs(uuids, (k - 1) * z, z, reverseOrder) = << >>
      BY <1>1 DEF SliceUUIDs
    <2>4. page = [k \in 1 .. 1 |-> << >>]
      BY <2>2, <2>3
    <2>5. Len(page) = 1 /\ IsFlat(page, page)
      BY ONLY <2>4 DEF IsFlat
    <2>6. FlattenSeq(page) = << >>
      <3>1. FlattenSeq(page) = page[Len(page)]
        BY ONLY <2>5, FlattenIs
      <3> QED
        BY ONLY <2>4, <2>5, <3>1
    <2>7. Reverse(uuids) = << >>
      BY <1>1 DEF Reverse
    <2> QED
      BY <1>1, <2>6, <2>7
  <1>2. CASE uuids # << >>
    <2> DEFINE n == Len(uuids)
               M == (n - 1) \div z + 1
               L == IF reverseOrder THEN Reverse(uuids) ELSE uuids
    <2>1. n \in Nat \ {0}
      BY <1>2
    <2>2. starts = Starts(n, z)
      BY <1>2, <2>1 DEF Starts, SliceReverts
    <2>3. L \in Seq(S) /\ Len(L) = n
          /\ \A i \in 1 .. n : L[i] = IF reverseOrder THEN uuids[n - i + 1] ELSE uuids[i]
      BY <2>1 DEF Reverse
    <2> HIDE DEF n, M, L
    <2>4. M \in Nat \ {0} /\ Cardinality(starts) = M /\ (M - 1) * z < n /\ n <= M * z
      BY <2>1, <2>2, StartsCount DEF M
    <2>5. ASSUME NEW k \in 1 .. M
          PROVE  SliceUUIDs(uuids, (k - 1) * z, z, reverseOrder)
                    = [i \in 1 .. IF n < (k - 1) * z + z THEN n - (k - 1) * z ELSE z
                         |-> L[(k - 1) * z + i]]
      <3> DEFINE p == (k - 1) * z
                 len == IF n < p + z THEN n - p ELSE z
      <3>1. k - 1 \in Nat /\ M - 1 \in Nat /\ k - 1 <= M - 1
        BY <2>4
      <3>2. p \in Nat /\ (M - 1) * z \in Nat /\ p <= (M - 1) * z
        BY <3>1, Multiples
      <3> HIDE DEF p
      <3>3. p < n
        BY <2>1, <2>4, <3>2, LessAfter
      <3>4. \A i \in 1 .. len : p + i \in 1 .. n
        BY <2>1, <3>2, <3>3
      <3>5. \A i \in 1 .. len : n - (p + i) + 1 = n - (p + i - 1)
        BY <2>1, <3>2
      <3>6. SliceUUIDs(uuids, p, z, reverseOrder)
               = [i \in 1 .. len |-> uuids[IF reverseOrder THEN n - (p + i - 1) ELSE p + i]]
        BY <1>2 DEF SliceUUIDs, n
      <3>7. \A i \in 1 .. len :
               L[p + i] = uuids[IF reverseOrder THEN n - (p + i - 1) ELSE p + i]
        <4> HIDE DEF len
        <4> QED
          BY <2>3, <3>4, <3>5
      <3>8. SliceUUIDs(uuids, p, z, reverseOrder) = [i \in 1 .. len |-> L[p + i]]
        <4> HIDE DEF len
        <4> QED
          BY <3>6, <3>7
      <3> QED
        BY <3>8 DEF p
    <2>6. page = [k \in 1 .. M |->
             [i \in 1 .. IF Len(L) < (k - 1) * z + z THEN Len(L) - (k - 1) * z ELSE z
                |-> L[(k - 1) * z + i]]]
      BY <2>3, <2>4, <2>5
    <2>7. FlattenSeq(page) = L
      <3>1. Len(L) # 0 /\ (M - 1) * z < Len(L) /\ Len(L) <= M * z
        BY <2>1, <2>3, <2>4
      <3>2. L \in Seq(S) /\ M \in Nat \ {0}
        BY <2>3, <2>4
      <3> QED
        BY ONLY <2>6, <3>1, <3>2, z \in Nat \ {0}, PagesJoin
    <2> QED
      BY <2>7 DEF L
  <1> QED
    BY <1>1, <1>2

\* Whoever pages through a schema's attestations in LendNestAS sees each of them once,
\* in either direction and whatever the size of the page: a slice that runs over the
\* end is cut, and no slice that starts within the list is refused.
THEOREM SlicesTiled == Spec => []SlicesTile
  <1>1. IInv => SlicesTile
    <2> SUFFICES ASSUME IInv, NEW schema \in Schemas, NEW size \in PageSizes,
                        NEW reverseOrder \in BOOLEAN, NEW uuids, uuids = schemaAttestations[schema]
                 PROVE  LET starts == {i \in 0 .. Len(uuids) : i % size = 0 /\ ~SliceReverts(uuids, i)}
                            page == [k \in 1 .. Cardinality(starts) |->
                                        SliceUUIDs(uuids, (k - 1) * size, size, reverseOrder)]
                        IN  FlattenSeq(page) = IF reverseOrder THEN Reverse(uuids) ELSE uuids
      BY DEF SlicesTile
    <2>1. uuids \in Seq(Uuids) /\ size \in Nat \ {0}
      BY PagesAssumption DEF IInv, ASTypeOK
    <2> QED
      BY <2>1, SlicesJoin
  <1> QED
    BY <1>1, Invariance, PTL
=============================================================================
