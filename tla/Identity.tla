------------------------------ MODULE Identity ------------------------------
(***************************************************************************)
(* aaf-identity with its users in aaf-trust and aaf-federation: documents  *)
(* that are signed, altered on their way and verified (capability tokens,  *)
(* manifests, attestations, revocation entries, artifacts, co-signed       *)
(* tokens), delegation, the revocation registry with its two locks; the    *)
(* router's agreements and the bill of materials.                          *)
(* A document is [body, sig]; body.type tells its kind and body.signer the *)
(* DID whose key it claims.  Hashing and HMAC are ideal: a signature is    *)
(* the key and what it was made over.                                      *)
(***************************************************************************)
EXTENDS Federation, Sbom, FiniteSets, FiniteSetsExt

CONSTANTS
    Workloads,     \* the parts exercised: "documents", "border", "sbom"
    Stores,        \* keystores, one for a cell
    Seeds,         \* Seeds[store]: the DIDs whose seed the store may be given
    WellFormedDids,
    Bodies,        \* bodies that may be signed
    Alterations,   \* pairs of bodies: the second may arrive for the first
    Agents, Level, \* agents and their autonomy levels
    Capabilities,
    MaxDocs, MaxRevocations, MaxTime,
    Agreements, MaxAgreements, Cells, Exported,
    SbomInputs, MaxEntries

ASSUME IdentityAssumption == {MaxDocs, MaxRevocations, MaxTime} \subseteq Nat

\* The fields of the structs, as far as the properties read them.
ASSUME BodiesAssumption ==
    /\ \A b \in Bodies \cup {change[2] : change \in Alterations} : {"type", "signer"} \subseteq DOMAIN b
    /\ \A b \in Bodies : b.type = "token" =>
         /\ {"jti", "subject", "scope", "depth", "until"} \subseteq DOMAIN b
         /\ b.depth \in Nat /\ b.until \in Int /\ Level[b.subject] \in Int
    /\ \A a \in Agents : Level[a] \in Int

\* The types of the router's agreements and of the contracts it is asked about.
ASSUME BorderAssumption ==
    /\ \A a \in Agreements : /\ a.rules \in Seq(Range(a.rules))
                             /\ \A i \in DOMAIN a.rules : a.rules[i].cap \in Int
    /\ \A c \in Exported :
         /\ c.class \in Int /\ c.reads \in Seq(Range(c.reads))
         /\ c.writes \in Seq(Range(c.writes)) /\ c.emits \in Seq(Range(c.emits))

VARIABLES
    work,        \* the part this behaviour exercises
    known,       \* InMemoryKeystore.inner: the DIDs of each store
    docs,        \* signed documents in circulation, altered ones included
    cosigned,    \* co-signed tokens in circulation
    made,        \* what was signed, by whom: never altered
    chains,      \* tokens with the agents they were handed along
    now,
    entries, index, pending,   \* the revocation registry, between its locks
    agreements,  \* Router.agreements
    sbom         \* AgentSbom.entries

docVars == <<known, docs, cosigned, made, chains, now>>
revVars == <<entries, index, pending>>
vars == <<work, docVars, revVars, agreements, sbom>>

Init ==
    /\ work \in Workloads
    /\ known = [s \in Stores |-> {}] /\ docs = {} /\ cosigned = {} /\ made = {} /\ chains = {}
    /\ now = 0 /\ entries = <<>> /\ index = {} /\ pending = {}
    /\ agreements = <<>> /\ sbom = <<>>

-----------------------------------------------------------------------------
\* InMemoryKeystore::generate: a DID is the fingerprint of its key.
Generate(s, did) ==
    /\ work = "documents" /\ did \in Seeds[s] \ known[s]
    /\ known' = [known EXCEPT ![s] = @ \cup {did}]
    /\ UNCHANGED <<work, docs, cosigned, made, chains, now, revVars, agreements, sbom>>

\* Signer::sign and Verifier::verify: both need the key of the DID.
Signature(did, message) == [key |-> did, over |-> message]
Verified(s, did, message, sig) == did \in known[s] /\ sig = Signature(did, message)

Hash_NoDepth(body) ==
    CASE body.type = "artifact" -> [content |-> body.content]
      [] body.type = "token" -> [body EXCEPT !.depth = 0]
      [] OTHER -> body

\* canonical_hash of claims, manifests, attestations and revocations covers
\* every field but the signature; an artifact's covers its content only.
Hash(body) == IF body.type = "artifact" THEN [content |-> body.content] ELSE body

Sign(body) == [body |-> body, sig |-> Signature(body.signer, Hash(body))]

\* The issue, build or sign_artifact_with of a document.
Issue(s, body) ==
    /\ work = "documents" /\ Cardinality(docs) < MaxDocs
    /\ body.signer \in known[s]
    /\ docs' = docs \cup {Sign(body)}
    /\ made' = made \cup {body}
    /\ chains' = chains \cup IF body.type # "token" THEN {}
                             ELSE {[token |-> body, path |-> <<body.subject>>,
                                    trust |-> Level[body.subject]]}
    /\ UNCHANGED <<work, known, cosigned, now, revVars, agreements, sbom>>

\* Attestation::issue binds the manifest it saw, its signature included.
AttestationOf(issuer, manifest) ==
    [type |-> "attestation", signer |-> issuer, subject |-> manifest.body.signer,
     manifest |-> manifest, level |-> "AutoVerified"]
Attest(s, issuer, d) ==
    /\ d.body.type = "manifest" /\ Issue(s, AttestationOf(issuer, d))

\* A document altered on its way keeps its signature.
Alter(d, body) ==
    /\ Cardinality(docs) < MaxDocs /\ <<d.body, body>> \in Alterations
    /\ docs' = docs \cup {[d EXCEPT !.body = body]}
    /\ UNCHANGED <<work, known, cosigned, made, chains, now, revVars, agreements, sbom>>

\* The verify of each kind, up to its signature: a manifest's DID must be
\* well formed.  verify_artifact_with takes the DID from the signature.
Authentic(s, d) ==
    /\ d.body.type = "manifest" => d.body.signer \in WellFormedDids
    /\ Verified(s, d.body.signer, Hash(d.body), d.sig)

\* CapabilityToken::verify, and verify_token of aaf-trust.
VerifyToken(s, d, capability) ==
    /\ Authentic(s, d)
    /\ d.body.from <= now /\ now <= d.body.until
    /\ capability \in d.body.scope

-----------------------------------------------------------------------------
StepDown_KeepsDepth(claims) == claims

\* CapabilityToken::step_down, where there is depth left.
StepDown(claims) == [claims EXCEPT !.depth = @ - 1]

\* effective_trust of aaf-trust.
EffectiveTrust(delegator, delegatee) == Min({delegator, delegatee})

\* A holder steps its token down, names the next subject and has it issued.
Delegate(s, c, to) ==
    LET claims == [StepDown(c.token) EXCEPT !.subject = to] IN
    /\ Cardinality(docs) < MaxDocs
    /\ c.token.depth > 0 /\ claims.signer \in known[s]
    /\ docs' = docs \cup {Sign(claims)} /\ made' = made \cup {claims}
    /\ chains' = chains \cup {[token |-> claims, path |-> Append(c.path, to),
                               trust |-> EffectiveTrust(c.trust, Level[to])]}
    /\ UNCHANGED <<work, known, cosigned, now, revVars, agreements, sbom>>

\* canonical_bytes of the co-signature: both cells and the token's signature.
CosignBytes(token, issuer, receiver) == <<issuer, receiver, token.sig>>

\* cosign_token: each cell signs with its own store.
Cosign(token, si, issuer, sr, receiver) ==
    /\ Cardinality(docs) + Cardinality(cosigned) < MaxDocs
    /\ issuer \in known[si] /\ receiver \in known[sr]
    /\ LET bytes == CosignBytes(token, issuer, receiver) IN
         cosigned' = cosigned \cup
            {[token |-> token, issuer |-> issuer, receiver |-> receiver,
              isig |-> Signature(issuer, bytes), rsig |-> Signature(receiver, bytes)]}
    /\ made' = made \cup {[type |-> "cosigned", token |-> token, cells |-> <<issuer, receiver>>]}
    /\ UNCHANGED <<work, known, docs, chains, now, revVars, agreements, sbom>>

\* One that arrives altered may exceed the bound.
AlterCosigned(c, token, receiver) ==
    /\ Cardinality(docs) + Cardinality(cosigned) <= MaxDocs
    /\ cosigned' = cosigned \cup {[c EXCEPT !.token = token, !.receiver = receiver]}
    /\ UNCHANGED <<work, known, docs, made, chains, now, revVars, agreements, sbom>>

\* verify_cosigned: both cells' signatures, then the token itself.
VerifyCosigned(c, si, sr, s, capability) ==
    LET bytes == CosignBytes(c.token, c.issuer, c.receiver) IN
    /\ Verified(si, c.issuer, bytes, c.isig)
    /\ Verified(sr, c.receiver, bytes, c.rsig)
    /\ VerifyToken(s, c.token, capability)

Tick ==
    /\ work = "documents" /\ now < MaxTime /\ now' = now + 1
    /\ UNCHANGED <<work, known, docs, cosigned, made, chains, revVars, agreements, sbom>>

-----------------------------------------------------------------------------
Key(d) == <<d.body.kind, d.body.target>>

\* InMemoryRevocationRegistry::revoke, first lock: the entry is listed, and
\* its signature is not looked at; second lock: the index learns of it.
Listed(d) ==
    /\ entries' = Append(entries, d) /\ pending' = pending \cup {d}
    /\ UNCHANGED index
RevokeList(d) ==
    /\ d.body.type = "revocation" /\ d \notin pending /\ Len(entries) < MaxRevocations
    /\ Listed(d) /\ UNCHANGED <<work, docVars, agreements, sbom>>

\* Mutant: the index is replaced where it should be added to.
RevokeIndex_Replaces(d) ==
    /\ d \in pending /\ pending' = pending \ {d}
    /\ index' = {Key(d)}
    /\ UNCHANGED <<work, docVars, entries, agreements, sbom>>

RevokeIndex(d) ==
    /\ d \in pending /\ pending' = pending \ {d}
    /\ index' = index \cup {Key(d)}
    /\ UNCHANGED <<work, docVars, entries, agreements, sbom>>

\* is_revoked, as the executor and every other caller asks.
IsRevoked(key) == key \in index

-----------------------------------------------------------------------------
\* Router::new over one agreement more.
Agree(a) ==
    /\ work = "border" /\ Len(agreements) < MaxAgreements
    /\ agreements' = Append(agreements, a)
    /\ UNCHANGED <<work, docVars, revVars, sbom>>

Push(e) ==
    /\ work = "sbom" /\ Len(sbom) < MaxEntries
    /\ sbom' = PushEntry(sbom, e)
    /\ UNCHANGED <<work, docVars, revVars, agreements>>

Next ==
    \/ \E s \in Stores :
         \/ \E did \in Seeds[s] : Generate(s, did)
         \/ \E body \in Bodies : Issue(s, body)
         \/ \E did \in Seeds[s], d \in docs : Attest(s, did, d)
         \/ \E c \in chains, to \in Agents : Delegate(s, c, to)
    \/ \E d \in docs, change \in Alterations : Alter(d, change[2])
    \/ \E d \in {x \in docs : x.body.type = "token"}, si, sr \in Stores :
         \E i \in Seeds[si], r \in Seeds[sr] : i # r /\ Cosign(d, si, i, sr, r)
    \/ \E c \in cosigned, d \in {x \in docs : x.body.type = "token"}, r \in UNION Range(Seeds) :
         AlterCosigned(c, d, r)
    \/ \E d \in docs : RevokeList(d) \/ RevokeIndex(d)
    \/ Tick
    \/ \E a \in Agreements : Agree(a)
    \/ \E e \in SbomInputs : Push(e)

\* A call of revoke that took its first lock takes its second.
Fairness == \A d \in {Sign(b) : b \in Bodies} : WF_vars(RevokeIndex(d))
Spec == Init /\ [][Next]_vars /\ Fairness

-----------------------------------------------------------------------------
(* Whatever is altered on its way, a document that verifies anywhere says    *)
(* what its signer signed (of an artifact: its content).  A co-signed token  *)
(* that verifies says what its issuer signed, and these two cells co-signed  *)
(* a copy of it.  Not more: cosign_token does not verify, and covers the     *)
(* claims only through the token's signature, so that copy may have been an  *)
(* altered one.                                                              *)
(* Both exports of an SBOM list each entry once, in order, under its content *)
(* hash and an id of its own although names may share a slug.                *)
DocumentsAreFaithful ==
    /\ \A d \in docs, s \in Stores :
         Authentic(s, d) => \E b \in made : b = d.body \/ (b.type = "artifact" /\ d.body.type = "artifact"
                                                          /\ b.signer = d.body.signer
                                                          /\ b.content = d.body.content)
    /\ \A c \in cosigned, si, sr, s \in Stores, cap \in Capabilities :
         VerifyCosigned(c, si, sr, s, cap) =>
           /\ c.token.body \in made
           /\ \E b \in made : /\ b.type = "cosigned" /\ b.cells = <<c.issuer, c.receiver>>
                             /\ b.token.sig = c.token.sig
    /\ \A export \in {ToSpdx(sbom), ToCycloneDx(sbom)} :
         /\ Len(export) = Len(sbom)
         /\ \A i \in DOMAIN sbom : export[i].checksum = sbom[i].hash
         /\ \A i, j \in DOMAIN sbom : i # j => export[i].id # export[j].id

(* Along every chain of delegations the depth goes down by one a handover,   *)
(* scope and window never grow, and the effective trust is at most that of   *)
(* every agent on the chain: step_down and effective_trust.                  *)
DelegationAttenuates ==
    \A c \in chains : \E root \in Bodies :
        /\ root.type = "token" /\ root.jti = c.token.jti
        /\ c.token.depth + Len(c.path) - 1 = root.depth
        /\ c.token.scope \subseteq root.scope /\ c.token.until <= root.until
        /\ \A i \in DOMAIN c.path : c.trust <= Level[c.path[i]]

(* A revocation that is listed takes effect and stays in effect.             *)
RevocationTakesEffect ==
    \A b \in {x \in Bodies : x.type = "revocation"} :
        (\E i \in DOMAIN entries : entries[i] = Sign(b)) ~> []IsRevoked(<<b.kind, b.target>>)

\* d touches no more than c and is classified no higher.
Touches(d, c) ==
    /\ d.class <= c.class
    /\ Range(d.reads) \subseteq Range(c.reads)
    /\ Range(d.writes) \subseteq Range(c.writes)
    /\ Range(d.emits) \subseteq Range(c.emits)

(* What enforce_capability lets across, enforce_outbound_entity lets across  *)
(* entity by entity, and so it does a capability of a lower classification   *)
(* that touches less.                                                        *)
BorderIsConsistent ==
    \A from, to \in Cells, c \in Exported :
        EnforceCapability(agreements, from, to, c) = "ok" =>
            /\ \A i \in DOMAIN c.reads :
                 EnforceOutboundEntity(agreements, from, to, c.reads[i].entity, "Read") = "ok"
            /\ \A i \in DOMAIN c.writes :
                 EnforceOutboundEntity(agreements, from, to, c.writes[i].entity, "Write") = "ok"
            /\ \A d \in {e \in Exported : Touches(e, c)} :
                 EnforceCapability(agreements, from, to, d) = "ok"

=============================================================================
