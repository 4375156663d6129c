--------------------------- MODULE IdentityProofs ---------------------------
(***************************************************************************)
(* Proofs about Identity, for every set of stores, bodies and alterations: *)
(* what a document or a co-signed token that verifies can say, what a      *)
(* chain of delegations can do, and what crosses a federation border.      *)
(***************************************************************************)
EXTENDS Identity, NaturalsInduction, WellFoundedInduction, TLAPS

-----------------------------------------------------------------------------
(* The operators *)

\* effective_trust is no more than either party has.
LEMMA EffectiveTrustIsLower ==
    ASSUME NEW a \in Int, NEW b \in Int
    PROVE  EffectiveTrust(a, b) \in Int /\ EffectiveTrust(a, b) <= a /\ EffectiveTrust(a, b) <= b
<1> DEFINE least(x) == x \in {a, b} /\ \A y \in {a, b} : x <= y
<1>1. \E x : least(x)
  <2>1. CASE a <= b
    BY <2>1
  <2>2. CASE b <= a
    BY <2>2
  <2> QED
    BY <2>1, <2>2
<1>2. least(EffectiveTrust(a, b))
  BY <1>1 DEF EffectiveTrust, Min
<1> QED
  BY <1>2

\* A body is known by its hash, an artifact by its content: what hashes alike is
\* the same body, or two artifacts of one content (canonical_hash).
LEMMA HashIdentifies ==
    ASSUME NEW b, NEW body, "type" \in DOMAIN b, "type" \in DOMAIN body, Hash(b) = Hash(body)
    PROVE  \/ b = body
           \/ b.type = "artifact" /\ body.type = "artifact" /\ b.content = body.content
<1>1. \A x : DOMAIN [content |-> x] = {"content"}
  OBVIOUS
<1>2. b.type = "artifact" <=> body.type = "artifact"
  BY <1>1 DEF Hash
<1>3. CASE b.type = "artifact"
  <2>1. [content |-> b.content] = [content |-> body.content]
    BY <1>2, <1>3 DEF Hash
  <2>2. [content |-> b.content].content = [content |-> body.content].content
    BY <2>1
  <2> QED
    BY <1>2, <1>3, <2>2
<1>4. CASE b.type # "artifact"
  BY <1>2, <1>4 DEF Hash
<1> QED
  BY <1>3, <1>4

\* A signature tells its key and what it was made over (HMAC is ideal here).
LEMMA SignatureIdentifies ==
    ASSUME NEW k, NEW m, NEW l, NEW n, Signature(k, m) = Signature(l, n)
    PROVE  k = l /\ m = n
<1>1. Signature(k, m).key = Signature(l, n).key /\ Signature(k, m).over = Signature(l, n).over
  OBVIOUS
<1> QED
  BY <1>1 DEF Signature

-----------------------------------------------------------------------------
(* Documents *)

\* A document in circulation carries a signature that somebody made.
Circulates(d) ==
    /\ {"body", "sig"} \subseteq DOMAIN d
    /\ "type" \in DOMAIN d.body
    /\ \E b \in made : d.sig = Signature(b.signer, Hash(b))

\* A co-signed token carries the signature of a cell over the signature of a
\* token, though not always over that of the token it comes with.
CoCirculates(c) ==
    /\ {"token", "issuer", "receiver", "isig", "rsig"} \subseteq DOMAIN c
    /\ c.token \in docs /\ c.token.body.type = "token"
    /\ \E b \in made :
         /\ b.type = "cosigned"
         /\ \E i, r : /\ b.cells = <<i, r>>
                      /\ c.isig = Signature(i, <<i, r, b.token.sig>>)

DocumentInv ==
    /\ \A b \in made : "type" \in DOMAIN b
    /\ \A d \in docs : Circulates(d)
    /\ \A c \in cosigned : CoCirculates(c)
    /\ \E S : sbom \in Seq(S)

\* What circulates goes on circulating: nothing is unsigned or withdrawn.
LEMMA CirculationStays ==
    ASSUME DocumentInv, made \subseteq made', docs \subseteq docs'
    PROVE  /\ \A d \in docs : Circulates(d)'
           /\ \A c \in cosigned : CoCirculates(c)'
<1>1. \A d : Circulates(d) => Circulates(d)'
  BY DEF Circulates
<1>2. \A c : CoCirculates(c) => CoCirculates(c)'
  BY DEF CoCirculates
<1> QED
  BY <1>1, <1>2 DEF DocumentInv

\* A signed document circulates.
LEMMA SignedCirculates ==
    ASSUME NEW body, "type" \in DOMAIN body, body \in made'
    PROVE  Circulates(Sign(body))'
<1>1. DOMAIN Sign(body) = {"body", "sig"} /\ Sign(body).body = body
      /\ Sign(body).sig = Signature(body.signer, Hash(body))
  BY DEF Sign
<1> QED
  BY <1>1 DEF Circulates

LEMMA DocumentInvIssue ==
    ASSUME DocumentInv, NEW body, "type" \in DOMAIN body,
           docs' = docs \cup {Sign(body)}, made' = made \cup {body},
           UNCHANGED <<cosigned, sbom>>
    PROVE  DocumentInv'
<1>1. Circulates(Sign(body))'
  BY SignedCirculates
<1>2. (\A d \in docs : Circulates(d)') /\ (\A c \in cosigned : CoCirculates(c)')
  BY CirculationStays
<1> QED
  BY <1>1, <1>2 DEF DocumentInv

LEMMA DocumentInvAlter ==
    ASSUME DocumentInv, NEW d \in docs, NEW body, Alter(d, body)
    PROVE  DocumentInv'
<1>1. /\ docs' = docs \cup {[d EXCEPT !.body = body]}
      /\ UNCHANGED <<cosigned, made, sbom>>
  BY DEF Alter
<1>2. "type" \in DOMAIN body
  BY BodiesAssumption DEF Alter
<1>3. (\A e \in docs : Circulates(e)') /\ (\A c \in cosigned : CoCirculates(c)')
  BY <1>1, CirculationStays
<1>4. Circulates(d)
  BY DEF DocumentInv
<1>5. Circulates([d EXCEPT !.body = body])'
  BY <1>1, <1>2, <1>4 DEF Circulates
<1> QED
  BY <1>1, <1>3, <1>5 DEF DocumentInv

LEMMA DocumentInvCosign ==
    ASSUME DocumentInv, NEW token \in docs, token.body.type = "token",
           NEW si, NEW issuer, NEW sr, NEW receiver, Cosign(token, si, issuer, sr, receiver)
    PROVE  DocumentInv'
<1> PICK note : note = [type |-> "cosigned", token |-> token, cells |-> <<issuer, receiver>>]
  OBVIOUS
<1> PICK bytes : bytes = <<issuer, receiver, token.sig>>
  OBVIOUS
<1> PICK new : new = [token |-> token, issuer |-> issuer, receiver |-> receiver,
                      isig |-> Signature(issuer, bytes), rsig |-> Signature(receiver, bytes)]
  OBVIOUS
<1>1. /\ cosigned' = cosigned \cup {new} /\ made' = made \cup {note}
      /\ docs' = docs /\ sbom' = sbom
  BY DEF Cosign, CosignBytes
<1>2. (\A d \in docs : Circulates(d)') /\ (\A c \in cosigned : CoCirculates(c)')
  BY <1>1, CirculationStays
<1>3. "type" \in DOMAIN note /\ note.type = "cosigned" /\ note.cells = <<issuer, receiver>> /\ note.token = token
  OBVIOUS
<1>4. /\ {"token", "issuer", "receiver", "isig", "rsig"} \subseteq DOMAIN new
      /\ new.token = token /\ new.isig = Signature(issuer, bytes)
  OBVIOUS
<1>5. CoCirculates(new)'
  BY <1>1, <1>3, <1>4 DEF CoCirculates
<1> QED
  BY <1>1, <1>2, <1>3, <1>5 DEF DocumentInv

LEMMA DocumentInvAlterCosigned ==
    ASSUME DocumentInv, NEW c \in cosigned, NEW token \in docs, token.body.type = "token",
           NEW receiver, AlterCosigned(c, token, receiver)
    PROVE  DocumentInv'
<1> PICK new : new = [c EXCEPT !.token = token, !.receiver = receiver]
  OBVIOUS
<1>1. cosigned' = cosigned \cup {new} /\ UNCHANGED <<made, docs, sbom>>
  BY DEF AlterCosigned
<1>2. (\A d \in docs : Circulates(d)') /\ (\A x \in cosigned : CoCirculates(x)')
  BY <1>1, CirculationStays
<1>3. CoCirculates(c)
  BY DEF DocumentInv
<1>4. DOMAIN new = DOMAIN c /\ new.token = token /\ new.isig = c.isig
  BY <1>3 DEF CoCirculates
<1>5. CoCirculates(new)'
  BY <1>1, <1>3, <1>4 DEF CoCirculates
<1> QED
  BY <1>1, <1>2, <1>5 DEF DocumentInv

-----------------------------------------------------------------------------
(* Delegation *)

TokenFields == {"type", "jti", "subject", "scope", "depth", "until"}

\* A token and the agents it was handed along: it differs from the one the chain
\* began with in subject and depth only.
Attenuated(c) ==
    /\ TokenFields \subseteq DOMAIN c.token /\ c.token.type = "token"
    /\ c.token.depth \in Nat /\ c.trust \in Int
    /\ \E S : c.path \in Seq(S)
    /\ \A i \in DOMAIN c.path : Level[c.path[i]] \in Int /\ c.trust <= Level[c.path[i]]
    /\ \E root \in Bodies :
         /\ root.type = "token" /\ root.jti = c.token.jti
         /\ c.token.depth + Len(c.path) - 1 = root.depth
         /\ c.token.scope = root.scope /\ c.token.until = root.until

DelegationInv == \A c \in chains : Attenuated(c)

\* step_down, and the new subject: the depth is one less, all else is kept.
LEMMA StepDownFacts ==
    ASSUME NEW token, TokenFields \subseteq DOMAIN token, NEW to
    PROVE  LET claims == [StepDown(token) EXCEPT !.subject = to]
           IN  /\ DOMAIN claims = DOMAIN token
               /\ claims.type = token.type /\ claims.jti = token.jti
               /\ claims.depth = token.depth - 1
               /\ claims.scope = token.scope /\ claims.until = token.until
BY DEF StepDown, TokenFields

\* A token as it is issued is a chain of one.
LEMMA IssuedIsAttenuated ==
    ASSUME NEW body \in Bodies, body.type = "token",
           NEW c, c = [token |-> body, path |-> <<body.subject>>, trust |-> Level[body.subject]]
    PROVE  Attenuated(c)
<1>1. c.token = body /\ c.path = <<body.subject>> /\ c.trust = Level[body.subject]
  OBVIOUS
<1>2. /\ TokenFields \subseteq DOMAIN body
      /\ body.depth \in Nat /\ Level[body.subject] \in Int
  BY BodiesAssumption DEF TokenFields
<1>3. <<body.subject>> \in Seq({body.subject}) /\ Len(<<body.subject>>) = 1 /\ DOMAIN <<body.subject>> = {1}
  OBVIOUS
<1>4. \A i \in DOMAIN c.path : Level[c.path[i]] \in Int /\ c.trust <= Level[c.path[i]]
  BY <1>1, <1>2, <1>3
<1>5. body.depth + Len(c.path) - 1 = body.depth
  BY <1>1, <1>2, <1>3
<1>6. \E S : c.path \in Seq(S)
  BY <1>1, <1>3
<1> HIDE DEF Attenuated
<1> QED
  BY <1>1, <1>2, <1>4, <1>5, <1>6 DEF Attenuated

\* A handover keeps a chain attenuated.
LEMMA HandedOnIsAttenuated ==
    ASSUME NEW c, Attenuated(c), c.token.depth > 0, NEW to \in Agents,
           NEW claims, claims = [StepDown(c.token) EXCEPT !.subject = to],
           NEW d, d = [token |-> claims, path |-> Append(c.path, to),
                       trust |-> EffectiveTrust(c.trust, Level[to])]
    PROVE  Attenuated(d)
<1>1. d.token = claims /\ d.path = Append(c.path, to) /\ d.trust = EffectiveTrust(c.trust, Level[to])
  OBVIOUS
<1>2. /\ DOMAIN claims = DOMAIN c.token
      /\ claims.type = c.token.type /\ claims.jti = c.token.jti
      /\ claims.depth = c.token.depth - 1
      /\ claims.scope = c.token.scope /\ claims.until = c.token.until
  BY StepDownFacts DEF Attenuated
<1>3. Level[to] \in Int /\ c.trust \in Int
  BY BodiesAssumption DEF Attenuated
<1>4. d.trust \in Int /\ d.trust <= c.trust /\ d.trust <= Level[to]
  BY <1>1, <1>3, EffectiveTrustIsLower
<1>5. PICK S : c.path \in Seq(S)
  BY DEF Attenuated
<1>6. /\ d.path \in Seq(S \cup {to}) /\ Len(d.path) = Len(c.path) + 1 /\ Len(c.path) \in Nat
      /\ DOMAIN d.path = 1..(Len(c.path) + 1) /\ DOMAIN c.path = 1..Len(c.path)
      /\ d.path[Len(c.path) + 1] = to
      /\ \A i \in 1..Len(c.path) : d.path[i] = c.path[i]
  BY <1>1, <1>5
<1>7. \A i \in DOMAIN d.path : Level[d.path[i]] \in Int /\ d.trust <= Level[d.path[i]]
  <2> SUFFICES ASSUME NEW i \in DOMAIN d.path
               PROVE  Level[d.path[i]] \in Int /\ d.trust <= Level[d.path[i]]
    OBVIOUS
  <2>1. CASE i = Len(c.path) + 1
    BY <2>1, <1>3, <1>4, <1>6
  <2>2. CASE i # Len(c.path) + 1
    <3>1. i \in DOMAIN c.path /\ d.path[i] = c.path[i]
      BY <2>2, <1>6
    <3>2. Level[c.path[i]] \in Int /\ c.trust <= Level[c.path[i]]
      BY <3>1 DEF Attenuated
    <3> QED
      BY <3>1, <3>2, <1>3, <1>4
  <2> QED
    BY <2>1, <2>2
<1>8. PICK root \in Bodies :
         /\ root.type = "token" /\ root.jti = c.token.jti
         /\ c.token.depth + Len(c.path) - 1 = root.depth
         /\ c.token.scope = root.scope /\ c.token.until = root.until
  BY DEF Attenuated
<1>9. claims.depth \in Nat /\ claims.depth + Len(d.path) - 1 = root.depth
  BY <1>2, <1>6, <1>8 DEF Attenuated
<1>10. TokenFields \subseteq DOMAIN claims /\ claims.type = "token"
  BY <1>2 DEF Attenuated
<1>11. root.jti = claims.jti /\ claims.scope = root.scope /\ claims.until = root.until
  BY <1>2, <1>8
<1>12. \E T : d.path \in Seq(T)
  BY <1>6
<1> QED
  BY <1>1, <1>4, <1>7, <1>8, <1>9, <1>10, <1>11, <1>12 DEF Attenuated

-----------------------------------------------------------------------------
(* Every step *)

IdentityInv == DocumentInv /\ DelegationInv

LEMMA IdentityInvInit ==
    ASSUME Init
    PROVE  IdentityInv
<1>1. <<>> \in Seq({})
  OBVIOUS
<1> QED
  BY <1>1 DEF Init, IdentityInv, DocumentInv, DelegationInv

\* The revocation registry, the clock and the router's agreements read what the
\* invariant is about and change none of it.
LEMMA IdentityInvUnchanged ==
    ASSUME IdentityInv, UNCHANGED <<docs, cosigned, made, chains, sbom>>
    PROVE  IdentityInv'
BY DEF IdentityInv, DocumentInv, DelegationInv, Circulates, CoCirculates

LEMMA IdentityInvIssue ==
    ASSUME IdentityInv, NEW s \in Stores, NEW body \in Bodies, Issue(s, body)
    PROVE  IdentityInv'
<1>1. "type" \in DOMAIN body
  BY BodiesAssumption
<1>2. DocumentInv'
  BY <1>1, DocumentInvIssue DEF IdentityInv, Issue
<1>3. DelegationInv'
  <2>1. CASE body.type # "token"
    BY <2>1 DEF IdentityInv, DelegationInv, Issue
  <2>2. CASE body.type = "token"
    <3> PICK c : c = [token |-> body, path |-> <<body.subject>>, trust |-> Level[body.subject]]
      OBVIOUS
    <3>1. chains' = chains \cup {c}
      BY <2>2 DEF Issue
    <3>2. Attenuated(c)
      BY <2>2, IssuedIsAttenuated
    <3> QED
      BY <3>1, <3>2 DEF IdentityInv, DelegationInv
  <2> QED
    BY <2>1, <2>2
<1> QED
  BY <1>2, <1>3 DEF IdentityInv

LEMMA IdentityInvAttest ==
    ASSUME IdentityInv, NEW s \in Stores, NEW did, NEW d \in docs, Attest(s, did, d)
    PROVE  IdentityInv'
<1> PICK body : body = AttestationOf(did, d)
  OBVIOUS
<1>1. Issue(s, body)
  BY DEF Attest
<1>2. "type" \in DOMAIN body /\ body.type = "attestation"
  BY DEF AttestationOf
<1>3. DocumentInv'
  BY <1>1, <1>2, DocumentInvIssue DEF IdentityInv, Issue
<1>4. chains' = chains
  BY <1>1, <1>2 DEF Issue
<1> QED
  BY <1>3, <1>4 DEF IdentityInv, DelegationInv

LEMMA IdentityInvDelegate ==
    ASSUME IdentityInv, NEW s \in Stores, NEW c \in chains, NEW to \in Agents, Delegate(s, c, to)
    PROVE  IdentityInv'
<1> PICK claims : claims = [StepDown(c.token) EXCEPT !.subject = to]
  OBVIOUS
<1> PICK d : d = [token |-> claims, path |-> Append(c.path, to),
                  trust |-> EffectiveTrust(c.trust, Level[to])]
  OBVIOUS
<1>1. /\ c.token.depth > 0
      /\ docs' = docs \cup {Sign(claims)} /\ made' = made \cup {claims}
      /\ chains' = chains \cup {d}
      /\ UNCHANGED <<cosigned, sbom>>
  BY DEF Delegate
<1>2. Attenuated(c)
  BY DEF IdentityInv, DelegationInv
<1>3. Attenuated(d)
  BY <1>1, <1>2, HandedOnIsAttenuated
<1>4. "type" \in DOMAIN claims
  BY <1>3 DEF Attenuated, TokenFields
<1>5. DocumentInv'
  BY <1>1, <1>4, DocumentInvIssue DEF IdentityInv
<1> QED
  BY <1>1, <1>3, <1>5 DEF IdentityInv, DelegationInv

LEMMA IdentityInvPush ==
    ASSUME IdentityInv, NEW e \in SbomInputs, Push(e)
    PROVE  IdentityInv'
<1>1. UNCHANGED <<docs, cosigned, made, chains>>
  BY DEF Push, docVars
<1>2. PICK S : sbom \in Seq(S)
  BY DEF IdentityInv, DocumentInv
<1> PICK entry : entry = [e EXCEPT !.kind = ParseKind(@)]
  OBVIOUS
<1>3. sbom' = Append(sbom, entry)
  BY DEF Push, PushEntry
<1>4. sbom' \in Seq(S \cup {entry})
  BY <1>2, <1>3
<1>5. (\A d \in docs : Circulates(d)') /\ (\A c \in cosigned : CoCirculates(c)')
  BY <1>1, CirculationStays DEF IdentityInv
<1> QED
  BY <1>1, <1>4, <1>5 DEF IdentityInv, DocumentInv, DelegationInv

LEMMA IdentityInvNext ==
    ASSUME IdentityInv, [Next]_vars
    PROVE  IdentityInv'
<1>1. ASSUME NEW s \in Stores, NEW did \in Seeds[s], Generate(s, did)
      PROVE  IdentityInv'
  BY <1>1, IdentityInvUnchanged DEF Generate
<1>2. ASSUME NEW s \in Stores, NEW body \in Bodies, Issue(s, body)
      PROVE  IdentityInv'
  BY <1>2, IdentityInvIssue
<1>3. ASSUME NEW s \in Stores, NEW did \in Seeds[s], NEW d \in docs, Attest(s, did, d)
      PROVE  IdentityInv'
  BY <1>3, IdentityInvAttest
<1>4. ASSUME NEW s \in Stores, NEW c \in chains, NEW to \in Agents, Delegate(s, c, to)
      PROVE  IdentityInv'
  BY <1>4, IdentityInvDelegate
<1>5. ASSUME NEW d \in docs, NEW change \in Alterations, Alter(d, change[2])
      PROVE  IdentityInv'
  <2>1. DocumentInv'
    BY <1>5, DocumentInvAlter DEF IdentityInv
  <2> QED
    BY <1>5, <2>1 DEF IdentityInv, DelegationInv, Alter
<1>6. ASSUME NEW d \in docs, d.body.type = "token", NEW si, NEW i, NEW sr, NEW r,
             Cosign(d, si, i, sr, r)
      PROVE  IdentityInv'
  <2>1. DocumentInv'
    BY <1>6, DocumentInvCosign DEF IdentityInv
  <2> QED
    BY <1>6, <2>1 DEF IdentityInv, DelegationInv, Cosign
<1>7. ASSUME NEW c \in cosigned, NEW d \in docs, d.body.type = "token", NEW r,
             AlterCosigned(c, d, r)
      PROVE  IdentityInv'
  <2>1. DocumentInv'
    BY <1>7, DocumentInvAlterCosigned DEF IdentityInv
  <2> QED
    BY <1>7, <2>1 DEF IdentityInv, DelegationInv, AlterCosigned
<1>8. ASSUME NEW d \in docs, RevokeList(d) \/ RevokeIndex(d)
      PROVE  IdentityInv'
  BY <1>8, IdentityInvUnchanged DEF RevokeList, RevokeIndex, docVars
<1>9. ASSUME Tick
      PROVE  IdentityInv'
  BY <1>9, IdentityInvUnchanged DEF Tick
<1>10. ASSUME NEW a \in Agreements, Agree(a)
       PROVE  IdentityInv'
  BY <1>10, IdentityInvUnchanged DEF Agree, docVars
<1>11. ASSUME NEW e \in SbomInputs, Push(e)
       PROVE  IdentityInv'
  BY <1>11, IdentityInvPush
<1>12. CASE UNCHANGED vars
  BY <1>12, IdentityInvUnchanged DEF vars, docVars
<1> QED
  BY <1>1, <1>2, <1>3, <1>4, <1>5, <1>6, <1>7, <1>8, <1>9, <1>10, <1>11, <1>12 DEF Next

\* The invariant holds in every reachable state.
THEOREM IdentityInvariant == Spec => []IdentityInv
<1>1. Init => IdentityInv
  BY IdentityInvInit
<1>2. IdentityInv /\ [Next]_vars => IdentityInv'
  BY IdentityInvNext
<1> QED
  BY <1>1, <1>2, PTL DEF Spec

-----------------------------------------------------------------------------
(* What it gives *)

\* A document in circulation that verifies says what somebody signed.
LEMMA AuthenticWasMade ==
    ASSUME IdentityInv, NEW d \in docs, NEW s, Authentic(s, d)
    PROVE  \E b \in made : b = d.body \/ (b.type = "artifact" /\ d.body.type = "artifact"
                                          /\ b.signer = d.body.signer
                                          /\ b.content = d.body.content)
<1>1. "type" \in DOMAIN d.body
  BY DEF IdentityInv, DocumentInv, Circulates
<1>2. PICK b \in made : d.sig = Signature(b.signer, Hash(b))
  BY DEF IdentityInv, DocumentInv, Circulates
<1>3. "type" \in DOMAIN b
  BY DEF IdentityInv, DocumentInv
<1>4. Signature(b.signer, Hash(b)) = Signature(d.body.signer, Hash(d.body))
  BY <1>2 DEF Authentic, Verified
<1>5. b.signer = d.body.signer /\ Hash(b) = Hash(d.body)
  BY <1>4, SignatureIdentifies
<1> QED
  BY <1>1, <1>3, <1>5, HashIdentifies

\* A co-signed token that verifies says what its issuer signed, and its two cells
\* co-signed a token with this signature.
LEMMA CosignedWasMade ==
    ASSUME IdentityInv, NEW c \in cosigned, NEW si, NEW sr, NEW s, NEW cap,
           VerifyCosigned(c, si, sr, s, cap)
    PROVE  /\ c.token.body \in made
           /\ \E b \in made : /\ b.type = "cosigned" /\ b.cells = <<c.issuer, c.receiver>>
                              /\ b.token.sig = c.token.sig
<1>1. /\ c.isig = Signature(c.issuer, <<c.issuer, c.receiver, c.token.sig>>)
      /\ Authentic(s, c.token)
  BY DEF VerifyCosigned, Verified, CosignBytes, VerifyToken
<1>2. CoCirculates(c)
  BY DEF IdentityInv, DocumentInv
<1>3. c.token \in docs /\ c.token.body.type = "token"
  BY <1>2 DEF CoCirculates
<1>4. c.token.body \in made
  BY <1>1, <1>3, AuthenticWasMade
<1>5. PICK b \in made : b.type = "cosigned"
                        /\ \E i, r : b.cells = <<i, r>> /\ c.isig = Signature(i, <<i, r, b.token.sig>>)
  BY <1>2 DEF CoCirculates
<1>6. PICK i, r : b.cells = <<i, r>> /\ c.isig = Signature(i, <<i, r, b.token.sig>>)
  BY <1>5
<1>7. <<i, r, b.token.sig>> = <<c.issuer, c.receiver, c.token.sig>>
  BY <1>1, <1>6, SignatureIdentifies
<1>8. i = c.issuer /\ r = c.receiver /\ b.token.sig = c.token.sig
  BY <1>7
<1> QED
  BY <1>4, <1>5, <1>6, <1>8

\* Whatever its rows hold, an export with the index in its ids is one row an entry.
LEMMA ExportIsFaithful ==
    ASSUME NEW S, NEW rows \in Seq(S), NEW export,
           DOMAIN export = DOMAIN rows,
           export = [i \in DOMAIN rows |-> export[i]],
           \A i \in DOMAIN rows : export[i].checksum = rows[i].hash /\ export[i].id = RefOf(rows, i)
    PROVE  /\ Len(export) = Len(rows)
           /\ \A i \in DOMAIN rows : export[i].checksum = rows[i].hash
           /\ \A i, j \in DOMAIN rows : i # j => export[i].id # export[j].id
<1>1. Len(rows) \in Nat /\ DOMAIN rows = 1..Len(rows)
  OBVIOUS
<1>2. Len(export) = Len(rows)
  BY <1>1
<1>3. ASSUME NEW i \in DOMAIN rows, NEW j \in DOMAIN rows, i # j
      PROVE  export[i].id # export[j].id
  <2>1. i \in Int /\ j \in Int /\ i - 1 # j - 1
    BY <1>1, <1>3
  <2>2. RefOf(rows, i)[1] = i - 1 /\ RefOf(rows, j)[1] = j - 1
    BY DEF RefOf
  <2> QED
    BY <2>1, <2>2
<1> QED
  BY <1>2, <1>3

\* Both exports of the bill of materials.
LEMMA SbomIsFaithful ==
    ASSUME IdentityInv
    PROVE  \A export \in {ToSpdx(sbom), ToCycloneDx(sbom)} :
             /\ Len(export) = Len(sbom)
             /\ \A i \in DOMAIN sbom : export[i].checksum = sbom[i].hash
             /\ \A i, j \in DOMAIN sbom : i # j => export[i].id # export[j].id
<1> PICK S : sbom \in Seq(S)
  BY DEF IdentityInv, DocumentInv
<1>1. ASSUME NEW export, export = ToSpdx(sbom)
      PROVE  /\ Len(export) = Len(sbom)
             /\ \A i \in DOMAIN sbom : export[i].checksum = sbom[i].hash
             /\ \A i, j \in DOMAIN sbom : i # j => export[i].id # export[j].id
  <2>1. /\ DOMAIN export = DOMAIN sbom /\ export = [i \in DOMAIN sbom |-> export[i]]
        /\ \A i \in DOMAIN sbom : export[i].checksum = sbom[i].hash /\ export[i].id = RefOf(sbom, i)
    BY <1>1 DEF ToSpdx
  <2> QED
    BY <2>1, ExportIsFaithful
<1>2. ASSUME NEW export, export = ToCycloneDx(sbom)
      PROVE  /\ Len(export) = Len(sbom)
             /\ \A i \in DOMAIN sbom : export[i].checksum = sbom[i].hash
             /\ \A i, j \in DOMAIN sbom : i # j => export[i].id # export[j].id
  <2>1. /\ DOMAIN export = DOMAIN sbom /\ export = [i \in DOMAIN sbom |-> export[i]]
        /\ \A i \in DOMAIN sbom : export[i].checksum = sbom[i].hash /\ export[i].id = RefOf(sbom, i)
    BY <1>2 DEF ToCycloneDx
  <2> QED
    BY <2>1, ExportIsFaithful
<1> QED
  BY <1>1, <1>2

\* Whatever is altered on its way, a document or a co-signed token that verifies
\* says what its signers signed, and the exports of a bill of materials say what
\* it holds (canonical_hash, cosign_token, to_spdx, to_cyclonedx).
THEOREM VerifiedIsSigned == Spec => []DocumentsAreFaithful
<1>1. IdentityInv => DocumentsAreFaithful
  BY AuthenticWasMade, CosignedWasMade, SbomIsFaithful DEF DocumentsAreFaithful
<1> QED
  BY <1>1, IdentityInvariant, PTL

\* Along every chain of delegations, of any length, depth goes down by one a
\* handover and neither scope, window nor trust grows (step_down, effective_trust).
THEOREM DelegationsAttenuate == Spec => []DelegationAttenuates
<1>1. IdentityInv => DelegationAttenuates
  <2> SUFFICES ASSUME IdentityInv, NEW c \in chains
               PROVE  \E root \in Bodies :
                        /\ root.type = "token" /\ root.jti = c.token.jti
                        /\ c.token.depth + Len(c.path) - 1 = root.depth
                        /\ c.token.scope \subseteq root.scope /\ c.token.until <= root.until
                        /\ \A i \in DOMAIN c.path : c.trust <= Level[c.path[i]]
    BY DEF DelegationAttenuates
  <2>1. Attenuated(c)
    BY DEF IdentityInv, DelegationInv
  <2>2. PICK root \in Bodies :
           /\ root.type = "token" /\ root.jti = c.token.jti
           /\ c.token.depth + Len(c.path) - 1 = root.depth
           /\ c.token.scope = root.scope /\ c.token.until = root.until
    BY <2>1 DEF Attenuated
  <2>3. root.until \in Int
    BY <2>2, BodiesAssumption
  <2>4. c.token.until <= root.until /\ c.token.scope \subseteq root.scope
    BY <2>2, <2>3
  <2>5. \A i \in DOMAIN c.path : c.trust <= Level[c.path[i]]
    BY <2>1 DEF Attenuated
  <2> QED
    BY <2>2, <2>4, <2>5
<1> QED
  BY <1>1, IdentityInvariant, PTL

-----------------------------------------------------------------------------
(* The border *)

BorderInv == agreements \in Seq(Agreements)

\* A set of naturals has a least element.
LEMMA LeastNatural ==
    ASSUME NEW T, T \subseteq Nat, T # {}
    PROVE  \E n \in T : \A m \in T : n <= m
<1> DEFINE less == OpToRel(<, Nat)
<1>1. IsWellFoundedOn(less, Nat)
  BY NatLessThanWellFounded
<1>2. PICK n \in T : \A m \in T : ~(<<m, n>> \in less)
  <2> HIDE DEF less
  <2> QED
    BY <1>1, WFMin
<1>3. \A m \in T : ~(m < n)
  BY <1>2 DEF OpToRel
<1> QED
  BY <1>3

\* agreement_for finds one agreement at most, and it is one of the router's.
LEMMA AgreementForIsOne ==
    ASSUME BorderInv, NEW from, NEW to
    PROVE  /\ AgreementFor(agreements, from, to) \subseteq Agreements
           /\ \A a, b \in AgreementFor(agreements, from, to) : a = b
<1> DEFINE covers(j) == {from, to} \subseteq agreements[j].parties
<1>1. /\ Len(agreements) \in Nat /\ DOMAIN agreements = 1..Len(agreements)
      /\ \A i \in DOMAIN agreements : agreements[i] \in Agreements
  BY DEF BorderInv
<1>2. AgreementFor(agreements, from, to) =
        {agreements[i] : i \in {j \in DOMAIN agreements : covers(j) /\ \A k \in 1..(j - 1) : ~covers(k)}}
  BY DEF AgreementFor, FirstIn
<1>3. ASSUME NEW i \in DOMAIN agreements, NEW j \in DOMAIN agreements,
             covers(i), covers(j), \A k \in 1..(i - 1) : ~covers(k), \A k \in 1..(j - 1) : ~covers(k)
      PROVE  i = j
  <2> HIDE DEF covers
  <2>1. i \in Nat /\ j \in Nat /\ i >= 1 /\ j >= 1
    BY <1>1
  <2>2. ~(i < j) /\ ~(j < i)
    BY <2>1, <1>3
  <2> QED
    BY <2>1, <2>2
<1> HIDE DEF covers
<1> QED
  BY <1>1, <1>2, <1>3

\* What the closure `check` passes has a rule, and passes for a lower class too.
LEMMA CheckPasses ==
    ASSUME NEW a \in Agreements, NEW class \in Int, NEW ref, NEW op, Check(a, class, ref, op) = "ok"
    PROVE  /\ FindRule(a, ref.entity, op) # {}
           /\ \A lower \in Int : lower <= class => Check(a, lower, ref, op) = "ok"
<1>1. \A r \in FindRule(a, ref.entity, op) : r.cap \in Int
  <2>1. \A r \in FindRule(a, ref.entity, op) : \E i \in DOMAIN a.rules : r = a.rules[i]
    BY DEF FindRule, FirstIn
  <2> QED
    BY <2>1, BorderAssumption
<1> PICK found : found = FindRule(a, ref.entity, op)
  OBVIOUS
<1>2. /\ found # {} /\ ~\E r \in found : class > r.cap
      /\ ~\E r \in found : NoTenant \notin {r.tenant, ref.tenant} /\ r.tenant # ref.tenant
  BY DEF Check
<1>3. ASSUME NEW lower \in Int, lower <= class
      PROVE  Check(a, lower, ref, op) = "ok"
  <2>1. ~\E r \in found : lower > r.cap
    BY <1>1, <1>2, <1>3
  <2> QED
    BY <1>2, <2>1 DEF Check
<1> QED
  BY <1>2, <1>3

\* `check` passes everything a capability reads, writes and emits.
AllPass(a, c) ==
    /\ \A i \in DOMAIN c.reads : Check(a, c.class, c.reads[i], "Read") = "ok"
    /\ \A i \in DOMAIN c.writes : Check(a, c.class, c.writes[i], "Write") = "ok"
    /\ \A i \in DOMAIN c.emits :
         Check(a, c.class, [entity |-> c.emits[i], tenant |-> NoTenant], "Emit") = "ok"

\* No check of the list refuses.
NoError(results) == \A i \in DOMAIN results : results[i] = "ok"

\* One list of results after another holds an error when either does.
LEMMA BothPass ==
    ASSUME NEW S, NEW x \in Seq(S), NEW y \in Seq(S)
    PROVE  /\ x \o y \in Seq(S)
           /\ (NoError(x \o y) <=> NoError(x) /\ NoError(y))
<1>1. /\ x \o y \in Seq(S) /\ DOMAIN (x \o y) = 1..(Len(x) + Len(y))
      /\ DOMAIN x = 1..Len(x) /\ DOMAIN y = 1..Len(y) /\ Len(x) \in Nat /\ Len(y) \in Nat
      /\ \A i \in 1..(Len(x) + Len(y)) : (x \o y)[i] = IF i <= Len(x) THEN x[i] ELSE y[i - Len(x)]
  OBVIOUS
<1> PICK z : z = x \o y
  OBVIOUS
<1>2. \A i \in 1..Len(x) : i \in DOMAIN z /\ z[i] = x[i]
  BY <1>1
<1>3. \A i \in 1..Len(y) : i + Len(x) \in DOMAIN z /\ z[i + Len(x)] = y[i]
  BY <1>1
<1>4. \A i \in DOMAIN z : (i \in DOMAIN x /\ z[i] = x[i]) \/ (i - Len(x) \in DOMAIN y /\ z[i] = y[i - Len(x)])
  BY <1>1
<1>5. NoError(z) => NoError(x) /\ NoError(y)
  BY <1>1, <1>2, <1>3 DEF NoError
<1>6. NoError(x) /\ NoError(y) => NoError(z)
  BY <1>4 DEF NoError
<1> QED
  BY <1>1, <1>5, <1>6

\* The results of the three lists hold an error when one of them does.
LEMMA ResultsPass ==
    ASSUME NEW a, NEW c \in Exported
    PROVE  /\ \E S : Results(a, c) \in Seq(S)
           /\ NoError(Results(a, c)) <=> AllPass(a, c)
<1> PICK R, W, E :
      /\ R = [i \in DOMAIN c.reads |-> Check(a, c.class, c.reads[i], "Read")]
      /\ W = [i \in DOMAIN c.writes |-> Check(a, c.class, c.writes[i], "Write")]
      /\ E = [i \in DOMAIN c.emits |->
                Check(a, c.class, [entity |-> c.emits[i], tenant |-> NoTenant], "Emit")]
  OBVIOUS
<1>1. /\ DOMAIN R = 1..Len(c.reads) /\ DOMAIN W = 1..Len(c.writes) /\ DOMAIN E = 1..Len(c.emits)
      /\ Len(c.reads) \in Nat /\ Len(c.writes) \in Nat /\ Len(c.emits) \in Nat
  BY BorderAssumption
<1>2. AllPass(a, c) <=> NoError(R) /\ NoError(W) /\ NoError(E)
  BY DEF AllPass, NoError
<1> PICK S : S = {"ok", "EntityNotPermitted", "ClassificationCapExceeded", "TenantMismatch"}
  OBVIOUS
<1>3. \A class, ref, op : Check(a, class, ref, op) \in S
  BY DEF Check
<1>4. R \in Seq(S) /\ W \in Seq(S) /\ E \in Seq(S)
  <2>1. ASSUME NEW n \in Nat, NEW f, f = [i \in 1..n |-> f[i]], \A i \in 1..n : f[i] \in S
        PROVE  f \in Seq(S)
    BY <2>1
  <2>2. (\A i \in DOMAIN R : R[i] \in S) /\ R = [i \in 1..Len(c.reads) |-> R[i]]
    BY <1>1, <1>3
  <2>3. (\A i \in DOMAIN W : W[i] \in S) /\ W = [i \in 1..Len(c.writes) |-> W[i]]
    BY <1>1, <1>3
  <2>4. (\A i \in DOMAIN E : E[i] \in S) /\ E = [i \in 1..Len(c.emits) |-> E[i]]
    BY <1>1, <1>3
  <2> QED
    BY <1>1, <2>1, <2>2, <2>3, <2>4
<1>5. Results(a, c) = (R \o W) \o E
  BY DEF Results
<1>6. R \o W \in Seq(S) /\ (NoError(R \o W) <=> NoError(R) /\ NoError(W))
  BY <1>4, BothPass
<1>7. (R \o W) \o E \in Seq(S) /\ (NoError((R \o W) \o E) <=> NoError(R \o W) /\ NoError(E))
  BY <1>4, <1>6, BothPass
<1> QED
  BY <1>2, <1>5, <1>6, <1>7

\* enforce_capability passes what the agreement found has no rules for, or passes
\* altogether: an error among the results is found, as there is a first one.
LEMMA CapabilityPasses ==
    ASSUME BorderInv, NEW from, NEW to, NEW c \in Exported
    PROVE  EnforceCapability(agreements, from, to, c) = "ok" <=>
             \E a \in AgreementFor(agreements, from, to) : a.rules = <<>> \/ AllPass(a, c)
<1> PICK agreed : agreed = AgreementFor(agreements, from, to)
  OBVIOUS
<1>1. agreed \subseteq Agreements /\ \A a, b \in agreed : a = b
  BY AgreementForIsOne
<1>2. CASE agreed = {}
  BY <1>2 DEF EnforceCapability
<1>3. CASE agreed # {}
  <2> DEFINE a == CHOOSE x \in AgreementFor(agreements, from, to) : TRUE
             errors == FirstIn(Results(a, c), LAMBDA e : e # "ok")
  <2>2. EnforceCapability(agreements, from, to, c) =
          IF a.rules = <<>> THEN EnforceOutbound(agreements, from, to, {})
          ELSE IF errors = {} THEN "ok" ELSE CHOOSE e \in errors : TRUE
    BY <1>3, Zenon DEF EnforceCapability
  <2>1. a \in agreed /\ \A b \in agreed : b = a
    BY <1>1, <1>3
  <2> HIDE DEF a
  <2>3. EnforceOutbound(agreements, from, to, {}) = "ok"
    BY <1>3 DEF EnforceOutbound
  <2> PICK results : results = Results(a, c)
    OBVIOUS
  <2>4. errors = {results[i] : i \in {j \in DOMAIN results :
                    results[j] # "ok" /\ \A k \in 1..(j - 1) : ~(results[k] # "ok")}}
    BY DEF FirstIn
  <2> HIDE DEF errors
  <2>5. \A e \in errors : e # "ok"
    BY <2>4
  <2>6. (\A i \in DOMAIN results : results[i] = "ok") <=> AllPass(a, c)
    BY ResultsPass DEF NoError
  <2>7. errors = {} <=> \A i \in DOMAIN results : results[i] = "ok"
    <3>1. ASSUME NEW i \in DOMAIN results, results[i] # "ok"
          PROVE  errors # {}
      <4> DEFINE failing == {j \in DOMAIN results : results[j] # "ok"}
      <4>1. PICK S : results \in Seq(S)
        BY ResultsPass
      <4>2. DOMAIN results = 1..Len(results) /\ Len(results) \in Nat
        BY <4>1
      <4>3. i \in failing /\ failing \subseteq Nat
        BY <3>1, <4>2
      <4>4. PICK j \in failing : \A k \in failing : j <= k
        <5> HIDE DEF failing
        <5> QED
          BY <4>3, LeastNatural
      <4>5. \A k \in 1..(j - 1) : k \in DOMAIN results /\ k \notin failing
        BY <4>2, <4>4
      <4>6. j \in DOMAIN results /\ results[j] # "ok" /\ \A k \in 1..(j - 1) : ~(results[k] # "ok")
        BY <4>4, <4>5
      <4> QED
        BY <2>4, <4>6
    <3>2. (\A i \in DOMAIN results : results[i] = "ok") => errors = {}
      BY <2>4
    <3> QED
      BY <3>1, <3>2
  <2>8. errors # {} => (CHOOSE e \in errors : TRUE) # "ok"
    BY <2>5
  <2>9. EnforceCapability(agreements, from, to, c) = "ok" <=> a.rules = <<>> \/ AllPass(a, c)
    BY <2>2, <2>3, <2>6, <2>7, <2>8
  <2> QED
    BY <2>1, <2>9
<1> QED
  BY <1>2, <1>3

\* A capability that touches less and is classified no higher passes too.
LEMMA LessPasses ==
    ASSUME NEW a \in Agreements, NEW c \in Exported, NEW d \in Exported, Touches(d, c), AllPass(a, c)
    PROVE  AllPass(a, d)
<1>1. d.class \in Int /\ c.class \in Int /\ d.class <= c.class
  BY BorderAssumption DEF Touches
<1>2. ASSUME NEW ref, NEW op, Check(a, c.class, ref, op) = "ok"
      PROVE  Check(a, d.class, ref, op) = "ok"
  BY <1>1, <1>2, CheckPasses
<1>3. \A i \in DOMAIN d.reads : \E j \in DOMAIN c.reads : d.reads[i] = c.reads[j]
  BY DEF Touches, Range
<1>4. \A i \in DOMAIN d.writes : \E j \in DOMAIN c.writes : d.writes[i] = c.writes[j]
  BY DEF Touches, Range
<1>5. \A i \in DOMAIN d.emits : \E j \in DOMAIN c.emits : d.emits[i] = c.emits[j]
  BY DEF Touches, Range
<1>6. \A i \in DOMAIN d.reads : Check(a, d.class, d.reads[i], "Read") = "ok"
  BY <1>2, <1>3 DEF AllPass
<1>7. \A i \in DOMAIN d.writes : Check(a, d.class, d.writes[i], "Write") = "ok"
  BY <1>2, <1>4 DEF AllPass
<1>8. \A i \in DOMAIN d.emits :
         Check(a, d.class, [entity |-> d.emits[i], tenant |-> NoTenant], "Emit") = "ok"
  BY <1>2, <1>5 DEF AllPass
<1> QED
  BY <1>6, <1>7, <1>8 DEF AllPass

\* Whatever agreements the router was built over, what enforce_capability lets
\* across, enforce_outbound_entity lets across entity by entity, and so it does a
\* capability that touches less and is classified no higher.
THEOREM BorderHolds == Spec => []BorderIsConsistent
<1>1. Init => BorderInv
  BY DEF Init, BorderInv
<1>2. BorderInv /\ [Next]_vars => BorderInv'
  <2> SUFFICES ASSUME BorderInv, [Next]_vars
               PROVE  BorderInv'
    OBVIOUS
  <2>1. ASSUME NEW a \in Agreements, Agree(a)
        PROVE  BorderInv'
    BY <2>1 DEF Agree, BorderInv
  <2>2. CASE UNCHANGED agreements
    BY <2>2 DEF BorderInv
  <2> QED
    BY <2>1, <2>2 DEF Next, Generate, Issue, Attest, Delegate, Alter, Cosign, AlterCosigned,
       RevokeList, RevokeIndex, Tick, Push, vars
<1>3. BorderInv => BorderIsConsistent
  <2> SUFFICES ASSUME BorderInv, NEW from \in Cells, NEW to \in Cells, NEW c \in Exported,
                      EnforceCapability(agreements, from, to, c) = "ok"
               PROVE  /\ \A i \in DOMAIN c.reads :
                           EnforceOutboundEntity(agreements, from, to, c.reads[i].entity, "Read") = "ok"
                      /\ \A i \in DOMAIN c.writes :
                           EnforceOutboundEntity(agreements, from, to, c.writes[i].entity, "Write") = "ok"
                      /\ \A d \in {e \in Exported : Touches(e, c)} :
                           EnforceCapability(agreements, from, to, d) = "ok"
    BY DEF BorderIsConsistent
  <2>1. PICK a \in AgreementFor(agreements, from, to) : a.rules = <<>> \/ AllPass(a, c)
    BY CapabilityPasses
  <2>2. a \in Agreements /\ \A b \in AgreementFor(agreements, from, to) : b = a
    BY AgreementForIsOne
  <2>3. c.class \in Int
    BY BorderAssumption
  <2>4. ASSUME NEW ref, NEW op, a.rules = <<>> \/ Check(a, c.class, ref, op) = "ok"
        PROVE  EnforceOutboundEntity(agreements, from, to, ref.entity, op) = "ok"
    <3>1. a.rules = <<>> \/ FindRule(a, ref.entity, op) # {}
      BY <2>2, <2>3, <2>4, CheckPasses
    <3> QED
      BY <2>1, <2>2, <3>1 DEF EnforceOutboundEntity
  <2>5. \A i \in DOMAIN c.reads : a.rules = <<>> \/ Check(a, c.class, c.reads[i], "Read") = "ok"
    BY <2>1 DEF AllPass
  <2>6. \A i \in DOMAIN c.writes : a.rules = <<>> \/ Check(a, c.class, c.writes[i], "Write") = "ok"
    BY <2>1 DEF AllPass
  <2>7. ASSUME NEW d \in Exported, Touches(d, c)
        PROVE  EnforceCapability(agreements, from, to, d) = "ok"
    <3>1. a.rules = <<>> \/ AllPass(a, d)
      BY <2>1, <2>2, <2>7, LessPasses
    <3> QED
      BY <2>1, <3>1, CapabilityPasses
  <2> QED
    BY <2>4, <2>5, <2>6, <2>7
<1> QED
  BY <1>1, <1>2, <1>3, PTL DEF Spec
=============================================================================
