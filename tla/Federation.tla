----------------------------- MODULE Federation -----------------------------
(***************************************************************************)
(* aaf-federation's Router: what an agreement between two cells lets       *)
(* across.  The router is immutable; the lists it searches are sequences,  *)
(* because the first match decides.                                        *)
(* An agreement is [parties, prohibited, rules], a rule [entity, op, cap,  *)
(* tenant] with a classification 0 (Public) .. 3 (Restricted) or NoCap, a  *)
(* capability [class, reads, writes, emits].                               *)
(***************************************************************************)
EXTENDS Naturals, Sequences, SequencesExt

CONSTANT NoTenant   \* an absent tenant

NoCap == 4

\* The first element of a sequence that satisfies a test, in a set of one or none.
FirstIn(seq, Test(_)) ==
    {seq[i] : i \in {j \in DOMAIN seq : Test(seq[j]) /\ \A k \in 1..(j - 1) : ~Test(seq[k])}}

\* Router::agreement_for.
AgreementFor(agreements, from, to) ==
    FirstIn(agreements, LAMBDA a : {from, to} \subseteq a.parties)

\* FederationAgreement::find_rule.
FindRule(agreement, entity, op) ==
    FirstIn(agreement.rules, LAMBDA r : r.entity = entity /\ r.op = op)

\* Router::enforce_outbound: the names of the payload's top-level fields.
EnforceOutbound(agreements, from, to, fields) ==
    LET agreed == AgreementFor(agreements, from, to)
    IN  CASE agreed = {} -> "NoAgreement"
          [] \E a \in agreed : fields \cap a.prohibited # {} -> "BoundaryViolation"
          [] OTHER -> "ok"

Check_Lenient(agreement, class, ref, op) ==
    IF \E r \in FindRule(agreement, ref.entity, op) : class > r.cap
    THEN "ClassificationCapExceeded" ELSE "ok"

\* The closure `check` of enforce_capability: a tenant is compared only when
\* the rule and the reference both name one.
Check(agreement, class, ref, op) ==
    LET found == FindRule(agreement, ref.entity, op)
    IN  IF found = {} THEN "EntityNotPermitted"
        ELSE IF \E r \in found : class > r.cap THEN "ClassificationCapExceeded"
        ELSE IF \E r \in found : /\ NoTenant \notin {r.tenant, ref.tenant}
                                 /\ r.tenant # ref.tenant THEN "TenantMismatch"
        ELSE "ok"

\* What `check` says of the reads, then the writes, then the emits, whose tenant
\* is not looked at.
Results(a, c) ==
    [i \in DOMAIN c.reads |-> Check(a, c.class, c.reads[i], "Read")]
    \o [i \in DOMAIN c.writes |-> Check(a, c.class, c.writes[i], "Write")]
    \o [i \in DOMAIN c.emits |->
          Check(a, c.class, [entity |-> c.emits[i], tenant |-> NoTenant], "Emit")]

\* Router::enforce_capability: the first error is returned; without entity
\* rules everything passes.
EnforceCapability(agreements, from, to, c) ==
    LET agreed == AgreementFor(agreements, from, to) IN
    IF agreed = {} THEN "NoAgreement"
    ELSE LET a == CHOOSE x \in agreed : TRUE
             errors == FirstIn(Results(a, c), LAMBDA e : e # "ok")
         IN  IF a.rules = <<>> THEN EnforceOutbound(agreements, from, to, {})
             ELSE IF errors = {} THEN "ok" ELSE CHOOSE e \in errors : TRUE

\* Router::enforce_outbound_entity: neither class nor tenant is looked at.
EnforceOutboundEntity(agreements, from, to, entity, op) ==
    LET agreed == AgreementFor(agreements, from, to)
    IN  CASE agreed = {} -> "NoAgreement"
          [] \E a \in agreed : a.rules # <<>> /\ FindRule(a, entity, op) = {} -> "EntityNotPermitted"
          [] OTHER -> "ok"
=============================================================================
