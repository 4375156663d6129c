---------------------------- MODULE PolicyRules ----------------------------
(***************************************************************************)
(* The rules of the policy engine (aaf-policy) as operators on a policy    *)
(* context, and the severity ladder that turns the violations of one       *)
(* evaluation into a decision.                                             *)
(*                                                                         *)
(* A context is a record with the fields of PolicyContext.  An Option<T>   *)
(* is a set with at most one element; a text is the set of the pattern     *)
(* families that match it ("pii", "injection"), the regular expressions    *)
(* themselves being abstracted.                                            *)
(***************************************************************************)
EXTENDS Integers

\* The side effects the runtime treats as writes.
WriteClass == {"Write", "Delete", "Send", "Payment"}

SideEffects == WriteClass \cup {"None", "Read"}

Hooks == {"PrePlan", "PreStep", "PostStep", "PreArtifact"}

Violation(kind, severity) == [kind |-> kind, severity |-> severity]

-----------------------------------------------------------------------------
(* The seven default rules: each yields at most one violation.             *)

\* Mutant: the requester must have the required scope and no other.
ScopeCheck_Exact(ctx) ==
    {Violation("ScopeCheck", "Error") :
        c \in {c \in ctx.capability : c.required_scope # {} /\ c.required_scope # ctx.scopes}}

\* The capability's required scope (an Option: the empty string is {}) must
\* be one of the requester's.
ScopeCheck(ctx) ==
    {Violation("ScopeCheck", "Error") :
        c \in {c \in ctx.capability : ~ (c.required_scope \subseteq ctx.scopes)}}

\* The side effect given by the caller, or else the capability's.
SideEffectInContext(ctx) ==
    IF ctx.side_effect # {} THEN ctx.side_effect
                            ELSE {c.side_effect : c \in ctx.capability}

IsWrite(ctx) == SideEffectInContext(ctx) \cap WriteClass # {}

SideEffectGate(ctx) ==
    IF IsWrite(ctx) /\ "auto-approve" \notin ctx.scopes
    THEN {Violation("SideEffectGate", "Warning")} ELSE {}

\* warn_at_pct is 80%: used / total >= 0.8, in integers.
BudgetControl(ctx) ==
    LET used == IF ctx.total > ctx.remaining THEN ctx.total - ctx.remaining ELSE 0
    IN  IF ctx.total <= 0 THEN {}
        ELSE IF ctx.remaining <= 0 THEN {Violation("BudgetControl", "Error")}
        ELSE IF 10 * used >= 8 * ctx.total THEN {Violation("BudgetControl", "Warning")}
        ELSE {}

\* Scans the output, or the payload when there is no output.
PiiGuard(ctx) ==
    LET text == IF ctx.output # {} THEN ctx.output ELSE ctx.payload
    IN  IF \E t \in text : "pii" \in t THEN {Violation("PiiGuard", "Error")} ELSE {}

InjectionGuard(ctx) ==
    IF \E t \in ctx.payload : "injection" \in t
    THEN {Violation("InjectionGuard", "Error")} ELSE {}

MaxCombinedWrites == 3

CompositionSafety(ctx) ==
    IF IsWrite(ctx) /\ ctx.composed_writes + 1 > MaxCombinedWrites
    THEN {Violation("CompositionSafety", "Warning")} ELSE {}

\* Levels of DataClassification and of EntityClass on one scale.
ClassLevel == [Public |-> 0, Internal |-> 1, Confidential |-> 2, Restricted |-> 3]

TenantMismatch(ctx) ==
    \E active \in ctx.tenant, req \in ctx.requester_tenant : active # req

LacksClassScope(ctx) ==
    \E c \in ctx.capability :
        \/ c.class = "Confidential" /\ "confidential:read" \notin ctx.scopes
        \/ c.class = "Restricted" /\ "restricted:read" \notin ctx.scopes

\* With an ontology lookup installed: an entity the capability reads is
\* classified above the capability, or one it writes belongs to another tenant.
\* reads is the set of levels the lookup reports, write_tenants the tenants
\* declared on the entities it writes.
ClassificationFlow(ctx) ==
    /\ ctx.lookup
    /\ \E c \in ctx.capability :
        \/ \E level \in c.reads : level > ClassLevel[c.class]
        \/ \E w \in c.write_tenants, active \in ctx.tenant : w # active

\* The checks run in this order and the first that fires is the violation.
BoundaryEnforcement(ctx) ==
    IF TenantMismatch(ctx) THEN {Violation("BoundaryEnforcement", "Fatal")}
    ELSE IF LacksClassScope(ctx) THEN {Violation("BoundaryEnforcement", "Error")}
    ELSE IF ClassificationFlow(ctx) THEN {Violation("BoundaryEnforcement", "Fatal")}
    ELSE {}

-----------------------------------------------------------------------------
(* The engine.                                                             *)

DefaultRules == {"ScopeCheck", "SideEffectGate", "BudgetControl", "PiiGuard",
                 "InjectionGuard", "CompositionSafety", "BoundaryEnforcement"}

\* applicable_hooks(): every hook unless the rule restricts them.
ApplicableHooks(rule) ==
    CASE rule = "PiiGuard" -> {"PostStep", "PreArtifact"}
      [] rule = "InjectionGuard" -> {"PrePlan", "PreStep"}
      [] OTHER -> Hooks

RuleEvaluate(rule, ctx) ==
    CASE rule = "ScopeCheck" -> ScopeCheck(ctx)
      [] rule = "SideEffectGate" -> SideEffectGate(ctx)
      [] rule = "BudgetControl" -> BudgetControl(ctx)
      [] rule = "PiiGuard" -> PiiGuard(ctx)
      [] rule = "InjectionGuard" -> InjectionGuard(ctx)
      [] rule = "CompositionSafety" -> CompositionSafety(ctx)
      [] rule = "BoundaryEnforcement" -> BoundaryEnforcement(ctx)

Violations(rules, ctx) ==
    UNION {RuleEvaluate(rule, ctx) :
              rule \in {q \in rules : ctx.hook \in ApplicableHooks(q)}}

\* Mutant: the gate is looked for before the severe violations.
Decide_GateFirst(violations) ==
    IF violations = {} THEN "Allow"
    ELSE IF \E v \in violations : v.kind = "SideEffectGate" THEN "RequireApproval"
    ELSE IF \E v \in violations : v.severity \in {"Error", "Fatal"} THEN "Deny"
    ELSE "AllowWithWarnings"

\* The severity ladder, with the side-effect gate as its special case.
Decide(violations) ==
    IF violations = {} THEN "Allow"
    ELSE IF \E v \in violations : v.severity \in {"Error", "Fatal"} THEN "Deny"
    ELSE IF \E v \in violations : v.kind = "SideEffectGate" THEN "RequireApproval"
    ELSE "AllowWithWarnings"

\* evaluate(): the engine's rules on ctx; custom holds the violations reported
\* by the rules added with add_rule, which are the deployment's own code.
Evaluate(rules, ctx, custom) == Decide(Violations(rules, ctx) \cup custom)

DecisionRank == [Allow |-> 0, AllowWithWarnings |-> 1, RequireApproval |-> 2, Deny |-> 3]

\* Whether the caller of evaluate() goes on.
Proceeds(decision) == decision \in {"Allow", "AllowWithWarnings"}
=============================================================================
