---------------------------- MODULE PolicyEngine ----------------------------
(***************************************************************************)
(* One policy engine and the sequence of contexts it is asked about: the   *)
(* three guards of guard.rs each build a context of their own, a           *)
(* deployment adds rules, and between two evaluations the requester may    *)
(* gain a scope, the budget may be spent and writes may be composed.       *)
(***************************************************************************)
EXTENDS PolicyRules

CONSTANTS
    Scopes,            \* scopes a requester may carry
    Tenants,           \* tenant names
    Texts,             \* payloads and outputs, as sets of matching patterns
    Capabilities,      \* capability contracts, reduced to the fields rules read
    CustomViolations,  \* violations a custom rule may report
    Total,             \* intent.budget.max_cost_usd
    MaxWrites          \* bound on composed_writes

ASSUME PolicyAssumption ==
    /\ Total \in Nat /\ MaxWrites \in Nat
    /\ Texts \subseteq SUBSET {"pii", "injection"}

VARIABLES
    rules,   \* the built-in rules of the engine
    custom,  \* the violations its custom rules report
    ctx      \* the context of the latest evaluation

policyVars == <<rules, custom, ctx>>

Option(S) == {{}} \cup {{x} : x \in S}

Contexts ==
    [hook : Hooks, capability : Option(Capabilities), scopes : SUBSET Scopes,
     payload : Option(Texts), output : Option(Texts),
     side_effect : Option(SideEffects), total : {Total}, remaining : 0..Total,
     tenant : Option(Tenants), requester_tenant : Option(Tenants),
     composed_writes : 0..MaxWrites, lookup : BOOLEAN]

\* What every guard fills in the same way from the intent.
GuardContext(scopes, tenant) ==
    [hook |-> "PreStep", capability |-> {}, scopes |-> scopes, payload |-> {},
     output |-> {}, side_effect |-> {}, total |-> Total, remaining |-> Total,
     tenant |-> tenant, requester_tenant |-> tenant, composed_writes |-> 0,
     lookup |-> FALSE]

InputGuard(scopes, tenant, text) ==
    [GuardContext(scopes, tenant) EXCEPT !.payload = {text}]

OutputGuard(scopes, tenant, text) ==
    [GuardContext(scopes, tenant) EXCEPT !.hook = "PostStep", !.output = {text}]

ActionGuard(scopes, tenant, cap, writes) ==
    [GuardContext(scopes, tenant) EXCEPT
        !.capability = {cap}, !.side_effect = {cap.side_effect},
        !.composed_writes = writes]

Decision == Evaluate(rules, ctx, custom)

-----------------------------------------------------------------------------
(* PolicyContext is a public record, so beside the guards any caller can   *)
(* ask again about a context that differs in one field.                    *)

PolicyInit ==
    /\ rules \in {{}, DefaultRules}          \* empty() or with_default_rules()
    /\ custom = {}
    /\ \E text \in Texts, tenant \in Option(Tenants) :
           ctx = InputGuard({}, tenant, text)

CheckInput ==
    /\ \E text \in Texts : ctx' = InputGuard(ctx.scopes, ctx.requester_tenant, text)
    /\ UNCHANGED <<rules, custom>>

CheckOutput ==
    /\ \E text \in Texts : ctx' = OutputGuard(ctx.scopes, ctx.requester_tenant, text)
    /\ UNCHANGED <<rules, custom>>

CheckAction ==
    /\ \E cap \in Capabilities, writes \in 0..MaxWrites :
           ctx' = ActionGuard(ctx.scopes, ctx.requester_tenant, cap, writes)
    /\ UNCHANGED <<rules, custom>>

AddRule ==
    /\ \E v \in CustomViolations : custom' = custom \cup {v}
    /\ UNCHANGED <<rules, ctx>>

\* A caller with a budget tracker asks again with less budget left.
Spend ==
    /\ ctx.remaining > 0
    /\ ctx' = [ctx EXCEPT !.remaining = @ - 1]
    /\ UNCHANGED <<rules, custom>>

\* The same action after one more write has been composed in the trace.
ComposeWrite ==
    /\ ctx.composed_writes < MaxWrites
    /\ ctx' = [ctx EXCEPT !.composed_writes = @ + 1]
    /\ UNCHANGED <<rules, custom>>

\* The same question asked with an ontology lookup installed.
InstallLookup ==
    /\ ~ ctx.lookup
    /\ ctx' = [ctx EXCEPT !.lookup = TRUE]
    /\ UNCHANGED <<rules, custom>>

\* The same question for another active tenant.
SwitchTenant ==
    /\ \E t \in Tenants : ctx' = [ctx EXCEPT !.tenant = {t}]
    /\ UNCHANGED <<rules, custom>>

GrantScope ==
    /\ \E s \in Scopes \ ctx.scopes : ctx' = [ctx EXCEPT !.scopes = @ \cup {s}]
    /\ UNCHANGED <<rules, custom>>

PolicyNext ==
    \/ CheckInput \/ CheckOutput \/ CheckAction \/ AddRule
    \/ Spend \/ ComposeWrite \/ InstallLookup \/ SwitchTenant \/ GrantScope

PolicySpec == PolicyInit /\ [][PolicyNext]_policyVars

-----------------------------------------------------------------------------
(* Properties.                                                             *)

\* Adding a rule, spending budget, composing another write or installing the
\* ontology lookup never relaxes the decision on the same question, and a scope
\* that the requester gains never tightens it: evaluate() takes the most severe
\* reading of all the violations it collected, from rules that know nothing of
\* each other.
DecisionsAreMonotone ==
    [][LET before == DecisionRank[Decision]
           after  == DecisionRank[Decision']
       IN  /\ AddRule \/ Spend \/ ComposeWrite \/ InstallLookup => after >= before
           /\ GrantScope => after <= before]_policyVars
=============================================================================
