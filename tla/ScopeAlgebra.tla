---------------------------- MODULE ScopeAlgebra ----------------------------
(* The permission algebra of aaf-policy.  A scope such as "order:write" is the *)
(* sequence of its segments, <<"order", "write">>; the segment "*" is the      *)
(* wildcard: <<"order", "*">> in a grant, <<"*", "read">> in a ceiling.        *)
EXTENDS Integers, Sequences

Wild == "*"

\* scope_matches: equal, the global wildcard, or every segment before a final
\* wildcard of the grant with at least one more after them
ScopeMatches(granted, required) ==
    LET n == Len(granted)
    IN  \/ granted = required
        \/ granted = <<Wild>>
        \/ /\ n > 1 /\ granted[n] = Wild
           /\ Len(required) >= n
           /\ SubSeq(required, 1, n - 1) = SubSeq(granted, 1, n - 1)

\* ceiling_matches: the global wildcard, or every segment after a leading one
CeilingMatches(ceiling, scope) ==
    LET n == Len(ceiling)
    IN  \/ ceiling = <<Wild>>
        \/ ceiling = scope
        \/ /\ n > 1 /\ ceiling[1] = Wild
           /\ Len(scope) >= n
           /\ SubSeq(scope, Len(scope) - n + 2, Len(scope)) = SubSeq(ceiling, 2, n)

\* autonomy_ceiling: Level4 lists the verbs it allows
Verbs(level) ==
    CASE level = 1 -> {}
      [] level = 2 -> {"read"}
      [] level = 3 -> {"read", "write"}
      [] level = 4 -> {"read", "write", "delete", "send", "execute"}
      [] OTHER -> {}

\* Mutant: the list of Level4 starts after the verb Level3 added.
AutonomyCeiling_NotNested(level) ==
    IF level = 5 THEN {<<Wild>>} ELSE {<<Wild, v>> : v \in Verbs(level) \ (IF level = 4 THEN {"write"} ELSE {})}

AutonomyCeiling(level) ==
    IF level = 5 THEN {<<Wild>>} ELSE {<<Wild, v>> : v \in Verbs(level)}

\* What the user may do of what the intent needs
AfterIntent(user, intent) == {s \in intent : \E granted \in user : ScopeMatches(granted, s)}

\* effective_scopes
EffectiveScopes(user, intent, level) ==
    {s \in AfterIntent(user, intent) :
        \E c \in AutonomyCeiling(level) : ScopeMatches(c, s) \/ CeilingMatches(c, s)}

\* compute_effective_scopes, which matches the ceiling as if it were a grant
ComputeEffectiveScopes(user, intent, level) ==
    {s \in AfterIntent(user, intent) : \E c \in AutonomyCeiling(level) : ScopeMatches(c, s)}
=============================================================================
