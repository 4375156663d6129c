------------------------------ MODULE FastPath ------------------------------
(* Fast-path rules of the planner crate: a list of rules, written by hand or   *)
(* learned, the first enabled one that matches an intent decides.  An intent   *)
(* is [type, domain, constraints], the constraints a function.                 *)
EXTENDS Integers, Sequences, FiniteSets, SequencesExt, FiniteSetsExt

NoId == <<>>
NoMatch == [matched |-> FALSE]

\* A TaggedRule without its evidence, which nothing reads
Tagged(rule, id) == [rule |-> rule, id |-> id, enabled |-> TRUE]

\* FastPathRuleSet::push and add_learned
Push(rules, rule) == Append(rules, Tagged(rule, NoId))
AddLearned(rules, rule, id) == Append(rules, Tagged(rule, id))

\* Mutant: the loop stops at the first rule with the id.
SetLearned_First(rules, id, enabled) ==
    [i \in DOMAIN rules |->
        IF rules[i].id = id /\ \A j \in 1..(i - 1) : rules[j].id # id
        THEN [rules[i] EXCEPT !.enabled = enabled] ELSE rules[i]]

\* disable_learned and enable_learned: every rule with this id
SetLearned(rules, id, enabled) ==
    [i \in DOMAIN rules |-> IF rules[i].id = id THEN [rules[i] EXCEPT !.enabled = enabled] ELSE rules[i]]

Matches(rule, intent) ==
    /\ rule.type = intent.type
    /\ rule.domain = intent.domain
    /\ \A c \in rule.conditions : c.field \in DOMAIN intent.constraints /\ intent.constraints[c.field] = c.equals

\* FastPathRuleSet::evaluate: the index of the rule that decides, 0 for none
Deciding(rules, intent) ==
    LET hits == {i \in DOMAIN rules : rules[i].enabled /\ Matches(rules[i].rule, intent)}
    IN  IF hits = {} THEN 0 ELSE Min(hits)

\* The request is made of the mapped fields the intent has.
Evaluate(rules, intent) ==
    LET i == Deciding(rules, intent)
    IN  IF i = 0 THEN NoMatch
        ELSE [matched |-> TRUE, capability |-> rules[i].rule.capability,
              request |-> {<<fm.to, intent.constraints[fm.from]>> :
                             fm \in {f \in rules[i].rule.mapping : f.from \in DOMAIN intent.constraints}}]

\* Router::classify
Pattern(rules, intent, capabilities) ==
    IF Evaluate(rules, intent) # NoMatch THEN "FastPath"
    ELSE IF intent.type = "Delegation" THEN "AgenticChoreography"
    ELSE IF intent.type \in {"Analytical", "Transactional"} /\ capabilities <= 1 THEN "AgentAssisted"
    ELSE "FullAgentic"

-----------------------------------------------------------------------------
(* The sidecar's proxy: a list of rules of its own, all written by hand.       *)

\* Proxy::handle
Handle(healthy, local, intent) ==
    IF ~healthy THEN "DirectForward"
    ELSE IF Evaluate(local, intent) # NoMatch THEN "FastPath" ELSE "ForwardToAaf"
=============================================================================
