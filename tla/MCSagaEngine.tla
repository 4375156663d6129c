---------------------------- MODULE MCSagaEngine ----------------------------
(* Model-checking instance of SagaEngine: a saga whose rules select every    *)
(* recovery action.                                                          *)
EXTENDS SagaEngine

Rule(condition, act, labels) == [condition |-> condition, action |-> act, preserve |-> labels]
Plain(n) == [number |-> n, plain |-> TRUE]
Prefixed(n) == [number |-> n, plain |-> FALSE]

Step(n, comp, type, rules) ==
    [step |-> n, compensation |-> comp, compensation_type |-> type, rules |-> rules]

\* Numbered as after an edit that removed two steps.
OrderSaga ==
    <<Step(1, TRUE, "Mandatory", <<>>),
      Step(2, TRUE, "BestEffort", <<Rule("busy", "RetryWithAlternative", {})>>),
      Step(4, FALSE, "None", <<Rule("busy", "Skip", {}), Rule("bad", "PauseAndAskUser", {}),
                               Rule("busy", "FullCompensation", {})>>),
      Step(5, TRUE, "Mandatory", <<Rule("bad", "PartialCompensation", {Plain(2)}),
                                   Rule("busy", "RetryWithAlternative", {})>>),
      Step(7, TRUE, "BestEffort", <<Rule("bad", "PartialCompensation", {Plain(1), Plain(5), Prefixed(2)}),
                                    Rule("busy", "FullCompensation", {Plain(1)})>>)>>
=============================================================================
