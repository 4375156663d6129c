-------------------------- MODULE MCTrustRegistry ---------------------------
(* Model-checking instance of AutonomyScopes: the default thresholds in units *)
(* of 0.05, with coarser deltas so that a few events cross every bracket.     *)
EXTENDS AutonomyScopes

MCDelta == [Success |-> 2, HumanOverride |-> -1, PolicyViolation |-> -6,
            AccuracyRegression |-> -1]
MCGrants == {{<<"*">>}, {<<"order", "*">>, <<"stock", "read">>}, {<<"order", "line", "*">>}, {}}
MCNeeds == {<<"order", "read">>, <<"order", "line", "write">>, <<"stock", "read">>,
            <<"order", "payment">>, <<"order">>}
=============================================================================
