--------------------------- MODULE MCGraphRuntime ---------------------------
(* Model-checking instance of GraphRuntime: a fork, whose children may write  *)
(* although it reports None, two writes that can be undone and a send that    *)
(* cannot.  The approved run can finish all four, the other one only the      *)
(* fork, which spends from the same budget.                                   *)
EXTENDS GraphRuntime

MCOrder == <<"fork", "reserve", "debit", "notify">>
MCSideEffect == [fork |-> "None", reserve |-> "Write", debit |-> "Payment", notify |-> "Send"]

Out(tokens, cost, ms, text) == [tokens |-> tokens, cost |-> cost, ms |-> ms, text |-> text]
MCOutputs == {Out(2, 1, 1, {})}

CleanGoals == [r \in Runs |-> {}]

Tight == [tokens |-> 8, cost |-> 9, ms |-> 9]

CustomRules == {{}, {Violation("Custom", "Error")}}
=============================================================================
