------------------------------ MODULE MCNodes -------------------------------
(* A model-checking instance of Nodes: gates of one intent that race, waits  *)
(* with an own, an inherited and the default timeout, an agent joined or left *)
(* behind by a fork that failed, and two callers of a budget.                *)
EXTENDS Nodes

Body(stop, blocks) == [stop |-> stop, blocks |-> blocks, in |-> 1, out |-> Len(blocks)]

MCAttempts == 1..7
MCWorkloads == {{1, 2, 3}, {4}, {5}, {6}, {7}, {8, 9}}
MCIntentOf == <<"i1", "i1", "i1", "i2", "i2", "i2", "i2">>
MCChildren == <<<<"gate">>, <<"det", "gate">>, <<"gate">>,
                <<"wait", "gate", "wait">>, <<"auto", "det", "agent">>, <<"wait", "gate">>, <<"wait">>>>
MCTimeout == <<NoTimeout, NoTimeout, NoTimeout, 0, NoTimeout, NoTimeout, NoTimeout>>
MCMaxLatency == <<0, 0, 0, 2, 0, 0, 1>>
MCPricing == <<[models |-> {"sonnet"}, input |-> 3, output |-> 15]>>
MCBodies == {Body("end_turn", <<"text">>), Body("refusal", <<"search">>),
             Body("tool_use", <<"text", "search", "pay">>), Body("tool_use", <<>>)}
MCCallBudget == [tokens |-> 4, cost |-> 3]
MCUsages == {[tokens |-> 0, cost |-> 2], [tokens |-> 1, cost |-> 0], [tokens |-> 3, cost |-> 1]}
=============================================================================
