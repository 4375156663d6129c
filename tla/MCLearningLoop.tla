--------------------------- MODULE MCLearningLoop ---------------------------
(* Model-checking instances of LearningLoop: two callers of one trace with no  *)
(* learner, one caller with the miner and the review, one with the scorer and  *)
(* the tuners.                                                                *)
EXTENDS LearningLoop

Obs(trace, agent, node, agentic, status) ==
    [trace |-> trace, agent |-> agent, node |-> node, agentic |-> agentic, status |-> status,
     outcome |-> IF status = "Failed" THEN "Failure" ELSE "Success", cost |-> 1]

MCOwnTrace == "t1"
Plain == [n \in 1..MaxCalls |-> Obs("t1", "a", "n", FALSE, "Succeeded")]
Mined == <<Obs("t1", "a", "n", TRUE, "Succeeded"), Obs("t1", "a", "n", TRUE, "Succeeded"),
           Obs("t2", "a", "n", TRUE, "Succeeded"), Obs("t2", "a", "n", TRUE, "Succeeded")>>
Mixed == <<Obs("t1", "a", "n", TRUE, "Succeeded"), Obs("t1", "a", "m", TRUE, "Failed"),
           Obs("t2", "a", "n", TRUE, "Succeeded"), Obs("t3", "a", "n", FALSE, "Succeeded")>>
Tuned == <<Obs("t1", "a", "n", TRUE, "Escalated"), Obs("t1", "a", "n", FALSE, "none"),
           Obs("t2", "b", "n", TRUE, "Failed"), Obs("t2", "b", "n", TRUE, "Succeeded")>>
Load(callers, subs, most, seen, reviews) ==
    [callers |-> callers, subscribers |-> subs, calls |-> most, seen |-> seen, reviews |-> reviews]
MCWorkloads ==
    {Load(Callers, {}, 4, Plain, FALSE), Load({1}, {"miner"}, 4, Mined, TRUE),
     Load({1}, {"miner", "scorer"}, 4, Mixed, FALSE), Load({1}, {"scorer", "router", "escalation"}, 4, Tuned, FALSE)}

Rule(domain, capability) ==
    [type |-> "Analytical", domain |-> domain, conditions |-> {[field |-> "region", equals |-> "jp"]},
     mapping |-> {[from |-> "region", to |-> "area"]}, capability |-> capability]
MCRuleOf == (<<"a", "n">> :> Rule("sales", "learned"))
MCHandRules == {Rule("sales", "written")}
MCRequests == {[type |-> "Analytical", domain |-> "sales", constraints |-> [region |-> "jp"]],
               [type |-> "Analytical", domain |-> "sales", constraints |-> [period |-> "m"]]}
=============================================================================
