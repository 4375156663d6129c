----------------------------- MODULE MCPlanner ------------------------------
(* A model-checking instance of Planner.                                   *)
EXTENDS Planner

Contract(id, deps, effect, writes, reads, class) ==
    [id |-> id, deps |-> deps, effect |-> effect, writes |-> writes, reads |-> reads,
     class |-> class, domains |-> {"sales"}, deterministic |-> id # 1]
Order(tenant) == [entity |-> "Order", tenant |-> tenant]

\* 1 depends on 2 and 3; later versions write what 1 writes, for the same or
\* another tenant, read what is classified above them, or depend on 1 in turn.
Invoice  == Contract(1, <<2, 3>>, "Write", {Order("acme")}, {}, "Internal")
Reserve  == Contract(2, <<3>>, "Read", {}, {}, "Internal")
Reserve2 == Contract(2, <<1>>, "Payment", {Order("globex")}, {}, "Internal")
Fetch    == SeedContract(3, "unknown", {"sales"}, TRUE)
Fetch2   == Contract(3, <<2>>, "Send", {Order(NoTenant)}, {}, "Internal")
Fetch3   == Contract(3, <<1, 2>>, "Read", {}, {"Customer"}, "Internal")

MCContracts == {Invoice, Reserve, Reserve2, Fetch, Fetch2, Fetch3}
MCSeeds == {Invoice, Reserve, Fetch}
MCHint == [Customer |-> "Pii"]
MCBounds == [steps |-> 3, depth |-> 1, cost |-> 1, latency |-> 1]

Intent(id, domain, text, depth, cost) ==
    [id |-> id, type |-> "Analytical", domain |-> domain,
     goal |-> [text |-> text, spelling |-> id], depth |-> depth, cost |-> cost, latency |-> 1]

\* The second spells the first one's goal differently and is nested too deep;
\* the third asks in a domain where nothing is registered, at too high a cost.
MCIntents == {Intent("i1", "sales", "report", 0, 1), Intent("i2", "sales", "report", 2, 1),
              Intent("i3", "stock", "report", 0, 2), Intent("i4", "stock", "fetch", 1, 0)}
MCScore == [report |-> (1 :> 2 @@ 2 :> 1 @@ 3 :> 1), fetch |-> (1 :> 0 @@ 2 :> 0 @@ 3 :> 1)]

TaskSymmetry == Permutations(Tasks)
=============================================================================
