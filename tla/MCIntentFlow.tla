---------------------------- MODULE MCIntentFlow ----------------------------
(* A model-checking instance of IntentFlow: two callers of two tenants, four   *)
(* sentences to compile, three events.                                        *)
EXTENDS IntentFlow

User(role, tenant) == [role |-> role, tenant |-> tenant]
Text(words, cues, marks) == [words |-> words, cues |-> cues, marks |-> marks]
Request(text, user, domain, cost) ==
    [text |-> text, requester |-> user, domain |-> domain, budget |-> [cost |-> cost, latency |-> 1]]

Cancel == Text("cancel and report", {"Transactional", "Analytical"}, {"sku"})
Delete == Text("delete and report", {"Transactional", "Analytical"}, {})
Report == Text("report last month", {"Analytical"}, {"period_ref"})
MCRequests ==
    {Request(Cancel, User("analyst", "acme"), "sales", 1),
     Request(Cancel, User("clerk", "globex"), "sales", -1),
     Request(Delete, User("clerk", "globex"), "sales", 1),
     Request(Report, User("clerk", "globex"), Blank, 1),
     Request(Text("hello", {}, {}), User("clerk", "globex"), "sales", 1)}

Ref(id, tenant) == [id |-> id, tenant |-> tenant]
MCResolve == [d \in {"sales", "order", Blank} |->
                IF d = "sales" THEN <<Ref("Order", NoTenant), Ref("Order", "acme")>>
                ELSE <<Ref("Order", NoTenant)>>]
\* The rules name the parts of a composite cancellation too.
MCRules == (<<"cancel">> :> "Transactional" @@ <<"cancel", 1>> :> "Transactional"
            @@ <<"cancel", 2>> :> "Analytical" @@ <<"opened">> :> "Analytical")
Event(type, fast, keys, items, cost, trace) ==
    [type |-> <<type>>, fast |-> fast, keys |-> keys, items |-> items, surface |-> "order",
     session |-> User("clerk", IF fast THEN "globex" ELSE "acme"), cost |-> cost, latency |-> NoValue, trace |-> trace,
     entities |-> <<Ref("Order", NoTenant), Ref("Order", "acme")>>]
MCEvents ==
    {Event("cancel", FALSE, 0, 1, NoValue, 100), Event("cancel", FALSE, 0, 2, 9, NoValue),
     Event("opened", TRUE, 0, 2, NoValue, NoValue), Event("shared", FALSE, 2, 0, NoValue, NoValue)}
Load(requests, events, proposed, most, begun) ==
    [requests |-> requests, events |-> events, proposed |-> proposed, intents |-> most,
     lookups |-> begun]
CancelOnly == {r \in MCRequests : r.text = Cancel}
MCWorkloads ==
    {Load(MCRequests, {}, {}, 2, 3), Load(CancelOnly, MCEvents, {}, 3, 1),
     Load(CancelOnly, {}, {}, 4, 1), Load(CancelOnly, {e \in MCEvents : e.fast}, {1, 2}, 2, 1)}
MCDefaultBudget == [cost |-> 5, latency |-> 15]
=============================================================================
