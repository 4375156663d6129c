---------------------------- MODULE MCKnowledge ----------------------------
(* A model-checking instance of Knowledge: two registrars, four drafts of an   *)
(* order and a customer, two tenants.                                         *)
EXTENDS Knowledge

Draft(id, class, version, relations) ==
    [id |-> id, class |-> class, version |-> version, relations |-> relations]
MCDrafts ==
    {Draft("Order", "Internal", <<1, 0, 0>>, {}), Draft("Order", "Pii", <<1, 1, 0>>, {"Order", "Customer"}),
     Draft("Order", "Internal", <<2, 0, 0>>, {"Customer"}), Draft("Customer", "Pii", <<0, 1, 0>>, {})}
Ref(entity, tenant) == [entity |-> entity, tenant |-> tenant]
MCRecords ==
    {[tenant |-> "acme", words |-> {"late"}, refs |-> <<Ref("Order", "globex"), Ref("Order", Untenanted), Ref("Customer", "acme")>>],
     [tenant |-> "globex", words |-> {"late", "paid"}, refs |-> <<Ref("Order", "globex"), Ref("Order", Untenanted)>>]}
=============================================================================
