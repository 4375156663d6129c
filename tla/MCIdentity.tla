----------------------------- MODULE MCIdentity -----------------------------
(* A model-checking instance of Identity: two cells, one agent key in each,  *)
(* one token that may be handed on twice and is altered in depth or scope.   *)
EXTENDS Identity

Token(depth, scope) ==
    [type |-> "token", signer |-> "alice", subject |-> "bob", scope |-> scope, depth |-> depth,
     from |-> 1, until |-> 1, jti |-> "t1"]
Manifest(did, source) == [type |-> "manifest", signer |-> did, source |-> source]
Revocation(signer, target) ==
    [type |-> "revocation", signer |-> signer, kind |-> "Did", target |-> target]
Artifact(content, note) ==
    [type |-> "artifact", signer |-> "bob", content |-> content, note |-> note]

MCSeeds == [east |-> {"alice"}, west |-> {"bob", "anon"}]
MCWritten == {Token(2, {"c1"}), Token(3, {"c1"}), Token(2, {"c1", "c2"}),
              Manifest("anon", "h1"), Manifest("bob", "h1"), Manifest("bob", "h2"),
             Revocation("bob", "alice"), Revocation("bob", "bob"),
             Artifact("x", "n1"), Artifact("x", "n2"), Artifact("y", "n1")}
MCBodies == MCWritten \ {Token(3, {"c1"}), Token(2, {"c1", "c2"})}
MCAlterations == {p \in MCWritten \X MCWritten : p[1] # p[2] /\ p[1].type = p[2].type}
MCLevel == [alice |-> 3, bob |-> 2, carol |-> 4]

Rule(entity, op, cap, tenant) == [entity |-> entity, op |-> op, cap |-> cap, tenant |-> tenant]
Ref(entity, tenant) == [entity |-> entity, tenant |-> tenant]
Agreement(rules) == [parties |-> {"east", "west"}, prohibited |-> {"ssn"}, rules |-> rules]
MCAgreements == {Agreement(<<>>), Agreement(<<Rule("Order", "Read", 1, NoTenant)>>),
                 Agreement(<<Rule("Order", "Read", NoCap, "acme"), Rule("Order", "Read", 3, NoTenant),
                             Rule("Order", "Write", 2, NoTenant), Rule("Placed", "Emit", 1, "acme")>>)}
Capability(class, reads, writes, emits) ==
    [class |-> class, reads |-> reads, writes |-> writes, emits |-> emits]
MCExported == {Capability(k, r, w, e) : k \in {0, 2}, r \in {<<>>, <<Ref("Order", "acme")>>, <<Ref("Order", "globex")>>},
                                        w \in {<<>>, <<Ref("Order", NoTenant)>>}, e \in {<<>>, <<"Placed">>}}
MCSlug == ("my tool" :> "my-tool" @@ "my-tool" :> "my-tool")
MCSbomInputs == {[kind |-> k, name |-> n, version |-> "1", hash |-> h, locator |-> NoLocator] :
                   k \in {"Model", "Tool", "weights"}, n \in {"my tool", "my-tool"}, h \in {"h1", "h2"}}
=============================================================================
