---------------------------- MODULE MCPolicyEngine --------------------------
(* Model-checking instance of PolicyEngine.                                *)
EXTENDS PolicyEngine

Capability(scope, effect, class, reads, write_tenants) ==
    [required_scope |-> scope, side_effect |-> effect, class |-> class,
     reads |-> reads, write_tenants |-> write_tenants]

\* A public read, a scoped payment, a restricted read, a write that reads above
\* its class, and a write into tenant t1.
MCCapabilities ==
    {Capability({}, "Read", "Public", {}, {}),
     Capability({"inventory:write"}, "Payment", "Internal", {}, {}),
     Capability({}, "Read", "Restricted", {3}, {}),
     Capability({"inventory:write"}, "Write", "Internal", {1, 2}, {}),
     Capability({}, "Delete", "Internal", {}, {"t1"})}

MCTexts == {{}, {"pii", "injection"}}

MCCustomViolations ==
    {Violation("SideEffectGate", "Info"), Violation("Custom", "Error")}
=============================================================================
