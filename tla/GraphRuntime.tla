---------------------------- MODULE GraphRuntime ----------------------------
(***************************************************************************)
(* GraphExecutor::run (aaf-runtime): a validated graph executed node by    *)
(* node under the four policy hooks, the budget tracker, the trace         *)
(* recorder and the compensation chain.  Several runs share one executor   *)
(* and so one budget tracker, one recorder and one revocation registry.    *)
(*                                                                         *)
(* A run is cut where the code awaits or locks: each action is the code    *)
(* from one such point to the next.                                        *)
(***************************************************************************)
EXTENDS PolicyRules, Sequences, FiniteSets

CONSTANTS
    Runs,            \* calls of run(), one intent and one trace id each
    Order,           \* graph.order, a topological order of the node ids
    SideEffect,      \* [node -> what node.side_effect() reports]
    Compensable,     \* keys of graph.compensators
    ShadowModes,     \* the shadow flags the executor may be built with
    AutoApprove,     \* runs whose requester has the auto-approve scope
    DidRuns,         \* runs whose user_id starts with "did:aaf:"
    Goal,            \* [run -> patterns the intent's goal matches]
    NodeOutputs,     \* outputs a node may return: tokens, cost, ms, text
    Budget,          \* limits of the executor's BudgetTracker
    IntentCost,      \* intent.budget.max_cost_usd
    CustomAnswers,   \* what the custom rules may report at one hook
    StoreMayFail,    \* whether the trace store can return an error
    MaxAttempts      \* how often a caller runs the same intent

Nodes == {Order[i] : i \in 1..Len(Order)}
Resources == {"tokens", "cost", "ms"}
Amounts == [Resources -> Nat]
Outputs == [tokens : Nat, cost : Nat, ms : Nat, text : SUBSET {"pii", "injection"}]

ASSUME GraphAssumption ==
    /\ Order \in Seq(STRING) /\ Order # <<>>
    /\ \A i, j \in 1..Len(Order) : Order[i] = Order[j] => i = j
    /\ SideEffect \in [Nodes -> SideEffects]
    /\ Compensable \subseteq Nodes
    /\ ShadowModes \subseteq BOOLEAN /\ StoreMayFail \in BOOLEAN
    /\ AutoApprove \subseteq Runs /\ DidRuns \subseteq Runs
    /\ Goal \in [Runs -> SUBSET {"pii", "injection"}]
    /\ NodeOutputs \subseteq Outputs
    /\ Budget \in Amounts /\ IntentCost \in Nat /\ MaxAttempts \in Nat

VARIABLES
    shadow,           \* the executor's shadow flag, set when it is built
    pc,               \* where each run is
    step,             \* local variable step: index in Order, from 1
    composed_writes,  \* local variable composed_writes
    chain,            \* local variable chain: targets, the top of the stack last
    outputs,          \* local variable outputs: its keys
    output,           \* the output of the node that has just run
    pending,          \* the trace status and result the run is about to report
    result,           \* what the latest call of run() returned
    attempts,         \* calls of run() so far
    trace,            \* the recorder's document of the run's trace
    used,             \* BudgetTracker: consumption charged so far
    revoked,          \* runs whose DID is in the revocation registry
    done,             \* history: the nodes run() completed, in order
    undone,           \* history: the nodes compensated, in order
    accepted          \* history: consumption of the charges that returned Ok

locals == <<step, composed_writes, chain, outputs, output>>
shared == <<trace, used, revoked>>
history == <<done, undone, accepted>>
vars == <<shadow, pc, locals, pending, result, attempts, shared, history>>

PcValues == {"idle", "prePlan", "preStep", "node", "charge", "postStep", "record",
             "preArtifact", "rollback", "closing", "returned"}
Terminal == {"Completed", "Failed", "Partial"}
Results == {"None", "Completed", "Partial", "PendingApproval", "RolledBack",
            "PolicyViolation", "Revoked", "NodeError", "StoreError",
            "CompensationFailed"}

NoTrace == [status |-> "Absent", steps |-> <<>>]
OpenTrace == [status |-> "Running", steps |-> <<>>]
NoOutput == [tokens |-> 0, cost |-> 0, ms |-> 0, text |-> {}]
NoPending == [status |-> "Failed", result |-> "None"]
Zero == [x \in Resources |-> 0]

-----------------------------------------------------------------------------
(* The budget tracker.                                                     *)

Consumption(o) == [x \in Resources |->
    CASE x = "tokens" -> o.tokens [] x = "cost" -> o.cost [] OTHER -> o.ms]

\* A step's consumption is counted in machine numbers: some step uses the most.
ASSUME OutputsAssumption ==
    \A x \in Resources : \E most \in NodeOutputs : \A o \in NodeOutputs :
        Consumption(o)[x] <= Consumption(most)[x]

Plus(a, b) == [x \in Resources |-> a[x] + b[x]]

WithinBudget(a) == \A x \in Resources : a[x] <= Budget[x]

\* charge() adds first and then compares, so a refused charge stays in used.
Charge(o) == used' = Plus(used, Consumption(o))

\* remaining().max_cost_usd, the only resource a policy rule reads.
RemainingCost == IF used["cost"] >= Budget["cost"] THEN 0
                 ELSE Budget["cost"] - used["cost"]

-----------------------------------------------------------------------------
(* What run() passes to the policy engine: never a capability or a lookup, *)
(* and the requester's own tenant as the active one.                       *)

HookContext(r, hook) ==
    [hook |-> hook, capability |-> {},
     scopes |-> IF r \in AutoApprove THEN {"auto-approve"} ELSE {},
     payload |-> {}, output |-> {}, side_effect |-> {},
     total |-> IntentCost, remaining |-> RemainingCost,
     tenant |-> {}, requester_tenant |-> {},
     composed_writes |-> composed_writes[r], lookup |-> FALSE]

PrePlanContext(r) ==
    [HookContext(r, "PrePlan") EXCEPT !.payload = {Goal[r]}]

\* Mutant: the node's side effect is not passed to the policy engine.
PreStepContext_NoSideEffect(r) ==
    [HookContext(r, "PreStep") EXCEPT !.payload = {Goal[r]}]

PreStepContext(r) ==
    [HookContext(r, "PreStep") EXCEPT
        !.payload = {Goal[r]}, !.side_effect = {SideEffect[Order[step[r]]]}]

PostStepContext(r) ==
    [HookContext(r, "PostStep") EXCEPT
        !.output = {output[r].text}, !.side_effect = {SideEffect[Order[step[r]]]}]

\* The decision of the default rules and of the custom ones together.
Decisions(ctx) == {Evaluate(DefaultRules, ctx, custom) : custom \in CustomAnswers}

-----------------------------------------------------------------------------
(* Steps shared by the actions below.                                      *)

Goto(r, label) == pc' = [pc EXCEPT ![r] = label]

\* The run will close its trace with this status and then return this result.
CloseWith(r, status, res) ==
    /\ Goto(r, "closing")
    /\ pending' = [pending EXCEPT ![r] = [status |-> status, result |-> res]]

Return(r, res) ==
    /\ Goto(r, "returned")
    /\ result' = [result EXCEPT ![r] = res]

\* Mutant: the run waits in place for an approval that nobody passes on to it.
StopOn_Waits(r, decision) ==
    \/ decision = "Deny" /\ CloseWith(r, "Failed", "PolicyViolation")
    \/ decision = "RequireApproval" /\ Goto(r, "waiting") /\ UNCHANGED pending

\* Deny and RequireApproval end the run the same way at every hook.
StopOn(r, decision) ==
    \/ decision = "Deny" /\ CloseWith(r, "Failed", "PolicyViolation")
    \/ decision = "RequireApproval" /\ CloseWith(r, "Partial", "PendingApproval")

Current(r) == Order[step[r]]
IsWriteNode(n) == SideEffect[n] \in WriteClass

\* Control enters the loop body for the next node, or leaves the loop.
NextNode(r) ==
    IF step[r] < Len(Order)
    THEN /\ Goto(r, "preStep")
         /\ step' = [step EXCEPT ![r] = @ + 1]
    ELSE /\ Goto(r, "preArtifact")
         /\ UNCHANGED step

-----------------------------------------------------------------------------
(* The actions.                                                            *)

Init ==
    /\ shadow \in ShadowModes
    /\ pc = [r \in Runs |-> "idle"]
    /\ step = [r \in Runs |-> 0]
    /\ composed_writes = [r \in Runs |-> 0]
    /\ chain = [r \in Runs |-> <<>>]
    /\ outputs = [r \in Runs |-> {}]
    /\ output = [r \in Runs |-> NoOutput]
    /\ pending = [r \in Runs |-> NoPending]
    /\ result = [r \in Runs |-> "None"]
    /\ attempts = [r \in Runs |-> 0]
    /\ trace = [r \in Runs |-> NoTrace]
    /\ used = Zero /\ accepted = Zero
    /\ revoked = {}
    /\ done = [r \in Runs |-> <<>>]
    /\ undone = [r \in Runs |-> <<>>]

\* An operator revokes the DID behind a run, at any moment.
Revoke(r) ==
    /\ r \in DidRuns \ revoked
    /\ revoked' = revoked \cup {r}
    /\ UNCHANGED <<shadow, pc, locals, pending, result, attempts, trace, used, history>>

\* Hook 0: the revocation check, before anything is opened. A caller may run an
\* intent again after a run has returned; nothing of the earlier run is kept.
Start(r) ==
    /\ pc[r] \in {"idle", "returned"}
    /\ attempts[r] < MaxAttempts
    /\ attempts' = [attempts EXCEPT ![r] = @ + 1]
    /\ step' = [step EXCEPT ![r] = 0]
    /\ composed_writes' = [composed_writes EXCEPT ![r] = 0]
    /\ chain' = [chain EXCEPT ![r] = <<>>]
    /\ outputs' = [outputs EXCEPT ![r] = {}]
    /\ output' = [output EXCEPT ![r] = NoOutput]
    /\ done' = [done EXCEPT ![r] = <<>>]
    /\ undone' = [undone EXCEPT ![r] = <<>>]
    /\ IF r \in revoked
       THEN Return(r, "Revoked")
       ELSE Goto(r, "prePlan") /\ result' = [result EXCEPT ![r] = "None"]
    /\ UNCHANGED <<shadow, pending, shared, accepted>>

\* Hook 1, then recorder.open, which resets a trace of the same id; the
\* decision taken before open is acted on after it.
PrePlan(r) ==
    /\ pc[r] = "prePlan"
    /\ trace' = [trace EXCEPT ![r] = OpenTrace]
    /\ \E d \in Decisions(PrePlanContext(r)) :
        \/ StopOn(r, d) /\ UNCHANGED step
        \/ Proceeds(d) /\ NextNode(r) /\ UNCHANGED pending
    /\ UNCHANGED <<shadow, composed_writes, chain, outputs, output, result, attempts,
                   used, revoked, history>>

\* recorder.open fails: run() returns at once.
OpenFails(r) ==
    /\ pc[r] = "prePlan"
    /\ StoreMayFail
    /\ Return(r, "StoreError")
    /\ UNCHANGED <<shadow, locals, pending, attempts, shared, history>>

\* Hook 2.
PreStep(r) ==
    /\ pc[r] = "preStep"
    /\ \E d \in Decisions(PreStepContext(r)) :
        \/ StopOn(r, d)
        \/ Proceeds(d) /\ Goto(r, "node") /\ UNCHANGED pending
    /\ UNCHANGED <<shadow, locals, result, attempts, shared, history>>

\* In shadow mode a write-class node is not run: it gets a marker output.
ShadowNode(r) ==
    /\ pc[r] = "node"
    /\ shadow /\ IsWriteNode(Current(r))
    /\ output' = [output EXCEPT ![r] = NoOutput]
    /\ Goto(r, "charge")
    /\ UNCHANGED <<shadow, step, composed_writes, chain, outputs, pending, result, attempts,
                   shared, history>>

NodeOk(r) ==
    /\ pc[r] = "node"
    /\ ~ (shadow /\ IsWriteNode(Current(r)))
    /\ \E o \in NodeOutputs : output' = [output EXCEPT ![r] = o]
    /\ done' = [done EXCEPT ![r] = Append(@, Current(r))]
    /\ Goto(r, "charge")
    /\ UNCHANGED <<shadow, step, composed_writes, chain, outputs, pending, result, attempts,
                   shared, undone, accepted>>

\* node.run fails: the chain is drained, then the trace is closed as Failed. The
\* outcome is RolledBack only if there was something to compensate.
NodeErr(r) ==
    /\ pc[r] = "node"
    /\ ~ (shadow /\ IsWriteNode(Current(r)))
    /\ IF chain[r] = <<>>
       THEN CloseWith(r, "Failed", "NodeError")
       ELSE /\ Goto(r, "rollback")
            /\ pending' = [pending EXCEPT ![r] = [status |-> "Failed",
                                                  result |-> "RolledBack"]]
    /\ UNCHANGED <<shadow, locals, result, attempts, shared, history>>

\* Mutant: the chain is a queue.
Compensate_OldestFirst(r) ==
    /\ pc[r] = "rollback" /\ chain[r] # <<>>
    /\ chain' = [chain EXCEPT ![r] = Tail(@)]
    /\ \/ /\ undone' = [undone EXCEPT ![r] = Append(@, Head(chain[r]))]
          /\ Goto(r, IF Len(chain[r]) = 1 THEN "closing" ELSE "rollback")
          /\ UNCHANGED result
       \/ /\ Return(r, "CompensationFailed")
          /\ UNCHANGED undone
    /\ UNCHANGED <<shadow, step, composed_writes, outputs, output, pending, attempts,
                   shared, done, accepted>>

\* One turn of CompensationChain::rollback: pop, then run the compensator. Its
\* failure leaves run() at once, with the trace open and the rest not undone.
Compensate(r) ==
    LET target == chain[r][Len(chain[r])]
        rest == SubSeq(chain[r], 1, Len(chain[r]) - 1)
    IN  /\ pc[r] = "rollback" /\ chain[r] # <<>>
        /\ chain' = [chain EXCEPT ![r] = rest]
        /\ \/ /\ undone' = [undone EXCEPT ![r] = Append(@, target)]
              /\ Goto(r, IF rest = <<>> THEN "closing" ELSE "rollback")
              /\ UNCHANGED result
           \/ /\ Return(r, "CompensationFailed")
              /\ UNCHANGED undone
        /\ UNCHANGED <<shadow, step, composed_writes, outputs, output, pending, attempts,
                       shared, done, accepted>>

\* Mutant: the budget is compared before the consumption is added.
ChargeBudget_ChecksFirst(r) ==
    /\ pc[r] = "charge"
    /\ Charge(output[r])
    /\ IF WithinBudget(used)
       THEN /\ Goto(r, "postStep")
            /\ accepted' = Plus(accepted, Consumption(output[r]))
            /\ UNCHANGED pending
       ELSE /\ CloseWith(r, "Partial", "Partial")
            /\ UNCHANGED accepted
    /\ UNCHANGED <<shadow, locals, result, attempts, trace, revoked, done, undone>>

\* Mutant: a refused charge does not end the run.
ChargeBudget_GoesOn(r) ==
    /\ pc[r] = "charge"
    /\ Charge(output[r])
    /\ accepted' = IF WithinBudget(used') THEN Plus(accepted, Consumption(output[r]))
                                          ELSE accepted
    /\ Goto(r, "postStep")
    /\ UNCHANGED <<shadow, locals, pending, result, attempts, trace, revoked, done, undone>>

\* Mutant: the output is kept before the charge is known to be accepted.
ChargeBudget_KeepsOutput(r) ==
    /\ pc[r] = "charge"
    /\ Charge(output[r])
    /\ outputs' = [outputs EXCEPT ![r] = @ \cup {Current(r)}]
    /\ IF WithinBudget(used')
       THEN /\ Goto(r, "postStep")
            /\ accepted' = Plus(accepted, Consumption(output[r]))
            /\ UNCHANGED pending
       ELSE /\ CloseWith(r, "Partial", "Partial")
            /\ UNCHANGED accepted
    /\ UNCHANGED <<shadow, step, composed_writes, chain, output, result, attempts, trace,
                   revoked, done, undone>>

\* budget.charge: exhaustion ends the run with what came before this node.
ChargeBudget(r) ==
    /\ pc[r] = "charge"
    /\ Charge(output[r])
    /\ IF WithinBudget(used')
       THEN /\ Goto(r, "postStep")
            /\ accepted' = Plus(accepted, Consumption(output[r]))
            /\ UNCHANGED pending
       ELSE /\ CloseWith(r, "Partial", "Partial")
            /\ UNCHANGED accepted
    /\ UNCHANGED <<shadow, locals, result, attempts, trace, revoked, done, undone>>

\* Hook 3: RequireApproval keeps the gated output among the outputs.
PostStep(r) ==
    /\ pc[r] = "postStep"
    /\ \E d \in Decisions(PostStepContext(r)) :
        /\ \/ StopOn(r, d)
           \/ Proceeds(d) /\ Goto(r, "record") /\ UNCHANGED pending
        /\ outputs' = [outputs EXCEPT ![r] =
                           IF d = "RequireApproval" THEN @ \cup {Current(r)} ELSE @]
    /\ UNCHANGED <<shadow, step, composed_writes, chain, output, result, attempts, shared,
                   history>>

\* record_observation, then the bookkeeping of a write and the outputs map.
Record(r) ==
    /\ pc[r] = "record"
    /\ trace' = [trace EXCEPT ![r].steps = Append(@, Current(r))]
    /\ composed_writes' = [composed_writes EXCEPT ![r] =
                               IF IsWriteNode(Current(r)) THEN @ + 1 ELSE @]
    /\ chain' = [chain EXCEPT ![r] =
                     IF IsWriteNode(Current(r)) /\ Current(r) \in Compensable
                     THEN Append(@, Current(r)) ELSE @]
    /\ outputs' = [outputs EXCEPT ![r] = @ \cup {Current(r)}]
    /\ NextNode(r)
    /\ UNCHANGED <<shadow, output, pending, result, attempts, used, revoked, history>>

\* The recorder appends to its document before the store refuses it.
RecordFails(r) ==
    /\ pc[r] = "record"
    /\ StoreMayFail
    /\ trace' = [trace EXCEPT ![r].steps = Append(@, Current(r))]
    /\ Return(r, "StoreError")
    /\ UNCHANGED <<shadow, locals, pending, attempts, used, revoked, history>>

\* Hook 4.
PreArtifact(r) ==
    /\ pc[r] = "preArtifact"
    /\ \E d \in Decisions(HookContext(r, "PreArtifact")) :
        \/ StopOn(r, d)
        \/ Proceeds(d) /\ CloseWith(r, "Completed", "Completed")
    /\ UNCHANGED <<shadow, locals, result, attempts, shared, history>>

\* close_trace and the return that follows it. The recorder's document has the
\* status even when the store refuses it.
Close(r) ==
    /\ pc[r] = "closing"
    /\ trace' = [trace EXCEPT ![r].status = pending[r].status]
    /\ \/ Return(r, pending[r].result)
       \/ StoreMayFail /\ Return(r, "StoreError")
    /\ UNCHANGED <<shadow, locals, pending, attempts, used, revoked, history>>

Advance(r) ==
    \/ PrePlan(r) \/ OpenFails(r) \/ PreStep(r) \/ ShadowNode(r) \/ NodeOk(r)
    \/ NodeErr(r) \/ Compensate(r) \/ ChargeBudget(r) \/ PostStep(r) \/ Record(r)
    \/ RecordFails(r) \/ PreArtifact(r) \/ Close(r)

Next == \E r \in Runs : Start(r) \/ Revoke(r) \/ Advance(r)

\* Callers need not call and operators need not revoke; a run that has started is
\* polled to its end, its nodes and compensators being assumed to return.
Fairness == \A r \in Runs : WF_vars(Advance(r))

Spec == Init /\ [][Next]_vars /\ Fairness

-----------------------------------------------------------------------------
(* Properties.                                                             *)

TypeOK ==
    /\ shadow \in BOOLEAN
    /\ pc \in [Runs -> PcValues]
    /\ step \in [Runs -> 0..Len(Order)]
    /\ \A r \in Runs : pc[r] \in {"preStep", "node", "charge", "postStep", "record"}
                           => step[r] > 0
    /\ composed_writes \in [Runs -> Nat]
    /\ chain \in [Runs -> Seq(Nodes)]
    /\ outputs \in [Runs -> SUBSET Nodes]
    /\ output \in [Runs -> Outputs]
    /\ pending \in [Runs -> [status : Terminal, result : Results]]
    /\ result \in [Runs -> Results]
    /\ attempts \in [Runs -> Nat]
    /\ trace \in [Runs -> [status : Terminal \cup {"Absent", "Running"},
                           steps : Seq(Nodes)]]
    /\ used \in Amounts /\ accepted \in Amounts
    /\ revoked \subseteq Runs
    /\ done \in [Runs -> Seq(Nodes)]
    /\ undone \in [Runs -> Seq(Nodes)]

Elems(s) == {s[i] : i \in 1..Len(s)}

\* What a caller is told agrees with the trace it can fetch: Completed means that
\* every node ran, is recorded in order and has an output; Partial reports the
\* steps before the one that exhausted the budget; a denial, a node failure and a
\* rollback leave a Failed trace; an approval pause leaves a Partial one.
ResultMatchesTrace ==
    \A r \in Runs :
        /\ result[r] = "Completed" =>
            /\ trace[r] = [status |-> "Completed", steps |-> Order]
            /\ outputs[r] = Nodes
        /\ result[r] = "Partial" =>
            /\ trace[r] = [status |-> "Partial", steps |-> SubSeq(Order, 1, step[r] - 1)]
            /\ outputs[r] = Elems(trace[r].steps)
        /\ result[r] = "PendingApproval" => trace[r].status = "Partial"
        /\ result[r] \in {"PolicyViolation", "NodeError", "RolledBack"} =>
            trace[r].status = "Failed"

\* Charges accepted by the tracker never add up to more than the budget, however
\* many runs share it and whatever they spent without being accepted.
AcceptedWithinBudget == WithinBudget(accepted)

\* Each call of run() overruns the budget by at most the one step whose charge was
\* refused: a refusal ends the run, so the excess does not compound.
LargestCharge(x) ==
    CHOOSE m \in {Consumption(o)[x] : o \in NodeOutputs} :
        \A o \in NodeOutputs : Consumption(o)[x] <= m
OverrunBounded ==
    LET calls == {call \in Runs \X (1..MaxAttempts) : call[2] <= attempts[call[1]]}
    IN  \A x \in Resources : used[x] <= Budget[x] + Cardinality(calls) * LargestCharge(x)

\* A write-class node runs only for a requester who may skip the approval gate,
\* and in shadow mode it never runs.
WritesAreGated ==
    \A r \in Runs : \A n \in Elems(done[r]) :
        IsWriteNode(n) => r \in AutoApprove /\ ~ shadow

\* RolledBack is reported only when every completed write that has a compensator
\* was compensated exactly once, the latest first.
RolledBackIsComplete ==
    \A r \in Runs : result[r] = "RolledBack" /\ ~ shadow =>
        LET writes == {i \in 1..Len(done[r]) :
                          IsWriteNode(done[r][i]) /\ done[r][i] \in Compensable}
        IN  /\ Elems(undone[r]) = {done[r][i] : i \in writes}
            /\ \A j, k \in 1..Len(undone[r]) : j < k =>
                  /\ undone[r][j] # undone[r][k]
                  /\ \E a, b \in writes :
                        a > b /\ undone[r][j] = done[r][a] /\ undone[r][k] = done[r][b]

\* A run that has started returns, whichever way.
EveryRunReturns == \A r \in Runs : pc[r] = "prePlan" ~> pc[r] = "returned"

=============================================================================
