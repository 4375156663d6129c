------------------------- MODULE GraphRuntimeProofs -------------------------
(***************************************************************************)
(* Proofs about GraphRuntime, for every graph, every set of runs and every *)
(* budget.                                                                 *)
(***************************************************************************)
EXTENDS GraphRuntime, FiniteSetTheorems, TLAPS

\* Facts about the constants that the steps below use, without the assumption's
\* irrelevant parts.
LEMMA OrderFacts ==
    /\ Len(Order) \in Nat /\ Len(Order) > 0
    /\ Order \in Seq(Nodes)
    /\ \A i \in 1..Len(Order) : Order[i] \in Nodes
    /\ SideEffect \in [Nodes -> SideEffects]
PROOF BY GraphAssumption DEF GraphAssumption, Nodes

LEMMA ConsumptionType == \A o \in Outputs : Consumption(o) \in Amounts
PROOF BY DEF Outputs, Consumption, Amounts, Resources

LEMMA PlusType == \A a, b \in Amounts : Plus(a, b) \in Amounts
PROOF BY DEF Plus, Amounts

-----------------------------------------------------------------------------
(* Type correctness.                                                       *)

LEMMA TypeInit == Init => TypeOK
PROOF
  <1> SUFFICES ASSUME Init PROVE TypeOK
    OBVIOUS
  <1>1. Zero \in Amounts
    BY DEF Zero, Amounts
  <1>2. NoOutput \in Outputs
    BY DEF NoOutput, Outputs
  <1>3. shadow \in BOOLEAN
    BY GraphAssumption DEF Init, GraphAssumption
  <1> QED
    BY <1>1, <1>2, <1>3, OrderFacts DEF Init, TypeOK, PcValues, NoPending, Terminal, Results, NoTrace

\* A run that is about to close its trace stays within the types, and so does one
\* that a decision stops or that goes on to the next node.
LEMMA CloseType ==
    ASSUME TypeOK, NEW r \in Runs, NEW s \in Terminal, NEW x \in Results, CloseWith(r, s, x)
    PROVE  /\ pc' = [pc EXCEPT ![r] = "closing"]
           /\ pc' \in [Runs -> PcValues]
           /\ pending' \in [Runs -> [status : Terminal, result : Results]]
PROOF
  <1>1. [status |-> s, result |-> x] \in [status : Terminal, result : Results]
    OBVIOUS
  <1>2. /\ pc \in [Runs -> PcValues]
        /\ pending \in [Runs -> [status : Terminal, result : Results]]
    BY DEF TypeOK
  <1> QED
    BY <1>1, <1>2 DEF CloseWith, Goto, PcValues

LEMMA StopType ==
    ASSUME TypeOK, NEW r \in Runs, NEW d, StopOn(r, d)
    PROVE  /\ pc' = [pc EXCEPT ![r] = "closing"]
           /\ pc' \in [Runs -> PcValues]
           /\ pending' \in [Runs -> [status : Terminal, result : Results]]
PROOF
  <1>1. /\ {"Failed", "Partial"} \subseteq Terminal
        /\ {"PolicyViolation", "PendingApproval"} \subseteq Results
    BY DEF Terminal, Results
  <1>2. \/ CloseWith(r, "Failed", "PolicyViolation")
        \/ CloseWith(r, "Partial", "PendingApproval")
    BY DEF StopOn
  <1> QED
    BY <1>1, <1>2, CloseType

LEMMA NextNodeType ==
    ASSUME TypeOK, NEW r \in Runs, NextNode(r)
    PROVE  /\ pc' \in [Runs -> PcValues]
           /\ step' \in [Runs -> 0..Len(Order)]
           /\ pc'[r] = "preStep" => step'[r] > 0
           /\ pc'[r] \in {"preStep", "preArtifact"}
           /\ \A q \in Runs : q # r => pc'[q] = pc[q] /\ step'[q] = step[q]
PROOF
  <1>1. pc \in [Runs -> PcValues] /\ step \in [Runs -> 0..Len(Order)]
    BY DEF TypeOK
  <1>2. CASE step[r] < Len(Order)
    <2>1. pc' = [pc EXCEPT ![r] = "preStep"] /\ step' = [step EXCEPT ![r] = @ + 1]
      BY <1>2 DEF NextNode, Goto
    <2>2. step[r] + 1 \in 0..Len(Order) /\ step[r] + 1 > 0
      BY <1>1, <1>2, OrderFacts
    <2>3. "preStep" \in PcValues
      BY DEF PcValues
    <2> QED
      BY <1>1, <2>1, <2>2, <2>3
  <1>3. CASE ~ (step[r] < Len(Order))
    BY <1>1, <1>3, OrderFacts DEF NextNode, Goto, PcValues
  <1> QED
    BY <1>2, <1>3

LEMMA TypeNext == TypeOK /\ [Next]_vars => TypeOK'
PROOF
  <1> SUFFICES ASSUME TypeOK, [Next]_vars PROVE TypeOK'
    OBVIOUS
  <1> USE DEF locals, shared, history
  <1>1. ASSUME NEW r \in Runs, Start(r) PROVE TypeOK'
    <2>1. NoOutput \in Outputs /\ <<>> \in Seq(Nodes)
      BY DEF NoOutput, Outputs
    <2>2. PICK l \in {"returned", "prePlan"}, x \in {"Revoked", "None"} :
             pc' = [pc EXCEPT ![r] = l] /\ result' = [result EXCEPT ![r] = x]
      BY <1>1 DEF Start, Return, Goto
    <2>3. /\ {"returned", "prePlan"} \subseteq PcValues
          /\ {"Revoked", "None"} \subseteq Results
      BY DEF PcValues, Results
    <2>4. /\ pc' \in [Runs -> PcValues] /\ result' \in [Runs -> Results]
          /\ step' \in [Runs -> 0..Len(Order)] /\ attempts' \in [Runs -> Nat]
      BY <1>1, <2>2, <2>3, OrderFacts DEF TypeOK, Start
    <2>5. \A q \in Runs : pc'[q] \in {"preStep", "node", "charge", "postStep", "record"}
                              => step'[q] > 0
      BY <1>1, <2>2 DEF TypeOK, Start
    <2> QED
      BY <1>1, <2>1, <2>4, <2>5 DEF TypeOK, Start
  <1>2. ASSUME NEW r \in Runs, Revoke(r) PROVE TypeOK'
    BY <1>2 DEF TypeOK, Revoke
  <1>3. ASSUME NEW r \in Runs, PrePlan(r) PROVE TypeOK'
    <2>1. trace' \in [Runs -> [status : Terminal \cup {"Absent", "Running"}, steps : Seq(Nodes)]]
      BY <1>3 DEF TypeOK, PrePlan, OpenTrace
    <2>2. PICK d \in Decisions(PrePlanContext(r)) :
             \/ StopOn(r, d) /\ UNCHANGED step
             \/ Proceeds(d) /\ NextNode(r) /\ UNCHANGED pending
      BY <1>3 DEF PrePlan
    <2>3. CASE StopOn(r, d) /\ UNCHANGED step
      <3>1. /\ pc' = [pc EXCEPT ![r] = "closing"]
            /\ pc' \in [Runs -> PcValues]
            /\ pending' \in [Runs -> [status : Terminal, result : Results]]
        BY <2>3, StopType
      <3>2. UNCHANGED <<shadow, step, composed_writes, chain, outputs, output, result,
                        attempts, used, revoked, done, undone, accepted>>
        BY <1>3, <2>3 DEF PrePlan
      <3> QED
        BY <2>1, <3>1, <3>2 DEF TypeOK
    <2>4. CASE NextNode(r) /\ UNCHANGED pending
      BY <1>3, <2>1, <2>4, NextNodeType DEF TypeOK, PrePlan
    <2> QED
      BY <2>2, <2>3, <2>4
  <1>4. ASSUME NEW r \in Runs, OpenFails(r) PROVE TypeOK'
    BY <1>4 DEF TypeOK, OpenFails, Return, Goto, PcValues, Results
  <1>5. ASSUME NEW r \in Runs, PreStep(r) PROVE TypeOK'
    <2>1. PICK d \in Decisions(PreStepContext(r)) :
             \/ StopOn(r, d)
             \/ Proceeds(d) /\ Goto(r, "node") /\ UNCHANGED pending
      BY <1>5 DEF PreStep
    <2>2. CASE StopOn(r, d)
      BY <1>5, <2>2, StopType DEF TypeOK, PreStep
    <2>3. CASE Goto(r, "node") /\ UNCHANGED pending
      BY <1>5, <2>3 DEF TypeOK, PreStep, Goto, PcValues
    <2> QED
      BY <2>1, <2>2, <2>3
  <1>6. ASSUME NEW r \in Runs, ShadowNode(r) PROVE TypeOK'
    BY <1>6 DEF TypeOK, ShadowNode, Goto, PcValues, NoOutput, Outputs
  <1>7. ASSUME NEW r \in Runs, NodeOk(r) PROVE TypeOK'
    <2>1. Current(r) \in Nodes
      BY <1>7, OrderFacts DEF TypeOK, NodeOk, Current
    <2> QED
      BY <1>7, <2>1, GraphAssumption DEF TypeOK, NodeOk, Goto, PcValues, GraphAssumption
  <1>8. ASSUME NEW r \in Runs, NodeErr(r) PROVE TypeOK'
    <2>1. /\ "Failed" \in Terminal /\ "NodeError" \in Results
          /\ [status |-> "Failed", result |-> "RolledBack"]
                 \in [status : Terminal, result : Results]
      BY DEF Terminal, Results
    <2>2. CASE chain[r] = <<>>
      BY <1>8, <2>1, <2>2, CloseType DEF TypeOK, NodeErr
    <2>3. CASE chain[r] # <<>>
      <3>1. /\ pc' = [pc EXCEPT ![r] = "rollback"]
            /\ pending' = [pending EXCEPT ![r] = [status |-> "Failed", result |-> "RolledBack"]]
        BY <1>8, <2>3 DEF NodeErr, Goto
      <3>2. "rollback" \in PcValues
        BY DEF PcValues
      <3> QED
        BY <1>8, <2>1, <3>1, <3>2 DEF TypeOK, NodeErr
    <2> QED
      BY <2>2, <2>3
  <1>9. ASSUME NEW r \in Runs, Compensate(r) PROVE TypeOK'
    <2> DEFINE n == Len(chain[r])
    <2>1. chain[r] \in Seq(Nodes) /\ n \in Nat /\ chain[r] # <<>>
      BY <1>9 DEF TypeOK, Compensate
    <2>2. SubSeq(chain[r], 1, n - 1) \in Seq(Nodes) /\ chain[r][n] \in Nodes
      BY <2>1
    <2>3. chain' \in [Runs -> Seq(Nodes)]
      BY <1>9, <2>2 DEF TypeOK, Compensate
    <2>4. undone' \in [Runs -> Seq(Nodes)]
      <3>1. undone[r] \in Seq(Nodes)
        BY DEF TypeOK
      <3>2. Append(undone[r], chain[r][n]) \in Seq(Nodes)
        BY <2>2, <3>1
      <3> QED
        BY <1>9, <3>2 DEF TypeOK, Compensate
    <2>5. PICK l \in {"closing", "rollback", "returned"} : pc' = [pc EXCEPT ![r] = l]
      BY <1>9 DEF Compensate, Return, Goto
    <2>6. result' \in [Runs -> Results]
      BY <1>9 DEF TypeOK, Compensate, Return, Results
    <2>7. {"closing", "rollback", "returned"} \subseteq PcValues
      BY DEF PcValues
    <2> QED
      BY <1>9, <2>3, <2>4, <2>5, <2>6, <2>7 DEF TypeOK, Compensate
  <1>10. ASSUME NEW r \in Runs, ChargeBudget(r) PROVE TypeOK'
    <2>1. Consumption(output[r]) \in Amounts
      BY ConsumptionType DEF TypeOK
    <2>2. used' \in Amounts /\ accepted' \in Amounts
      BY <1>10, <2>1, PlusType DEF TypeOK, ChargeBudget, Charge
    <2>3. /\ "Partial" \in Terminal /\ "Partial" \in Results /\ "postStep" \in PcValues
      BY DEF Terminal, Results, PcValues
    <2>4. CASE Goto(r, "postStep") /\ UNCHANGED pending
      BY <1>10, <2>2, <2>3, <2>4 DEF TypeOK, ChargeBudget, Goto
    <2>5. CASE CloseWith(r, "Partial", "Partial")
      BY <1>10, <2>2, <2>3, <2>5, CloseType DEF TypeOK, ChargeBudget
    <2> QED
      BY <1>10, <2>4, <2>5 DEF ChargeBudget
  <1>11. ASSUME NEW r \in Runs, PostStep(r) PROVE TypeOK'
    <2>1. Current(r) \in Nodes
      BY <1>11, OrderFacts DEF TypeOK, PostStep, Current
    <2>2. PICK d \in Decisions(PostStepContext(r)) :
             /\ \/ StopOn(r, d)
                \/ Proceeds(d) /\ Goto(r, "record") /\ UNCHANGED pending
             /\ outputs' = [outputs EXCEPT ![r] =
                                IF d = "RequireApproval" THEN @ \cup {Current(r)} ELSE @]
      BY <1>11 DEF PostStep
    <2>3. outputs' \in [Runs -> SUBSET Nodes]
      BY <2>1, <2>2 DEF TypeOK
    <2>4. CASE StopOn(r, d)
      BY <1>11, <2>3, <2>4, StopType DEF TypeOK, PostStep
    <2>5. CASE Goto(r, "record") /\ UNCHANGED pending
      <3>1. "record" \in PcValues
        BY DEF PcValues
      <3> QED
        BY <1>11, <2>3, <2>5, <3>1 DEF TypeOK, PostStep, Goto
    <2> QED
      BY <2>2, <2>4, <2>5
  <1>12. ASSUME NEW r \in Runs, Record(r) PROVE TypeOK'
    <2>1. Current(r) \in Nodes
      BY <1>12, OrderFacts DEF TypeOK, Record, Current
    <2>2. trace[r].steps \in Seq(Nodes) /\ chain[r] \in Seq(Nodes)
      BY DEF TypeOK
    <2>3. /\ Append(trace[r].steps, Current(r)) \in Seq(Nodes)
          /\ Append(chain[r], Current(r)) \in Seq(Nodes)
      BY <2>1, <2>2
    <2>4. trace' \in [Runs -> [status : Terminal \cup {"Absent", "Running"},
                               steps : Seq(Nodes)]]
      BY <1>12, <2>3 DEF TypeOK, Record
    <2>5. /\ chain' \in [Runs -> Seq(Nodes)]
          /\ composed_writes' \in [Runs -> Nat]
          /\ outputs' \in [Runs -> SUBSET Nodes]
      BY <1>12, <2>1, <2>3 DEF TypeOK, Record
    <2>6. NextNode(r)
      BY <1>12 DEF Record
    <2> QED
      BY <1>12, <2>4, <2>5, <2>6, NextNodeType DEF TypeOK, Record
  <1>13. ASSUME NEW r \in Runs, RecordFails(r) PROVE TypeOK'
    <2>1. Current(r) \in Nodes
      BY <1>13, OrderFacts DEF TypeOK, RecordFails, Current
    <2>2. trace[r].steps \in Seq(Nodes)
      BY DEF TypeOK
    <2>3. Append(trace[r].steps, Current(r)) \in Seq(Nodes)
      BY <2>1, <2>2
    <2>4. trace' \in [Runs -> [status : Terminal \cup {"Absent", "Running"},
                               steps : Seq(Nodes)]]
      BY <1>13, <2>3 DEF TypeOK, RecordFails
    <2> QED
      BY <1>13, <2>4 DEF TypeOK, RecordFails, Return, Goto, PcValues, Results
  <1>14. ASSUME NEW r \in Runs, PreArtifact(r) PROVE TypeOK'
    <2>1. PICK d \in Decisions(HookContext(r, "PreArtifact")) :
             \/ StopOn(r, d)
             \/ Proceeds(d) /\ CloseWith(r, "Completed", "Completed")
      BY <1>14 DEF PreArtifact
    <2>2. CASE StopOn(r, d)
      BY <1>14, <2>2, StopType DEF TypeOK, PreArtifact
    <2>3. CASE CloseWith(r, "Completed", "Completed")
      <3>1. "Completed" \in Terminal /\ "Completed" \in Results
        BY DEF Terminal, Results
      <3> QED
        BY <1>14, <2>3, <3>1, CloseType DEF TypeOK, PreArtifact
    <2> QED
      BY <2>1, <2>2, <2>3
  <1>15. ASSUME NEW r \in Runs, Close(r) PROVE TypeOK'
    <2>1. pending[r] \in [status : Terminal, result : Results]
      BY DEF TypeOK
    <2>2. trace' \in [Runs -> [status : Terminal \cup {"Absent", "Running"},
                               steps : Seq(Nodes)]]
      BY <1>15, <2>1 DEF TypeOK, Close
    <2>3. "StoreError" \in Results /\ "returned" \in PcValues
      BY DEF Results, PcValues
    <2>4. PICK x \in Results : Return(r, x)
      BY <1>15, <2>1, <2>3 DEF Close
    <2> QED
      BY <1>15, <2>2, <2>3, <2>4 DEF TypeOK, Close, Return, Goto
  <1>16. CASE UNCHANGED vars
    BY <1>16 DEF TypeOK, vars
  <1> QED
    BY <1>1, <1>2, <1>3, <1>4, <1>5, <1>6, <1>7, <1>8, <1>9, <1>10, <1>11, <1>12,
       <1>13, <1>14, <1>15, <1>16 DEF Next, Advance

\* Every reachable state of the executor is well typed; in particular a run that
\* is inside its loop is at a node of the graph.
THEOREM TypeCorrect == Spec => []TypeOK
PROOF BY TypeInit, TypeNext, PTL DEF Spec

-----------------------------------------------------------------------------
(* The shared budget.                                                      *)

\* The inductive form of AcceptedWithinBudget: what was accepted is part of what
\* was charged, so that a charge the tracker accepts, the sum of everything
\* charged being within the budget, keeps the accepted part within it.
BudgetInv ==
    /\ \A x \in Resources : accepted[x] <= used[x]
    /\ AcceptedWithinBudget

LEMMA BudgetStep ==
    ASSUME TypeOK, BudgetInv, NEW r \in Runs, ChargeBudget(r)
    PROVE  BudgetInv'
PROOF
  <1> DEFINE c == Consumption(output[r])
  <1>1. c \in Amounts /\ used \in Amounts /\ accepted \in Amounts
    BY ConsumptionType DEF TypeOK
  <1>2. Budget \in Amounts
    BY GraphAssumption DEF GraphAssumption
  <1>3. used' = Plus(used, c)
    BY DEF ChargeBudget, Charge
  <1> HIDE DEF c
  <1>4. CASE WithinBudget(used')
    <2>1. accepted' = Plus(accepted, c)
      BY <1>4 DEF ChargeBudget, c
    <2>2. \A x \in Resources : used'[x] <= Budget[x]
      BY <1>4 DEF WithinBudget
    <2>3. ASSUME NEW x \in Resources
          PROVE  accepted'[x] <= used'[x] /\ accepted'[x] <= Budget[x]
      <3>1. accepted'[x] = accepted[x] + c[x] /\ used'[x] = used[x] + c[x]
        BY <1>3, <2>1 DEF Plus
      <3>2. accepted[x] \in Nat /\ used[x] \in Nat /\ c[x] \in Nat /\ Budget[x] \in Nat
        BY <1>1, <1>2 DEF Amounts
      <3> QED
        BY <2>2, <3>1, <3>2 DEF BudgetInv
    <2> QED
      BY <2>3 DEF BudgetInv, AcceptedWithinBudget, WithinBudget
  <1>5. CASE ~ WithinBudget(used')
    <2>1. accepted' = accepted
      BY <1>5 DEF ChargeBudget
    <2>2. ASSUME NEW x \in Resources PROVE accepted'[x] <= used'[x]
      <3>1. accepted'[x] = accepted[x] /\ used'[x] = used[x] + c[x]
        BY <1>3, <2>1 DEF Plus
      <3>2. accepted[x] \in Nat /\ used[x] \in Nat /\ c[x] \in Nat
        BY <1>1 DEF Amounts
      <3> QED
        BY <3>1, <3>2 DEF BudgetInv
    <2> QED
      BY <2>1, <2>2 DEF BudgetInv, AcceptedWithinBudget, WithinBudget
  <1> QED
    BY <1>4, <1>5

\* Only a charge touches the tracker.
LEMMA BudgetFrame ==
    ASSUME NEW r \in Runs,
           \/ Start(r) \/ Revoke(r) \/ PrePlan(r) \/ OpenFails(r) \/ PreStep(r)
           \/ ShadowNode(r) \/ NodeOk(r) \/ NodeErr(r) \/ Compensate(r) \/ PostStep(r)
           \/ Record(r) \/ RecordFails(r) \/ PreArtifact(r) \/ Close(r)
    PROVE  UNCHANGED <<used, accepted>>
PROOF BY DEF Start, Revoke, PrePlan, OpenFails, PreStep, ShadowNode, NodeOk, NodeErr,
             Compensate, PostStep, Record, RecordFails, PreArtifact, Close,
             locals, shared, history

\* Whatever the graph, the budget and the number of runs that share the tracker,
\* the charges that GraphExecutor::run accepted never exceed the budget.
THEOREM BudgetRespected == Spec => []AcceptedWithinBudget
PROOF
  <1>1. Init => BudgetInv
    <2>1. Budget \in Amounts
      BY GraphAssumption DEF GraphAssumption
    <2> QED
      BY <2>1 DEF Init, BudgetInv, AcceptedWithinBudget, WithinBudget, Zero, Amounts
  <1>2. TypeOK /\ BudgetInv /\ [Next]_vars => BudgetInv'
    <2> SUFFICES ASSUME TypeOK, BudgetInv, [Next]_vars PROVE BudgetInv'
      OBVIOUS
    <2>1. ASSUME UNCHANGED <<used, accepted>> PROVE BudgetInv'
      BY <2>1 DEF BudgetInv, AcceptedWithinBudget, WithinBudget
    <2>2. CASE UNCHANGED vars
      BY <2>1, <2>2 DEF vars, shared, history
    <2>3. ASSUME NEW r \in Runs, Start(r) \/ Revoke(r) \/ Advance(r) PROVE BudgetInv'
      BY <2>1, <2>3, BudgetStep, BudgetFrame DEF Advance
    <2> QED
      BY <2>2, <2>3 DEF Next
  <1>3. BudgetInv => AcceptedWithinBudget
    BY DEF BudgetInv
  <1> QED
    BY <1>1, <1>2, <1>3, TypeCorrect, PTL DEF Spec

-----------------------------------------------------------------------------
(* The approval gate.                                                      *)

\* With the default rules, no decision on a write-class step lets it proceed
\* unless the requester has the auto-approve scope: the gate's violation is among
\* those collected, and no other violation can outweigh it downwards.
LEMMA GateNeverProceeds ==
    ASSUME NEW r \in Runs, r \notin AutoApprove, IsWriteNode(Order[step[r]]),
           NEW d \in Decisions(PreStepContext(r))
    PROVE  ~ Proceeds(d)
PROOF
  <1> DEFINE ctx == PreStepContext(r)
             gate == Violation("SideEffectGate", "Warning")
  <1>1. /\ ctx.hook = "PreStep" /\ ctx.scopes = {}
        /\ ctx.side_effect = {SideEffect[Order[step[r]]]}
    BY DEF PreStepContext, HookContext
  <1>2. IsWrite(ctx)
    BY <1>1 DEF IsWrite, SideEffectInContext, IsWriteNode
  <1>3. SideEffectGate(ctx) = {gate}
    BY <1>1, <1>2 DEF SideEffectGate
  <1>4. RuleEvaluate("SideEffectGate", ctx) = {gate}
    BY <1>3 DEF RuleEvaluate
  <1>5. "SideEffectGate" \in DefaultRules /\ ctx.hook \in ApplicableHooks("SideEffectGate")
    BY <1>1 DEF DefaultRules, ApplicableHooks, Hooks
  <1>6. gate \in Violations(DefaultRules, ctx)
    BY <1>4, <1>5 DEF Violations
  <1>7. PICK custom \in CustomAnswers : d = Decide(Violations(DefaultRules, ctx) \cup custom)
    BY DEF Decisions, Evaluate
  <1>8. gate.kind = "SideEffectGate"
    BY DEF Violation
  <1> HIDE DEF ctx, gate
  <1>9. d \in {"Deny", "RequireApproval"}
    BY <1>6, <1>7, <1>8 DEF Decide
  <1> QED
    BY <1>9 DEF Proceeds

\* A step of one run leaves the local state of the others alone.
LEMMA OthersUnchanged ==
    ASSUME TypeOK, NEW r \in Runs, Start(r) \/ Revoke(r) \/ Advance(r),
           NEW q \in Runs, q # r
    PROVE  /\ pc'[q] = pc[q] /\ step'[q] = step[q] /\ outputs'[q] = outputs[q]
           /\ pending'[q] = pending[q] /\ result'[q] = result[q]
           /\ trace'[q] = trace[q] /\ done'[q] = done[q] /\ chain'[q] = chain[q]
           /\ undone'[q] = undone[q]
PROOF
  <1> USE DEF TypeOK, locals, shared, history, Goto, CloseWith, Return, StopOn, NextNode
  <1>1. CASE Start(r)
    BY <1>1 DEF Start
  <1>2. CASE Revoke(r)
    BY <1>2 DEF Revoke
  <1>3. CASE PrePlan(r) \/ OpenFails(r)
    BY <1>3 DEF PrePlan, OpenFails
  <1>4. CASE PreStep(r) \/ PreArtifact(r)
    BY <1>4 DEF PreStep, PreArtifact
  <1>5. CASE ShadowNode(r) \/ NodeOk(r) \/ NodeErr(r)
    BY <1>5 DEF ShadowNode, NodeOk, NodeErr
  <1>6. CASE Compensate(r)
    BY <1>6 DEF Compensate
  <1>7. CASE ChargeBudget(r)
    BY <1>7 DEF ChargeBudget
  <1>8. CASE PostStep(r)
    BY <1>8 DEF PostStep
  <1>9. CASE Record(r) \/ RecordFails(r)
    <2>1. CASE Record(r)
      BY <2>1 DEF Record
    <2>2. CASE RecordFails(r)
      BY <2>2 DEF RecordFails
    <2> QED
      BY <1>9, <2>1, <2>2
  <1>10. CASE Close(r)
    BY <1>10 DEF Close
  <1> QED
    BY <1>1, <1>2, <1>3, <1>4, <1>5, <1>6, <1>7, <1>8, <1>9, <1>10 DEF Advance

LEMMA ElemsAppend ==
    ASSUME NEW S, NEW s \in Seq(S), NEW e \in S
    PROVE  Elems(Append(s, e)) = Elems(s) \cup {e}
PROOF
  <1>1. Len(Append(s, e)) = Len(s) + 1 /\ Len(s) \in Nat
    OBVIOUS
  <1>2. \A i \in 1..Len(s) : Append(s, e)[i] = s[i]
    OBVIOUS
  <1>3. Append(s, e)[Len(s) + 1] = e
    OBVIOUS
  <1>4. 1..(Len(s) + 1) = 1..Len(s) \cup {Len(s) + 1}
    BY <1>1
  <1> QED
    BY <1>1, <1>2, <1>3, <1>4 DEF Elems

LEMMA ElemsEmpty == Elems(<<>>) = {}
PROOF BY DEF Elems

\* The inductive form of WritesAreGated, for one run: a write-class node that is
\* about to run has passed the gate.
GateInv(r) ==
    /\ pc[r] = "node" /\ IsWriteNode(Order[step[r]]) => r \in AutoApprove
    /\ \A n \in Elems(done[r]) : IsWriteNode(n) => r \in AutoApprove /\ ~ shadow

\* An executor keeps the mode it was built with.
LEMMA ModeIsFixed ==
    ASSUME NEW r \in Runs, Start(r) \/ Revoke(r) \/ Advance(r)
    PROVE  shadow' = shadow
PROOF BY DEF Start, Revoke, Advance, PrePlan, OpenFails, PreStep, ShadowNode, NodeOk,
             NodeErr, Compensate, ChargeBudget, PostStep, Record, RecordFails,
             PreArtifact, Close

LEMMA GateStep ==
    ASSUME TypeOK, NEW r \in Runs, GateInv(r), Start(r) \/ Revoke(r) \/ Advance(r)
    PROVE  GateInv(r)'
PROOF
  <1> USE DEF locals, shared, history
  <1> shadow' = shadow
    BY ModeIsFixed
  <1>1. CASE Start(r)
    <2>1. done'[r] = <<>> /\ pc'[r] \in {"returned", "prePlan"}
      BY <1>1 DEF Start, Return, Goto, TypeOK
    <2> QED
      BY <2>1, ElemsEmpty DEF GateInv
  <1>2. CASE Revoke(r)
    BY <1>2 DEF Revoke, GateInv
  <1>3. CASE PreStep(r)
    <2>1. done' = done /\ step' = step
      BY <1>3 DEF PreStep
    <2>2. PICK d \in Decisions(PreStepContext(r)) :
             \/ StopOn(r, d)
             \/ Proceeds(d) /\ Goto(r, "node") /\ UNCHANGED pending
      BY <1>3 DEF PreStep
    <2>3. CASE StopOn(r, d)
      <3>1. pc'[r] = "closing"
        BY <2>3 DEF StopOn, CloseWith, Goto, TypeOK
      <3> QED
        BY <2>1, <3>1 DEF GateInv
    <2>4. CASE Proceeds(d)
      <3>1. IsWriteNode(Order[step[r]]) => r \in AutoApprove
        BY <2>4, GateNeverProceeds
      <3> QED
        BY <2>1, <3>1 DEF GateInv
    <2> QED
      BY <2>2, <2>3, <2>4
  <1>4. CASE NodeOk(r)
    <2>1. Current(r) \in Nodes /\ done[r] \in Seq(Nodes)
      BY <1>4, OrderFacts DEF TypeOK, NodeOk, Current
    <2>2. done'[r] = Append(done[r], Current(r)) /\ pc'[r] = "charge"
      BY <1>4 DEF TypeOK, NodeOk, Goto
    <2>3. Elems(done'[r]) = Elems(done[r]) \cup {Current(r)}
      BY <2>1, <2>2, ElemsAppend
    <2>4. IsWriteNode(Current(r)) => r \in AutoApprove /\ ~ shadow
      BY <1>4 DEF NodeOk, GateInv, Current
    <2> QED
      BY <2>2, <2>3, <2>4 DEF GateInv
  <1>5. ASSUME done' = done, pc'[r] # "node" PROVE GateInv(r)'
    BY <1>5 DEF GateInv
  <1>6. CASE PrePlan(r) \/ Record(r)
    <2>1. done' = done
      BY <1>6 DEF PrePlan, Record
    <2>2. pc'[r] # "node"
      BY <1>6 DEF PrePlan, Record, NextNode, StopOn, CloseWith, Goto, TypeOK
    <2> QED
      BY <1>5, <2>1, <2>2
  <1>7. CASE OpenFails(r) \/ RecordFails(r) \/ Close(r)
    BY <1>5, <1>7 DEF OpenFails, RecordFails, Close, Return, Goto, TypeOK
  <1>8. CASE ShadowNode(r) \/ NodeErr(r) \/ ChargeBudget(r)
    BY <1>5, <1>8 DEF ShadowNode, NodeErr, ChargeBudget, CloseWith, Goto, TypeOK
  <1>9. CASE Compensate(r)
    BY <1>5, <1>9 DEF Compensate, Return, Goto, TypeOK
  <1>10. CASE PostStep(r) \/ PreArtifact(r)
    BY <1>5, <1>10 DEF PostStep, PreArtifact, StopOn, CloseWith, Goto, TypeOK
  <1> QED
    BY <1>1, <1>2, <1>3, <1>4, <1>6, <1>7, <1>8, <1>9, <1>10 DEF Advance

\* In every execution a node that declares a write-class side effect runs only for
\* a requester with the auto-approve scope, and never in shadow mode.
THEOREM GateHolds == Spec => []WritesAreGated
PROOF
  <1> DEFINE Inv == \A r \in Runs : GateInv(r)
  <1>1. Init => Inv
    BY ElemsEmpty DEF Init, GateInv
  <1>2. TypeOK /\ Inv /\ [Next]_vars => Inv'
    <2> SUFFICES ASSUME TypeOK, Inv, [Next]_vars PROVE Inv'
      OBVIOUS
    <2>1. CASE UNCHANGED vars
      BY <2>1 DEF vars, locals, history, GateInv
    <2>2. ASSUME NEW r \in Runs, Start(r) \/ Revoke(r) \/ Advance(r), NEW q \in Runs
          PROVE  GateInv(q)'
      <3>1. CASE q = r
        BY <2>2, <3>1, GateStep
      <3>2. CASE q # r
        <4>1. pc'[q] = pc[q] /\ step'[q] = step[q] /\ done'[q] = done[q]
          BY <2>2, <3>2, OthersUnchanged
        <4>2. shadow' = shadow
          BY <2>2, ModeIsFixed
        <4> QED
          BY <4>1, <4>2 DEF GateInv
      <3> QED
        BY <3>1, <3>2
    <2> QED
      BY <2>1, <2>2 DEF Next
  <1>3. Inv => WritesAreGated
    BY DEF GateInv, WritesAreGated
  <1> QED
    BY <1>1, <1>2, <1>3, TypeCorrect, PTL DEF Spec

-----------------------------------------------------------------------------
(* The overrun of the shared budget.                                       *)

\* The calls of run() so far, and those among them that charge no more: earlier
\* calls of a run and calls that are closing their trace or have returned.
Calls == {call \in Runs \X (1..MaxAttempts) : call[2] <= attempts[call[1]]}
Settled == {call \in Calls : \/ call[2] < attempts[call[1]]
                             \/ pc[call[1]] \in {"closing", "returned"}}

\* The inductive form of OverrunBounded: only settled calls have overrun, by one
\* step each, since a refused charge settles the call that made it.
OverrunInv ==
    /\ \A r \in Runs :
         /\ attempts[r] <= MaxAttempts
         /\ pc[r] # "idle" => attempts[r] >= 1
         /\ pc[r] = "charge" => output[r] \in NodeOutputs \cup {NoOutput}
    /\ IsFiniteSet(Calls)
    /\ \A x \in Resources : used[x] <= Budget[x] + Cardinality(Settled) * LargestCharge(x)

\* No step, and no step that shadow mode skips, uses more than the largest charge.
LEMMA LargestIsLargest ==
    ASSUME NEW x \in Resources
    PROVE  /\ LargestCharge(x) \in Nat
           /\ \A o \in NodeOutputs \cup {NoOutput} : Consumption(o)[x] <= LargestCharge(x)
PROOF
  <1> DEFINE S == {Consumption(o)[x] : o \in NodeOutputs}
  <1>1. \A o \in NodeOutputs : Consumption(o)[x] \in Nat
    BY ConsumptionType, GraphAssumption DEF Amounts
  <1>2. \E m \in S : \A o \in NodeOutputs : Consumption(o)[x] <= m
    BY OutputsAssumption
  <1>3. LargestCharge(x) \in S /\ \A o \in NodeOutputs : Consumption(o)[x] <= LargestCharge(x)
    BY <1>2 DEF LargestCharge
  <1>4. Consumption(NoOutput)[x] = 0
    BY DEF Consumption, NoOutput, Resources
  <1> QED
    BY <1>1, <1>3, <1>4

\* Settled calls stay settled, and a step adds at most one call.
LEMMA SettledGrows ==
    ASSUME TypeOK, OverrunInv, NEW r \in Runs, Start(r) \/ Revoke(r) \/ Advance(r)
    PROVE  /\ Settled \subseteq Settled' /\ IsFiniteSet(Calls')
           /\ \A q \in Runs : /\ attempts'[q] <= MaxAttempts
                              /\ pc'[q] # "idle" => attempts'[q] >= 1
PROOF
  <1> USE DEF locals, shared, history, Goto, CloseWith, Return, StopOn, NextNode
  <1>1. /\ pc \in [Runs -> PcValues] /\ attempts \in [Runs -> Nat]
        /\ MaxAttempts \in Nat
    BY GraphAssumption DEF TypeOK
  <1>2. CASE Start(r)
    <2>1. /\ attempts' = [attempts EXCEPT ![r] = @ + 1] /\ attempts[r] < MaxAttempts
          /\ \A q \in Runs \ {r} : pc'[q] = pc[q]
      BY <1>1, <1>2 DEF Start
    <2>2. Calls' = Calls \cup {<<r, attempts[r] + 1>>}
      <3>1. \A call \in Runs \X (1..MaxAttempts) :
                call[2] <= attempts'[call[1]] <=>
                    call[2] <= attempts[call[1]] \/ call = <<r, attempts[r] + 1>>
        BY <1>1, <2>1
      <3>2. <<r, attempts[r] + 1>> \in Runs \X (1..MaxAttempts)
        BY <1>1, <2>1
      <3> QED
        BY <3>1, <3>2 DEF Calls
    <2>3. IsFiniteSet(Calls')
      BY <2>2, FS_AddElement DEF OverrunInv
    <2>4. Settled \subseteq Settled'
      <3> SUFFICES ASSUME NEW call \in Settled PROVE call \in Settled'
        OBVIOUS
      <3>1. call \in Calls' /\ call \in Calls /\ call \in Runs \X (1..MaxAttempts)
        BY <2>2 DEF Settled, Calls
      <3>2. CASE call[1] = r
        <4>1. call[2] < attempts'[call[1]]
          BY <1>1, <2>1, <3>1, <3>2 DEF Calls
        <4> QED
          BY <3>1, <4>1 DEF Settled
      <3>3. CASE call[1] # r
        <4>1. attempts'[call[1]] = attempts[call[1]] /\ pc'[call[1]] = pc[call[1]]
          BY <1>1, <2>1, <3>1, <3>3
        <4> QED
          BY <3>1, <4>1 DEF Settled
      <3> QED
        BY <3>2, <3>3
    <2> QED
      BY <1>1, <2>1, <2>3, <2>4 DEF OverrunInv
  <1>3. CASE Revoke(r) \/ Advance(r)
    <2>1. attempts' = attempts
      BY <1>3 DEF Revoke, Advance, PrePlan, OpenFails, PreStep, ShadowNode, NodeOk, NodeErr,
                  Compensate, ChargeBudget, PostStep, Record, RecordFails, PreArtifact, Close
    <2>2. \A q \in Runs \ {r} : pc'[q] = pc[q]
      BY OthersUnchanged
    <2>3. \/ pc' = pc
          \/ /\ pc[r] \notin {"idle", "returned"}
             /\ pc[r] = "closing" => pc'[r] = "returned"
      BY <1>1, <1>3 DEF Revoke, Advance, PrePlan, OpenFails, PreStep, ShadowNode, NodeOk, NodeErr,
                  Compensate, ChargeBudget, PostStep, Record, RecordFails, PreArtifact, Close
    <2>4. Calls' = Calls
      BY <2>1 DEF Calls
    <2>5. Settled \subseteq Settled'
      <3> SUFFICES ASSUME NEW call \in Settled PROVE call \in Settled'
        OBVIOUS
      <3>1. call \in Calls' /\ call[1] \in Runs
        BY <2>4 DEF Settled, Calls
      <3>2. pc[call[1]] \in {"closing", "returned"} => pc'[call[1]] \in {"closing", "returned"}
        BY <2>2, <2>3, <3>1
      <3> QED
        BY <2>1, <3>1, <3>2 DEF Settled
    <2> QED
      BY <2>1, <2>2, <2>3, <2>4, <2>5 DEF OverrunInv
  <1> QED
    BY <1>2, <1>3

\* More settled calls allow for a larger overrun.
LEMMA OverrunMonotone ==
    ASSUME OverrunInv, IsFiniteSet(Calls'), Settled \subseteq Settled'
    PROVE  /\ Cardinality(Settled) \in Nat /\ Cardinality(Settled') \in Nat
           /\ Cardinality(Settled) <= Cardinality(Settled')
           /\ \A x \in Resources : Cardinality(Settled) * LargestCharge(x)
                                      <= Cardinality(Settled') * LargestCharge(x)
PROOF
  <1>1. Settled \subseteq Calls /\ Settled' \subseteq Calls'
    BY DEF Settled
  <1>2. IsFiniteSet(Settled) /\ IsFiniteSet(Settled')
    BY <1>1, FS_Subset DEF OverrunInv
  <1> DEFINE m == Cardinality(Settled)
             n == Cardinality(Settled')
  <1>3. m \in Nat /\ n \in Nat /\ m <= n
    BY <1>2, FS_CardinalityType, FS_Subset
  <1> HIDE DEF m, n
  <1>4. ASSUME NEW x \in Resources PROVE m * LargestCharge(x) <= n * LargestCharge(x)
    <2>1. LargestCharge(x) \in Nat
      BY LargestIsLargest
    <2> QED
      BY <1>3, <2>1
  <1> QED
    BY <1>3, <1>4 DEF m, n

\* The charge that is refused settles the call that made it.
LEMMA ChargeSettles ==
    ASSUME TypeOK, OverrunInv, NEW r \in Runs, ChargeBudget(r)
    PROVE  \A x \in Resources :
               used'[x] <= Budget[x] + Cardinality(Settled') * LargestCharge(x)
PROOF
  <1> DEFINE c == Consumption(output[r])
             call == <<r, attempts[r]>>
  <1>1. /\ c \in Amounts /\ used \in Amounts /\ Budget \in Amounts
        /\ pc \in [Runs -> PcValues] /\ attempts \in [Runs -> Nat]
        /\ MaxAttempts \in Nat
    BY ConsumptionType, GraphAssumption DEF TypeOK
  <1>2. /\ used' = Plus(used, c) /\ pc[r] = "charge" /\ attempts' = attempts
        /\ output[r] \in NodeOutputs \cup {NoOutput}
    BY DEF ChargeBudget, Charge, OverrunInv
  <1>3. Settled \subseteq Settled' /\ IsFiniteSet(Calls')
    BY SettledGrows DEF Advance
  <1>4. Cardinality(Settled) \in Nat /\ Cardinality(Settled') \in Nat
    BY <1>3, OverrunMonotone
  <1>5. \A x \in Resources : c[x] <= LargestCharge(x) /\ LargestCharge(x) \in Nat
    BY <1>2, LargestIsLargest
  <1> HIDE DEF c
  <1>6. CASE WithinBudget(used')
    <2> SUFFICES ASSUME NEW x \in Resources
                 PROVE  used'[x] <= Budget[x] + Cardinality(Settled') * LargestCharge(x)
      OBVIOUS
    <2>1. used'[x] <= Budget[x] /\ Budget[x] \in Nat /\ used'[x] \in Nat
      BY <1>1, <1>2, <1>6 DEF WithinBudget, Plus, Amounts
    <2>2. Cardinality(Settled') * LargestCharge(x) \in Nat
      BY <1>4, <1>5
    <2> QED
      BY <2>1, <2>2
  <1>7. CASE ~ WithinBudget(used')
    <2>1. pc'[r] = "closing"
      BY <1>1, <1>7 DEF ChargeBudget, CloseWith, Goto
    <2>2. call \in Runs \X (1..MaxAttempts) /\ call[1] = r /\ call[2] = attempts[r]
      BY <1>1, <1>2 DEF OverrunInv
    <2> HIDE DEF call
    <2>3. call \in Settled' /\ call \notin Settled
      BY <1>1, <1>2, <2>1, <2>2 DEF Settled, Calls
    <2>4. Cardinality(Settled) + 1 <= Cardinality(Settled')
      <3>1. IsFiniteSet(Settled) /\ IsFiniteSet(Settled')
        BY <1>3, FS_Subset DEF Settled, OverrunInv
      <3>2. Cardinality(Settled \cup {call}) = Cardinality(Settled) + 1
        BY <2>3, <3>1, FS_AddElement
      <3>3. Cardinality(Settled \cup {call}) <= Cardinality(Settled')
        BY <1>3, <2>3, <3>1, FS_Subset
      <3> QED
        BY <3>2, <3>3
    <2> SUFFICES ASSUME NEW x \in Resources
                 PROVE  used'[x] <= Budget[x] + Cardinality(Settled') * LargestCharge(x)
      OBVIOUS
    <2> DEFINE m == Cardinality(Settled)
               n == Cardinality(Settled')
               L == LargestCharge(x)
    <2>5. /\ used'[x] = used[x] + c[x] /\ used[x] \in Nat /\ c[x] \in Nat /\ Budget[x] \in Nat
          /\ used[x] <= Budget[x] + m * L
      BY <1>1, <1>2 DEF Plus, Amounts, OverrunInv
    <2>6. m \in Nat /\ n \in Nat /\ m + 1 <= n /\ L \in Nat /\ c[x] <= L
      BY <1>4, <1>5, <2>4
    <2> HIDE DEF m, n, L
    <2>7. (m + 1) * L <= n * L /\ (m + 1) * L = m * L + L
      BY <2>6
    <2>8. m * L \in Nat /\ n * L \in Nat
      BY <2>6
    <2>9. used'[x] <= Budget[x] + n * L
      BY <2>5, <2>6, <2>7, <2>8
    <2> QED
      BY <2>9 DEF n, L
  <1> QED
    BY <1>6, <1>7

\* Every step preserves the invariant.
LEMMA OverrunStep ==
    ASSUME TypeOK, OverrunInv, NEW r \in Runs, Start(r) \/ Revoke(r) \/ Advance(r)
    PROVE  OverrunInv'
PROOF
  <1>1. /\ Settled \subseteq Settled' /\ IsFiniteSet(Calls')
        /\ \A q \in Runs : /\ attempts'[q] <= MaxAttempts
                           /\ pc'[q] # "idle" => attempts'[q] >= 1
    BY SettledGrows
  <1>2. ASSUME NEW q \in Runs, pc'[q] = "charge" PROVE output'[q] \in NodeOutputs \cup {NoOutput}
    <2> USE DEF locals, shared, history, Goto, CloseWith, Return, StopOn, NextNode
    <2>1. /\ pc \in [Runs -> PcValues] /\ output \in [Runs -> Outputs]
      BY DEF TypeOK
    <2>2. CASE ShadowNode(r) \/ NodeOk(r)
      <3>1. PICK o \in NodeOutputs \cup {NoOutput} : output' = [output EXCEPT ![r] = o]
        BY <2>2 DEF ShadowNode, NodeOk
      <3>2. pc' = [pc EXCEPT ![r] = "charge"]
        BY <2>2 DEF ShadowNode, NodeOk
      <3> QED
        BY <1>2, <2>1, <3>1, <3>2 DEF OverrunInv
    <2>3. CASE Start(r)
      BY <1>2, <2>1, <2>3 DEF Start, OverrunInv
    <2>4. CASE Revoke(r)
      BY <1>2, <2>4 DEF Revoke, OverrunInv
    <2>5. CASE \/ PrePlan(r) \/ OpenFails(r) \/ PreStep(r) \/ NodeErr(r) \/ Compensate(r)
               \/ ChargeBudget(r) \/ PostStep(r) \/ Record(r) \/ RecordFails(r)
               \/ PreArtifact(r) \/ Close(r)
      <3>1. output' = output
        BY <2>5 DEF PrePlan, OpenFails, PreStep, NodeErr, Compensate, ChargeBudget, PostStep,
                    Record, RecordFails, PreArtifact, Close
      <3>2. pc'[q] = pc[q] \/ q = r
        BY OthersUnchanged
      <3>3. pc'[r] # "charge"
        BY <2>1, <2>5 DEF PrePlan, OpenFails, PreStep, NodeErr, Compensate, ChargeBudget,
                    PostStep, Record, RecordFails, PreArtifact, Close
      <3> QED
        BY <1>2, <3>1, <3>2, <3>3 DEF OverrunInv
    <2> QED
      BY <2>2, <2>3, <2>4, <2>5 DEF Advance
  <1>3. \A x \in Resources : used'[x] <= Budget[x] + Cardinality(Settled') * LargestCharge(x)
    <2>1. CASE ChargeBudget(r)
      BY <2>1, ChargeSettles
    <2>2. CASE ~ ChargeBudget(r)
      <3>1. used' = used
        BY <2>2, BudgetFrame DEF Advance
      <3> SUFFICES ASSUME NEW x \in Resources
                   PROVE  used'[x] <= Budget[x] + Cardinality(Settled') * LargestCharge(x)
        OBVIOUS
      <3>2. used[x] \in Nat /\ Budget[x] \in Nat /\ LargestCharge(x) \in Nat
        BY GraphAssumption, LargestIsLargest DEF TypeOK, Amounts
      <3> DEFINE a == Cardinality(Settled) * LargestCharge(x)
                 b == Cardinality(Settled') * LargestCharge(x)
      <3>3. a <= b /\ a \in Nat /\ b \in Nat /\ used[x] <= Budget[x] + a
        BY <1>1, <3>2, OverrunMonotone DEF OverrunInv
      <3> HIDE DEF a, b
      <3>4. used'[x] <= Budget[x] + b
        BY <3>1, <3>2, <3>3
      <3> QED
        BY <3>4 DEF b
    <2> QED
      BY <2>1, <2>2
  <1> QED
    BY <1>1, <1>2, <1>3 DEF OverrunInv

\* However many runs share the tracker, what they spent exceeds the budget by at
\* most one step for each call of run() (BudgetTracker::charge adds before it
\* compares, and a refusal ends the call).
THEOREM OverrunIsBounded == Spec => []OverrunBounded
PROOF
  <1>1. Init => OverrunInv
    <2> SUFFICES ASSUME Init PROVE OverrunInv
      OBVIOUS
    <2>1. Calls = {} /\ Settled = {}
      BY DEF Init, Calls, Settled
    <2>2. IsFiniteSet(Calls) /\ Cardinality(Settled) = 0
      BY <2>1, FS_EmptySet
    <2>3. \A x \in Resources : used[x] = 0 /\ Budget[x] \in Nat /\ LargestCharge(x) \in Nat
      BY GraphAssumption, LargestIsLargest DEF Init, Zero, Amounts
    <2>4. \A x \in Resources : used[x] <= Budget[x] + Cardinality(Settled) * LargestCharge(x)
      BY <2>2, <2>3
    <2> QED
      BY <2>2, <2>4, GraphAssumption DEF Init, OverrunInv
  <1>2. TypeOK /\ OverrunInv /\ [Next]_vars => OverrunInv'
    <2> SUFFICES ASSUME TypeOK, OverrunInv, [Next]_vars PROVE OverrunInv'
      OBVIOUS
    <2>1. CASE UNCHANGED vars
      <3>1. UNCHANGED <<attempts, pc, output, used>>
        BY <2>1 DEF vars, locals, shared
      <3>2. Calls' = Calls /\ Settled' = Settled
        BY <3>1 DEF Calls, Settled
      <3> QED
        BY <3>1, <3>2 DEF OverrunInv
    <2> QED
      BY <2>1, OverrunStep DEF Next
  <1>3. TypeOK /\ OverrunInv => OverrunBounded
    <2> SUFFICES ASSUME TypeOK, OverrunInv, NEW x \in Resources
                 PROVE  used[x] <= Budget[x] + Cardinality(Calls) * LargestCharge(x)
      BY DEF OverrunBounded, Calls
    <2>1. /\ used[x] \in Nat /\ Budget[x] \in Nat /\ LargestCharge(x) \in Nat
          /\ used[x] <= Budget[x] + Cardinality(Settled) * LargestCharge(x)
      BY GraphAssumption, LargestIsLargest DEF TypeOK, Amounts, OverrunInv
    <2> DEFINE m == Cardinality(Settled)
               n == Cardinality(Calls)
               L == LargestCharge(x)
    <2>2. m \in Nat /\ n \in Nat /\ m <= n
      BY FS_Subset, FS_CardinalityType DEF OverrunInv, Settled
    <2>3. L \in Nat
      BY <2>1
    <2> HIDE DEF m, n, L
    <2>4. m * L <= n * L /\ m * L \in Nat /\ n * L \in Nat
      BY <2>2, <2>3
    <2> QED
      BY <2>1, <2>4 DEF m, n, L
  <1> QED
    BY <1>1, <1>2, <1>3, TypeCorrect, PTL DEF Spec

-----------------------------------------------------------------------------
(***************************************************************************)
(* What GraphExecutor::run returns agrees with what it leaves behind: the  *)
(* trace, and the effects it undid.                                        *)
(***************************************************************************)

\* The first n nodes are recorded in order and have an output.
Logged(r, n) ==
    /\ trace[r].steps = SubSeq(Order, 1, n)
    /\ outputs[r] = Elems(SubSeq(Order, 1, n))

\* What a run is about to report agrees with the status it is about to write and
\* with what it has recorded.
PendingAgrees(r) ==
    /\ pending[r].result = "Completed" =>
           pending[r].status = "Completed" /\ Logged(r, Len(Order))
    /\ pending[r].result = "Partial" =>
           pending[r].status = "Partial" /\ Logged(r, step[r] - 1)
    /\ pending[r].result = "PendingApproval" => pending[r].status = "Partial"
    /\ pending[r].result \in {"PolicyViolation", "NodeError", "RolledBack"} =>
           pending[r].status = "Failed"

ResultAgrees(r) ==
    /\ result[r] = "Completed" =>
           /\ trace[r] = [status |-> "Completed", steps |-> Order]
           /\ outputs[r] = Nodes
    /\ result[r] = "Partial" =>
           /\ trace[r] = [status |-> "Partial", steps |-> SubSeq(Order, 1, step[r] - 1)]
           /\ outputs[r] = Elems(trace[r].steps)
    /\ result[r] = "PendingApproval" => trace[r].status = "Partial"
    /\ result[r] \in {"PolicyViolation", "NodeError", "RolledBack"} =>
           trace[r].status = "Failed"

InLoop == {"preStep", "node", "charge", "postStep", "record"}

\* The inductive form of ResultMatchesTrace, for one run.
TraceInv(r) ==
    /\ pc[r] # "returned" => result[r] = "None"
    /\ pc[r] = "prePlan" => step[r] = 0 /\ outputs[r] = {}
    /\ pc[r] \in InLoop => Logged(r, step[r] - 1)
    /\ pc[r] = "preArtifact" => Logged(r, Len(Order))
    /\ pc[r] = "rollback" => pending[r] = [status |-> "Failed", result |-> "RolledBack"]
    /\ pc[r] = "closing" => PendingAgrees(r)
    /\ ResultAgrees(r)

-----------------------------------------------------------------------------
\* Sequences of the same length with the same elements are equal.
LEMMA SeqEqual ==
    ASSUME NEW S, NEW s \in Seq(S), NEW t \in Seq(S), Len(s) = Len(t),
           \A i \in 1..Len(s) : s[i] = t[i]
    PROVE  s = t
PROOF OBVIOUS

\* Prefixes of the node order, as recorded by successive steps.
LEMMA PrefixFacts ==
    /\ SubSeq(Order, 1, 0) = <<>>
    /\ SubSeq(Order, 1, Len(Order)) = Order
    /\ Elems(Order) = Nodes
    /\ \A n \in 1..Len(Order) :
           /\ Append(SubSeq(Order, 1, n - 1), Order[n]) = SubSeq(Order, 1, n)
           /\ Elems(SubSeq(Order, 1, n)) = Elems(SubSeq(Order, 1, n - 1)) \cup {Order[n]}
PROOF
  <1>1. Order \in Seq(Nodes) /\ Len(Order) \in Nat
    BY OrderFacts
  <1>2. SubSeq(Order, 1, 0) = <<>>
    BY <1>1
  <1>3. SubSeq(Order, 1, Len(Order)) = Order
    BY <1>1
  <1>4. Elems(Order) = Nodes
    BY DEF Elems, Nodes
  <1>5. ASSUME NEW n \in 1..Len(Order)
        PROVE  /\ Append(SubSeq(Order, 1, n - 1), Order[n]) = SubSeq(Order, 1, n)
               /\ Elems(SubSeq(Order, 1, n)) = Elems(SubSeq(Order, 1, n - 1)) \cup {Order[n]}
    <2>1. Append(SubSeq(Order, 1, n - 1), Order[n]) = SubSeq(Order, 1, n)
      <3> DEFINE s == SubSeq(Order, 1, n - 1)
                 t == SubSeq(Order, 1, n)
      <3>1. /\ s \in Seq(Nodes) /\ Len(s) = n - 1
            /\ \A i \in 1..(n - 1) : s[i] = Order[i]
        BY <1>1
      <3>2. /\ t \in Seq(Nodes) /\ Len(t) = n
            /\ \A i \in 1..n : t[i] = Order[i]
        BY <1>1
      <3>3. Order[n] \in Nodes
        BY <1>1
      <3> HIDE DEF s, t
      <3>4. /\ Append(s, Order[n]) \in Seq(Nodes) /\ Len(Append(s, Order[n])) = n
            /\ \A i \in 1..n : Append(s, Order[n])[i] = Order[i]
        BY <1>1, <3>1, <3>3
      <3>5. Append(s, Order[n]) = t
        BY <3>2, <3>4, SeqEqual
      <3> QED
        BY <3>5 DEF s, t
    <2>2. SubSeq(Order, 1, n - 1) \in Seq(Nodes) /\ Order[n] \in Nodes
      BY <1>1, OrderFacts
    <2>3. Elems(Append(SubSeq(Order, 1, n - 1), Order[n]))
              = Elems(SubSeq(Order, 1, n - 1)) \cup {Order[n]}
      <3> DEFINE s == SubSeq(Order, 1, n - 1)
                 e == Order[n]
      <3>1. s \in Seq(Nodes) /\ e \in Nodes
        BY <2>2
      <3> HIDE DEF s, e
      <3>2. Elems(Append(s, e)) = Elems(s) \cup {e}
        BY <3>1, ElemsAppend
      <3> QED
        BY <3>2 DEF s, e
    <2> QED
      BY <2>1, <2>3, Zenon
  <1> QED
    BY <1>2, <1>3, <1>4, <1>5

\* Moving on to the next node keeps the log complete up to it.
LEMMA NextNodeLogged ==
    ASSUME TypeOK, NEW r \in Runs, NextNode(r),
           trace'[r].steps = SubSeq(Order, 1, step[r]),
           outputs'[r] = Elems(SubSeq(Order, 1, step[r]))
    PROVE  /\ pc'[r] \in {"preStep", "preArtifact"}
           /\ pc'[r] = "preStep" => Logged(r, step[r] - 1)'
           /\ pc'[r] = "preArtifact" => Logged(r, Len(Order))'
PROOF
  <1>1. /\ step \in [Runs -> 0..Len(Order)] /\ pc \in [Runs -> PcValues]
        /\ Len(Order) \in Nat
    BY OrderFacts DEF TypeOK
  <1>2. CASE step[r] < Len(Order)
    <2>1. pc'[r] = "preStep" /\ step'[r] = step[r] + 1
      BY <1>1, <1>2 DEF NextNode, Goto
    <2>2. step'[r] - 1 = step[r]
      BY <1>1, <2>1
    <2> QED
      BY <2>1, <2>2 DEF Logged
  <1>3. CASE ~ (step[r] < Len(Order))
    <2>1. pc'[r] = "preArtifact" /\ step[r] = Len(Order)
      BY <1>1, <1>3 DEF NextNode, Goto
    <2> QED
      BY <2>1 DEF Logged
  <1> QED
    BY <1>2, <1>3

\* A run that a decision stops reports what the decision asks for.
LEMMA StopAgrees ==
    ASSUME TypeOK, NEW r \in Runs, NEW d, StopOn(r, d)
    PROVE  pc'[r] = "closing" /\ PendingAgrees(r)'
PROOF BY DEF StopOn, CloseWith, Goto, TypeOK, PendingAgrees

-----------------------------------------------------------------------------
LEMMA TraceStep ==
    ASSUME TypeOK, NEW r \in Runs, TraceInv(r), Start(r) \/ Revoke(r) \/ Advance(r)
    PROVE  TraceInv(r)'
PROOF
  <1> USE DEF locals, shared, history, InLoop
  <1>a. /\ pc \in [Runs -> PcValues] /\ result \in [Runs -> Results]
        /\ step \in [Runs -> 0..Len(Order)] /\ outputs \in [Runs -> SUBSET Nodes]
        /\ pending \in [Runs -> [status : Terminal, result : Results]]
        /\ trace \in [Runs -> [status : Terminal \cup {"Absent", "Running"},
                               steps : Seq(Nodes)]]
    BY DEF TypeOK
  \* While a run goes on it has no result, so only its control point matters.
  <1>b. ASSUME result'[r] = "None" PROVE ResultAgrees(r)'
    BY <1>b DEF ResultAgrees
  <1>1. CASE Start(r)
    <2>1. step'[r] = 0 /\ outputs'[r] = {}
      BY <1>1, <1>a DEF Start
    <2>2. \/ pc'[r] = "returned" /\ result'[r] = "Revoked"
          \/ pc'[r] = "prePlan" /\ result'[r] = "None"
      BY <1>1, <1>a DEF Start, Return, Goto
    <2> QED
      BY <2>1, <2>2 DEF TraceInv, ResultAgrees
  <1>2. CASE Revoke(r)
    BY <1>2 DEF Revoke, TraceInv, ResultAgrees, PendingAgrees, Logged
  <1>3. CASE PrePlan(r)
    <2>1. /\ pc[r] = "prePlan" /\ trace'[r].steps = <<>>
          /\ outputs' = outputs /\ result' = result
      BY <1>3, <1>a DEF PrePlan, OpenTrace
    <2>2. step[r] = 0 /\ outputs[r] = {} /\ result'[r] = "None"
      BY <2>1 DEF TraceInv
    <2>3. PICK d \in Decisions(PrePlanContext(r)) :
             \/ StopOn(r, d) /\ UNCHANGED step
             \/ Proceeds(d) /\ NextNode(r) /\ UNCHANGED pending
      BY <1>3 DEF PrePlan
    <2>4. CASE StopOn(r, d)
      BY <1>b, <2>2, <2>4, StopAgrees DEF TraceInv
    <2>5. CASE NextNode(r)
      <3>1. /\ trace'[r].steps = SubSeq(Order, 1, step[r])
            /\ outputs'[r] = Elems(SubSeq(Order, 1, step[r]))
        BY <2>1, <2>2, PrefixFacts, ElemsEmpty
      <3> QED
        BY <1>b, <2>2, <2>5, <3>1, NextNodeLogged DEF TraceInv
    <2> QED
      BY <2>3, <2>4, <2>5
  <1>4. CASE OpenFails(r) \/ RecordFails(r)
    <2>1. pc'[r] = "returned" /\ result'[r] = "StoreError"
      BY <1>4, <1>a DEF OpenFails, RecordFails, Return, Goto
    <2> QED
      BY <2>1 DEF TraceInv, ResultAgrees
  <1>5. CASE PreStep(r)
    <2>1. /\ pc[r] = "preStep" /\ result'[r] = "None" /\ Logged(r, step[r] - 1)
          /\ Logged(r, step[r] - 1)'
      BY <1>5 DEF PreStep, TraceInv, Logged
    <2>2. PICK d \in Decisions(PreStepContext(r)) :
             \/ StopOn(r, d)
             \/ Proceeds(d) /\ Goto(r, "node") /\ UNCHANGED pending
      BY <1>5 DEF PreStep
    <2>3. CASE StopOn(r, d)
      BY <1>b, <2>1, <2>3, StopAgrees DEF TraceInv
    <2>4. CASE Goto(r, "node")
      BY <1>a, <1>b, <2>1, <2>4 DEF TraceInv, Goto
    <2> QED
      BY <2>2, <2>3, <2>4
  <1>6. CASE ShadowNode(r) \/ NodeOk(r)
    <2>1. pc'[r] = "charge" /\ result'[r] = "None" /\ Logged(r, step[r] - 1)'
      BY <1>6, <1>a DEF ShadowNode, NodeOk, Goto, TraceInv, Logged
    <2> QED
      BY <1>b, <2>1 DEF TraceInv
  <1>7. CASE NodeErr(r)
    <2>1. result'[r] = "None"
      BY <1>7 DEF NodeErr, TraceInv
    <2>2. \/ /\ pc'[r] = "closing"
             /\ pending'[r] = [status |-> "Failed", result |-> "NodeError"]
          \/ /\ pc'[r] = "rollback"
             /\ pending'[r] = [status |-> "Failed", result |-> "RolledBack"]
      BY <1>7, <1>a DEF NodeErr, CloseWith, Goto
    <2> QED
      BY <1>b, <2>1, <2>2 DEF TraceInv, PendingAgrees
  <1>8. CASE Compensate(r)
    <2>1. pending'[r] = [status |-> "Failed", result |-> "RolledBack"]
      BY <1>8 DEF Compensate, TraceInv
    <2>2. \/ pc'[r] \in {"closing", "rollback"} /\ result'[r] = "None"
          \/ pc'[r] = "returned" /\ result'[r] = "CompensationFailed"
      BY <1>8, <1>a DEF Compensate, TraceInv, Return, Goto
    <2> QED
      BY <2>1, <2>2 DEF TraceInv, ResultAgrees, PendingAgrees
  <1>9. CASE ChargeBudget(r)
    <2>1. result'[r] = "None" /\ Logged(r, step[r] - 1)'
      BY <1>9 DEF ChargeBudget, TraceInv, Logged
    <2>2. \/ pc'[r] = "postStep"
          \/ /\ pc'[r] = "closing"
             /\ pending'[r] = [status |-> "Partial", result |-> "Partial"]
      BY <1>9, <1>a DEF ChargeBudget, CloseWith, Goto
    <2> QED
      BY <1>b, <2>1, <2>2 DEF TraceInv, PendingAgrees
  <1>10. CASE PostStep(r)
    <2>1. PICK d \in Decisions(PostStepContext(r)) :
             /\ \/ StopOn(r, d)
                \/ Proceeds(d) /\ Goto(r, "record") /\ UNCHANGED pending
             /\ outputs' = [outputs EXCEPT ![r] =
                                IF d = "RequireApproval" THEN @ \cup {Current(r)} ELSE @]
      BY <1>10 DEF PostStep
    <2>2. /\ pc[r] = "postStep" /\ result'[r] = "None" /\ step' = step /\ trace' = trace
          /\ Logged(r, step[r] - 1)
      BY <1>10 DEF PostStep, TraceInv
    <2>3. CASE StopOn(r, d)
      BY <1>b, <2>2, <2>3, StopAgrees DEF TraceInv
    <2>4. CASE Proceeds(d) /\ Goto(r, "record")
      <3>1. outputs'[r] = outputs[r] /\ pc'[r] = "record"
        BY <1>a, <2>1, <2>4 DEF Proceeds, Goto
      <3> QED
        BY <1>b, <2>2, <3>1 DEF TraceInv, Logged
    <2> QED
      BY <2>1, <2>3, <2>4
  <1>11. CASE Record(r)
    <2>1. step[r] \in 1..Len(Order)
      BY <1>11, OrderFacts DEF Record, TypeOK
    <2>2. result'[r] = "None" /\ Logged(r, step[r] - 1) /\ NextNode(r)
      BY <1>11 DEF Record, TraceInv
    <2>3. /\ trace'[r].steps = Append(trace[r].steps, Order[step[r]])
          /\ outputs'[r] = outputs[r] \cup {Order[step[r]]}
      BY <1>11, <1>a DEF Record, Current
    <2>4. /\ trace'[r].steps = SubSeq(Order, 1, step[r])
          /\ outputs'[r] = Elems(SubSeq(Order, 1, step[r]))
      BY <2>1, <2>2, <2>3, PrefixFacts DEF Logged
    <2> QED
      BY <1>b, <2>2, <2>4, NextNodeLogged DEF TraceInv
  <1>12. CASE PreArtifact(r)
    <2>1. result'[r] = "None" /\ Logged(r, Len(Order))'
      BY <1>12 DEF PreArtifact, TraceInv, Logged
    <2>2. PICK d \in Decisions(HookContext(r, "PreArtifact")) :
             \/ StopOn(r, d)
             \/ Proceeds(d) /\ CloseWith(r, "Completed", "Completed")
      BY <1>12 DEF PreArtifact
    <2>3. CASE StopOn(r, d)
      BY <1>b, <2>1, <2>3, StopAgrees DEF TraceInv
    <2>4. CASE CloseWith(r, "Completed", "Completed")
      <3>1. /\ pc'[r] = "closing"
            /\ pending'[r] = [status |-> "Completed", result |-> "Completed"]
        BY <1>a, <2>4 DEF CloseWith, Goto
      <3> QED
        BY <1>b, <2>1, <3>1 DEF TraceInv, PendingAgrees
    <2> QED
      BY <2>2, <2>3, <2>4
  <1>13. CASE Close(r)
    <2>1. pc[r] = "closing" /\ PendingAgrees(r)
      BY <1>13 DEF Close, TraceInv
    <2>2. /\ trace'[r] = [status |-> pending[r].status, steps |-> trace[r].steps]
          /\ pc'[r] = "returned" /\ step' = step /\ outputs' = outputs
          /\ result'[r] \in {pending[r].result, "StoreError"}
      BY <1>13, <1>a DEF Close, Return, Goto
    <2>3. CASE result'[r] = "StoreError"
      BY <2>2, <2>3 DEF TraceInv, ResultAgrees
    <2>4. CASE result'[r] = pending[r].result
      <3>1. CASE pending[r].result = "Completed"
        <4>1. pending[r].status = "Completed" /\ trace[r].steps = Order /\ outputs[r] = Nodes
          BY <2>1, <3>1, PrefixFacts DEF PendingAgrees, Logged
        <4> QED
          BY <2>2, <2>4, <3>1, <4>1 DEF TraceInv, ResultAgrees
      <3>2. CASE pending[r].result = "Partial"
        <4>1. /\ pending[r].status = "Partial"
              /\ trace[r].steps = SubSeq(Order, 1, step[r] - 1)
              /\ outputs[r] = Elems(trace[r].steps)
          BY <2>1, <3>2 DEF PendingAgrees, Logged
        <4> QED
          BY <2>2, <2>4, <3>2, <4>1 DEF TraceInv, ResultAgrees
      <3>3. CASE pending[r].result \notin {"Completed", "Partial"}
        <4>1. /\ result'[r] # "Completed" /\ result'[r] # "Partial"
              /\ trace'[r].status = pending[r].status
          BY <2>2, <2>4, <3>3
        <4>2. /\ result'[r] = "PendingApproval" => trace'[r].status = "Partial"
              /\ result'[r] \in {"PolicyViolation", "NodeError", "RolledBack"} =>
                     trace'[r].status = "Failed"
          BY <2>1, <2>4, <4>1 DEF PendingAgrees
        <4> QED
          BY <2>2, <4>1, <4>2 DEF TraceInv, ResultAgrees
      <3> QED
        BY <3>1, <3>2, <3>3
    <2> QED
      BY <2>2, <2>3, <2>4
  <1> QED
    BY <1>1, <1>2, <1>3, <1>4, <1>5, <1>6, <1>7, <1>8, <1>9, <1>10, <1>11, <1>12,
       <1>13 DEF Advance

\* What run() returns and the trace it leaves behind agree, for every graph and
\* however many runs interleave: Completed with a full log, Partial with exactly
\* the steps before the one that exhausted the budget, a failure with a Failed
\* trace and a pause with a Partial one.
THEOREM ResultsMatchTraces == Spec => []ResultMatchesTrace
PROOF
  <1> DEFINE Inv == \A r \in Runs : TraceInv(r)
  <1>1. Init => Inv
    BY DEF Init, TraceInv, ResultAgrees, InLoop
  <1>2. TypeOK /\ Inv /\ [Next]_vars => Inv'
    <2> SUFFICES ASSUME TypeOK, Inv, [Next]_vars PROVE Inv'
      OBVIOUS
    <2>1. CASE UNCHANGED vars
      BY <2>1 DEF vars, locals, shared, TraceInv, ResultAgrees, PendingAgrees, Logged
    <2>2. ASSUME NEW r \in Runs, Start(r) \/ Revoke(r) \/ Advance(r), NEW q \in Runs
          PROVE  TraceInv(q)'
      <3>1. CASE q = r
        BY <2>2, <3>1, TraceStep
      <3>2. CASE q # r
        <4>1. /\ pc'[q] = pc[q] /\ step'[q] = step[q] /\ outputs'[q] = outputs[q]
              /\ pending'[q] = pending[q] /\ result'[q] = result[q]
              /\ trace'[q] = trace[q]
          BY <2>2, <3>2, OthersUnchanged
        <4> QED
          BY <4>1 DEF TraceInv, ResultAgrees, PendingAgrees, Logged
      <3> QED
        BY <3>1, <3>2
    <2> QED
      BY <2>1, <2>2 DEF Next
  <1>3. Inv => ResultMatchesTrace
    BY DEF TraceInv, ResultAgrees, ResultMatchesTrace
  <1> QED
    BY <1>1, <1>2, <1>3, TypeCorrect, PTL DEF Spec
-----------------------------------------------------------------------------
(* Rollback.                                                               *)

\* What Record pushes on the chain.
Undoable(n) == IsWriteNode(n) /\ n \in Compensable

\* The nodes among the first k that can be undone.
UndoableUpTo(k) == {Order[i] : i \in {j \in 1..k : Undoable(Order[j])}}

\* m comes after n in the graph's order.
Later(m, n) == \E a, b \in 1..Len(Order) : a > b /\ m = Order[a] /\ n = Order[b]

Ascending(s) == \A j, k \in 1..Len(s) : j < k => Later(s[k], s[j])
Descending(s) == \A j, k \in 1..Len(s) : j < k => Later(s[j], s[k])

\* The rollback has gone down the order as far as the chain's top.
Unwinding(r) ==
    /\ step[r] \in 1..Len(Order)
    /\ done[r] = SubSeq(Order, 1, step[r] - 1)
    /\ Elems(undone[r]) \cup Elems(chain[r]) = UndoableUpTo(step[r] - 1)
    /\ Ascending(chain[r])
    /\ Descending(undone[r])
    /\ \A m \in Elems(undone[r]), n \in Elems(chain[r]) : Later(m, n)

\* The inductive form of RolledBackIsComplete, for one run outside shadow mode: the
\* chain holds the undoable nodes recorded so far, in order, until the rollback
\* moves them one by one to undone.
RollbackInv(r) ==
    /\ pc[r] # "returned" => result[r] = "None"
    /\ pc[r] = "prePlan" => step[r] = 0 /\ done[r] = <<>> /\ chain[r] = <<>> /\ undone[r] = <<>>
    /\ pc[r] \in InLoop =>
         /\ undone[r] = <<>>
         /\ Elems(chain[r]) = UndoableUpTo(step[r] - 1)
         /\ Ascending(chain[r])
         /\ done[r] = SubSeq(Order, 1, IF pc[r] \in {"preStep", "node"} THEN step[r] - 1
                                                                        ELSE step[r])
    /\ pc[r] = "rollback" => Unwinding(r) /\ chain[r] # <<>>
    /\ \/ pc[r] = "closing" /\ pending[r].result = "RolledBack"
       \/ result[r] = "RolledBack"
       => Unwinding(r) /\ chain[r] = <<>>

\* One more node extends the set of those that can be undone.
LEMMA UndoableGrows ==
    ASSUME NEW k \in 1..Len(Order)
    PROVE  UndoableUpTo(k) = UndoableUpTo(k - 1)
                               \cup (IF Undoable(Order[k]) THEN {Order[k]} ELSE {})
PROOF
  <1>1. Len(Order) \in Nat
    BY OrderFacts
  <1>2. 1..k = 1..(k - 1) \cup {k}
    BY <1>1
  <1> QED
    BY <1>2 DEF UndoableUpTo

\* A node comes after each of those before it, and no node after itself.
LEMMA LaterThanPrefix ==
    ASSUME NEW k \in 1..Len(Order)
    PROVE  \A n \in UndoableUpTo(k - 1) : Later(Order[k], n)
PROOF
  <1>1. Len(Order) \in Nat
    BY OrderFacts
  <1> SUFFICES ASSUME NEW n \in UndoableUpTo(k - 1) PROVE Later(Order[k], n)
    OBVIOUS
  <1>2. PICK i \in 1..(k - 1) : n = Order[i]
    BY DEF UndoableUpTo
  <1>3. i \in 1..Len(Order) /\ k > i
    BY <1>1
  <1> QED
    BY <1>2, <1>3 DEF Later

LEMMA LaterIsStrict == \A m, n : Later(m, n) => m # n
PROOF
  <1>1. Len(Order) \in Nat /\ \A i, j \in 1..Len(Order) : Order[i] = Order[j] => i = j
    BY OrderFacts, GraphAssumption
  <1> QED
    BY <1>1 DEF Later

\* Pushing a later node keeps a sequence ascending; a node that goes below all of
\* its elements keeps it descending.
LEMMA AppendKeepsOrder ==
    ASSUME NEW s \in Seq(Nodes), NEW e \in Nodes
    PROVE  /\ Ascending(s) /\ (\A n \in Elems(s) : Later(e, n)) => Ascending(Append(s, e))
           /\ Descending(s) /\ (\A n \in Elems(s) : Later(n, e)) => Descending(Append(s, e))
PROOF
  <1> DEFINE t == Append(s, e)
  <1>1. /\ Len(s) \in Nat /\ Len(t) = Len(s) + 1 /\ t[Len(s) + 1] = e
        /\ \A i \in 1..Len(s) : t[i] = s[i]
    OBVIOUS
  <1>2. \A i \in 1..Len(s) : s[i] \in Elems(s)
    BY DEF Elems
  <1> HIDE DEF t
  <1>3. ASSUME NEW j \in 1..Len(t), NEW k \in 1..Len(t), j < k
        PROVE  \/ j \in 1..Len(s) /\ k \in 1..Len(s) /\ t[j] = s[j] /\ t[k] = s[k]
               \/ j \in 1..Len(s) /\ t[j] = s[j] /\ t[j] \in Elems(s) /\ t[k] = e
    <2>1. j \in 1..Len(s)
      BY <1>1, <1>3
    <2>2. k \in 1..Len(s) \/ k = Len(s) + 1
      BY <1>1
    <2> QED
      BY <1>1, <1>2, <2>1, <2>2
  <1>4. Ascending(s) /\ (\A n \in Elems(s) : Later(e, n)) => Ascending(t)
    BY <1>3 DEF Ascending
  <1>5. Descending(s) /\ (\A n \in Elems(s) : Later(n, e)) => Descending(t)
    BY <1>3 DEF Descending
  <1> QED
    BY <1>4, <1>5 DEF t

\* The first m elements of a sequence.
LEMMA PrefixIsSeq ==
    ASSUME NEW s \in Seq(Nodes), NEW m \in 0..Len(s)
    PROVE  /\ SubSeq(s, 1, m) \in Seq(Nodes) /\ Len(SubSeq(s, 1, m)) = m
           /\ \A i \in 1..m : SubSeq(s, 1, m)[i] = s[i]
PROOF OBVIOUS

\* Popping the chain takes its latest node.
LEMMA PopTakesLatest ==
    ASSUME NEW s \in Seq(Nodes), s # <<>>, Ascending(s)
    PROVE  LET top  == s[Len(s)]
               rest == SubSeq(s, 1, Len(s) - 1)
           IN  /\ rest \in Seq(Nodes) /\ top \in Nodes
               /\ Elems(s) = Elems(rest) \cup {top}
               /\ Ascending(rest)
               /\ \A n \in Elems(rest) : Later(top, n)
PROOF
  <1> DEFINE top  == s[Len(s)]
             rest == SubSeq(s, 1, Len(s) - 1)
  <1>0. Len(s) \in Nat /\ Len(s) # 0
    OBVIOUS
  <1>1. /\ Len(s) \in Nat \ {0} /\ rest \in Seq(Nodes) /\ top \in Nodes
        /\ Len(rest) = Len(s) - 1
        /\ \A i \in 1..(Len(s) - 1) : rest[i] = s[i]
    <2>0. Len(s) - 1 \in 0..Len(s)
      BY <1>0
    <2>1. rest \in Seq(Nodes) /\ Len(rest) = Len(s) - 1
      BY <2>0, PrefixIsSeq
    <2>2. \A i \in 1..(Len(s) - 1) : rest[i] = s[i]
      BY <2>0, PrefixIsSeq
    <2>3. top \in Nodes
      BY <1>0
    <2> QED
      BY <1>0, <2>1, <2>2, <2>3
  <1> HIDE DEF rest
  <1>2. 1..Len(s) = 1..Len(rest) \cup {Len(s)}
    BY <1>1
  <1>3. \A i \in 1..Len(rest) : rest[i] = s[i] /\ i \in 1..Len(s) /\ i < Len(s)
    BY <1>1
  <1>4. Elems(s) = Elems(rest) \cup {top}
    BY <1>2, <1>3 DEF Elems
  <1>5. Ascending(rest)
    BY <1>3 DEF Ascending
  <1>6. \A n \in Elems(rest) : Later(top, n)
    BY <1>1, <1>3 DEF Ascending, Elems
  <1> QED
    BY <1>1, <1>4, <1>5, <1>6 DEF rest

\* One turn of the rollback moves the chain's top to undone.
LEMMA CompensateKeeps ==
    ASSUME TypeOK, NEW r \in Runs, RollbackInv(r), Compensate(r)
    PROVE  RollbackInv(r)'
PROOF
  <1> USE DEF locals, shared, history, InLoop
  <1> DEFINE top  == chain[r][Len(chain[r])]
             rest == SubSeq(chain[r], 1, Len(chain[r]) - 1)
  <1>1. /\ pc \in [Runs -> PcValues] /\ result \in [Runs -> Results]
        /\ chain \in [Runs -> Seq(Nodes)] /\ undone \in [Runs -> Seq(Nodes)]
    BY DEF TypeOK
  <1>2. pc[r] = "rollback" /\ chain[r] # <<>> /\ Unwinding(r) /\ result[r] = "None"
    BY DEF Compensate, RollbackInv
  <1>3. /\ chain'[r] = rest /\ step' = step /\ done' = done /\ pending' = pending
    BY <1>1 DEF Compensate
  <1>4. /\ rest \in Seq(Nodes) /\ top \in Nodes
        /\ Elems(chain[r]) = Elems(rest) \cup {top}
        /\ Ascending(rest) /\ \A n \in Elems(rest) : Later(top, n)
    BY <1>1, <1>2, PopTakesLatest DEF Unwinding
  <1>5. \/ /\ undone'[r] = Append(undone[r], top) /\ result' = result
           /\ pc'[r] = IF rest = <<>> THEN "closing" ELSE "rollback"
        \/ pc'[r] = "returned" /\ result'[r] = "CompensationFailed"
    BY <1>1 DEF Compensate, Return, Goto
  <1> HIDE DEF top, rest
  <1>6. CASE pc'[r] = "returned" /\ result'[r] = "CompensationFailed"
    BY <1>6 DEF RollbackInv
  <1>7. CASE /\ undone'[r] = Append(undone[r], top) /\ result' = result
             /\ pc'[r] = IF rest = <<>> THEN "closing" ELSE "rollback"
    <2>1. \A m \in Elems(undone[r]) : Later(m, top)
      BY <1>2, <1>4 DEF Unwinding
    <2>2. Elems(undone'[r]) = Elems(undone[r]) \cup {top} /\ Descending(undone'[r])
      BY <1>1, <1>2, <1>4, <1>7, <2>1, ElemsAppend, AppendKeepsOrder DEF Unwinding
    <2>3. \A m \in Elems(undone'[r]), n \in Elems(rest) : Later(m, n)
      BY <1>2, <1>4, <2>2 DEF Unwinding
    <2>4. Elems(undone'[r]) \cup Elems(rest) = UndoableUpTo(step[r] - 1)
      BY <1>2, <1>4, <2>2 DEF Unwinding
    <2>5. Unwinding(r)'
      BY <1>2, <1>3, <1>4, <2>2, <2>3, <2>4 DEF Unwinding
    <2> QED
      BY <1>2, <1>3, <1>7, <2>5 DEF RollbackInv
  <1> QED
    BY <1>5, <1>6, <1>7

\* A recorded node that can be undone goes on the chain.
LEMMA RecordCollects ==
    ASSUME TypeOK, NEW r \in Runs, RollbackInv(r), Record(r)
    PROVE  RollbackInv(r)'
PROOF
  <1> USE DEF locals, shared, history, InLoop
  <1> DEFINE k == step[r]
             e == Order[k]
  <1>1. /\ pc \in [Runs -> PcValues] /\ chain \in [Runs -> Seq(Nodes)]
        /\ step \in [Runs -> 0..Len(Order)] /\ Len(Order) \in Nat
    BY OrderFacts DEF TypeOK
  <1>2. /\ pc[r] = "record" /\ undone[r] = <<>> /\ done[r] = SubSeq(Order, 1, k)
        /\ Elems(chain[r]) = UndoableUpTo(k - 1) /\ Ascending(chain[r])
        /\ result[r] = "None"
    BY DEF Record, RollbackInv
  <1>3. k \in 1..Len(Order) /\ e \in Nodes
    BY <1>1, <1>2, OrderFacts DEF TypeOK
  <1>4. /\ chain'[r] = IF Undoable(e) THEN Append(chain[r], e) ELSE chain[r]
        /\ undone' = undone /\ done' = done /\ result' = result /\ NextNode(r)
    BY <1>1 DEF Record, Current, Undoable
  <1> HIDE DEF e
  <1>5. Elems(chain'[r]) = UndoableUpTo(k) /\ Ascending(chain'[r])
    <2>1. UndoableUpTo(k) = UndoableUpTo(k - 1) \cup (IF Undoable(e) THEN {e} ELSE {})
      BY <1>3, UndoableGrows DEF e
    <2>2. \A n \in Elems(chain[r]) : Later(e, n)
      BY <1>2, <1>3, LaterThanPrefix DEF e
    <2>3. CASE Undoable(e)
      BY <1>1, <1>2, <1>3, <1>4, <2>1, <2>2, <2>3, ElemsAppend, AppendKeepsOrder
    <2>4. CASE ~ Undoable(e)
      BY <1>2, <1>4, <2>1, <2>4
    <2> QED
      BY <2>3, <2>4
  <1>6. CASE k < Len(Order)
    <2>1. pc'[r] = "preStep" /\ step'[r] = k + 1
      BY <1>1, <1>4, <1>6 DEF NextNode, Goto
    <2>2. step'[r] - 1 = k
      BY <1>3, <2>1
    <2> QED
      BY <1>2, <1>4, <1>5, <2>1, <2>2 DEF RollbackInv
  <1>7. CASE ~ (k < Len(Order))
    <2>1. pc'[r] = "preArtifact"
      BY <1>1, <1>4, <1>7 DEF NextNode, Goto
    <2> QED
      BY <1>2, <1>4, <2>1 DEF RollbackInv
  <1> QED
    BY <1>6, <1>7

\* Every step of a run preserves its invariant.
LEMMA RollbackStep ==
    ASSUME TypeOK, NEW r \in Runs, RollbackInv(r), ~ shadow, Start(r) \/ Revoke(r) \/ Advance(r)
    PROVE  RollbackInv(r)'
PROOF
  <1> USE DEF locals, shared, history, InLoop
  <1>a. /\ pc \in [Runs -> PcValues] /\ result \in [Runs -> Results]
        /\ step \in [Runs -> 0..Len(Order)] /\ done \in [Runs -> Seq(Nodes)]
        /\ pending \in [Runs -> [status : Terminal, result : Results]]
        /\ chain \in [Runs -> Seq(Nodes)] /\ undone \in [Runs -> Seq(Nodes)]
        /\ Len(Order) \in Nat /\ Len(Order) > 0
    BY OrderFacts DEF TypeOK
  \* A run that is stopped with any other outcome owes nothing.
  <1>b. ASSUME pc'[r] = "closing", pending'[r].result # "RolledBack", result'[r] = "None"
        PROVE  RollbackInv(r)'
    BY <1>b DEF RollbackInv
  <1>c. ASSUME NEW d, StopOn(r, d)
        PROVE  pc'[r] = "closing" /\ pending'[r].result # "RolledBack"
    BY <1>c, <1>a DEF StopOn, CloseWith, Goto
  \* A step inside the loop that completes no node.
  <1>d. ASSUME pc[r] \in InLoop, pc'[r] \in InLoop,
               pc[r] \in {"preStep", "node"} <=> pc'[r] \in {"preStep", "node"},
               UNCHANGED <<step, chain, done, undone, result>>
        PROVE  RollbackInv(r)'
    BY <1>d DEF RollbackInv
  <1>1. CASE Start(r)
    <2>1. step'[r] = 0 /\ done'[r] = <<>> /\ chain'[r] = <<>> /\ undone'[r] = <<>>
      BY <1>1, <1>a DEF Start
    <2>2. \/ pc'[r] = "returned" /\ result'[r] = "Revoked"
          \/ pc'[r] = "prePlan" /\ result'[r] = "None"
      BY <1>1, <1>a DEF Start, Return, Goto
    <2> QED
      BY <2>1, <2>2 DEF RollbackInv
  <1>2. CASE Revoke(r)
    BY <1>2 DEF Revoke, RollbackInv, Unwinding
  <1>3. CASE PrePlan(r)
    <2>1. /\ step[r] = 0 /\ done'[r] = <<>> /\ chain'[r] = <<>> /\ undone'[r] = <<>>
          /\ result'[r] = "None"
      BY <1>3 DEF PrePlan, RollbackInv
    <2>2. PICK d \in Decisions(PrePlanContext(r)) :
             \/ StopOn(r, d) /\ UNCHANGED step
             \/ Proceeds(d) /\ NextNode(r) /\ UNCHANGED pending
      BY <1>3 DEF PrePlan
    <2>3. CASE StopOn(r, d)
      BY <1>b, <1>c, <2>1, <2>3
    <2>4. CASE NextNode(r)
      <3>1. pc'[r] = "preStep" /\ step'[r] = 1
        BY <1>a, <2>1, <2>4 DEF NextNode, Goto
      <3>2. UndoableUpTo(0) = {} /\ Elems(<<>>) = {} /\ Ascending(<<>>)
        BY ElemsEmpty DEF UndoableUpTo, Ascending
      <3>3. step'[r] - 1 = 0 /\ SubSeq(Order, 1, 0) = <<>>
        BY <3>1, PrefixFacts
      <3> QED
        BY <2>1, <3>1, <3>2, <3>3 DEF RollbackInv
    <2> QED
      BY <2>2, <2>3, <2>4
  <1>4. CASE OpenFails(r) \/ RecordFails(r)
    <2>1. pc'[r] = "returned" /\ result'[r] = "StoreError"
      BY <1>4, <1>a DEF OpenFails, RecordFails, Return, Goto
    <2> QED
      BY <2>1 DEF RollbackInv
  <1>5. CASE PreStep(r)
    <2>1. /\ pc[r] = "preStep" /\ result'[r] = "None"
          /\ UNCHANGED <<step, chain, done, undone, result>>
      BY <1>5 DEF PreStep, RollbackInv
    <2>2. PICK d \in Decisions(PreStepContext(r)) : StopOn(r, d) \/ Goto(r, "node")
      BY <1>5 DEF PreStep
    <2>3. CASE StopOn(r, d)
      BY <1>b, <1>c, <2>1, <2>3
    <2>4. CASE Goto(r, "node")
      <3>1. pc'[r] = "node"
        BY <1>a, <2>4 DEF Goto
      <3> QED
        BY <1>d, <2>1, <3>1
    <2> QED
      BY <2>2, <2>3, <2>4
  <1>6. CASE NodeOk(r)
    <2>1. /\ pc[r] = "node" /\ pc'[r] = "charge" /\ UNCHANGED <<step, chain, undone, result>>
          /\ done'[r] = Append(done[r], Order[step[r]])
      BY <1>6, <1>a DEF NodeOk, Goto, Current
    <2>2. step[r] \in 1..Len(Order) /\ done[r] = SubSeq(Order, 1, step[r] - 1)
      BY <1>a, <2>1 DEF RollbackInv, TypeOK
    <2>3. done'[r] = SubSeq(Order, 1, step[r])
      BY <2>1, <2>2, PrefixFacts
    <2> QED
      BY <2>1, <2>3 DEF RollbackInv
  <1>7. CASE NodeErr(r)
    <2>1. /\ pc[r] = "node" /\ result'[r] = "None"
          /\ UNCHANGED <<step, chain, done, undone, result>>
      BY <1>7 DEF NodeErr, RollbackInv
    <2>2. CASE chain[r] = <<>>
      <3>1. pc'[r] = "closing" /\ pending'[r].result = "NodeError"
        BY <1>7, <1>a, <2>2 DEF NodeErr, CloseWith, Goto
      <3> QED
        BY <1>b, <2>1, <3>1
    <2>3. CASE chain[r] # <<>>
      <3>1. pc'[r] = "rollback"
        BY <1>7, <1>a, <2>3 DEF NodeErr, Goto
      <3>2. step[r] \in 1..Len(Order)
        BY <1>a, <2>1 DEF TypeOK
      <3>3. Elems(undone[r]) = {} /\ Descending(undone[r])
        BY <2>1, ElemsEmpty DEF RollbackInv, Descending
      <3>4. Unwinding(r)'
        BY <2>1, <3>2, <3>3 DEF RollbackInv, Unwinding
      <3> QED
        BY <2>1, <2>3, <3>1, <3>4 DEF RollbackInv
    <2> QED
      BY <2>2, <2>3
  <1>8. CASE ChargeBudget(r)
    <2>1. /\ pc[r] = "charge" /\ result'[r] = "None"
          /\ UNCHANGED <<step, chain, done, undone, result>>
      BY <1>8 DEF ChargeBudget, RollbackInv
    <2>2. \/ pc'[r] = "postStep"
          \/ pc'[r] = "closing" /\ pending'[r].result = "Partial"
      BY <1>8, <1>a DEF ChargeBudget, CloseWith, Goto
    <2> QED
      BY <1>b, <1>d, <2>1, <2>2
  <1>9. CASE PostStep(r)
    <2>1. /\ pc[r] = "postStep" /\ result'[r] = "None"
          /\ UNCHANGED <<step, chain, done, undone, result>>
      BY <1>9 DEF PostStep, RollbackInv
    <2>2. PICK d \in Decisions(PostStepContext(r)) : StopOn(r, d) \/ Goto(r, "record")
      BY <1>9 DEF PostStep
    <2>3. CASE StopOn(r, d)
      BY <1>b, <1>c, <2>1, <2>3
    <2>4. CASE Goto(r, "record")
      <3>1. pc'[r] = "record"
        BY <1>a, <2>4 DEF Goto
      <3> QED
        BY <1>d, <2>1, <3>1
    <2> QED
      BY <2>2, <2>3, <2>4
  <1>10. CASE PreArtifact(r)
    <2>1. result'[r] = "None"
      BY <1>10 DEF PreArtifact, RollbackInv
    <2>2. PICK d \in Decisions(HookContext(r, "PreArtifact")) :
             StopOn(r, d) \/ CloseWith(r, "Completed", "Completed")
      BY <1>10 DEF PreArtifact
    <2>3. CASE StopOn(r, d)
      BY <1>b, <1>c, <2>1, <2>3
    <2>4. CASE CloseWith(r, "Completed", "Completed")
      BY <1>a, <1>b, <2>1, <2>4 DEF CloseWith, Goto
    <2> QED
      BY <2>2, <2>3, <2>4
  <1>11. CASE Close(r)
    <2>1. /\ pc[r] = "closing" /\ pc'[r] = "returned"
          /\ UNCHANGED <<step, chain, done, undone, pending>>
          /\ result'[r] \in {pending[r].result, "StoreError"}
      BY <1>11, <1>a DEF Close, Return, Goto
    <2> QED
      BY <2>1 DEF RollbackInv, Unwinding
  <1> QED
    BY <1>1, <1>2, <1>3, <1>4, <1>5, <1>6, <1>7, <1>8, <1>9, <1>10, <1>11,
       CompensateKeeps, RecordCollects DEF Advance, ShadowNode

\* The drained chain is what RolledBackIsComplete asks for.
LEMMA UnwoundIsComplete ==
    ASSUME NEW r \in Runs, Unwinding(r), chain[r] = <<>>
    PROVE  LET writes == {i \in 1..Len(done[r]) :
                             IsWriteNode(done[r][i]) /\ done[r][i] \in Compensable}
           IN  /\ Elems(undone[r]) = {done[r][i] : i \in writes}
               /\ \A j, k \in 1..Len(undone[r]) : j < k =>
                     /\ undone[r][j] # undone[r][k]
                     /\ \E a, b \in writes :
                           a > b /\ undone[r][j] = done[r][a] /\ undone[r][k] = done[r][b]
PROOF
  <1> DEFINE n == step[r] - 1
             writes == {i \in 1..Len(done[r]) :
                           IsWriteNode(done[r][i]) /\ done[r][i] \in Compensable}
  <1>1. Len(Order) \in Nat /\ step[r] \in 1..Len(Order) /\ Order \in Seq(Nodes)
    BY OrderFacts DEF Unwinding
  <1>2. n \in 0..Len(Order)
    BY <1>1
  <1>3. Len(done[r]) = n /\ \A i \in 1..n : done[r][i] = Order[i]
    BY <1>1, <1>2, PrefixIsSeq DEF Unwinding
  <1> HIDE DEF n
  <1>4. writes = {i \in 1..n : Undoable(Order[i])}
    BY <1>3 DEF Undoable
  <1>5. Elems(undone[r]) = UndoableUpTo(n)
    BY ElemsEmpty DEF Unwinding, n
  <1>6. Elems(undone[r]) = {done[r][i] : i \in writes}
    BY <1>3, <1>4, <1>5 DEF UndoableUpTo
  <1>7. ASSUME NEW j \in 1..Len(undone[r]), NEW k \in 1..Len(undone[r]), j < k
        PROVE  /\ undone[r][j] # undone[r][k]
               /\ \E a, b \in writes :
                     a > b /\ undone[r][j] = done[r][a] /\ undone[r][k] = done[r][b]
    <2>1. Later(undone[r][j], undone[r][k])
      BY <1>7 DEF Unwinding, Descending
    <2>2. PICK a \in 1..Len(Order), b \in 1..Len(Order) :
             a > b /\ undone[r][j] = Order[a] /\ undone[r][k] = Order[b]
      BY <2>1 DEF Later
    <2>3. undone[r][j] \in UndoableUpTo(n) /\ undone[r][k] \in UndoableUpTo(n)
      BY <1>5 DEF Elems
    <2>4. \A i, h \in 1..Len(Order) : Order[i] = Order[h] => i = h
      BY GraphAssumption
    <2>5. a \in writes /\ b \in writes
      BY <1>1, <1>2, <1>4, <2>2, <2>3, <2>4 DEF UndoableUpTo
    <2>6. undone[r][j] = done[r][a] /\ undone[r][k] = done[r][b]
      BY <1>3, <1>4, <2>2, <2>5
    <2> QED
      BY <2>1, <2>2, <2>5, <2>6, LaterIsStrict
  <1> QED
    BY <1>6, <1>7

\* RolledBack is returned only when every completed write with a compensator was
\* undone once, the latest first (CompensationChain::rollback), for every graph
\* and however the runs interleave.
THEOREM RollbacksAreComplete == Spec => []RolledBackIsComplete
PROOF
  <1> DEFINE Inv == ~ shadow => \A r \in Runs : RollbackInv(r)
  <1>1. Init => Inv
    BY DEF Init, RollbackInv, InLoop
  <1>2. TypeOK /\ Inv /\ [Next]_vars => Inv'
    <2> SUFFICES ASSUME TypeOK, Inv, [Next]_vars PROVE Inv'
      OBVIOUS
    <2>1. CASE UNCHANGED vars
      BY <2>1 DEF vars, locals, history, RollbackInv, Unwinding
    <2>2. ASSUME NEW r \in Runs, Start(r) \/ Revoke(r) \/ Advance(r), NEW q \in Runs, ~ shadow'
          PROVE  RollbackInv(q)'
      <3>0. ~ shadow /\ RollbackInv(q) /\ RollbackInv(r)
        BY <2>2, ModeIsFixed
      <3>1. CASE q = r
        BY <2>2, <3>0, <3>1, RollbackStep
      <3>2. CASE q # r
        <4>1. /\ pc'[q] = pc[q] /\ step'[q] = step[q] /\ pending'[q] = pending[q]
              /\ result'[q] = result[q] /\ done'[q] = done[q] /\ chain'[q] = chain[q]
              /\ undone'[q] = undone[q]
          BY <2>2, <3>2, OthersUnchanged
        <4> QED
          BY <3>0, <4>1 DEF RollbackInv, Unwinding
      <3> QED
        BY <3>1, <3>2
    <2> QED
      BY <2>1, <2>2 DEF Next
  <1>3. Inv => RolledBackIsComplete
    BY UnwoundIsComplete DEF RollbackInv, RolledBackIsComplete
  <1> QED
    BY <1>1, <1>2, <1>3, TypeCorrect, PTL DEF Spec
=============================================================================
