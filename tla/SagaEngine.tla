----------------------------- MODULE SagaEngine -----------------------------
(***************************************************************************)
(* SagaExecutor::run (aaf-saga) driven through the RegistryBridge: steps   *)
(* run in order, a tagged failure is analysed against the step's recovery  *)
(* rules, and the selected recovery compensates, pauses, retries or skips. *)
(* Capabilities may be deregistered while the saga runs.                   *)
(***************************************************************************)
EXTENDS Integers, Sequences, FiniteSets, Functions

CONSTANTS
    Steps,          \* def.steps: a sequence of SagaStep records
    Tags,           \* failure tags an invoker may report
    MaxRuns         \* bound: calls of run()

Actions == {"PauseAndAskUser", "RetryWithAlternative", "PartialCompensation",
            "FullCompensation", "Skip"}
CompensationTypes == {"Mandatory", "BestEffort", "None"}

\* A label of RecoveryRule.preserve: a step number written as a plain decimal, or
\* with a prefix as in "step-1".
Labels == [number : Nat, plain : BOOLEAN]

\* A step: its number, whether it names a compensation, how binding that is, and
\* the rules of on_failure (none when absent), each with condition, action and
\* preserve. The capability of a step is identified with its position.
SagaSteps == [step : Nat, compensation : BOOLEAN, compensation_type : CompensationTypes,
              rules : Seq([condition : STRING, action : Actions, preserve : SUBSET Labels])]

ASSUME SagaAssumption ==
    /\ MaxRuns \in Nat \ {0}
    /\ Len(Steps) \in Nat /\ DOMAIN Steps = 1..Len(Steps)
    /\ \A i \in DOMAIN Steps :
        /\ Steps[i].step \in Nat
        /\ Steps[i].compensation \in BOOLEAN
        /\ Steps[i].compensation_type \in CompensationTypes
        /\ \A k \in DOMAIN Steps[i].rules :
            /\ Steps[i].rules[k].action \in Actions
            /\ Steps[i].rules[k].preserve \subseteq Labels

VARIABLES
    state,         \* SagaExecutor.state, publicly observable
    pc,            \* "new", "resolve", "invoke", "compensating", "ended"
    at,            \* index of the step being run
    retried,       \* whether this step is in its RetryWithAlternative rerun
    completed,     \* numbers of the completed steps, in order
    action,        \* the selected recovery action, "None" before a failure
    preserve,      \* the labels of the selected rule's preserve
    left,          \* how many entries of completed are still to be rolled back
    compensated,   \* the vectors of SagaOutcome::Failed
    preserved,
    outcome,       \* "None", "Completed", "Failed", "PendingUser", "Error"
    known,         \* indices of the steps whose capability is registered
    runs,          \* calls of run() on this saga
    standing,      \* history: index -> effects of the step that stand, over all runs
    applied,       \* history of this run: indices whose capability succeeded
    undone,        \* history of this run: indices whose compensation succeeded, in order
    unrepaired     \* history of this run: indices whose best-effort compensation failed

recovery == <<action, preserve, left, compensated, preserved>>
history == <<runs, standing, applied, undone, unrepaired>>
vars == <<state, pc, at, retried, completed, recovery, outcome, known, history>>

Indices == DOMAIN Steps
Numbers == {Steps[i].step : i \in Indices}

States == {"Initiated", "Running", "StepFailed", "Analyzing", "RecoverySelected",
           "PartialCompensation", "WaitingForInput", "Resumed", "FullCompensation",
           "Failed", "Completed"}

-----------------------------------------------------------------------------
(* Recovery selection.                                                     *)

Fallback == [action |-> "FullCompensation", preserve |-> {}]

\* decide(): the first rule whose condition is the tag, verbatim, or else the
\* fallback, which preserves nothing.
Decide(tag, rules) ==
    LET matching == {k \in DOMAIN rules : rules[k].condition = tag}
    IN  IF matching = {} THEN Fallback
        ELSE LET k == CHOOSE k \in matching : \A m \in matching : k <= m
             IN  [action |-> rules[k].action, preserve |-> rules[k].preserve]

\* filter_map(parse::<u32>().ok()): a label that is not a plain number is dropped.
Parse(labels) == {l.number : l \in {m \in labels : m.plain}}

\* def.steps.iter().find(|s| s.step == done): the first step with that number.
Find(number) ==
    CHOOSE i \in Indices : /\ Steps[i].step = number
                           /\ \A j \in Indices : Steps[j].step = number => i <= j

-----------------------------------------------------------------------------
Init ==
    /\ state = "Initiated" /\ pc = "new" /\ at = 1 /\ retried = FALSE
    /\ completed = <<>>
    /\ action = "None" /\ preserve = {} /\ left = 0
    /\ compensated = <<>> /\ preserved = <<>>
    /\ outcome = "None"
    /\ known = Indices
    /\ runs = 1 /\ standing = [i \in Indices |-> 0]
    /\ applied = {} /\ undone = <<>> /\ unrepaired = {}

\* Control moves to the step at index i, or out of the loop.
Goto(i) ==
    /\ at' = i
    /\ retried' = FALSE
    /\ IF i <= Len(Steps)
       THEN pc' = "resolve" /\ UNCHANGED <<state, outcome>>
       ELSE pc' = "ended" /\ state' = "Completed" /\ outcome' = "Completed"

End(s, o) == pc' = "ended" /\ state' = s /\ outcome' = o

\* A saga without steps is completed at once.
Start ==
    /\ pc = "new"
    /\ IF Steps = <<>> THEN End("Completed", "Completed")
       ELSE state' = "Running" /\ pc' = "resolve" /\ UNCHANGED outcome
    /\ UNCHANGED <<at, retried, completed, recovery, known, history>>

\* run() again on a saga that waits for the user: nothing was kept but the
\* state, so the saga begins with its first step.
RunAgain ==
    /\ pc = "ended" /\ outcome = "PendingUser" /\ runs < MaxRuns
    /\ runs' = runs + 1
    /\ state' = "Running" /\ pc' = "resolve" /\ at' = 1 /\ retried' = FALSE
    /\ completed' = <<>> /\ outcome' = "None"
    /\ action' = "None" /\ preserve' = {} /\ left' = 0
    /\ compensated' = <<>> /\ preserved' = <<>>
    /\ applied' = {} /\ undone' = <<>> /\ unrepaired' = {}
    /\ UNCHANGED <<known, standing>>

\* A step failed with this tag: analysis, selection and the start of the recovery
\* are one stretch of code. A failure of the rerun ends the saga whatever its tag.
StepFailed(tag) ==
    LET d == Decide(tag, Steps[at].rules)
    IN  IF retried
        THEN /\ End("Failed", "Failed")
             /\ UNCHANGED <<at, retried, recovery>>
        ELSE /\ action' = d.action
             /\ preserve' = d.preserve
             /\ UNCHANGED <<compensated, preserved>>
             /\ \/ /\ d.action \in {"FullCompensation", "PartialCompensation"}
                   /\ IF completed = <<>>
                      THEN End("Failed", "Failed") /\ UNCHANGED left
                      ELSE /\ pc' = "compensating" /\ state' = d.action
                           /\ left' = Len(completed)
                           /\ UNCHANGED outcome
                   /\ UNCHANGED <<at, retried>>
                \/ /\ d.action = "PauseAndAskUser"
                   /\ End("WaitingForInput", "PendingUser")
                   /\ UNCHANGED <<at, retried, left>>
                \/ /\ d.action = "RetryWithAlternative"
                   /\ retried' = TRUE /\ pc' = "resolve" /\ state' = "RecoverySelected"
                   /\ UNCHANGED <<at, left, outcome>>
                \/ /\ d.action = "Skip"
                   /\ at' = at + 1 /\ retried' = FALSE
                   /\ IF at < Len(Steps)
                      THEN pc' = "resolve" /\ state' = "RecoverySelected"
                           /\ UNCHANGED outcome
                      ELSE End("Completed", "Completed")
                   /\ UNCHANGED left

\* step_runner, first await: the registry is asked when the step runs.
Resolve ==
    /\ pc = "resolve"
    /\ IF at \in known
       THEN /\ pc' = "invoke"
            /\ UNCHANGED <<state, at, retried, recovery, outcome>>
       ELSE StepFailed("unknown_capability")
    /\ UNCHANGED <<completed, known, history>>

\* step_runner, second await: the invoker succeeds ...
InvokeOk ==
    /\ pc = "invoke"
    /\ completed' = Append(completed, Steps[at].step)
    /\ applied' = applied \cup {at}
    /\ standing' = [standing EXCEPT ![at] = @ + 1]
    /\ Goto(at + 1)
    /\ UNCHANGED <<recovery, known, runs, undone, unrepaired>>

\* Mutant: a failed rerun is rerun again.
InvokeFailed_Forever ==
    /\ pc = "invoke"
    /\ IF retried
       THEN pc' = "resolve" /\ UNCHANGED <<state, at, retried, recovery, outcome>>
       ELSE \E tag \in Tags : StepFailed(tag)
    /\ UNCHANGED <<completed, known, history>>

\* ... or reports a tagged failure.
InvokeFailed ==
    /\ pc = "invoke"
    /\ \E tag \in Tags : StepFailed(tag)
    /\ UNCHANGED <<completed, known, history>>

\* One turn of the rollback loop over completed.iter().rev().
AfterTurn ==
    /\ left' = left - 1
    /\ IF left = 1 THEN End("Failed", "Failed")
       ELSE UNCHANGED <<pc, state, outcome>>

Kept(number) == action = "PartialCompensation" /\ number \in Parse(preserve)

\* Mutant: a preserved step is left out of the outcome.
Preserve_Unlisted ==
    /\ pc = "compensating"
    /\ Kept(completed[left])
    /\ AfterTurn
    /\ UNCHANGED <<at, retried, completed, action, preserve, compensated, preserved,
                   known, history>>

Preserve ==
    /\ pc = "compensating"
    /\ Kept(completed[left])
    /\ preserved' = Append(preserved, completed[left])
    /\ AfterTurn
    /\ UNCHANGED <<at, retried, completed, action, preserve, compensated, known,
                   history>>

\* The compensator of a step succeeds, or it has none.
Undo(number) ==
    LET i == Find(number)
    IN  /\ compensated' = Append(compensated, number)
        /\ undone' = IF Steps[i].compensation THEN Append(undone, i) ELSE undone
        /\ standing' = IF Steps[i].compensation THEN [standing EXCEPT ![i] = @ - 1] ELSE standing

\* Mutant: the rollback walks the completed steps forwards.
CompensateOk_Forwards ==
    LET number == completed[Len(completed) + 1 - left]
    IN  /\ pc = "compensating"
        /\ ~ Kept(number)
        /\ Undo(number)
        /\ AfterTurn
        /\ UNCHANGED <<at, retried, completed, action, preserve, preserved, known,
                       runs, applied, unrepaired>>

CompensateOk ==
    LET number == completed[left]
    IN  /\ pc = "compensating"
        /\ ~ Kept(number)
        /\ Undo(number)
        /\ AfterTurn
        /\ UNCHANGED <<at, retried, completed, action, preserve, preserved, known,
                       runs, applied, unrepaired>>

\* The compensation fails: mandatory ends run() with an error, in the state it
\* was in; best-effort goes on and the step is in neither vector.
CompensateFails ==
    LET number == completed[left]
    IN  /\ pc = "compensating"
        /\ ~ Kept(number)
        /\ Steps[Find(number)].compensation
        /\ IF Steps[Find(number)].compensation_type = "Mandatory"
           THEN /\ pc' = "ended" /\ outcome' = "Error"
                /\ UNCHANGED <<state, left, unrepaired>>
           ELSE /\ unrepaired' = unrepaired \cup {Find(number)}
                /\ AfterTurn
        /\ UNCHANGED <<at, retried, completed, action, preserve, compensated,
                       preserved, known, runs, standing, applied, undone>>

\* Another party deregisters a capability while the saga is running.
Deregister ==
    /\ \E i \in known : known' = known \ {i}
    /\ UNCHANGED <<state, pc, at, retried, completed, recovery, outcome, history>>

Advance == Start \/ Resolve \/ InvokeOk \/ InvokeFailed \/ Preserve
           \/ CompensateOk \/ CompensateFails

Next == Advance \/ RunAgain \/ Deregister

\* run() is a loop on the caller's thread, its closures being assumed to return.
Spec == Init /\ [][Next]_vars /\ WF_vars(Advance)

-----------------------------------------------------------------------------
(* Properties.                                                             *)

\* Nothing makes the numbers of the steps differ, and the rollback finds a step by
\* its number: what it undoes is only clear for a saga where they do.
UniqueNumbers == \A i, j \in Indices : Steps[i].step = Steps[j].step => i = j

\* After a compensating recovery every completed step is accounted for exactly
\* once: rolled back, preserved, or a best-effort compensation that failed.  The
\* effects agree: without a pause a step has one effect if it was completed and
\* not rolled back, else none, a failed rerun included; only run() on a saga that
\* waits for the user, which begins anew, can add a second.
EveryStepAccounted ==
    LET failed == {Steps[i].step : i \in unrepaired}
    IN  UniqueNumbers =>
        /\ outcome = "Failed" /\ action \in {"FullCompensation", "PartialCompensation"} =>
             /\ Range(completed) = Range(compensated) \cup Range(preserved) \cup failed
             /\ Len(completed) =
                    Len(compensated) + Len(preserved) + Cardinality(failed)
        /\ \A i \in Indices :
             LET now == IF i \in applied \ Range(undone) THEN 1 ELSE 0
             IN  /\ standing[i] \in now..(runs - 1 + now)
                 /\ Steps[i].step \in Range(preserved) => now = 1

\* Compensations run at most once each, latest step first, and only for steps
\* whose capability succeeded.  One that fails ends the rollback with an error
\* only if it is mandatory, and nothing at or before that step is undone; a saga
\* that completed or waits for the user has undone nothing.
UndoneInReverse ==
    UniqueNumbers =>
        /\ Range(undone) \subseteq applied
        /\ \A j, k \in DOMAIN undone : j < k => undone[j] > undone[k]
        /\ outcome = "Error" =>
             LET stuck == Find(completed[left])
             IN  /\ Steps[stuck].compensation_type = "Mandatory"
                 /\ \A i \in Range(undone) : i > stuck
        /\ outcome \in {"PendingUser", "Completed"} => undone = <<>>

\* run() returns, the first time and after a pause, whatever is deregistered.
SagaEnds == pc = "resolve" ~> pc = "ended"

=============================================================================
