---------------------------- MODULE TaskLifecycle ----------------------------
(* The life cycle of a task as the contracts crate draws it: which state may  *)
(* follow which.  It is the abstract specification that the action proposals  *)
(* of the surface crate are shown to implement.                               *)
CONSTANT Tasks
VARIABLE task

TaskStates ==
    {"Proposed", "WaitingForContext", "Ready", "Running", "PausedForApproval", "Blocked",
     "Analyzing", "Recovering", "Completed", "Failed", "Cancelled", "Compensated",
     "ProposedMutation", "AppReview", "Accepted", "Rejected", "Transformed", "Expired"}

\* TaskState::can_transition_to
CanTransition ==
    {<<"WaitingForContext", "Ready">>, <<"PausedForApproval", "Cancelled">>,
     <<"Failed", "Analyzing">>, <<"Analyzing", "Recovering">>, <<"ProposedMutation", "AppReview">>}
    \union {"Proposed"} \X {"WaitingForContext", "Ready", "ProposedMutation"}
    \union {"Ready", "Blocked", "PausedForApproval", "Accepted", "Transformed"} \X {"Running"}
    \union {"Running"} \X {"PausedForApproval", "Blocked", "Failed", "Completed", "Cancelled"}
    \union {"Recovering"} \X {"Running", "Completed", "Compensated", "Failed"}
    \union {"AppReview"} \X {"Accepted", "Rejected", "Transformed", "Expired"}
    \union {"Rejected", "Expired"} \X {"Cancelled"}

Init == task = [t \in Tasks |-> "Proposed"]

\* Task::transition: a move the table does not allow leaves the task as it is.
Transition(t, next) ==
    /\ <<task[t], next>> \in CanTransition
    /\ task' = [task EXCEPT ![t] = next]

Next == \E t \in Tasks, next \in TaskStates : Transition(t, next)

Spec == Init /\ [][Next]_task
=============================================================================
