SPECIFICATION Spec
CHECK_DEADLOCK FALSE
CONSTANTS
    Runs = {r1, r2}
    Order <- MCOrder
    SideEffect <- MCSideEffect
    Compensable = {"reserve", "debit"}
    ShadowModes = {TRUE, FALSE}
    AutoApprove = {r1}
    DidRuns = {r1}
    Goal <- CleanGoals
    NodeOutputs <- MCOutputs
    Budget <- Tight
    IntentCost = 9
    CustomAnswers <- CustomRules
    StoreMayFail = TRUE
    MaxAttempts = 2
INVARIANTS ResultMatchesTrace AcceptedWithinBudget OverrunBounded WritesAreGated RolledBackIsComplete
PROPERTY EveryRunReturns
