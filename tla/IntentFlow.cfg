SPECIFICATION Spec
CHECK_DEADLOCK FALSE
CONSTANTS
    MaxDepth = 2
    Resolve <- MCResolve
    Rules <- MCRules
    DefaultBudget <- MCDefaultBudget
    NoValue = NoValue
    Callers = {1, 2}
    Workloads <- MCWorkloads
    Events <- MCEvents
    MaxDeliveries = 2
    MaxIntents = 4
INVARIANTS AnswerFitsTheWords ChainSpeaksForRoot IntentIsOfItsEvent
PROPERTY ProposalIsTask
