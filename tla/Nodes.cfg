SPECIFICATION Spec
CHECK_DEADLOCK FALSE
CONSTANTS
    Attempts <- MCAttempts
    Callers = {8, 9}
    Workloads <- MCWorkloads
    IntentOf <- MCIntentOf
    Children <- MCChildren
    Timeout <- MCTimeout
    MaxLatency <- MCMaxLatency
    NoTimeout = NoTimeout
    DefaultTimeout = 2
    MaxToolCalls = 2
    MaxRetries = 1
    Pricing <- MCPricing
    Tools = {"pay"}
    Handlers = {"pay"}
    Bodies <- MCBodies
    Statuses = {200, 400, 503}
    Model = "sonnet"
    CallBudget <- MCCallBudget
    Usages <- MCUsages
INVARIANTS AnswerLostOnlyInOverlap ForkSpeaksForChildren AgentsAreBounded
PROPERTY EveryForkSettles
