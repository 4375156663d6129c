SPECIFICATION Spec
CHECK_DEADLOCK FALSE
CONSTANTS
    Callers = {1, 2}
    Subscribers = {"miner", "scorer", "router", "escalation"}
    MaxCalls = 4
    Workloads <- MCWorkloads
    OwnTrace <- MCOwnTrace
    Threshold = 2
    MinSessions = 2
    SuccessDelta = 30
    FailureDelta = 30
    RuleOf <- MCRuleOf
    HandRules <- MCHandRules
    Requests <- MCRequests
    MaxRules = 3
    MaxLocal = 1
INVARIANTS StoreFollowsTrace EvidenceCountsOnce LearnedIsReversible
PROPERTY RipePatternIsProposed
