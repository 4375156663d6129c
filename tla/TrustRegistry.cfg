SPECIFICATION TrustSpec
CONSTANTS
    MaxScore = 20
    Bootstrap = 10
    L2 = 11
    L3 = 14
    L4 = 17
    L5 = 19
    Delta <- MCDelta
    CeilingPct = 30
    FloorPct = 20
    MinExecutions = 7
    MaxEvents = 12
    Grants <- MCGrants
    Needs <- MCNeeds
INVARIANTS ViolationPins PromotionIsEarned
PROPERTY ScopesFollowTrust
