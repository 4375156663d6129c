SPECIFICATION Spec
SYMMETRY TaskSymmetry
CONSTANTS
    Tasks = {t1, t2}
    Contracts <- MCContracts
    Seeds <- MCSeeds
    Intents <- MCIntents
    Score <- MCScore
    Hint <- MCHint
    Bounds <- MCBounds
    NoTenant = NoTenant
    MaxWrites = 2
    EntityAware = TRUE
    Capacity = 1
    DomainLimit = 3
    AnyLimit = 2
    MaxChanges = 2
    GraphNodes = {1, 2, 3, 4}
    MaxEdges = 4
INVARIANTS DependenciesFirst SafeUntilReplaced CacheServesItsKey GraphFollowsPlan
