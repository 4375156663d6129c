SPECIFICATION KnowledgeSpec
CHECK_DEADLOCK FALSE
CONSTANTS
    Registrars = {1, 2}
    Drafts <- MCDrafts
    Records <- MCRecords
    Untenanted = Untenanted
    MaxUpserts = 4
    MaxRemovals = 1
    MaxRecords = 2
INVARIANTS IndexIsComplete
PROPERTY FlawNeedsOverlap
