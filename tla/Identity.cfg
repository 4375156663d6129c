SPECIFICATION Spec
CHECK_DEADLOCK FALSE
CONSTANTS
    Workloads = {"documents", "border", "sbom"}
    Stores = {"east", "west"}
    Seeds <- MCSeeds
    WellFormedDids = {"alice", "bob"}
    Bodies <- MCBodies
    Alterations <- MCAlterations
    Agents = {"bob", "carol"}
    Level <- MCLevel
    Capabilities = {"c1", "c2"}
    MaxDocs = 3
    MaxRevocations = 2
    MaxTime = 2
    Agreements <- MCAgreements
    MaxAgreements = 2
    Cells = {"east", "west", "north"}
    Exported <- MCExported
    NoTenant = NoTenant
    Slug <- MCSlug
    NoLocator = NoLocator
    SbomInputs <- MCSbomInputs
    MaxEntries = 2
INVARIANTS DocumentsAreFaithful DelegationAttenuates BorderIsConsistent
PROPERTY RevocationTakesEffect
