SPECIFICATION PolicySpec
CONSTANTS
    Scopes = {"auto-approve", "inventory:write", "restricted:read"}
    Tenants = {"t1", "t2"}
    Texts <- MCTexts
    Capabilities <- MCCapabilities
    CustomViolations <- MCCustomViolations
    Total = 5
    MaxWrites = 3
PROPERTY DecisionsAreMonotone
