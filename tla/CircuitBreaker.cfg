SPECIFICATION Spec
CHECK_DEADLOCK FALSE
CONSTANTS
    Callers = {c1, c2}
    FailureThreshold = 2
    Window = 3
    Cooldown = 2
    MaxTime = 5
    MaxOverrides = 1
INVARIANTS ClosedBelowThreshold
PROPERTY RefusedOnlyInCooldown RefinesAbstract
